----------------------------- MODULE Consensus -----------------------------
(***************************************************************************)
(* What a QBFT instance promises to the duties that wait for it: at most   *)
(* one value is ever chosen, an operator completes with the chosen value,  *)
(* if its own validator accepts it, or with a timeout, and a completion is *)
(* final, except that a process that restarts forgets its own.             *)
(***************************************************************************)
CONSTANTS Operators, Active, Amnesic, Values, Valid, NoRoot, TimedOut

VARIABLES
    chosen,     \* the chosen values, at most one
    completed   \* NoRoot while running, a value, or TimedOut

Init ==
    /\ chosen = {}
    /\ completed = [o \in Operators |-> NoRoot]

Choose(v) ==
    /\ chosen = {}
    /\ chosen' = {v}
    /\ UNCHANGED completed

Decide(o, v) ==
    /\ completed[o] = NoRoot
    /\ v \in chosen \cap Valid[o]
    /\ completed' = [completed EXCEPT ![o] = v]
    /\ UNCHANGED chosen

TimeOut(o) ==
    /\ completed[o] = NoRoot
    /\ completed' = [completed EXCEPT ![o] = TimedOut]
    /\ UNCHANGED chosen

Forget(o) ==
    /\ o \in Amnesic
    /\ completed' = [completed EXCEPT ![o] = NoRoot]
    /\ UNCHANGED chosen

Next ==
    \/ \E v \in Values : Choose(v)
    \/ \E o \in Active :
          \/ \E v \in Values : Decide(o, v)
          \/ TimeOut(o)
          \/ Forget(o)

Spec == Init /\ [][Next]_<<chosen, completed>>
============================================================================
