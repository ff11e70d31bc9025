----------------------------- MODULE Processor -----------------------------
(***************************************************************************)
(* The central work processor: anchor/processor/src.  Two bounded queues   *)
(* feed one loop.  Work of urgent_consensus needs a worker permit, which   *)
(* goes back when the work's DropOnFinish guard is dropped; an immediate   *)
(* closure hands its guard on with the message it sends.  permitless work  *)
(* runs without a permit, when no urgent work can run.  No caller sets an  *)
(* expiry.                                                                 *)
(*                                                                         *)
(* The module has the loop's state and steps; what a piece of work does is *)
(* said by the module that composes with it.                               *)
(***************************************************************************)
EXTENDS Integers, Sequences

CONSTANTS
    MaxWorkers,        \* Config::max_workers
    UrgentSize,        \* the capacity of urgent_consensus
    PermitlessSize     \* the capacity of permitless

ASSUME ProcessorAssumption ==
    /\ MaxWorkers \in Nat \ {0}
    /\ UrgentSize \in Nat \ {0}
    /\ PermitlessSize \in Nat \ {0}

VARIABLES
    urgent,       \* the queue urgent_consensus
    permitless,   \* the queue permitless
    held          \* the permits that are handed out

processorVars == <<urgent, permitless, held>>

ProcessorInit ==
    /\ urgent = <<>>
    /\ permitless = <<>>
    /\ held = 0

\* send_work_item: try_send, which refuses work for a full queue.
Sent(queue, size, item) == IF Len(queue) < size THEN Append(queue, item)
                                                ELSE queue

SendUrgent(queue, item) == Sent(queue, UrgentSize, item)

UrgentFull == Len(urgent) >= UrgentSize

PermitlessFull == Len(permitless) >= PermitlessSize

\* next_work_item_with_permit: urgent work comes first while there is a
\* permit for it.
TakeUrgent ==
    /\ held < MaxWorkers
    /\ urgent # <<>>
    /\ urgent' = Tail(urgent)

\* Mutant: permitless work waits for the urgent work also without a permit.
TakePermitlessIdle ==
    /\ urgent = <<>>
    /\ permitless # <<>>
    /\ permitless' = Tail(permitless)

\* next_work_item: permitless work runs when there is no urgent work, or no
\* permit for it.
TakePermitless ==
    /\ held = MaxWorkers \/ urgent = <<>>
    /\ permitless # <<>>
    /\ permitless' = Tail(permitless)
===========================================================================
