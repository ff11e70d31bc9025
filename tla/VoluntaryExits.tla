--------------------------- MODULE VoluntaryExits ---------------------------
(***************************************************************************)
(* Voluntary exits: the requests the event processor sends, the tracker    *)
(* they are scheduled in (duties_tracker/src/voluntary_exit_tracker.rs)    *)
(* and the processor that signs and submits those of the own validators    *)
(* (eth/src/voluntary_exit_processor.rs).  Signing an exit waits for a     *)
(* quorum, for many slots if need be, while requests keep coming.          *)
(***************************************************************************)
EXTENDS NodeClock

CONSTANTS
    Exits,              \* records of validator, block (its slot) and own
    PostponeSlots       \* VOLUNTARY_EXIT_SLOTS_TO_POSTPONE

\* An exit is known by its validator and its block.
ASSUME ExitAssumption ==
    /\ PostponeSlots \in Nat
    /\ \A e \in Exits : e.block \in Nat
    /\ \A e, f \in Exits : e.validator = f.validator /\ e.block = f.block => e = f

VARIABLES
    exit_rx,            \* the requests not received yet
    scheduled_exits,    \* the own exits of each slot
    all_duties_by_slot, \* the exits of each slot, for the duty limits
    processor,          \* process_scheduled_exits
    exits_in_time,      \* exits scheduled before their slot
    exits_attempted     \* exits process_single_exit was called for

exitVars == <<exit_rx, scheduled_exits, all_duties_by_slot, processor,
              exits_in_time, exits_attempted>>

target_slot(e) == e.block + PostponeSlots
ExitSlots == {target_slot(e) : e \in Exits}
AsleepUntil(s) == [st |-> "asleep", slot |-> s, ready |-> {}, exit |-> None]

ExitsInit ==
    /\ exit_rx = IF "exits" \in config.parts THEN Exits ELSE {}
    /\ scheduled_exits = [s \in ExitSlots |-> {}]
    /\ all_duties_by_slot = [s \in ExitSlots |-> {}]
    /\ processor = AsleepUntil(slot)
    /\ exits_in_time = {} /\ exits_attempted = {}

\* The tracker is not stored: what it held is forgotten.
RestartExits ==
    /\ scheduled_exits' = [s \in ExitSlots |-> {}]
    /\ all_duties_by_slot' = [s \in ExitSlots |-> {}]
    /\ processor' = AsleepUntil(slot)
    /\ exits_in_time' = {}
    /\ UNCHANGED <<exit_rx, exits_attempted>>

\* receive_exit_requests and add_duty_for_slot
receive_exit_request(e) ==
    LET s == target_slot(e)
    IN  /\ stage # "stopped" /\ e \in exit_rx /\ e.block <= slot
        /\ exit_rx' = exit_rx \ {e}
        /\ all_duties_by_slot' = [all_duties_by_slot EXCEPT ![s] = @ \cup {e}]
        /\ scheduled_exits' = IF e.own THEN [scheduled_exits EXCEPT ![s] = @ \cup {e}]
                              ELSE scheduled_exits
        /\ exits_in_time' = IF e.own /\ slot < s THEN exits_in_time \cup {e}
                            ELSE exits_in_time
        /\ UNCHANGED <<clockVars, processor, exits_attempted>>

\* Mutant: only the exits of this very slot.
get_ready_exits_exact(current) ==
    UNION {scheduled_exits[s] : s \in ExitSlots \cap {current}}

\* The exits at or before a slot.
get_ready_exits(current) ==
    UNION {scheduled_exits[s] : s \in {x \in ExitSlots : x <= current}}

WakeProcessor ==
    /\ stage # "stopped" /\ "exits" \in config.parts
    /\ processor.st = "asleep" /\ slot >= processor.slot
    /\ processor' = [st |-> "ready", slot |-> slot, ready |-> get_ready_exits(slot),
                     exit |-> None]
    /\ UNCHANGED <<clockVars, exit_rx, scheduled_exits, all_duties_by_slot,
                   exits_in_time, exits_attempted>>

\* process_single_exit begins; the collection of the signature has no bound
process_single_exit ==
    /\ processor.st = "ready"
    /\ \E e \in processor.ready :
          /\ processor' = [processor EXCEPT !.st = "busy", !.ready = @ \ {e}, !.exit = e]
          /\ exits_attempted' = exits_attempted \cup {e}
    /\ UNCHANGED <<clockVars, exit_rx, scheduled_exits, all_duties_by_slot, exits_in_time>>

\* It ends, well or not: remove_processed_exit drops the exit, and the guard
\* of a list that is now empty before the list.
RemoveExit ==
    LET e == processor.exit
        left == {x \in scheduled_exits[target_slot(e)] : x.validator # e.validator}
    IN  /\ processor.st = "busy"
        /\ scheduled_exits' = [scheduled_exits EXCEPT ![target_slot(e)] = left]
        /\ processor' = [processor EXCEPT !.st = IF left = {} THEN "empty" ELSE "ready"]
        /\ UNCHANGED <<clockVars, exit_rx, all_duties_by_slot, exits_in_time, exits_attempted>>

RemoveSlot ==
    /\ processor.st = "empty"
    /\ scheduled_exits' = [scheduled_exits EXCEPT ![target_slot(processor.exit)] = {}]
    /\ processor' = [processor EXCEPT !.st = "ready"]
    /\ UNCHANGED <<clockVars, exit_rx, all_duties_by_slot, exits_in_time, exits_attempted>>

\* prune keeps an epoch before the slot the round began in
prune ==
    LET keep(f) == [s \in ExitSlots |-> IF s >= processor.slot - SlotsPerEpoch
                                        THEN f[s] ELSE {}]
    IN  /\ processor.st = "ready" /\ processor.ready = {}
        /\ scheduled_exits' = keep(scheduled_exits)
        /\ all_duties_by_slot' = keep(all_duties_by_slot)
        /\ processor' = AsleepUntil(slot + 1)
        /\ UNCHANGED <<clockVars, exit_rx, exits_in_time, exits_attempted>>

ExitsNext ==
    \/ \E e \in Exits : receive_exit_request(e)
    \/ WakeProcessor
    \/ process_single_exit
    \/ RemoveExit
    \/ RemoveSlot
    \/ prune

(***************************************************************************)
(* No exit is dropped unattempted: an exit of an own validator that was    *)
(* scheduled before its slot stays in the tracker until                    *)
(* process_single_exit is called for it, however long the exits before it  *)
(* keep the processor waiting (process_scheduled_exits, prune and          *)
(* remove_processed_exit).                                                 *)
(***************************************************************************)
ExitsAttempted ==
    \A e \in exits_in_time :
        e \in exits_attempted \/ e \in scheduled_exits[target_slot(e)]
============================================================================
