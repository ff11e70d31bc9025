---------------------------- MODULE Doppelganger ----------------------------
(***************************************************************************)
(* Operator doppelganger protection (operator_doppelganger/src/service.rs) *)
(* with the stages of Client::run that wait for it.  From the start of the *)
(* process until the end of the monitoring period a message of the own     *)
(* operator for a slot after the start means that a second process of the  *)
(* operator is running.  Messages of the process before a restart are      *)
(* still delivered, and the end of the period may come together with the   *)
(* message of a twin.                                                      *)
(***************************************************************************)
EXTENDS NodeClock

CONSTANT WaitEpochs     \* operator_dg_wait_epochs

VARIABLES
    startup_slot,
    is_monitoring,
    twin_detected,      \* the watch channel
    monitor_until,      \* the end of the sleep in monitor_blocking
    last_slot           \* the last slot of the process before this one

twinVars == <<startup_slot, is_monitoring, twin_detected, monitor_until, last_slot>>

TwinInit ==
    /\ startup_slot = slot
    /\ is_monitoring = config.operator_dg
    /\ twin_detected = FALSE
    /\ monitor_until = None
    /\ last_slot = slot           \* a process of this operator ran before

RestartTwin ==
    /\ startup_slot' = slot
    /\ is_monitoring' = config.operator_dg
    /\ twin_detected' = FALSE
    /\ monitor_until' = None
    /\ last_slot' = slot

\* The messages that may arrive signed by the own operator alone: of the
\* process before this one, for the slots it lived in and, as proposer
\* preferences, for slots to come; and of a twin, if there is one.
OwnMessages ==
    [from : {"before"}, role : {"duty"}, slot : {last_slot}]
    \cup [from : {"before"}, role : {"preferences"}, slot : {last_slot + 1}]
    \cup IF config.twin THEN [from : {"twin"}, role : {"duty"}, slot : {slot}] ELSE {}

\* Mutant: a message of the starting slot counts.
is_doppelganger_same_slot(m) ==
    m.role # "preferences" /\ m.slot >= startup_slot

\* The own operator id is known once the sync got to it.
is_doppelganger(m) ==
    m.role # "preferences" /\ m.slot > startup_slot

\* receive of the message receiver and check_message; a message is dropped
\* while monitoring goes on
CheckMessage(m) ==
    /\ stage # "stopped" /\ is_monitoring /\ ~twin_detected
    /\ m \in OwnMessages /\ is_doppelganger(m)
    /\ twin_detected' = TRUE
    /\ UNCHANGED <<clockVars, startup_slot, is_monitoring, monitor_until, last_slot>>

\* is_synced: monitor_blocking starts, or the services at once
SyncComplete ==
    /\ stage = "syncing"
    /\ IF config.operator_dg
       THEN /\ stage' = "monitoring"
            /\ monitor_until' = now + 3 * WaitEpochs * SlotsPerEpoch
            /\ UNCHANGED booted
       ELSE /\ stage' = "running" /\ booted' = slot
            /\ UNCHANGED monitor_until
    /\ UNCHANGED <<config, now, boots, startup_slot, is_monitoring, twin_detected, last_slot>>

\* The two arms of the select! in monitor_blocking; when both are ready
\* either may be taken.
MonitorElapsed ==
    /\ stage = "monitoring" /\ now >= monitor_until
    /\ is_monitoring' = FALSE
    /\ stage' = "running" /\ booted' = slot
    /\ UNCHANGED <<config, now, boots, startup_slot, twin_detected, monitor_until, last_slot>>

MonitorDetects ==
    /\ stage = "monitoring" /\ twin_detected
    /\ stage' = "stopped"
    /\ UNCHANGED <<config, now, boots, booted, twinVars>>

(***************************************************************************)
(* No false alarm: the client only stops itself when a second process of   *)
(* its operator really runs; what it sent itself before a restart, however *)
(* late it arrives, never stops it (is_doppelganger, startup_slot).        *)
(***************************************************************************)
NoFalseAlarm ==
    twin_detected \/ stage = "stopped" => config.twin
============================================================================
