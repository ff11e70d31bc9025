----------------------------- MODULE ForkMonitor -----------------------------
(***************************************************************************)
(* The fork schedule and the task that derives the fork lifecycle from the *)
(* slot clock (anchor/common/fork): it publishes on a watch channel, keeps *)
(* the highest slot it saw, and asks for a shutdown of the client when the *)
(* clock cannot be read or rolls back over a boundary of the lifecycle.    *)
(***************************************************************************)
EXTENDS Integers, FiniteSets

CONSTANTS
    SLOTS_PER_EPOCH,
    FORK_PREPARATION_EPOCHS,
    SUBSEQUENT_WINDOW_SLOTS,
    ForkEpoch,      \* the activation epoch of every scheduled fork
    NoSlot          \* a clock that cannot be read

AllForks == {"Alan", "Boole"}
ForkIndex == [Alan |-> 1, Boole |-> 2]
Scheduled == DOMAIN ForkEpoch

\* from_fork_configs: what a schedule must satisfy.  The domain of a fork is
\* named by the fork: domains are unique.
ValidSchedule ==
    /\ "Alan" \in Scheduled /\ Scheduled \subseteq AllForks
    /\ ForkEpoch["Alan"] = 0
    /\ \A f, g \in Scheduled :
          ForkIndex[f] < ForkIndex[g] => ForkEpoch[f] < ForkEpoch[g] \/ ForkEpoch[g] = 0

ASSUME ScheduleAssumption ==
    /\ {SLOTS_PER_EPOCH, FORK_PREPARATION_EPOCHS, SUBSEQUENT_WINDOW_SLOTS} \subseteq Nat \ {0}
    /\ ForkEpoch \in [Scheduled -> Nat]
    /\ ValidSchedule
    /\ NoSlot \notin Nat

---------------------------------------------------------------------------
(* ForkSchedule.                                                           *)

epoch(slot) == slot \div SLOTS_PER_EPOCH

active_fork(e) ==
    CHOOSE f \in Scheduled :
        /\ ForkEpoch[f] <= e
        /\ \A g \in Scheduled : ForkEpoch[g] <= e => ForkIndex[g] <= ForkIndex[f]

\* next_fork_after, as a set of at most one fork
next_fork_after(e) ==
    {f \in Scheduled : /\ ForkEpoch[f] > e
                       /\ \A g \in Scheduled : ForkEpoch[g] > e => ForkEpoch[f] <= ForkEpoch[g]}

preparation_start_slot(f) ==
    (IF ForkEpoch[f] > FORK_PREPARATION_EPOCHS
     THEN ForkEpoch[f] - FORK_PREPARATION_EPOCHS ELSE 0) * SLOTS_PER_EPOCH

Normal(f) == [phase |-> "Normal", current |-> f, forks |-> {f}]
WarmUp(f, upcoming) == [phase |-> "WarmUp", current |-> f, forks |-> {f, upcoming}]
GracePeriod(f, previous) == [phase |-> "GracePeriod", current |-> f, forks |-> {f, previous}]

lifecycle_at(slot) ==
    LET f == active_fork(epoch(slot))
        upcoming == {g \in next_fork_after(epoch(slot)) : slot >= preparation_start_slot(g)}
    IN  CASE upcoming # {} -> WarmUp(f, CHOOSE g \in upcoming : TRUE)
          [] upcoming = {} /\ ForkEpoch[f] > 0
               /\ slot < ForkEpoch[f] * SLOTS_PER_EPOCH + SUBSEQUENT_WINDOW_SLOTS ->
                GracePeriod(f, active_fork(ForkEpoch[f] - 1))
          [] OTHER -> Normal(f)

---------------------------------------------------------------------------
(* The monitor.                                                            *)

VARIABLES
    clock,                  \* the slot the slot clock gives, or NoSlot
    highest_observed_slot,
    lifecycle,              \* the value of the watch channel
    unseen,                 \* the receivers that have not seen it yet
    node                    \* "up", or "stopping" once a shutdown is requested

monitorVars == <<clock, highest_observed_slot, lifecycle, unseen, node>>

Receivers == {"subnet_service", "network"}

\* spawn: the first state is derived from the current slot.
SpawnMonitor(slot) ==
    /\ highest_observed_slot = slot
    /\ lifecycle = lifecycle_at(slot)
    /\ unseen = {}

classify_observation(now) ==
    CASE now >= highest_observed_slot -> "Advanced"
      [] now < highest_observed_slot
           /\ lifecycle_at(now) = lifecycle_at(highest_observed_slot) -> "BackwardsWithinWindow"
      [] OTHER -> "BackwardsAcrossBoundary"

request_shutdown == node' = "stopping"

publish(new) ==
    /\ lifecycle' = new
    /\ unseen' = IF new = lifecycle THEN unseen ELSE Receivers

\* Mutant: the state is derived from every observation.
ObserveEveryTime ==
    /\ node = "up" /\ clock # NoSlot
    /\ highest_observed_slot' = clock
    /\ publish(lifecycle_at(clock))
    /\ UNCHANGED <<clock, node>>

\* One turn of run's loop.  The monitor stops with its shutdown request.
Observe ==
    /\ node = "up"
    /\ IF clock = NoSlot \/ classify_observation(clock) = "BackwardsAcrossBoundary"
       THEN request_shutdown /\ UNCHANGED <<highest_observed_slot, lifecycle, unseen>>
       ELSE /\ highest_observed_slot' =
                 IF classify_observation(clock) = "Advanced" THEN clock
                 ELSE highest_observed_slot
            /\ publish(lifecycle_at(highest_observed_slot'))
            /\ UNCHANGED node
    /\ UNCHANGED clock
=============================================================================
