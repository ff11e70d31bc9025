----------------------------- MODULE NodeClock -----------------------------
(***************************************************************************)
(* What the services of the client share: the slot clock and the stage of  *)
(* Client::run, which starts the duty services last.  Time is counted in   *)
(* thirds of a slot, the grain of the duty deadlines.                      *)
(***************************************************************************)
EXTENDS Integers, FiniteSets, Sequences

CONSTANTS
    Scenarios,          \* the set-ups to start from; config is one of them
    SlotsPerEpoch,
    None

ASSUME ClockAssumption ==
    /\ SlotsPerEpoch \in Nat \ {0}
    /\ \A c \in Scenarios : /\ c.times \subseteq Nat
                            /\ c.stage \in {"syncing", "running"}

VARIABLES
    config,
    now,        \* time since genesis, in thirds of a slot
    stage,      \* "syncing", "monitoring", "running" or "stopped"
    boots,      \* restarts so far
    booted      \* the slot in which the duty services started

clockVars == <<config, now, stage, boots, booted>>

slot == now \div 3
third == now % 3
epoch_of(s) == s \div SlotsPerEpoch

ClockInit ==
    /\ config \in Scenarios
    /\ now \in config.times /\ \A t \in config.times : now <= t
    /\ stage = config.stage
    /\ boots = 0
    /\ booted = slot

\* The next of the instants the scenario looks at: thirds or whole slots
Tick ==
    /\ now' \in {t \in config.times : t > now}
    /\ \A t \in config.times : t > now => now' <= t
    /\ UNCHANGED <<config, stage, boots, booted>>
============================================================================
