--------------------------- MODULE DutiesTracker ---------------------------
(***************************************************************************)
(* The duties tracker (duties_tracker/src), which the message validator    *)
(* asks for sync committee membership, proposers and payload timeliness    *)
(* committee (PTC) duties.  Three tasks poll the beacon nodes, one request *)
(* at a time, for the validators the registry had when the request was     *)
(* made; validators come while it is under way.                            *)
(***************************************************************************)
EXTENDS ValidatorStore

CONSTANTS
    PtcDuty,            \* the slot each validator attests payloads in
    ProposerDuty,       \* the proposer of each slot
    EpochsPerPeriod,    \* epochs_per_sync_committee_period
    HistoricalEpochs    \* HISTORICAL_DUTIES_EPOCHS

ASSUME TrackerAssumption ==
    /\ PtcDuty \in [Validators -> Nat]
    /\ Slots \subseteq Nat
    /\ EpochsPerPeriod \in Nat \ {0}
    /\ None \notin Nat

VARIABLES
    sync_duties,        \* committee_membership of SyncCommitteePerPeriod
    proposers,          \* ProposerMap, by epoch
    ptc,                \* PtcSchedule, by epoch: a verdict per requested validator
    polls               \* the three polling tasks

trackerVars == <<sync_duties, proposers, ptc, polls>>

Epochs == {epoch_of(s) : s \in Slots} \cup {1 + epoch_of(s) : s \in Slots}
period_of(e) == e \div EpochsPerPeriod
Periods == {period_of(e) : e \in Epochs} \cup {1 + period_of(e) : e \in Epochs}
Tasks == {"sync_poll", "proposer_poll", "ptc_poll"}
AsleepPoll(s) == [st |-> "asleep", at |-> s, epoch |-> 0, todo |-> {}, asked |-> {}]

TrackerInit ==
    /\ sync_duties = [p \in Periods |-> <<>>]
    /\ proposers = [e \in Epochs |-> None]
    /\ ptc = [e \in Epochs |-> <<>>]
    /\ polls = [t \in Tasks |-> AsleepPoll(slot)]

RestartTracker ==
    /\ sync_duties' = [p \in Periods |-> <<>>]
    /\ proposers' = [e \in Epochs |-> None]
    /\ ptc' = [e \in Epochs |-> <<>>]
    /\ polls' = [t \in Tasks |-> AsleepPoll(slot)]

\* Functions from some validators to a verdict; the others are unknown.
Update(f, g) == [v \in DOMAIN f \cup DOMAIN g |-> IF v \in DOMAIN g THEN g[v] ELSE f[v]]
Indices == CommitteeIndices

\* A poll starts in its slot.  The periods or epochs to ask for are fixed,
\* and for PTC duties the validators; the view of old epochs goes.
StartPoll(t) ==
    LET e == epoch_of(slot)
    IN  /\ stage # "stopped" /\ t \in config.parts /\ slot \in config.slots
        /\ polls[t].st = "asleep" /\ slot >= polls[t].at
        /\ polls' = [polls EXCEPT ![t] =
              [st |-> "polling", at |-> 0, epoch |-> e,
               todo |-> CASE t = "sync_poll" -> {period_of(e)}
                              \cup IF e % EpochsPerPeriod >= EpochsPerPeriod \div 2
                                   THEN {period_of(e) + 1} ELSE {}
                          [] t = "proposer_poll" -> {e, e + 1}
                          [] t = "ptc_poll" -> IF e < GloasEpoch \/ Indices = {} THEN {} ELSE {e},
               asked |-> Indices]]
        /\ ptc' = IF t # "ptc_poll" THEN ptc
                  ELSE [x \in Epochs |->
                           IF x + 1 < e \/ (x = e /\ e >= GloasEpoch /\ Indices = {})
                           THEN <<>> ELSE ptc[x]]
        /\ UNCHANGED <<clockVars, storeVars, sync_duties, proposers>>

\* Mutant: the answer is taken to cover the validators known by now.
covered_now(asked) == Indices

\* The indices a request was made for.
covered(asked) == asked

\* poll_sync_committee_duties_for_period: the answer covers the validators
\* that were missing
PollSync(p, ok) ==
    LET missing == covered(polls["sync_poll"].asked) \ DOMAIN sync_duties[p]
    IN  /\ polls["sync_poll"].st = "polling" /\ p \in polls["sync_poll"].todo
        /\ \A q \in polls["sync_poll"].todo : p <= q
        /\ polls' = [polls EXCEPT !["sync_poll"].todo = @ \ {p}]
        /\ sync_duties' =
              IF ok THEN [sync_duties EXCEPT ![p] = Update(@,
                     [v \in missing |-> v \in SyncValidators /\ v \in polls["sync_poll"].asked])]
              ELSE sync_duties
        /\ UNCHANGED <<clockVars, storeVars, proposers, ptc>>

\* ProposerSchedule::from_response: a proposer for every slot of the epoch, or
\* the answer is malformed
proposer_schedule(e) == [s \in {x \in Slots : epoch_of(x) = e} |-> ProposerDuty[s]]

\* poll_beacon_proposers and install_proposer_schedule: a complete answer is
\* the new view; after an error or a malformed answer the old one stays
PollProposers(e, ok) ==
    /\ polls["proposer_poll"].st = "polling" /\ e \in polls["proposer_poll"].todo
    /\ polls' = [polls EXCEPT !["proposer_poll"].todo = @ \ {e}]
    /\ proposers' = IF ok /\ e \in Epochs
                    THEN [proposers EXCEPT ![e] = proposer_schedule(e)]
                    ELSE proposers
    /\ UNCHANGED <<clockVars, storeVars, sync_duties, ptc>>

\* PtcSchedule::from_response: a duty of a validator that was not asked for,
\* out of the epoch or twice makes the answer malformed; a validator without
\* one has none
ptc_schedule(e, asked) ==
    [v \in covered(asked) |-> IF v \in asked /\ epoch_of(PtcDuty[v]) = e THEN PtcDuty[v] ELSE None]

\* poll_ptc_duties
PollPtc(e, ok) ==
    /\ polls["ptc_poll"].st = "polling" /\ e \in polls["ptc_poll"].todo
    /\ polls' = [polls EXCEPT !["ptc_poll"].todo = @ \ {e}]
    /\ ptc' = IF ok THEN [ptc EXCEPT ![e] = ptc_schedule(e, polls["ptc_poll"].asked)] ELSE ptc
    /\ UNCHANGED <<clockVars, storeVars, sync_duties, proposers>>

\* The poll is done: past periods and epochs go, and the task sleeps into the
\* next slot.
EndPoll(t) ==
    LET e == polls[t].epoch
    IN  /\ polls[t].st = "polling" /\ polls[t].todo = {}
        /\ polls' = [polls EXCEPT ![t] = AsleepPoll(slot + 1)]
        /\ sync_duties' = IF t # "sync_poll" THEN sync_duties
                          ELSE [p \in Periods |-> IF p >= period_of(e) THEN sync_duties[p]
                                                  ELSE <<>>]
        /\ proposers' = IF t # "proposer_poll" THEN proposers
                        ELSE [x \in Epochs |-> IF x + HistoricalEpochs >= e THEN proposers[x]
                                               ELSE None]
        /\ UNCHANGED <<clockVars, storeVars, ptc>>

TrackerNext ==
    \/ \E t \in Tasks : StartPoll(t) \/ EndPoll(t)
    \/ \E ok \in BOOLEAN :
          \/ \E p \in Periods : PollSync(p, ok)
          \/ \E e \in Epochs : PollProposers(e, ok) \/ PollPtc(e, ok)

\* ptc_assignment_at_slot
ptc_assignment_at_slot(s, v) ==
    LET view == ptc[epoch_of(s)]
    IN  IF v \notin DOMAIN view THEN "unknown"
        ELSE IF view[v] = s THEN "assigned" ELSE "not assigned"

(***************************************************************************)
(* A verdict is never a guess: a validator the tracker says has no duty,   *)
(* PTC or sync committee, really has none, even when it was added to the   *)
(* registry while the request was under way (poll_ptc_duties,              *)
(* poll_sync_committee_duties_for_period).                                 *)
(***************************************************************************)
VerdictsAreTrue ==
    /\ \A s \in Slots, v \in Validators :
          /\ ptc_assignment_at_slot(s, v) = "not assigned" => PtcDuty[v] # s
          /\ ptc_assignment_at_slot(s, v) = "assigned" => PtcDuty[v] = s
    /\ \A p \in Periods : \A v \in DOMAIN sync_duties[p] :
          sync_duties[p][v] <=> v \in SyncValidators
============================================================================
