---------------------------- MODULE ClientProofs ----------------------------
(***************************************************************************)
(* Proofs about the services of the client that do without consensus: the  *)
(* doppelganger check, the duties tracker, the voluntary exits and the     *)
(* duties signed one by one.  Each service has an inductive invariant over *)
(* its own variables and the clock; the step lemmas say that every step of *)
(* the client is one of the service, a restart, or leaves it alone.        *)
(***************************************************************************)
EXTENDS Client, FiniteSetTheorems, TLAPS

---------------------------------------------------------------------------
(* The clock.                                                              *)

\* The clock and the counters of NodeClock have their types.
ClockOK ==
    /\ config \in Scenarios
    /\ now \in Nat
    /\ boots \in Nat

\* What any step of the client may do to the shared state: the scenario
\* stays, time goes on, and only a restart counts a boot.
ClockMoves ==
    /\ config' = config
    /\ now' \in Nat /\ now' >= now
    /\ boots' = boots \/ boots' = boots + 1

LEMMA DivMonotone ==
    ASSUME NEW a \in Nat, NEW b \in Nat, a <= b
    PROVE  a \div 3 \in Nat /\ b \div 3 \in Nat /\ a \div 3 <= b \div 3
OBVIOUS

\* The slot of a later time is not an earlier one.
LEMMA SlotMonotone ==
    ASSUME ClockOK, ClockMoves
    PROVE  slot \in Nat /\ slot' \in Nat /\ slot <= slot'
<1>1. now \in Nat /\ now' \in Nat /\ now <= now'
  BY DEF ClockOK, ClockMoves
<1> QED
  BY <1>1, DivMonotone DEF slot

LEMMA SlotType == ClockOK => slot \in Nat
BY DivMonotone DEF ClockOK, slot

\* A step of one of the services.
ServiceStep ==
    \/ StoreNext \/ AggregatorNext \/ ProposalNext \/ SingleNext \/ ExitsNext
    \/ TrackerNext \/ \E m \in OwnMessages : CheckMessage(m)

LEMMA ServicesKeepClock ==
    ASSUME ServiceStep
    PROVE  UNCHANGED clockVars
<1>1. StoreNext => UNCHANGED clockVars
  BY DEF StoreNext, ChangeRegistry, ReorgDuties, update_voting_assignments,
     head_event_or_deadline, update_voting_context, remove_stale_entries,
     prune_slashing_protection_db, ValidateProposal, get_voting_context,
     decide_committee_vote, collect_signature, sign_attestations,
     sign_sync_committee_signatures, StartCall, DrainAttestations,
     DrainSyncMessages, drain_signatures, RecordAttestations
<1>2. AggregatorNext => UNCHANGED clockVars
  BY ZenonT(60) DEF AggregatorNext, update_aggregation_assignments, PublishAssignments, Execute,
     submit_and_wait, sign_single_aggregate_and_proof,
     sign_single_sync_committee_contribution, AskProof, SignProof, CollectProof,
     SignRoot, publish_committee_aggregates, CallLighthouse,
     get_aggregation_assignments
<1>3. ProposalNext => UNCHANGED clockVars
  BY ZenonT(60) DEF ProposalNext, randao_reveal, sign_block, decide_abstract_block,
     sign_abstract_block, PublishBlock, do_validation,
     sign_execution_payload_envelope, EndEnvelope
<1>4. SingleNext => UNCHANGED clockVars
  BY DEF SingleNext, AttestPayload, CallNext, EndCollection, StartPass,
     WakeRegistration, EndRegistration, broadcast_registration_data
<1>5. ExitsNext => UNCHANGED clockVars
  BY DEF ExitsNext, receive_exit_request, WakeProcessor, process_single_exit,
     RemoveExit, RemoveSlot, prune
<1>6. TrackerNext => UNCHANGED clockVars
  BY DEF TrackerNext, StartPoll, EndPoll, PollSync, PollProposers, PollPtc
<1> QED
  BY <1>1, <1>2, <1>3, <1>4, <1>5, <1>6 DEF ServiceStep, CheckMessage

LEMMA ClockStep ==
    ASSUME ClockOK, [Next]_vars
    PROVE  ClockMoves /\ ClockOK'
<1>1. CASE Tick
  BY <1>1, ClockAssumption DEF ClockOK, ClockMoves, Tick
<1>2. CASE Startup
  BY <1>2 DEF ClockOK, ClockMoves, Startup, SyncComplete, MonitorElapsed,
       MonitorDetects
<1>3. CASE Restart
  BY <1>3 DEF ClockOK, ClockMoves, Restart
<1>4. CASE UNCHANGED clockVars
  BY <1>4 DEF ClockOK, ClockMoves, clockVars
<1> QED
  BY <1>1, <1>2, <1>3, <1>4, ServicesKeepClock DEF Next, vars, ServiceStep

LEMMA ClockInitial == Init => ClockOK
BY ClockAssumption DEF Init, ClockInit, ClockOK

LEMMA ClockInduction == Spec => []ClockOK
<1>1. ClockOK /\ [Next]_vars => ClockOK'
  BY ClockStep
<1> QED
  BY <1>1, ClockInitial, PTL DEF Spec

---------------------------------------------------------------------------
(* The doppelganger check.                                                 *)

\* The process takes its start for the end of the one before it, so that none
\* of the old messages is of a later slot.
TwinInv ==
    /\ last_slot \in Nat /\ last_slot = startup_slot
    /\ NoFalseAlarm

LEMMA TwinStep ==
    ASSUME [Next]_vars
    PROVE  \/ \E m \in OwnMessages : CheckMessage(m)
           \/ SyncComplete \/ MonitorElapsed \/ MonitorDetects
           \/ Restart
           \/ Tick /\ UNCHANGED twinVars
           \/ UNCHANGED <<clockVars, twinVars>>
BY ServicesKeepClock DEF Next, vars, ServiceStep, Startup

\* The client takes no message of its own for one of a twin, with any number
\* of restarts and any delay of the messages: check_message only counts
\* messages of slots after the start of the process, and what the process
\* before it sent for later slots are proposer preferences, which do not count.
THEOREM NoFalseAlarmHolds == Spec => []NoFalseAlarm
<1>1. Init => TwinInv
  BY ClockInitial, SlotType, ClockAssumption
     DEF Init, ClockInit, TwinInit, TwinInv, NoFalseAlarm
<1>2. ClockOK /\ TwinInv /\ [Next]_vars => TwinInv'
  <2> SUFFICES ASSUME ClockOK, TwinInv, [Next]_vars
               PROVE  TwinInv'
    OBVIOUS
  <2> USE DEF TwinInv, NoFalseAlarm
  <2>1. ASSUME NEW m \in OwnMessages, CheckMessage(m)
        PROVE  TwinInv'
    <3>1. m.role # "preferences" /\ m.slot > last_slot
      BY <2>1 DEF CheckMessage, is_doppelganger
    <3>2. config.twin
      BY <3>1 DEF OwnMessages
    <3> QED
      BY <2>1, <3>2 DEF CheckMessage, clockVars
  <2>2. CASE SyncComplete \/ MonitorElapsed \/ MonitorDetects
    BY <2>2 DEF SyncComplete, MonitorElapsed, MonitorDetects, twinVars
  <2>3. CASE Restart
    BY <2>3, SlotType DEF Restart, RestartTwin
  <2>4. CASE Tick /\ UNCHANGED twinVars
    BY <2>4 DEF Tick, twinVars
  <2>5. CASE UNCHANGED <<clockVars, twinVars>>
    BY <2>5 DEF clockVars, twinVars
  <2> QED
    BY <2>1, <2>2, <2>3, <2>4, <2>5, TwinStep
<1> QED
  BY <1>1, <1>2, ClockInduction, PTL DEF Spec, TwinInv

---------------------------------------------------------------------------
(* The duties tracker.                                                     *)

\* The verdict poll_ptc_duties reaches for validator v and epoch e.
PtcVerdict(v, e) == IF epoch_of(PtcDuty[v]) = e THEN PtcDuty[v] ELSE None

\* The schedules hold verdicts on validators that were asked for, and each is
\* the one the beacon node would give.
PtcViewTrue ==
    /\ DOMAIN ptc = Epochs
    /\ \A e \in Epochs : \A v \in DOMAIN ptc[e] :
          v \in Validators /\ ptc[e][v] = PtcVerdict(v, e)

SyncViewTrue ==
    /\ DOMAIN sync_duties = Periods
    /\ \A p \in Periods : \A v \in DOMAIN sync_duties[p] :
          sync_duties[p][v] <=> v \in SyncValidators

PollsOK ==
    /\ polls \in [Tasks -> [st : {"asleep", "polling"}, at : Nat, epoch : Nat,
                            todo : SUBSET Nat, asked : SUBSET Validators]]

TrackerInv == PtcViewTrue /\ SyncViewTrue /\ PollsOK

LEMMA TrackerStep ==
    ASSUME [Next]_vars
    PROVE  \/ TrackerNext /\ UNCHANGED clockVars
           \/ RestartTracker
           \/ UNCHANGED trackerVars
BY ServicesKeepClock DEF Next, vars, ServiceStep, Startup, Restart

LEMMA EpochsType ==
    /\ Epochs \subseteq Nat /\ Periods \subseteq Nat
    /\ \A s \in Slots : epoch_of(s) \in Epochs
    /\ \A s \in Nat : epoch_of(s) \in Nat
    /\ \A e \in Nat : period_of(e) \in Nat
<1>1. \A s \in Nat, n \in Nat \ {0} : s \div n \in Nat
  OBVIOUS
<1>2. \A s \in Nat : epoch_of(s) \in Nat
  BY <1>1, ClockAssumption DEF epoch_of
<1>3. Epochs \subseteq Nat /\ \A s \in Slots : epoch_of(s) \in Epochs
  BY <1>2, TrackerAssumption DEF Epochs
<1>4. \A e \in Nat : period_of(e) \in Nat
  BY <1>1, TrackerAssumption DEF period_of
<1> QED
  BY <1>2, <1>3, <1>4 DEF Periods

LEMMA TrackerSettles ==
    ASSUME TrackerInv
    PROVE  VerdictsAreTrue
<1>1. ASSUME NEW s \in Slots, NEW v \in Validators
      PROVE  /\ ptc_assignment_at_slot(s, v) = "not assigned" => PtcDuty[v] # s
             /\ ptc_assignment_at_slot(s, v) = "assigned" => PtcDuty[v] = s
  <2>1. epoch_of(s) \in Epochs /\ s \in Nat /\ s # None
    BY EpochsType, TrackerAssumption
  <2>2. CASE v \notin DOMAIN ptc[epoch_of(s)]
    BY <2>2 DEF ptc_assignment_at_slot
  <2>3. CASE v \in DOMAIN ptc[epoch_of(s)]
    <3>1. ptc[epoch_of(s)][v] = PtcVerdict(v, epoch_of(s))
      BY <2>1, <2>3 DEF TrackerInv, PtcViewTrue
    <3> QED
      BY <2>1, <2>3, <3>1 DEF ptc_assignment_at_slot, PtcVerdict
  <2> QED
    BY <2>2, <2>3
<1> QED
  BY <1>1 DEF TrackerInv, SyncViewTrue, VerdictsAreTrue

\* The tracker never says that a validator has no duty, or has one, when it is
\* not so: whatever is added to the registry while a request is under way, an
\* answer is only read for the validators that were asked for.
THEOREM VerdictsHold == Spec => []VerdictsAreTrue
<1>1. Init => TrackerInv
  <2> SUFFICES ASSUME Init PROVE TrackerInv
    OBVIOUS
  <2>1. slot \in Nat
    BY ClockInitial, SlotType
  <2> QED
    BY <2>1 DEF Init, TrackerInit, TrackerInv, PtcViewTrue, SyncViewTrue, PollsOK,
         AsleepPoll
<1>2. ClockOK /\ TrackerInv /\ [Next]_vars => TrackerInv'
  <2> SUFFICES ASSUME ClockOK, TrackerInv, [Next]_vars
               PROVE  TrackerInv'
    OBVIOUS
  <2>0. slot \in Nat /\ SyncValidators' = SyncValidators
    BY SlotType, ClockStep DEF ClockMoves, SyncValidators
  <2>1. ASSUME NEW t \in Tasks, StartPoll(t)
        PROVE  TrackerInv'
    <3>1. PtcViewTrue'
      BY <2>1 DEF StartPoll, TrackerInv, PtcViewTrue
    <3>2. SyncViewTrue'
      BY <2>0, <2>1 DEF StartPoll, TrackerInv, SyncViewTrue
    <3>3. PollsOK'
      <4>1. epoch_of(slot) \in Nat /\ period_of(epoch_of(slot)) \in Nat
        BY <2>0, EpochsType
      <4>2. Indices \subseteq Validators
        BY DEF Indices, CommitteeIndices
      <4> QED
        BY <2>1, <4>1, <4>2 DEF StartPoll, TrackerInv, PollsOK, Tasks
    <3> QED
      BY <3>1, <3>2, <3>3 DEF TrackerInv
  <2>2. ASSUME NEW t \in Tasks, EndPoll(t)
        PROVE  TrackerInv'
    <3>1. PtcViewTrue'
      BY <2>2 DEF EndPoll, TrackerInv, PtcViewTrue
    <3>2. SyncViewTrue'
      BY <2>0, <2>2 DEF EndPoll, TrackerInv, SyncViewTrue
    <3>3. PollsOK'
      BY <2>0, <2>2 DEF EndPoll, TrackerInv, PollsOK, AsleepPoll
    <3> QED
      BY <3>1, <3>2, <3>3 DEF TrackerInv
  <2>3. ASSUME NEW p \in Periods, NEW ok \in BOOLEAN, PollSync(p, ok)
        PROVE  TrackerInv'
    <3>1. PtcViewTrue'
      BY <2>3 DEF PollSync, TrackerInv, PtcViewTrue
    <3>2. SyncViewTrue'
      BY <2>0, <2>3 DEF PollSync, TrackerInv, SyncViewTrue, Update, covered
    <3>3. PollsOK'
      BY <2>0, <2>3 DEF PollSync, TrackerInv, PollsOK, Tasks
    <3> QED
      BY <3>1, <3>2, <3>3 DEF TrackerInv
  <2>4. ASSUME NEW e \in Epochs, NEW ok \in BOOLEAN, PollProposers(e, ok)
        PROVE  TrackerInv'
    <3>1. PtcViewTrue' /\ SyncViewTrue'
      BY <2>0, <2>4 DEF PollProposers, TrackerInv, PtcViewTrue, SyncViewTrue
    <3>2. PollsOK'
      BY <2>0, <2>4 DEF PollProposers, TrackerInv, PollsOK, Tasks
    <3> QED
      BY <3>1, <3>2 DEF TrackerInv
  <2>5. ASSUME NEW e \in Epochs, NEW ok \in BOOLEAN, PollPtc(e, ok)
        PROVE  TrackerInv'
    <3>1. PtcViewTrue'
      BY <2>5 DEF PollPtc, TrackerInv, PtcViewTrue, PollsOK, Tasks, ptc_schedule,
           covered, PtcVerdict
    <3>2. SyncViewTrue'
      BY <2>0, <2>5 DEF PollPtc, TrackerInv, SyncViewTrue
    <3>3. PollsOK'
      BY <2>0, <2>5 DEF PollPtc, TrackerInv, PollsOK, Tasks
    <3> QED
      BY <3>1, <3>2, <3>3 DEF TrackerInv
  <2>6. CASE RestartTracker
    BY <2>0, <2>6 DEF RestartTracker, TrackerInv, PtcViewTrue, SyncViewTrue, PollsOK,
         AsleepPoll
  <2>7. CASE UNCHANGED trackerVars
    BY <2>0, <2>7 DEF trackerVars, TrackerInv, PtcViewTrue, SyncViewTrue, PollsOK
  <2> QED
    BY <2>1, <2>2, <2>3, <2>4, <2>5, <2>6, <2>7, TrackerStep DEF TrackerNext
<1> QED
  BY <1>1, <1>2, ClockInduction, TrackerSettles, PTL DEF Spec

---------------------------------------------------------------------------
(* Voluntary exits.                                                        *)

ExitTypes ==
    /\ exit_rx \subseteq Exits
    /\ exits_in_time \subseteq Exits
    /\ DOMAIN scheduled_exits = ExitSlots
    /\ \A s \in ExitSlots : scheduled_exits[s] \subseteq {e \in Exits : target_slot(e) = s}
    /\ processor \in [st : {"asleep", "ready", "busy", "empty"}, slot : Nat,
                      ready : SUBSET Exits, exit : Exits \cup {None}]

\* While a round of the processor lasts, it still holds every exit in time of
\* the slots up to its own, or has called process_single_exit for it; and the
\* exits it works on are none of those that still come in time.
RoundInv ==
    processor.st # "asleep" =>
        /\ processor.slot <= slot
        /\ \A e \in processor.ready : target_slot(e) <= processor.slot
        /\ \A e \in exits_in_time :
              \/ e \in exits_attempted \cup processor.ready
              \/ target_slot(e) > processor.slot

\* Between process_single_exit and the removal of the exit and of its slot.
RemovalInv ==
    /\ processor.st \in {"busy", "empty"} =>
          /\ processor.exit \in Exits /\ processor.exit \in exits_attempted
          /\ target_slot(processor.exit) <= processor.slot
    /\ processor.st = "empty" =>
          \A e \in exits_in_time :
              target_slot(e) = target_slot(processor.exit) => e \in exits_attempted

ExitInv == ExitTypes /\ RoundInv /\ RemovalInv /\ ExitsAttempted

LEMMA ExitStep ==
    ASSUME [Next]_vars
    PROVE  \/ ExitsNext /\ UNCHANGED clockVars
           \/ RestartExits
           \/ UNCHANGED exitVars
BY ServicesKeepClock DEF Next, vars, ServiceStep, Startup, Restart

LEMMA TargetSlots ==
    \A e \in Exits : target_slot(e) \in Nat /\ target_slot(e) \in ExitSlots
BY ExitAssumption DEF target_slot, ExitSlots

LEMMA SameExit ==
    ASSUME NEW e \in Exits, NEW f \in Exits,
           e.validator = f.validator, target_slot(e) = target_slot(f)
    PROVE  e = f
BY ExitAssumption DEF target_slot

\* An exit scheduled before its slot is attempted before the tracker lets go
\* of it: however long the exits before it take, what prune and
\* remove_processed_exit drop from the tracker, with the slot they empty and
\* requests that come in between, was signed or came after its slot.
THEOREM ExitsAttemptedHolds == Spec => []ExitsAttempted
<1>1. Init => ExitInv
  <2> SUFFICES ASSUME Init PROVE ExitInv
    OBVIOUS
  <2>1. slot \in Nat
    BY ClockInitial, SlotType
  <2> QED
    BY <2>1 DEF Init, ExitsInit, ExitInv, ExitTypes, RoundInv, RemovalInv,
         ExitsAttempted, AsleepUntil
<1>2. ClockOK /\ ExitInv /\ [Next]_vars => ExitInv'
  <2> SUFFICES ASSUME ClockOK, ExitInv, [Next]_vars
               PROVE  ExitInv'
    OBVIOUS
  <2>0. slot \in Nat /\ slot' \in Nat /\ slot <= slot'
    BY ClockStep, SlotMonotone
  <2> USE DEF ExitInv
  <2>1. ASSUME NEW e \in Exits, receive_exit_request(e), UNCHANGED clockVars
        PROVE  ExitInv'
    <3>1. target_slot(e) \in ExitSlots /\ target_slot(e) \in Nat /\ slot' = slot
      BY <2>1, TargetSlots DEF clockVars, slot
    <3>2. ExitTypes'
      BY <2>1, <3>1 DEF receive_exit_request, ExitTypes
    <3>3. RoundInv'
      BY <2>0, <2>1, <3>1, TargetSlots DEF receive_exit_request, RoundInv, ExitTypes
    <3>4. RemovalInv'
      <4>1. ASSUME processor.st \in {"busy", "empty"}, slot < target_slot(e)
            PROVE  target_slot(e) # target_slot(processor.exit)
        BY <2>0, <4>1, <3>1, TargetSlots DEF RemovalInv, RoundInv, ExitTypes
      <4> QED
        BY <2>1, <4>1 DEF receive_exit_request, RemovalInv
    <3>5. ExitsAttempted'
      BY <2>1, <3>1, TargetSlots DEF receive_exit_request, ExitsAttempted, ExitTypes
    <3> QED
      BY <3>2, <3>3, <3>4, <3>5
  <2>2. CASE WakeProcessor /\ UNCHANGED clockVars
    <3>1. slot' = slot
      BY <2>2 DEF clockVars, slot
    <3>2. ExitTypes'
      BY <2>0, <2>2 DEF WakeProcessor, ExitTypes, get_ready_exits
    <3>3. RoundInv'
      BY <2>0, <2>2, <3>1, TargetSlots
         DEF WakeProcessor, ExitTypes, RoundInv, get_ready_exits, ExitsAttempted
    <3>4. RemovalInv' /\ ExitsAttempted'
      BY <2>2 DEF WakeProcessor, RemovalInv, ExitsAttempted
    <3> QED
      BY <3>2, <3>3, <3>4
  <2>3. CASE process_single_exit /\ UNCHANGED clockVars
    <3>1. PICK e \in processor.ready :
             /\ processor' = [processor EXCEPT !.st = "busy", !.ready = @ \ {e}, !.exit = e]
             /\ exits_attempted' = exits_attempted \cup {e}
      BY <2>3 DEF process_single_exit
    <3>2. /\ UNCHANGED <<exit_rx, scheduled_exits, exits_in_time>>
          /\ slot' = slot /\ processor.st = "ready"
      BY <2>3 DEF process_single_exit, clockVars, slot
    <3>3. e \in Exits /\ target_slot(e) <= processor.slot
      BY <3>2 DEF ExitTypes, RoundInv
    <3>4. ExitTypes'
      BY <3>1, <3>2, <3>3 DEF ExitTypes
    <3>5. RoundInv'
      BY <3>1, <3>2, <3>3 DEF ExitTypes, RoundInv
    <3>6. RemovalInv' /\ ExitsAttempted'
      BY <3>1, <3>2, <3>3 DEF ExitTypes, RemovalInv, ExitsAttempted
    <3> QED
      BY <3>4, <3>5, <3>6
  <2>4. CASE RemoveExit /\ UNCHANGED clockVars
    <3> DEFINE e == processor.exit
               left == {x \in scheduled_exits[target_slot(e)] : x.validator # e.validator}
    <3>1. /\ processor.st = "busy" /\ slot' = slot
          /\ scheduled_exits' = [scheduled_exits EXCEPT ![target_slot(e)] = left]
          /\ processor' = [processor EXCEPT !.st = IF left = {} THEN "empty" ELSE "ready"]
          /\ UNCHANGED <<exit_rx, exits_in_time, exits_attempted>>
      BY <2>4 DEF RemoveExit, clockVars, slot
    <3>2. /\ e \in Exits /\ e \in exits_attempted
          /\ target_slot(e) <= processor.slot /\ target_slot(e) \in ExitSlots
      BY <3>1, TargetSlots DEF RemovalInv
    <3>3. ASSUME NEW x \in exits_in_time, x \notin exits_attempted,
                 target_slot(x) = target_slot(e)
          PROVE  x \in left
      BY <3>2, <3>3, SameExit DEF ExitsAttempted, ExitTypes
    <3> HIDE DEF left
    <3>4. ExitTypes'
      BY <3>1, <3>2 DEF ExitTypes, left
    <3>5. RoundInv'
      BY <3>1 DEF ExitTypes, RoundInv
    <3>6. RemovalInv'
      BY <3>1, <3>2, <3>3 DEF ExitTypes, RemovalInv
    <3>7. ExitsAttempted'
      BY <3>1, <3>2, <3>3, TargetSlots DEF ExitTypes, ExitsAttempted
    <3> QED
      BY <3>4, <3>5, <3>6, <3>7
  <2>5. CASE RemoveSlot /\ UNCHANGED clockVars
    <3>1. /\ processor.st = "empty" /\ slot' = slot
          /\ scheduled_exits' = [scheduled_exits EXCEPT ![target_slot(processor.exit)] = {}]
          /\ processor' = [processor EXCEPT !.st = "ready"]
          /\ UNCHANGED <<exit_rx, exits_in_time, exits_attempted>>
      BY <2>5 DEF RemoveSlot, clockVars, slot
    <3>2. ExitTypes'
      BY <3>1 DEF ExitTypes
    <3>3. RoundInv'
      BY <3>1 DEF ExitTypes, RoundInv
    <3>4. RemovalInv' /\ ExitsAttempted'
      BY <3>1, TargetSlots DEF ExitTypes, RemovalInv, ExitsAttempted
    <3> QED
      BY <3>2, <3>3, <3>4
  <2>6. CASE prune /\ UNCHANGED clockVars
    <3>1. /\ processor.st = "ready" /\ processor.ready = {}
          /\ scheduled_exits' = [s \in ExitSlots |->
                IF s >= processor.slot - SlotsPerEpoch THEN scheduled_exits[s] ELSE {}]
          /\ processor' = AsleepUntil(slot + 1)
          /\ UNCHANGED <<exit_rx, exits_in_time, exits_attempted>>
      BY <2>6 DEF prune
    <3>2. ExitTypes'
      BY <2>0, <3>1 DEF ExitTypes, AsleepUntil
    <3>3. RoundInv' /\ RemovalInv'
      BY <3>1 DEF RoundInv, RemovalInv, AsleepUntil
    <3>4. ExitsAttempted'
      BY <3>1, TargetSlots, ClockAssumption DEF ExitTypes, RoundInv, ExitsAttempted
    <3> QED
      BY <3>2, <3>3, <3>4
  <2>7. CASE RestartExits
    BY <2>0, <2>7 DEF RestartExits, ExitTypes, RoundInv, RemovalInv, ExitsAttempted,
         AsleepUntil
  <2>8. CASE UNCHANGED exitVars
    <3>1. ExitTypes' /\ RemovalInv' /\ ExitsAttempted'
      BY <2>8 DEF exitVars, ExitTypes, RemovalInv, ExitsAttempted
    <3>2. RoundInv'
      BY <2>0, <2>8 DEF exitVars, RoundInv, ExitTypes
    <3> QED
      BY <3>1, <3>2
  <2> QED
    BY <2>1, <2>2, <2>3, <2>4, <2>5, <2>6, <2>7, <2>8, ExitStep DEF ExitsNext
<1> QED
  BY <1>1, <1>2, ClockInduction, PTL DEF Spec, ExitInv

---------------------------------------------------------------------------
(* The duties signed one by one.                                           *)

SingleTypes ==
    /\ requests \in [SingleDuties -> [st : {"idle", "collect", "signed", "failed", "pending"},
                                      until : Nat]]
    /\ passes \in [Loops -> [began : Nat, size : Nat, left : SUBSET SingleDuties, slot : Nat]]
    /\ \A k \in Loops : Cardinality(passes[k].left) <= passes[k].size

\* The time by which a pass has the answers to all it has asked for so far.
AskedFor(k) == passes[k].size - Cardinality(passes[k].left)
PassBound(k) == passes[k].began + 3 * CollectionSlots * AskedFor(k)

\* A call under way ends by its timer, which ends within the bound of its
\* pass; a pass between two calls is within its bound.
PassInv(k) ==
    /\ \A d \in InFlight(k) : now <= requests[d].until /\ requests[d].until <= PassBound(k)
    /\ passes[k].left # {} /\ InFlight(k) = {} => now <= PassBound(k)

SingleInv == SingleTypes /\ \A k \in Loops : PassInv(k)

LEMMA SingleStep ==
    ASSUME [Next]_vars
    PROVE  \/ SingleNext /\ UNCHANGED clockVars
           \/ RestartSingle /\ UNCHANGED now
           \/ Tick /\ TimersFired /\ UNCHANGED singleDutyVars
           \/ UNCHANGED <<now, singleDutyVars>>
BY ServicesKeepClock
   DEF Next, vars, ServiceStep, Startup, Restart, SyncComplete, MonitorElapsed,
       MonitorDetects, clockVars

LEMMA OneMoreCall ==
    ASSUME NEW b \in Nat, NEW n \in Nat, NEW m \in Nat
    PROVE  /\ b + 3 * n * m \in Nat
           /\ b + 3 * n * (m + 1) = b + 3 * n * m + 3 * n
           /\ b + 3 * n * 0 = b
OBVIOUS

\* What the store answers to a call of one of the two loops: nothing, or a
\* collection that CollectionSlots slots bound.
LEMMA AnswerBounded ==
    ASSUME ClockOK, NEW d \in SingleDuties
    PROVE  /\ Answer(d) \in [st : {"collect", "failed"}, until : Nat]
           /\ d.kind \in Loops /\ Answer(d).st = "collect" =>
                 now <= Answer(d).until /\ Answer(d).until <= now + 3 * CollectionSlots
<1>1. now \in Nat /\ slot \in Nat /\ d.slot \in Nat /\ CollectionSlots \in Nat \ {0}
  BY SlotType, SingleAssumption DEF ClockOK
<1>2. \A n \in Int : /\ collect_within(n) \in [st : {"collect", "failed"}, until : Nat]
                     /\ collect_within(n).st = "collect" =>
                           now <= collect_within(n).until /\ collect_within(n).until = now + n
  BY <1>1 DEF collect_within
<1>3. Declined \in [st : {"collect", "failed"}, until : Nat] /\ Declined.st # "collect"
  BY DEF Declined
<1>4. d.kind = "ptc" \/ d.kind = "preferences" \/ d.kind = "auth"
  BY SingleAssumption
<1>5. CASE ~Active(d.validator)
  BY <1>3, <1>5 DEF Answer
<1>6. CASE Active(d.validator) /\ d.kind = "ptc"
  <2>1. Answer(d) = sign_payload_attestation(d)
    BY <1>6 DEF Answer
  <2>2. 3 * (d.slot + 1) - now \in Int
    BY <1>1
  <2> QED
    BY <1>2, <1>3, <1>6, <2>1, <2>2 DEF sign_payload_attestation, Loops
<1>7. CASE Active(d.validator) /\ d.kind = "preferences"
  <2>1. Answer(d) = sign_proposer_preferences(d)
    BY <1>7 DEF Answer
  <2> QED
    BY <1>1, <1>2, <1>3, <2>1 DEF sign_proposer_preferences
<1>8. CASE Active(d.validator) /\ d.kind = "auth"
  <2>1. Answer(d) = sign_request_auth_v1(d)
    BY <1>8 DEF Answer
  <2>2. request_auth_collection_bound(d) \in 1 .. 3 * CollectionSlots
    BY <1>1 DEF request_auth_collection_bound
  <2> QED
    BY <1>1, <1>2, <1>3, <2>1, <2>2 DEF sign_request_auth_v1
<1> QED
  BY <1>4, <1>5, <1>6, <1>7, <1>8

LEMMA PassBoundType ==
    ASSUME SingleTypes, NEW k \in Loops
    PROVE  /\ IsFiniteSet(passes[k].left) /\ Cardinality(passes[k].left) \in Nat
           /\ AskedFor(k) \in Nat /\ PassBound(k) \in Nat
<1>1. passes[k].left \subseteq SingleDuties /\ passes[k].size \in Nat /\ passes[k].began \in Nat
  BY DEF SingleTypes
<1>2. IsFiniteSet(passes[k].left)
  BY <1>1, FS_Subset, SingleAssumption
<1>3. Cardinality(passes[k].left) \in Nat
  BY <1>2, FS_CardinalityType
<1>4. AskedFor(k) \in Nat
  BY <1>1, <1>3 DEF AskedFor, SingleTypes
<1> QED
  BY <1>1, <1>2, <1>3, <1>4, OneMoreCall, SingleAssumption DEF PassBound

LEMMA SingleCallNext ==
    ASSUME ClockOK, SingleInv, NEW d \in SingleDuties, NEW k, k = d.kind, CallNext(d)
    PROVE  SingleInv'
<1>1. /\ k \in Loops /\ d \in passes[k].left /\ InFlight(k) = {}
      /\ passes' = [passes EXCEPT ![k].left = @ \ {d}]
      /\ requests' = [requests EXCEPT ![d] = Answer(d)]
      /\ now' = now
  BY DEF CallNext, clockVars
<1>2. /\ Answer(d) \in [st : {"collect", "failed"}, until : Nat]
      /\ Answer(d).st = "collect" =>
            now <= Answer(d).until /\ Answer(d).until <= now + 3 * CollectionSlots
  BY <1>1, AnswerBounded
<1>3. /\ IsFiniteSet(passes[k].left) /\ Cardinality(passes[k].left) \in Nat
      /\ AskedFor(k) \in Nat /\ PassBound(k) \in Nat
  BY <1>1, PassBoundType DEF SingleInv
<1>4. Cardinality(passes[k].left \ {d}) = Cardinality(passes[k].left) - 1
  BY <1>1, <1>3, FS_RemoveElement
<1>5. /\ passes'[k].left = passes[k].left \ {d}
      /\ passes'[k].size = passes[k].size /\ passes'[k].began = passes[k].began
      /\ \A l \in Loops \ {k} : passes'[l] = passes[l]
      /\ passes' \in [Loops -> [began : Nat, size : Nat, left : SUBSET SingleDuties, slot : Nat]]
  BY <1>1 DEF SingleInv, SingleTypes
<1>6. AskedFor(k)' = AskedFor(k) + 1
  <2>1. passes[k].size \in Nat
    BY <1>1 DEF SingleInv, SingleTypes
  <2> QED
    BY <1>3, <1>4, <1>5, <2>1 DEF AskedFor
<1>7. PassBound(k)' = PassBound(k) + 3 * CollectionSlots
  <2>1. passes[k].began \in Nat
    BY <1>1 DEF SingleInv, SingleTypes
  <2> QED
    BY <1>3, <1>5, <1>6, <2>1, OneMoreCall, SingleAssumption DEF PassBound
<1>8. SingleTypes'
  <2>1. requests' \in [SingleDuties -> [st : {"idle", "collect", "signed", "failed", "pending"},
                                        until : Nat]]
    BY <1>1, <1>2 DEF SingleInv, SingleTypes
  <2>2. ASSUME NEW l \in Loops
        PROVE  Cardinality(passes'[l].left) <= passes'[l].size
    BY <1>1, <1>3, <1>4, <1>5 DEF SingleInv, SingleTypes
  <2> QED
    BY <1>5, <2>1, <2>2 DEF SingleTypes
<1>9. now \in Nat /\ now <= PassBound(k) /\ CollectionSlots \in Nat
  BY <1>1, SingleAssumption DEF SingleInv, PassInv, ClockOK
<1>10. PassInv(k)'
  <2>1. ASSUME NEW e \in InFlight(k)'
        PROVE  e = d /\ requests'[e] = Answer(d) /\ Answer(d).st = "collect"
    BY <1>1, <2>1 DEF InFlight, SingleInv, SingleTypes
  <2> QED
    BY <1>1, <1>2, <1>3, <1>7, <1>9, <2>1 DEF PassInv
<1>11. ASSUME NEW l \in Loops \ {k}
       PROVE  PassInv(l)'
  <2>1. InFlight(l)' = InFlight(l) /\ \A e \in InFlight(l) : requests'[e] = requests[e]
    BY <1>1 DEF InFlight, SingleInv, SingleTypes
  <2>2. PassBound(l)' = PassBound(l)
    BY <1>5 DEF PassBound, AskedFor
  <2> QED
    BY <1>1, <1>5, <2>1, <2>2 DEF PassInv, SingleInv
<1> QED
  BY <1>8, <1>10, <1>11 DEF SingleInv

LEMMA SingleRequestOnly ==
    ASSUME ClockOK, SingleInv, NEW d \in SingleDuties,
           NEW r \in [st : {"collect", "signed", "failed", "pending"}, until : Nat],
           requests' = [requests EXCEPT ![d] = r],
           now' = now, passes' = passes,
           d.kind \notin Loops \/ (requests[d].st = "collect" /\ r.st # "collect")
    PROVE  SingleInv'
<1>1. SingleTypes'
  BY DEF SingleInv, SingleTypes
<1>2. ASSUME NEW k \in Loops
      PROVE  PassInv(k)'
  <2>1. PassBound(k)' = PassBound(k)
    BY DEF PassBound, AskedFor
  <2>2. \A e \in InFlight(k)' : e \in InFlight(k) /\ requests'[e] = requests[e]
    BY DEF InFlight, SingleInv, SingleTypes
  <2>3. CASE InFlight(k)' = InFlight(k)
    BY <2>1, <2>2, <2>3 DEF PassInv, SingleInv
  <2>4. CASE InFlight(k)' # InFlight(k)
    <3>1. d \in InFlight(k)
      BY <2>4 DEF InFlight, SingleInv, SingleTypes
    <3>2. requests[d].until \in Nat /\ PassBound(k) \in Nat
      BY PassBoundType DEF SingleInv, SingleTypes
    <3>3. now <= requests[d].until /\ requests[d].until <= PassBound(k)
      BY <3>1 DEF PassInv, SingleInv
    <3> QED
      BY <2>1, <2>2, <3>2, <3>3 DEF PassInv, SingleInv, ClockOK
  <2> QED
    BY <2>3, <2>4
<1> QED
  BY <1>1, <1>2 DEF SingleInv

LEMMA SingleStartPass ==
    ASSUME ClockOK, SingleInv, NEW k \in Loops, StartPass(k)
    PROVE  SingleInv'
<1> DEFINE left == {d \in config.single : /\ d.kind = k /\ requests[d].st # "signed"
                                          /\ k = "auth" => d.slot >= slot}
<1>1. /\ passes' = [passes EXCEPT ![k] = [began |-> now, size |-> Cardinality(left),
                                          left |-> left, slot |-> slot]]
      /\ requests' = requests /\ now' = now /\ InFlight(k) = {}
  BY DEF StartPass, clockVars
<1>2. left \subseteq SingleDuties
  BY SingleAssumption DEF ClockOK
<1>3. IsFiniteSet(left) /\ Cardinality(left) \in Nat
  BY <1>2, FS_Subset, FS_CardinalityType, SingleAssumption
<1>4. slot \in Nat /\ now \in Nat /\ CollectionSlots \in Nat
  BY SlotType, SingleAssumption DEF ClockOK
<1> HIDE DEF left
<1>5. /\ passes'[k] = [began |-> now, size |-> Cardinality(left), left |-> left, slot |-> slot]
      /\ \A l \in Loops \ {k} : passes'[l] = passes[l]
      /\ passes' \in [Loops -> [began : Nat, size : Nat, left : SUBSET SingleDuties, slot : Nat]]
  BY <1>1, <1>2, <1>3, <1>4 DEF SingleInv, SingleTypes
<1>6. SingleTypes'
  <2>1. ASSUME NEW l \in Loops
        PROVE  Cardinality(passes'[l].left) <= passes'[l].size
    BY <1>3, <1>5 DEF SingleInv, SingleTypes
  <2> QED
    BY <1>1, <1>5, <2>1 DEF SingleInv, SingleTypes
<1>7. \A l \in Loops : InFlight(l)' = InFlight(l)
  BY <1>1 DEF InFlight
<1>8. PassBound(k)' = now
  BY <1>3, <1>4, <1>5, OneMoreCall DEF PassBound, AskedFor
<1>9. ASSUME NEW l \in Loops
      PROVE  PassInv(l)'
  <2>1. CASE l = k
    BY <1>1, <1>4, <1>7, <1>8, <2>1 DEF PassInv
  <2>2. CASE l # k
    <3>1. PassBound(l)' = PassBound(l)
      BY <1>5, <2>2 DEF PassBound, AskedFor
    <3> QED
      BY <1>1, <1>5, <1>7, <2>2, <3>1 DEF PassInv, SingleInv
  <2> QED
    BY <2>1, <2>2
<1> QED
  BY <1>6, <1>9 DEF SingleInv

\* No proposal of a pass waits for longer than CollectionSlots slots on each
\* of the ones before it, for any number of proposals and any behaviour of the
\* other operators: collect_within bounds each call of the loop.
THEOREM NoBlockingHolds == Spec => []NoHeadOfLineBlocking
<1>1. Init => SingleInv
  <2> SUFFICES ASSUME Init PROVE SingleInv
    OBVIOUS
  <2>1. slot \in Nat
    BY ClockInitial, SlotType
  <2>2. \A k \in Loops : InFlight(k) = {} /\ passes[k].left = {} /\ Cardinality({}) = 0
    BY FS_EmptySet DEF Init, SingleInit, InFlight, NoRequest, NoPass
  <2>3. SingleTypes
    <3>1. /\ requests \in [SingleDuties -> [st : {"idle", "collect", "signed", "failed",
                                                "pending"}, until : Nat]]
      <4>1. requests = [d \in SingleDuties |-> [st |-> "idle", until |-> 0]]
        BY DEF Init, SingleInit, NoRequest
      <4> QED
        BY <4>1
    <3>2. /\ passes \in [Loops -> [began : Nat, size : Nat, left : SUBSET SingleDuties,
                                   slot : Nat]]
          /\ \A k \in Loops : passes[k].size = 0
      BY <2>1 DEF Init, SingleInit, NoPass
    <3>3. \A k \in Loops : Cardinality(passes[k].left) <= passes[k].size
      BY <2>2, <3>2
    <3> QED
      BY <3>1, <3>2, <3>3 DEF SingleTypes
  <2> QED
    BY <2>2, <2>3 DEF SingleInv, PassInv
<1>2. ClockOK /\ SingleInv /\ [Next]_vars => SingleInv'
  <2> SUFFICES ASSUME ClockOK, SingleInv, [Next]_vars
               PROVE  SingleInv'
    OBVIOUS
  <2>0. config.single \subseteq SingleDuties /\ slot \in Nat
    BY SingleAssumption, SlotType DEF ClockOK
  <2>1. ASSUME NEW d \in config.single, AttestPayload(d)
        PROVE  SingleInv'
    BY <2>0, <2>1, AnswerBounded, SingleRequestOnly DEF AttestPayload, clockVars, Loops
  <2>2. ASSUME NEW d \in config.single, CallNext(d)
        PROVE  SingleInv'
    BY <2>0, <2>2, SingleCallNext
  <2>3. ASSUME NEW d \in config.single, EndCollection(d)
        PROVE  SingleInv'
    <3>1. PICK st \in {"signed", "failed", "pending"} :
             requests' = [requests EXCEPT ![d] = [st |-> st, until |-> 0]]
      BY <2>3 DEF EndCollection, report_collection_failure
    <3> QED
      BY <2>0, <2>3, <3>1, SingleRequestOnly DEF EndCollection, clockVars
  <2>4. ASSUME NEW k \in Loops, StartPass(k)
        PROVE  SingleInv'
    BY <2>4, SingleStartPass
  <2>5. CASE UNCHANGED <<now, requests, passes>>
    <3>1. SingleTypes'
      BY <2>5 DEF SingleInv, SingleTypes
    <3>2. \A k \in Loops : InFlight(k)' = InFlight(k) /\ PassBound(k)' = PassBound(k)
      BY <2>5 DEF InFlight, PassBound, AskedFor
    <3> QED
      BY <2>5, <3>1, <3>2 DEF SingleInv, PassInv
  <2>6. CASE RestartSingle /\ UNCHANGED now
    <3>1. \A k \in Loops : InFlight(k)' = {} /\ passes'[k].left = {} /\ Cardinality({}) = 0
      BY <2>6, FS_EmptySet DEF RestartSingle, InFlight, NoRequest, NoPass
    <3>2. SingleTypes'
      BY <2>0, <2>6, <3>1 DEF RestartSingle, SingleTypes, NoRequest, NoPass
    <3> QED
      BY <3>1, <3>2 DEF SingleInv, PassInv
  <2>7. CASE Tick /\ TimersFired /\ UNCHANGED singleDutyVars
    <3>1. SingleTypes'
      BY <2>7 DEF SingleInv, SingleTypes, singleDutyVars
    <3>2. \A k \in Loops : /\ InFlight(k)' = InFlight(k) /\ PassBound(k)' = PassBound(k)
                           /\ passes[k].left # {} => InFlight(k) # {}
                           /\ \A d \in InFlight(k) : now' <= requests[d].until
      BY <2>7 DEF InFlight, PassBound, AskedFor, TimersFired, singleDutyVars
    <3> QED
      BY <2>7, <3>1, <3>2 DEF SingleInv, PassInv, singleDutyVars
  <2>8. CASE SingleNext /\ UNCHANGED clockVars
    <3>1. CASE \/ WakeRegistration
               \/ \E s \in Slots, v \in Validators : EndRegistration(s, v)
               \/ \E s \in Slots : broadcast_registration_data(s)
      <4>1. UNCHANGED <<now, requests, passes>>
        BY <3>1 DEF WakeRegistration, EndRegistration, broadcast_registration_data, clockVars
      <4> QED
        BY <4>1, <2>5
    <3> QED
      BY <2>1, <2>2, <2>3, <2>4, <2>8, <3>1 DEF SingleNext
  <2> QED
    BY <2>5, <2>6, <2>7, <2>8, SingleStep DEF singleDutyVars
<1>3. ClockOK /\ SingleInv => NoHeadOfLineBlocking
  <2> SUFFICES ASSUME ClockOK, SingleInv, NEW k \in Loops, passes[k].left # {}
               PROVE  now <= PassBound(k)
    BY DEF NoHeadOfLineBlocking, PassBound, AskedFor
  <2>1. PassBound(k) \in Nat /\ now \in Nat
    BY PassBoundType DEF SingleInv, ClockOK
  <2>2. CASE InFlight(k) = {}
    BY <2>2 DEF SingleInv, PassInv
  <2>3. ASSUME NEW d \in InFlight(k)
        PROVE  now <= PassBound(k)
    <3>1. requests[d].until \in Nat
      BY DEF InFlight, SingleInv, SingleTypes
    <3>2. now <= requests[d].until /\ requests[d].until <= PassBound(k)
      BY DEF SingleInv, PassInv
    <3> QED
      BY <2>1, <3>1, <3>2
  <2> QED
    BY <2>2, <2>3
<1> QED
  BY <1>1, <1>2, <1>3, ClockInduction, PTL DEF Spec

=============================================================================
