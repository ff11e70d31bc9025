---------------------------- MODULE StoreProofs ----------------------------
(***************************************************************************)
(* Proofs about the validator store: what it signs is not slashable, the   *)
(* envelopes follow their blocks, each message and each aggregate leaves   *)
(* once, and a complete batch does leave.  The invariants are over the     *)
(* voting contexts and the calls of the duty services (PipelineInv), the   *)
(* slashing protection database (SlashingInv), the decided blocks on       *)
(* record and the envelopes registered with them (EnvelopeInv), the        *)
(* outgoing batches of the committee and of each validator (CommitteeInv,  *)
(* ValidatorInv), the two paths an aggregate is published by               *)
(* (AggregatesInv) and what the calls of a slot have signed of its batch   *)
(* (SteadyInv).                                                            *)
(***************************************************************************)
EXTENDS ClientProofs, WellFoundedInduction

---------------------------------------------------------------------------
(* Extrema of sets of numbers.                                             *)

LEMMA LessTransitive ==
    ASSUME NEW x \in Nat, NEW y \in Nat, NEW z \in Nat, x < y, y <= z
    PROVE  x < z
OBVIOUS

LEMMA LeastElement ==
    ASSUME NEW T \in SUBSET Nat, T # {}
    PROVE  \E t \in T : \A u \in T : t <= u
<1> DEFINE R == OpToRel(<, Nat)
<1>1. IsWellFoundedOn(R, Nat)
  BY NatLessThanWellFounded
<1>2. \A u, t \in Nat : u < t => <<u, t>> \in R
  BY DEF OpToRel
<1> HIDE DEF R
<1>3. PICK t \in T : \A u \in T : ~(<<u, t>> \in R)
  BY <1>1, WFMin
<1>4. \A u \in T : ~(u < t)
  BY <1>2, <1>3
<1> QED
  BY <1>4

LEMMA GreatestElement ==
    ASSUME NEW T \in SUBSET Nat, T # {}, NEW n \in Nat, \A t \in T : t <= n
    PROVE  \E t \in T : \A u \in T : u <= t
<1> DEFINE D == {n - t : t \in T}
<1>1. \A t \in T : n - t \in Nat
  OBVIOUS
<1>2. D \in SUBSET Nat /\ D # {}
  BY <1>1
<1> HIDE DEF D
<1>3. PICK d \in D : \A e \in D : d <= e
  BY <1>2, LeastElement
<1>4. PICK t \in T : d = n - t
  BY <1>3 DEF D
<1>5. \A u \in T : n - t <= n - u
  BY <1>3, <1>4 DEF D
<1> QED
  BY <1>5

---------------------------------------------------------------------------
(* The steps of the client, as the store sees them.                        *)

LEMMA OthersKeepStore == SingleNext \/ TrackerNext => UNCHANGED storeVars
<1>1. SingleNext => UNCHANGED storeVars
  BY DEF SingleNext, AttestPayload, CallNext, EndCollection, StartPass,
     WakeRegistration, EndRegistration, broadcast_registration_data
<1>2. TrackerNext => UNCHANGED storeVars
  BY DEF TrackerNext, StartPoll, EndPoll, PollSync, PollProposers, PollPtc
<1> QED
  BY <1>1, <1>2

LEMMA StoreStep ==
    ASSUME [Next]_vars
    PROVE  \/ StoreNext /\ UNCHANGED <<clockVars, aggregateVars, proposalVars>>
           \/ AggregatorNext /\ UNCHANGED <<clockVars, proposalVars>>
           \/ ProposalNext /\ UNCHANGED <<clockVars, aggregateVars>>
           \/ Startup
           \/ Restart
           \/ UNCHANGED <<storeVars, aggregateVars, proposalVars, stage, boots, booted>>
BY ServicesKeepClock, OthersKeepStore DEF Next, vars, ServiceStep, Tick, clockVars

LEMMA StartupStep ==
    ASSUME Startup
    PROVE  /\ UNCHANGED <<config, now, boots, aggregateVars, proposalVars>>
           /\ stage \in {"syncing", "monitoring"}
           /\ stage' \in {"monitoring", "running", "stopped"}
           /\ stage' = "running" => StartPublishers
           /\ stage' # "running" => UNCHANGED storeVars
BY DEF Startup, SyncComplete, MonitorElapsed, MonitorDetects

\* The aggregator services leave the voting contexts, the calls and the
\* slashing protection database alone.
LEMMA AggregatorKeepsPipeline ==
    ASSUME AggregatorNext
    PROVE  /\ UNCHANGED <<chainVars, voting_assignments, contexts, context_slot,
                          context_task, callVars, slashingVars>>
           /\ \/ next_run' = next_run
              \/ next_run' = [next_run EXCEPT !["aggregation"] = slot + 1]
<1> USE DEF storeVars, pipelineVars
<1>1. CASE update_aggregation_assignments \/ PublishAssignments
  BY <1>1 DEF update_aggregation_assignments, PublishAssignments
<1>2. CASE \E s \in Slots : Execute(s)
  BY <1>2 DEF Execute
<1>3. CASE \E s \in Slots, v \in Validators :
              \/ submit_and_wait(s, v)
              \/ sign_single_aggregate_and_proof(s, v)
              \/ sign_single_sync_committee_contribution(s, v)
  BY <1>3 DEF submit_and_wait, sign_single_aggregate_and_proof,
       sign_single_sync_committee_contribution
<1>4. CASE \E s \in Slots, i \in Items :
              \/ AskProof(s, i)
              \/ SignProof(s, i)
              \/ CollectProof(s, i)
              \/ SignRoot(s, i)
              \/ publish_committee_aggregates(s, i)
              \/ CallLighthouse(s, i)
              \/ get_aggregation_assignments(s, i)
  BY <1>4 DEF AskProof, SignProof, CollectProof, SignRoot, publish_committee_aggregates,
       CallLighthouse, get_aggregation_assignments
<1> QED
  BY <1>1, <1>2, <1>3, <1>4 DEF AggregatorNext

\* Only sign_abstract_block records and signs anything; the other steps of a
\* proposal leave the store alone.
LEMMA ProposalKeepsStore ==
    ASSUME ProposalNext
    PROVE  \/ \E s \in Slots, k \in Calls : sign_abstract_block(s, k)
           \/ UNCHANGED <<storeVars, blocks_signed>>
<1>1. ASSUME NEW s \in Slots, NEW k \in Calls,
             \/ randao_reveal(s, k) \/ sign_block(s, k)
             \/ decide_abstract_block(s, k) \/ PublishBlock(s, k)
      PROVE  UNCHANGED <<storeVars, blocks_signed>>
  <2>1. CASE randao_reveal(s, k)
    BY <2>1 DEF randao_reveal
  <2>2. CASE sign_block(s, k)
    BY <2>2 DEF sign_block
  <2>3. CASE decide_abstract_block(s, k)
    BY <2>3 DEF decide_abstract_block
  <2>4. CASE PublishBlock(s, k)
    BY <2>4 DEF PublishBlock
  <2> QED
    BY <1>1, <2>1, <2>2, <2>3, <2>4
<1>2. ASSUME NEW s \in Slots, NEW b \in Blocks,
             do_validation(s, b) \/ sign_execution_payload_envelope(s, b)
      PROVE  UNCHANGED <<storeVars, blocks_signed>>
  BY <1>2 DEF do_validation, sign_execution_payload_envelope
<1>3. ASSUME NEW b \in Blocks, EndEnvelope(b)
      PROVE  UNCHANGED <<storeVars, blocks_signed>>
  BY <1>3 DEF EndEnvelope
<1> QED
  BY <1>1, <1>2, <1>3 DEF ProposalNext

LEMMA ProposalKeepsPipeline ==
    ASSUME ProposalNext
    PROVE  /\ UNCHANGED <<chainVars, pipelineVars, callVars, batchVars, last_prune>>
           /\ slashing_db' = slashing_db \/ \E s \in Slots, k \in Calls : sign_abstract_block(s, k)
<1>1. ASSUME NEW s \in Slots, NEW k \in Calls, sign_abstract_block(s, k)
      PROVE  UNCHANGED <<chainVars, pipelineVars, callVars, batchVars, last_prune>>
  BY <1>1 DEF sign_abstract_block
<1>2. UNCHANGED storeVars =>
         UNCHANGED <<chainVars, pipelineVars, callVars, batchVars, last_prune, slashing_db>>
  BY DEF storeVars, slashingVars
<1> QED
  BY <1>1, <1>2, ProposalKeepsStore

---------------------------------------------------------------------------
(* Voting contexts and calls.                                              *)

VotingAssignments == [slot : Nat, attesters : SUBSET Validators, sync : SUBSET Validators]
Heads == (UNION {c.heads : c \in Scenarios}) \cup {None}
Contexts ==
    [assignments : VotingAssignments, vote : Votes, head : Heads,
     attesters : (SUBSET Validators) \cup {None}, valid : SUBSET Votes,
     decided : Votes \cup {None}]
CallStates == {"idle", "context", "consensus", "sign", "record", "done"}

PipelineTypes ==
    /\ duties \in [Slots -> SUBSET Validators]
    /\ next_run \in [Publishers -> Nat]
    /\ voting_assignments \in VotingAssignments \cup {None}
    /\ contexts \in [Slots -> Contexts \cup {None}]
    /\ context_slot \in Nat
    /\ context_task \in [slot : Slots, head : Heads] \cup {None}
    /\ calls \in [CallIds -> [st : CallStates, items : SUBSET Items, left : SUBSET Items,
                              size : Nat, good : SUBSET Items]]

\* The context in the watch channel and those that calls work with are of
\* slots phase 2 has done; the one it works on is not.
ContextOrder ==
    /\ next_run["context"] <= slot + 1
    /\ context_slot # 0 =>
          /\ context_slot \in Slots /\ context_slot < next_run["context"]
          /\ contexts[context_slot] \in Contexts
    /\ context_task # None =>
          /\ next_run["context"] <= context_task.slot /\ context_task.slot <= slot
          /\ stage \notin {"syncing", "monitoring"}

\* A call in an instance has its context, and one that signs has the decision.
CallsServed ==
    \A c \in CallIds :
        /\ calls[c].st # "idle" => c[2] > 0
        /\ calls[c].st \in {"consensus", "sign", "record"} =>
              /\ contexts[c[2]] \in Contexts /\ c[2] < next_run["context"]
        /\ calls[c].st \in {"sign", "record"} => contexts[c[2]].decided \in Votes

PipelineInv == PipelineTypes /\ ContextOrder /\ CallsServed /\ booted \in Nat

LEMMA ItemsType ==
    ASSUME NEW A \in SUBSET Validators, NEW B \in SUBSET Validators
    PROVE  /\ ItemsOf(A, B) \subseteq Items /\ SelectionItems(A, B) \subseteq Items
           /\ IsFiniteSet(Items)
           /\ Cardinality(ItemsOf(A, B)) \in Nat /\ Cardinality(SelectionItems(A, B)) \in Nat
<1>1. ItemsOf(A, B) \subseteq Items
  BY DEF ItemsOf, Items
<1>2. SelectionItems(A, B) \subseteq Items
  <2>1. ASSUME NEW v \in B, NEW n \in 1 .. SyncSubnets[v]
        PROVE  <<v, n>> \in Items
    <3>1. n \in 0 .. 2 /\ v \in Validators
      BY StoreAssumption
    <3> QED
      BY <3>1 DEF Items
  <2>2. \A v \in A : <<v, 0>> \in Items
    BY DEF Items
  <2>3. ASSUME NEW x \in UNION {{<<v, n>> : n \in 1 .. SyncSubnets[v]} : v \in B}
        PROVE  x \in Items
    <3>1. PICK v \in B : x \in {<<v, n>> : n \in 1 .. SyncSubnets[v]}
      BY <2>3
    <3> QED
      BY <2>1, <3>1
  <2> DEFINE U == UNION {{<<v, n>> : n \in 1 .. SyncSubnets[v]} : v \in B}
             W == {<<v, 0>> : v \in A}
  <2>4. SelectionItems(A, B) = W \cup U
    BY DEF SelectionItems
  <2>5. U \subseteq Items
    BY <2>3
  <2>6. W \subseteq Items
    BY <2>2
  <2> HIDE DEF U, W
  <2> QED
    BY <2>4, <2>5, <2>6
<1>3. IsFiniteSet(Items)
  <2>1. IsFiniteSet(Validators \X (0 .. 2))
    <3>1. 0 \in Int /\ 2 \in Int
      OBVIOUS
    <3>2. IsFiniteSet(0 .. 2)
      BY <3>1, FS_Interval, Zenon
    <3> QED
      BY <3>2, FS_Product, StoreAssumption
  <2>2. Items = Validators \X (0 .. 2)
    BY DEF Items
  <2> QED
    BY <2>1, <2>2
<1> QED
  BY <1>1, <1>2, <1>3, FS_Subset, FS_CardinalityType

\* What the scenario fixes.
LEMMA ScenarioType ==
    ASSUME ClockOK
    PROVE  /\ config.slots \subseteq Slots /\ SyncValidators \in SUBSET Validators
           /\ config.heads \subseteq Heads
           /\ None \in Heads
<1>1. config.heads \subseteq UNION {c.heads : c \in Scenarios}
  BY DEF ClockOK
<1>2. config.slots \subseteq Slots /\ SyncValidators \in SUBSET Validators
  BY StoreAssumption DEF ClockOK, SyncValidators
<1> QED
  BY <1>1, <1>2 DEF Heads

LEMMA PipelineInitial == Init => PipelineInv
<1> SUFFICES ASSUME Init PROVE PipelineInv
  OBVIOUS
<1>1. slot \in Nat /\ config \in Scenarios /\ booted = slot
  BY ClockInitial, SlotType DEF ClockOK, Init, ClockInit
<1>2. StoreInit
  BY DEF Init
<1>3. PipelineTypes
  <2>1. /\ duties \in [Slots -> SUBSET Validators]
        /\ calls \in [CallIds -> [st : CallStates, items : SUBSET Items, left : SUBSET Items,
                                  size : Nat, good : SUBSET Items]]
    BY <1>1, <1>2, StoreAssumption DEF StoreInit, NoCall, CallStates
  <2> QED
    BY <1>1, <1>2, <2>1 DEF StoreInit, PipelineTypes
<1>4. ContextOrder
  BY <1>1, <1>2 DEF StoreInit, ContextOrder, Publishers
<1>5. CallsServed
  BY <1>2 DEF StoreInit, CallsServed, NoCall
<1> QED
  BY <1>1, <1>3, <1>4, <1>5 DEF PipelineInv

\* Time goes on, or what the store has is left alone.
LEMMA PipelineStutter ==
    ASSUME ClockOK, ClockMoves, PipelineInv,
           UNCHANGED <<duties, voting_assignments, contexts, context_slot, context_task, calls>>,
           next_run' \in [Publishers -> Nat],
           next_run["context"] <= next_run'["context"], next_run'["context"] <= slot' + 1,
           context_task # None => /\ next_run'["context"] = next_run["context"]
                                  /\ stage' \notin {"syncing", "monitoring"},
           booted' \in Nat
    PROVE  PipelineInv'
<1>1. slot \in Nat /\ slot' \in Nat /\ slot <= slot'
  BY SlotMonotone
<1>2. PipelineTypes'
  BY DEF PipelineInv, PipelineTypes
<1>3. next_run["context"] \in Nat /\ next_run'["context"] \in Nat /\ Slots \subseteq Nat
  BY StoreAssumption DEF PipelineInv, PipelineTypes, Publishers
<1>4. ContextOrder'
  <2>1. context_slot # 0 => context_slot \in Slots /\ context_slot < next_run'["context"]
    <3>1. context_slot # 0 => context_slot \in Slots /\ context_slot < next_run["context"]
      BY DEF PipelineInv, ContextOrder
    <3>2. context_slot # 0 => context_slot \in Nat
      BY <1>3, <3>1
    <3> QED
      BY <1>3, <3>1, <3>2, LessTransitive
  <2>2. context_task # None => context_task.slot \in Nat
    BY <1>3 DEF PipelineInv, PipelineTypes
  <2>3. context_task # None => /\ next_run'["context"] <= context_task.slot
                               /\ context_task.slot <= slot'
    BY <1>1, <1>3, <2>2 DEF PipelineInv, ContextOrder
  <2>4. context_slot # 0 => contexts'[context_slot] \in Contexts
    BY DEF PipelineInv, ContextOrder
  <2> QED
    BY <2>1, <2>3, <2>4 DEF ContextOrder
<1>5. CallsServed'
  <2>1. \A c \in CallIds : c[2] \in Nat
    BY <1>3 DEF CallIds
  <2> QED
    BY <1>3, <2>1 DEF PipelineInv, CallsServed
<1> QED
  BY <1>2, <1>4, <1>5 DEF PipelineInv

\* A step of one call that leaves the pipeline alone, or adds to its context.
LEMMA PipelineCall ==
    ASSUME ClockOK, PipelineInv, NEW c \in CallIds,
           NEW r \in [st : CallStates, items : SUBSET Items, left : SUBSET Items,
                      size : Nat, good : SUBSET Items],
           calls' = [calls EXCEPT ![c] = r],
           UNCHANGED <<now, stage, booted, duties, next_run, voting_assignments, context_slot,
                       context_task>>,
           contexts' \in [Slots -> Contexts \cup {None}],
           \A s \in Slots : contexts[s] \in Contexts => contexts'[s] \in Contexts,
           \A s \in Slots : contexts[s] \in Contexts /\ contexts[s].decided \in Votes
                            => contexts'[s].decided \in Votes,
           r.st # "idle" => c[2] > 0,
           r.st \in {"consensus", "sign", "record"} =>
              contexts'[c[2]] \in Contexts /\ c[2] < next_run["context"],
           r.st \in {"sign", "record"} => contexts'[c[2]].decided \in Votes
    PROVE  PipelineInv'
<1>1. PipelineTypes'
  BY DEF PipelineInv, PipelineTypes
<1>2. slot' = slot
  BY DEF slot
<1>3. ContextOrder'
  BY <1>2 DEF PipelineInv, ContextOrder
<1>4. \A d \in CallIds : d[2] \in Slots
  BY DEF CallIds
<1>5. CallsServed'
  <2> SUFFICES ASSUME NEW d \in CallIds
               PROVE  /\ calls'[d].st # "idle" => d[2] > 0
                      /\ calls'[d].st \in {"consensus", "sign", "record"} =>
                            /\ contexts'[d[2]] \in Contexts /\ d[2] < next_run'["context"]
                      /\ calls'[d].st \in {"sign", "record"} => contexts'[d[2]].decided \in Votes
    BY DEF CallsServed
  <2>1. CASE d = c
    <3>1. calls'[d] = r
      BY <2>1 DEF PipelineInv, PipelineTypes
    <3> QED
      BY <2>1, <3>1
  <2>2. CASE d # c
    <3>1. calls'[d] = calls[d]
      BY <2>2 DEF PipelineInv, PipelineTypes
    <3> QED
      BY <1>4, <3>1 DEF PipelineInv, CallsServed
  <2> QED
    BY <2>1, <2>2
<1> QED
  BY <1>1, <1>3, <1>5 DEF PipelineInv

LEMMA PipelineCallOnly ==
    ASSUME ClockOK, PipelineInv, NEW c \in CallIds,
           NEW r \in [st : CallStates, items : SUBSET Items, left : SUBSET Items,
                      size : Nat, good : SUBSET Items],
           calls' = [calls EXCEPT ![c] = r],
           UNCHANGED <<now, stage, booted, duties, pipelineVars>>,
           \/ r.st \notin {"consensus", "sign", "record"} /\ c[2] > 0
           \/ r.st = calls[c].st
           \/ calls[c].st = "sign" /\ r.st = "record"
    PROVE  PipelineInv'
<1>1. /\ contexts' \in [Slots -> Contexts \cup {None}] /\ contexts' = contexts
      /\ UNCHANGED <<duties, next_run, voting_assignments, context_slot, context_task>>
  BY DEF PipelineInv, PipelineTypes, pipelineVars
<1>2. /\ r.st # "idle" => c[2] > 0
      /\ r.st \in {"consensus", "sign", "record"} =>
              contexts[c[2]] \in Contexts /\ c[2] < next_run["context"]
      /\ r.st \in {"sign", "record"} => contexts[c[2]].decided \in Votes
  BY DEF PipelineInv, CallsServed
<1> QED
  BY <1>1, <1>2, PipelineCall

LEMMA PipelineStoreStep ==
    ASSUME ClockOK, PipelineInv, StoreNext, UNCHANGED clockVars
    PROVE  PipelineInv'
<1>0. /\ slot \in Nat /\ slot' = slot /\ Slots \subseteq Nat /\ ClockMoves
      /\ next_run["context"] \in Nat /\ booted \in Nat
      /\ UNCHANGED <<now, stage, booted, boots>>
  BY SlotType, StoreAssumption
     DEF clockVars, slot, PipelineInv, PipelineTypes, Publishers, ClockMoves, ClockOK
<1>1. ASSUME NEW v \in Validators, NEW to, ChangeRegistry(v, to)
      PROVE  PipelineInv'
  <2>1. UNCHANGED <<duties, pipelineVars, calls>>
    BY <1>1 DEF ChangeRegistry, callVars
  <2> QED
    BY <1>0, <2>1 DEF pipelineVars, PipelineInv, PipelineTypes, ContextOrder, CallsServed
<1>2. ASSUME NEW v \in Validators, NEW from \in Slots, NEW to \in Slots,
             ReorgDuties(v, from, to)
      PROVE  PipelineInv'
  <2>1. UNCHANGED <<pipelineVars, calls>>
    BY <1>2 DEF ReorgDuties, callVars
  <2>2. duties' \in [Slots -> SUBSET Validators]
    BY <1>2 DEF ReorgDuties, PipelineInv, PipelineTypes
  <2> QED
    BY <1>0, <2>1, <2>2 DEF pipelineVars, PipelineInv, PipelineTypes, ContextOrder, CallsServed
<1>3. CASE update_voting_assignments
  <2>1. /\ UNCHANGED <<duties, contexts, context_slot, context_task, calls>>
        /\ voting_assignments' \in VotingAssignments
        /\ next_run' = [next_run EXCEPT !["assignments"] = slot + 1]
    BY <1>0, <1>3, ScenarioType
       DEF update_voting_assignments, callVars, chainVars, PipelineInv, PipelineTypes,
           VotingAssignments
  <2>2. next_run' \in [Publishers -> Nat] /\ next_run'["context"] = next_run["context"]
    BY <1>0, <2>1 DEF PipelineInv, PipelineTypes, Publishers
  <2> QED
    BY <1>0, <2>1, <2>2 DEF PipelineInv, PipelineTypes, ContextOrder, CallsServed
<1>4. CASE head_event_or_deadline
  <2>1. /\ UNCHANGED <<duties, next_run, voting_assignments, contexts, context_slot, calls>>
        /\ stage = "running" /\ slot \in Slots /\ next_run["context"] <= slot
    BY <1>0, <1>4, ScenarioType DEF head_event_or_deadline, callVars, chainVars, Running
  <2>2. PICK head \in Heads : context_task' = [slot |-> slot, head |-> head]
    BY <1>4, ScenarioType DEF head_event_or_deadline
  <2> QED
    BY <1>0, <2>1, <2>2 DEF PipelineInv, PipelineTypes, ContextOrder, CallsServed
<1>5. CASE update_voting_context
  <2>1. /\ UNCHANGED <<duties, voting_assignments, calls>>
        /\ context_task' = None /\ context_task # None
        /\ voting_assignments \in VotingAssignments
        /\ next_run' = [next_run EXCEPT !["context"] = slot + 1]
    BY <1>5 DEF update_voting_context, callVars, chainVars, PipelineInv, PipelineTypes
  <2> DEFINE t == context_task.slot
  <2>2. /\ t \in Slots /\ context_task.head \in Heads
        /\ next_run["context"] <= t /\ t <= slot
    BY <2>1 DEF PipelineInv, PipelineTypes, ContextOrder
  <2>3. /\ next_run' \in [Publishers -> Nat] /\ next_run'["context"] = slot + 1
    BY <1>0, <2>1 DEF PipelineInv, PipelineTypes, Publishers
  <2>4. CASE UNCHANGED <<contexts, context_slot>>
    <3>1. next_run["context"] <= next_run'["context"] /\ next_run'["context"] <= slot' + 1
      BY <1>0, <2>3 DEF PipelineInv, ContextOrder
    <3>2. PipelineTypes'
      BY <2>1, <2>3, <2>4 DEF PipelineInv, PipelineTypes
    <3>3. ContextOrder'
      <4>1. context_slot # 0 => /\ context_slot \in Slots /\ context_slot < next_run["context"]
                                /\ contexts[context_slot] \in Contexts
        BY DEF PipelineInv, ContextOrder
      <4>2. context_slot # 0 => context_slot < next_run'["context"]
        <5>1. context_slot # 0 => context_slot \in Nat
          BY <4>1, StoreAssumption
        <5>2. next_run'["context"] \in Nat
          BY <2>3 DEF Publishers
        <5> QED
          BY <1>0, <3>1, <4>1, <5>1, <5>2, LessTransitive
      <4> QED
        BY <2>1, <2>4, <3>1, <4>1, <4>2 DEF ContextOrder
    <3>4. CallsServed'
      <4>1. \A c \in CallIds : c[2] \in Nat
        BY <1>0 DEF CallIds
      <4> QED
        BY <1>0, <2>1, <2>3, <2>4, <3>1, <4>1 DEF PipelineInv, CallsServed
    <3> QED
      BY <1>0, <3>2, <3>3, <3>4 DEF PipelineInv
  <2>5. CASE context_slot' = t /\ \E vote \in Votes :
                contexts' = [contexts EXCEPT ![t] =
                                [assignments |-> voting_assignments, vote |-> vote,
                                 head |-> context_task.head,
                                 attesters |-> None, valid |-> {}, decided |-> None]]
    <3>1. PICK vote \in Votes :
                contexts' = [contexts EXCEPT ![t] =
                                [assignments |-> voting_assignments, vote |-> vote,
                                 head |-> context_task.head,
                                 attesters |-> None, valid |-> {}, decided |-> None]]
      BY <2>5
    <3>2. [assignments |-> voting_assignments, vote |-> vote, head |-> context_task.head,
           attesters |-> None, valid |-> {}, decided |-> None] \in Contexts
      BY <2>1, <2>2 DEF Contexts
    <3>3. /\ contexts' \in [Slots -> Contexts \cup {None}]
          /\ contexts'[t] \in Contexts
          /\ \A s \in Slots \ {t} : contexts'[s] = contexts[s]
      BY <2>2, <3>1, <3>2 DEF PipelineInv, PipelineTypes
    <3> HIDE DEF t
    <3>4. PipelineTypes'
      BY <1>0, <2>1, <2>2, <2>3, <2>5, <3>3 DEF PipelineInv, PipelineTypes
    <3>5. ContextOrder'
      BY <1>0, <2>1, <2>2, <2>3, <2>5, <3>3 DEF ContextOrder
    <3>6. CallsServed'
      <4> SUFFICES ASSUME NEW c \in CallIds
                   PROVE  /\ calls[c].st # "idle" => c[2] > 0
                          /\ calls[c].st \in {"consensus", "sign", "record"} =>
                                contexts'[c[2]] \in Contexts /\ c[2] < next_run'["context"]
                          /\ calls[c].st \in {"sign", "record"} =>
                                contexts'[c[2]].decided \in Votes
        BY <2>1 DEF CallsServed
      <4>1. c[2] \in Slots /\ c[2] \in Nat /\ t \in Nat
        BY <1>0, <2>2 DEF CallIds
      <4>2. CASE calls[c].st \in {"consensus", "sign", "record"}
        <5>1. contexts[c[2]] \in Contexts /\ c[2] < next_run["context"]
          BY <4>2 DEF PipelineInv, CallsServed
        <5>2. c[2] # t /\ c[2] < next_run'["context"]
          BY <1>0, <2>2, <2>3, <4>1, <5>1
        <5> QED
          BY <3>3, <4>1, <5>1, <5>2 DEF PipelineInv, CallsServed
      <4>3. CASE calls[c].st \notin {"consensus", "sign", "record"}
        BY <4>3 DEF PipelineInv, CallsServed
      <4> QED
        BY <4>2, <4>3
    <3> QED
      BY <1>0, <3>4, <3>5, <3>6 DEF PipelineInv
  <2> QED
    BY <1>5, <2>4, <2>5 DEF update_voting_context, fetch_attestation_data, weighted_calculation
<1>6. CASE remove_stale_entries \/ prune_slashing_protection_db
  <2>1. UNCHANGED <<duties, pipelineVars, calls>>
    BY <1>6 DEF remove_stale_entries, prune_slashing_protection_db, callVars, chainVars
  <2> QED
    BY <1>0, <2>1 DEF pipelineVars, PipelineInv, PipelineTypes, ContextOrder, CallsServed
<1>7. ASSUME NEW s \in Slots, NEW vote \in Votes, ValidateProposal(s, vote)
      PROVE  PipelineInv'
  <2>1. PICK kind \in {"attest", "sync"} : calls[<<kind, s>>].st = "consensus"
    BY <1>7 DEF ValidateProposal
  <2>2. contexts[s] \in Contexts
    <3>1. <<kind, s>> \in CallIds
      BY DEF CallIds
    <3> QED
      BY <2>1, <3>1 DEF PipelineInv, CallsServed
  <2>3. /\ contexts' = [contexts EXCEPT ![s].valid = @ \cup {vote}]
        /\ UNCHANGED <<duties, next_run, voting_assignments, context_slot, context_task, calls>>
    BY <1>7 DEF ValidateProposal, callVars, chainVars
  <2>4. [contexts[s] EXCEPT !.valid = @ \cup {vote}] \in Contexts
    BY <2>2 DEF Contexts
  <2>5. /\ contexts' \in [Slots -> Contexts \cup {None}] /\ contexts'[s] \in Contexts
        /\ contexts'[s].decided = contexts[s].decided
        /\ \A x \in Slots \ {s} : contexts'[x] = contexts[x]
    BY <2>2, <2>3, <2>4 DEF PipelineInv, PipelineTypes, Contexts
  <2>6. PipelineTypes'
    BY <2>3, <2>5 DEF PipelineInv, PipelineTypes
  <2>7. ContextOrder'
    BY <1>0, <2>3, <2>5 DEF PipelineInv, ContextOrder
  <2>8. CallsServed'
    <3>1. \A c \in CallIds : c[2] \in Slots
      BY DEF CallIds
    <3> QED
      BY <2>3, <2>5, <3>1 DEF PipelineInv, CallsServed
  <2> QED
    BY <1>0, <2>6, <2>7, <2>8 DEF PipelineInv
<1>8. ASSUME NEW c \in CallIds, get_voting_context(c)
      PROVE  PipelineInv'
  <2>1. /\ calls[c].st = "context" /\ c[2] \in Slots /\ c[2] > 0
        /\ UNCHANGED <<duties, next_run, voting_assignments, context_slot, context_task>>
    BY <1>8 DEF get_voting_context, chainVars, CallIds, PipelineInv, CallsServed
  <2>2. CASE context_slot = c[2]
    <3>1. contexts[c[2]] \in Contexts /\ c[2] < next_run["context"]
      BY <1>0, <2>1, <2>2 DEF PipelineInv, ContextOrder
    <3>2. calls' = [calls EXCEPT ![c] = [calls[c] EXCEPT !.st = "consensus"]]
      BY <1>8, <2>2 DEF get_voting_context
    <3>3. get_attesting_validators_in_committee(c[2]) \in SUBSET Validators
      BY DEF get_attesting_validators_in_committee, CommitteeIndices
    <3>4. /\ contexts' \in [Slots -> Contexts \cup {None}] /\ contexts'[c[2]] \in Contexts
          /\ contexts'[c[2]].decided = contexts[c[2]].decided
          /\ \A x \in Slots \ {c[2]} : contexts'[x] = contexts[x]
      <4>1. CASE contexts' = contexts
        BY <3>1, <4>1 DEF PipelineInv, PipelineTypes
      <4>2. CASE contexts' = [contexts EXCEPT ![c[2]].attesters =
                                 get_attesting_validators_in_committee(c[2])]
        <5>1. [contexts[c[2]] EXCEPT !.attesters = get_attesting_validators_in_committee(c[2])]
                 \in Contexts
          BY <3>1, <3>3 DEF Contexts
        <5> QED
          BY <2>1, <3>1, <4>2, <5>1 DEF PipelineInv, PipelineTypes, Contexts
      <4> QED
        BY <1>8, <2>2, <4>1, <4>2 DEF get_voting_context
    <3>5. [calls[c] EXCEPT !.st = "consensus"] \in
             [st : CallStates, items : SUBSET Items, left : SUBSET Items, size : Nat,
              good : SUBSET Items]
      BY DEF PipelineInv, PipelineTypes, CallStates
    <3>6. \A s \in Slots : /\ contexts[s] \in Contexts => contexts'[s] \in Contexts
                           /\ contexts[s] \in Contexts /\ contexts[s].decided \in Votes
                                  => contexts'[s].decided \in Votes
      BY <3>4
    <3>7. [calls[c] EXCEPT !.st = "consensus"].st = "consensus"
      BY DEF PipelineInv, PipelineTypes
    <3> QED
      BY <1>0, <2>1, <3>1, <3>2, <3>4, <3>5, <3>6, <3>7, PipelineCall
  <2>3. CASE context_slot # c[2]
    <3>1. calls' = [calls EXCEPT ![c] = [calls[c] EXCEPT !.st = "done"]] /\ contexts' = contexts
      BY <1>8, <2>3 DEF get_voting_context
    <3>2. [calls[c] EXCEPT !.st = "done"] \in
             [st : CallStates, items : SUBSET Items, left : SUBSET Items, size : Nat,
              good : SUBSET Items] /\ [calls[c] EXCEPT !.st = "done"].st = "done"
      BY DEF PipelineInv, PipelineTypes, CallStates
    <3>3. contexts \in [Slots -> Contexts \cup {None}]
      BY DEF PipelineInv, PipelineTypes
    <3> QED
      BY <1>0, <2>1, <3>1, <3>2, <3>3, PipelineCall
  <2> QED
    BY <2>2, <2>3
<1>9. ASSUME NEW c \in CallIds, decide_committee_vote(c)
      PROVE  PipelineInv'
  <2>1. /\ calls[c].st = "consensus" /\ c[2] \in Slots /\ c[2] > 0
        /\ contexts[c[2]] \in Contexts /\ c[2] < next_run["context"]
        /\ UNCHANGED <<duties, next_run, voting_assignments, context_slot, context_task>>
    BY <1>9 DEF decide_committee_vote, chainVars, CallIds, PipelineInv, CallsServed
  <2>2. ASSUME NEW vote \in contexts[c[2]].valid,
               contexts[c[2]].decided \in {None, vote},
               contexts' = [contexts EXCEPT ![c[2]].decided = vote],
               calls' = [calls EXCEPT
                   ![c] = [@ EXCEPT !.st = "sign", !.left = calls[c].items,
                              !.size = voting_message_count(contexts[c[2]].assignments)]]
        PROVE  PipelineInv'
    <3> DEFINE r == [calls[c] EXCEPT !.st = "sign", !.left = calls[c].items,
                              !.size = voting_message_count(contexts[c[2]].assignments)]
    <3>1. voting_message_count(contexts[c[2]].assignments) \in Nat
      BY ItemsType DEF voting_message_count, CommitteeIndices
    <3>2. /\ r \in [st : CallStates, items : SUBSET Items, left : SUBSET Items, size : Nat,
                    good : SUBSET Items]
          /\ r.st = "sign"
      BY <3>1 DEF PipelineInv, PipelineTypes, CallStates
    <3>3. calls' = [calls EXCEPT ![c] = r]
      BY <2>2
    <3> HIDE DEF r
    <3>4. vote \in Votes
      BY <2>1 DEF Contexts
    <3>5. [contexts[c[2]] EXCEPT !.decided = vote] \in Contexts
      BY <2>1, <3>4 DEF Contexts
    <3>6. /\ contexts' \in [Slots -> Contexts \cup {None}] /\ contexts'[c[2]] \in Contexts
          /\ contexts'[c[2]].decided = vote
          /\ \A x \in Slots \ {c[2]} : contexts'[x] = contexts[x]
      BY <2>1, <2>2, <3>5 DEF PipelineInv, PipelineTypes, Contexts
    <3>7. \A s \in Slots : /\ contexts[s] \in Contexts => contexts'[s] \in Contexts
                           /\ contexts[s] \in Contexts /\ contexts[s].decided \in Votes
                                  => contexts'[s].decided \in Votes
      BY <3>4, <3>6
    <3> QED
      BY <1>0, <2>1, <3>2, <3>3, <3>4, <3>6, <3>7, PipelineCall
  <2>3. CASE calls' = [calls EXCEPT ![c].st = "done"] /\ contexts' = contexts
    <3>1. [calls[c] EXCEPT !.st = "done"] \in
             [st : CallStates, items : SUBSET Items, left : SUBSET Items, size : Nat,
              good : SUBSET Items] /\ [calls[c] EXCEPT !.st = "done"].st = "done"
      BY DEF PipelineInv, PipelineTypes, CallStates
    <3>2. contexts \in [Slots -> Contexts \cup {None}]
      BY DEF PipelineInv, PipelineTypes
    <3> QED
      BY <1>0, <2>1, <2>3, <3>1, <3>2, PipelineCall
  <2> QED
    BY <1>9, <2>2, <2>3 DEF decide_committee_vote
<1>10. ASSUME NEW c \in CallIds, NEW item \in Items, collect_signature(c, item)
       PROVE  PipelineInv'
  <2>1. calls[c] \in [st : CallStates, items : SUBSET Items, left : SUBSET Items,
                      size : Nat, good : SUBSET Items]
    BY DEF PipelineInv, PipelineTypes
  <2>2. UNCHANGED <<duties, pipelineVars>>
    BY <1>10 DEF collect_signature, chainVars
  <2>3. CASE calls' = [calls EXCEPT ![c] = [calls[c] EXCEPT !.left = @ \ {item},
                                                            !.items = @ \ {item}]]
    <3> DEFINE r == [calls[c] EXCEPT !.left = @ \ {item}, !.items = @ \ {item}]
    <3>1. /\ r \in [st : CallStates, items : SUBSET Items, left : SUBSET Items,
                    size : Nat, good : SUBSET Items]
          /\ r.st = calls[c].st
      <4>1. calls[c].left \ {item} \in SUBSET Items /\ calls[c].items \ {item} \in SUBSET Items
        BY <2>1
      <4> QED
        BY <2>1, <4>1
    <3>2. calls' = [calls EXCEPT ![c] = r]
      BY <2>3
    <3> HIDE DEF r
    <3> QED
      BY <1>0, <2>2, <3>1, <3>2, PipelineCallOnly
  <2>4. CASE calls' = [calls EXCEPT ![c].left = @ \ {item}]
    <3> DEFINE r == [calls[c] EXCEPT !.left = @ \ {item}]
    <3>1. /\ r \in [st : CallStates, items : SUBSET Items, left : SUBSET Items,
                    size : Nat, good : SUBSET Items]
          /\ r.st = calls[c].st
      BY <2>1
    <3>2. calls' = [calls EXCEPT ![c] = r]
      BY <2>4
    <3> HIDE DEF r
    <3> QED
      BY <1>0, <2>2, <3>1, <3>2, PipelineCallOnly
  <2> QED
    BY <1>10, <2>3, <2>4 DEF collect_signature
<1>11. ASSUME NEW kind \in {"attest", "sync"}, NEW s \in Slots, NEW wanted,
              NEW items \in SUBSET Items, StartCall(kind, s, wanted, items)
       PROVE  PipelineInv'
  <2> DEFINE r == [NoCall EXCEPT !.st = IF items = {} THEN "done" ELSE "context",
                                 !.items = items]
  <2>1. /\ r \in [st : CallStates, items : SUBSET Items, left : SUBSET Items,
                  size : Nat, good : SUBSET Items]
        /\ r.st \in {"done", "context"}
    BY DEF NoCall, CallStates
  <2>2. /\ calls' = [calls EXCEPT ![<<kind, s>>] = r] /\ s > booted
        /\ UNCHANGED <<duties, pipelineVars>>
    BY <1>11 DEF StartCall, chainVars
  <2> HIDE DEF r
  <2>3. <<kind, s>> \in CallIds /\ <<kind, s>>[2] > 0
    BY <1>0, <2>2 DEF CallIds
  <2> QED
    BY <1>0, <2>1, <2>2, <2>3, PipelineCallOnly
<1>12. ASSUME NEW s \in Slots, sign_attestations(s) \/ sign_sync_committee_signatures(s)
       PROVE  PipelineInv'
  <2>1. /\ ItemsOf(group_by_committee(duties[s]), {}) \in SUBSET Items
        /\ ItemsOf({}, group_by_committee(SyncValidators)) \in SUBSET Items
    <3>1. /\ group_by_committee(duties[s]) \in SUBSET Validators
          /\ group_by_committee(SyncValidators) \in SUBSET Validators
      BY ScenarioType DEF group_by_committee, PipelineInv, PipelineTypes
    <3> QED
      BY <3>1, ItemsType
  <2> QED
    BY <1>11, <1>12, <2>1 DEF sign_attestations, sign_sync_committee_signatures
<1>13. ASSUME NEW c \in CallIds, NEW st \in {"done", "record"}, NEW good \in SUBSET Items,
              drain_signatures(c, st, good)
       PROVE  PipelineInv'
  <2> DEFINE r == [calls[c] EXCEPT !.st = st, !.good = good]
  <2>1. /\ r \in [st : CallStates, items : SUBSET Items, left : SUBSET Items,
                  size : Nat, good : SUBSET Items]
        /\ r.st = st
    BY DEF PipelineInv, PipelineTypes, CallStates
  <2>2. /\ calls' = [calls EXCEPT ![c] = r] /\ calls[c].st = "sign"
        /\ UNCHANGED <<duties, pipelineVars>>
    BY <1>13 DEF drain_signatures, chainVars
  <2>3. c[2] > 0
    BY <2>2 DEF PipelineInv, CallsServed
  <2> HIDE DEF r
  <2> QED
    BY <1>0, <2>1, <2>2, <2>3, PipelineCallOnly
<1>14. ASSUME NEW s \in Slots, DrainAttestations(s) \/ DrainSyncMessages(s)
       PROVE  PipelineInv'
  <2>1. <<"attest", s>> \in CallIds /\ <<"sync", s>> \in CallIds
    BY DEF CallIds
  <2>2. calls[<<"attest", s>>].items \in SUBSET Items /\ calls[<<"sync", s>>].items \in SUBSET Items
    BY <2>1 DEF PipelineInv, PipelineTypes
  <2> QED
    BY <1>13, <1>14, <2>1, <2>2 DEF DrainAttestations, DrainSyncMessages
<1>15. ASSUME NEW s \in Slots, RecordAttestations(s)
       PROVE  PipelineInv'
  <2>1. <<"attest", s>> \in CallIds
    BY DEF CallIds
  <2> DEFINE r == [calls[<<"attest", s>>] EXCEPT !.st = "done"]
  <2>2. /\ r \in [st : CallStates, items : SUBSET Items, left : SUBSET Items,
                  size : Nat, good : SUBSET Items]
        /\ r.st = "done"
    BY <2>1 DEF PipelineInv, PipelineTypes, CallStates
  <2>3. /\ calls' = [calls EXCEPT ![<<"attest", s>>] = r] /\ calls[<<"attest", s>>].st = "record"
        /\ UNCHANGED <<duties, pipelineVars>>
    BY <1>15 DEF RecordAttestations, chainVars
  <2>4. <<"attest", s>>[2] > 0
    BY <2>1, <2>3 DEF PipelineInv, CallsServed
  <2> HIDE DEF r
  <2> QED
    BY <1>0, <2>1, <2>2, <2>3, <2>4, PipelineCallOnly
<1> QED
  BY <1>1, <1>2, <1>3, <1>4, <1>5, <1>6, <1>7, <1>8, <1>9, <1>10, <1>12, <1>14, <1>15
     DEF StoreNext

LEMMA PipelineInduction == Spec => [](ClockOK /\ PipelineInv)
<1>1. ClockOK /\ PipelineInv /\ [Next]_vars => PipelineInv'
  <2> SUFFICES ASSUME ClockOK, PipelineInv, [Next]_vars
               PROVE  PipelineInv'
    OBVIOUS
  <2>0. /\ ClockMoves /\ slot \in Nat /\ slot' \in Nat /\ slot <= slot'
        /\ next_run \in [Publishers -> Nat] /\ next_run["context"] \in Nat
        /\ next_run["context"] <= slot + 1 /\ booted \in Nat
    BY ClockStep, SlotMonotone DEF PipelineInv, PipelineTypes, ContextOrder, Publishers
  <2>1. CASE StoreNext /\ UNCHANGED clockVars
    BY <2>1, PipelineStoreStep
  <2>2. CASE AggregatorNext /\ UNCHANGED clockVars
    <3>1. /\ UNCHANGED <<duties, voting_assignments, contexts, context_slot, context_task,
                         calls, stage, booted>>
          /\ \/ next_run' = next_run
             \/ next_run' = [next_run EXCEPT !["aggregation"] = slot + 1]
      BY <2>2, AggregatorKeepsPipeline DEF chainVars, callVars, clockVars
    <3>2. next_run' \in [Publishers -> Nat] /\ next_run'["context"] = next_run["context"]
      BY <2>0, <3>1 DEF Publishers
    <3>3. next_run["context"] <= slot' + 1
      BY <2>0
    <3> QED
      BY <2>0, <3>1, <3>2, <3>3, PipelineStutter DEF PipelineInv, ContextOrder
  <2>3. CASE \/ ProposalNext /\ UNCHANGED clockVars
             \/ UNCHANGED <<storeVars, stage, booted>>
    <3>1. UNCHANGED <<duties, pipelineVars, calls, stage, booted>>
      BY <2>3, ProposalKeepsPipeline DEF chainVars, callVars, clockVars, storeVars
    <3>2. next_run["context"] <= slot' + 1
      BY <2>0
    <3> QED
      BY <2>0, <3>1, <3>2, PipelineStutter DEF PipelineInv, ContextOrder, pipelineVars
  <2>4. CASE Startup
    <3>1. context_task = None /\ booted' \in Nat
      BY <2>0, <2>4, StartupStep
         DEF PipelineInv, ContextOrder, Startup, SyncComplete, MonitorElapsed, MonitorDetects
    <3>2. /\ UNCHANGED <<duties, voting_assignments, contexts, context_slot, context_task, calls>>
          /\ next_run' \in [Publishers -> Nat]
          /\ next_run' = next_run \/ next_run' = [p \in Publishers |-> slot + 1]
      BY <2>0, <2>4, StartupStep
         DEF StartPublishers, storeVars, chainVars, pipelineVars, callVars
    <3>3. /\ next_run["context"] <= next_run'["context"] /\ next_run'["context"] <= slot' + 1
      BY <2>0, <3>2 DEF Publishers
    <3> QED
      BY <2>0, <3>1, <3>2, <3>3, PipelineStutter
  <2>5. CASE Restart
    <3>1. RestartStore /\ booted' = slot /\ slot' = slot
      BY <2>5 DEF Restart, slot
    <3>2. PipelineTypes'
      <4>1. calls' \in [CallIds -> [st : CallStates, items : SUBSET Items,
                                    left : SUBSET Items, size : Nat, good : SUBSET Items]]
        BY <3>1 DEF RestartStore, NoCall, CallStates
      <4> QED
        BY <2>0, <3>1, <4>1 DEF RestartStore, PipelineInv, PipelineTypes, chainVars
    <3>3. ContextOrder'
      BY <2>0, <3>1 DEF RestartStore, ContextOrder, Publishers
    <3>4. CallsServed'
      BY <3>1 DEF RestartStore, CallsServed, NoCall
    <3> QED
      BY <2>0, <3>1, <3>2, <3>3, <3>4 DEF PipelineInv
  <2> QED
    BY <2>1, <2>2, <2>3, <2>4, <2>5, StoreStep
<1> QED
  BY <1>1, PipelineInitial, ClockInduction, PTL DEF Spec

---------------------------------------------------------------------------
(* The slashing protection of attestations.                                *)

IsVote(a) == a.source \in Nat /\ a.target \in Nat

\* What the database D knows of the attestations P handed on so far: those it
\* has lost to a prune are no newer than any it has of the same validator, and
\* it has at least one.
VotesOK(P, D) ==
    /\ \A a \in P : IsVote(a)
    /\ \A a, b \in P : ~Slashable(a, b)
    /\ D \subseteq P
    /\ \A p \in P \ D : /\ \E b \in D : b.validator = p.validator
                        /\ \A b \in D : b.validator = p.validator => p.target <= b.target

\* An attestation the database finds safe is slashable with none handed on,
\* also with none that was pruned: it is newer than one the database has, which
\* is newer than the pruned one and does not surround it.
LEMMA SafeVote ==
    ASSUME NEW P, NEW D, VotesOK(P, D), NEW a, IsVote(a),
           check_attestation(a, D) = "safe", NEW p \in P
    PROVE  ~Slashable(a, p) /\ ~Slashable(p, a)
<1> SUFFICES ASSUME a.validator = p.validator, a # p
             PROVE  /\ a.target # p.target /\ ~Surrounds(a, p) /\ ~Surrounds(p, a)
  BY DEF Slashable
<1> DEFINE own == {b \in D : b.validator = a.validator}
<1>1. /\ \A b \in own : ~Slashable(a, b)
      /\ own # {} => \E b \in own : ~(a.target <= b.target)
      /\ a \notin own
  BY DEF check_attestation
<1>2. IsVote(p) /\ \A b \in own : IsVote(b)
  BY DEF VotesOK
<1>3. CASE p \in D
  <2>1. ~Slashable(a, p)
    BY <1>1, <1>3
  <2> QED
    BY <2>1 DEF Slashable
<1>4. CASE p \notin D
  <2>1. /\ \E b \in own : TRUE
        /\ \A b \in own : p.target <= b.target
    BY <1>4 DEF VotesOK
  <2>2. PICK b \in own : ~(a.target <= b.target)
    BY <1>1, <2>1
  <2>3. /\ b.validator = a.validator /\ b \in P /\ b # a /\ b # p
        /\ ~Slashable(a, b) /\ ~Slashable(p, b) /\ IsVote(b)
        /\ p.target <= b.target
    BY <1>1, <1>2, <1>4, <2>1 DEF VotesOK
  <2> HIDE DEF own
  <2>4. /\ p.target # b.target /\ ~Surrounds(b, p) /\ ~Surrounds(a, b)
    BY <2>3 DEF Slashable
  <2>5. p.target < b.target /\ b.target < a.target
    BY <1>2, <2>2, <2>3, <2>4 DEF IsVote
  <2>6. p.source <= b.source /\ b.source <= a.source
    BY <1>2, <2>3, <2>4, <2>5 DEF IsVote, Surrounds
  <2> QED
    BY <1>2, <2>3, <2>5, <2>6 DEF IsVote, Surrounds
<1> QED
  BY <1>3, <1>4

\* Safe attestations of different validators may all be recorded and handed on.
LEMMA RecordSafeVotes ==
    ASSUME NEW P, NEW D, VotesOK(P, D), NEW S,
           \A a \in S : IsVote(a) /\ check_attestation(a, D) = "safe",
           \A a, b \in S : a.validator = b.validator => a = b
    PROVE  VotesOK(P \cup S, D \cup S)
<1>1. \A a \in P \cup S : IsVote(a)
  BY DEF VotesOK
<1>2. ASSUME NEW a \in P \cup S, NEW b \in P \cup S
      PROVE  ~Slashable(a, b)
  <2>1. CASE a \in P /\ b \in P
    BY <2>1 DEF VotesOK
  <2>2. CASE a \in S /\ b \in P
    BY <2>2, SafeVote
  <2>3. CASE a \in P /\ b \in S
    BY <2>3, SafeVote
  <2>4. CASE a \in S /\ b \in S
    BY <2>4 DEF Slashable
  <2> QED
    BY <2>1, <2>2, <2>3, <2>4
<1>3. ASSUME NEW p \in (P \cup S) \ (D \cup S)
      PROVE  /\ \E b \in D \cup S : b.validator = p.validator
             /\ \A b \in D \cup S : b.validator = p.validator => p.target <= b.target
  <2>1. /\ p \in P \ D
        /\ \E b \in D : b.validator = p.validator
        /\ \A b \in D : b.validator = p.validator => p.target <= b.target
    BY DEF VotesOK
  <2>2. ASSUME NEW a \in S, a.validator = p.validator
        PROVE  p.target <= a.target
    <3>1. PICK b \in {c \in D : c.validator = a.validator} : ~(a.target <= b.target)
      BY <2>1, <2>2 DEF check_attestation
    <3>2. IsVote(a) /\ IsVote(b) /\ IsVote(p) /\ p.target <= b.target
      BY <2>1, <2>2, <3>1 DEF VotesOK
    <3> QED
      BY <3>1, <3>2 DEF IsVote
  <2> QED
    BY <2>1, <2>2
<1> QED
  BY <1>1, <1>2, <1>3 DEF VotesOK

\* A prune keeps the newest attestation of each validator.
LEMMA PruneVotes ==
    ASSUME NEW P, NEW D, VotesOK(P, D), NEW m \in Nat,
           NEW E, E = {a \in D : \/ a.target >= m
                                 \/ \A b \in D : b.validator = a.validator
                                                 => b.target <= a.target}
    PROVE  VotesOK(P, E)
<1>1. ASSUME NEW p \in D
      PROVE  \E b \in E : b.validator = p.validator
  <2> DEFINE own == {b \in D : b.validator = p.validator}
             T == {b.target : b \in own}
  <2>1. T \in SUBSET Nat /\ T # {}
    BY DEF VotesOK, IsVote
  <2>2. CASE \E b \in own : b.target >= m
    BY <2>2
  <2>3. CASE \A b \in own : ~(b.target >= m)
    <3>1. \A t \in T : t <= m
      <4>1. ASSUME NEW b \in own
            PROVE  b.target <= m
        BY <2>1, <2>3
      <4> QED
        BY <4>1
    <3> HIDE DEF T
    <3>2. PICK t \in T : \A u \in T : u <= t
      BY <2>1, <3>1, GreatestElement
    <3>3. PICK b \in own : t = b.target
      BY DEF T
    <3>4. \A c \in D : c.validator = b.validator => c.target <= b.target
      BY <3>2, <3>3 DEF T
    <3> QED
      BY <3>3, <3>4
  <2> QED
    BY <2>2, <2>3
<1>2. E \subseteq D
  OBVIOUS
<1>3. ASSUME NEW p \in P \ E
      PROVE  /\ \E b \in E : b.validator = p.validator
             /\ \A b \in E : b.validator = p.validator => p.target <= b.target
  <2>1. CASE p \in D
    <3>1. ~(p.target >= m)
      BY <2>1
    <3>2. ASSUME NEW b \in E, b.validator = p.validator
          PROVE  p.target <= b.target
      <4>1. b.target >= m \/ p.target <= b.target
        BY <2>1, <3>2
      <4>2. IsVote(p) /\ IsVote(b)
        BY <1>2, <2>1 DEF VotesOK
      <4> QED
        BY <3>1, <4>1, <4>2 DEF IsVote
    <3> QED
      BY <1>1, <2>1, <3>2
  <2>2. CASE p \notin D
    <3>1. PICK c \in D : c.validator = p.validator
      BY <2>2 DEF VotesOK
    <3>2. \E b \in E : b.validator = p.validator
      BY <1>1, <3>1
    <3> QED
      BY <1>2, <2>2, <3>2 DEF VotesOK
  <2> QED
    BY <2>1, <2>2
<1> QED
  BY <1>2, <1>3 DEF VotesOK

---------------------------------------------------------------------------
(* The slashing protection of blocks.                                      *)

\* What the database D knows of the blocks B signed so far.
BlocksOK(B, D) ==
    /\ \A b \in B \cup D : b.slot \in Nat
    /\ \A b, c \in B : b.slot = c.slot => b = c
    /\ \A p \in B \ D : D # {} /\ \A c \in D : p.slot <= c.slot

LEMMA SafeBlock ==
    ASSUME NEW B, NEW D, BlocksOK(B, D), NEW b, b.slot \in Nat,
           check_block_proposal(b, D) = "safe"
    PROVE  BlocksOK(B, D \cup {b}) /\ BlocksOK(B \cup {b}, D \cup {b})
<1>1. /\ \A c \in D : c.slot # b.slot
      /\ D # {} => \E c \in D : ~(b.slot <= c.slot)
  BY DEF check_block_proposal
<1>2. ASSUME NEW p \in B \ D
      PROVE  p.slot < b.slot
  <2>1. PICK c \in D : ~(b.slot <= c.slot)
    BY <1>1, <1>2 DEF BlocksOK
  <2>2. p.slot <= c.slot /\ p.slot \in Nat /\ c.slot \in Nat
    BY <1>2, <2>1 DEF BlocksOK
  <2> QED
    BY <2>1, <2>2
<1>3. \A p \in B : p.slot \in Nat
  BY DEF BlocksOK
<1>4. \A p \in B : p.slot # b.slot
  BY <1>1, <1>2, <1>3
<1>5. \A p \in B \ D : p.slot <= b.slot
  BY <1>2, <1>3
<1> QED
  BY <1>4, <1>5 DEF BlocksOK

LEMMA PruneBlocks ==
    ASSUME NEW B, NEW D, BlocksOK(B, D), NEW m \in Nat,
           NEW E, E = {a \in D : a.slot >= m \/ \A b \in D : b.slot <= a.slot}
    PROVE  BlocksOK(B, E)
<1>1. \A b \in D : b.slot \in Nat
  BY DEF BlocksOK
<1>2. D # {} => E # {}
  <2> SUFFICES ASSUME D # {}, E = {}
               PROVE  FALSE
    OBVIOUS
  <2> DEFINE T == {b.slot : b \in D}
  <2>1. T \in SUBSET Nat /\ T # {}
    BY <1>1
  <2>2. \A t \in T : t <= m
    <3>1. ASSUME NEW b \in D
          PROVE  b.slot <= m
      BY <1>1
    <3> QED
      BY <3>1
  <2> HIDE DEF T
  <2>3. PICK t \in T : \A u \in T : u <= t
    BY <2>1, <2>2, GreatestElement
  <2>4. PICK b \in D : t = b.slot
    BY DEF T
  <2>5. \A c \in D : c.slot <= b.slot
    BY <2>3, <2>4 DEF T
  <2> QED
    BY <2>5
<1>3. E \subseteq D
  OBVIOUS
<1>4. ASSUME NEW p \in B \ E
      PROVE  E # {} /\ \A c \in E : p.slot <= c.slot
  <2>1. CASE p \in D
    <3>1. ~(p.slot >= m)
      BY <2>1
    <3>2. ASSUME NEW c \in E
          PROVE  p.slot <= c.slot
      <4>1. c.slot >= m \/ p.slot <= c.slot
        BY <2>1
      <4> QED
        BY <1>1, <1>3, <2>1, <3>1, <4>1
    <3> QED
      BY <1>2, <2>1, <3>2
  <2>2. CASE p \notin D
    BY <1>2, <1>3, <2>2 DEF BlocksOK
  <2> QED
    BY <2>1, <2>2
<1> QED
  BY <1>3, <1>4 DEF BlocksOK

ProposalStates == {"idle", "randao", "consensus", "sign", "collect", "published", "done"}
HasDecision == {"sign", "collect", "published"}
ProposalRecord == [st : ProposalStates, local : Blocks \cup {None}, clock : Nat]

\* A call that signs has the decision of its instance.
ProposalInv ==
    /\ proposals \in [Slots -> [Calls -> ProposalRecord]]
    /\ instance \in [Slots -> [valid : SUBSET Blocks, decided : Blocks \cup {None}]]
    /\ \A s \in Slots, k \in Calls :
          proposals[s][k].st \in HasDecision => instance[s].decided \in Blocks

SlashingInv ==
    /\ slashing_db = [attestations |-> slashing_db.attestations, blocks |-> slashing_db.blocks]
    /\ VotesOK(published, slashing_db.attestations)
    /\ BlocksOK(blocks_signed, slashing_db.blocks)

LEMMA NoProposals ==
    ASSUME NEW P, NEW I,
           P = [s \in Slots |-> [k \in Calls |-> NoProposal]],
           I = [s \in Slots |-> NoInstance]
    PROVE  /\ P \in [Slots -> [Calls -> ProposalRecord]]
           /\ I \in [Slots -> [valid : SUBSET Blocks, decided : Blocks \cup {None}]]
           /\ \A s \in Slots, k \in Calls : P[s][k].st = "idle"
BY DEF NoProposal, NoInstance, ProposalRecord, ProposalStates

\* One call of a proposal slot moves on.
LEMMA ProposalCall ==
    ASSUME ProposalInv, NEW s \in Slots, NEW k \in Calls, NEW r \in ProposalRecord,
           proposals' = [proposals EXCEPT ![s][k] = r],
           instance' \in [Slots -> [valid : SUBSET Blocks, decided : Blocks \cup {None}]],
           \A x \in Slots : instance[x].decided \in Blocks => instance'[x].decided \in Blocks,
           r.st \in HasDecision => instance'[s].decided \in Blocks
    PROVE  ProposalInv'
<1>1. proposals' \in [Slots -> [Calls -> ProposalRecord]]
  BY DEF ProposalInv
<1>2. ASSUME NEW x \in Slots, NEW l \in Calls,
             proposals'[x][l].st \in HasDecision
      PROVE  instance'[x].decided \in Blocks
  <2>1. CASE x = s /\ l = k
    BY <1>2, <2>1 DEF ProposalInv
  <2>2. CASE ~(x = s /\ l = k)
    <3>1. proposals'[x][l] = proposals[x][l]
      BY <2>2 DEF ProposalInv
    <3> QED
      BY <1>2, <3>1 DEF ProposalInv
  <2> QED
    BY <2>1, <2>2
<1> QED
  BY <1>1, <1>2 DEF ProposalInv

LEMMA ProposalAt ==
    ASSUME ProposalInv, NEW s \in Slots, NEW k \in Calls
    PROVE  proposals[s][k] \in ProposalRecord
<1>1. proposals[s] \in [Calls -> ProposalRecord]
  BY DEF ProposalInv
<1> QED
  BY <1>1

LEMMA ProposalStep ==
    ASSUME ClockOK, ProposalInv, ProposalNext
    PROVE  ProposalInv'
<1>0. slot \in Nat
  BY SlotType
<1> USE DEF ProposalStates, HasDecision
<1>1. ASSUME NEW s \in Slots, NEW k \in Calls, randao_reveal(s, k)
      PROVE  ProposalInv'
  <2> DEFINE r == [st |-> "randao", local |-> None, clock |-> slot]
  <2>1. r \in ProposalRecord /\ r.st = "randao"
    BY <1>0 DEF ProposalRecord
  <2>2. proposals' = [proposals EXCEPT ![s][k] = r] /\ instance' = instance
    BY <1>1 DEF randao_reveal
  <2> HIDE DEF r
  <2> QED
    BY <2>1, <2>2, ProposalCall DEF ProposalInv
<1>2. ASSUME NEW s \in Slots, NEW k \in Calls, sign_block(s, k)
      PROVE  ProposalInv'
  <2>1. PICK b \in Blocks :
           proposals' = [proposals EXCEPT ![s][k] =
                [@ EXCEPT !.st = IF Active(Proposer) THEN "consensus" ELSE "done",
                          !.local = b]]
    BY <1>2 DEF sign_block
  <2> DEFINE r == [proposals[s][k] EXCEPT
                      !.st = IF Active(Proposer) THEN "consensus" ELSE "done", !.local = b]
  <2>2. r \in ProposalRecord /\ r.st \in {"consensus", "done"}
    BY ProposalAt DEF ProposalRecord
  <2>3. proposals' = [proposals EXCEPT ![s][k] = r] /\ instance' = instance
    BY <1>2, <2>1 DEF sign_block
  <2> HIDE DEF r
  <2> QED
    BY <2>2, <2>3, ProposalCall DEF ProposalInv
<1>3. ASSUME NEW s \in Slots, NEW b \in Blocks, do_validation(s, b)
      PROVE  ProposalInv'
  <2>1. instance' = [instance EXCEPT ![s].valid = @ \cup {b}] /\ proposals' = proposals
    BY <1>3 DEF do_validation
  <2>2. /\ instance' \in [Slots -> [valid : SUBSET Blocks, decided : Blocks \cup {None}]]
        /\ \A x \in Slots : instance'[x].decided = instance[x].decided
    BY <2>1 DEF ProposalInv
  <2> QED
    BY <2>1, <2>2 DEF ProposalInv
<1>4. ASSUME NEW s \in Slots, NEW k \in Calls, decide_abstract_block(s, k)
      PROVE  ProposalInv'
  <2>1. ASSUME NEW b \in instance[s].valid,
               instance' = [instance EXCEPT ![s].decided = b],
               NEW st \in {"sign", "done"},
               proposals' = [proposals EXCEPT ![s][k].st = st]
        PROVE  ProposalInv'
    <3>1. b \in Blocks
      BY DEF ProposalInv
    <3>2. /\ instance' \in [Slots -> [valid : SUBSET Blocks, decided : Blocks \cup {None}]]
          /\ instance'[s].decided = b
          /\ \A x \in Slots \ {s} : instance'[x] = instance[x]
      BY <2>1, <3>1 DEF ProposalInv
    <3> DEFINE r == [proposals[s][k] EXCEPT !.st = st]
    <3>3. r \in ProposalRecord /\ r.st \in {"sign", "done"}
      BY ProposalAt DEF ProposalRecord
    <3>4. proposals' = [proposals EXCEPT ![s][k] = r]
      BY <2>1
    <3> HIDE DEF r
    <3> QED
      BY <3>1, <3>2, <3>3, <3>4, ProposalCall
  <2>2. CASE proposals' = [proposals EXCEPT ![s][k].st = "done"] /\ instance' = instance
    <3> DEFINE r == [proposals[s][k] EXCEPT !.st = "done"]
    <3>1. r \in ProposalRecord /\ r.st = "done"
      BY ProposalAt DEF ProposalRecord
    <3>2. proposals' = [proposals EXCEPT ![s][k] = r]
      BY <2>2
    <3>3. instance \in [Slots -> [valid : SUBSET Blocks, decided : Blocks \cup {None}]]
      BY DEF ProposalInv
    <3> HIDE DEF r
    <3> QED
      BY <2>2, <3>1, <3>2, <3>3, ProposalCall
  <2> QED
    BY <1>4, <2>1, <2>2 DEF decide_abstract_block
<1>5. ASSUME NEW s \in Slots, NEW k \in Calls, sign_abstract_block(s, k) \/ PublishBlock(s, k)
      PROVE  ProposalInv'
  <2>1. PICK st \in {"collect", "published", "done"} :
           proposals' = [proposals EXCEPT ![s][k].st = st]
    BY <1>5 DEF sign_abstract_block, PublishBlock
  <2>2. instance' = instance /\ proposals[s][k].st \in {"sign", "collect"}
    BY <1>5 DEF sign_abstract_block, PublishBlock
  <2> DEFINE r == [proposals[s][k] EXCEPT !.st = st]
  <2>3. r \in ProposalRecord
    BY ProposalAt DEF ProposalRecord
  <2>4. proposals' = [proposals EXCEPT ![s][k] = r]
    BY <2>1
  <2> HIDE DEF r
  <2> QED
    BY <2>2, <2>3, <2>4, ProposalCall DEF ProposalInv
<1>6. ASSUME NEW s \in Slots, NEW b \in Blocks, sign_execution_payload_envelope(s, b)
      PROVE  ProposalInv'
  BY <1>6 DEF sign_execution_payload_envelope, ProposalInv
<1>7. ASSUME NEW b \in Blocks, EndEnvelope(b)
      PROVE  ProposalInv'
  BY <1>7 DEF EndEnvelope, ProposalInv
<1> QED
  BY <1>1, <1>2, <1>3, <1>4, <1>5, <1>6, <1>7 DEF ProposalNext

LEMMA BlockStep ==
    ASSUME ProposalInv, SlashingInv, ProposalNext
    PROVE  SlashingInv'
<1>1. published' = published
  BY ProposalKeepsPipeline DEF callVars
<1>2. ASSUME NEW s \in Slots, NEW k \in Calls, sign_abstract_block(s, k)
      PROVE  SlashingInv'
  <2> DEFINE b == instance[s].decided
  <2>1. b \in Blocks /\ b.slot \in Nat
    BY <1>2, BlocksAssumption DEF sign_abstract_block, ProposalInv, HasDecision
  <2>3. CASE UNCHANGED <<slashing_db, blocks_signed>>
    BY <1>1, <2>3 DEF SlashingInv
  <2>4. CASE protect_block(b) /\ blocks_signed' \in {blocks_signed, blocks_signed \cup {b}}
    <3> HIDE DEF b
    <3>1. /\ check_block_proposal(b, slashing_db.blocks) = "safe"
          /\ slashing_db' = [slashing_db EXCEPT !.blocks = @ \cup {b}]
      BY <2>4 DEF protect_block
    <3>2. slashing_db' = [attestations |-> slashing_db.attestations,
                          blocks |-> slashing_db.blocks \cup {b}]
      BY <3>1 DEF SlashingInv
    <3>3. /\ BlocksOK(blocks_signed, slashing_db.blocks \cup {b})
          /\ BlocksOK(blocks_signed \cup {b}, slashing_db.blocks \cup {b})
      BY <2>1, <3>1, SafeBlock DEF SlashingInv
    <3>4. BlocksOK(blocks_signed', slashing_db'.blocks)
      BY <2>4, <3>2, <3>3
    <3> QED
      BY <1>1, <2>4, <3>2, <3>4 DEF SlashingInv
  <2> QED
    BY <1>2, <2>3, <2>4 DEF sign_abstract_block
<1>3. CASE UNCHANGED <<slashing_db, blocks_signed>>
  BY <1>1, <1>3 DEF SlashingInv
<1>4. \/ \E s \in Slots, k \in Calls : sign_abstract_block(s, k)
      \/ UNCHANGED <<slashing_db, blocks_signed>>
  BY ProposalKeepsStore DEF storeVars, slashingVars
<1> QED
  BY <1>2, <1>3, <1>4

LEMMA VoteStep ==
    ASSUME ClockOK, PipelineInv, SlashingInv, StoreNext, UNCHANGED proposalVars
    PROVE  SlashingInv'
<1>0. UNCHANGED blocks_signed
  BY DEF proposalVars
<1>1. CASE UNCHANGED <<slashing_db, published>>
  BY <1>0, <1>1 DEF SlashingInv
<1>2. CASE prune_slashing_protection_db
  <2> DEFINE m == IF epoch_of(slot) < HistoryEpochs THEN 0 ELSE epoch_of(slot) - HistoryEpochs
             atts == slashing_db.attestations
             blocks == slashing_db.blocks
  <2>1. m \in Nat /\ m * SlotsPerEpoch \in Nat
    <3>1. epoch_of(slot) \in Nat
      BY SlotType, EpochsType
    <3>2. m \in Nat
      BY <3>1, StoreAssumption
    <3> HIDE DEF m
    <3> QED
      BY <3>2, ClockAssumption
  <2>2. /\ published' = published
        /\ slashing_db' =
              [attestations |->
                  {a \in atts : \/ a.target >= m
                                \/ \A b \in atts : b.validator = a.validator
                                                   => b.target <= a.target},
               blocks |->
                  {a \in blocks : \/ a.slot >= m * SlotsPerEpoch
                                  \/ \A b \in blocks : b.slot <= a.slot}]
    BY <1>2 DEF prune_slashing_protection_db, callVars
  <2> HIDE DEF m
  <2>3. VotesOK(published, slashing_db'.attestations)
    BY <2>1, <2>2, PruneVotes DEF SlashingInv
  <2>4. BlocksOK(blocks_signed, slashing_db'.blocks)
    BY <2>1, <2>2, PruneBlocks DEF SlashingInv
  <2> QED
    BY <1>0, <2>2, <2>3, <2>4 DEF SlashingInv
<1>3. ASSUME NEW s \in Slots, RecordAttestations(s)
      PROVE  SlashingInv'
  <2> DEFINE d == contexts[s].decided
             A == {Attestation(i[1], s, d) : i \in calls[<<"attest", s>>].good}
             S == {a \in A : check_attestation(a, slashing_db.attestations) = "safe"}
  <2>1. <<"attest", s>> \in CallIds /\ <<"attest", s>>[2] = s
    BY DEF CallIds
  <2>2. d \in Votes
    BY <1>3, <2>1 DEF RecordAttestations, PipelineInv, CallsServed
  <2>3. \A a \in A : IsVote(a)
    BY <2>2, StoreAssumption DEF Attestation, IsVote
  <2>4. \A a, b \in A : a.validator = b.validator => a = b
    BY DEF Attestation
  <2>5. /\ slashing_db' = [slashing_db EXCEPT !.attestations = @ \cup S]
        /\ published' = published \cup S
    BY <1>3 DEF RecordAttestations, slashing_protection_attestations
  <2>6. slashing_db' = [attestations |-> slashing_db.attestations \cup S,
                        blocks |-> slashing_db.blocks]
    BY <2>5 DEF SlashingInv
  <2>7. \A a \in S : IsVote(a) /\ check_attestation(a, slashing_db.attestations) = "safe"
    BY <2>3
  <2>8. \A a, b \in S : a.validator = b.validator => a = b
    BY <2>4
  <2> HIDE DEF S, A, d
  <2>9. VotesOK(published \cup S, slashing_db.attestations \cup S)
    BY <2>7, <2>8, RecordSafeVotes DEF SlashingInv
  <2> QED
    BY <1>0, <2>5, <2>6, <2>9 DEF SlashingInv
<1>4. \/ prune_slashing_protection_db
      \/ \E s \in Slots : RecordAttestations(s)
      \/ UNCHANGED <<slashing_db, published>>
  BY DEF StoreNext, ChangeRegistry, ReorgDuties, update_voting_assignments,
     head_event_or_deadline, update_voting_context, remove_stale_entries,
     ValidateProposal, get_voting_context, decide_committee_vote, collect_signature,
     sign_attestations, sign_sync_committee_signatures, StartCall, DrainAttestations,
     DrainSyncMessages, drain_signatures, slashingVars, callVars
<1> QED
  BY <1>1, <1>2, <1>3, <1>4

LEMMA SlashingInitial == Init => ProposalInv /\ SlashingInv
<1> SUFFICES ASSUME Init PROVE ProposalInv /\ SlashingInv
  OBVIOUS
<1>1. ProposalInv
  <2>1. /\ proposals = [s \in Slots |-> [k \in Calls |-> NoProposal]]
        /\ instance = [s \in Slots |-> NoInstance]
    BY DEF Init, ProposalInit
  <2> QED
    BY <2>1, NoProposals DEF ProposalInv, HasDecision
<1>2. /\ slashing_db = [attestations |-> config.history, blocks |-> {}]
      /\ published = config.history /\ blocks_signed = {}
      /\ config \in Scenarios
  BY DEF Init, StoreInit, ProposalInit, ClockInit
<1>3. VotesOK(config.history, config.history)
  BY <1>2, StoreAssumption DEF VotesOK, IsVote, Slashable, Surrounds
<1>4. BlocksOK({}, {})
  BY DEF BlocksOK
<1> QED
  BY <1>1, <1>2, <1>3, <1>4 DEF SlashingInv

LEMMA SlashingInduction == Spec => [](ProposalInv /\ SlashingInv)
<1>1. ClockOK /\ PipelineInv /\ ProposalInv /\ SlashingInv /\ [Next]_vars
      => (ProposalInv /\ SlashingInv)'
  <2> SUFFICES ASSUME ClockOK, PipelineInv, ProposalInv, SlashingInv, [Next]_vars
               PROVE  (ProposalInv /\ SlashingInv)'
    OBVIOUS
  <2>1. CASE StoreNext /\ UNCHANGED <<clockVars, proposalVars>>
    <3>1. ProposalInv'
      BY <2>1 DEF ProposalInv, proposalVars
    <3> QED
      BY <2>1, <3>1, VoteStep
  <2>2. CASE ProposalNext
    BY <2>2, ProposalStep, BlockStep
  <2>3. CASE \/ AggregatorNext /\ UNCHANGED proposalVars
             \/ Startup
             \/ UNCHANGED <<storeVars, proposalVars>>
    <3>1. UNCHANGED <<slashing_db, published, proposalVars>>
      BY <2>3, AggregatorKeepsPipeline, StartupStep
         DEF storeVars, callVars, slashingVars, StartPublishers
    <3> QED
      BY <3>1 DEF ProposalInv, SlashingInv, proposalVars
  <2>4. CASE Restart
    <3>1. UNCHANGED <<slashing_db, published, blocks_signed>>
      BY <2>4 DEF Restart, RestartStore, RestartProposals
    <3>2. /\ proposals' = [s \in Slots |-> [k \in Calls |-> NoProposal]]
          /\ instance' = [s \in Slots |-> NoInstance]
      BY <2>4 DEF Restart, RestartProposals
    <3>3. ProposalInv'
      BY <3>2, NoProposals DEF ProposalInv, HasDecision
    <3> QED
      BY <3>1, <3>3 DEF SlashingInv
  <2> QED
    BY <2>1, <2>2, <2>3, <2>4, StoreStep
<1> QED
  BY <1>1, SlashingInitial, PipelineInduction, PTL DEF Spec

\* No two attestations handed to Lighthouse and no two blocks the operator
\* signs are slashable together, for any decisions of the committee, any
\* restarts and reorgs, and whatever the prunes have dropped.
THEOREM NothingSlashableHolds == Spec => []NothingSlashable
<1>1. SlashingInv => NothingSlashable
  BY DEF SlashingInv, VotesOK, BlocksOK, NothingSlashable
<1> QED
  BY <1>1, SlashingInduction, PTL

---------------------------------------------------------------------------
(* The envelopes of the decided blocks.                                    *)

DecidedContexts == [block : Blocks, built_locally : BOOLEAN]
EnvelopeStates == {"idle", "wait", "refused", "served", "late"}

\* What is on record for a slot is the decision of its instance.
ContextsOK ==
    /\ decided_block_contexts \in [Slots -> DecidedContexts \cup {None}]
    /\ \A s \in Slots : decided_block_contexts[s] # None
                        => decided_block_contexts[s].block = instance[s].decided

\* A call that has a decision finds it on record while the slot is recent, and
\* its own payload known to be here; once it signs, the envelope is registered
\* with its block, and once it is done Lighthouse has the block.
CallOK(s, k) ==
    /\ proposals[s][k].st # "idle" => s <= slot
    /\ proposals[s][k].st \in HasDecision /\ Gloas(s) /\ s + MaxDecidedRootAge >= slot
       => /\ decided_block_contexts[s] # None
          /\ proposals[s][k].local = instance[s].decided
             => decided_block_contexts[s].built_locally
    /\ /\ proposals[s][k].st \in {"collect", "published"}
       /\ Gloas(s) /\ instance[s].decided.builder = "self"
       => [envelope |-> instance[s].decided, companion |-> instance[s].decided]
             \in registered_envelopes
    /\ proposals[s][k].st = "published" /\ Gloas(s)
       => <<instance[s].decided, "full">> \in blocks_published

WaitingOK ==
    /\ envelope_calls \in [Blocks -> EnvelopeStates]
    /\ \A b \in Blocks : envelope_calls[b] = "wait" => <<b, "full">> \in blocks_published

EnvelopeInv ==
    /\ ContextsOK
    /\ \A s \in Slots, k \in Calls : CallOK(s, k)
    /\ WaitingOK

\* A call that does not move stays right while records, registrations and
\* published blocks are only added to and time goes on.
LEMMA CallKept ==
    ASSUME NEW s \in Slots, NEW k \in Calls, CallOK(s, k),
           slot \in Nat, slot' \in Nat, slot <= slot',
           proposals'[s][k] = proposals[s][k],
           proposals[s][k].st \in HasDecision
               => instance'[s].decided = instance[s].decided,
           decided_block_contexts[s] # None /\ s + MaxDecidedRootAge >= slot'
               => /\ decided_block_contexts'[s] # None
                  /\ decided_block_contexts[s].built_locally
                     => decided_block_contexts'[s].built_locally,
           registered_envelopes \subseteq registered_envelopes',
           blocks_published \subseteq blocks_published'
    PROVE  CallOK(s, k)'
<1>0. s \in Nat /\ MaxDecidedRootAge \in Nat
  BY StoreAssumption, BlocksAssumption
<1>1. (proposals[s][k].st # "idle" => s <= slot)'
  BY <1>0 DEF CallOK
<1>2. ASSUME (proposals[s][k].st \in HasDecision /\ Gloas(s) /\ s + MaxDecidedRootAge >= slot)'
      PROVE  (/\ decided_block_contexts[s] # None
              /\ proposals[s][k].local = instance[s].decided
                 => decided_block_contexts[s].built_locally)'
  <2>1. /\ proposals[s][k].st \in HasDecision
        /\ s + MaxDecidedRootAge >= slot' /\ Gloas(s)
        /\ instance'[s].decided = instance[s].decided
    BY <1>2 DEF Gloas
  <2>2. s + MaxDecidedRootAge >= slot
    BY <1>0, <2>1
  <2> QED
    BY <2>1, <2>2 DEF CallOK
<1>3. ASSUME (/\ proposals[s][k].st \in {"collect", "published"}
              /\ Gloas(s) /\ instance[s].decided.builder = "self")'
      PROVE  ([envelope |-> instance[s].decided, companion |-> instance[s].decided]
                 \in registered_envelopes)'
  <2>1. /\ proposals[s][k].st \in {"collect", "published"} /\ Gloas(s)
        /\ instance'[s].decided = instance[s].decided
        /\ instance[s].decided.builder = "self"
    BY <1>3 DEF Gloas, HasDecision
  <2> QED
    BY <2>1 DEF CallOK
<1>4. ASSUME (proposals[s][k].st = "published" /\ Gloas(s))'
      PROVE  (<<instance[s].decided, "full">> \in blocks_published)'
  <2>1. /\ proposals[s][k].st = "published" /\ Gloas(s)
        /\ instance'[s].decided = instance[s].decided
    BY <1>4 DEF Gloas, HasDecision
  <2> QED
    BY <2>1 DEF CallOK
<1> QED
  BY <1>1, <1>2, <1>3, <1>4 DEF CallOK

\* Of the calls, one moves.
LEMMA OneCall ==
    ASSUME ProposalInv, NEW s \in Slots, NEW k \in Calls, NEW r,
           proposals' = [proposals EXCEPT ![s][k] = r]
    PROVE  /\ proposals'[s][k] = r
           /\ \A x \in Slots, l \in Calls :
                 ~(x = s /\ l = k) => proposals'[x][l] = proposals[x][l]
BY DEF ProposalInv

\* record_decided_block_context, for the decision already on record or the
\* first one: no recent record is lost, nor is a payload that was here.
LEMMA RecordedFacts ==
    ASSUME ContextsOK, NEW s \in Slots, NEW b \in Blocks, NEW local \in BOOLEAN,
           decided_block_contexts[s] # None => decided_block_contexts[s].block = b
    PROVE  /\ Recorded(s, b, local) \in [Slots -> DecidedContexts \cup {None}]
           /\ Recorded(s, b, local)[s] # None /\ Recorded(s, b, local)[s].block = b
           /\ local => Recorded(s, b, local)[s].built_locally
           /\ decided_block_contexts[s] # None /\ decided_block_contexts[s].built_locally
              => Recorded(s, b, local)[s].built_locally
           /\ \A x \in Slots : x # s =>
                 /\ Recorded(s, b, local)[x] \in {decided_block_contexts[x], None}
                 /\ x + MaxDecidedRootAge >= s
                    => Recorded(s, b, local)[x] = decided_block_contexts[x]
<1> DEFINE kept == [x \in Slots |-> IF x + MaxDecidedRootAge >= s
                                    THEN decided_block_contexts[x] ELSE None]
           new == IF decided_block_contexts[s] = None
                  THEN [block |-> b, built_locally |-> local]
                  ELSE [block |-> b, built_locally |->
                           decided_block_contexts[s].built_locally \/ local]
<1>1. s + MaxDecidedRootAge >= s
  BY StoreAssumption, BlocksAssumption
<1>2. kept[s] = decided_block_contexts[s]
  BY <1>1
<1>3. Recorded(s, b, local) = [kept EXCEPT ![s] = new]
  BY <1>2 DEF Recorded
<1>4. /\ new \in DecidedContexts /\ new.block = b
      /\ local => new.built_locally
      /\ decided_block_contexts[s] # None /\ decided_block_contexts[s].built_locally
         => new.built_locally
  <2>1. CASE decided_block_contexts[s] = None
    BY <2>1 DEF DecidedContexts
  <2>2. CASE decided_block_contexts[s] # None
    <3>1. decided_block_contexts[s] \in DecidedContexts
      BY <2>2 DEF ContextsOK
    <3> QED
      BY <2>2, <3>1 DEF DecidedContexts
  <2> QED
    BY <2>1, <2>2
<1>5. new # None
  BY <1>4, BlocksAssumption DEF DecidedContexts
<1>6. \A x \in Slots : /\ kept[x] \in {decided_block_contexts[x], None}
                       /\ x + MaxDecidedRootAge >= s => kept[x] = decided_block_contexts[x]
  OBVIOUS
<1>7. kept \in [Slots -> DecidedContexts \cup {None}]
  BY DEF ContextsOK
<1> HIDE DEF new, kept
<1> QED
  BY <1>3, <1>4, <1>5, <1>6, <1>7

LEMMA DecideStep ==
    ASSUME ClockOK, slot' = slot, ProposalInv, EnvelopeInv,
           NEW s \in Slots, NEW k \in Calls, decide_abstract_block(s, k)
    PROVE  EnvelopeInv'
<1>0. /\ slot \in Nat /\ proposals[s][k].st = "consensus" /\ s <= slot
      /\ UNCHANGED <<registered_envelopes, blocks_published, envelope_calls>>
  BY SlotType DEF decide_abstract_block, envelopeVars, EnvelopeInv, CallOK
<1>1. WaitingOK'
  BY <1>0 DEF EnvelopeInv, WaitingOK
<1>2. ASSUME NEW b \in instance[s].valid, instance[s].decided \in {None, b},
             instance' = [instance EXCEPT ![s].decided = b],
             decided_block_contexts' =
                 IF Gloas(s) THEN Recorded(s, b, proposals[s][k].local = b)
                 ELSE decided_block_contexts,
             NEW st \in {"sign", "done"},
             proposals' = [proposals EXCEPT ![s][k].st = st]
      PROVE  EnvelopeInv'
  <2>1. /\ b \in Blocks /\ b # None
        /\ instance'[s].decided = b
        /\ \A x \in Slots : x # s => instance'[x] = instance[x]
    BY <1>2, BlocksAssumption DEF ProposalInv
  <2>2. decided_block_contexts[s] # None => decided_block_contexts[s].block = b
    <3>1. ASSUME decided_block_contexts[s] # None
          PROVE  decided_block_contexts[s].block = b
      <4>1. decided_block_contexts[s] \in DecidedContexts
        BY <3>1 DEF EnvelopeInv, ContextsOK
      <4>2. decided_block_contexts[s].block \in Blocks
        BY <4>1 DEF DecidedContexts
      <4>3. decided_block_contexts[s].block = instance[s].decided
        BY <3>1 DEF EnvelopeInv, ContextsOK
      <4> QED
        BY <1>2, <4>2, <4>3, BlocksAssumption
    <3> QED
      BY <3>1
  <2> DEFINE local == proposals[s][k].local = b
             R == Recorded(s, b, local)
  <2>3. /\ R \in [Slots -> DecidedContexts \cup {None}]
        /\ R[s] # None /\ R[s].block = b
        /\ local => R[s].built_locally
        /\ decided_block_contexts[s] # None /\ decided_block_contexts[s].built_locally
           => R[s].built_locally
        /\ \A x \in Slots : x # s =>
              /\ R[x] \in {decided_block_contexts[x], None}
              /\ x + MaxDecidedRootAge >= s => R[x] = decided_block_contexts[x]
    <3>1. local \in BOOLEAN /\ ContextsOK
      BY DEF EnvelopeInv
    <3> HIDE DEF local
    <3> QED
      BY <2>1, <2>2, <3>1, RecordedFacts
  <2>4. decided_block_contexts' = IF Gloas(s) THEN R ELSE decided_block_contexts
    BY <1>2
  <2> HIDE DEF R
  <2>5. ContextsOK'
    <3>1. decided_block_contexts' \in [Slots -> DecidedContexts \cup {None}]
      BY <2>3, <2>4 DEF EnvelopeInv, ContextsOK
    <3>2. ASSUME NEW x \in Slots, decided_block_contexts'[x] # None
          PROVE  decided_block_contexts'[x].block = instance'[x].decided
      <4>1. CASE x = s
        BY <2>1, <2>2, <2>3, <2>4, <3>2, <4>1
      <4>2. CASE x # s
        <5>1. decided_block_contexts'[x] = decided_block_contexts[x]
          BY <2>3, <2>4, <3>2, <4>2
        <5> QED
          BY <2>1, <3>2, <4>2, <5>1 DEF EnvelopeInv, ContextsOK
      <4> QED
        BY <4>1, <4>2
    <3> QED
      BY <3>1, <3>2 DEF ContextsOK
  <2> DEFINE r == [proposals[s][k] EXCEPT !.st = st]
  <2>6. proposals' = [proposals EXCEPT ![s][k] = r]
    BY <1>2
  <2>7. r.st = st /\ r.local = proposals[s][k].local
    BY ProposalAt DEF ProposalRecord
  <2> HIDE DEF r
  <2>8. CallOK(s, k)'
    <3>1. proposals'[s][k] = r
      BY <2>6 DEF ProposalInv
    <3>2. Gloas(s) => /\ decided_block_contexts'[s] # None
                      /\ r.local = b => decided_block_contexts'[s].built_locally
      BY <2>3, <2>4, <2>7
    <3> QED
      BY <1>0, <2>1, <2>7, <3>1, <3>2 DEF CallOK, Gloas
  <2>9. ASSUME NEW x \in Slots, NEW l \in Calls, ~(x = s /\ l = k)
        PROVE  CallOK(x, l)'
    <3>1. proposals'[x][l] = proposals[x][l]
      BY <2>6, <2>9, OneCall
    <3>2. proposals[x][l].st \in HasDecision => instance'[x].decided = instance[x].decided
      BY <1>2, <2>1, BlocksAssumption DEF ProposalInv
    <3>3. decided_block_contexts[x] # None /\ x + MaxDecidedRootAge >= slot
          => /\ decided_block_contexts'[x] # None
             /\ decided_block_contexts[x].built_locally
                => decided_block_contexts'[x].built_locally
      <4>1. x \in Nat /\ s \in Nat /\ MaxDecidedRootAge \in Nat
        BY StoreAssumption, BlocksAssumption
      <4>2. x + MaxDecidedRootAge >= slot => x + MaxDecidedRootAge >= s
        BY <1>0, <4>1
      <4> QED
        BY <2>3, <2>4, <4>2
    <3> QED
      BY <1>0, <3>1, <3>2, <3>3, CallKept DEF EnvelopeInv
  <2> QED
    BY <1>1, <2>5, <2>8, <2>9 DEF EnvelopeInv
<1>3. ASSUME proposals' = [proposals EXCEPT ![s][k].st = "done"],
             UNCHANGED <<instance, decided_block_contexts>>
      PROVE  EnvelopeInv'
  <2> DEFINE r == [proposals[s][k] EXCEPT !.st = "done"]
  <2>1. proposals' = [proposals EXCEPT ![s][k] = r] /\ r.st = "done"
    BY <1>3, ProposalAt DEF ProposalRecord
  <2> HIDE DEF r
  <2>2. CallOK(s, k)'
    BY <1>0, <2>1, OneCall DEF CallOK, HasDecision
  <2>3. ASSUME NEW x \in Slots, NEW l \in Calls, ~(x = s /\ l = k)
        PROVE  CallOK(x, l)'
    BY <1>0, <1>3, <2>1, <2>3, OneCall, CallKept DEF EnvelopeInv
  <2> QED
    BY <1>1, <1>3, <2>2, <2>3 DEF EnvelopeInv, ContextsOK
<1> QED
  BY <1>2, <1>3 DEF decide_abstract_block

\* A step that leaves decisions and records alone and moves one call.
LEMMA MoveCall ==
    ASSUME ClockOK, slot' = slot, ProposalInv, EnvelopeInv,
           NEW s \in Slots, NEW k \in Calls, NEW r,
           proposals' = [proposals EXCEPT ![s][k] = r],
           UNCHANGED <<instance, decided_block_contexts, envelope_calls>>,
           registered_envelopes \subseteq registered_envelopes',
           blocks_published \subseteq blocks_published',
           s <= slot,
           r.st \in HasDecision => /\ proposals[s][k].st \in HasDecision
                                   /\ r.local = proposals[s][k].local,
           r.st \in {"collect", "published"} /\ Gloas(s)
               /\ instance[s].decided.builder = "self"
               => [envelope |-> instance[s].decided, companion |-> instance[s].decided]
                     \in registered_envelopes',
           r.st = "published" /\ Gloas(s)
               => <<instance[s].decided, "full">> \in blocks_published'
    PROVE  EnvelopeInv'
<1>0. slot \in Nat /\ CallOK(s, k) /\ proposals'[s][k] = r
  BY SlotType DEF EnvelopeInv, ProposalInv
<1>1. CallOK(s, k)'
  BY <1>0 DEF CallOK, Gloas
<1>2. ASSUME NEW x \in Slots, NEW l \in Calls, ~(x = s /\ l = k)
      PROVE  CallOK(x, l)'
  BY <1>0, <1>2, OneCall, CallKept DEF EnvelopeInv
<1> QED
  BY <1>1, <1>2 DEF EnvelopeInv, ContextsOK, WaitingOK

LEMMA SignStep ==
    ASSUME ClockOK, slot' = slot, ProposalInv, EnvelopeInv,
           NEW s \in Slots, NEW k \in Calls, sign_abstract_block(s, k)
    PROVE  EnvelopeInv'
<1> DEFINE d == instance[s].decided
<1>0. /\ proposals[s][k].st = "sign" /\ s <= slot
      /\ UNCHANGED <<instance, decided_block_contexts, blocks_published, envelope_calls>>
  BY DEF sign_abstract_block, envelopeVars, EnvelopeInv, CallOK
<1>1. PICK st \in {"collect", "done"} :
         /\ proposals' = [proposals EXCEPT ![s][k].st = st]
         /\ st = "collect" => /\ Gloas(s) => get_decided_block_context(s) # None
                              /\ sign_proposer_packet(s, d)
         /\ st = "done" => registered_envelopes' = registered_envelopes
  BY DEF sign_abstract_block
<1>2. registered_envelopes \subseteq registered_envelopes'
  BY <1>1 DEF sign_proposer_packet
<1>3. ASSUME st = "collect", Gloas(s), d.builder = "self"
      PROVE  [envelope |-> d, companion |-> d] \in registered_envelopes'
  <2>1. decided_block_contexts[s] # None
    BY <1>1, <1>3 DEF get_decided_block_context
  <2>2. decided_block_contexts[s].block = d
    BY <2>1 DEF EnvelopeInv, ContextsOK
  <2> QED
    BY <1>1, <1>3, <2>2 DEF sign_proposer_packet
<1> DEFINE r == [proposals[s][k] EXCEPT !.st = st]
<1>4. /\ proposals' = [proposals EXCEPT ![s][k] = r]
      /\ r.st = st /\ r.local = proposals[s][k].local
  BY <1>1, ProposalAt DEF ProposalRecord
<1> HIDE DEF r, d
<1>5. d = instance[s].decided
  BY DEF d
<1> QED
  BY <1>0, <1>2, <1>3, <1>4, <1>5, MoveCall DEF HasDecision

LEMMA PublishStep ==
    ASSUME ClockOK, slot' = slot, ProposalInv, EnvelopeInv,
           NEW s \in Slots, NEW k \in Calls, PublishBlock(s, k)
    PROVE  EnvelopeInv'
<1>0. /\ proposals[s][k].st = "collect" /\ s <= slot /\ CallOK(s, k)
      /\ proposals' = [proposals EXCEPT ![s][k].st = "published"]
      /\ UNCHANGED <<instance, decided_block_contexts, registered_envelopes, envelope_calls>>
  BY DEF PublishBlock, envelopeVars, EnvelopeInv, CallOK
<1>1. /\ blocks_published \subseteq blocks_published'
      /\ Gloas(s) => <<instance[s].decided, "full">> \in blocks_published'
  BY DEF PublishBlock, select_publish_block
<1>2. Gloas(s) /\ instance[s].decided.builder = "self"
      => [envelope |-> instance[s].decided, companion |-> instance[s].decided]
            \in registered_envelopes
  BY <1>0 DEF CallOK
<1> DEFINE r == [proposals[s][k] EXCEPT !.st = "published"]
<1>3. /\ proposals' = [proposals EXCEPT ![s][k] = r]
      /\ r.st = "published" /\ r.local = proposals[s][k].local
  BY <1>0, ProposalAt DEF ProposalRecord
<1> HIDE DEF r
<1> QED
  BY <1>0, <1>1, <1>2, <1>3, MoveCall DEF HasDecision

\* The first steps of a call.
LEMMA StartStep ==
    ASSUME ClockOK, slot' = slot, ProposalInv, EnvelopeInv,
           NEW s \in Slots, NEW k \in Calls, randao_reveal(s, k) \/ sign_block(s, k)
    PROVE  EnvelopeInv'
<1>1. CASE randao_reveal(s, k)
  <2> DEFINE r == [st |-> "randao", local |-> None, clock |-> slot]
  <2>1. /\ proposals' = [proposals EXCEPT ![s][k] = r] /\ r.st = "randao"
        /\ UNCHANGED <<instance, decided_block_contexts, envelope_calls,
                       registered_envelopes, blocks_published>>
        /\ s = slot
    BY <1>1 DEF randao_reveal, envelopeVars
  <2>2. slot <= slot
    BY SlotType
  <2> HIDE DEF r
  <2> QED
    BY <2>1, <2>2, MoveCall DEF HasDecision
<1>2. CASE sign_block(s, k)
  <2>1. PICK b \in Blocks :
           proposals' = [proposals EXCEPT ![s][k] =
                [@ EXCEPT !.st = IF Active(Proposer) THEN "consensus" ELSE "done",
                          !.local = b]]
    BY <1>2 DEF sign_block
  <2> DEFINE r == [proposals[s][k] EXCEPT
                      !.st = IF Active(Proposer) THEN "consensus" ELSE "done", !.local = b]
  <2>2. r.st \in {"consensus", "done"}
    BY ProposalAt DEF ProposalRecord
  <2>3. /\ proposals' = [proposals EXCEPT ![s][k] = r]
        /\ UNCHANGED <<instance, decided_block_contexts, envelope_calls,
                       registered_envelopes, blocks_published>>
        /\ s <= slot
    BY <1>2, <2>1 DEF sign_block, envelopeVars, EnvelopeInv, CallOK
  <2> HIDE DEF r
  <2> QED
    BY <2>2, <2>3, MoveCall DEF HasDecision
<1> QED
  BY <1>1, <1>2

\* The envelope whose callback waits is that of the block that was published.
LEMMA AdmittedEnvelope ==
    ASSUME EnvelopeInv, NEW s \in Slots, NEW b \in Blocks,
           sign_execution_payload_envelope(s, b), envelope_admitted(s, b)
    PROVE  <<b, "full">> \in blocks_published
<1>1. PICK k \in Calls : proposals[s][k].st = "published"
  BY DEF sign_execution_payload_envelope
<1>2. /\ Gloas(s) /\ get_decided_block_context(s) # None
      /\ b = get_decided_block_context(s).block
  BY DEF envelope_admitted, validate_blinded
<1>3. decided_block_contexts[s] # None /\ b = decided_block_contexts[s].block
  BY <1>2 DEF get_decided_block_context
<1>4. b = instance[s].decided
  BY <1>3 DEF EnvelopeInv, ContextsOK
<1> QED
  BY <1>1, <1>2, <1>4 DEF EnvelopeInv, CallOK

LEMMA EnvelopeStep ==
    ASSUME ClockOK, slot' = slot, ProposalInv, EnvelopeInv, ProposalNext
    PROVE  EnvelopeInv'
<1>0. slot \in Nat /\ slot <= slot
  BY SlotType
<1>1. ASSUME NEW s \in Slots, NEW b \in Blocks, do_validation(s, b)
      PROVE  EnvelopeInv'
  <2>1. /\ \A x \in Slots : instance'[x].decided = instance[x].decided
        /\ UNCHANGED <<proposals, decided_block_contexts, registered_envelopes,
                       blocks_published, envelope_calls>>
    BY <1>1 DEF do_validation, ProposalInv, envelopeVars
  <2>2. \A x \in Slots, l \in Calls : CallOK(x, l)'
    BY <1>0, <2>1, CallKept DEF EnvelopeInv
  <2> QED
    BY <2>1, <2>2 DEF EnvelopeInv, ContextsOK, WaitingOK
<1>2. ASSUME NEW s \in Slots, NEW b \in Blocks, sign_execution_payload_envelope(s, b)
      PROVE  EnvelopeInv'
  <2>1. /\ UNCHANGED <<proposals, instance, decided_block_contexts, registered_envelopes,
                       blocks_published>>
        /\ envelope_calls' = [envelope_calls EXCEPT ![b] =
                                 IF envelope_admitted(s, b) THEN "wait" ELSE "refused"]
    BY <1>2 DEF sign_execution_payload_envelope
  <2>2. \A x \in Slots, l \in Calls : CallOK(x, l)'
    BY <1>0, <2>1, CallKept DEF EnvelopeInv
  <2>3. envelope_admitted(s, b) => <<b, "full">> \in blocks_published
    BY <1>2, AdmittedEnvelope
  <2>4. WaitingOK'
    BY <2>1, <2>3 DEF EnvelopeInv, WaitingOK, EnvelopeStates
  <2> QED
    BY <2>1, <2>2, <2>4 DEF EnvelopeInv, ContextsOK
<1>3. ASSUME NEW b \in Blocks, EndEnvelope(b)
      PROVE  EnvelopeInv'
  <2>1. /\ UNCHANGED <<proposals, instance, decided_block_contexts, registered_envelopes,
                       blocks_published>>
        /\ \E st \in {"served", "late"} :
              envelope_calls' = [envelope_calls EXCEPT ![b] = st]
    BY <1>3 DEF EndEnvelope
  <2>2. \A x \in Slots, l \in Calls : CallOK(x, l)'
    BY <1>0, <2>1, CallKept DEF EnvelopeInv
  <2>3. WaitingOK'
    BY <2>1 DEF EnvelopeInv, WaitingOK, EnvelopeStates
  <2> QED
    BY <2>1, <2>2, <2>3 DEF EnvelopeInv, ContextsOK
<1> QED
  BY <1>1, <1>2, <1>3, StartStep, DecideStep, SignStep, PublishStep DEF ProposalNext

LEMMA EnvelopeFresh ==
    ASSUME NEW P, P = [s \in Slots |-> [k \in Calls |-> NoProposal]],
           NEW C, C = [s \in Slots |-> None], NEW E, E = [b \in Blocks |-> "idle"]
    PROVE  /\ \A s \in Slots, k \in Calls : P[s][k].st = "idle"
           /\ C \in [Slots -> DecidedContexts \cup {None}]
           /\ \A s \in Slots : C[s] = None
           /\ E \in [Blocks -> EnvelopeStates] /\ \A b \in Blocks : E[b] = "idle"
BY DEF NoProposal, EnvelopeStates

LEMMA EnvelopeInduction == Spec => [](ProposalInv /\ EnvelopeInv)
<1>1. Init => EnvelopeInv
  <2> SUFFICES ASSUME Init PROVE EnvelopeInv
    OBVIOUS
  <2>1. /\ proposals = [s \in Slots |-> [k \in Calls |-> NoProposal]]
        /\ decided_block_contexts = [s \in Slots |-> None]
        /\ envelope_calls = [b \in Blocks |-> "idle"]
    BY DEF Init, ProposalInit
  <2> QED
    BY <2>1, EnvelopeFresh DEF EnvelopeInv, ContextsOK, CallOK, WaitingOK, HasDecision
<1>2. ClockOK /\ ProposalInv /\ EnvelopeInv /\ [Next]_vars => EnvelopeInv'
  <2> SUFFICES ASSUME ClockOK, ProposalInv, EnvelopeInv, [Next]_vars PROVE EnvelopeInv'
    OBVIOUS
  <2>1. slot \in Nat /\ slot' \in Nat /\ slot <= slot'
    BY ClockStep, SlotMonotone
  <2>2. CASE ProposalNext /\ UNCHANGED clockVars
    BY <2>2, EnvelopeStep DEF clockVars, slot
  <2>3. CASE UNCHANGED proposalVars
    <3>1. UNCHANGED <<proposals, instance, decided_block_contexts, registered_envelopes,
                      blocks_published, envelope_calls>>
      BY <2>3 DEF proposalVars, envelopeVars
    <3>2. \A x \in Slots, l \in Calls : CallOK(x, l)'
      BY <2>1, <3>1, CallKept DEF EnvelopeInv
    <3> QED
      BY <3>1, <3>2 DEF EnvelopeInv, ContextsOK, WaitingOK
  <2>4. CASE Restart
    <3>1. /\ proposals' = [s \in Slots |-> [k \in Calls |-> NoProposal]]
          /\ decided_block_contexts' = [s \in Slots |-> None]
          /\ envelope_calls' = [b \in Blocks |-> "idle"]
      BY <2>4 DEF Restart, RestartProposals
    <3> QED
      BY <3>1, EnvelopeFresh DEF EnvelopeInv, ContextsOK, CallOK, WaitingOK, HasDecision
  <2> QED
    BY <2>2, <2>3, <2>4, StoreStep, StartupStep
<1> QED
  BY <1>1, <1>2, ClockInduction, SlashingInduction, PTL DEF Spec

\* The callback for the published block's payload finds what it needs.
LEMMA ExpectedAdmitted ==
    ASSUME ClockOK, EnvelopeInv, NEW b \in Blocks, EnvelopeExpected(b)
    PROVE  envelope_admitted(b.slot, b)
<1> DEFINE s == b.slot
<1>1. /\ s \in Slots /\ s \in Nat /\ Gloas(s) /\ b.builder = "self" /\ Active(Proposer)
      /\ now < PayloadDue(s) /\ b = instance[s].decided
  BY StoreAssumption DEF EnvelopeExpected
<1>2. PICK j \in Calls : proposals[s][j].st = "published"
  BY DEF EnvelopeExpected
<1>3. PICK k \in Calls : proposals[s][k].local = b /\ proposals[s][k].st \in HasDecision
  BY DEF EnvelopeExpected, HasDecision
<1> HIDE DEF s
<1>4. s <= slot
  BY <1>1, <1>2 DEF EnvelopeInv, CallOK
<1>5. s + MaxDecidedRootAge >= slot
  <2>1. now \in Nat /\ now < 3 * s + 2 /\ MaxDecidedRootAge \in Nat
    BY <1>1, BlocksAssumption DEF ClockOK, PayloadDue
  <2>2. now \div 3 <= s
    BY <1>1, <2>1
  <2>3. now \div 3 \in Nat
    BY <2>1
  <2> QED
    BY <1>1, <2>1, <2>2, <2>3 DEF slot
<1>6. decided_block_contexts[s] # None /\ decided_block_contexts[s].built_locally
  BY <1>1, <1>3, <1>5 DEF EnvelopeInv, CallOK
<1>7. decided_block_contexts[s].block = b
  BY <1>1, <1>6 DEF EnvelopeInv, ContextsOK
<1>8. [envelope |-> b, companion |-> b] \in registered_envelopes
  BY <1>1, <1>2 DEF EnvelopeInv, CallOK
<1>9. get_decided_block_context(s) = decided_block_contexts[s]
  BY <1>5 DEF get_decided_block_context
<1> QED
  BY <1>1, <1>4, <1>6, <1>7, <1>8, <1>9 DEF envelope_admitted, validate_blinded, s

\* Lighthouse only gets envelopes of blocks it got before, and the callback for
\* the payload of such a block is not refused, whatever blocks the calls of the
\* slot brought and in whichever order they get the decision.
THEOREM EnvelopeServedHolds == Spec => EnvelopeServed
<1> DEFINE Follows(b) ==
        /\ envelope_calls[b] = "idle" /\ envelope_calls'[b] = "refused"
           => ~EnvelopeExpected(b)
        /\ b \in envelopes' \ envelopes => <<b, "full">> \in blocks_published
<1>1. ClockOK /\ EnvelopeInv /\ [Next]_vars => [\A b \in Blocks : Follows(b)]_vars
  <2> SUFFICES ASSUME ClockOK, EnvelopeInv, [Next]_vars, NEW b \in Blocks
               PROVE  Follows(b)
    OBVIOUS
  <2>0. envelope_calls \in [Blocks -> EnvelopeStates]
    BY DEF EnvelopeInv, WaitingOK
  <2>1. ASSUME NEW s \in Slots, NEW c \in Blocks, sign_execution_payload_envelope(s, c)
        PROVE  Follows(b)
    <3>1. /\ c.slot = s /\ envelopes' = envelopes
          /\ envelope_calls' = [envelope_calls EXCEPT ![c] =
                                   IF envelope_admitted(s, c) THEN "wait" ELSE "refused"]
      BY <2>1 DEF sign_execution_payload_envelope
    <3>2. CASE c = b
      <4>1. EnvelopeExpected(b) => envelope_admitted(s, c)
        BY <3>1, <3>2, ExpectedAdmitted
      <4>2. EnvelopeExpected(b) => envelope_calls'[b] = "wait"
        BY <2>0, <3>1, <3>2, <4>1
      <4> QED
        BY <3>1, <4>2
    <3>3. CASE c # b
      BY <2>0, <3>1, <3>3
    <3> QED
      BY <3>2, <3>3
  <2>2. ASSUME NEW c \in Blocks, EndEnvelope(c)
        PROVE  Follows(b)
    <3>1. /\ envelope_calls[c] = "wait" /\ envelopes' \subseteq envelopes \cup {c}
          /\ \E st \in {"served", "late"} :
                envelope_calls' = [envelope_calls EXCEPT ![c] = st]
      BY <2>2 DEF EndEnvelope
    <3>2. envelope_calls'[b] # "refused" \/ envelope_calls[b] # "idle"
      BY <2>0, <3>1
    <3>3. <<c, "full">> \in blocks_published
      BY <3>1 DEF EnvelopeInv, WaitingOK
    <3> QED
      BY <3>1, <3>2, <3>3
  <2>3. CASE envelopes' = envelopes /\ (envelope_calls' = envelope_calls \/ Restart)
    <3>1. CASE Restart
      <4>1. envelope_calls' = [c \in Blocks |-> "idle"]
        BY <3>1 DEF Restart, RestartProposals
      <4> QED
        BY <2>3, <4>1
    <3> QED
      BY <2>3, <3>1
  <2>4. ASSUME NEW s \in Slots, NEW k \in Calls,
               \/ randao_reveal(s, k) \/ sign_block(s, k) \/ decide_abstract_block(s, k)
               \/ sign_abstract_block(s, k) \/ PublishBlock(s, k)
        PROVE  UNCHANGED envelopeVars
    <3>1. CASE randao_reveal(s, k)
      BY <3>1 DEF randao_reveal
    <3>2. CASE sign_block(s, k)
      BY <3>2 DEF sign_block
    <3>3. CASE decide_abstract_block(s, k)
      BY <3>3 DEF decide_abstract_block
    <3>4. CASE sign_abstract_block(s, k)
      BY <3>4 DEF sign_abstract_block
    <3>5. CASE PublishBlock(s, k)
      BY <3>5 DEF PublishBlock
    <3> QED
      BY <2>4, <3>1, <3>2, <3>3, <3>4, <3>5
  <2>5. ASSUME NEW s \in Slots, NEW c \in Blocks, do_validation(s, c)
        PROVE  UNCHANGED envelopeVars
    BY <2>5 DEF do_validation
  <2>6. \/ ProposalNext
        \/ UNCHANGED proposalVars
        \/ Restart
    BY StoreStep, StartupStep
  <2>7. UNCHANGED proposalVars => UNCHANGED envelopeVars
    BY DEF proposalVars
  <2>8. Restart => envelopes' = envelopes
    BY DEF Restart, RestartProposals
  <2> HIDE DEF Follows
  <2>9. UNCHANGED envelopeVars => Follows(b)
    BY <2>3 DEF envelopeVars
  <2>10. ProposalNext => Follows(b)
    BY <2>1, <2>2, <2>4, <2>5, <2>9 DEF ProposalNext
  <2> QED
    BY <2>3, <2>6, <2>7, <2>8, <2>9, <2>10
<1>2. EnvelopeServed <=> [][\A b \in Blocks : Follows(b)]_vars
  BY DEF EnvelopeServed
<1> QED
  BY <1>1, <1>2, ClockInduction, EnvelopeInduction, PTL DEF Spec
---------------------------------------------------------------------------
(* The batches of a committee.                                             *)

Batches == [sigs : SUBSET Items, sent : BOOLEAN]

\* A process has sent the message of a slot at most once, and has not sent it
\* while the record of the batch says so and the cleaner has not come.
CommitteeInv ==
    /\ batches \in [BatchIds -> Batches]
    /\ wire \in [BatchIds -> Seq(SUBSET Items)]
    /\ \A s \in Slots :
          /\ Len(wire[<<"post", s>>]) <= boots + 1
          /\ ~batches[<<"post", s>>].sent /\ ~is_stale_slot(s) => Len(wire[<<"post", s>>]) <= boots

LEMMA StaleMonotone ==
    ASSUME ClockOK, ClockMoves, NEW s \in Nat
    PROVE  is_stale_slot(s) => is_stale_slot(s)'
<1>1. slot \in Nat /\ slot' \in Nat /\ slot <= slot' /\ RetainSlots \in Nat
  BY SlotMonotone, StoreAssumption
<1> QED
  BY <1>1 DEF is_stale_slot

LEMMA AppendLength ==
    ASSUME NEW S, NEW q \in Seq(S), NEW e \in S
    PROVE  /\ Append(q, e) \in Seq(S) /\ Len(q) \in Nat /\ Len(Append(q, e)) = Len(q) + 1
OBVIOUS

\* The steps of the aggregator services that send partial signatures.
LEMMA AggregatorBatches ==
    ASSUME AggregatorNext
    PROVE  \/ \E s \in Slots, i \in Items : SignProof(s, i) \/ SignRoot(s, i)
           \/ \E s \in Slots, v \in Validators : sign_single_sync_committee_contribution(s, v)
           \/ UNCHANGED batchVars
<1> USE DEF storeVars
<1>1. update_aggregation_assignments \/ PublishAssignments => UNCHANGED batchVars
  BY DEF update_aggregation_assignments, PublishAssignments
<1>2. ASSUME NEW s \in Slots, Execute(s)
      PROVE  UNCHANGED batchVars
  BY <1>2 DEF Execute
<1>3. ASSUME NEW s \in Slots, NEW v \in Validators,
             submit_and_wait(s, v) \/ sign_single_aggregate_and_proof(s, v)
      PROVE  UNCHANGED batchVars
  BY <1>3 DEF submit_and_wait, sign_single_aggregate_and_proof
<1>4. ASSUME NEW s \in Slots, NEW i \in Items,
             \/ AskProof(s, i) \/ CollectProof(s, i) \/ publish_committee_aggregates(s, i)
             \/ CallLighthouse(s, i) \/ get_aggregation_assignments(s, i)
      PROVE  UNCHANGED batchVars
  BY <1>4 DEF AskProof, CollectProof, publish_committee_aggregates, CallLighthouse,
       get_aggregation_assignments
<1> QED
  BY <1>1, <1>2, <1>3, <1>4 DEF AggregatorNext

LEMMA TakeBatch ==
    ASSUME ClockOK, CommitteeInv, NEW id \in BatchIds, NEW size, NEW item \in Items,
           take_ready_committee_batch(id, size, item), UNCHANGED clockVars
    PROVE  CommitteeInv'
<1>0. /\ slot' = slot /\ boots' = boots /\ boots \in Nat
      /\ \A s \in Slots : is_stale_slot(s)' = is_stale_slot(s)
      /\ \A s \in Slots : <<"post", s>> \in BatchIds
  BY DEF clockVars, slot, is_stale_slot, ClockOK, BatchIds
<1> DEFINE sigs == batches[id].sigs \cup {item}
           full == Cardinality(sigs) = size
           once == id[1] = "post"
<1>1. CASE batches[id].sent \/ (once /\ is_stale_slot(id[2]))
  <2>1. UNCHANGED <<batches, wire>>
    BY <1>1 DEF take_ready_committee_batch, batchVars
  <2> QED
    BY <1>0, <2>1 DEF CommitteeInv
<1>2. CASE ~(batches[id].sent \/ (once /\ is_stale_slot(id[2])))
  <2>1. /\ batches' = [batches EXCEPT ![id] = [sigs |-> IF full THEN {} ELSE sigs,
                                               sent |-> full /\ once]]
        /\ wire' = IF full THEN [wire EXCEPT ![id] = Append(@, sigs)] ELSE wire
    BY <1>2 DEF take_ready_committee_batch
  <2>2. sigs \in SUBSET Items
    BY DEF CommitteeInv, Batches
  <2>3. full \in BOOLEAN /\ once \in BOOLEAN
    OBVIOUS
  <2> HIDE DEF sigs, full, once
  <2>4. [sigs |-> IF full THEN {} ELSE sigs, sent |-> full /\ once] \in Batches
    BY <2>2, <2>3 DEF Batches
  <2>5. /\ batches' \in [BatchIds -> Batches]
        /\ batches'[id].sent = (full /\ once)
        /\ \A x \in BatchIds \ {id} : batches'[x] = batches[x]
    BY <2>1, <2>4 DEF CommitteeInv
  <2>6. /\ wire[id] \in Seq(SUBSET Items) /\ Append(wire[id], sigs) \in Seq(SUBSET Items)
        /\ Len(Append(wire[id], sigs)) = Len(wire[id]) + 1 /\ Len(wire[id]) \in Nat
    BY <2>2, AppendLength DEF CommitteeInv
  <2>7. /\ wire' \in [BatchIds -> Seq(SUBSET Items)]
        /\ wire'[id] = IF full THEN Append(wire[id], sigs) ELSE wire[id]
        /\ \A x \in BatchIds \ {id} : wire'[x] = wire[x]
    BY <2>1, <2>6 DEF CommitteeInv
  <2>8. ASSUME NEW s \in Slots
        PROVE  /\ Len(wire'[<<"post", s>>]) <= boots' + 1
               /\ ~batches'[<<"post", s>>].sent /\ ~is_stale_slot(s)'
                     => Len(wire'[<<"post", s>>]) <= boots'
    <3>1. CASE id = <<"post", s>>
      <4>1. once /\ ~batches[id].sent /\ ~is_stale_slot(s)
        BY <1>2, <3>1 DEF once
      <4>2. Len(wire[id]) <= boots
        BY <3>1, <4>1 DEF CommitteeInv
      <4>3. CASE full
        <5>1. batches'[id].sent /\ Len(wire'[id]) = Len(wire[id]) + 1
          BY <2>3, <2>5, <2>6, <2>7, <4>1, <4>3
        <5> QED
          BY <1>0, <2>6, <3>1, <4>2, <5>1
      <4>4. CASE ~full
        <5>1. wire'[id] = wire[id]
          BY <2>7, <4>4
        <5> QED
          BY <1>0, <2>6, <3>1, <4>2, <5>1
      <4> QED
        BY <4>3, <4>4
    <3>2. CASE id # <<"post", s>>
      BY <1>0, <2>5, <2>7, <3>2 DEF CommitteeInv
    <3> QED
      BY <3>1, <3>2
  <2> QED
    BY <2>5, <2>7, <2>8 DEF CommitteeInv
<1> QED
  BY <1>1, <1>2

\* The committee batches go unchanged while time goes on.
LEMMA CommitteeStutter ==
    ASSUME ClockOK, ClockMoves, CommitteeInv, UNCHANGED <<batches, wire, boots>>
    PROVE  CommitteeInv'
BY StaleMonotone, StoreAssumption DEF CommitteeInv

LEMMA CommitteeStep ==
    ASSUME ClockOK, CommitteeInv, [Next]_vars
    PROVE  CommitteeInv'
<1>0. ClockMoves /\ boots \in Nat /\ Slots \subseteq Nat
  BY ClockStep, StoreAssumption DEF ClockOK
<1>1. CASE UNCHANGED <<batches, wire, boots>>
  BY <1>0, <1>1, CommitteeStutter
<1>2. CASE remove_stale_entries
  <2>1. /\ UNCHANGED <<wire, boots>> /\ slot' = slot
        /\ batches' = [id \in BatchIds |-> IF is_stale_slot(id[2]) THEN NoBatch ELSE batches[id]]
    BY <1>2 DEF remove_stale_entries, clockVars, slot
  <2>2. batches' \in [BatchIds -> Batches]
    BY <2>1 DEF CommitteeInv, Batches, NoBatch
  <2>3. ASSUME NEW s \in Slots
        PROVE  /\ <<"post", s>> \in BatchIds
               /\ is_stale_slot(s)' = is_stale_slot(s)
               /\ ~is_stale_slot(s) => batches'[<<"post", s>>] = batches[<<"post", s>>]
    BY <2>1 DEF BatchIds, is_stale_slot
  <2> QED
    BY <2>1, <2>2, <2>3 DEF CommitteeInv
<1>3. CASE \E c \in CallIds, item \in Items : collect_signature(c, item)
  <2>1. PICK c \in CallIds, item \in Items : collect_signature(c, item)
    BY <1>3
  <2>2. <<"post", c[2]>> \in BatchIds /\ UNCHANGED clockVars
    BY <2>1 DEF CallIds, BatchIds, collect_signature
  <2>3. \/ UNCHANGED <<batches, wire>>
        \/ take_ready_committee_batch(<<"post", c[2]>>, calls[c].size, item)
    BY <2>1 DEF collect_signature, batchVars
  <2> QED
    BY <1>1, <2>2, <2>3, TakeBatch DEF clockVars
<1>4. CASE AggregatorNext /\ UNCHANGED clockVars
  <2>1. ASSUME NEW s \in Slots, NEW i \in Items, SignProof(s, i)
        PROVE  CommitteeInv'
    <3>1. <<"select", s>> \in BatchIds
      BY DEF BatchIds
    <3>2. \/ UNCHANGED <<batches, wire>>
          \/ take_ready_committee_batch(<<"select", s>>,
                                        selection_proof_count(voting_assignments), i)
      BY <2>1 DEF SignProof, produce_selection_proof, produce_sync_selection_proof,
           SendSelectionShare, SendValidatorShares, batchVars
    <3> QED
      BY <1>1, <1>4, <3>1, <3>2, TakeBatch DEF clockVars
  <2>2. ASSUME NEW s \in Slots, NEW i \in Items, SignRoot(s, i)
        PROVE  CommitteeInv'
    <3>1. <<"aggregate", s>> \in BatchIds
      BY DEF BatchIds
    <3>2. \/ UNCHANGED <<batches, wire>>
          \/ take_ready_committee_batch(<<"aggregate", s>>, executions[s].size, i)
      BY <2>2 DEF SignRoot, batchVars
    <3> QED
      BY <1>1, <1>4, <3>1, <3>2, TakeBatch DEF clockVars
  <2>3. ASSUME NEW s \in Slots, NEW v \in Validators,
               sign_single_sync_committee_contribution(s, v)
        PROVE  UNCHANGED <<batches, wire>>
    BY <2>3 DEF sign_single_sync_committee_contribution, SignContribution,
         SendValidatorShares, batchVars
  <2> QED
    BY <1>1, <1>4, <2>1, <2>2, <2>3, AggregatorBatches DEF clockVars, batchVars
<1>5. CASE StoreNext /\ UNCHANGED clockVars
  <2>1. \/ remove_stale_entries
        \/ \E c \in CallIds, item \in Items : collect_signature(c, item)
        \/ UNCHANGED <<batches, wire>>
    BY <1>5 DEF StoreNext, ChangeRegistry, ReorgDuties, update_voting_assignments,
       head_event_or_deadline, update_voting_context, prune_slashing_protection_db,
       ValidateProposal, get_voting_context, decide_committee_vote,
       sign_attestations, sign_sync_committee_signatures, StartCall, DrainAttestations,
       DrainSyncMessages, drain_signatures, RecordAttestations, batchVars
  <2> QED
    BY SMTT(60), <1>1, <1>2, <1>3, <1>5, <2>1 DEF clockVars
<1>6. CASE Restart
  <2>1. /\ batches' = [b \in BatchIds |-> NoBatch] /\ wire' = wire /\ boots' = boots + 1
    BY <1>6 DEF Restart, RestartStore
  <2>2. batches' \in [BatchIds -> Batches]
    BY <2>1 DEF NoBatch, Batches
  <2>3. ASSUME NEW s \in Slots
        PROVE  Len(wire[<<"post", s>>]) \in Nat
    <3>1. wire[<<"post", s>>] \in Seq(SUBSET Items)
      BY DEF CommitteeInv, BatchIds
    <3> QED
      BY <3>1
  <2> QED
    BY <1>0, <2>1, <2>2, <2>3 DEF CommitteeInv
<1>7. CASE Startup \/ ProposalNext
  <2>1. UNCHANGED <<batches, wire>>
    BY <1>7, StartupStep, ProposalKeepsPipeline DEF StartPublishers, storeVars, batchVars
  <2>2. UNCHANGED boots
    BY <1>7, StartupStep, ServicesKeepClock DEF ServiceStep, clockVars
  <2> QED
    BY <1>1, <2>1, <2>2
<1> QED
  BY <1>1, <1>4, <1>5, <1>6, <1>7, StoreStep DEF storeVars, batchVars

---------------------------------------------------------------------------
(* The aggregator services.                                                *)

SingleStates == {"idle", "assignments", "barrier", "consensus", "done"}
Executions == [st : {"none", "start", "sign", "done"}, work : SUBSET Items,
               left : SUBSET Items, size : Nat]
Decisions(v) == (SUBSET (1 .. SyncSubnets[v])) \ {{}}

ProofTypes ==
    /\ asked \in [Slots -> SUBSET Items] /\ collecting \in [Slots -> SUBSET Items]
    /\ proofs \in [Slots -> SUBSET Items]
    /\ \A s \in Slots : \A i \in asked[s] : i[2] <= SyncSubnets[i[1]]

SinglesTypes ==
    /\ singles \in [Slots -> [Items -> SingleStates]]
    /\ contributions \in [Slots -> [Validators -> (SUBSET (0 .. 2)) \cup {None}]]
    /\ \A s \in Slots, v \in Validators :
          contributions[s][v] # None => contributions[s][v] \in Decisions(v)

ExecutionTypes ==
    /\ executions \in [Slots -> Executions]
    /\ aggregates \in [Slots -> [Items -> Seq({"lighthouse", "publisher"})]]
    /\ aggregation_task \in [slot : Slots, items : SUBSET Items] \cup {None}

\* The aggregation task is of a slot that phase 3 has not done yet.
AggregationOrder ==
    /\ next_run["aggregation"] <= slot + 1
    /\ aggregation_task # None =>
          /\ next_run["aggregation"] <= aggregation_task.slot /\ aggregation_task.slot <= slot
          /\ stage \notin {"syncing", "monitoring"}

AggregatorTypes == ProofTypes /\ SinglesTypes /\ ExecutionTypes /\ AggregationOrder

LEMMA DecisionsType ==
    ASSUME NEW v \in Validators, NEW d \in Decisions(v)
    PROVE  /\ d \in SUBSET (0 .. 2) /\ d # {} /\ d # None
           /\ IsFiniteSet(d) /\ Cardinality(d) \in Nat /\ Cardinality(d) # 0
           /\ ~(Cardinality(d) > 1) => \A n \in d : d = {n}
           /\ \A n \in d : <<v, n>> \in Items /\ n \in 1 .. SyncSubnets[v]
<1>1. d \in SUBSET (0 .. 2) /\ d # {} /\ \A n \in d : n \in 1 .. SyncSubnets[v]
  BY StoreAssumption DEF Decisions
<1>2. IsFiniteSet(d)
  <2>1. 0 \in Int /\ 2 \in Int
    OBVIOUS
  <2>2. IsFiniteSet(0 .. 2)
    BY <2>1, FS_Interval, Zenon
  <2> QED
    BY <1>1, <2>2, FS_Subset
<1>3. Cardinality(d) \in Nat /\ Cardinality(d) # 0
  BY <1>1, <1>2, FS_CardinalityType, FS_EmptySet
<1>4. ASSUME ~(Cardinality(d) > 1), NEW n \in d
      PROVE  d = {n}
  <2>1. Cardinality(d) = 1
    BY <1>3, <1>4
  <2>2. \E x : d = {x}
    BY <1>2, <2>1, FS_Singleton
  <2> QED
    BY <2>2
<1>5. \A n \in d : <<v, n>> \in Items
  BY <1>1 DEF Items
<1> QED
  BY <1>1, <1>2, <1>3, <1>4, <1>5, StoreAssumption

LEMMA SelectionBounds ==
    ASSUME NEW A \in SUBSET Validators, NEW B \in SUBSET Validators,
           NEW i \in SelectionItems(A, B)
    PROVE  i \in Items /\ i[2] <= SyncSubnets[i[1]]
<1>1. i \in Items
  BY ItemsType
<1> DEFINE U == UNION {{<<v, n>> : n \in 1 .. SyncSubnets[v]} : v \in B}
           W == {<<v, 0>> : v \in A}
<1>2. i \in W \/ i \in U
  BY DEF SelectionItems
<1>3. ASSUME i \in W
      PROVE  i[2] <= SyncSubnets[i[1]]
  BY <1>3, StoreAssumption
<1>4. ASSUME i \in U
      PROVE  i[2] <= SyncSubnets[i[1]]
  <2>1. PICK v \in B : i \in {<<v, n>> : n \in 1 .. SyncSubnets[v]}
    BY <1>4
  <2> QED
    BY <2>1, StoreAssumption
<1> QED
  BY <1>1, <1>2, <1>3, <1>4

\* A callback that is done stays so, and moves on one step at a time.
SinglesAdvance ==
    \A s \in Slots, i \in Items :
        /\ singles[s][i] = "done" => singles'[s][i] = "done"
        /\ ~LighthouseOwns(s) /\ singles[s][i] \in {"idle", "done"}
              => singles'[s][i] \in {"idle", "done"}

LEMMA SinglesSet ==
    ASSUME SinglesTypes, NEW s \in Slots, NEW i \in Items, NEW st \in SingleStates,
           singles' = [singles EXCEPT ![s][i] = st]
    PROVE  /\ singles' \in [Slots -> [Items -> SingleStates]]
           /\ singles'[s][i] = st
           /\ \A x \in Slots, j \in Items : ~(x = s /\ j = i) => singles'[x][j] = singles[x][j]
BY SMTT(60) DEF SinglesTypes

LEMMA SinglesStep ==
    ASSUME SinglesTypes, AggregatorNext
    PROVE  /\ singles' \in [Slots -> [Items -> SingleStates]]
           /\ SinglesAdvance
<1>1. CASE singles' = singles
  BY <1>1 DEF SinglesTypes, SinglesAdvance
<1>2. ASSUME NEW s \in Slots, NEW i \in Items, NEW st \in SingleStates,
             singles' = [singles EXCEPT ![s][i] = st], singles[s][i] # "done",
             st = "done" \/ LighthouseOwns(s) \/ singles[s][i] \notin {"idle", "done"}
      PROVE  /\ singles' \in [Slots -> [Items -> SingleStates]]
             /\ SinglesAdvance
  <2>1. /\ singles' \in [Slots -> [Items -> SingleStates]]
        /\ singles'[s][i] = st
        /\ \A x \in Slots, j \in Items : ~(x = s /\ j = i) => singles'[x][j] = singles[x][j]
    BY ZenonT(60), <1>2, SinglesSet
  <2> QED
    BY <1>2, <2>1 DEF SinglesAdvance
<1>3. ASSUME NEW s \in Slots, NEW i \in Items, CallLighthouse(s, i)
      PROVE  /\ singles' \in [Slots -> [Items -> SingleStates]]
             /\ SinglesAdvance
  BY <1>2, <1>3 DEF CallLighthouse, Callback, SingleStates
<1>4. ASSUME NEW s \in Slots, NEW i \in Items, get_aggregation_assignments(s, i)
      PROVE  /\ singles' \in [Slots -> [Items -> SingleStates]]
             /\ SinglesAdvance
  BY <1>2, <1>4 DEF get_aggregation_assignments, SingleStates
<1>5. ASSUME NEW s \in Slots, NEW v \in Validators, submit_and_wait(s, v)
      PROVE  /\ singles' \in [Slots -> [Items -> SingleStates]]
             /\ SinglesAdvance
  <2>1. PICK go \in SUBSET {i \in Items : i[1] = v /\ singles[s][i] = "barrier"} :
           singles' = [singles EXCEPT ![s] =
                          [i \in Items |-> IF i \in go THEN "consensus" ELSE singles[s][i]]]
    BY <1>5 DEF submit_and_wait
  <2>2. \A i \in go : singles[s][i] = "barrier"
    BY <2>1
  <2>3. [i \in Items |-> IF i \in go THEN "consensus" ELSE singles[s][i]]
           \in [Items -> SingleStates]
    BY DEF SinglesTypes, SingleStates
  <2> QED
    BY <2>1, <2>2, <2>3 DEF SinglesTypes, SinglesAdvance
<1>6. ASSUME NEW s \in Slots, NEW v \in Validators,
             \/ sign_single_aggregate_and_proof(s, v)
             \/ sign_single_sync_committee_contribution(s, v)
      PROVE  /\ singles' \in [Slots -> [Items -> SingleStates]]
             /\ SinglesAdvance
  <2>1. PICK n \in {0} \cup (1 .. SyncSubnets[v]) :
           /\ singles[s][<<v, n>>] = "consensus"
           /\ singles' = [singles EXCEPT ![s][<<v, n>>] = "done"]
    BY <1>6 DEF sign_single_aggregate_and_proof, sign_single_sync_committee_contribution
  <2>2. <<v, n>> \in Items
    BY StoreAssumption DEF Items
  <2> QED
    BY <1>2, <2>1, <2>2 DEF SingleStates
<1> QED
  BY ZenonT(60), <1>1, <1>3, <1>4, <1>5, <1>6
     DEF AggregatorNext, update_aggregation_assignments, PublishAssignments, Execute,
       AskProof, SignProof, CollectProof, SignRoot, publish_committee_aggregates, singleVars

\* What the committee decides for a validator's contributions stays decided.
LEMMA ContributionsStep ==
    ASSUME SinglesTypes, AggregatorNext
    PROVE  /\ SinglesTypes'
           /\ \A s \in Slots, v \in Validators :
                 contributions[s][v] # None => contributions'[s][v] = contributions[s][v]
<1>0. singles' \in [Slots -> [Items -> SingleStates]]
  BY SinglesStep
<1>1. CASE contributions' = contributions
  BY <1>0, <1>1 DEF SinglesTypes
<1>2. ASSUME NEW s \in Slots, NEW v \in Validators, NEW d \in DecidedContributions(s, v),
             contributions' = [contributions EXCEPT ![s][v] = d]
      PROVE  /\ SinglesTypes'
             /\ \A x \in Slots, w \in Validators :
                   contributions[x][w] # None => contributions'[x][w] = contributions[x][w]
  <2>1. d \in Decisions(v) /\ (contributions[s][v] # None => d = contributions[s][v])
    BY <1>2 DEF DecidedContributions, Decisions, SinglesTypes
  <2>2. d \in SUBSET (0 .. 2)
    BY <2>1, DecisionsType
  <2>3. /\ contributions' \in [Slots -> [Validators -> (SUBSET (0 .. 2)) \cup {None}]]
        /\ contributions'[s][v] = d
        /\ \A x \in Slots, w \in Validators :
              ~(x = s /\ w = v) => contributions'[x][w] = contributions[x][w]
    BY <1>2, <2>2 DEF SinglesTypes
  <2>4. \A x \in Slots, w \in Validators :
           contributions'[x][w] # None => contributions'[x][w] \in Decisions(w)
    BY <2>1, <2>3 DEF SinglesTypes
  <2> QED
    BY <1>0, <2>1, <2>3, <2>4 DEF SinglesTypes
<1>3. ASSUME NEW s \in Slots, NEW v \in Validators,
             sign_single_sync_committee_contribution(s, v)
      PROVE  \/ contributions' = contributions
             \/ \E d \in DecidedContributions(s, v) :
                   contributions' = [contributions EXCEPT ![s][v] = d]
  BY SMTT(60), <1>3 DEF sign_single_sync_committee_contribution, SignContribution
<1>4. \/ contributions' = contributions
      \/ \E s \in Slots, v \in Validators : sign_single_sync_committee_contribution(s, v)
  BY ZenonT(60) DEF AggregatorNext, update_aggregation_assignments, PublishAssignments, Execute,
       submit_and_wait, sign_single_aggregate_and_proof, AskProof, SignProof, CollectProof,
       SignRoot, publish_committee_aggregates, CallLighthouse,
       get_aggregation_assignments, singleVars
<1> QED
  BY <1>1, <1>2, <1>3, <1>4

LEMMA ProofsStep ==
    ASSUME ClockOK, PipelineInv, ProofTypes, AggregatorNext
    PROVE  ProofTypes' /\ \A s \in Slots : collecting[s] \subseteq collecting'[s]
<1>1. CASE UNCHANGED proofVars
  BY <1>1 DEF ProofTypes, proofVars
<1>2. ASSUME NEW s \in Slots, NEW i \in Items, AskProof(s, i)
      PROVE  ProofTypes' /\ \A x \in Slots : collecting[x] \subseteq collecting'[x]
  <2>1. /\ asked' = [asked EXCEPT ![s] = @ \cup {i}] /\ UNCHANGED <<collecting, proofs>>
        /\ i \in SelectionItems(duties[s], SyncValidators)
    BY <1>2 DEF AskProof
  <2>2. duties[s] \in SUBSET Validators /\ SyncValidators \in SUBSET Validators
    BY ScenarioType DEF PipelineInv, PipelineTypes
  <2>3. i[2] <= SyncSubnets[i[1]]
    BY <2>1, <2>2, SelectionBounds
  <2> QED
    BY <2>1, <2>3 DEF ProofTypes
<1>3. ASSUME NEW s \in Slots, NEW i \in Items, SignProof(s, i) \/ CollectProof(s, i)
      PROVE  ProofTypes' /\ \A x \in Slots : collecting[x] \subseteq collecting'[x]
  BY <1>3 DEF SignProof, CollectProof, ProofTypes
<1> QED
  BY ZenonT(60), <1>1, <1>2, <1>3
     DEF AggregatorNext, update_aggregation_assignments, PublishAssignments, Execute,
       submit_and_wait, sign_single_aggregate_and_proof,
       sign_single_sync_committee_contribution, SignRoot, publish_committee_aggregates,
       CallLighthouse, get_aggregation_assignments

LEMMA ExecutionSet ==
    ASSUME NEW E \in [Slots -> Executions], NEW s \in Slots, NEW e \in Executions
    PROVE  /\ [E EXCEPT ![s] = e] \in [Slots -> Executions]
           /\ [E EXCEPT ![s] = e][s] = e
           /\ \A x \in Slots \ {s} : [E EXCEPT ![s] = e][x] = E[x]
OBVIOUS

LEMMA NoExecutionType == NoExecution \in Executions /\ NoExecution.st = "none"
BY DEF NoExecution, Executions

\* A registration starts the execution of its slot, if it has none, and drops
\* old ones.
LEMMA RegisteredType ==
    ASSUME ExecutionTypes, NEW s \in Slots, NEW items
    PROVE  /\ Registered(s, items) \in [Slots -> Executions]
           /\ \A x \in Slots :
                 \/ Registered(s, items)[x] = executions[x]
                 \/ x < s /\ Registered(s, items)[x] = NoExecution
                 \/ /\ x = s /\ items # {} /\ executions[s].st = "none"
                    /\ Registered(s, items)[s].st = "start"
<1> DEFINE cutoff == s - RetainEpochs * SlotsPerEpoch
           kept == [x \in Slots |-> IF x >= cutoff THEN executions[x] ELSE NoExecution]
<1>1. cutoff \in Int /\ cutoff <= s /\ s \in Nat /\ Slots \subseteq Nat
  <2>1. RetainEpochs * SlotsPerEpoch \in Nat
    BY AggregatorAssumption, ClockAssumption
  <2> QED
    BY <2>1, StoreAssumption
<1>2. Registered(s, items) = IF items = {} \/ kept[s].st # "none" THEN kept
                             ELSE [kept EXCEPT ![s].st = "start"]
  BY DEF Registered
<1> HIDE DEF cutoff
<1>3. /\ kept \in [Slots -> Executions] /\ kept[s] = executions[s]
      /\ \A x \in Slots : kept[x] = executions[x] \/ (x < s /\ kept[x] = NoExecution)
  BY <1>1, NoExecutionType DEF ExecutionTypes
<1> HIDE DEF kept
<1>4. CASE items = {} \/ kept[s].st # "none"
  BY <1>2, <1>3, <1>4
<1>5. CASE ~(items = {} \/ kept[s].st # "none")
  <2>1. Registered(s, items) = [kept EXCEPT ![s] = [kept[s] EXCEPT !.st = "start"]]
    BY <1>2, <1>5
  <2>2. /\ [kept[s] EXCEPT !.st = "start"] \in Executions
        /\ [kept[s] EXCEPT !.st = "start"].st = "start"
    BY <1>3 DEF Executions
  <2> QED
    BY <1>3, <1>5, <2>1, <2>2, ExecutionSet
<1> QED
  BY <1>4, <1>5

\* An item of the slot was handed to the beacon nodes, or will not be: its
\* callback is done, or its execution has left it behind.
Settled(s, i) ==
    IF LighthouseOwns(s) THEN singles[s][i] = "done"
    ELSE \/ executions[s].st = "done"
         \/ executions[s].st = "sign" /\ i \notin executions[s].work
         \/ executions[s].st = "none" /\ s < next_run["aggregation"]

\* A process hands an item on at most once, and each side of the fork leaves
\* the items to its own path.
AggregatesInv ==
    /\ \A s \in Slots : LighthouseOwns(s) => executions[s].st = "none"
    /\ \A s \in Slots, i \in Items :
          /\ Len(aggregates[s][i]) <= boots + 1
          /\ ~Settled(s, i) => Len(aggregates[s][i]) <= boots
          /\ ~LighthouseOwns(s) => singles[s][i] \in {"idle", "done"}

LEMMA AggregatesType ==
    ASSUME ExecutionTypes, NEW s \in Slots, NEW i \in Items
    PROVE  /\ aggregates[s][i] \in Seq({"lighthouse", "publisher"})
           /\ Len(aggregates[s][i]) \in Nat
<1>1. aggregates[s] \in [Items -> Seq({"lighthouse", "publisher"})]
  BY DEF ExecutionTypes
<1> QED
  BY <1>1

\* Nothing is handed on, and what is settled stays so.
LEMMA AggregatesStutter ==
    ASSUME AggregatesInv, UNCHANGED <<aggregates, boots>>,
           \A s \in Slots : LighthouseOwns(s) => executions'[s].st = "none",
           \A s \in Slots, i \in Items :
              /\ Settled(s, i) => Settled(s, i)'
              /\ ~LighthouseOwns(s) => singles'[s][i] \in {"idle", "done"}
    PROVE  AggregatesInv'
BY DEF AggregatesInv, LighthouseOwns

\* One item is handed on, which was not settled and now is.
LEMMA AggregatesAppend ==
    ASSUME ClockOK, ExecutionTypes, AggregatesInv, boots' = boots,
           NEW s \in Slots, NEW i \in Items, NEW by \in {"lighthouse", "publisher"},
           aggregates' = [aggregates EXCEPT ![s][i] = Append(@, by)],
           ~Settled(s, i), Settled(s, i)',
           \A x \in Slots : LighthouseOwns(x) => executions'[x].st = "none",
           \A x \in Slots, j \in Items :
              /\ Settled(x, j) => Settled(x, j)'
              /\ ~LighthouseOwns(x) => singles'[x][j] \in {"idle", "done"}
    PROVE  /\ AggregatesInv'
           /\ aggregates' \in [Slots -> [Items -> Seq({"lighthouse", "publisher"})]]
<1>1. /\ aggregates[s][i] \in Seq({"lighthouse", "publisher"})
      /\ Append(aggregates[s][i], by) \in Seq({"lighthouse", "publisher"})
      /\ Len(Append(aggregates[s][i], by)) = Len(aggregates[s][i]) + 1
      /\ Len(aggregates[s][i]) \in Nat /\ boots \in Nat
  BY AggregatesType, AppendLength DEF ClockOK
<1>2. /\ aggregates' \in [Slots -> [Items -> Seq({"lighthouse", "publisher"})]]
      /\ aggregates'[s][i] = Append(aggregates[s][i], by)
      /\ \A x \in Slots, j \in Items : ~(x = s /\ j = i) => aggregates'[x][j] = aggregates[x][j]
  BY <1>1 DEF ExecutionTypes
<1>3. Len(aggregates[s][i]) <= boots
  BY DEF AggregatesInv
<1>4. ASSUME NEW x \in Slots, NEW j \in Items
      PROVE  /\ Len(aggregates'[x][j]) <= boots + 1
             /\ ~Settled(x, j)' => Len(aggregates'[x][j]) <= boots
  <2>1. CASE x = s /\ j = i
    BY <1>1, <1>2, <1>3, <2>1
  <2>2. CASE ~(x = s /\ j = i)
    BY <1>2, <2>2 DEF AggregatesInv
  <2> QED
    BY <2>1, <2>2
<1> QED
  BY <1>2, <1>4 DEF AggregatesInv, LighthouseOwns

\* The hypotheses of the two lemmas above, by the side of the fork: the
\* callbacks decide before it, the executions from it on.
LEMMA SettledStep ==
    ASSUME AggregatesInv, SinglesAdvance,
           \A s \in Slots, i \in Items : ~LighthouseOwns(s) /\ Settled(s, i) => Settled(s, i)'
    PROVE  \A s \in Slots, i \in Items :
              /\ Settled(s, i) => Settled(s, i)'
              /\ ~LighthouseOwns(s) => singles'[s][i] \in {"idle", "done"}
<1> SUFFICES ASSUME NEW s \in Slots, NEW i \in Items
             PROVE  /\ Settled(s, i) => Settled(s, i)'
                    /\ ~LighthouseOwns(s) => singles'[s][i] \in {"idle", "done"}
  OBVIOUS
<1>1. LighthouseOwns(s)' = LighthouseOwns(s)
  BY DEF LighthouseOwns
<1>2. CASE LighthouseOwns(s)
  BY <1>1, <1>2 DEF SinglesAdvance, Settled
<1>3. CASE ~LighthouseOwns(s)
  BY <1>3 DEF AggregatesInv, SinglesAdvance
<1> QED
  BY <1>2, <1>3

\* Executions and phase 3 are left alone, or phase 3 moves on.
LEMMA SettledKept ==
    ASSUME executions' = executions, next_run["aggregation"] \in Nat,
           next_run'["aggregation"] \in Nat,
           next_run["aggregation"] <= next_run'["aggregation"]
    PROVE  \A s \in Slots, i \in Items : ~LighthouseOwns(s) /\ Settled(s, i) => Settled(s, i)'
<1> SUFFICES ASSUME NEW s \in Slots, NEW i \in Items, ~LighthouseOwns(s), Settled(s, i)
             PROVE  Settled(s, i)'
  OBVIOUS
<1>1. LighthouseOwns(s)' = LighthouseOwns(s)
  BY DEF LighthouseOwns
<1>2. s < next_run["aggregation"] => s < next_run'["aggregation"]
  BY LessTransitive, StoreAssumption
<1> QED
  BY <1>1, <1>2 DEF Settled

\* One execution moves on, and leaves behind the items it did before.
LEMMA ExecutionMoves ==
    ASSUME ExecutionTypes, NEW s \in Slots, NEW e \in Executions,
           executions' = [executions EXCEPT ![s] = e],
           next_run' = next_run, executions[s].st \in {"start", "sign"},
           e.st \in {"sign", "done"},
           executions[s].st = "sign" => e.st = "sign" /\ e.work \subseteq executions[s].work
    PROVE  \A x \in Slots, i \in Items : ~LighthouseOwns(x) /\ Settled(x, i) => Settled(x, i)'
<1> SUFFICES ASSUME NEW x \in Slots, NEW i \in Items, ~LighthouseOwns(x), Settled(x, i)
             PROVE  Settled(x, i)'
  OBVIOUS
<1>1. LighthouseOwns(x)' = LighthouseOwns(x)
  BY DEF LighthouseOwns
<1>2. /\ executions'[s] = e
      /\ \A y \in Slots \ {s} : executions'[y] = executions[y]
  BY DEF ExecutionTypes
<1> QED
  BY <1>1, <1>2 DEF Settled

LEMMA AggregatesStep ==
    ASSUME ClockOK, PipelineInv, ProofTypes, SinglesTypes, ExecutionTypes, AggregationOrder,
           AggregatesInv, AggregatorNext, UNCHANGED clockVars
    PROVE  ExecutionTypes' /\ AggregationOrder' /\ AggregatesInv'
<1>0. /\ slot' = slot /\ slot \in Nat /\ boots' = boots /\ stage' = stage
      /\ next_run \in [Publishers -> Nat] /\ next_run["aggregation"] \in Nat
      /\ next_run["aggregation"] <= slot + 1 /\ SinglesAdvance
  BY SlotType, SinglesStep
     DEF clockVars, slot, PipelineInv, PipelineTypes, Publishers, AggregationOrder
<1>1. CASE /\ UNCHANGED <<executions, aggregates, next_run>>
           /\ \/ aggregation_task' = aggregation_task
              \/ update_aggregation_assignments
  <2>1. CASE update_aggregation_assignments
    <3>1. /\ slot \in Slots /\ slot >= next_run["aggregation"]
          /\ aggregation_task' \in [slot : {slot}, items : SUBSET Items]
          /\ Running
      BY <1>0, <2>1, ScenarioType DEF update_aggregation_assignments, ProofTypes
    <3>2. ExecutionTypes'
      BY <1>1, <3>1 DEF ExecutionTypes
    <3>3. AggregationOrder'
      BY <1>0, <1>1, <3>1 DEF AggregationOrder, Running
    <3> QED
      BY <1>0, <1>1, <3>2, <3>3, SettledKept, SettledStep, AggregatesStutter
         DEF AggregatesInv
  <2>2. CASE aggregation_task' = aggregation_task
    <3>1. ExecutionTypes' /\ AggregationOrder'
      BY <1>0, <1>1, <2>2 DEF ExecutionTypes, AggregationOrder
    <3> QED
      BY <1>0, <1>1, <3>1, SettledKept, SettledStep, AggregatesStutter DEF AggregatesInv
  <2> QED
    BY <1>1, <2>1, <2>2
<1>2. CASE PublishAssignments
  <2> DEFINE s == aggregation_task.slot
  <2>1. /\ aggregation_task # None /\ s \in Slots /\ s \in Nat
        /\ next_run["aggregation"] <= s /\ s <= slot
    BY <1>2, StoreAssumption DEF PublishAssignments, ExecutionTypes, AggregationOrder
  <2>2. /\ aggregation_task' = None /\ aggregates' = aggregates
        /\ next_run' = [next_run EXCEPT !["aggregation"] = slot + 1]
    BY <1>2 DEF PublishAssignments
  <2>3. \/ executions' = executions
        \/ executions' = Registered(s, {})
        \/ ~LighthouseOwns(s) /\ \E found : executions' = Registered(s, found)
    BY <1>2 DEF PublishAssignments
  <2> HIDE DEF s
  <2>4. /\ executions' \in [Slots -> Executions]
        /\ \A x \in Slots :
              \/ executions'[x] = executions[x]
              \/ x < s /\ executions'[x] = NoExecution
              \/ x = s /\ ~LighthouseOwns(s) /\ executions[x].st = "none"
    BY <2>1, <2>3, RegisteredType DEF ExecutionTypes
  <2>5. next_run'["aggregation"] = slot + 1
    BY <1>0, <2>2 DEF Publishers
  <2>6. ExecutionTypes' /\ AggregationOrder'
    BY <1>0, <2>2, <2>4, <2>5 DEF ExecutionTypes, AggregationOrder
  <2>7. \A x \in Slots : LighthouseOwns(x) => executions'[x].st = "none"
    BY <2>4, NoExecutionType DEF AggregatesInv
  <2>8. ASSUME NEW x \in Slots, NEW i \in Items, ~LighthouseOwns(x), Settled(x, i)
        PROVE  Settled(x, i)'
    <3>1. LighthouseOwns(x)' = LighthouseOwns(x)
      BY DEF LighthouseOwns
    <3>2. x \in Nat
      BY StoreAssumption
    <3>3. CASE executions'[x] = executions[x]
      <4>1. x < next_run["aggregation"] => x < slot + 1
        BY <1>0, <3>2
      <4> QED
        BY <2>5, <2>8, <3>1, <3>3, <4>1 DEF Settled
    <3>4. CASE x < s /\ executions'[x] = NoExecution
      <4>1. x < slot + 1
        BY <1>0, <2>1, <3>2, <3>4
      <4> QED
        BY <2>5, <2>8, <3>1, <3>4, <4>1, NoExecutionType DEF Settled
    <3>5. CASE x = s /\ executions[x].st = "none"
      <4>1. ~(x < next_run["aggregation"])
        BY <1>0, <2>1, <3>2, <3>5
      <4> QED
        BY <2>8, <3>5, <4>1 DEF Settled
    <3> QED
      BY <2>4, <3>3, <3>4, <3>5
  <2> QED
    BY <1>0, <2>2, <2>6, <2>7, <2>8, SettledStep, AggregatesStutter
<1>3. ASSUME NEW s \in Slots, NEW e \in Executions,
             executions' = [executions EXCEPT ![s] = e],
             UNCHANGED <<next_run, aggregation_task>>,
             executions[s].st \in {"start", "sign"}, e.st \in {"sign", "done"},
             executions[s].st = "sign" => e.st = "sign" /\ e.work \subseteq executions[s].work
      PROVE  /\ AggregationOrder'
             /\ executions' \in [Slots -> Executions]
             /\ executions'[s] = e /\ ~LighthouseOwns(s)
             /\ \A x \in Slots : LighthouseOwns(x) => executions'[x].st = "none"
             /\ \A x \in Slots, j \in Items : /\ Settled(x, j) => Settled(x, j)'
                                              /\ ~LighthouseOwns(x) => singles'[x][j] \in {"idle", "done"}
  <2>1. AggregationOrder'
    BY <1>0, <1>3 DEF AggregationOrder
  <2>2. /\ executions' \in [Slots -> Executions] /\ executions'[s] = e
        /\ \A x \in Slots \ {s} : executions'[x] = executions[x]
    BY <1>3 DEF ExecutionTypes
  <2>3. ~LighthouseOwns(s)
    BY <1>3 DEF AggregatesInv
  <2>4. \A x \in Slots : LighthouseOwns(x) => executions'[x].st = "none"
    BY <2>2, <2>3 DEF AggregatesInv
  <2> QED
    BY <1>0, <1>3, <2>1, <2>2, <2>3, <2>4, ExecutionMoves, SettledStep
<1>4. ASSUME NEW s \in Slots, Execute(s)
      PROVE  ExecutionTypes' /\ AggregationOrder' /\ AggregatesInv'
  <2>1. /\ executions[s].st = "start"
        /\ UNCHANGED <<next_run, aggregation_task, aggregates>>
    BY <1>4 DEF Execute, storeVars, pipelineVars, phaseVars
  <2>2. PICK decided \in run_aggregator_committee_consensus(s) :
           executions' = [executions EXCEPT ![s] =
             IF decided = None \/ ~committee_cluster THEN [NoExecution EXCEPT !.st = "done"]
             ELSE LET work == build_decided_worklist(decided)
                  IN  [st |-> "sign", work |-> work, left |-> work, size |-> Cardinality(work)]]
    BY <1>4 DEF Execute
  <2>3. PICK e : /\ executions' = [executions EXCEPT ![s] = e]
                 /\ e \in Executions /\ e.st \in {"sign", "done"}
    <3>1. CASE decided = None \/ ~committee_cluster
      <4>1. [NoExecution EXCEPT !.st = "done"] \in Executions
        BY DEF NoExecution, Executions
      <4>2. [NoExecution EXCEPT !.st = "done"].st = "done"
        BY DEF NoExecution
      <4> QED
        BY <2>2, <3>1, <4>1, <4>2
    <3>2. CASE ~(decided = None \/ ~committee_cluster)
      <4> DEFINE work == build_decided_worklist(decided)
                 e == [st |-> "sign", work |-> work, left |-> work, size |-> Cardinality(work)]
      <4>1. duties[s] \in SUBSET Validators /\ SyncValidators \in SUBSET Validators
        BY ScenarioType DEF PipelineInv, PipelineTypes
      <4>2. decided \in SUBSET SelectionItems(duties[s], SyncValidators)
        BY <2>2, <3>2 DEF run_aggregator_committee_consensus, valid_consensus_data
      <4>3. work \in SUBSET Items /\ IsFiniteSet(work)
        BY <4>1, <4>2, ItemsType, FS_Subset DEF build_decided_worklist
      <4>4. Cardinality(work) \in Nat
        BY <4>3, FS_CardinalityType
      <4>5. executions' = [executions EXCEPT ![s] = e]
        BY <2>2, <3>2
      <4> HIDE DEF work
      <4>6. e \in Executions /\ e.st = "sign"
        BY <4>3, <4>4 DEF Executions
      <4> QED
        BY <4>5, <4>6
    <3> QED
      BY <3>1, <3>2
  <2>4. ExecutionTypes'
    BY <2>1, <2>3 DEF ExecutionTypes
  <2> QED
    BY <1>0, <1>3, <2>1, <2>3, <2>4, AggregatesStutter
<1>5. ASSUME NEW s \in Slots, NEW i \in Items, SignRoot(s, i)
      PROVE  ExecutionTypes' /\ AggregationOrder' /\ AggregatesInv'
  <2>1. /\ executions[s].st = "sign"
        /\ UNCHANGED <<next_run, aggregation_task, aggregates>>
    BY <1>5 DEF SignRoot, pipelineVars, phaseVars
  <2>2. executions[s] \in Executions
    BY DEF ExecutionTypes
  <2>3. PICK e : /\ executions' = [executions EXCEPT ![s] = e]
                 /\ e \in Executions /\ e.st = "sign"
                 /\ e.work \subseteq executions[s].work
    <3> DEFINE a == [executions[s] EXCEPT !.left = executions[s].left \ {i},
                                          !.work = executions[s].work \ {i}]
               b == [executions[s] EXCEPT !.left = executions[s].left \ {i}]
    <3>1. /\ a \in Executions /\ a.st = "sign" /\ a.work \subseteq executions[s].work
          /\ b \in Executions /\ b.st = "sign" /\ b.work \subseteq executions[s].work
      BY <2>1, <2>2 DEF Executions
    <3>2. executions' = [executions EXCEPT ![s] = a] \/ executions' = [executions EXCEPT ![s] = b]
      BY <1>5 DEF SignRoot
    <3> HIDE DEF a, b
    <3> QED
      BY <3>1, <3>2
  <2>4. ExecutionTypes'
    BY <2>1, <2>3 DEF ExecutionTypes
  <2> QED
    BY <1>0, <1>3, <2>1, <2>3, <2>4, AggregatesStutter
<1>6. ASSUME NEW s \in Slots, NEW i \in Items, publish_committee_aggregates(s, i)
      PROVE  ExecutionTypes' /\ AggregationOrder' /\ AggregatesInv'
  <2>1. /\ executions[s].st = "sign" /\ i \in executions[s].work
        /\ UNCHANGED <<next_run, aggregation_task>>
    BY <1>6 DEF publish_committee_aggregates, storeVars, pipelineVars, phaseVars
  <2>2. executions[s] \in Executions
    BY DEF ExecutionTypes
  <2> DEFINE e == [executions[s] EXCEPT !.work = executions[s].work \ {i}]
  <2>3. /\ e \in Executions /\ e.st = "sign" /\ e.work = executions[s].work \ {i}
        /\ e.work \subseteq executions[s].work
    BY <2>1, <2>2 DEF Executions
  <2>4. executions' = [executions EXCEPT ![s] = e]
    BY <1>6 DEF publish_committee_aggregates
  <2> HIDE DEF e
  <2>5. /\ AggregationOrder'
        /\ executions' \in [Slots -> Executions]
        /\ executions'[s] = e /\ ~LighthouseOwns(s)
        /\ \A x \in Slots : LighthouseOwns(x) => executions'[x].st = "none"
        /\ \A x \in Slots, j \in Items : /\ Settled(x, j) => Settled(x, j)'
                                         /\ ~LighthouseOwns(x) => singles'[x][j] \in {"idle", "done"}
    BY <1>3, <2>1, <2>3, <2>4
  <2>6. ~Settled(s, i) /\ Settled(s, i)'
    <3>1. LighthouseOwns(s)' = LighthouseOwns(s)
      BY DEF LighthouseOwns
    <3> QED
      BY <2>1, <2>3, <2>5, <3>1 DEF Settled
  <2>7. \/ aggregates' = [aggregates EXCEPT ![s][i] = Append(@, "publisher")]
        \/ aggregates' = aggregates
    BY <1>6 DEF publish_committee_aggregates, post
  <2>8. CASE aggregates' = aggregates
    BY <1>0, <2>1, <2>5, <2>8, AggregatesStutter DEF ExecutionTypes
  <2>9. CASE aggregates' = [aggregates EXCEPT ![s][i] = Append(@, "publisher")]
    <3>1. "publisher" \in {"lighthouse", "publisher"}
      OBVIOUS
    <3>2. /\ AggregatesInv'
          /\ aggregates' \in [Slots -> [Items -> Seq({"lighthouse", "publisher"})]]
      BY <1>0, <2>5, <2>6, <2>9, <3>1, AggregatesAppend
    <3> QED
      BY <2>1, <2>5, <3>2 DEF ExecutionTypes
  <2> QED
    BY <2>7, <2>8, <2>9
<1>7. ASSUME NEW s \in Slots, NEW i \in Items,
             singles[s][i] = "consensus", singles' = [singles EXCEPT ![s][i] = "done"],
             UNCHANGED <<executions, next_run, aggregation_task>>,
             \/ aggregates' = [aggregates EXCEPT ![s][i] = Append(@, "lighthouse")]
             \/ aggregates' = aggregates
      PROVE  ExecutionTypes' /\ AggregationOrder' /\ AggregatesInv'
  <2>1. AggregationOrder'
    BY <1>0, <1>7 DEF AggregationOrder
  <2>2. LighthouseOwns(s) /\ LighthouseOwns(s)' = LighthouseOwns(s)
    BY <1>7 DEF AggregatesInv, LighthouseOwns
  <2>3. singles'[s][i] = "done"
    BY <1>7 DEF SinglesTypes
  <2>4. ~Settled(s, i) /\ Settled(s, i)'
    BY <1>7, <2>2, <2>3 DEF Settled
  <2>5. /\ \A x \in Slots : LighthouseOwns(x) => executions'[x].st = "none"
        /\ \A x \in Slots, j \in Items : /\ Settled(x, j) => Settled(x, j)'
                                         /\ ~LighthouseOwns(x) => singles'[x][j] \in {"idle", "done"}
    BY <1>0, <1>7, SettledKept, SettledStep DEF AggregatesInv
  <2>6. CASE aggregates' = aggregates
    BY <1>0, <1>7, <2>1, <2>5, <2>6, AggregatesStutter DEF ExecutionTypes
  <2>7. CASE aggregates' = [aggregates EXCEPT ![s][i] = Append(@, "lighthouse")]
    <3>1. "lighthouse" \in {"lighthouse", "publisher"}
      OBVIOUS
    <3>2. /\ AggregatesInv'
          /\ aggregates' \in [Slots -> [Items -> Seq({"lighthouse", "publisher"})]]
      BY <1>0, <2>4, <2>5, <2>7, <3>1, AggregatesAppend
    <3> QED
      BY <1>7, <2>1, <3>2 DEF ExecutionTypes
  <2> QED
    BY <1>7, <2>6, <2>7
<1>8. ASSUME NEW s \in Slots, NEW v \in Validators,
             \/ sign_single_aggregate_and_proof(s, v)
             \/ sign_single_sync_committee_contribution(s, v)
      PROVE  ExecutionTypes' /\ AggregationOrder' /\ AggregatesInv'
  <2>1. PICK n \in {0} \cup (1 .. SyncSubnets[v]) :
           /\ singles[s][<<v, n>>] = "consensus"
           /\ singles' = [singles EXCEPT ![s][<<v, n>>] = "done"]
           /\ \/ aggregates' = [aggregates EXCEPT ![s][<<v, n>>] = Append(@, "lighthouse")]
              \/ aggregates' = aggregates
    BY <1>8 DEF sign_single_aggregate_and_proof, sign_single_sync_committee_contribution,
         SignContribution
  <2>2. <<v, n>> \in Items
    BY StoreAssumption DEF Items
  <2>3. UNCHANGED <<executions, next_run, aggregation_task>>
    BY <1>8 DEF sign_single_aggregate_and_proof, sign_single_sync_committee_contribution,
         storeVars, pipelineVars, phaseVars
  <2> QED
    BY <1>7, <2>1, <2>2, <2>3
<1>9. \/ /\ UNCHANGED <<executions, aggregates, next_run>>
         /\ aggregation_task' = aggregation_task \/ update_aggregation_assignments
      \/ PublishAssignments
      \/ \E s \in Slots : Execute(s)
      \/ \E s \in Slots, v \in Validators : \/ sign_single_aggregate_and_proof(s, v)
                                            \/ sign_single_sync_committee_contribution(s, v)
      \/ \E s \in Slots, i \in Items : SignRoot(s, i) \/ publish_committee_aggregates(s, i)
  BY DEF AggregatorNext, update_aggregation_assignments, submit_and_wait, AskProof,
       SignProof, CollectProof, CallLighthouse, get_aggregation_assignments, storeVars,
       pipelineVars, phaseVars
<1> QED
  BY <1>1, <1>2, <1>4, <1>5, <1>6, <1>8, <1>9

\* The states right after a start of the process.
LEMMA AggregatorStarts ==
    ASSUME NEW E, E = [s \in Slots |-> NoExecution],
           NEW F, F = [s \in Slots |-> [i \in Items |-> "idle"]],
           NEW C, C = [s \in Slots |-> [v \in Validators |-> None]]
    PROVE  /\ E \in [Slots -> Executions] /\ \A s \in Slots : E[s].st = "none"
           /\ F \in [Slots -> [Items -> SingleStates]]
           /\ \A s \in Slots, i \in Items : F[s][i] = "idle"
           /\ C \in [Slots -> [Validators -> (SUBSET (0 .. 2)) \cup {None}]]
           /\ \A s \in Slots, v \in Validators : C[s][v] = None
BY NoExecutionType DEF SingleStates

LEMMA AggregatorInitial == Init => AggregatorTypes /\ AggregatesInv
<1> SUFFICES ASSUME Init PROVE AggregatorTypes /\ AggregatesInv
  OBVIOUS
<1>1. AggregatorInit /\ ClockOK /\ slot \in Nat /\ boots = 0
      /\ next_run = [p \in Publishers |-> slot + 1]
  BY ClockInitial, SlotType DEF Init, ClockInit, StoreInit
<1>2. ProofTypes
  BY <1>1 DEF AggregatorInit, ProofTypes
<1>3. SinglesTypes
  BY <1>1, AggregatorStarts DEF AggregatorInit, SinglesTypes
<1>4. /\ aggregates \in [Slots -> [Items -> Seq({"lighthouse", "publisher"})]]
      /\ \A s \in Slots, i \in Items : aggregates[s][i] = <<>>
  BY <1>1 DEF AggregatorInit
<1>5. ExecutionTypes
  BY <1>1, <1>4, AggregatorStarts DEF AggregatorInit, ExecutionTypes
<1>6. AggregationOrder
  BY <1>1 DEF AggregatorInit, AggregationOrder, Publishers
<1>7. AggregatesInv
  <2>1. \A s \in Slots, i \in Items : Len(aggregates[s][i]) = 0
    BY <1>4
  <2>2. /\ \A s \in Slots : executions[s].st = "none"
        /\ \A s \in Slots, i \in Items : singles[s][i] = "idle"
    BY <1>1, AggregatorStarts DEF AggregatorInit
  <2>3. boots = 0
    BY <1>1
  <2> QED
    BY <2>1, <2>2, <2>3 DEF AggregatesInv
<1> QED
  BY <1>2, <1>3, <1>5, <1>6, <1>7 DEF AggregatorTypes

LEMMA StoreKeepsAggregation ==
    ASSUME PipelineInv, StoreNext
    PROVE  next_run'["aggregation"] = next_run["aggregation"]
BY DEF StoreNext, ChangeRegistry, ReorgDuties, update_voting_assignments,
     head_event_or_deadline, update_voting_context, remove_stale_entries,
     prune_slashing_protection_db, ValidateProposal, get_voting_context,
     decide_committee_vote, collect_signature, sign_attestations,
     sign_sync_committee_signatures, StartCall, DrainAttestations,
     DrainSyncMessages, drain_signatures, RecordAttestations, pipelineVars, PipelineInv,
     PipelineTypes, Publishers

LEMMA AggregatorInduction == Spec => [](AggregatorTypes /\ AggregatesInv)
<1>1. /\ ClockOK /\ PipelineInv /\ PipelineInv' /\ AggregatorTypes /\ AggregatesInv
      /\ [Next]_vars
      => (AggregatorTypes /\ AggregatesInv)'
  <2> SUFFICES ASSUME ClockOK, PipelineInv, PipelineInv', AggregatorTypes, AggregatesInv,
                      [Next]_vars
               PROVE  (AggregatorTypes /\ AggregatesInv)'
    OBVIOUS
  <2>0. /\ ClockMoves /\ slot \in Nat /\ slot' \in Nat /\ slot <= slot'
        /\ next_run["aggregation"] \in Nat /\ next_run'["aggregation"] \in Nat
        /\ next_run["aggregation"] <= slot + 1 /\ boots \in Nat
        /\ ProofTypes /\ SinglesTypes /\ ExecutionTypes /\ AggregationOrder
    BY ClockStep, SlotMonotone
       DEF ClockOK, PipelineInv, PipelineTypes, Publishers, AggregatorTypes, AggregationOrder
  <2>1. CASE AggregatorNext /\ UNCHANGED clockVars
    BY <2>0, <2>1, AggregatesStep, ProofsStep, ContributionsStep DEF AggregatorTypes
  <2>2. ASSUME UNCHANGED <<aggregateVars, boots>>,
               next_run["aggregation"] <= next_run'["aggregation"],
               next_run'["aggregation"] <= slot' + 1,
               aggregation_task # None => /\ next_run'["aggregation"] = next_run["aggregation"]
                                          /\ stage' \notin {"syncing", "monitoring"}
        PROVE  (AggregatorTypes /\ AggregatesInv)'
    <3>1. UNCHANGED <<asked, collecting, proofs, singles, contributions, executions,
                      aggregates, aggregation_task>>
      BY <2>2 DEF aggregateVars, proofVars, phaseVars, singleVars
    <3>2. ProofTypes' /\ SinglesTypes' /\ ExecutionTypes'
      BY <2>0, <3>1 DEF ProofTypes, SinglesTypes, ExecutionTypes
    <3>3. AggregationOrder'
      <4>1. aggregation_task # None => aggregation_task.slot \in Nat
        BY <2>0, StoreAssumption DEF ExecutionTypes
      <4> QED
        BY <2>0, <2>2, <3>1, <4>1 DEF AggregationOrder
    <3>4. SinglesAdvance
      BY <3>1 DEF SinglesAdvance
    <3>5. AggregatesInv'
      BY <2>0, <2>2, <3>1, <3>4, SettledKept, SettledStep, AggregatesStutter
         DEF AggregatesInv
    <3> QED
      BY <3>2, <3>3, <3>5 DEF AggregatorTypes
  <2>3. CASE \/ StoreNext /\ UNCHANGED <<clockVars, aggregateVars>>
             \/ ProposalNext /\ UNCHANGED <<clockVars, aggregateVars>>
             \/ UNCHANGED <<storeVars, aggregateVars, stage, boots, booted>>
    <3>1. UNCHANGED <<aggregateVars, boots, stage>>
      BY <2>3 DEF clockVars
    <3>2. next_run'["aggregation"] = next_run["aggregation"]
      BY <2>3, StoreKeepsAggregation, ProposalKeepsPipeline DEF storeVars, pipelineVars
    <3>3. next_run["aggregation"] <= slot' + 1 /\ next_run["aggregation"] <= next_run["aggregation"]
      BY <2>0
    <3> QED
      BY <2>0, <2>2, <3>1, <3>2, <3>3 DEF AggregationOrder
  <2>4. CASE Startup
    <3>1. aggregation_task = None /\ UNCHANGED <<aggregateVars, boots>> /\ slot' = slot
      BY <2>0, <2>4, StartupStep DEF AggregationOrder, slot
    <3>2. next_run'["aggregation"] \in {next_run["aggregation"], slot + 1}
      BY <2>4, StartupStep DEF StartPublishers, storeVars, pipelineVars, Publishers
    <3>3. /\ next_run["aggregation"] <= next_run'["aggregation"]
          /\ next_run'["aggregation"] <= slot' + 1
      BY <2>0, <3>1, <3>2
    <3> QED
      BY <2>2, <3>1, <3>3
  <2>5. CASE Restart
    <3>1. /\ RestartAggregator /\ boots' = boots + 1 /\ slot' = slot
          /\ next_run' = [p \in Publishers |-> slot + 1]
      BY <2>5 DEF Restart, RestartStore, slot
    <3>2. ProofTypes'
      BY <3>1 DEF RestartAggregator, ProofTypes
    <3>3. SinglesTypes' /\ \A s \in Slots, i \in Items : singles'[s][i] = "idle"
      BY <3>1, AggregatorStarts DEF RestartAggregator, SinglesTypes
    <3>4. /\ executions' \in [Slots -> Executions]
          /\ \A s \in Slots : executions'[s].st = "none"
          /\ aggregates' = aggregates /\ aggregation_task' = None
      BY <3>1, AggregatorStarts DEF RestartAggregator
    <3>5. ExecutionTypes' /\ AggregationOrder'
      BY <2>0, <3>1, <3>4 DEF ExecutionTypes, AggregationOrder, Publishers
    <3>6. ASSUME NEW s \in Slots, NEW i \in Items
          PROVE  Len(aggregates[s][i]) <= boots + 1 /\ Len(aggregates[s][i]) \in Nat
      BY <2>0, AggregatesType DEF AggregatesInv
    <3>7. AggregatesInv'
      <4>1. \A s \in Slots, i \in Items : /\ Len(aggregates'[s][i]) <= boots' + 1
                                          /\ Len(aggregates'[s][i]) <= boots'
        BY <2>0, <3>1, <3>4, <3>6
      <4> QED
        BY <3>3, <3>4, <4>1 DEF AggregatesInv
    <3> QED
      BY <3>2, <3>3, <3>5, <3>7 DEF AggregatorTypes
  <2> QED
    BY <2>1, <2>3, <2>4, <2>5, StoreStep
<1> QED
  BY <1>1, AggregatorInitial, PipelineInduction, PTL DEF Spec

\* A process hands an aggregate or contribution to the beacon nodes at most
\* once, by Lighthouse's callbacks or by the publisher, for any fork epoch,
\* retention of executions and number of restarts.
THEOREM AggregatesOnceHolds == Spec => []AggregatesOnce
<1>1. ClockOK /\ AggregatorTypes /\ AggregatesInv => AggregatesOnce
  <2> SUFFICES ASSUME ClockOK, AggregatorTypes, AggregatesInv,
                      NEW s \in Slots, NEW i \in Items
               PROVE  Len(aggregates[s][i]) <= 1 + boots
    BY DEF AggregatesOnce
  <2>1. Len(aggregates[s][i]) \in Nat /\ Len(aggregates[s][i]) <= boots + 1 /\ boots \in Nat
    BY AggregatesType DEF AggregatorTypes, AggregatesInv, ClockOK
  <2> QED
    BY <2>1
<1> QED
  BY <1>1, AggregatorInduction, PipelineInduction, PTL

---------------------------------------------------------------------------
(* The batches of a validator.                                             *)

Records == [state : {"Vacant", "Pending", "Admitted"}, descriptor : SUBSET (0 .. 2)]

\* The batch is sent, or its time is over.
Taken(id) == single_validator_batches[id].state = "Admitted" \/ is_stale_slot(id[2])

\* The process has no message of its own left for the selection proofs of v.
ProofsSent(s, v) ==
    IF SyncSubnets[v] > 1 THEN Taken(<<"ContributionProofs", s, v>>)
    ELSE <<v, 1>> \in collecting[s]

\* Nor for the contributions of v, which wait for the decision: several go out
\* together, a single one with the callback of its subnet.
ContributionsSent(s, v) ==
    /\ contributions[s][v] # None
    /\ IF Cardinality(contributions[s][v]) > 1 THEN Taken(<<"PostConsensus", s, v>>)
       ELSE \A n \in contributions[s][v] : singles[s][<<v, n>>] = "done"

Sent(id) == IF id[1] = "ContributionProofs" THEN ProofsSent(id[2], id[3])
            ELSE ContributionsSent(id[2], id[3])

ValidatorTypes ==
    /\ single_validator_batches \in [ValidatorBatchIds -> Records]
    /\ validator_wire \in [ValidatorBatchIds -> Seq(SUBSET (0 .. 2))]

\* A process sends the message of a validator, slot and phase at most once.
ValidatorInv ==
    \A id \in ValidatorBatchIds :
        /\ Len(validator_wire[id]) <= boots + 1
        /\ ~Sent(id) => Len(validator_wire[id]) <= boots

LEMMA ValidatorIds ==
    ASSUME NEW id \in ValidatorBatchIds
    PROVE  /\ id = <<id[1], id[2], id[3]>>
           /\ id[1] \in {"ContributionProofs", "PostConsensus"}
           /\ id[2] \in Slots /\ id[3] \in Validators
BY DEF ValidatorBatchIds

LEMMA WireType ==
    ASSUME ValidatorTypes, NEW id \in ValidatorBatchIds
    PROVE  validator_wire[id] \in Seq(SUBSET (0 .. 2)) /\ Len(validator_wire[id]) \in Nat
<1>1. validator_wire[id] \in Seq(SUBSET (0 .. 2))
  BY DEF ValidatorTypes
<1> QED
  BY <1>1

\* What is sent stays so while the process runs and its records are kept.
LEMMA SentKept ==
    ASSUME ClockOK, ClockMoves, SinglesAdvance, SinglesTypes,
           \A s \in Slots : collecting[s] \subseteq collecting'[s],
           \A s \in Slots, v \in Validators :
              contributions[s][v] # None => contributions'[s][v] = contributions[s][v],
           NEW id \in ValidatorBatchIds,
           single_validator_batches[id].state = "Admitted" =>
              single_validator_batches'[id].state = "Admitted" \/ is_stale_slot(id[2])'
    PROVE  Sent(id) => Sent(id)'
<1>0. id = <<id[1], id[2], id[3]>> /\ id[2] \in Slots /\ id[3] \in Validators /\ id[2] \in Nat
  BY ValidatorIds, StoreAssumption
<1>1. Taken(id) => Taken(id)'
  BY <1>0, StaleMonotone DEF Taken
<1>2. CASE id[1] = "ContributionProofs"
  <2>1. id = <<"ContributionProofs", id[2], id[3]>>
    BY <1>0, <1>2
  <2> QED
    BY <1>0, <1>1, <1>2, <2>1 DEF Sent, ProofsSent
<1>3. CASE id[1] # "ContributionProofs"
  <2>1. id = <<"PostConsensus", id[2], id[3]>>
    BY <1>0, <1>3, ValidatorIds
  <2>2. ASSUME contributions[id[2]][id[3]] # None, NEW n \in contributions[id[2]][id[3]]
        PROVE  <<id[3], n>> \in Items
    BY <1>0, <2>2, DecisionsType DEF SinglesTypes
  <2> QED
    BY <1>0, <1>1, <1>3, <2>1, <2>2 DEF Sent, ContributionsSent, SinglesAdvance
<1> QED
  BY <1>2, <1>3

\* A message leaves for a batch that was not sent, and now is; or none does.
LEMMA ValidatorAppend ==
    ASSUME ClockOK, ValidatorTypes, ValidatorInv, boots' = boots, NEW id \in ValidatorBatchIds,
           \A x \in ValidatorBatchIds : Sent(x) => Sent(x)',
           \A x \in ValidatorBatchIds \ {id} : validator_wire'[x] = validator_wire[x],
           \/ validator_wire'[id] = validator_wire[id]
           \/ /\ Len(validator_wire'[id]) = Len(validator_wire[id]) + 1
              /\ ~Sent(id) /\ Sent(id)'
    PROVE  ValidatorInv'
<1> SUFFICES ASSUME NEW x \in ValidatorBatchIds
             PROVE  /\ Len(validator_wire'[x]) <= boots' + 1
                    /\ ~Sent(x)' => Len(validator_wire'[x]) <= boots'
  BY DEF ValidatorInv
<1>1. Len(validator_wire[x]) \in Nat /\ boots \in Nat
  BY WireType DEF ClockOK
<1>2. CASE validator_wire'[x] = validator_wire[x]
  BY <1>2 DEF ValidatorInv
<1>3. CASE /\ x = id /\ Len(validator_wire'[id]) = Len(validator_wire[id]) + 1
           /\ ~Sent(id) /\ Sent(id)'
  <2>1. Len(validator_wire[id]) <= boots
    BY <1>3 DEF ValidatorInv
  <2> QED
    BY <1>1, <1>3, <2>1
<1> QED
  BY <1>2, <1>3

\* What SendValidatorShares may do to the batch of a validator.
LEMMA SendShares ==
    ASSUME ValidatorTypes, NEW id \in ValidatorBatchIds, NEW d \in SUBSET (0 .. 2),
           SendValidatorShares(id, d), UNCHANGED clockVars
    PROVE  /\ ValidatorTypes'
           /\ \A x \in ValidatorBatchIds \ {id} :
                 /\ validator_wire'[x] = validator_wire[x]
                 /\ single_validator_batches'[x] = single_validator_batches[x]
           /\ single_validator_batches[id].state = "Admitted"
                 => single_validator_batches'[id] = single_validator_batches[id]
           /\ \/ validator_wire'[id] = validator_wire[id]
              \/ /\ Len(validator_wire'[id]) = Len(validator_wire[id]) + 1
                 /\ Cardinality(d) > 1 => ~Taken(id) /\ Taken(id)'
<1>0. /\ validator_wire[id] \in Seq(SUBSET (0 .. 2))
      /\ \A e \in SUBSET (0 .. 2) :
            /\ Append(validator_wire[id], e) \in Seq(SUBSET (0 .. 2))
            /\ Len(Append(validator_wire[id], e)) = Len(validator_wire[id]) + 1
  BY WireType, AppendLength
<1>1. CASE ~(Cardinality(d) > 1)
  <2>1. /\ validator_wire' = [validator_wire EXCEPT ![id] = Append(@, d)]
        /\ single_validator_batches' = single_validator_batches
    BY <1>1 DEF SendValidatorShares
  <2>2. /\ validator_wire' \in [ValidatorBatchIds -> Seq(SUBSET (0 .. 2))]
        /\ validator_wire'[id] = Append(validator_wire[id], d)
        /\ \A x \in ValidatorBatchIds \ {id} : validator_wire'[x] = validator_wire[x]
    BY <1>0, <2>1 DEF ValidatorTypes
  <2> QED
    BY <1>0, <1>1, <2>1, <2>2 DEF ValidatorTypes
<1>2. CASE Cardinality(d) > 1
  <2>1. process_single_validator_batch(id, d)
    BY <1>2 DEF SendValidatorShares
  <2>2. CASE is_stale_slot(id[2])
    BY <2>1, <2>2 DEF process_single_validator_batch, validatorBatchVars, ValidatorTypes
  <2>3. CASE ~is_stale_slot(id[2])
    <3> DEFINE known == single_validator_batches[id]
               pending == [state |-> "Pending", descriptor |-> d]
               record == IF known = NoRecord THEN pending ELSE known
    <3>1. PICK admitted \in BOOLEAN :
             /\ admitted => record = pending
             /\ admit_validator_batch(id, record, admitted)
      BY <2>1, <2>3 DEF process_single_validator_batch
    <3>2. known \in Records /\ pending \in Records
      BY DEF ValidatorTypes, Records
    <3>3. record \in Records /\ (admitted => known.state # "Admitted" /\ record.state = "Pending")
      BY <3>1, <3>2 DEF NoRecord
    <3>4. known.state = "Admitted" => record = known
      BY <3>2 DEF NoRecord
    <3> HIDE DEF known, pending, record
    <3>5. CASE ~admitted
      <4>1. /\ single_validator_batches' = [single_validator_batches EXCEPT ![id] = record]
            /\ validator_wire' = validator_wire
        BY <3>1, <3>5 DEF admit_validator_batch
      <4> QED
        BY <3>3, <3>4, <4>1 DEF ValidatorTypes, known
    <3>6. CASE admitted
      <4> DEFINE r == [record EXCEPT !.state = "Admitted"]
      <4>1. /\ single_validator_batches' = [single_validator_batches EXCEPT ![id] = r]
            /\ validator_wire' = [validator_wire EXCEPT ![id] = Append(@, record.descriptor)]
        BY <3>1, <3>6 DEF admit_validator_batch
      <4>2. r \in Records /\ r.state = "Admitted" /\ record.descriptor \in SUBSET (0 .. 2)
        BY <3>3 DEF Records
      <4> HIDE DEF r
      <4>3. /\ single_validator_batches' \in [ValidatorBatchIds -> Records]
            /\ single_validator_batches'[id] = r
            /\ \A x \in ValidatorBatchIds \ {id} :
                  single_validator_batches'[x] = single_validator_batches[x]
        BY <4>1, <4>2 DEF ValidatorTypes
      <4>4. /\ validator_wire' \in [ValidatorBatchIds -> Seq(SUBSET (0 .. 2))]
            /\ validator_wire'[id] = Append(validator_wire[id], record.descriptor)
            /\ \A x \in ValidatorBatchIds \ {id} : validator_wire'[x] = validator_wire[x]
        BY <1>0, <4>1, <4>2 DEF ValidatorTypes
      <4>5. ~Taken(id) /\ Taken(id)'
        BY <2>3, <3>3, <3>6, <4>2, <4>3 DEF Taken, known
      <4> QED
        BY <1>0, <3>3, <3>6, <4>2, <4>3, <4>4, <4>5 DEF ValidatorTypes, known
    <3> QED
      BY <3>5, <3>6
  <2> QED
    BY <2>2, <2>3
<1> QED
  BY <1>1, <1>2

LEMMA SubnetCount ==
    ASSUME NEW n \in 0 .. 2
    PROVE  (Cardinality(1 .. n) > 1) = (n > 1)
<1>1. 1 \in Int /\ n \in Int
  OBVIOUS
<1>2. Cardinality(1 .. n) = IF 1 > n THEN 0 ELSE n - 1 + 1
  BY <1>1, FS_Interval, Zenon
<1> QED
  BY <1>2

LEMMA ProofShares ==
    ASSUME ClockOK, ProofTypes, SinglesTypes, ValidatorTypes, ValidatorInv, UNCHANGED clockVars,
           \A x \in ValidatorBatchIds :
              (single_validator_batches[x].state = "Admitted" =>
                  single_validator_batches'[x].state = "Admitted" \/ is_stale_slot(x[2])')
              => (Sent(x) => Sent(x)'),
           NEW s \in Slots, NEW i \in Items, SignProof(s, i)
    PROVE  ValidatorTypes' /\ ValidatorInv'
<1>1. CASE UNCHANGED validatorBatchVars
  <2>1. UNCHANGED <<single_validator_batches, validator_wire, boots>>
    BY <1>1 DEF validatorBatchVars, clockVars
  <2> QED
    BY <2>1 DEF ValidatorTypes, ValidatorInv
<1>2. CASE /\ i[2] > 0
           /\ SendValidatorShares(<<"ContributionProofs", s, i[1]>>, 1 .. SyncSubnets[i[1]])
  <2> DEFINE v == i[1]
             id == <<"ContributionProofs", s, v>>
  <2>1. /\ v \in Validators /\ i = <<v, i[2]>> /\ i[2] \in 0 .. 2 /\ id \in ValidatorBatchIds
        /\ i \in asked[s] /\ i \notin collecting[s]
        /\ collecting' = [collecting EXCEPT ![s] = @ \cup {i}]
    BY <1>2 DEF Items, SignProof, ValidatorBatchIds
  <2>2. i[2] <= SyncSubnets[v] /\ SyncSubnets[v] \in 0 .. 2
    BY <2>1, StoreAssumption DEF ProofTypes
  <2>3. 1 .. SyncSubnets[v] \in SUBSET (0 .. 2)
    BY <2>2
  <2>4. i \in collecting'[s]
    BY <2>1 DEF ProofTypes
  <2>5. SendValidatorShares(id, 1 .. SyncSubnets[v])
    BY <1>2
  <2>6. ~(SyncSubnets[v] > 1) => i = <<v, 1>>
    BY <1>2, <2>1, <2>2
  <2>7. id[1] = "ContributionProofs" /\ id[2] = s /\ id[3] = v
    OBVIOUS
  <2>8. (Cardinality(1 .. SyncSubnets[v]) > 1) = (SyncSubnets[v] > 1)
    BY <2>2, SubnetCount
  <2> HIDE DEF v, id
  <2>9. /\ ValidatorTypes'
        /\ \A x \in ValidatorBatchIds \ {id} :
              /\ validator_wire'[x] = validator_wire[x]
              /\ single_validator_batches'[x] = single_validator_batches[x]
        /\ single_validator_batches[id].state = "Admitted"
              => single_validator_batches'[id] = single_validator_batches[id]
        /\ \/ validator_wire'[id] = validator_wire[id]
           \/ /\ Len(validator_wire'[id]) = Len(validator_wire[id]) + 1
              /\ Cardinality(1 .. SyncSubnets[v]) > 1 => ~Taken(id) /\ Taken(id)'
    BY <2>1, <2>3, <2>5, SendShares
  <2>10. \A x \in ValidatorBatchIds : Sent(x) => Sent(x)'
    BY <2>9
  <2>11. CASE validator_wire'[id] = validator_wire[id]
    BY <2>1, <2>9, <2>10, <2>11, ValidatorAppend DEF clockVars
  <2>12. CASE /\ Len(validator_wire'[id]) = Len(validator_wire[id]) + 1
              /\ Cardinality(1 .. SyncSubnets[v]) > 1 => ~Taken(id) /\ Taken(id)'
    <3>1. Sent(id) = ProofsSent(s, v) /\ Sent(id)' = ProofsSent(s, v)'
      BY <2>7 DEF Sent
    <3>2. ~ProofsSent(s, v) /\ ProofsSent(s, v)'
      <4>1. CASE SyncSubnets[v] > 1
        BY <2>8, <2>12, <4>1 DEF ProofsSent, id
      <4>2. CASE ~(SyncSubnets[v] > 1)
        BY <2>1, <2>4, <2>6, <4>2 DEF ProofsSent
      <4> QED
        BY <4>1, <4>2
    <3> QED
      BY <2>1, <2>9, <2>10, <2>12, <3>1, <3>2, ValidatorAppend DEF clockVars
  <2> QED
    BY <2>9, <2>11, <2>12
<1>3. \/ UNCHANGED validatorBatchVars
      \/ /\ i[2] > 0
         /\ SendValidatorShares(<<"ContributionProofs", s, i[1]>>, 1 .. SyncSubnets[i[1]])
  BY DEF SignProof, produce_selection_proof, produce_sync_selection_proof,
       sync_selection_proof_descriptor, SendSelectionShare, take_ready_committee_batch, batchVars
<1> QED
  BY <1>1, <1>2, <1>3

LEMMA ContributionShares ==
    ASSUME ClockOK, SinglesTypes, ValidatorTypes, ValidatorInv, UNCHANGED clockVars,
           \A x \in ValidatorBatchIds :
              (single_validator_batches[x].state = "Admitted" =>
                  single_validator_batches'[x].state = "Admitted" \/ is_stale_slot(x[2])')
              => (Sent(x) => Sent(x)'),
           NEW s \in Slots, NEW v \in Validators, sign_single_sync_committee_contribution(s, v)
    PROVE  ValidatorTypes' /\ ValidatorInv'
<1>1. CASE UNCHANGED validatorBatchVars
  <2>1. UNCHANGED <<single_validator_batches, validator_wire, boots>>
    BY <1>1 DEF validatorBatchVars, clockVars
  <2> QED
    BY <2>1 DEF ValidatorTypes, ValidatorInv
<1>2. PICK subnet \in 1 .. SyncSubnets[v] :
         /\ singles[s][<<v, subnet>>] = "consensus"
         /\ singles' = [singles EXCEPT ![s][<<v, subnet>>] = "done"]
         /\ \/ \E decided \in DecidedContributions(s, v) :
                  SignContribution(s, v, subnet, decided)
            \/ UNCHANGED batchVars
  BY DEF sign_single_sync_committee_contribution
<1>3. ASSUME NEW d \in DecidedContributions(s, v), subnet \in d,
             contributions' = [contributions EXCEPT ![s][v] = d],
             SendValidatorShares(<<"PostConsensus", s, v>>, d)
      PROVE  ValidatorTypes' /\ ValidatorInv'
  <2> DEFINE id == <<"PostConsensus", s, v>>
  <2>1. d \in Decisions(v) /\ (contributions[s][v] # None => d = contributions[s][v])
    BY <1>3 DEF DecidedContributions, Decisions, SinglesTypes
  <2>2. /\ d \in SUBSET (0 .. 2) /\ d # None /\ <<v, subnet>> \in Items
        /\ ~(Cardinality(d) > 1) => d = {subnet}
    BY <1>3, <2>1, DecisionsType
  <2>3. contributions'[s][v] = d /\ singles'[s][<<v, subnet>>] = "done"
    BY <1>2, <1>3, <2>2 DEF SinglesTypes
  <2>4. /\ id \in ValidatorBatchIds /\ id[1] # "ContributionProofs" /\ id[2] = s /\ id[3] = v
    BY DEF ValidatorBatchIds
  <2> HIDE DEF id
  <2>5. /\ ValidatorTypes'
        /\ \A x \in ValidatorBatchIds \ {id} :
              /\ validator_wire'[x] = validator_wire[x]
              /\ single_validator_batches'[x] = single_validator_batches[x]
        /\ single_validator_batches[id].state = "Admitted"
              => single_validator_batches'[id] = single_validator_batches[id]
        /\ \/ validator_wire'[id] = validator_wire[id]
           \/ /\ Len(validator_wire'[id]) = Len(validator_wire[id]) + 1
              /\ Cardinality(d) > 1 => ~Taken(id) /\ Taken(id)'
    BY <1>3, <2>2, <2>4, SendShares DEF id
  <2>6. \A x \in ValidatorBatchIds : Sent(x) => Sent(x)'
    BY <2>5
  <2>7. CASE validator_wire'[id] = validator_wire[id]
    BY <2>4, <2>5, <2>6, <2>7, ValidatorAppend DEF clockVars
  <2>8. CASE /\ Len(validator_wire'[id]) = Len(validator_wire[id]) + 1
             /\ Cardinality(d) > 1 => ~Taken(id) /\ Taken(id)'
    <3>1. Sent(id) = ContributionsSent(s, v) /\ Sent(id)' = ContributionsSent(s, v)'
      BY <2>4 DEF Sent
    <3>2. ~ContributionsSent(s, v) /\ ContributionsSent(s, v)'
      <4>1. CASE Cardinality(d) > 1
        BY <2>1, <2>2, <2>3, <2>8, <4>1 DEF ContributionsSent, id
      <4>2. CASE ~(Cardinality(d) > 1)
        BY <1>2, <2>1, <2>2, <2>3, <4>2 DEF ContributionsSent
      <4> QED
        BY <4>1, <4>2
    <3> QED
      BY <2>4, <2>5, <2>6, <2>8, <3>1, <3>2, ValidatorAppend DEF clockVars
  <2> QED
    BY <2>5, <2>7, <2>8
<1>4. \/ UNCHANGED validatorBatchVars
      \/ \E d \in DecidedContributions(s, v) :
            /\ subnet \in d /\ contributions' = [contributions EXCEPT ![s][v] = d]
            /\ SendValidatorShares(<<"PostConsensus", s, v>>, d)
  BY <1>2 DEF SignContribution, batchVars
<1> QED
  BY <1>1, <1>3, <1>4

LEMMA ValidatorStep ==
    ASSUME ClockOK, PipelineInv, AggregatorTypes, ValidatorTypes, ValidatorInv, [Next]_vars
    PROVE  ValidatorTypes' /\ ValidatorInv'
<1>0. /\ ClockMoves /\ boots \in Nat /\ ProofTypes /\ SinglesTypes
      /\ \A id \in ValidatorBatchIds : Len(validator_wire[id]) \in Nat
  BY ClockStep, WireType DEF ClockOK, AggregatorTypes
<1>1. CASE AggregatorNext /\ UNCHANGED clockVars
  <2>1. \A x \in ValidatorBatchIds :
           (single_validator_batches[x].state = "Admitted" =>
               single_validator_batches'[x].state = "Admitted" \/ is_stale_slot(x[2])')
           => (Sent(x) => Sent(x)')
    BY <1>0, <1>1, SinglesStep, ContributionsStep, ProofsStep, SentKept
  <2>2. CASE UNCHANGED validatorBatchVars
    <3>1. UNCHANGED <<single_validator_batches, validator_wire, boots>>
      BY <1>1, <2>2 DEF validatorBatchVars, clockVars
    <3> QED
      BY <2>1, <3>1 DEF ValidatorTypes, ValidatorInv
  <2>3. ASSUME NEW s \in Slots, NEW i \in Items, SignRoot(s, i)
        PROVE  UNCHANGED validatorBatchVars
    BY <2>3 DEF SignRoot, take_ready_committee_batch, batchVars
  <2> QED
    BY <1>0, <1>1, <2>1, <2>2, <2>3, AggregatorBatches, ProofShares, ContributionShares
       DEF batchVars
<1>2. CASE UNCHANGED <<aggregateVars, boots, validator_wire>> /\
           \/ UNCHANGED single_validator_batches
           \/ remove_stale_entries
  <2>1. UNCHANGED <<collecting, singles, contributions>>
    BY <1>2 DEF aggregateVars, proofVars, singleVars
  <2>2. /\ single_validator_batches' \in [ValidatorBatchIds -> Records]
        /\ \A id \in ValidatorBatchIds :
              single_validator_batches[id].state = "Admitted" =>
                 single_validator_batches'[id].state = "Admitted" \/ is_stale_slot(id[2])'
    <3>1. CASE UNCHANGED single_validator_batches
      BY <3>1 DEF ValidatorTypes
    <3>2. CASE remove_stale_entries
      <4>1. single_validator_batches' =
               [id \in ValidatorBatchIds |-> IF is_stale_slot(id[2]) THEN NoRecord
                                             ELSE single_validator_batches[id]]
        BY <3>2 DEF remove_stale_entries
      <4>2. \A id \in ValidatorBatchIds : is_stale_slot(id[2])' = is_stale_slot(id[2])
        BY <3>2 DEF remove_stale_entries, clockVars, is_stale_slot, slot
      <4>3. NoRecord \in Records
        BY DEF NoRecord, Records
      <4> QED
        BY <4>1, <4>2, <4>3 DEF ValidatorTypes
    <3> QED
      BY <1>2, <3>1, <3>2
  <2>3. SinglesAdvance
    BY <2>1 DEF SinglesAdvance
  <2>4. \A id \in ValidatorBatchIds : Sent(id) => Sent(id)'
    BY <1>0, <2>1, <2>2, <2>3, SentKept
  <2> QED
    BY <1>2, <2>2, <2>4 DEF ValidatorTypes, ValidatorInv
<1>3. CASE StoreNext /\ UNCHANGED <<clockVars, aggregateVars>>
  <2>1. UNCHANGED validator_wire /\ (UNCHANGED single_validator_batches \/ remove_stale_entries)
    BY ZenonT(60), <1>3 DEF StoreNext, ChangeRegistry, ReorgDuties, update_voting_assignments,
       head_event_or_deadline, update_voting_context, remove_stale_entries,
       prune_slashing_protection_db, ValidateProposal, get_voting_context,
       decide_committee_vote, collect_signature, take_ready_committee_batch,
       sign_attestations, sign_sync_committee_signatures, StartCall, DrainAttestations,
       DrainSyncMessages, drain_signatures, RecordAttestations, batchVars, validatorBatchVars
  <2> QED
    BY SMTT(60), <1>2, <1>3, <2>1 DEF clockVars
<1>4. CASE Restart
  <2>1. /\ single_validator_batches' = [b \in ValidatorBatchIds |-> NoRecord]
        /\ validator_wire' = validator_wire /\ boots' = boots + 1
    BY <1>4 DEF Restart, RestartStore
  <2>2. single_validator_batches' \in [ValidatorBatchIds -> Records]
    BY <2>1 DEF NoRecord, Records
  <2>3. ASSUME NEW id \in ValidatorBatchIds
        PROVE  Len(validator_wire[id]) <= boots' + 1 /\ Len(validator_wire[id]) <= boots'
    BY <1>0, <2>1 DEF ValidatorInv
  <2> QED
    BY <2>1, <2>2, <2>3 DEF ValidatorTypes, ValidatorInv
<1>5. CASE \/ Startup
           \/ ProposalNext /\ UNCHANGED <<clockVars, aggregateVars>>
           \/ UNCHANGED <<storeVars, aggregateVars, boots>>
  <2>1. UNCHANGED validatorBatchVars
    BY <1>5, StartupStep, ProposalKeepsPipeline DEF StartPublishers, storeVars, batchVars
  <2>2. UNCHANGED <<aggregateVars, boots>>
    BY <1>5, StartupStep DEF clockVars
  <2> QED
    BY <1>2, <2>1, <2>2 DEF validatorBatchVars
<1> QED
  BY <1>1, <1>3, <1>4, <1>5, StoreStep

LEMMA BatchesInitial == Init => CommitteeInv /\ ValidatorTypes /\ ValidatorInv
<1> SUFFICES ASSUME Init PROVE CommitteeInv /\ ValidatorTypes /\ ValidatorInv
  OBVIOUS
<1>1. /\ boots = 0 /\ batches = [b \in BatchIds |-> NoBatch] /\ wire = [b \in BatchIds |-> <<>>]
      /\ single_validator_batches = [b \in ValidatorBatchIds |-> NoRecord]
      /\ validator_wire = [b \in ValidatorBatchIds |-> <<>>]
  BY DEF Init, ClockInit, StoreInit
<1>2. NoRecord \in Records /\ NoBatch \in Batches
  BY DEF NoRecord, Records, NoBatch, Batches
<1>3. /\ batches \in [BatchIds -> Batches] /\ wire \in [BatchIds -> Seq(SUBSET Items)]
      /\ single_validator_batches \in [ValidatorBatchIds -> Records]
      /\ validator_wire \in [ValidatorBatchIds -> Seq(SUBSET (0 .. 2))]
  BY <1>1, <1>2
<1>4. /\ \A s \in Slots : Len(wire[<<"post", s>>]) = 0
      /\ \A id \in ValidatorBatchIds : Len(validator_wire[id]) = 0
  BY <1>1 DEF BatchIds
<1> QED
  BY <1>1, <1>3, <1>4 DEF CommitteeInv, ValidatorTypes, ValidatorInv

\* A process sends one message for a committee's slot and one for a
\* validator's slot and phase, with any number of callbacks, late shares, full
\* queues, restarts and visits of the cleaner.
THEOREM OneMessagePerDutyHolds == Spec => []OneMessagePerDuty
<1>1. /\ ClockOK /\ PipelineInv /\ AggregatorTypes /\ CommitteeInv /\ ValidatorTypes
      /\ ValidatorInv /\ [Next]_vars
      => (CommitteeInv /\ ValidatorTypes /\ ValidatorInv)'
  BY CommitteeStep, ValidatorStep
<1>2. ClockOK /\ CommitteeInv /\ ValidatorTypes /\ ValidatorInv => OneMessagePerDuty
  <2> SUFFICES ASSUME ClockOK, CommitteeInv, ValidatorTypes, ValidatorInv
               PROVE  OneMessagePerDuty
    OBVIOUS
  <2>1. ASSUME NEW s \in Slots
        PROVE  Len(wire[<<"post", s>>]) <= 1 + boots
    <3>1. wire[<<"post", s>>] \in Seq(SUBSET Items)
      BY DEF CommitteeInv, BatchIds
    <3>2. Len(wire[<<"post", s>>]) \in Nat /\ Len(wire[<<"post", s>>]) <= boots + 1 /\ boots \in Nat
      BY <3>1 DEF CommitteeInv, ClockOK
    <3> QED
      BY <3>2
  <2>2. ASSUME NEW id \in ValidatorBatchIds
        PROVE  Len(validator_wire[id]) <= 1 + boots
    <3>1. /\ Len(validator_wire[id]) \in Nat /\ Len(validator_wire[id]) <= boots + 1
          /\ boots \in Nat
      BY WireType DEF ValidatorInv, ClockOK
    <3> QED
      BY <3>1
  <2> QED
    BY <2>1, <2>2 DEF OneMessagePerDuty
<1> QED
  BY <1>1, <1>2, BatchesInitial, AggregatorInduction, PipelineInduction, PTL DEF Spec

---------------------------------------------------------------------------
(* A complete batch is sent.                                               *)

CallRecords == [st : CallStates, items : SUBSET Items, left : SUBSET Items,
                size : Nat, good : SUBSET Items]

\* The shares a call of the duty services is for, and those the batch of a
\* slot waits for.
WantedItems(c) ==
    IF c[1] = "attest" THEN ItemsOf(group_by_committee(duties[c[2]]), {})
    ELSE ItemsOf({}, group_by_committee(SyncValidators))
Expected(s) ==
    ItemsOf(duties[s] \cap CommitteeIndices, SyncValidators \cap CommitteeIndices)

\* The shares a call has signed.
Signed(r) == IF r.size > 0 THEN r.items \ r.left ELSE {}
SignedIn(s) == Signed(calls[<<"attest", s>>]) \cup Signed(calls[<<"sync", s>>])

\* Assignments made from the duties of the slot.
Snapshot(a, s) == a.attesters = duties[s] /\ a.sync = SyncValidators

Snapshots ==
    /\ voting_assignments # None => Snapshot(voting_assignments, voting_assignments.slot)
    /\ context_slot # 0 => Snapshot(contexts[context_slot].assignments, context_slot)
    /\ \A c \in CallIds :
          calls[c].st = "consensus" => Snapshot(contexts[c[2]].assignments, c[2])

CallSteady(r, wanted, n) ==
    /\ r.left \subseteq r.items
    /\ r.size \in {0, n}
    /\ r.st = "idle" => r.size = 0
    /\ r.st # "idle" => r.items = wanted
    /\ r.st \in {"context", "consensus"} => r.size = 0 /\ r.items # {}
    /\ r.st = "sign" => r.size > 0

CallsSteady ==
    \A c \in CallIds : CallSteady(calls[c], WantedItems(c), Cardinality(Expected(c[2])))

\* A batch that is not out holds what the two calls have signed, and that is
\* not everything yet.
BatchSteady(s) ==
    /\ ~batches[<<"post", s>>].sent
    /\ batches[<<"post", s>>].sigs = SignedIn(s)
    /\ Cardinality(SignedIn(s)) = Cardinality(Expected(s)) => Cardinality(Expected(s)) = 0

BatchesSteady ==
    \A s \in Slots : slot <= s /\ wire[<<"post", s>>] = <<>> => BatchSteady(s)

Steady == Snapshots /\ CallsSteady /\ BatchesSteady

\* While neither the registry nor the duties have changed.
SteadyInv == changes \in Nat /\ (changes = 0 => Steady)

LEMMA ExpectedItems ==
    ASSUME ClockOK, PipelineInv, NEW c \in CallIds
    PROVE  /\ WantedItems(c) \subseteq Expected(c[2])
           /\ IsFiniteSet(Expected(c[2]))
           /\ Cardinality(Expected(c[2])) \in Nat
           /\ WantedItems(c) # {} => Cardinality(Expected(c[2])) > 0
<1>1. duties[c[2]] \in SUBSET Validators /\ SyncValidators \in SUBSET Validators
  BY ScenarioType DEF PipelineInv, PipelineTypes, CallIds
<1>2. /\ group_by_committee(duties[c[2]]) \subseteq duties[c[2]] \cap CommitteeIndices
      /\ group_by_committee(SyncValidators) \subseteq SyncValidators \cap CommitteeIndices
  BY <1>1 DEF group_by_committee, CommitteeIndices, Active
<1>3. WantedItems(c) \subseteq Expected(c[2])
  <2> DEFINE G == group_by_committee(duties[c[2]])
             H == group_by_committee(SyncValidators)
             A == duties[c[2]] \cap CommitteeIndices
             B == SyncValidators \cap CommitteeIndices
  <2>1. /\ WantedItems(c) = ItemsOf(G, {}) \/ WantedItems(c) = ItemsOf({}, H)
        /\ Expected(c[2]) = ItemsOf(A, B) /\ G \subseteq A /\ H \subseteq B
    BY <1>2 DEF WantedItems, Expected
  <2> HIDE DEF G, H, A, B
  <2> QED
    BY <2>1 DEF ItemsOf
<1>4. IsFiniteSet(Expected(c[2])) /\ Cardinality(Expected(c[2])) \in Nat
  <2>1. duties[c[2]] \cap CommitteeIndices \in SUBSET Validators
        /\ SyncValidators \cap CommitteeIndices \in SUBSET Validators
    BY <1>1
  <2>2. Expected(c[2]) \subseteq Items /\ IsFiniteSet(Items)
    BY <2>1, ItemsType DEF Expected
  <2> QED
    BY <2>2, FS_Subset, FS_CardinalityType
<1>5. ASSUME WantedItems(c) # {}
      PROVE  Cardinality(Expected(c[2])) > 0
  <2>1. Expected(c[2]) # {}
    BY <1>3, <1>5
  <2>2. Cardinality(Expected(c[2])) # 0
    BY <1>4, <2>1, FS_EmptySet
  <2> QED
    BY <1>4, <2>2
<1> QED
  BY <1>3, <1>4, <1>5

LEMMA ExpectedKept ==
    ASSUME UNCHANGED <<config, registry, duties>>
    PROVE  /\ \A c \in CallIds : WantedItems(c)' = WantedItems(c)
           /\ \A s \in Slots : Expected(s)' = Expected(s)
           /\ SyncValidators' = SyncValidators
BY DEF WantedItems, Expected, group_by_committee, Active, CommitteeIndices, SyncValidators

\* A step of other parts of the client, or of time.
LEMMA SteadyKept ==
    ASSUME ClockOK, ClockMoves, Steady, Snapshots', UNCHANGED <<registry, duties, calls>>,
           \A s \in Slots : wire'[<<"post", s>>] = wire[<<"post", s>>],
           \A s \in Slots : slot <= s => batches'[<<"post", s>>] = batches[<<"post", s>>]
    PROVE  Steady'
<1>1. slot \in Nat /\ slot' \in Nat /\ slot <= slot' /\ Slots \subseteq Nat /\ config' = config
  BY SlotMonotone, StoreAssumption DEF ClockMoves
<1>2. /\ \A c \in CallIds : WantedItems(c)' = WantedItems(c)
      /\ \A s \in Slots : Expected(s)' = Expected(s)
  BY <1>1, ExpectedKept
<1>3. CallsSteady'
  <2>1. \A c \in CallIds : c[2] \in Slots
    BY DEF CallIds
  <2> QED
    BY <1>2, <2>1 DEF Steady, CallsSteady
<1>4. BatchesSteady'
  <2> SUFFICES ASSUME NEW s \in Slots, slot' <= s, wire'[<<"post", s>>] = <<>>
               PROVE  BatchSteady(s)'
    BY DEF BatchesSteady
  <2>1. slot <= s
    BY <1>1
  <2>2. BatchSteady(s)
    BY <2>1 DEF Steady, BatchesSteady
  <2>3. SignedIn(s)' = SignedIn(s)
    BY DEF SignedIn
  <2> QED
    BY <1>2, <2>1, <2>2, <2>3 DEF BatchSteady
<1> QED
  BY <1>3, <1>4 DEF Steady

\* A step of a call that signs nothing.
LEMMA SteadyCall ==
    ASSUME ClockOK, PipelineInv, Steady, Snapshots', NEW c \in CallIds, NEW r \in CallRecords,
           calls' = [calls EXCEPT ![c] = r],
           CallSteady(r, WantedItems(c), Cardinality(Expected(c[2]))),
           Signed(r) = Signed(calls[c]),
           UNCHANGED <<now, config, registry, duties, batches, wire>>
    PROVE  Steady'
<1>1. /\ calls'[c] = r /\ \A d \in CallIds \ {c} : calls'[d] = calls[d]
  BY DEF PipelineInv, PipelineTypes
<1>2. /\ \A d \in CallIds : WantedItems(d)' = WantedItems(d)
      /\ \A s \in Slots : Expected(s)' = Expected(s)
  BY ExpectedKept
<1>3. CallsSteady'
  <2> SUFFICES ASSUME NEW d \in CallIds
               PROVE  CallSteady(calls'[d], WantedItems(d)', Cardinality(Expected(d[2])'))
    BY DEF CallsSteady
  <2>1. d[2] \in Slots
    BY DEF CallIds
  <2>2. CallSteady(calls'[d], WantedItems(d), Cardinality(Expected(d[2])))
    <3>1. CASE d = c
      BY <1>1, <3>1
    <3>2. CASE d # c
      BY <1>1, <3>2 DEF Steady, CallsSteady
    <3> QED
      BY <3>1, <3>2
  <2> QED
    BY <1>2, <2>1, <2>2
<1>4. BatchesSteady'
  <2> SUFFICES ASSUME NEW s \in Slots, slot' <= s, wire'[<<"post", s>>] = <<>>
               PROVE  BatchSteady(s)'
    BY DEF BatchesSteady
  <2>1. BatchSteady(s)
    BY DEF Steady, BatchesSteady, slot
  <2>2. \A d \in CallIds : Signed(calls'[d]) = Signed(calls[d])
    BY <1>1
  <2>3. <<"attest", s>> \in CallIds /\ <<"sync", s>> \in CallIds
    BY DEF CallIds
  <2>4. SignedIn(s)' = SignedIn(s)
    <3>1. SignedIn(s)' = Signed(calls'[<<"attest", s>>]) \cup Signed(calls'[<<"sync", s>>])
      BY DEF SignedIn, Signed
    <3> QED
      BY <2>2, <2>3, <3>1 DEF SignedIn
  <2> QED
    BY <1>2, <2>1, <2>4 DEF BatchSteady
<1> QED
  BY <1>3, <1>4 DEF Steady

\* The contexts keep the assignments they were published with.
LEMMA SnapshotsKept ==
    ASSUME PipelineInv, Snapshots,
           UNCHANGED <<config, duties, voting_assignments, context_slot>>,
           \A s \in Slots : contexts'[s].assignments = contexts[s].assignments,
           \A c \in CallIds : calls'[c].st = "consensus" =>
              calls[c].st = "consensus" \/ (context_slot = c[2] /\ c[2] # 0)
    PROVE  Snapshots'
<1>1. \A c \in CallIds : c[2] \in Slots
  BY DEF CallIds
<1>2. context_slot # 0 => context_slot \in Slots
  BY DEF PipelineInv, ContextOrder
<1> QED
  BY <1>1, <1>2 DEF Snapshots, Snapshot, SyncValidators

\* A share more: the batch of its slot holds it too, and is out with the last.
LEMMA SteadyCollect ==
    ASSUME ClockOK, PipelineInv, CommitteeInv, Steady, NEW c \in CallIds, NEW item \in Items,
           collect_signature(c, item), UNCHANGED <<clockVars, registry, duties>>
    PROVE  Steady'
<1> DEFINE old == calls[c]
           s0 == c[2]
           id == <<"post", c[2]>>
           r == [calls[c] EXCEPT !.left = @ \ {item}]
<1>1. /\ old \in CallRecords /\ old.st = "sign" /\ item \in old.left
      /\ CallSteady(old, WantedItems(c), Cardinality(Expected(s0)))
      /\ s0 \in Slots /\ id \in BatchIds
  BY DEF PipelineInv, PipelineTypes, CallRecords, collect_signature, Steady, CallsSteady,
     CallIds, BatchIds
<1>2. old.items = WantedItems(c) /\ old.left \subseteq old.items
      /\ old.size = Cardinality(Expected(s0)) /\ old.size > 0
  BY <1>1 DEF CallSteady
<1>3. registry[item[1]] # "removed"
  <2>1. item \in ItemsOf(group_by_committee(duties[s0]), {})
        \/ item \in ItemsOf({}, group_by_committee(SyncValidators))
    BY <1>1, <1>2 DEF WantedItems
  <2>2. item[1] \in group_by_committee(duties[s0]) \/ item[1] \in group_by_committee(SyncValidators)
    BY <2>1 DEF ItemsOf
  <2> QED
    BY <2>2 DEF group_by_committee, Active
<1>4. /\ calls' = [calls EXCEPT ![c] = r]
      /\ take_ready_committee_batch(id, old.size, item)
      /\ UNCHANGED <<voting_assignments, contexts, context_slot, now, config>>
  BY <1>3 DEF collect_signature, pipelineVars, clockVars
<1>5. /\ r \in CallRecords /\ r.st = old.st /\ r.items = old.items /\ r.size = old.size
      /\ r.left = old.left \ {item}
  BY <1>1 DEF CallRecords
<1>6. calls'[c] = r /\ \A d \in CallIds \ {c} : calls'[d] = calls[d]
  BY <1>4 DEF PipelineInv, PipelineTypes
<1> HIDE DEF r
<1>7. /\ \A d \in CallIds : WantedItems(d)' = WantedItems(d)
      /\ \A s \in Slots : Expected(s)' = Expected(s)
  BY <1>4, ExpectedKept
<1>8. Snapshots'
  <2>1. \A d \in CallIds : calls'[d].st = calls[d].st
    BY <1>5, <1>6
  <2> QED
    BY <1>4, <2>1, SnapshotsKept DEF Steady
<1>9. CallsSteady'
  <2> SUFFICES ASSUME NEW d \in CallIds
               PROVE  CallSteady(calls'[d], WantedItems(d)', Cardinality(Expected(d[2])'))
    BY DEF CallsSteady
  <2>1. d[2] \in Slots
    BY DEF CallIds
  <2>2. CASE d = c
    <3>1. CallSteady(r, WantedItems(c), Cardinality(Expected(s0)))
      BY <1>1, <1>5 DEF CallSteady
    <3> QED
      BY <1>6, <1>7, <2>1, <2>2, <3>1
  <2>3. CASE d # c
    BY <1>6, <1>7, <2>1, <2>3 DEF Steady, CallsSteady
  <2> QED
    BY <2>2, <2>3
<1>10. Signed(r) = Signed(old) \cup {item}
  BY <1>1, <1>2, <1>5 DEF Signed
<1>11. <<"attest", s0>> \in CallIds /\ <<"sync", s0>> \in CallIds
       /\ (c = <<"attest", s0>> \/ c = <<"sync", s0>>)
  BY <1>1 DEF CallIds
<1>12. SignedIn(s0)' = SignedIn(s0) \cup {item}
  <2>1. SignedIn(s0)' = Signed(calls'[<<"attest", s0>>]) \cup Signed(calls'[<<"sync", s0>>])
    BY DEF SignedIn, Signed
  <2>2. CASE c = <<"attest", s0>>
    BY <1>6, <1>10, <1>11, <2>1, <2>2 DEF SignedIn
  <2>3. CASE c = <<"sync", s0>>
    BY <1>6, <1>10, <1>11, <2>1, <2>3 DEF SignedIn
  <2> QED
    BY <1>11, <2>2, <2>3
<1>13. ASSUME NEW s \in Slots, s # s0
       PROVE  /\ SignedIn(s)' = SignedIn(s)
              /\ <<"post", s>> \in BatchIds /\ <<"post", s>> # id
  <2>1. /\ <<"attest", s>> \in CallIds \ {c} /\ <<"sync", s>> \in CallIds \ {c}
        /\ <<"post", s>> \in BatchIds /\ <<"post", s>> # id
    BY <1>11, <1>13 DEF CallIds, BatchIds
  <2>2. SignedIn(s)' = Signed(calls'[<<"attest", s>>]) \cup Signed(calls'[<<"sync", s>>])
    BY DEF SignedIn, Signed
  <2> QED
    BY <1>6, <2>1, <2>2 DEF SignedIn
<1> DEFINE sigs == batches[id].sigs \cup {item}
           full == Cardinality(sigs) = old.size
           b == [sigs |-> IF full THEN {} ELSE sigs, sent |-> full /\ id[1] = "post"]
<1>14. CASE ~(batches[id].sent \/ (id[1] = "post" /\ is_stale_slot(s0)))
  <2>1. /\ batches' = [batches EXCEPT ![id] = b]
        /\ wire' = IF full THEN [wire EXCEPT ![id] = Append(@, sigs)] ELSE wire
    BY <1>4, <1>14 DEF take_ready_committee_batch
  <2>2. ~full => b.sigs = sigs /\ ~b.sent
    OBVIOUS
  <2>3. full \in BOOLEAN
    OBVIOUS
  <2>4. wire[id] \in Seq(SUBSET Items) /\ sigs \in SUBSET Items
    BY <1>1 DEF CommitteeInv, Batches
  <2> HIDE DEF b, full
  <2>5. Append(wire[id], sigs) # <<>>
    BY <2>4
  <2>6. /\ batches'[id] = b /\ \A x \in BatchIds \ {id} : batches'[x] = batches[x]
        /\ \A x \in BatchIds \ {id} : wire'[x] = wire[x]
        /\ full => wire'[id] = Append(wire[id], sigs)
        /\ ~full => wire'[id] = wire[id]
    BY <1>1, <2>1 DEF CommitteeInv
  <2> SUFFICES ASSUME NEW s \in Slots, slot' <= s, wire'[<<"post", s>>] = <<>>
               PROVE  BatchSteady(s)'
    BY <1>8, <1>9 DEF Steady, BatchesSteady
  <2>7. slot <= s
    BY <1>4 DEF slot
  <2>8. CASE s = s0
    <3>1. ~full /\ wire[id] = <<>>
      BY <2>3, <2>5, <2>6, <2>8
    <3>2. BatchSteady(s0)
      BY <2>7, <2>8, <3>1 DEF Steady, BatchesSteady
    <3>3. sigs = SignedIn(s0) \cup {item}
      BY <3>2 DEF BatchSteady
    <3>4. ~batches'[id].sent /\ batches'[id].sigs = SignedIn(s0)'
      BY <1>12, <2>2, <2>6, <3>1, <3>3
    <3>5. Cardinality(SignedIn(s0)') # Cardinality(Expected(s0)')
      BY <1>2, <1>7, <1>1, <1>12, <3>1, <3>3 DEF full
    <3> QED
      BY <2>8, <3>4, <3>5 DEF BatchSteady
  <2>9. CASE s # s0
    <3>1. wire[<<"post", s>>] = <<>> /\ batches'[<<"post", s>>] = batches[<<"post", s>>]
      BY <1>13, <2>6, <2>9
    <3>2. BatchSteady(s)
      BY <2>7, <3>1 DEF Steady, BatchesSteady
    <3> QED
      BY <1>7, <1>13, <2>9, <3>1, <3>2 DEF BatchSteady
  <2> QED
    BY <2>8, <2>9
<1>15. CASE batches[id].sent \/ (id[1] = "post" /\ is_stale_slot(s0))
  <2>1. UNCHANGED <<batches, wire>>
    BY <1>4, <1>15 DEF take_ready_committee_batch, batchVars
  <2> SUFFICES ASSUME NEW s \in Slots, slot' <= s, wire'[<<"post", s>>] = <<>>
               PROVE  BatchSteady(s)'
    BY <1>8, <1>9 DEF Steady, BatchesSteady
  <2>2. slot <= s
    BY <1>4 DEF slot
  <2>3. BatchSteady(s)
    BY <2>1, <2>2 DEF Steady, BatchesSteady
  <2>4. s # s0
    <3>1. slot \in Nat /\ s \in Nat /\ RetainSlots \in Nat
      BY SlotType, StoreAssumption
    <3>2. ~is_stale_slot(s)
      BY <2>2, <3>1 DEF is_stale_slot
    <3> QED
      BY <1>15, <2>3, <3>2 DEF BatchSteady
  <2> QED
    BY <1>7, <1>13, <2>1, <2>3, <2>4 DEF BatchSteady
<1> QED
  BY <1>14, <1>15

\* The steps of the store itself.
LEMMA SteadyStoreStep ==
    ASSUME ClockOK, PipelineInv, CommitteeInv, SteadyInv, StoreNext, UNCHANGED clockVars
    PROVE  SteadyInv'
<1>0. /\ UNCHANGED <<now, config>> /\ changes \in Nat /\ ClockMoves /\ slot' = slot
      /\ slot \in Nat
  BY SlotType DEF clockVars, slot, SteadyInv, ClockMoves, ClockOK
<1>1. ASSUME NEW v \in Validators, NEW to, ChangeRegistry(v, to)
      PROVE  SteadyInv'
  BY <1>0, <1>1 DEF ChangeRegistry, SteadyInv
<1>2. ASSUME NEW v \in Validators, NEW from \in Slots, NEW to \in Slots,
             ReorgDuties(v, from, to)
      PROVE  SteadyInv'
  BY <1>0, <1>2 DEF ReorgDuties, SteadyInv
<1>3. ASSUME UNCHANGED chainVars, changes = 0 => Steady'
      PROVE  SteadyInv'
  BY <1>0, <1>3 DEF chainVars, SteadyInv
<1>4. CASE update_voting_assignments
  <2>1. /\ UNCHANGED <<chainVars, contexts, context_slot, calls, batches, wire>>
        /\ voting_assignments'.slot = slot /\ voting_assignments'.attesters = duties[slot]
        /\ voting_assignments'.sync = SyncValidators
    BY <1>4 DEF update_voting_assignments, callVars, batchVars
  <2>2. Steady => Snapshots'
    BY <1>0, <2>1 DEF Steady, Snapshots, Snapshot, SyncValidators, chainVars
  <2> QED
    BY <1>0, <1>3, <2>1, <2>2, SteadyKept DEF chainVars, SteadyInv
<1>5. CASE head_event_or_deadline \/ prune_slashing_protection_db
  <2>1. UNCHANGED <<chainVars, voting_assignments, contexts, context_slot, calls, batches,
                   wire>>
    BY <1>5 DEF head_event_or_deadline, prune_slashing_protection_db, callVars, batchVars,
         pipelineVars
  <2>2. Steady => Snapshots'
    BY <1>0, <2>1, SnapshotsKept DEF Steady, chainVars
  <2> QED
    BY <1>0, <1>3, <2>1, <2>2, SteadyKept DEF chainVars, SteadyInv
<1>6. CASE remove_stale_entries
  <2>1. /\ UNCHANGED <<chainVars, voting_assignments, contexts, context_slot, calls, wire>>
        /\ batches' = [id \in BatchIds |-> IF is_stale_slot(id[2]) THEN NoBatch ELSE batches[id]]
    BY <1>6 DEF remove_stale_entries, callVars, pipelineVars
  <2>2. Steady => Snapshots'
    BY <1>0, <2>1, SnapshotsKept DEF Steady, chainVars
  <2>3. ASSUME NEW s \in Slots, slot <= s
        PROVE  batches'[<<"post", s>>] = batches[<<"post", s>>]
    <3>1. s \in Nat /\ RetainSlots \in Nat
      BY StoreAssumption
    <3>2. ~is_stale_slot(s)
      BY <1>0, <2>3, <3>1 DEF is_stale_slot
    <3> QED
      BY <2>1, <3>2 DEF BatchIds
  <2> QED
    BY <1>0, <1>3, <2>1, <2>2, <2>3, SteadyKept DEF chainVars, SteadyInv
<1>7. CASE update_voting_context
  <2>1. /\ UNCHANGED <<chainVars, voting_assignments, calls, batches, wire>>
        /\ context_task # None /\ voting_assignments # None
    BY <1>7 DEF update_voting_context, callVars, batchVars
  <2> DEFINE t == context_task.slot
  <2>2. t \in Slots /\ voting_assignments \in VotingAssignments
    BY <2>1 DEF PipelineInv, PipelineTypes
  <2>3. Steady => Snapshots'
    <3> SUFFICES ASSUME Steady PROVE Snapshots'
      OBVIOUS
    <3>1. CASE contexts' = contexts /\ context_slot' = context_slot
      BY <1>0, <2>1, <3>1, SnapshotsKept DEF Steady, chainVars
    <3>2. CASE voting_assignments.slot = t /\ context_slot' = t /\ \E vote \in Votes :
                contexts' = [contexts EXCEPT ![t] =
                                [assignments |-> voting_assignments, vote |-> vote,
                                 head |-> context_task.head,
                                 attesters |-> None, valid |-> {}, decided |-> None]]
      <4>1. /\ contexts'[t].assignments = voting_assignments
            /\ \A s \in Slots \ {t} : contexts'[s] = contexts[s]
        BY <2>2, <3>2 DEF PipelineInv, PipelineTypes
      <4>2. Snapshot(contexts'[t].assignments, t)
        BY <2>1, <3>2, <4>1 DEF Steady, Snapshots
      <4>3. \A c \in CallIds : c[2] \in Slots
        BY DEF CallIds
      <4>4. \A c \in CallIds : calls[c].st = "consensus" =>
               Snapshot(contexts'[c[2]].assignments, c[2])
        BY <4>1, <4>2, <4>3 DEF Steady, Snapshots
      <4>5. voting_assignments # None => Snapshot(voting_assignments, voting_assignments.slot)
        BY DEF Steady, Snapshots
      <4> HIDE DEF t
      <4> QED
        BY <1>0, <2>1, <3>2, <4>2, <4>4, <4>5 DEF Snapshots, Snapshot, SyncValidators, chainVars
    <3> QED
      BY <1>7, <3>1, <3>2 DEF update_voting_context, fetch_attestation_data,
         weighted_calculation
  <2> QED
    BY <1>0, <1>3, <2>1, <2>3, SteadyKept DEF chainVars, SteadyInv
<1>8. ASSUME NEW s \in Slots, NEW vote \in Votes, ValidateProposal(s, vote)
      PROVE  SteadyInv'
  <2>1. PICK kind \in {"attest", "sync"} : calls[<<kind, s>>].st = "consensus"
    BY <1>8 DEF ValidateProposal
  <2>2. contexts[s] \in Contexts
    <3>1. <<kind, s>> \in CallIds
      BY DEF CallIds
    <3> QED
      BY <2>1, <3>1 DEF PipelineInv, CallsServed
  <2>3. /\ contexts' = [contexts EXCEPT ![s].valid = @ \cup {vote}]
        /\ UNCHANGED <<chainVars, voting_assignments, context_slot, calls, batches, wire>>
    BY <1>8 DEF ValidateProposal, callVars, batchVars
  <2>4. /\ contexts'[s].assignments = contexts[s].assignments
        /\ \A x \in Slots \ {s} : contexts'[x] = contexts[x]
    BY <2>2, <2>3 DEF PipelineInv, PipelineTypes, Contexts
  <2>5. Steady => Snapshots'
    BY <1>0, <2>2, <2>3, <2>4, SnapshotsKept DEF Steady, chainVars
  <2> QED
    BY <1>0, <1>3, <2>3, <2>5, SteadyKept DEF chainVars, SteadyInv
<1>9. ASSUME NEW c \in CallIds, NEW r \in CallRecords, calls' = [calls EXCEPT ![c] = r],
             UNCHANGED <<chainVars, voting_assignments, context_slot, batches, wire>>,
             \A s \in Slots : contexts'[s].assignments = contexts[s].assignments,
             r.st = "consensus" => context_slot = c[2] /\ c[2] # 0,
             Steady /\ CallSteady(calls[c], WantedItems(c), Cardinality(Expected(c[2]))) =>
                /\ CallSteady(r, WantedItems(c), Cardinality(Expected(c[2])))
                /\ Signed(r) = Signed(calls[c])
      PROVE  SteadyInv'
  <2> SUFFICES ASSUME changes = 0 PROVE Steady'
    BY <1>3, <1>9
  <2>1. Steady
    BY DEF SteadyInv
  <2>2. Snapshots'
    <3>1. calls'[c] = r /\ \A d \in CallIds \ {c} : calls'[d] = calls[d]
      BY <1>9 DEF PipelineInv, PipelineTypes
    <3>2. \A d \in CallIds : calls'[d].st = "consensus" =>
             calls[d].st = "consensus" \/ (context_slot = d[2] /\ d[2] # 0)
      BY <1>9, <3>1
    <3> QED
      BY <1>0, <1>9, <2>1, <3>2, SnapshotsKept DEF Steady, chainVars
  <2>3. /\ CallSteady(r, WantedItems(c), Cardinality(Expected(c[2])))
        /\ Signed(r) = Signed(calls[c])
    BY <1>9, <2>1 DEF Steady, CallsSteady
  <2> QED
    BY <1>0, <1>9, <2>1, <2>2, <2>3, SteadyCall DEF chainVars
<1>10. \A c \in CallIds : calls[c] \in CallRecords /\ c[2] \in Slots
  BY DEF PipelineInv, PipelineTypes, CallRecords, CallIds
<1>11. ASSUME NEW c \in CallIds, get_voting_context(c)
       PROVE  SteadyInv'
  <2>1. /\ calls[c].st = "context" /\ c[2] \in Slots /\ c[2] # 0
        /\ UNCHANGED <<chainVars, voting_assignments, context_slot, batches, wire>>
    BY <1>10, <1>11, StoreAssumption DEF PipelineInv, CallsServed, get_voting_context, batchVars
  <2>2. PICK st \in {"consensus", "done"} :
           /\ calls' = [calls EXCEPT ![c] = [calls[c] EXCEPT !.st = st]]
           /\ st = "consensus" => context_slot = c[2]
    BY <1>11 DEF get_voting_context
  <2> DEFINE r == [calls[c] EXCEPT !.st = st]
  <2>3. /\ r \in CallRecords /\ r.st = st /\ r.items = calls[c].items
        /\ r.left = calls[c].left /\ r.size = calls[c].size
    BY <1>10 DEF CallRecords, CallStates
  <2>4. ASSUME NEW s \in Slots
        PROVE  contexts'[s].assignments = contexts[s].assignments
    <3>1. CASE contexts' = contexts
      BY <3>1
    <3>2. CASE /\ context_slot = c[2]
               /\ contexts' = [contexts EXCEPT ![c[2]].attesters =
                                  get_attesting_validators_in_committee(c[2])]
      <4>1. contexts[c[2]] \in Contexts
        BY <2>1, <3>2 DEF PipelineInv, ContextOrder
      <4>2. /\ contexts'[c[2]].assignments = contexts[c[2]].assignments
            /\ \A x \in Slots \ {c[2]} : contexts'[x] = contexts[x]
        BY <2>1, <3>2, <4>1 DEF PipelineInv, PipelineTypes, Contexts
      <4> QED
        BY <4>2
    <3> QED
      BY <1>11, <3>1, <3>2 DEF get_voting_context
  <2>5. CallSteady(calls[c], WantedItems(c), Cardinality(Expected(c[2]))) =>
           /\ CallSteady(r, WantedItems(c), Cardinality(Expected(c[2])))
           /\ Signed(r) = Signed(calls[c])
    <3> HIDE DEF r
    <3> QED
      BY <2>1, <2>3 DEF CallSteady, Signed
  <2>6. calls' = [calls EXCEPT ![c] = r]
    BY <2>2
  <2> HIDE DEF r
  <2> QED
    BY <1>9, <2>1, <2>2, <2>3, <2>4, <2>5, <2>6
<1>12. ASSUME NEW c \in CallIds, decide_committee_vote(c)
       PROVE  SteadyInv'
  <2>1. /\ calls[c].st = "consensus" /\ contexts[c[2]] \in Contexts /\ c[2] \in Slots
        /\ UNCHANGED <<chainVars, voting_assignments, context_slot, batches, wire>>
    BY <1>12 DEF decide_committee_vote, batchVars, PipelineInv, CallsServed, CallIds
  <2>2. ASSUME NEW vote \in contexts[c[2]].valid,
               contexts' = [contexts EXCEPT ![c[2]].decided = vote],
               calls' = [calls EXCEPT
                   ![c] = [@ EXCEPT !.st = "sign", !.left = calls[c].items,
                              !.size = voting_message_count(contexts[c[2]].assignments)]]
        PROVE  SteadyInv'
    <3> DEFINE n == voting_message_count(contexts[c[2]].assignments)
               r == [calls[c] EXCEPT !.st = "sign", !.left = calls[c].items, !.size = n]
    <3>1. n \in Nat
      BY ItemsType DEF voting_message_count, CommitteeIndices
    <3>2. Steady => n = Cardinality(Expected(c[2]))
      BY <2>1 DEF Steady, Snapshots, Snapshot, voting_message_count, Expected
    <3> HIDE DEF n
    <3>3. /\ r \in CallRecords /\ r.st = "sign" /\ r.items = calls[c].items
          /\ r.left = calls[c].items /\ r.size = n
      BY <1>10, <3>1 DEF CallRecords, CallStates
    <3>4. calls' = [calls EXCEPT ![c] = r]
      BY <2>2 DEF n
    <3> HIDE DEF r
    <3>5. /\ contexts'[c[2]].assignments = contexts[c[2]].assignments
          /\ \A x \in Slots \ {c[2]} : contexts'[x] = contexts[x]
      BY <2>1, <2>2 DEF PipelineInv, PipelineTypes, Contexts
    <3>6. Steady /\ CallSteady(calls[c], WantedItems(c), Cardinality(Expected(c[2]))) =>
             /\ CallSteady(r, WantedItems(c), Cardinality(Expected(c[2])))
             /\ Signed(r) = Signed(calls[c])
      <4> SUFFICES ASSUME Steady,
                          CallSteady(calls[c], WantedItems(c), Cardinality(Expected(c[2])))
                   PROVE  /\ CallSteady(r, WantedItems(c), Cardinality(Expected(c[2])))
                          /\ Signed(r) = Signed(calls[c])
        OBVIOUS
      <4>1. /\ calls[c].items = WantedItems(c) /\ calls[c].items # {} /\ calls[c].size = 0
        BY <2>1 DEF CallSteady
      <4>2. Cardinality(Expected(c[2])) > 0
        BY <4>1, ExpectedItems
      <4> QED
        BY <3>2, <3>3, <4>1, <4>2 DEF CallSteady, Signed
    <3> QED
      BY <1>9, <2>1, <3>3, <3>4, <3>5, <3>6
  <2>3. CASE calls' = [calls EXCEPT ![c].st = "done"] /\ contexts' = contexts
    <3> DEFINE r == [calls[c] EXCEPT !.st = "done"]
    <3>1. /\ r \in CallRecords /\ r.st = "done" /\ r.items = calls[c].items
          /\ r.left = calls[c].left /\ r.size = calls[c].size
      BY <1>10 DEF CallRecords, CallStates
    <3>2. calls' = [calls EXCEPT ![c] = r]
      BY <2>3
    <3> HIDE DEF r
    <3>3. CallSteady(calls[c], WantedItems(c), Cardinality(Expected(c[2]))) =>
             /\ CallSteady(r, WantedItems(c), Cardinality(Expected(c[2])))
             /\ Signed(r) = Signed(calls[c])
      BY <2>1, <3>1 DEF CallSteady, Signed
    <3> QED
      BY <1>9, <2>1, <2>3, <3>1, <3>2, <3>3
  <2> QED
    BY <1>12, <2>2, <2>3 DEF decide_committee_vote
<1>13. ASSUME NEW c \in CallIds, NEW item \in Items, collect_signature(c, item)
       PROVE  SteadyInv'
  <2>1. UNCHANGED chainVars
    BY <1>13 DEF collect_signature
  <2> QED
    BY <1>3, <1>13, <2>1, SteadyCollect DEF SteadyInv, chainVars
<1>14. ASSUME NEW s \in Slots, sign_attestations(s) \/ sign_sync_committee_signatures(s)
       PROVE  SteadyInv'
  <2>1. PICK kind \in {"attest", "sync"}, wanted \in SUBSET Validators :
           StartCall(kind, s, wanted, WantedItems(<<kind, s>>))
    BY <1>14, ScenarioType
       DEF sign_attestations, sign_sync_committee_signatures, WantedItems, PipelineInv,
           PipelineTypes
  <2> DEFINE c == <<kind, s>>
             w == WantedItems(c)
             first == IF w = {} THEN "done" ELSE "context"
             r == [NoCall EXCEPT !.st = first, !.items = w]
  <2>2. /\ calls' = [calls EXCEPT ![c] = r] /\ calls[c].st = "idle"
        /\ UNCHANGED <<chainVars, voting_assignments, contexts, context_slot, batches, wire>>
    BY <2>1 DEF StartCall, pipelineVars, batchVars
  <2>3. c \in CallIds
    BY DEF CallIds
  <2>4. w \in SUBSET Items
    <3>1. /\ group_by_committee(duties[s]) \in SUBSET Validators
          /\ group_by_committee(SyncValidators) \in SUBSET Validators
      BY ScenarioType DEF group_by_committee, PipelineInv, PipelineTypes
    <3> QED
      BY <3>1, ItemsType DEF WantedItems
  <2>5. /\ first \in {"done", "context"} /\ (first = "context" => w # {})
    OBVIOUS
  <2> HIDE DEF w, first
  <2>7. /\ r \in CallRecords /\ r.items = w /\ r.left = {} /\ r.size = 0 /\ r.st = first
    <3>1. NoCall \in CallRecords /\ NoCall.left = {} /\ NoCall.size = 0
      BY DEF NoCall, CallRecords, CallStates
    <3>2. first \in CallStates
      BY <2>5 DEF CallStates
    <3> QED
      BY <2>4, <3>1, <3>2 DEF CallRecords
  <2> HIDE DEF r, c
  <2>6. CallSteady(calls[c], WantedItems(c), Cardinality(Expected(c[2]))) =>
           /\ CallSteady(r, WantedItems(c), Cardinality(Expected(c[2])))
           /\ Signed(r) = Signed(calls[c])
    BY <2>2, <2>5, <2>7 DEF CallSteady, Signed, w
  <2>8. r.st # "consensus"
    BY <2>5, <2>7
  <2> QED
    BY <1>9, <2>2, <2>3, <2>6, <2>7, <2>8
<1>15. ASSUME NEW c \in CallIds, NEW r \in CallRecords, calls' = [calls EXCEPT ![c] = r],
              r.st \in {"done", "record"}, calls[c].st \in {"sign", "record"},
              r.items = calls[c].items, r.left = calls[c].left, r.size = calls[c].size,
              UNCHANGED <<chainVars, voting_assignments, contexts, context_slot, batches, wire>>
       PROVE  SteadyInv'
  <2>1. CallSteady(calls[c], WantedItems(c), Cardinality(Expected(c[2]))) =>
           /\ CallSteady(r, WantedItems(c), Cardinality(Expected(c[2])))
           /\ Signed(r) = Signed(calls[c])
    BY <1>15 DEF CallSteady, Signed
  <2> QED
    BY <1>9, <1>15, <2>1
<1>16. ASSUME NEW s \in Slots, DrainAttestations(s) \/ DrainSyncMessages(s)
       PROVE  SteadyInv'
  <2>1. <<"attest", s>> \in CallIds /\ <<"sync", s>> \in CallIds
    BY DEF CallIds
  <2>2. /\ calls[<<"attest", s>>].items \in SUBSET Items
        /\ calls[<<"sync", s>>].items \in SUBSET Items
    BY <1>10, <2>1 DEF CallRecords
  <2>3. PICK c \in CallIds, st \in {"done", "record"}, good \in SUBSET Items :
           drain_signatures(c, st, good)
    BY <1>16, <2>1, <2>2 DEF DrainAttestations, DrainSyncMessages
  <2> DEFINE r == [calls[c] EXCEPT !.st = st, !.good = good]
  <2>4. /\ r \in CallRecords /\ r.st = st /\ r.items = calls[c].items
        /\ r.left = calls[c].left /\ r.size = calls[c].size
    BY <1>10 DEF CallRecords, CallStates
  <2>5. /\ calls' = [calls EXCEPT ![c] = r] /\ calls[c].st = "sign"
        /\ UNCHANGED <<chainVars, voting_assignments, contexts, context_slot, batches, wire>>
    BY <2>3 DEF drain_signatures, pipelineVars, batchVars
  <2> HIDE DEF r
  <2> QED
    BY <1>15, <2>4, <2>5
<1>17. ASSUME NEW s \in Slots, RecordAttestations(s)
       PROVE  SteadyInv'
  <2> DEFINE c == <<"attest", s>>
  <2>1. c \in CallIds
    BY DEF CallIds
  <2> DEFINE r == [calls[c] EXCEPT !.st = "done"]
  <2>2. /\ r \in CallRecords /\ r.st = "done" /\ r.items = calls[c].items
        /\ r.left = calls[c].left /\ r.size = calls[c].size
    BY <1>10, <2>1 DEF CallRecords, CallStates
  <2>3. /\ calls' = [calls EXCEPT ![c] = r] /\ calls[c].st = "record"
        /\ UNCHANGED <<chainVars, voting_assignments, contexts, context_slot, batches, wire>>
    BY <1>17 DEF RecordAttestations, pipelineVars, batchVars
  <2> HIDE DEF c, r
  <2> QED
    BY <1>15, <2>1, <2>2, <2>3
<1> QED
  BY <1>1, <1>2, <1>4, <1>5, <1>6, <1>7, <1>8, <1>11, <1>12, <1>13, <1>14, <1>16, <1>17
     DEF StoreNext

\* No other service touches the committee's post-consensus batches.
PostKept ==
    \A s \in Slots : /\ batches'[<<"post", s>>] = batches[<<"post", s>>]
                     /\ wire'[<<"post", s>>] = wire[<<"post", s>>]

LEMMA AggregatorKeepsPost ==
    ASSUME ClockOK, CommitteeInv, AggregatorNext
    PROVE  PostKept
<1>1. ASSUME NEW id \in BatchIds, id[1] # "post", NEW size, NEW item,
             take_ready_committee_batch(id, size, item)
      PROVE  PostKept
  <2> SUFFICES ASSUME NEW s \in Slots
               PROVE  /\ batches'[<<"post", s>>] = batches[<<"post", s>>]
                      /\ wire'[<<"post", s>>] = wire[<<"post", s>>]
    BY Zenon DEF PostKept
  <2> DEFINE sigs == batches[id].sigs \cup {item}
             full == Cardinality(sigs) = size
             b == [sigs |-> IF full THEN {} ELSE sigs, sent |-> full /\ id[1] = "post"]
             q == Append(wire[id], sigs)
  <2>1. /\ batches' = batches \/ batches' = [batches EXCEPT ![id] = b]
        /\ wire' = wire \/ wire' = [wire EXCEPT ![id] = q]
    BY <1>1 DEF take_ready_committee_batch, batchVars
  <2>2. <<"post", s>> \in BatchIds \ {id}
    BY <1>1 DEF BatchIds
  <2> HIDE DEF b, q
  <2> QED
    BY <2>1, <2>2 DEF CommitteeInv
<1>2. ASSUME NEW s \in Slots, NEW i \in Items, SignProof(s, i)
      PROVE  \/ UNCHANGED <<batches, wire>>
             \/ take_ready_committee_batch(<<"select", s>>,
                                           selection_proof_count(voting_assignments), i)
  BY <1>2 DEF SignProof, produce_selection_proof, produce_sync_selection_proof,
       SendSelectionShare, SendValidatorShares, batchVars
<1>3. ASSUME NEW s \in Slots, NEW i \in Items, SignRoot(s, i)
      PROVE  \/ UNCHANGED <<batches, wire>>
             \/ take_ready_committee_batch(<<"aggregate", s>>, executions[s].size, i)
  BY <1>3 DEF SignRoot, batchVars
<1>4. ASSUME NEW s \in Slots, NEW v \in Validators,
             sign_single_sync_committee_contribution(s, v)
      PROVE  UNCHANGED <<batches, wire>>
  BY <1>4 DEF sign_single_sync_committee_contribution, SignContribution,
       SendValidatorShares, batchVars
<1>5. \A s \in Slots : /\ <<"select", s>> \in BatchIds /\ <<"select", s>>[1] # "post"
                       /\ <<"aggregate", s>> \in BatchIds /\ <<"aggregate", s>>[1] # "post"
  BY DEF BatchIds
<1>6. UNCHANGED <<batches, wire>> => PostKept
  BY DEF PostKept
<1> QED
  BY <1>1, <1>2, <1>3, <1>4, <1>5, <1>6, AggregatorBatches DEF batchVars

\* The store of a process that has just started.
Fresh ==
    /\ voting_assignments = None /\ context_slot = 0
    /\ calls = [c \in CallIds |-> NoCall] /\ batches = [b \in BatchIds |-> NoBatch]

LEMMA SteadyFresh == Fresh => Steady
<1> SUFFICES ASSUME Fresh PROVE Steady
  OBVIOUS
<1> USE DEF Fresh
<1>1. Snapshots
  BY DEF Snapshots, NoCall
<1>2. CallsSteady
  BY DEF CallsSteady, CallSteady, NoCall
<1>3. \A s \in Slots : SignedIn(s) = {}
  BY DEF SignedIn, Signed, NoCall, CallIds
<1>4. BatchesSteady
  <2> SUFFICES ASSUME NEW s \in Slots PROVE BatchSteady(s)
    BY DEF BatchesSteady
  <2>1. batches[<<"post", s>>].sent = FALSE /\ batches[<<"post", s>>].sigs = {}
    BY DEF NoBatch, BatchIds
  <2>2. Cardinality({}) = 0
    BY FS_EmptySet
  <2> QED
    BY <1>3, <2>1, <2>2 DEF BatchSteady
<1> QED
  BY <1>1, <1>2, <1>4 DEF Steady

LEMMA SteadyInduction == Spec => [](ClockOK /\ PipelineInv /\ SteadyInv)
<1>1. Init => SteadyInv
  <2> SUFFICES ASSUME Init PROVE SteadyInv
    OBVIOUS
  <2>1. StoreInit
    BY DEF Init
  <2> QED
    BY <2>1, SteadyFresh DEF StoreInit, SteadyInv, Fresh
<1>0. Fresh' => Steady'
  BY SteadyFresh, PTL
<1>2. ClockOK /\ PipelineInv /\ CommitteeInv /\ SteadyInv /\ [Next]_vars => SteadyInv'
  <2> SUFFICES ASSUME ClockOK, PipelineInv, CommitteeInv, SteadyInv, [Next]_vars
               PROVE  SteadyInv'
    OBVIOUS
  <2>0. ClockMoves /\ changes \in Nat /\ config' = config
    BY ClockStep DEF ClockMoves, SteadyInv
  <2>1. CASE StoreNext /\ UNCHANGED clockVars
    BY <2>1, SteadyStoreStep
  <2>2. ASSUME UNCHANGED <<chainVars, voting_assignments, contexts, context_slot, calls>>,
               PostKept
        PROVE  SteadyInv'
    <3>1. Steady => Snapshots'
      BY <2>0, <2>2, SnapshotsKept DEF Steady, chainVars
    <3> QED
      BY <2>0, <2>2, <3>1, SteadyKept DEF SteadyInv, chainVars, PostKept
  <2>3. CASE AggregatorNext
    BY <2>2, <2>3, AggregatorKeepsPipeline, AggregatorKeepsPost DEF callVars
  <2>4. CASE \/ ProposalNext
             \/ Startup
             \/ UNCHANGED storeVars
    <3>1. UNCHANGED <<chainVars, voting_assignments, contexts, context_slot, calls, batches, wire>>
      BY <2>4, ProposalKeepsPipeline, StartupStep
         DEF StartPublishers, storeVars, pipelineVars, callVars, batchVars
    <3> QED
      BY <2>2, <3>1 DEF PostKept
  <2>5. CASE Restart
    <3>1. RestartStore
      BY <2>5 DEF Restart
    <3>2. /\ UNCHANGED chainVars /\ voting_assignments' = None /\ context_slot' = 0
          /\ calls' = [c \in CallIds |-> NoCall] /\ batches' = [b \in BatchIds |-> NoBatch]
      BY <3>1 DEF RestartStore
    <3>3. Steady'
      BY <1>0, <3>2 DEF Fresh
    <3> QED
      BY <2>0, <3>2, <3>3 DEF SteadyInv, chainVars
  <2> QED
    BY <2>1, <2>3, <2>4, <2>5, StoreStep
<1>3. ClockOK /\ CommitteeInv /\ [Next]_vars => CommitteeInv'
  BY CommitteeStep
<1>4. Init => CommitteeInv
  BY BatchesInitial
<1> QED
  BY <1>1, <1>2, <1>3, <1>4, PipelineInduction, PTL DEF Spec

\* No validator with a duty is liquidated, as voting_pubkeys, from which
\* Lighthouse makes the duties, has it: one that is would be counted and not
\* served.
DutiesServed ==
    \A s \in Slots : \A v \in duties[s] \cup SyncValidators : registry[v] \in {"active", "removed"}

\* Once both callbacks have signed all they were called for, the committee's
\* message is out, with any number of validators, attesting, in the sync
\* committee or both, and with the cleaner, the other batches and a restart in
\* between.
THEOREM CompleteBatchSentHolds == Spec => [](DutiesServed => CompleteBatchSent)
<1>1. ClockOK /\ PipelineInv /\ SteadyInv => (DutiesServed => CompleteBatchSent)
  <2> SUFFICES ASSUME ClockOK, PipelineInv, SteadyInv, DutiesServed,
                      NEW s \in Slots, changes = 0, slot = s,
                      \E kind \in {"attest", "sync"} :
                         IF kind = "attest" THEN duties[s] # {} ELSE SyncValidators # {},
                      \A kind \in {"attest", "sync"} :
                         (IF kind = "attest" THEN duties[s] # {} ELSE SyncValidators # {}) =>
                            /\ calls[<<kind, s>>].items # {}
                            /\ calls[<<kind, s>>].size > 0 /\ calls[<<kind, s>>].left = {},
                      wire[<<"post", s>>] = <<>>
               PROVE  FALSE
    BY DEF CompleteBatchSent
  <2> DEFINE A == duties[s] \cap CommitteeIndices
             B == SyncValidators \cap CommitteeIndices
             a == <<"attest", s>>
             y == <<"sync", s>>
             n == Cardinality(Expected(s))
  <2>1. slot \in Nat /\ slot <= s /\ Steady
    BY SlotType DEF SteadyInv
  <2>2. BatchSteady(s)
    BY <2>1 DEF Steady, BatchesSteady
  <2>3. /\ a \in CallIds /\ y \in CallIds /\ a[1] = "attest" /\ y[1] = "sync"
        /\ a[2] = s /\ y[2] = s
    BY DEF CallIds
  <2>4. /\ CallSteady(calls[a], WantedItems(a), n) /\ CallSteady(calls[y], WantedItems(y), n)
        /\ calls[a] \in CallRecords /\ calls[y] \in CallRecords
    BY <2>1, <2>3 DEF Steady, CallsSteady, PipelineInv, PipelineTypes, CallRecords
  <2>5. group_by_committee(duties[s]) = A /\ group_by_committee(SyncValidators) = B
    <3>1. duties[s] \in SUBSET Validators /\ SyncValidators \in SUBSET Validators
      BY ScenarioType DEF PipelineInv, PipelineTypes
    <3> QED
      BY <3>1 DEF DutiesServed, group_by_committee, Active, CommitteeIndices
  <2>6. WantedItems(a) = ItemsOf(A, {}) /\ WantedItems(y) = ItemsOf({}, B)
        /\ Expected(s) = ItemsOf(A, B)
    BY <2>3, <2>5 DEF WantedItems, Expected
  <2>7. /\ duties[s] = {} => A = {}
        /\ SyncValidators = {} => B = {}
    OBVIOUS
  <2>8. /\ duties[s] # {} => calls[a].items # {} /\ calls[a].size > 0 /\ calls[a].left = {}
        /\ SyncValidators # {} => calls[y].items # {} /\ calls[y].size > 0 /\ calls[y].left = {}
        /\ duties[s] # {} \/ SyncValidators # {}
    OBVIOUS
  <2> HIDE DEF A, B, a, y, n
  <2>9. ItemsOf({}, {}) = {} /\ ItemsOf(A, B) = ItemsOf(A, {}) \cup ItemsOf({}, B)
    BY DEF ItemsOf
  <2>10. Signed(calls[a]) = ItemsOf(A, {})
    <3>1. CASE duties[s] = {}
      <4>1. WantedItems(a) = {}
        BY <2>6, <2>7, <2>9, <3>1
      <4> QED
        BY <2>4, <2>6, <4>1 DEF CallSteady, Signed
    <3>2. CASE duties[s] # {}
      BY <2>4, <2>6, <2>8, <3>2 DEF CallSteady, Signed
    <3> QED
      BY <3>1, <3>2
  <2>11. Signed(calls[y]) = ItemsOf({}, B)
    <3>1. CASE SyncValidators = {}
      <4>1. WantedItems(y) = {}
        BY <2>6, <2>7, <2>9, <3>1
      <4> QED
        BY <2>4, <2>6, <4>1 DEF CallSteady, Signed
    <3>2. CASE SyncValidators # {}
      BY <2>4, <2>6, <2>8, <3>2 DEF CallSteady, Signed
    <3> QED
      BY <3>1, <3>2
  <2>12. SignedIn(s) = Expected(s)
    BY <2>6, <2>9, <2>10, <2>11 DEF SignedIn, a, y
  <2>13. n = 0
    BY <2>2, <2>12 DEF BatchSteady, n
  <2>14. WantedItems(a) # {} \/ WantedItems(y) # {}
    BY <2>4, <2>8 DEF CallSteady
  <2>15. n > 0
    BY <2>3, <2>14, ExpectedItems DEF n
  <2> QED
    BY <2>13, <2>15
<1> QED
  BY <1>1, SteadyInduction, PTL
=============================================================================
