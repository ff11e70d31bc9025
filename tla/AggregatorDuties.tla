-------------------------- MODULE AggregatorDuties --------------------------
(***************************************************************************)
(* Selection proofs, aggregates and sync committee contributions           *)
(* (validator_store/src/lib.rs, metadata_service.rs phase 3 and            *)
(* aggregator_post_consensus.rs).  Before the Boole fork Lighthouse        *)
(* publishes what its callbacks sign, one validator at a time; from Boole  *)
(* one execution per committee decides and signs every item, and a         *)
(* publisher of its own hands them to the beacon nodes.  The fork may come *)
(* between two slots of a run.                                             *)
(***************************************************************************)
EXTENDS ValidatorStore

CONSTANT RetainEpochs       \* AGGREGATOR_POST_CONSENSUS_RETAIN_EPOCHS

ASSUME AggregatorAssumption == RetainEpochs \in Nat

VARIABLES
    asked,              \* items whose selection proof was asked for, by slot
    collecting,         \* items whose selection share is signed
    proofs,             \* items with a selection proof
    aggregation_task,   \* what update_aggregation_assignments works on
    assignments_slot,   \* the slot of the published AggregationAssignments
    multi_sync,         \* its validators with a ContributionWaiter
    singles,            \* the pre-Boole callbacks, by slot and item
    contributions,      \* the subnets decided for a validator, by slot
    executions,         \* aggregator_post_consensus and its tasks, by slot
    aggregates          \* the paths each item was published by

proofVars == <<asked, collecting, proofs>>
phaseVars == <<aggregation_task, assignments_slot, multi_sync>>
singleVars == <<singles, contributions>>
aggregateVars == <<proofVars, phaseVars, singleVars, executions, aggregates>>

NoExecution == [st |-> "none", work |-> {}, left |-> {}, size |-> 0]

AggregatorInit ==
    /\ asked = [s \in Slots |-> {}] /\ collecting = [s \in Slots |-> {}]
    /\ proofs = [s \in Slots |-> {}]
    /\ aggregation_task = None /\ assignments_slot = 0 /\ multi_sync = {}
    /\ singles = [s \in Slots |-> [i \in Items |-> "idle"]]
    /\ contributions = [s \in Slots |-> [v \in Validators |-> None]]
    /\ executions = [s \in Slots |-> NoExecution]
    /\ aggregates = [s \in Slots |-> [i \in Items |-> <<>>]]

RestartAggregator ==
    /\ asked' = [s \in Slots |-> {}] /\ collecting' = [s \in Slots |-> {}]
    /\ proofs' = [s \in Slots |-> {}]
    /\ aggregation_task' = None /\ assignments_slot' = 0 /\ multi_sync' = {}
    /\ singles' = [s \in Slots |-> [i \in Items |-> "idle"]]
    /\ contributions' = [s \in Slots |-> [v \in Validators |-> None]]
    /\ executions' = [s \in Slots |-> NoExecution]
    /\ UNCHANGED aggregates

\* lighthouse_owns_publication
LighthouseOwns(s) == epoch_of(s) < BooleEpoch
Due(s) == 3 * s + 2             \* the aggregation deadline of slot s
Assigned(a, i) == IF i[2] = 0 THEN i[1] \in a.attesters ELSE i[1] \in a.sync

---------------------------------------------------------------------------
(* Selection proofs.                                                       *)

\* produce_selection_proof and produce_sync_selection_proof start, for a
\* validator that can be served
AskProof(s, i) ==
    /\ Running /\ "aggregate" \in config.parts /\ slot = s /\ s > booted
    /\ i \in SelectionItems(duties[s], SyncValidators) \ asked[s] /\ Active(i[1])
    /\ asked' = [asked EXCEPT ![s] = @ \cup {i}]
    /\ UNCHANGED <<clockVars, storeVars, collecting, proofs, phaseVars, singleVars,
                   executions, aggregates>>

\* The voting assignments of the slot are awaited; a validator they lack gives
\* no proof, nor does a later slot.
InAssignments(s, i) ==
    /\ voting_assignments # None /\ voting_assignments.slot = s
    /\ Assigned(voting_assignments, i)

\* The batch size counts the proofs of the committee's validators.
SendSelectionShare(s, i) ==
    take_ready_committee_batch(<<"select", s>>, selection_proof_count(voting_assignments), i)

\* Before Boole an aggregator's share is a message of its own, which nothing
\* else depends on.
produce_selection_proof(s, i) ==
    /\ i[2] = 0
    /\ IF LighthouseOwns(s) THEN UNCHANGED batchVars
       ELSE InAssignments(s, i) /\ SendSelectionShare(s, i)

\* sync_selection_proof_descriptor: all subnets of the validator
sync_selection_proof_descriptor(v) == 1 .. SyncSubnets[v]

produce_sync_selection_proof(s, i) ==
    /\ i[2] > 0
    /\ InAssignments(s, i)
    /\ IF LighthouseOwns(s)
       THEN /\ now < Due(s)
            /\ SendValidatorShares(<<"ContributionProofs", s, i[1]>>,
                                   sync_selection_proof_descriptor(i[1]))
       ELSE SendSelectionShare(s, i)

SignProof(s, i) ==
    /\ i \in asked[s] \ collecting[s] /\ registry[i[1]] # "removed"
    /\ produce_selection_proof(s, i) \/ produce_sync_selection_proof(s, i)
    /\ collecting' = [collecting EXCEPT ![s] = @ \cup {i}]
    /\ UNCHANGED <<clockVars, chainVars, pipelineVars, callVars, slashingVars, asked,
                   proofs, phaseVars, singleVars, executions, aggregates>>

\* timeout_within_slot: a proof may come until the aggregation deadline
CollectProof(s, i) ==
    /\ i \in collecting[s] \ proofs[s] /\ now <= Due(s)
    /\ proofs' = [proofs EXCEPT ![s] = @ \cup {i}]
    /\ UNCHANGED <<clockVars, storeVars, asked, collecting, phaseVars, singleVars,
                   executions, aggregates>>

---------------------------------------------------------------------------
(* Phase 3 of the metadata service.                                        *)

\* At the aggregation deadline: the aggregators Lighthouse has found, of
\* validators that can be served.
update_aggregation_assignments ==
    /\ Running /\ "aggregate" \in config.parts /\ aggregation_task = None
    /\ slot >= next_run["aggregation"] /\ slot \in config.slots /\ now >= Due(slot)
    /\ aggregation_task' =
          [slot |-> slot,
           items |-> {i \in proofs[slot] :
                         Active(i[1]) /\ (i[2] = 0 => i[1] \in duties[slot])}]
    /\ UNCHANGED <<clockVars, storeVars, proofVars, assignments_slot, multi_sync,
                   singleVars, executions, aggregates>>

\* start_aggregator_post_consensus: an execution is registered once
Registered(s, items) ==
    LET cutoff == s - RetainEpochs * SlotsPerEpoch
        kept == [x \in Slots |-> IF x >= cutoff THEN executions[x] ELSE NoExecution]
    IN  IF items = {} \/ kept[s].st # "none" THEN kept
        ELSE [kept EXCEPT ![s].st = "start"]

\* The validators whose contributions meet in a ContributionWaiter.
several(items) ==
    {v \in Validators : Cardinality({i \in items : i[1] = v /\ i[2] > 0}) > 1}

\* A beacon node may lack an aggregate, or be late with it.
fetch_aggregated_attestations(items) == SUBSET {i \in items : i[2] = 0}

\* A contribution is asked for once for its subnet.
fetch_sync_contributions(items) == SUBSET {i[2] : i \in {j \in items : j[2] > 0}}

\* What was fetched is kept; the order of the candidates is left out.
build_consensus_data_from_candidates(items, attestations, subnets) ==
    attestations \cup {i \in items : i[2] \in subnets}

\* build_consensus_data_for_all_committees: both kinds are fetched at once
build_consensus_data(items) ==
    {build_consensus_data_from_candidates(items, attestations, subnets) :
        attestations \in fetch_aggregated_attestations(items),
        subnets \in fetch_sync_contributions(items)}

\* Before Boole the assignments are published at once.  From Boole they wait
\* for the voting context, whose vote selects what the beacon nodes are asked
\* for; a later slot's context is an error.
PublishAssignments ==
    LET s == aggregation_task.slot
        publish(items) == /\ assignments_slot' = s
                          /\ multi_sync' = several(aggregation_task.items)
                          /\ executions' = Registered(s, items)
    IN  /\ aggregation_task # None
        /\ \/ LighthouseOwns(s) /\ publish({})
           \/ /\ ~LighthouseOwns(s) /\ context_slot = s
              /\ \E found \in build_consensus_data(aggregation_task.items) : publish(found)
           \/ /\ ~LighthouseOwns(s) /\ context_slot > s
              /\ UNCHANGED <<assignments_slot, multi_sync, executions>>
        /\ aggregation_task' = None
        /\ next_run' = [next_run EXCEPT !["aggregation"] = slot + 1]
        /\ UNCHANGED <<clockVars, chainVars, voting_assignments, contexts, context_slot,
                       context_task, callVars, batchVars, slashingVars, proofVars,
                       singleVars, aggregates>>

---------------------------------------------------------------------------
(* From Boole: one execution for the committee.                            *)

\* committee_cluster: an active cluster of the committee is left
committee_cluster == \E v \in Validators : Active(v)

\* resolve_decided_aggregate and resolve_decided_contribution
resolvable(i) == Active(i[1])

\* This operator signs the decided items of validators that are active now.
build_decided_worklist(decided) == {i \in decided : resolvable(i)}

\* AggregatorCommitteeDataValidator: any items but none at all
valid_consensus_data(s) == (SUBSET SelectionItems(duties[s], SyncValidators)) \ {{}}

\* run_aggregator_committee_consensus: the committee decides some items, or
\* it times out or fails
run_aggregator_committee_consensus(s) == {None} \cup valid_consensus_data(s)

\* run_aggregator_post_consensus: nothing without an active cluster
Execute(s) ==
    /\ executions[s].st = "start"
    /\ \E decided \in run_aggregator_committee_consensus(s) :
          executions' = [executions EXCEPT ![s] =
             IF decided = None \/ ~committee_cluster THEN [NoExecution EXCEPT !.st = "done"]
             ELSE LET work == build_decided_worklist(decided)
                  IN  [st |-> "sign", work |-> work, left |-> work, size |-> Cardinality(work)]]
    /\ UNCHANGED <<clockVars, storeVars, proofVars, phaseVars, singleVars, aggregates>>

\* The detached task of spawn_root_collection.
SignRoot(s, i) ==
    /\ executions[s].st = "sign" /\ i \in executions[s].left
    /\ IF registry[i[1]] = "removed"
       THEN /\ executions' = [executions EXCEPT ![s] =
                                 [@ EXCEPT !.left = executions[s].left \ {i},
                                           !.work = executions[s].work \ {i}]]
            /\ UNCHANGED batchVars
       ELSE /\ executions' = [executions EXCEPT ![s].left = @ \ {i}]
            /\ take_ready_committee_batch(<<"aggregate", s>>, executions[s].size, i)
    /\ UNCHANGED <<clockVars, chainVars, pipelineVars, callVars, slashingVars,
                   proofVars, phaseVars, singleVars, aggregates>>

\* An aggregate may be included for another slot, a contribution only in the
\* next one.
publish_one_root(s, i) == i[2] = 0 /\ now < 3 * (s + 2)
publish_one_contribution(s, i) == i[2] > 0 /\ now < 3 * (s + 1)

\* post_aggregate, post_contribution: no beacon node may take it.
post(s, i) ==
    \/ aggregates' = [aggregates EXCEPT ![s][i] = Append(@, "publisher")]
    \/ UNCHANGED aggregates

\* publish_committee_aggregates: each root under its own deadline
publish_committee_aggregates(s, i) ==
    /\ executions[s].st = "sign" /\ i \in executions[s].work \ executions[s].left
    /\ publish_one_root(s, i) \/ publish_one_contribution(s, i)
    /\ executions' = [executions EXCEPT ![s].work = @ \ {i}]
    /\ post(s, i)
    /\ UNCHANGED <<clockVars, storeVars, proofVars, phaseVars, singleVars>>

---------------------------------------------------------------------------
(* Before Boole: the callbacks of Lighthouse.                              *)

\* Mutant: the callbacks sign on both sides of the fork.
Callback_ungated(s, i) ==
    singles' = [singles EXCEPT ![s][i] = IF ~Active(i[1]) THEN "done"
                                         ELSE IF i[2] > 0 THEN "assignments"
                                         ELSE "consensus"]

\* sign_aggregate_and_proofs and sign_sync_committee_contributions, for one
\* of their items; from Boole they answer with an empty batch
Callback(s, i) ==
    singles' = [singles EXCEPT ![s][i] =
                   IF ~LighthouseOwns(s) \/ ~Active(i[1]) THEN "done"
                   ELSE IF i[2] > 0 THEN "assignments" ELSE "consensus"]

CallLighthouse(s, i) ==
    /\ Running /\ slot = s /\ s > booted /\ now >= Due(s)
    /\ i \in proofs[s] /\ singles[s][i] = "idle"
    /\ Callback(s, i)
    /\ UNCHANGED <<clockVars, storeVars, proofVars, phaseVars, contributions, executions,
                   aggregates>>

\* A contribution waits for the aggregation assignments of its slot, then,
\* when its validator has several, in the ContributionWaiter.
get_aggregation_assignments(s, i) ==
    /\ singles[s][i] = "assignments" /\ assignments_slot >= s
    /\ singles' = [singles EXCEPT ![s][i] =
                      IF assignments_slot > s THEN "done"
                      ELSE IF i[1] \in multi_sync THEN "barrier" ELSE "consensus"]
    /\ UNCHANGED <<clockVars, storeVars, proofVars, phaseVars, contributions, executions,
                   aggregates>>

\* submit_and_wait: the last one releases the others, or one goes on alone
\* after its timeout
submit_and_wait(s, v) ==
    LET at == {i \in Items : i[1] = v /\ singles[s][i] = "barrier"}
    IN  /\ \E go \in (SUBSET at) \ {{}} :
              /\ go = at \/ Cardinality(go) = 1
              /\ singles' = [singles EXCEPT ![s] =
                    [i \in Items |-> IF i \in go THEN "consensus" ELSE @[i]]]
        /\ UNCHANGED <<clockVars, storeVars, proofVars, phaseVars, contributions,
                       executions, aggregates>>

\* Consensus of one validator and the signature on what it decides, whose share
\* is a message of its own; or an error.
sign_single_aggregate_and_proof(s, v) ==
    /\ singles[s][<<v, 0>>] = "consensus"
    /\ singles' = [singles EXCEPT ![s][<<v, 0>>] = "done"]
    /\ \/ /\ registry[v] # "removed"
          /\ aggregates' = [aggregates EXCEPT ![s][<<v, 0>>] = Append(@, "lighthouse")]
       \/ UNCHANGED aggregates
    /\ UNCHANGED <<clockVars, storeVars, proofVars, phaseVars, contributions, executions>>

\* The callbacks of a validator share its instance of the slot.
DecidedContributions(s, v) ==
    IF contributions[s][v] # None THEN {contributions[s][v]}
    ELSE (SUBSET (1 .. SyncSubnets[v])) \ {{}}

\* prepare_decided_sync_contributions: the shares of all decided subnets are
\* batched, and a decision without the callback's subnet is an error.
SignContribution(s, v, subnet, decided) ==
    /\ contributions' = [contributions EXCEPT ![s][v] = decided]
    /\ IF subnet \in decided /\ registry[v] # "removed"
       THEN /\ SendValidatorShares(<<"PostConsensus", s, v>>, decided)
            /\ \/ /\ Cardinality(decided) = 1 \/ ~is_stale_slot(s)
                  /\ aggregates' = [aggregates EXCEPT ![s][<<v, subnet>>] =
                                       Append(@, "lighthouse")]
               \/ UNCHANGED aggregates
       ELSE UNCHANGED <<batchVars, aggregates>>

sign_single_sync_committee_contribution(s, v) ==
    \E subnet \in 1 .. SyncSubnets[v] :
        /\ singles[s][<<v, subnet>>] = "consensus"
        /\ singles' = [singles EXCEPT ![s][<<v, subnet>>] = "done"]
        /\ \/ \E decided \in DecidedContributions(s, v) :
                 SignContribution(s, v, subnet, decided)
           \/ UNCHANGED <<contributions, batchVars, aggregates>>
        /\ UNCHANGED <<clockVars, chainVars, pipelineVars, callVars, slashingVars,
                       proofVars, phaseVars, executions>>

AggregatorNext ==
    \/ update_aggregation_assignments
    \/ PublishAssignments
    \/ \E s \in Slots : Execute(s)
    \/ \E s \in Slots, v \in Validators :
          \/ submit_and_wait(s, v)
          \/ sign_single_aggregate_and_proof(s, v)
          \/ sign_single_sync_committee_contribution(s, v)
    \/ \E s \in Slots, i \in Items :
          \/ AskProof(s, i)
          \/ SignProof(s, i)
          \/ CollectProof(s, i)
          \/ SignRoot(s, i)
          \/ publish_committee_aggregates(s, i)
          \/ CallLighthouse(s, i)
          \/ get_aggregation_assignments(s, i)
============================================================================
