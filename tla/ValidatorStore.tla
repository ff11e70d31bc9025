--------------------------- MODULE ValidatorStore ---------------------------
(***************************************************************************)
(* The validator store and the first two phases of the metadata service    *)
(* (anchor/validator_store), with the outgoing batches of the signature    *)
(* collector, for one operator and the validators of one SSV committee.    *)
(* Every slot the metadata service publishes voting assignments and a      *)
(* voting context; the callbacks of the duty services wait for them, let   *)
(* the committee decide, sign, and batch their partial signatures into one *)
(* message.  The registry of validators and the duties may change at any   *)
(* of the awaits.                                                          *)
(*                                                                         *)
(* An item is <<v, 0>> for the attestation of v, <<v, n>> for its sync     *)
(* committee message or contribution in subnet n.  The decisions of QBFT   *)
(* and the shares of the other operators come from the environment: a      *)
(* decision is any vote this node has validated, and two processes, before *)
(* and after a restart, may see different ones.                            *)
(***************************************************************************)
EXTENDS NodeClock, FiniteSetsExt

CONSTANTS
    Validators,
    Slots,              \* the slots with duties
    SyncSubnets,        \* SyncSubnets[v]: subnets of v in the sync committee
    Votes,              \* records of root, index, source and target
    BooleEpoch,
    GloasEpoch,
    HistoryEpochs,      \* SLASHING_PROTECTION_HISTORY_EPOCHS
    RetainSlots         \* SIGNATURE_COLLECTOR_RETAIN_SLOTS

\* The history a scenario starts from is one the database let through.
ASSUME StoreAssumption ==
    /\ Slots \subseteq Nat /\ RetainSlots \in Nat /\ HistoryEpochs \in Nat \ {0}
    /\ IsFiniteSet(Validators) /\ SyncSubnets \in [Validators -> 0 .. 2]
    /\ \A d \in SUBSET (0 .. 2) : d # None
    /\ \A vote \in Votes : vote.source \in Nat /\ vote.target \in Nat
    /\ \A c \in Scenarios :
          /\ c.slots \subseteq Slots
          /\ c.duties \in [Slots -> SUBSET Validators] /\ c.sync \subseteq Validators
          /\ \A a \in c.history : a.source \in Nat /\ a.target \in Nat
          /\ \A a, b \in c.history :
                a.validator = b.validator /\ a # b =>
                    /\ a.target # b.target
                    /\ ~(a.source < b.source /\ b.target < a.target)

VARIABLES
    registry,           \* the database: "active", "liquidated" or "removed" (not there)
    duties,             \* the attesters of each slot in Lighthouse's duties
    changes,            \* changes of the registry and the duties so far
    next_run,           \* the next slot each publisher of the metadata service wakes in
    voting_assignments, \* the watch channel of phase 1
    contexts,           \* the voting contexts published, by slot
    context_slot,       \* the slot of the context in the watch channel
    context_task,       \* what update_voting_context works on
    calls,              \* sign_attestations and sign_sync_committee_signatures
    batches,            \* committee_partial_signature_batches
    wire,               \* the committee messages sent, by batch
    single_validator_batches,
    validator_wire,     \* the messages of one validator sent, by batch
    slashing_db,        \* the slashing protection database (durable)
    last_prune,         \* slashing_protection_last_prune
    emitted,            \* attestations this operator signed a share of
    published           \* attestations handed to Lighthouse

chainVars == <<registry, duties, changes>>
pipelineVars == <<next_run, voting_assignments, contexts, context_slot, context_task>>
callVars == <<calls, emitted, published>>
validatorBatchVars == <<single_validator_batches, validator_wire>>
batchVars == <<batches, wire, validatorBatchVars>>
slashingVars == <<slashing_db, last_prune>>
storeVars == <<chainVars, pipelineVars, callVars, batchVars, slashingVars>>

Items == {<<v, n>> : v \in Validators, n \in 0 .. 2}
SyncValidators == config.sync
ItemsOf(attesters, sync) ==
    {<<v, 0>> : v \in attesters} \cup {<<v, 1>> : v \in sync}
SelectionItems(attesters, sync) ==
    {<<v, 0>> : v \in attesters}
    \cup UNION {{<<v, n>> : n \in 1 .. SyncSubnets[v]} : v \in sync}

\* get_validator_and_cluster: unknown and liquidated validators are refused
Active(v) == registry[v] = "active"
\* get_committee_validator_indices: liquidated ones are still counted
CommitteeIndices == {v \in Validators : registry[v] # "removed"}

CallIds == {"attest", "sync"} \X Slots
BatchIds == {"post", "select", "aggregate"} \X Slots
NoCall == [st |-> "idle", items |-> {}, left |-> {}, size |-> 0, good |-> {}]
NoBatch == [sigs |-> {}, sent |-> FALSE]
ValidatorBatchIds == {"ContributionProofs", "PostConsensus"} \X Slots \X Validators
NoRecord == [state |-> "Vacant", descriptor |-> {}]
Publishers == {"assignments", "context", "aggregation"}

StoreInit ==
    /\ registry = config.registry
    /\ duties = config.duties
    /\ changes = 0
    /\ next_run = [p \in Publishers |-> slot + 1]
    /\ voting_assignments = None
    /\ contexts = [s \in Slots |-> None]
    /\ context_slot = 0 /\ context_task = None
    /\ calls = [c \in CallIds |-> NoCall]
    /\ batches = [b \in BatchIds |-> NoBatch]
    /\ wire = [b \in BatchIds |-> <<>>]
    /\ single_validator_batches = [b \in ValidatorBatchIds |-> NoRecord]
    /\ validator_wire = [b \in ValidatorBatchIds |-> <<>>]
    /\ slashing_db = [attestations |-> config.history, blocks |-> {}]
    /\ last_prune = 0
    /\ emitted = {} /\ published = config.history

\* The process ends and starts again; the slashing protection database and
\* what other nodes have seen of this one stay.
RestartStore ==
    /\ next_run' = [p \in Publishers |-> slot + 1]
    /\ voting_assignments' = None
    /\ contexts' = [s \in Slots |-> None]
    /\ context_slot' = 0 /\ context_task' = None
    /\ calls' = [c \in CallIds |-> NoCall]
    /\ batches' = [b \in BatchIds |-> NoBatch]
    /\ single_validator_batches' = [b \in ValidatorBatchIds |-> NoRecord]
    /\ last_prune' = 0
    /\ UNCHANGED <<chainVars, wire, validator_wire, slashing_db, emitted, published>>

\* Every publisher sleeps into the next slot before its first update.
StartPublishers ==
    /\ next_run' = [p \in Publishers |-> slot + 1]
    /\ UNCHANGED <<chainVars, voting_assignments, contexts, context_slot,
                   context_task, callVars, batchVars, slashingVars>>

Running == stage = "running"

---------------------------------------------------------------------------
(* The surroundings: contract events change the registry, Lighthouse finds *)
(* new attester duties after a reorg.                                      *)

ChangeRegistry(v, to) ==
    /\ stage # "stopped" /\ changes < config.changes
    /\ registry[v] # to /\ (registry[v] = "removed" => to = "active")
    /\ registry' = [registry EXCEPT ![v] = to]
    /\ changes' = changes + 1
    /\ UNCHANGED <<clockVars, duties, pipelineVars, callVars, batchVars, slashingVars>>

ReorgDuties(v, from, to) ==
    /\ stage # "stopped" /\ changes < config.reorgs
    /\ v \in duties[from] /\ from # to /\ epoch_of(from) = epoch_of(to)
    /\ duties' = [duties EXCEPT ![from] = @ \ {v}, ![to] = @ \cup {v}]
    /\ changes' = changes + 1
    /\ UNCHANGED <<clockVars, registry, pipelineVars, callVars, batchVars, slashingVars>>

---------------------------------------------------------------------------
(* The metadata service.                                                   *)

\* Phase 1, at the start of a slot.
update_voting_assignments ==
    /\ Running
    /\ slot >= next_run["assignments"] /\ slot \in config.slots
    /\ voting_assignments' = [slot |-> slot, attesters |-> duties[slot],
                              sync |-> SyncValidators]
    /\ next_run' = [next_run EXCEPT !["assignments"] = slot + 1]
    /\ UNCHANGED <<clockVars, chainVars, contexts, context_slot, context_task,
                   callVars, batchVars, slashingVars>>

\* Phase 2 wakes: a head event of the slot comes before the attestation
\* deadline, or the deadline does.
head_event_or_deadline ==
    /\ Running
    /\ slot >= next_run["context"] /\ slot \in config.slots /\ context_task = None
    /\ \E head \in IF third = 0 THEN config.heads ELSE {None} :
          context_task' = [slot |-> slot, head |-> head]
    /\ UNCHANGED <<clockVars, chainVars, next_run, voting_assignments, contexts,
                   context_slot, callVars, batchVars, slashingVars>>

\* The answers of the beacon nodes, votes for the epoch of the slot; which one
\* scores best depends on heads the model does not have.
weighted_calculation(s) == {vote \in Votes : vote.target = epoch_of(s)}

\* The node that sent the head event is asked first, and its answer taken if
\* it is for that head; otherwise all of them are asked.
fetch_attestation_data(s, head) ==
    {vote \in weighted_calculation(s) : vote.root = head} \cup weighted_calculation(s)

\* The context is published, or no beacon node answers; assignments of a
\* later slot are an error too.
update_voting_context ==
    /\ context_task # None
    /\ voting_assignments # None /\ voting_assignments.slot >= context_task.slot
    /\ \/ /\ voting_assignments.slot = context_task.slot
          /\ \E vote \in fetch_attestation_data(context_task.slot, context_task.head) :
                contexts' = [contexts EXCEPT ![context_task.slot] =
                                [assignments |-> voting_assignments, vote |-> vote,
                                 head |-> context_task.head,
                                 attesters |-> None, valid |-> {}, decided |-> None]]
          /\ context_slot' = context_task.slot
       \/ UNCHANGED <<contexts, context_slot>>
    /\ context_task' = None
    /\ next_run' = [next_run EXCEPT !["context"] = slot + 1]
    /\ UNCHANGED <<clockVars, chainVars, voting_assignments, callVars, batchVars,
                   slashingVars>>

---------------------------------------------------------------------------
(* The outgoing batches of the signature collector.                        *)

is_stale_slot(s) == s + RetainSlots < slot

\* Mutant: the record of a batch goes away with its message.
take_ready_committee_batch_forgetful(id, size, item) ==
    LET sigs == batches[id].sigs \cup {item}
        full == Cardinality(sigs) = size
    IN  /\ batches' = [batches EXCEPT ![id] = [sigs |-> IF full THEN {} ELSE sigs,
                                               sent |-> FALSE]]
        /\ wire' = IF full THEN [wire EXCEPT ![id] = Append(@, sigs)] ELSE wire
        /\ UNCHANGED validatorBatchVars

\* A committee post-consensus batch is taken once and its record kept until
\* the cleaner; the others make room for a new batch.
take_ready_committee_batch(id, size, item) ==
    LET send_once == id[1] = "post"
        sigs == batches[id].sigs \cup {item}
        full == Cardinality(sigs) = size
    IN  IF batches[id].sent \/ (send_once /\ is_stale_slot(id[2]))
        THEN UNCHANGED batchVars
        ELSE /\ batches' = [batches EXCEPT ![id] =
                               [sigs |-> IF full THEN {} ELSE sigs,
                                sent |-> full /\ send_once]]
             /\ wire' = IF full THEN [wire EXCEPT ![id] = Append(@, sigs)] ELSE wire
             /\ UNCHANGED validatorBatchVars

\* The end of process_single_validator_batch: the message is created from the
\* shares of all subnets and sent, or the sender's queue is full.
admit_validator_batch(id, record, admitted) ==
    /\ single_validator_batches' = [single_validator_batches EXCEPT ![id] =
          IF admitted THEN [record EXCEPT !.state = "Admitted"] ELSE record]
    /\ validator_wire' = IF admitted
          THEN [validator_wire EXCEPT ![id] = Append(@, record.descriptor)]
          ELSE validator_wire

\* process_single_validator_batch: the first callback of a validator sends the
\* shares of all its subnets, and a later one tries again when the queue of the
\* sender was full.  One that wants another batch than the recorded one sends
\* nothing, nor does work that comes after the cleaner.
process_single_validator_batch(id, descriptor) ==
    LET known == single_validator_batches[id]
        pending == [state |-> "Pending", descriptor |-> descriptor]
        record == IF known = NoRecord THEN pending ELSE known
    IN  IF is_stale_slot(id[2]) THEN UNCHANGED validatorBatchVars
        ELSE \E admitted \in IF record = pending THEN BOOLEAN ELSE {FALSE} :
                admit_validator_batch(id, record, admitted)

\* sync_committee_collection_mode: a single entry is a message of its own
SendValidatorShares(id, descriptor) ==
    /\ IF Cardinality(descriptor) > 1 THEN process_single_validator_batch(id, descriptor)
       ELSE /\ validator_wire' = [validator_wire EXCEPT ![id] = Append(@, descriptor)]
            /\ UNCHANGED single_validator_batches
    /\ UNCHANGED <<batches, wire>>

\* The cleaner, at the start of a slot.
remove_stale_entries ==
    /\ Running
    /\ batches' = [id \in BatchIds |-> IF is_stale_slot(id[2]) THEN NoBatch
                                       ELSE batches[id]]
    /\ single_validator_batches' =
          [id \in ValidatorBatchIds |-> IF is_stale_slot(id[2]) THEN NoRecord
                                        ELSE single_validator_batches[id]]
    /\ <<batches', single_validator_batches'>> # <<batches, single_validator_batches>>
    /\ UNCHANGED <<clockVars, chainVars, pipelineVars, callVars, wire, validator_wire,
                   slashingVars>>

---------------------------------------------------------------------------
(* The slashing protection database.                                       *)

Attestation(v, s, vote) ==
    [validator |-> v, slot |-> s, root |-> vote.root,
     index |-> IF epoch_of(s) >= GloasEpoch THEN vote.index ELSE 0,
     source |-> vote.source, target |-> vote.target]

Surrounds(a, b) == a.source < b.source /\ b.target < a.target

\* Two attestations of a validator that are slashable together.
Slashable(a, b) ==
    /\ a.validator = b.validator /\ a # b
    /\ a.target = b.target \/ Surrounds(a, b) \/ Surrounds(b, a)

\* The check of Lighthouse's database: "same" data may not be used again; an
\* attestation below every record of its validator is refused as well.
check_attestation(a, db) ==
    LET own == {b \in db : b.validator = a.validator}
    IN  IF a \in own THEN "same"
        ELSE IF \/ \E b \in own : Slashable(a, b)
                \/ own # {} /\ \A b \in own : a.source < b.source
                \/ own # {} /\ \A b \in own : a.target <= b.target
             THEN "slashable" ELSE "safe"

\* prune_slashing_protection_db, which Lighthouse calls every epoch; the
\* newest attestation and block of a validator are never pruned.
prune_slashing_protection_db ==
    LET min_target == IF epoch_of(slot) < HistoryEpochs THEN 0
                      ELSE epoch_of(slot) - HistoryEpochs
        atts == slashing_db.attestations
        blocks == slashing_db.blocks
    IN  /\ Running
        /\ epoch_of(slot) \div HistoryEpochs > last_prune \div HistoryEpochs
        /\ slashing_db' =
              [attestations |->
                  {a \in atts : \/ a.target >= min_target
                                \/ \A b \in atts : b.validator = a.validator
                                                   => b.target <= a.target},
               blocks |->
                  {a \in blocks : \/ a.slot >= min_target * SlotsPerEpoch
                                  \/ \A b \in blocks : b.slot <= a.slot}]
        /\ last_prune' = epoch_of(slot)
        /\ UNCHANGED <<clockVars, chainVars, pipelineVars, callVars, batchVars>>

---------------------------------------------------------------------------
(* Attestations and sync committee messages.                               *)

\* Mutant: a sync validator counts once per subnet, as in selection proofs.
voting_message_count_by_subnet(a) ==
    Cardinality(SelectionItems(a.attesters \cap CommitteeIndices,
                               a.sync \cap CommitteeIndices))

\* voting_message_count_for_committee
voting_message_count(a) ==
    Cardinality(ItemsOf(a.attesters \cap CommitteeIndices,
                        a.sync \cap CommitteeIndices))

\* selection_proof_count_for_committee
selection_proof_count(a) ==
    Cardinality(SelectionItems(a.attesters \cap CommitteeIndices,
                               a.sync \cap CommitteeIndices))

\* group_by_committee skips the validators it cannot serve.
group_by_committee(wanted) == {v \in wanted : Active(v)}

\* Lighthouse, from its first whole slot, calls for the duties it has now.
StartCall(kind, s, wanted, items) ==
    /\ Running /\ slot = s /\ s > booted
    /\ calls[<<kind, s>>].st = "idle" /\ kind \in config.parts
    /\ wanted # {}
    /\ calls' = [calls EXCEPT ![<<kind, s>>] =
           [NoCall EXCEPT !.st = IF items = {} THEN "done" ELSE "context",
                          !.items = items]]
    /\ UNCHANGED <<clockVars, chainVars, pipelineVars, emitted, published,
                   batchVars, slashingVars>>

sign_attestations(s) ==
    StartCall("attest", s, duties[s], ItemsOf(group_by_committee(duties[s]), {}))

sign_sync_committee_signatures(s) ==
    StartCall("sync", s, SyncValidators, ItemsOf({}, group_by_committee(SyncValidators)))

\* The attesters of the slot's snapshot that the committee has now.
get_attesting_validators_in_committee(s) ==
    contexts[s].assignments.attesters \cap CommitteeIndices

\* The await ends with the slot's context, or with a later one, an error.  The
\* first caller starts the instance, whose validator protects these attesters.
get_voting_context(c) ==
    /\ calls[c].st = "context" /\ context_slot >= c[2]
    /\ IF context_slot = c[2]
       THEN /\ calls' = [calls EXCEPT ![c].st = "consensus"]
            /\ contexts' = IF contexts[c[2]].attesters # None THEN contexts
                           ELSE [contexts EXCEPT ![c[2]].attesters =
                                    get_attesting_validators_in_committee(c[2])]
       ELSE /\ calls' = [calls EXCEPT ![c].st = "done"]
            /\ UNCHANGED contexts
    /\ UNCHANGED <<clockVars, chainVars, next_run, voting_assignments, context_slot,
                   context_task, emitted, published, batchVars, slashingVars>>

\* epoch_majority_fork_protection: checkpoints of the node's own epochs
same_epochs(s, vote) ==
    vote.source = contexts[s].vote.source /\ vote.target = contexts[s].vote.target

\* GloasBeaconVoteValidator: the payload of a block seen in this very slot
\* cannot be voted for yet
index_is_valid(s, vote) ==
    epoch_of(s) >= GloasEpoch =>
        vote.index < 2 /\ ~(vote.index = 1 /\ contexts[s].head = vote.root)

check_attestation_slashing(s, vote) ==
    \A v \in contexts[s].attesters :
        check_attestation(Attestation(v, s, vote), slashing_db.attestations) # "slashable"

\* do_validation, against the node's own vote and its slashing protection
vote_is_valid(s, vote) ==
    /\ vote.target <= epoch_of(s) + 1
    /\ vote.source < vote.target \/ (vote.source = 0 /\ vote.target = 0)
    /\ index_is_valid(s, vote)
    /\ same_epochs(s, vote)
    /\ check_attestation_slashing(s, vote)

\* A leader's proposal reaches the QBFT instance and passes its validator.
ValidateProposal(s, vote) ==
    /\ \E kind \in {"attest", "sync"} : calls[<<kind, s>>].st = "consensus"
    /\ vote \notin contexts[s].valid /\ vote_is_valid(s, vote)
    /\ contexts' = [contexts EXCEPT ![s].valid = @ \cup {vote}]
    /\ UNCHANGED <<clockVars, chainVars, next_run, voting_assignments, context_slot,
                   context_task, callVars, batchVars, slashingVars>>

\* decide_committee_vote and remember_decided_vote: both callers get the
\* decision of one instance, a validated vote; then the batch size is read.
decide_committee_vote(c) ==
    /\ calls[c].st = "consensus"
    /\ \/ \E vote \in contexts[c[2]].valid :
             /\ contexts[c[2]].decided \in {None, vote}
             /\ contexts' = [contexts EXCEPT ![c[2]].decided = vote]
             /\ calls' = [calls EXCEPT
                   ![c] = [@ EXCEPT !.st = "sign", !.left = calls[c].items,
                              !.size = voting_message_count(contexts[c[2]].assignments)]]
       \/ /\ contexts[c[2]].decided = None              \* TimedOut
          /\ calls' = [calls EXCEPT ![c].st = "done"]
          /\ UNCHANGED contexts
    /\ UNCHANGED <<clockVars, chainVars, next_run, voting_assignments, context_slot,
                   context_task, emitted, published, batchVars, slashingVars>>

\* collect_signature and the signing task of sign_and_collect; the share of a
\* validator removed by now is not found.
collect_signature(c, item) ==
    /\ calls[c].st = "sign" /\ item \in calls[c].left
    /\ IF registry[item[1]] = "removed"
       THEN /\ calls' = [calls EXCEPT ![c] = [@ EXCEPT !.left = calls[c].left \ {item},
                                                      !.items = calls[c].items \ {item}]]
            /\ UNCHANGED <<batchVars, emitted>>
       ELSE /\ calls' = [calls EXCEPT ![c].left = @ \ {item}]
            /\ take_ready_committee_batch(<<"post", c[2]>>, calls[c].size, item)
            /\ emitted' = IF c[1] = "attest"
                          THEN emitted \cup {Attestation(item[1], c[2], contexts[c[2]].decided)}
                          ELSE emitted
    /\ UNCHANGED <<clockVars, chainVars, pipelineVars, published, slashingVars>>

\* drain_signatures: each root reaches its quorum or fails by itself
drain_signatures(c, st, good) ==
    /\ calls[c].st = "sign" /\ calls[c].left = {}
    /\ calls' = [calls EXCEPT ![c] = [@ EXCEPT !.st = st, !.good = good]]
    /\ UNCHANGED <<clockVars, chainVars, pipelineVars, emitted, published,
                   batchVars, slashingVars>>

\* The ends of sign_committee_attestations, whose signatures go on to the
\* slashing protection, and of sign_committee_sync_committee_signatures.
DrainAttestations(s) ==
    \E good \in SUBSET calls[<<"attest", s>>].items :
        drain_signatures(<<"attest", s>>, IF good = {} THEN "done" ELSE "record", good)
DrainSyncMessages(s) ==
    \E good \in SUBSET calls[<<"sync", s>>].items :
        drain_signatures(<<"sync", s>>, "done", good)

\* slashing_protection_attestations: the safe ones are recorded and handed on
slashing_protection_attestations(attestations) ==
    LET safe == {a \in attestations :
                    check_attestation(a, slashing_db.attestations) = "safe"}
    IN  /\ slashing_db' = [slashing_db EXCEPT !.attestations = @ \cup safe]
        /\ published' = published \cup safe

\* The end of sign_attestations, on a blocking thread.
RecordAttestations(s) ==
    /\ calls[<<"attest", s>>].st = "record"
    /\ slashing_protection_attestations(
          {Attestation(i[1], s, contexts[s].decided) : i \in calls[<<"attest", s>>].good})
    /\ calls' = [calls EXCEPT ![<<"attest", s>>].st = "done"]
    /\ UNCHANGED <<clockVars, chainVars, pipelineVars, emitted, batchVars, last_prune>>

StoreNext ==
    \/ \E v \in Validators, to \in {"active", "liquidated", "removed"} :
          ChangeRegistry(v, to)
    \/ \E v \in Validators, from, to \in Slots : ReorgDuties(v, from, to)
    \/ update_voting_assignments
    \/ head_event_or_deadline
    \/ update_voting_context
    \/ remove_stale_entries
    \/ prune_slashing_protection_db
    \/ \E s \in Slots, vote \in Votes : ValidateProposal(s, vote)
    \/ \E c \in CallIds :
          \/ get_voting_context(c)
          \/ decide_committee_vote(c)
          \/ \E item \in Items : collect_signature(c, item)
    \/ \E s \in Slots :
          \/ sign_attestations(s)
          \/ sign_sync_committee_signatures(s)
          \/ DrainAttestations(s)
          \/ DrainSyncMessages(s)
          \/ RecordAttestations(s)
============================================================================
