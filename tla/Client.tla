------------------------------- MODULE Client -------------------------------
(***************************************************************************)
(* The duties of an operator (client/src/lib.rs): Client::run starts the   *)
(* exit processor, the duties tracker and the doppelganger check, waits    *)
(* for the contract sync and the end of the check, and then starts the     *)
(* metadata service and the duty services of Lighthouse over the validator *)
(* store.  They share the slot clock, the registry and the slashing        *)
(* protection database, which is all that outlives the process.            *)
(***************************************************************************)
EXTENDS AggregatorDuties, BlockProposal, SingleDuties, VoluntaryExits, Doppelganger,
        DutiesTracker

vars == <<clockVars, storeVars, aggregateVars, proposalVars, singleDutyVars, exitVars,
          twinVars, trackerVars>>

Init ==
    /\ ClockInit /\ StoreInit /\ AggregatorInit /\ ProposalInit
    /\ SingleInit /\ ExitsInit /\ TwinInit /\ TrackerInit

\* Client::run waits for the sync, then in monitor_blocking, and starts the
\* services as its last step.
Startup ==
    /\ SyncComplete \/ MonitorElapsed \/ MonitorDetects
    /\ IF stage' = "running" THEN StartPublishers ELSE UNCHANGED storeVars
    /\ UNCHANGED <<aggregateVars, proposalVars, singleDutyVars, exitVars, trackerVars>>

\* The process ends at any point and is started again.
Restart ==
    /\ boots < config.restarts
    /\ boots' = boots + 1 /\ stage' = "syncing" /\ booted' = slot
    /\ RestartStore /\ RestartAggregator /\ RestartProposals
    /\ RestartSingle /\ RestartExits /\ RestartTwin /\ RestartTracker
    /\ UNCHANGED <<config, now>>

Next ==
    \/ /\ Tick /\ TimersFired
       /\ UNCHANGED <<storeVars, aggregateVars, proposalVars, singleDutyVars, exitVars,
                      twinVars, trackerVars>>
    \/ Startup
    \/ Restart
    \/ /\ StoreNext
       /\ UNCHANGED <<aggregateVars, proposalVars, singleDutyVars, exitVars, twinVars,
                      trackerVars>>
    \/ /\ AggregatorNext
       /\ UNCHANGED <<proposalVars, singleDutyVars, exitVars, twinVars, trackerVars>>
    \/ /\ ProposalNext
       /\ UNCHANGED <<aggregateVars, singleDutyVars, exitVars, twinVars, trackerVars>>
    \/ /\ SingleNext
       /\ UNCHANGED <<aggregateVars, proposalVars, exitVars, twinVars, trackerVars>>
    \/ /\ ExitsNext
       /\ UNCHANGED <<storeVars, aggregateVars, proposalVars, singleDutyVars, twinVars,
                      trackerVars>>
    \/ /\ \E m \in OwnMessages : CheckMessage(m)
       /\ UNCHANGED <<storeVars, aggregateVars, proposalVars, singleDutyVars, exitVars,
                      trackerVars>>
    \/ /\ TrackerNext
       /\ UNCHANGED <<aggregateVars, proposalVars, singleDutyVars, exitVars, twinVars>>

Spec == Init /\ [][Next]_vars

---------------------------------------------------------------------------
(***************************************************************************)
(* Nothing slashable leaves the node: no two attestations handed to        *)
(* Lighthouse are slashable together, and no two blocks of a slot are      *)
(* signed, whatever the committee decides in the instances before and      *)
(* after a restart, a reorg of the duties, or a prune of the database      *)
(* (slashing_protection_attestations, sign_abstract_block,                 *)
(* prune_slashing_protection_db).                                          *)
(***************************************************************************)
NothingSlashable ==
    /\ \A a, b \in published : ~Slashable(a, b)
    /\ \A b, c \in blocks_signed : b.slot = c.slot => b = c

(***************************************************************************)
(* One message for a duty: peers take one message of a committee, or of a  *)
(* validator, for a slot and phase.  The callbacks of a slot fill the same *)
(* batch, and neither a late share, a retry after a full queue nor the     *)
(* cleaner makes a process send a second one (take_ready_committee_batch,  *)
(* process_single_validator_batch, remove_stale_entries).                  *)
(***************************************************************************)
OneMessagePerDuty ==
    /\ \A s \in Slots : Len(wire[<<"post", s>>]) <= 1 + boots
    /\ \A id \in ValidatorBatchIds : Len(validator_wire[id]) <= 1 + boots

(***************************************************************************)
(* A complete batch is sent: while registry and duties stand still, once   *)
(* both callbacks have signed all they were called for, the committee's    *)
(* message is out: the count made from the slot's assignments is the       *)
(* number of shares the two callbacks sign (voting_message_count,          *)
(* group_by_committee, collect_signature).                                 *)
(***************************************************************************)
CompleteBatchSent ==
    \A s \in Slots :
        LET done(kind) == /\ calls[<<kind, s>>].items # {}
                          /\ calls[<<kind, s>>].size > 0 /\ calls[<<kind, s>>].left = {}
            needed(kind) == IF kind = "attest" THEN duties[s] # {} ELSE SyncValidators # {}
        IN  (/\ changes = 0 /\ slot = s
             /\ \E kind \in {"attest", "sync"} : needed(kind)
             /\ \A kind \in {"attest", "sync"} : needed(kind) => done(kind))
            => wire[<<"post", s>>] # <<>>

(***************************************************************************)
(* One publisher for an aggregate: an aggregate or contribution is handed  *)
(* to the beacon nodes once by a process, by Lighthouse before the Boole   *)
(* fork or by the node's own publisher from it on, also in the slots at    *)
(* the fork (lighthouse_owns_publication, start_aggregator_post_consensus).*)
(***************************************************************************)
AggregatesOnce ==
    \A s \in Slots, i \in Items : Len(aggregates[s][i]) <= 1 + boots

\* A block that Lighthouse got from this process, and whose payload one of its
\* calls brought, in time for the envelope.
EnvelopeExpected(b) ==
    /\ Active(Proposer) /\ now < PayloadDue(b.slot)
    /\ b.slot \in Slots /\ Gloas(b.slot) /\ b.builder = "self"
    /\ b = instance[b.slot].decided
    /\ \E k \in Calls : proposals[b.slot][k].st = "published"
    /\ \E k \in Calls : /\ proposals[b.slot][k].local = b
                         /\ proposals[b.slot][k].st \in {"sign", "collect", "published"}

(***************************************************************************)
(* An envelope follows its block: Lighthouse only gets the envelope of a   *)
(* block it got before, and the callback for the payload of that block is  *)
(* not refused, though a second call of the slot may have brought another  *)
(* block of its own: the decision on record is the one that was published, *)
(* its payload is known to be here, and its share was registered with the  *)
(* block before the block could be published                               *)
(* (record_decided_block_context, sign_abstract_block,                     *)
(* sign_proposer_packet, sign_execution_payload_envelope).                 *)
(***************************************************************************)
EnvelopeServed ==
    [][\A b \in Blocks :
           /\ envelope_calls[b] = "idle" /\ envelope_calls'[b] = "refused"
              => ~EnvelopeExpected(b)
           /\ b \in envelopes' \ envelopes => <<b, "full">> \in blocks_published]_vars

(***************************************************************************)
(* "Every attestation's data is recorded (when slashing protection is      *)
(* enabled), so the slashing DB reflects locally emitted partial           *)
(* signatures" (slashing_protection_attestations): once sign_attestations  *)
(* is done, what it emitted a share of is in the database.                 *)
(***************************************************************************)
EmittedRecorded ==
    \A a \in emitted :
        calls[<<"attest", a.slot>>].st = "done" => a \in slashing_db.attestations
=============================================================================
