--------------------------- MODULE BlockProposal ---------------------------
(***************************************************************************)
(* Block proposals (validator_store/src/lib.rs): the RANDAO reveal and the *)
(* proposer delay, sign_block, which lets the operators decide a block,    *)
(* records the decision for the envelope and signs under slashing          *)
(* protection, and from Gloas sign_execution_payload_envelope.  Lighthouse *)
(* may call again for a slot, with another block of its own.               *)
(*                                                                         *)
(* A block is its root, its slot and whether its bid is the proposer's     *)
(* own ("self") or a builder's; the other bindings of a                    *)
(* DecidedBlockContext are functions of the root.                          *)
(***************************************************************************)
EXTENDS ValidatorStore

CONSTANTS
    Proposer,           \* the validator that proposes
    Blocks,             \* records of root, slot and builder
    MaxDecidedRootAge   \* MAX_DECIDED_ROOT_AGE_SLOTS

ASSUME BlocksAssumption ==
    /\ \A b \in Blocks : b.slot \in Nat
    /\ MaxDecidedRootAge \in Nat
    /\ None \notin Blocks
    /\ None \notin [block : Blocks, built_locally : BOOLEAN]

VARIABLES
    proposals,          \* the calls for a proposal slot, by slot and call
    instance,           \* the QBFT instance: the blocks it found valid, its decision
    decided_block_contexts,
    registered_envelopes, \* the envelopes the collector has a policy for: the block
                          \* of the envelope, and the block it must come with
    envelope_calls,     \* the callbacks for the envelopes of blocks
    blocks_signed,      \* blocks this operator signed a share of
    blocks_published,   \* what Lighthouse got: the block, and "full" or "blinded"
    envelopes           \* the blocks whose envelope Lighthouse got

envelopeVars == <<envelope_calls, envelopes>>
proposalVars == <<proposals, instance, decided_block_contexts, registered_envelopes,
                  blocks_signed, blocks_published, envelopeVars>>

Calls == 1 .. 2
NoProposal == [st |-> "idle", local |-> None, clock |-> 0]
NoInstance == [valid |-> {}, decided |-> None]
Gloas(s) == epoch_of(s) >= GloasEpoch
PayloadDue(s) == 3 * s + 2      \* get_payload_due, rounded to thirds

ProposalInit ==
    /\ proposals = [s \in Slots |-> [k \in Calls |-> NoProposal]]
    /\ instance = [s \in Slots |-> NoInstance]
    /\ decided_block_contexts = [s \in Slots |-> None]
    /\ registered_envelopes = {} /\ envelope_calls = [b \in Blocks |-> "idle"]
    /\ blocks_signed = {} /\ blocks_published = {} /\ envelopes = {}

RestartProposals ==
    /\ proposals' = [s \in Slots |-> [k \in Calls |-> NoProposal]]
    /\ instance' = [s \in Slots |-> NoInstance]
    /\ decided_block_contexts' = [s \in Slots |-> None]
    /\ registered_envelopes' = {} /\ envelope_calls' = [b \in Blocks |-> "idle"]
    /\ UNCHANGED <<blocks_signed, blocks_published, envelopes>>

\* The proposer delay is a floor from the slot's start.
await_proposer_delay == third >= config.proposer_delay

randao_reveal(s, k) ==
    /\ Running /\ s \in config.proposal_slots /\ slot = s
    /\ proposals[s][k].st = "idle" /\ (k > 1 => proposals[s][k - 1].st # "idle")
    /\ Active(Proposer) /\ await_proposer_delay
    /\ proposals' = [proposals EXCEPT ![s][k] =
                        [st |-> "randao", local |-> None, clock |-> slot]]
    /\ UNCHANGED <<clockVars, storeVars, instance, decided_block_contexts,
                   registered_envelopes, blocks_signed, blocks_published, envelopeVars>>

\* sign_block with the block of the local beacon node; a Gloas self-build
\* needs its payload root
sign_block(s, k) ==
    /\ Running /\ proposals[s][k].st = "randao"
    /\ \E b \in Blocks :
          /\ b.slot = s
          /\ proposals' = [proposals EXCEPT ![s][k] =
                [@ EXCEPT !.st = IF Active(Proposer) THEN "consensus" ELSE "done",
                          !.local = b]]
    /\ UNCHANGED <<clockVars, storeVars, instance, decided_block_contexts,
                   registered_envelopes, blocks_signed, blocks_published, envelopeVars>>

\* check_block_proposal of Lighthouse's database
check_block_proposal(b, db) ==
    IF b \in db THEN "same"
    ELSE IF (\E c \in db : c.slot = b.slot) \/ (db # {} /\ \A c \in db : b.slot <= c.slot)
         THEN "slashable" ELSE "safe"

\* validate_block_proposal: the slot of the duty is the slot of the block, and
\* the block is not known to be slashable
validate_block_proposal(s, b) ==
    b.slot = s /\ check_block_proposal(b, slashing_db.blocks) # "slashable"

\* do_validation of ProposerConsensusDataValidator, for a leader's proposal
do_validation(s, b) ==
    /\ \E k \in Calls : proposals[s][k].st = "consensus"
    /\ b \notin instance[s].valid /\ validate_block_proposal(s, b)
    /\ instance' = [instance EXCEPT ![s].valid = @ \cup {b}]
    /\ UNCHANGED <<clockVars, storeVars, proposals, decided_block_contexts,
                   registered_envelopes, blocks_signed, blocks_published, envelopeVars>>

\* Mutant: a later call's local block decides whether the payload is here.
Recorded_last_call(s, b, local) ==
    LET kept == [x \in Slots |-> IF x + MaxDecidedRootAge >= s
                                 THEN decided_block_contexts[x] ELSE None]
    IN  [kept EXCEPT ![s] =
            IF @ = None \/ @.block = b THEN [block |-> b, built_locally |-> local]
            ELSE @]

\* record_decided_block_context: the first decision of a slot stays; a call with
\* another local block does not take back that the payload was built here
Recorded(s, b, local) ==
    LET kept == [x \in Slots |-> IF x + MaxDecidedRootAge >= s
                                 THEN decided_block_contexts[x] ELSE None]
    IN  [kept EXCEPT ![s] =
            IF @ = None THEN [block |-> b, built_locally |-> local]
            ELSE IF @.block # b THEN @
            ELSE [block |-> b, built_locally |-> @.built_locally \/ local]]

\* same_decision: otherwise the call ends with DecidedRootConflict
same_decision(s, b) ==
    decided_block_contexts[s] = None \/ decided_block_contexts[s].block = b

\* decide_abstract_block: every call gets the one decision of the instance
decide_abstract_block(s, k) ==
    /\ proposals[s][k].st = "consensus"
    /\ \/ \E b \in instance[s].valid :
             /\ instance[s].decided \in {None, b}
             /\ instance' = [instance EXCEPT ![s].decided = b]
             /\ decided_block_contexts' =
                   IF Gloas(s) THEN Recorded(s, b, proposals[s][k].local = b)
                   ELSE decided_block_contexts
             /\ proposals' = [proposals EXCEPT ![s][k].st =
                   IF Gloas(s) => same_decision(s, b) THEN "sign" ELSE "done"]
       \/ /\ instance[s].decided = None                  \* TimedOut
          /\ proposals' = [proposals EXCEPT ![s][k].st = "done"]
          /\ UNCHANGED <<instance, decided_block_contexts>>
    /\ UNCHANGED <<clockVars, storeVars, registered_envelopes, blocks_signed,
                   blocks_published, envelopeVars>>

\* get_decided_block_context: None for a slot too old, too
get_decided_block_context(s) ==
    IF s + MaxDecidedRootAge >= slot THEN decided_block_contexts[s] ELSE None

\* Mutant: the block is checked but not recorded.
protect_block_check_only(b) ==
    /\ check_block_proposal(b, slashing_db.blocks) = "safe"
    /\ UNCHANGED slashing_db

\* check_and_insert_block_proposal
protect_block(b) ==
    /\ check_block_proposal(b, slashing_db.blocks) = "safe"
    /\ slashing_db' = [slashing_db EXCEPT !.blocks = @ \cup {b}]

\* sign_proposer_packet: the envelope of a self-built decision is registered,
\* with the block it must come with, before the block's own signature is
\* collected and the packet of both shares is sent
sign_proposer_packet(s, b) ==
    LET decided == decided_block_contexts[s].block
    IN  registered_envelopes' =
            IF Gloas(s) /\ decided.builder = "self"
            THEN registered_envelopes \cup {[envelope |-> decided, companion |-> b]}
            ELSE registered_envelopes

\* sign_abstract_block: recorded before anything is signed; from Gloas the
\* recorded decision says what the proposer packet holds
sign_abstract_block(s, k) ==
    LET b == instance[s].decided
        safe == b.slot <= proposals[s][k].clock
                /\ check_block_proposal(b, slashing_db.blocks) = "safe"
        signs == /\ safe /\ registry[Proposer] # "removed"
                 /\ Gloas(s) => get_decided_block_context(s) # None
    IN  /\ proposals[s][k].st = "sign"
        /\ IF safe THEN protect_block(b) ELSE UNCHANGED slashing_db
        /\ IF signs THEN /\ blocks_signed' = blocks_signed \cup {b}
                         /\ sign_proposer_packet(s, b)
           ELSE UNCHANGED <<blocks_signed, registered_envelopes>>
        /\ proposals' = [proposals EXCEPT ![s][k].st = IF signs THEN "collect" ELSE "done"]
        /\ UNCHANGED <<clockVars, chainVars, pipelineVars, callVars, batchVars, last_prune,
                       instance, decided_block_contexts, blocks_published, envelopeVars>>

\* Before Gloas the full block only if it is the node's own.
select_publish_block(s, b, local) ==
    IF Gloas(s) \/ local = b THEN "full" ELSE "blinded"

\* The quorum of shares comes, and Lighthouse gets the signed block.
PublishBlock(s, k) ==
    LET b == instance[s].decided
    IN  /\ proposals[s][k].st = "collect"
        /\ proposals' = [proposals EXCEPT ![s][k].st = "published"]
        /\ blocks_published' = blocks_published \cup
              {<<b, select_publish_block(s, b, proposals[s][k].local)>>}
        /\ UNCHANGED <<clockVars, storeVars, instance, decided_block_contexts,
                       registered_envelopes, blocks_signed, envelopeVars>>

\* validate_blinded and the block hash: the envelope belongs to the decision
validate_blinded(b, context) ==
    b = context.block /\ context.block.builder = "self"

\* The checks of sign_execution_payload_envelope for the payload of block b,
\* up to the registration that wait_for_registered_signature looks for.
envelope_admitted(s, b) ==
    LET context == get_decided_block_context(s)
    IN  /\ Active(Proposer)
        /\ Gloas(s) /\ b.builder = "self" /\ s <= slot
        /\ context # None
        /\ context.block.builder = "self" /\ context.built_locally
        /\ now < PayloadDue(s)
        /\ validate_blinded(b, context)
        /\ [envelope |-> b, companion |-> context.block] \in registered_envelopes

\* sign_execution_payload_envelope: Lighthouse has published the block of the
\* slot and brings the envelope that goes with a block its nodes built.
sign_execution_payload_envelope(s, b) ==
    /\ Running /\ b.slot = s /\ envelope_calls[b] = "idle"
    /\ \E k \in Calls : proposals[s][k].st = "published"
    /\ \E k \in Calls : proposals[s][k].local = b
    /\ envelope_calls' = [envelope_calls EXCEPT ![b] =
                             IF envelope_admitted(s, b) THEN "wait" ELSE "refused"]
    /\ UNCHANGED <<clockVars, storeVars, proposals, instance, decided_block_contexts,
                   registered_envelopes, blocks_signed, blocks_published, envelopes>>

\* The end of collect_within: the quorum of envelope shares comes before the
\* payload is due, or the call is given up.
EndEnvelope(b) ==
    /\ envelope_calls[b] = "wait"
    /\ \/ /\ now < PayloadDue(b.slot)
          /\ envelope_calls' = [envelope_calls EXCEPT ![b] = "served"]
          /\ envelopes' = envelopes \cup {b}
       \/ /\ now >= PayloadDue(b.slot)
          /\ envelope_calls' = [envelope_calls EXCEPT ![b] = "late"]
          /\ UNCHANGED envelopes
    /\ UNCHANGED <<clockVars, storeVars, proposals, instance, decided_block_contexts,
                   registered_envelopes, blocks_signed, blocks_published>>

ProposalNext ==
    \/ \E s \in Slots, k \in Calls :
          \/ randao_reveal(s, k)
          \/ sign_block(s, k)
          \/ decide_abstract_block(s, k)
          \/ sign_abstract_block(s, k)
          \/ PublishBlock(s, k)
    \/ \E s \in Slots, b \in Blocks :
          \/ do_validation(s, b)
          \/ sign_execution_payload_envelope(s, b)
    \/ \E b \in Blocks : EndEnvelope(b)
============================================================================
