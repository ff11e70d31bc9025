----------------------------- MODULE DutyState -----------------------------
(***************************************************************************)
(* What the message validator remembers of the operators of one duty id    *)
(* (anchor/message_validator/src/duty_state.rs, message_counts.rs): for    *)
(* each operator a ring of signer states, indexed by the slot modulo its   *)
(* length, and the highest slot it was heard in.                           *)
(*                                                                         *)
(* A message is a record with the fields kind ("Consensus" or "Partial"),  *)
(* type, signers, slot, round, root, data (the root of its full data, or   *)
(* NoRoot) and entries (of a partial signature packet: one validator and   *)
(* one signing root each).                                                 *)
(***************************************************************************)
EXTENDS Integers, Sequences, FiniteSets

CONSTANTS
    SLOTS_PER_EPOCH,
    LATE_SLOT_ALLOWANCE,
    MIN_SEED_LOOKAHEAD,
    MAX_PROPOSER_PREFERENCES_DISTINCT_ROOTS,
    MAX_REQUEST_AUTH_DISTINCT_ROOTS,
    NoRoot

ASSUME DutyStateAssumption ==
    /\ {SLOTS_PER_EPOCH, MAX_PROPOSER_PREFERENCES_DISTINCT_ROOTS,
        MAX_REQUEST_AUTH_DISTINCT_ROOTS} \subseteq Nat \ {0}
    /\ {LATE_SLOT_ALLOWANCE, MIN_SEED_LOOKAHEAD} \subseteq Nat
    /\ LATE_SLOT_ALLOWANCE <= SLOTS_PER_EPOCH
    /\ SLOTS_PER_EPOCH % 2 = 0

FIRST_ROUND == 1
MAX_MESSAGES_PER_ROUND == 1

epoch_of(slot) == slot \div SLOTS_PER_EPOCH
start_slot(epoch) == epoch * SLOTS_PER_EPOCH
slots_of(epoch) == start_slot(epoch)..(start_slot(epoch) + SLOTS_PER_EPOCH - 1)

---------------------------------------------------------------------------
(* Roles.                                                                  *)

Roles == {"Committee", "Aggregator", "Proposer", "SyncCommittee",
          "ValidatorRegistration", "VoluntaryExit", "PTCAttester",
          "ProposerPreferences", "AggregatorCommittee"}

is_committee_role(role) == role \in {"Committee", "AggregatorCommittee"}

\* The highest round of a role; 0 for the roles without consensus.
max_round(role) ==
    CASE role \in {"Committee", "Aggregator", "AggregatorCommittee"} -> 12
      [] role = "Proposer" -> 2
      [] role = "SyncCommittee" -> 6
      [] OTHER -> 0

is_qbft_role(role) == max_round(role) > 0

\* Mutant: proposer preferences are taken to advance slot by slot.
monotonic_slot_role_preferences(role) == ~is_committee_role(role)

monotonic_slot_role(role) ==
    ~is_committee_role(role) /\ role # "ProposerPreferences"

\* Mutant: only the acceptance window, not the epoch of its oldest slot.
stored_slot_count_window(role) ==
    SLOTS_PER_EPOCH + LATE_SLOT_ALLOWANCE + 1

\* The length of the ring.
stored_slot_count(role) ==
    IF role = "ProposerPreferences"
    THEN (1 + MIN_SEED_LOOKAHEAD) * SLOTS_PER_EPOCH + 2 * SLOTS_PER_EPOCH
    ELSE 2 * SLOTS_PER_EPOCH + LATE_SLOT_ALLOWANCE + 1

---------------------------------------------------------------------------
(* MessageCounts.                                                          *)

Counters == {"pre_consensus", "proposal", "prepare", "commit",
             "round_change", "post_consensus"}

\* The kinds that are bounded by their distinct signing roots instead.
RootBudget ==
    [k \in {"ProposerPreferences", "RequestAuth"} |->
        IF k = "RequestAuth" THEN MAX_REQUEST_AUTH_DISTINCT_ROOTS
        ELSE MAX_PROPOSER_PREFERENCES_DISTINCT_ROOTS]

\* The counter a message adds to, if any: a decided message (a Commit of
\* several signers) and the root-budgeted kinds have none.
CountersOf(m) ==
    CASE m.type = "Proposal" -> {"proposal"}
      [] m.type = "Prepare" -> {"prepare"}
      [] m.type = "Commit" -> IF Cardinality(m.signers) = 1 THEN {"commit"} ELSE {}
      [] m.type = "RoundChange" -> {"round_change"}
      [] m.type = "PostConsensus" -> {"post_consensus"}
      [] m.type \in DOMAIN RootBudget -> {}
      [] OTHER -> {"pre_consensus"}

\* validate_consensus_message_limits and validate_partial_signature_message
OverLimits(counts, m) ==
    \E c \in CountersOf(m) : counts[c] >= MAX_MESSAGES_PER_ROUND

\* record_consensus_message and record_partial_signature
record(counts, m) ==
    [c \in Counters |-> IF c \in CountersOf(m) THEN counts[c] + 1 ELSE counts[c]]

---------------------------------------------------------------------------
(* SignerState and OperatorState.                                          *)

new_signer_state(slot, round) ==
    [slot |-> slot, round |-> round,
     message_counts |-> [c \in Counters |-> 0],
     proposal_hash |-> NoRoot, seen_signers |-> {},
     roots |-> [k \in DOMAIN RootBudget |-> {}]]

\* An entry of the ring that is None: it belongs to no slot.
NoSignerState == [slot |-> -1]

new_operator_state(role) ==
    [state |-> [i \in 0..(stored_slot_count(role) - 1) |-> NoSignerState],
     max_slot |-> 0]

ring_index(op, slot) == slot % Cardinality(DOMAIN op.state)

get_signer_state(op, slot) == op.state[ring_index(op, slot)]
has_signer_state(op, slot) == get_signer_state(op, slot).slot = slot

get_duty_count(op, epoch) ==
    Cardinality({s \in slots_of(epoch) : has_signer_state(op, s)})

set_signer_state(op, slot, s) ==
    [state |-> [op.state EXCEPT ![ring_index(op, slot)] = s],
     max_slot |-> IF slot > op.max_slot THEN slot ELSE op.max_slot]

\* OperatorState::update and SignerState::update.  A higher round replaces
\* the state of the slot, whatever it had counted.
update(op, m) ==
    LET old == get_signer_state(op, m.slot)
        s == IF has_signer_state(op, m.slot) /\ m.round <= old.round
             THEN old ELSE new_signer_state(m.slot, m.round)
    IN  set_signer_state(op, m.slot,
            [s EXCEPT
                !.proposal_hash = IF m.data # NoRoot /\ m.type = "Proposal"
                                  THEN m.root ELSE @,
                !.seen_signers = IF Cardinality(m.signers) > 1
                                 THEN @ \cup {m.signers} ELSE @,
                !.message_counts = record(@, m)])

\* update_for_consensus_message, for the state of every operator
update_for_consensus_message(ops, m) ==
    [o \in DOMAIN ops |-> IF o \in m.signers THEN update(ops[o], m) ELSE ops[o]]

entry_roots(m) == {m.entries[i].root : i \in DOMAIN m.entries}

\* The signer state a partial signature is recorded in.
partial_state(op, m) ==
    IF has_signer_state(op, m.slot) THEN get_signer_state(op, m.slot)
    ELSE new_signer_state(m.slot, FIRST_ROUND)

\* The check of the root budget: a packet is admitted whole or not at all.
root_budget_failure(op, m) ==
    LET seen == partial_state(op, m).roots[m.type]
    IN  IF m.type \notin DOMAIN RootBudget THEN "none"
        ELSE IF entry_roots(m) \subseteq seen THEN "RelayedDuplicateMessage"
        ELSE IF Cardinality(seen \cup entry_roots(m)) > RootBudget[m.type]
             THEN "TooManyDistinctSigningRoots" ELSE "none"

\* update_for_partial_signature: the signer state is created before the
\* budget is checked, and stays when the check fails.
update_for_partial_signature(op, m) ==
    LET s == partial_state(op, m)
    IN  set_signer_state(op, m.slot,
            IF root_budget_failure(op, m) # "none" THEN s
            ELSE [s EXCEPT
                    !.roots = [k \in DOMAIN RootBudget |->
                                 IF k = m.type THEN @[k] \cup entry_roots(m) ELSE @[k]],
                    !.message_counts = record(@, m)])

\* Mutant: the slots the ring covers are not subtracted.
outdated_at_once(ops, slot) == \A o \in DOMAIN ops : ops[o].max_slot < slot

\* DutyState::outdated
outdated(ops, slot) ==
    LET count == Cardinality(DOMAIN ops[CHOOSE o \in DOMAIN ops : TRUE].state)
        earliest_relevant_slot == IF slot > count THEN slot - count ELSE 0
    IN  \A o \in DOMAIN ops : ops[o].max_slot < earliest_relevant_slot
=============================================================================
