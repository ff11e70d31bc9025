-------------------------- MODULE MessageValidator --------------------------
(***************************************************************************)
(* The gossip message validator (anchor/message_validator) for one message *)
(* id: every rule in the order of the code, the duty state the rules read  *)
(* and update, the cleaner, the clock, and the local view of the duties,   *)
(* which is completed while messages arrive.                               *)
(*                                                                         *)
(* What the rules read of the bytes of a message and no later step looks   *)
(* at is its set of flaws: the names of the failures its encoding, its     *)
(* topic, its domain or its signatures give rise to.  No rule reads honest, *)
(* which tells the messages of operators that follow the protocol.          *)
(***************************************************************************)
EXTENDS DutyState

CONSTANTS
    Committee,          \* the committee members, in order: 1..n
    Traffic,            \* Traffic[role]: the messages that may arrive, a sequence
    InitialViews,       \* InitialViews[role]: what is known locally at first
    Validators,         \* Validators[role]: the validators of the committee
    SyncValidators,     \* the validators in the sync committee
    SyncCommitteeSize,
    DutySlots,          \* the slots of the validator's Proposer and PTC duties
    ExitSlots,          \* the slots for which an exit of the validator is tracked
    BooleEpoch,         \* the epochs at which the forks become active
    GloasEpoch,
    TicksPerSlot,
    EARLY_MESSAGE_MARGIN,   \* the margins with the clock tolerance, in ticks
    LATE_MESSAGE_MARGIN,
    QUICK_TIMEOUT,
    QUICK_TIMEOUT_THRESHOLD,
    SLOW_TIMEOUT,
    MaxTime,            \* MaxTime[role]: bound of the clock
    MaxAccepted         \* bound of how often one message is accepted

MAX_ALLOWED_ROUNDS_FUTURE == 3
SYNC_COMMITTEE_SUBNET_COUNT == 4

Scenarios == DOMAIN Traffic

ASSUME ValidatorAssumption ==
    /\ Scenarios \subseteq Roles
    /\ {TicksPerSlot, QUICK_TIMEOUT, SLOW_TIMEOUT} \subseteq Nat \ {0}
    /\ {EARLY_MESSAGE_MARGIN, LATE_MESSAGE_MARGIN, QUICK_TIMEOUT_THRESHOLD,
        SyncCommitteeSize, MaxAccepted} \subseteq Nat
    /\ EARLY_MESSAGE_MARGIN + LATE_MESSAGE_MARGIN <= TicksPerSlot
    /\ IsFiniteSet(Committee)
    /\ \A r \in Scenarios : IsFiniteSet(Validators[r]) /\ 1 \in Validators[r]

\* What decoding a message and the local view give, and the bound of the clock.
ASSUME TrafficAssumption ==
    \A r \in Scenarios :
        /\ MaxTime[r] \in Nat
        /\ \A i \in DOMAIN Traffic[r] :
              /\ Traffic[r][i].kind \in {"Consensus", "Partial"}
              /\ {Traffic[r][i].slot, Traffic[r][i].round} \subseteq Nat
        /\ \A v \in InitialViews[r] :
              v \in [registered : BOOLEAN, indices : SUBSET Validators[r],
                     fetched : SUBSET Nat, local : SUBSET Nat]

VARIABLES
    role,       \* the role of the message id
    now,        \* the clock, in ticks
    view,       \* what the registry and the duties tracker know
    operators,  \* DutyState::operators
    next_clean, \* when the cleaner runs next
    accepted    \* how often each message of the traffic was accepted

vars == <<role, now, view, operators, next_clean, accepted>>

current_slot == now \div TicksPerSlot
slot_start_time(slot) == slot * TicksPerSlot

\* CommitteeInfo::validator_indices: the indices known so far, of the
\* committee or of the validator of the id, validator 1.
validator_indices == IF is_committee_role(role) THEN view.indices ELSE view.indices \cap {1}
validator_count == Cardinality(validator_indices)
indexed == validator_indices # {}

---------------------------------------------------------------------------
(* Rules that read the message and the local view.                         *)

\* A rule: the failures it gives rise to, one or none.  Rules are put one
\* after the other, and the first failure decides.
When(condition, failure) == IF condition THEN <<failure>> ELSE <<>>

\* SignedSSVMessage::validate and the role of the id
structure_rules(m) ==
    When("WrongRSASignatureSize" \in m.flaws, "WrongRSASignatureSize")
    \o When(m.signers = {}, "NoSigners")
    \o When("DuplicatedSigner" \in m.flaws, "DuplicatedSigner")
    \o When("EmptyData" \in m.flaws, "EmptyData")
    \o When("InvalidRole" \in m.flaws, "InvalidRole")

\* The committee of the id must be in the registry.
registry_rules ==
    When(is_committee_role(role) /\ ~view.registered, "NonExistentCommitteeID")
    \o When(~view.registered, "UnknownValidator")

fork_at(slot) == IF epoch_of(slot) >= BooleEpoch THEN "Boole" ELSE "Alan"

\* validate_topic_and_domain: the subnet, the fork of the topic and the
\* domain of the id against the fork of the message's slot
validate_topic_and_domain(m) ==
    When("UnknownMessageSlot" \in m.flaws, "UnknownMessageSlot")
    \o When("IncorrectTopic" \in m.flaws, "IncorrectTopic")
    \o When(m.topic # fork_at(m.slot), "TopicForkMismatch")
    \o When(m.domain # fork_at(m.slot), "WrongDomain")

validate_role_for_fork(slot) ==
    LET boole == epoch_of(slot) >= BooleEpoch
        gloas == epoch_of(slot) >= GloasEpoch
    IN  When(role = "AggregatorCommittee" /\ ~boole, "RoleNotActiveBeforeFork")
        \o When(role \in {"Aggregator", "SyncCommittee"} /\ boole, "RoleNotActiveAfterFork")
        \o When(role = "ValidatorRegistration" /\ gloas, "RoleNotActiveAfterEthFork")
        \o When(role \in {"PTCAttester", "ProposerPreferences"} /\ ~gloas,
                "RoleNotActiveBeforeEthFork")

\* The duties tracker answers for the epochs it has fetched.
is_validator_proposer_at_slot(slot) ==
    epoch_of(slot) \in view.fetched /\ slot \in DutySlots
not_assigned(slot) ==
    epoch_of(slot) \in view.fetched /\ slot \notin DutySlots

validate_beacon_duty(m) ==
    LET tolerated ==
            /\ m.type = "RandaoPartialSig"
            /\ start_slot(epoch_of(m.slot)) = m.slot
            /\ current_slot <= m.slot
            /\ epoch_of(m.slot) \notin view.fetched
    IN  When(role = "Proposer" /\ ~tolerated /\ ~indexed, "NoShareMetadata")
        \o When(role = "Proposer" /\ ~tolerated /\ ~is_validator_proposer_at_slot(m.slot),
                "NoDuty")
        \o When(role = "ProposerPreferences" /\ not_assigned(m.slot)
                  /\ m.slot \notin view.local, "NoDuty")
        \o When(role = "PTCAttester" /\ indexed /\ not_assigned(m.slot), "NoDuty")
        \o When(role = "SyncCommittee" /\ ~indexed, "NoShareMetadata")
        \o When(role = "SyncCommittee" /\ 1 \notin SyncValidators, "NoDuty")

---------------------------------------------------------------------------
(* Rules that read the clock.                                              *)

\* The tick from which a message of a slot may arrive, but for the margin.
earliest(slot) ==
    IF role = "ProposerPreferences"
    THEN LET e == epoch_of(slot)
         IN  slot_start_time(start_slot(
                 IF e > MIN_SEED_LOOKAHEAD THEN e - MIN_SEED_LOOKAHEAD ELSE 0))
    ELSE slot_start_time(slot)

ttl == CASE role \in {"Proposer", "SyncCommittee", "PTCAttester"} -> 1 + LATE_SLOT_ALLOWANCE
         [] role = "ProposerPreferences" -> LATE_SLOT_ALLOWANCE
         [] OTHER -> SLOTS_PER_EPOCH + LATE_SLOT_ALLOWANCE

InTime(slot) ==
    /\ now >= earliest(slot) - EARLY_MESSAGE_MARGIN
    /\ now <= slot_start_time(slot + ttl) + LATE_MESSAGE_MARGIN

validate_slot_time(slot) ==
    When(now < earliest(slot) - EARLY_MESSAGE_MARGIN, "EarlySlotMessage")
    \o When(now > slot_start_time(slot + ttl) + LATE_MESSAGE_MARGIN, "LateSlotMessage")

current_estimated_round(since) ==
    LET quick == FIRST_ROUND + since \div QUICK_TIMEOUT
        slow == since - QUICK_TIMEOUT * QUICK_TIMEOUT_THRESHOLD
    IN  IF quick <= QUICK_TIMEOUT_THRESHOLD THEN quick
        ELSE QUICK_TIMEOUT_THRESHOLD + FIRST_ROUND + slow \div SLOW_TIMEOUT

highest_allowed(slot) ==
    LET since == now - slot_start_time(slot)
    IN  MAX_ALLOWED_ROUNDS_FUTURE
        + (IF since > 0 THEN current_estimated_round(since) ELSE FIRST_ROUND)

---------------------------------------------------------------------------
(* Rules that read the duty state.                                         *)

NoLimit == -1

duty_limit(r, indices, slot) ==
    LET validators == Cardinality(indices) IN
    CASE r = "VoluntaryExit" -> IF slot \in ExitSlots THEN 1 ELSE 0
      [] r \in {"Aggregator", "ValidatorRegistration", "PTCAttester"} -> 2
      [] is_committee_role(r) ->
            IF \/ /\ validators < SLOTS_PER_EPOCH \div 2
                  /\ indices \cap SyncValidators # {}
               \/ 2 * validators > SLOTS_PER_EPOCH
            THEN SLOTS_PER_EPOCH ELSE 2 * validators
      [] r = "ProposerPreferences" -> SLOTS_PER_EPOCH
      [] OTHER -> NoLimit

current_limit(slot) == duty_limit(role, validator_indices, slot)

validate_duty_count(o, slot) ==
    /\ current_limit(slot) # NoLimit
    /\ ~has_signer_state(operators[o], slot)
    /\ get_duty_count(operators[o], epoch_of(slot)) >= current_limit(slot)

\* Round-robin from the slot and the round, shifted by the epoch since Boole.
round_robin_proposer(slot, round) ==
    LET n == Cardinality(Committee)
        eth_epoch == IF fork_at(slot) = "Boole" THEN epoch_of(slot) ELSE 0
    IN  1 + (((slot % n) + round - FIRST_ROUND + eth_epoch) % n)

quorum_size == LET n == Cardinality(Committee) IN n - (n - 1) \div 3

validate_consensus_message_semantics(m) ==
    LET signers == Cardinality(m.signers)
        justified == "justifications" \in m.carries
        prepared == "prepares" \in m.carries
    IN  When(signers > 1 /\ m.type # "Commit", "NonDecidedWithMultipleSigners")
        \o When(signers > 1 /\ signers < quorum_size, "DecidedNotEnoughSigners")
        \o When(m.data # NoRoot /\ (m.type = "Prepare" \/ (m.type = "Commit" /\ signers = 1)),
                "PrepareOrCommitWithFullData")
        \o When(m.data # NoRoot /\ m.data # m.root, "InvalidHash")
        \o When(m.round = 0, "ZeroRound")
        \o When(~is_qbft_role(role), "UnexpectedConsensusMessage")
        \o When(m.round > max_round(role), "RoundTooHigh")
        \o When("MismatchedIdentifier" \in m.flaws, "MismatchedIdentifier")
        \o When(prepared /\ m.type # "Proposal", "UnexpectedPrepareJustifications")
        \o When(justified /\ m.type \notin {"Proposal", "RoundChange"},
                "UnexpectedRoundChangeJustifications")
        \o When("MalformedJustifications" \in m.flaws, "MalformedJustifications")

\* Mutant: a message of an earlier round is not stopped.
single_signer_rules_any_round(m, o) ==
    LET s == get_signer_state(operators[o], m.slot)
        heard == has_signer_state(operators[o], m.slot)
    IN  When(heard /\ m.round = s.round /\ OverLimits(s.message_counts, m),
             "DuplicatedMessage")

\* The rules for one signer of a message of one signer.
single_signer_rules(m, o) ==
    LET s == get_signer_state(operators[o], m.slot)
        heard == has_signer_state(operators[o], m.slot)
    IN  When(heard /\ m.round < s.round, "RoundAlreadyAdvanced")
        \o When(heard /\ m.round = s.round /\ m.data # NoRoot
                  /\ s.proposal_hash \notin {NoRoot, m.root}, "DifferentProposalData")
        \o When(heard /\ m.round = s.round /\ OverLimits(s.message_counts, m),
                "DuplicatedMessage")

validate_qbft_logic(m) ==
    LET single == Cardinality(m.signers) = 1
        o == CHOOSE x \in m.signers : TRUE
    IN  When(m.type = "Proposal" /\ o # round_robin_proposer(m.slot, m.round),
             "SignerNotLeader")
        \o (IF single THEN single_signer_rules(m, o)
            ELSE When(\E x \in m.signers :
                        /\ has_signer_state(operators[x], m.slot)
                        /\ m.signers \in get_signer_state(operators[x], m.slot).seen_signers,
                      "DecidedWithSameSigners"))
        \o When(single /\ m.round > highest_allowed(m.slot),
                "EstimatedRoundNotInAllowedSpread")

validate_qbft_message_by_duty_logic(m) ==
    When(~is_committee_role(role) /\ \E o \in m.signers : operators[o].max_slot > m.slot,
         "SlotAlreadyAdvanced")
    \o validate_beacon_duty(m)
    \o validate_slot_time(m.slot)
    \o When(\E o \in m.signers : validate_duty_count(o, m.slot), "ExcessiveDutyCount")

signature_rules(m) ==
    When("SignatureVerificationFailed" \in m.flaws, "SignatureVerificationFailed")

---------------------------------------------------------------------------
(* Partial signatures.                                                     *)

\* The kinds of partial signature of a role.
partial_signature_types(r) ==
    CASE r = "Committee" -> {"PostConsensus"}
      [] r = "Aggregator" -> {"PostConsensus", "SelectionProofPartialSig"}
      [] r = "Proposer" -> {"PostConsensus", "RandaoPartialSig"}
      [] r = "SyncCommittee" -> {"PostConsensus", "ContributionProofs"}
      [] r = "AggregatorCommittee" -> {"PostConsensus", "AggregatorCommitteePartialSig"}
      [] r = "ProposerPreferences" -> {"ProposerPreferences", "RequestAuth"}
      [] OTHER -> {r}

is_gloas_proposer_post(r, m) ==
    /\ r = "Proposer" /\ m.type = "PostConsensus"
    /\ epoch_of(m.slot) >= GloasEpoch

entry_validators(m) == {m.entries[i].validator : i \in DOMAIN m.entries}
occurrences(m, v) == Cardinality({i \in DOMAIN m.entries : m.entries[i].validator = v})

validate_partial_signature_message_semantics(m) ==
    LET same_validator == m.type = "RequestAuth" \/ is_gloas_proposer_post(role, m)
    IN  When(Cardinality(m.signers) # 1, "PartialSigOneSigner")
        \o When(m.data # NoRoot, "FullDataNotInConsensusMessage")
        \o When(m.type \notin partial_signature_types(role), "PartialSignatureTypeRoleMismatch")
        \o When(m.entries = <<>>, "NoPartialSignatureMessages")
        \o When("InconsistentSigners" \in m.flaws, "InconsistentSigners")
        \o When(same_validator /\ Cardinality(entry_validators(m)) > 1,
                "InconsistentValidatorIndices")
        \o When(~is_committee_role(role) /\ indexed /\ entry_validators(m) # {1},
                "ValidatorIndexMismatch")

\* Registrations end with the Gloas epoch, by the clock.
retirement_rules ==
    When(role = "ValidatorRegistration" /\ epoch_of(current_slot) > GloasEpoch,
         "ValidatorRegistrationRetired")

\* The most entries of a packet, and of one validator in it.
entry_limit(r, v, m) ==
    LET least(a, b) == IF a < b THEN a ELSE b
    IN  CASE r = "Committee" -> least(2 * v, v + SyncCommitteeSize)
          [] r = "AggregatorCommittee" ->
                least(5 * v, v + SYNC_COMMITTEE_SUBNET_COUNT * SyncCommitteeSize)
          [] r = "SyncCommittee" -> 13
          [] r = "ProposerPreferences" /\ m.type = "RequestAuth" ->
                MAX_REQUEST_AUTH_DISTINCT_ROOTS
          [] is_gloas_proposer_post(r, m) -> 2
          [] OTHER -> 1

occurrence_limit(r) ==
    CASE r = "Committee" -> 2 [] r = "AggregatorCommittee" -> 5 [] OTHER -> 13

validate_partial_sig_messages_by_duty_logic(m) ==
    LET o == CHOOSE x \in m.signers : TRUE
        op == operators[o]
    IN  When(monotonic_slot_role(role) /\ op.max_slot # 0 /\ op.max_slot > m.slot,
             "SlotAlreadyAdvanced")
        \o validate_beacon_duty(m)
        \o When(has_signer_state(op, m.slot)
                  /\ OverLimits(get_signer_state(op, m.slot).message_counts, m),
                "InvalidPartialSignatureTypeCount")
        \o validate_slot_time(m.slot)
        \o When(validate_duty_count(o, m.slot), "ExcessiveDutyCount")
        \o When(Len(m.entries) > entry_limit(role, validator_count, m),
                "TooManyPartialSignatureMessages")
        \o When(is_committee_role(role)
                  /\ \E v \in entry_validators(m) : occurrences(m, v) > occurrence_limit(role),
                "TooManyValidatorIndexOccurrences")

---------------------------------------------------------------------------
(* The verdict.                                                            *)

\* The checks in the order of validate_decoded_message and
\* validate_ssv_message, up to the update of the duty state.
consensus_rules(m) ==
    validate_role_for_fork(m.slot)
    \o validate_consensus_message_semantics(m)
    \o validate_qbft_logic(m)
    \o validate_qbft_message_by_duty_logic(m)
    \o signature_rules(m)

partial_rules(m) ==
    validate_role_for_fork(m.slot)
    \o validate_partial_signature_message_semantics(m)
    \o retirement_rules
    \o validate_partial_sig_messages_by_duty_logic(m)
    \o signature_rules(m)

First(failures) == IF failures = <<>> THEN "none" ELSE Head(failures)

\* Mutant: signatures are not verified.
check_failure_unsigned(m) ==
    LET outer == First(structure_rules(m) \o registry_rules
                       \o When(~(m.signers \subseteq Committee), "SignerNotInCommittee"))
    IN  IF outer # "none" THEN outer
        ELSE First(IF m.kind = "Consensus"
                   THEN validate_qbft_logic(m) \o validate_qbft_message_by_duty_logic(m)
                   ELSE validate_partial_sig_messages_by_duty_logic(m))

\* The failure of the checks, or "none"
check_failure(m) ==
    LET outer == First(structure_rules(m) \o registry_rules
                       \o validate_topic_and_domain(m)
                       \o When(~(m.signers \subseteq Committee), "SignerNotInCommittee")
                       \o When("UndecodableMessageData" \in m.flaws, "UndecodableMessageData"))
    IN  IF outer # "none" THEN outer
        ELSE First(IF m.kind = "Consensus" THEN consensus_rules(m) ELSE partial_rules(m))

validation_failure(m) ==
    LET failure == check_failure(m)
    IN  IF failure = "none" /\ m.kind = "Partial"
        THEN root_budget_failure(operators[CHOOSE o \in m.signers : TRUE], m)
        ELSE failure

IgnoredFailures ==
    {"WrongDomain", "NoShareMetadata", "UnknownValidator",
     "ValidatorRegistrationRetired", "EarlySlotMessage", "LateSlotMessage",
     "SlotAlreadyAdvanced", "RoundAlreadyAdvanced", "DecidedWithSameSigners",
     "IncorrectTopic", "NonExistentCommitteeID", "RoundTooHigh",
     "ValidatorIndexMismatch", "ExcessiveDutyCount", "NoDuty",
     "EstimatedRoundNotInAllowedSpread", "TooManyDistinctSigningRoots",
     "RelayedDuplicateMessage"}

\* MessageAcceptance::from
acceptance(failure) ==
    CASE failure = "none" -> "Accept"
      [] failure \in IgnoredFailures -> "Ignore"
      [] OTHER -> "Reject"

Accepts(m) == validation_failure(m) = "none"

---------------------------------------------------------------------------
(* What an operator that follows the protocol sends, and what nobody can   *)
(* send under its signature.                                               *)

\* The signatures verify: the signers have signed the message.
Verifies(m) == "SignatureVerificationFailed" \notin m.flaws

SignedBy(r, o) ==
    {Traffic[r][i] : i \in {j \in DOMAIN Traffic[r] :
        Verifies(Traffic[r][j]) /\ o \in Traffic[r][j].signers}}

\* The content of its consensus messages, a decided one included.
ProtocolConsensus(r, m) ==
    /\ is_qbft_role(r) /\ m.round \in FIRST_ROUND..max_round(r)
    /\ \/ /\ m.type = "Proposal" /\ m.data = m.root
          /\ m.signers = {round_robin_proposer(m.slot, m.round)}
       \/ /\ m.type \in {"Prepare", "Commit"} /\ m.data = NoRoot
          /\ Cardinality(m.signers) = 1 /\ m.carries = {}
       \/ /\ m.type = "RoundChange" /\ m.data \in {NoRoot, m.root}
          /\ Cardinality(m.signers) = 1 /\ m.carries \subseteq {"justifications"}
       \/ /\ m.type = "Commit" /\ m.data \in {NoRoot, m.root} /\ m.carries = {}
          /\ Cardinality(m.signers) > 1 /\ Cardinality(m.signers) >= quorum_size

\* The content of its partial signatures.
ProtocolPartial(r, m) ==
    /\ Cardinality(m.signers) = 1 /\ m.data = NoRoot
    /\ m.type \in partial_signature_types(r)
    /\ m.entries # <<>>
    /\ Len(m.entries) \in 1..entry_limit(r, Cardinality(entry_validators(m)), m)
    /\ IF is_committee_role(r)
       THEN /\ entry_validators(m) \subseteq Validators[r]
            /\ \A v \in entry_validators(m) : occurrences(m, v) \in 1..occurrence_limit(r)
       ELSE entry_validators(m) = {1}

\* It has the duty, in a slot in which the role is active.
ProtocolDuty(r, m) ==
    LET boole == epoch_of(m.slot) >= BooleEpoch
        gloas == epoch_of(m.slot) >= GloasEpoch
    IN  /\ r = "AggregatorCommittee" => boole
        /\ r \in {"Aggregator", "SyncCommittee"} => ~boole
        /\ r = "ValidatorRegistration" => ~gloas
        /\ r \in {"PTCAttester", "ProposerPreferences"} => gloas
        /\ r \in {"Proposer", "PTCAttester", "ProposerPreferences"} => m.slot \in DutySlots
        /\ r = "SyncCommittee" => 1 \in SyncValidators

\* The slots of an epoch an operator has signed for are no more than its duties.
ProtocolSlots(r, o, slot) ==
    LET limit == duty_limit(r, Validators[r], slot)
    IN  limit # NoLimit =>
            Cardinality({s \in slots_of(epoch_of(slot)) : \E a \in SignedBy(r, o) : a.slot = s})
                <= limit

\* The signing roots of the packets of a kind.
RootsOf(packets, kind) == UNION {entry_roots(a) : a \in {b \in packets : b.type = kind}}

\* What else verifies of the signers of a message, in its slot.
SentBeside(r, i) ==
    LET m == Traffic[r][i]
    IN  {Traffic[r][j] : j \in {k \in DOMAIN Traffic[r] \ {i} :
            /\ Verifies(Traffic[r][k])
            /\ Traffic[r][k].signers = m.signers /\ Traffic[r][k].slot = m.slot}}

\* It signs one message of a type in a round, one packet of a counted kind of
\* partial signatures in a slot, and few roots of the other kinds, each packet
\* with a new one.
ProtocolOnce(r, i) ==
    LET m == Traffic[r][i]
        roots == RootsOf(SentBeside(r, i) \cup {m}, m.type)
    IN  /\ \A a \in SentBeside(r, i) : CountersOf(a) \cap CountersOf(m) # {} =>
              m.kind = "Consensus" /\ a.kind = "Consensus" /\ a.round # m.round
        /\ m.type \in DOMAIN RootBudget =>
              /\ ~(entry_roots(m) \subseteq RootsOf(SentBeside(r, i), m.type))
              /\ IsFiniteSet(roots) /\ Cardinality(roots) <= RootBudget[m.type]

\* The messages that are marked honest are such messages.  A process sends
\* one message of a duty, type and round (OnePreparePerRound of Qbft and
\* OneMessagePerDuty of Client say so of this implementation), and signatures
\* are not forged.
ASSUME HonestAssumption ==
    \A r \in Scenarios : \A i \in DOMAIN Traffic[r] :
        LET m == Traffic[r][i]
        IN  m.honest =>
              /\ m.flaws = {} /\ m.signers # {} /\ m.signers \subseteq Committee
              /\ m.topic = fork_at(m.slot) /\ m.domain = fork_at(m.slot)
              /\ IF m.kind = "Consensus" THEN ProtocolConsensus(r, m) ELSE ProtocolPartial(r, m)
              /\ ProtocolDuty(r, m)
              /\ \A o \in m.signers : ProtocolSlots(r, o, m.slot)
              /\ Cardinality(m.signers) = 1 => ProtocolOnce(r, i)

---------------------------------------------------------------------------
(* Actions.                                                                *)

Init ==
    /\ role \in Scenarios
    /\ now = 0
    /\ view \in InitialViews[role]
    /\ operators = [o \in Committee |-> new_operator_state(role)]
    /\ next_clean = slot_start_time(SLOTS_PER_EPOCH) + (TicksPerSlot * 5) \div 6
    /\ accepted = [i \in DOMAIN Traffic[role] |-> 0]

message(i) == Traffic[role][i]

\* Validator::validate
Validate(i) == LET m == message(i) IN
    /\ accepted[i] < MaxAccepted
    /\ operators' =
         IF check_failure(m) # "none" THEN operators
         ELSE IF m.kind = "Consensus" THEN update_for_consensus_message(operators, m)
         ELSE [operators EXCEPT ![CHOOSE o \in m.signers : TRUE] =
                   update_for_partial_signature(@, m)]
    /\ accepted' = IF Accepts(m) THEN [accepted EXCEPT ![i] = @ + 1] ELSE accepted
    /\ UNCHANGED <<role, now, view, next_clean>>

\* cleaner: once an epoch, 5/6 into its first slot.  Duty state that is
\* outdated is dropped, and created again by the next message.
Clean ==
    /\ now >= next_clean
    /\ next_clean' =
         slot_start_time(start_slot(epoch_of(current_slot) + 1)) + (TicksPerSlot * 5) \div 6
    /\ operators' = IF outdated(operators, current_slot)
                    THEN [o \in Committee |-> new_operator_state(role)] ELSE operators
    /\ UNCHANGED <<role, now, view, accepted>>

\* The clock goes on; the cleaner is not a slot late.
Tick ==
    /\ now < MaxTime[role]
    /\ now < next_clean + TicksPerSlot
    /\ now' = now + 1
    /\ UNCHANGED <<role, view, operators, next_clean, accepted>>

\* The registry learns of the committee, or of indices of its validators:
\* set_validator_indices, with those the beacon node has.
LearnRegistry ==
    /\ \/ view' = [view EXCEPT !.registered = TRUE]
       \/ /\ view.registered
          /\ \E found \in SUBSET Validators[role] :
                view' = [view EXCEPT !.indices = @ \cup found]
    /\ UNCHANGED <<role, now, operators, next_clean, accepted>>

\* poll_beacon_proposers and poll_ptc_duties: the epochs of the clock are
\* fetched, and old ones forgotten (HISTORICAL_DUTIES_EPOCHS).
PollDuties ==
    /\ LET e == epoch_of(current_slot)
       IN  view' = [view EXCEPT !.fetched = {x \in @ \cup {e, e + 1} : x + 2 >= e}]
    /\ UNCHANGED <<role, now, operators, next_clean, accepted>>

Next ==
    \/ \E i \in DOMAIN accepted : Validate(i)
    \/ Clean \/ Tick \/ LearnRegistry \/ PollDuties

Spec == Init /\ [][Next]_vars

---------------------------------------------------------------------------
(* Properties.                                                             *)

AcceptedFrom(o) ==
    {message(i) : i \in {j \in DOMAIN accepted : accepted[j] > 0 /\ o \in message(j).signers}}

\* Types, with the ring: an entry lies at the index of its slot, no counter
\* exceeds its limit, and no slot is above the operator's highest one.
TypeOK ==
    /\ role \in Scenarios
    /\ now \in 0..MaxTime[role]
    /\ view.registered \in BOOLEAN /\ view.indices \subseteq Validators[role]
    /\ accepted \in [DOMAIN Traffic[role] -> 0..MaxAccepted]
    /\ DOMAIN operators = Committee
    /\ \A o \in Committee : \A i \in DOMAIN operators[o].state :
          LET s == operators[o].state[i]
          IN  s # NoSignerState =>
                /\ s.slot % stored_slot_count(role) = i
                /\ s.slot <= operators[o].max_slot
                /\ \A c \in Counters : s.message_counts[c] <= MAX_MESSAGES_PER_ROUND

\* The duty limit bounds what is accepted, not just what the ring happens to
\* hold: over any order of arrival, any delay the slot window admits and any
\* run of the cleaner, no operator gets messages for more slots of an epoch
\* accepted than duty_limit allows (stored_slot_count, get_duty_count).
DutyLimit ==
    current_limit(0) # NoLimit /\ role # "VoluntaryExit" =>
        \A o \in Committee : \A e \in {epoch_of(m.slot) : m \in AcceptedFrom(o)} :
            Cardinality({s \in slots_of(e) : \E m \in AcceptedFrom(o) : m.slot = s})
                <= current_limit(start_slot(e))

\* Messages that are counted.
Limited(m) ==
    /\ Cardinality(m.signers) = 1
    /\ CountersOf(m) # {}
    /\ m.kind = "Consensus" \/ ~is_qbft_role(role)

\* An operator is heard once: of one slot, round and type at most one message
\* of a single signer is accepted, once, although a higher round replaces the
\* signer's state and the cleaner drops it.  For the roles without rounds
\* this holds of partial signatures as well.
HeardOnce ==
    \A i, j \in {k \in DOMAIN accepted : accepted[k] > 0 /\ Limited(message(k))} :
        LET m1 == message(i)
            m2 == message(j)
        IN  /\ m1.signers = m2.signers /\ m1.type = m2.type
            /\ m1.slot = m2.slot /\ m1.round = m2.round
            => i = j /\ accepted[i] = 1

\* Honest messages that have not been accepted yet.
FreshHonest == {message(i) : i \in {j \in DOMAIN accepted : accepted[j] = 0 /\ message(j).honest}}

\* The round change of a leader carries its lock.  When it has to propose
\* another value, by a higher lock in the quorum, and the proposal arrives
\* first, the round change is taken for a second proposal.
Contradicted(m) ==
    /\ m.type = "RoundChange" /\ m.data # NoRoot
    /\ \E o \in m.signers : \E a \in AcceptedFrom(o) :
          a.type = "Proposal" /\ a.slot = m.slot /\ a.round = m.round /\ a.root # m.root

\* A packet for a committee of which this node knows the indices of some
\* validators, and not of all in the packet.  The entries it admits are
\* counted by the indices it knows, and when the packet has more it is a
\* Reject, although operators are not assumed to be synced on the validators
\* of a committee.
PartlyIndexed(m) ==
    /\ is_committee_role(role) /\ m.kind = "Partial"
    /\ indexed /\ ~(entry_validators(m) \subseteq view.indices)
    /\ Len(m.entries) > entry_limit(role, validator_count, m)

\* Whatever others send, sign wrongly or repeat, and whatever part of the
\* committee this node knows, the first copy of an honest operator's message
\* is not rejected, but for the round change and the packet above: its sender
\* and the peers that relay it keep their scores.
HonestNotRejected ==
    \A m \in FreshHonest :
        ~Contradicted(m) /\ ~PartlyIndexed(m) => acceptance(validation_failure(m)) # "Reject"

\* The signer itself has moved on.
Overtaken(m) ==
    \E o \in m.signers : \E a \in AcceptedFrom(o) :
        \/ a.slot = m.slot /\ a.round > m.round
        \/ a.slot > m.slot
             /\ role \notin {"Committee", "AggregatorCommittee", "ProposerPreferences"}
        \/ a.slot = m.slot /\ a.signers = m.signers /\ Cardinality(m.signers) > 1

\* The node knows the validators and the duties of the epoch.
ViewComplete(m) ==
    /\ view.registered /\ view.indices = Validators[role]
    /\ epoch_of(m.slot) \in view.fetched

\* Registrations end with Gloas.
Retired == role = "ValidatorRegistration" /\ epoch_of(current_slot) > GloasEpoch

\* An honest message that arrives in time is accepted, unless the signer was
\* heard in a later round of the slot, for a role that advances slot by slot
\* in a later slot, or proposing something else; another operator cannot
\* silence it.
HonestAccepted ==
    \A m \in FreshHonest :
        /\ InTime(m.slot) /\ ViewComplete(m) /\ ~Overtaken(m) /\ ~Contradicted(m)
        /\ ~Retired
        /\ m.kind = "Consensus" => m.round <= highest_allowed(m.slot)
        => Accepts(m)

\* The cleaner drops nothing of relevance: no message that would not have been
\* accepted is accepted once it has run (DutyState::outdated).
CleanerForgetsNothing ==
    [][Clean /\ operators' # operators
       => \A i \in DOMAIN accepted : Accepts(message(i))' => Accepts(message(i))]_vars
=============================================================================
