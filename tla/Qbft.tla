------------------------------- MODULE Qbft -------------------------------
(***************************************************************************)
(* One QBFT instance (one height) run by the operators of a committee:     *)
(* anchor/common/qbft/src/lib.rs, driven the way                           *)
(* anchor/qbft_manager/src/instance.rs drives it (a completed instance     *)
(* takes no further message, and a successful one broadcasts its           *)
(* aggregated commit).                                                     *)
(*                                                                         *)
(* The network is the set of messages sent so far.  Any operator may       *)
(* receive any of them at any time, any number of times or never, so loss, *)
(* delay, reordering and duplication are all behaviours, and an operator   *)
(* that crashes is one that takes no further step.  Nothing of an instance *)
(* is persisted, so an operator whose process restarts during the slot     *)
(* joins the instance again from its initial state: Restart.  An           *)
(* operator's own messages come back to it the way the others' do          *)
(* (MessageCallback::send hands the signed message to msgs_sent_by_us,     *)
(* independently of the network).  Operators follow the code: Byzantine    *)
(* operators are not modelled.                                             *)
(***************************************************************************)
EXTENDS Integers, FiniteSets

CONSTANTS
    Operators,        \* the committee: a set of operator ids (naturals)
    Active,           \* the operators whose process runs (the others are down)
    Amnesic,          \* the operators whose process may restart, at most f
    Values,           \* the candidate data, identified with their hashes
    Start,            \* Start[o]: the data operator o would propose at first
    Valid,            \* Valid[o]: the data o's QbftDataValidator accepts
    MaxRounds,        \* Config::max_rounds (Role::max_round)
    InstanceHeight,   \* the instance's height, i.e. its slot
    SlotsPerEpoch,    \* DefaultLeaderFunction::slots_per_epoch
    IncludeEpochShift,\* DefaultLeaderFunction::include_epoch_shift (Boole)
    NoRoot,           \* Hash256::default(), also None for an Option<Hash256>
    TimedOut          \* Completed::TimedOut

\* ConfigBuilder::build and is_valid_committee_size: N = 3f + 1, f >= 1.
ASSUME CommitteeAssumption ==
    /\ Operators \subseteq Nat
    /\ IsFiniteSet(Operators)
    /\ Cardinality(Operators) > 1
    /\ (Cardinality(Operators) - 1) % 3 = 0
    /\ Active \subseteq Operators
    /\ Amnesic \subseteq Operators
    /\ Cardinality(Amnesic) <= (Cardinality(Operators) - 1) \div 3

ASSUME ValuesAssumption ==
    /\ NoRoot \notin Values
    /\ TimedOut \notin Values
    /\ NoRoot # TimedOut
    /\ Start \in [Operators -> Values]
    /\ Valid \in [Operators -> SUBSET Values]

ASSUME ConfigAssumption ==
    /\ MaxRounds \in Nat \ {0}
    /\ InstanceHeight \in Nat
    /\ SlotsPerEpoch \in Nat \ {0}
    /\ IncludeEpochShift \in BOOLEAN

VARIABLES
    start_data,             \* start_data, by its hash
    round,                  \* current_round
    st,                     \* state, without its proposal_root payload
    accepted,               \* proposal_accepted_for_current_round
    proposal_root,          \* proposal_root (and the payload of state)
    last_prepared_round,    \* 0 for None
    last_prepared_value,    \* NoRoot for None
    data,                   \* the hashes whose data this operator has seen
    propose_container,      \* the rounds a proposal is stored for
    prepare_container,      \* the stored Prepare messages
    commit_container,       \* the stored Commit messages
    round_change_container, \* the stored RoundChange messages
    completed,              \* NoRoot while running, a value, or TimedOut
    sent_proposal,          \* every message sent so far, by kind
    sent_prepare,
    sent_commit,
    sent_round_change,
    sent_decided

containers == <<propose_container, prepare_container, commit_container,
                round_change_container>>
network == <<sent_proposal, sent_prepare, sent_commit, sent_round_change,
             sent_decided>>
vars == <<start_data, round, st, accepted, proposal_root, last_prepared_round,
          last_prepared_value, data, containers, completed, network>>

---------------------------------------------------------------------------
(* The committee, its quorums and its leaders.                             *)

Rounds == 1..MaxRounds

InstanceStates ==
    {"AwaitingProposal", "Prepare", "Commit", "SentRoundChange", "Complete"}

get_f == (Cardinality(Operators) - 1) \div 3

\* Mutant: the partial quorum taken for the quorum.
quorum_size_partial == get_f + 1

quorum_size == 2 * get_f + 1

\* Qbft::has_quorum: enough distinct committee members signed one of msgs.
has_quorum(msgs) == Cardinality({m.from : m \in msgs}) >= quorum_size

\* DefaultLeaderFunction: the operator at this index of the sorted committee.
eth_epoch ==
    IF IncludeEpochShift THEN InstanceHeight \div SlotsPerEpoch ELSE 0

leader_function(o, r) ==
    Cardinality({p \in Operators : p < o})
        = (r - 1 + InstanceHeight + eth_epoch) % Cardinality(Operators)

---------------------------------------------------------------------------
(* Messages.  A justification list holds signed messages; with honest      *)
(* signers those are the messages themselves.  full tells whether          *)
(* full_data is present.  A decided message is the aggregated commit.      *)

PrepareMsg == [from : Operators, round : Rounds, root : Values]

CommitMsg == [from : Operators, round : Rounds, root : Values]

RoundChangeMsg ==
    [from : Operators, round : Rounds, data_round : 0..MaxRounds,
     root : Values \cup {NoRoot}, just : SUBSET PrepareMsg, full : BOOLEAN]

ProposalMsg ==
    [from : Operators, round : Rounds, root : Values,
     rc_just : SUBSET RoundChangeMsg, prep_just : SUBSET PrepareMsg,
     full : BOOLEAN]

DecidedMsg ==
    [signers : SUBSET Operators, round : Rounds, root : Values]

\* SignedSSVMessage::without_full_data, applied to every justification.
without_full_data(m) == [m EXCEPT !.full = FALSE]

---------------------------------------------------------------------------
(* MessageContainer: one message per sender and round.                     *)

messages_for_round(box, r) == {m \in box : m.round = r}

is_duplicate(box, m) == \E x \in box : x.round = m.round /\ x.from = m.from

\* add_message keeps the first message of a sender and round.
add_message(box, m) == IF is_duplicate(box, m) THEN box ELSE box \cup {m}

\* has_quorum(round): the value a quorum of the round's messages carries.
quorum_values(box, r) ==
    {v \in Values : has_quorum({m \in box : m.round = r /\ m.root = v})}

has_quorum_disregarding_root(box, r) == has_quorum(messages_for_round(box, r))

\* lowest_partial_quorum_above_round: the set holds the round, if there is one.
lowest_partial_quorum_above_round(box, r) ==
    LET above == {m \in box : m.round > r}
    IN  {m.round : m \in {x \in above :
            /\ Cardinality({y.from : y \in above}) >= get_f + 1
            /\ \A y \in above : x.round <= y.round}}

---------------------------------------------------------------------------
(* Justifications.                                                         *)

\* is_valid_prepare_justification_for_round_and_root, and the quorum check
\* that precedes it at each of its call sites.
justifies_prepared(prepares, r, root) ==
    /\ has_quorum(prepares)
    /\ \A p \in prepares : p.round = r /\ p.root = root

\* The check of a prepared RoundChange in received_round_change.
valid_round_change(m) ==
    m.data_round > 0 =>
        /\ m.data_round < m.round
        /\ justifies_prepared(m.just, m.data_round, m.root)

\* The RoundChange messages that claim the highest prepared round.
highest_prepared(rcs) ==
    {m \in rcs : /\ m.data_round > 0
                 /\ \A x \in rcs : x.data_round <= m.data_round}

\* Every prepared RoundChange must carry the proposal's root, so the roots
\* of all prepared ones agree with the highest prepared one.
validate_proposal_justifications(m) ==
    /\ has_quorum(m.rc_just)
    /\ \A rc \in m.rc_just :
          /\ rc.round = m.round
          /\ valid_round_change(rc)
          /\ rc.data_round > 0 => rc.root = m.root
    /\ \A rc \in highest_prepared(m.rc_just) :
          justifies_prepared(m.prep_just, rc.data_round, rc.root)

\* Mutant: the Prepares are looked up under the round just entered.
round_change_justifications_of_new_round(o) ==
    LET own == {p \in prepare_container[o] :
                   /\ p.round = round[o] + 1
                   /\ p.root = last_prepared_value[o]}
    IN  IF last_prepared_round[o] > 0 /\ has_quorum(own) THEN own ELSE {}

\* get_round_change_prepare_justifications: the Prepares behind o's lock.
round_change_prepare_justifications(o) ==
    LET own == {p \in prepare_container[o] :
                   /\ p.round = last_prepared_round[o]
                   /\ p.root = last_prepared_value[o]}
    IN  IF last_prepared_round[o] > 0 /\ has_quorum(own) THEN own ELSE {}

---------------------------------------------------------------------------
(* Starting a round as its leader.                                         *)

Proposal(o, r, v, rcs, prepares, known) ==
    [from |-> o, round |-> r, root |-> v,
     rc_just |-> {without_full_data(m) : m \in rcs},
     prep_just |-> prepares, full |-> v \in known]

\* justify_round_change_quorum: the data to propose; {} when the highest
\* prepared value's data is missing or invalid and the leader stays silent.
\* Several RoundChanges may tie, hence a set of outcomes per choice.
justified_data(o, rcs) ==
    IF highest_prepared(rcs) = {}
    THEN {{start_data[o]}}
    ELSE {{v \in {m.root} : m.full /\ v \in Valid[o]} :
             m \in highest_prepared(rcs)}

\* get_prepare_justifications: the Prepares to attach and the value they
\* override the proposal with.  The leader's own lock comes first.
prepare_justifications(o, rcs, hash) ==
    LET own == round_change_prepare_justifications(o)
    IN  IF own # {}
        THEN {[just |-> own, root |-> last_prepared_value[o]]}
        ELSE IF highest_prepared(rcs) = {}
        THEN {[just |-> {}, root |-> hash]}
        ELSE {IF has_quorum(m.just)
              THEN [just |-> m.just, root |-> m.root]
              ELSE [just |-> {}, root |-> hash] : m \in highest_prepared(rcs)}

\* send_proposal: what the leader o of round r may send, given the quorum
\* of RoundChanges rcs: a set of messages and the data it stores.
send_proposal(o, r, rcs, hash) ==
    {[msgs |-> {Proposal(o, r, j.root, rcs, j.just, data[o] \cup {hash})},
      data |-> {hash}] : j \in prepare_justifications(o, rcs, hash)}

\* start_round, once the state is no longer SentRoundChange.
start_round(o, r, rcs) ==
    IF leader_function(o, r)
    THEN UNION {IF hashes = {}
                THEN {[msgs |-> {}, data |-> {}]}
                ELSE UNION {send_proposal(o, r, rcs, h) : h \in hashes} :
                    hashes \in justified_data(o, rcs)}
    ELSE {[msgs |-> {}, data |-> {}]}

\* Mutant: the lock is dropped with the round.
RoundChangeUnlocked(o, r) ==
    [from |-> o, round |-> r, data_round |-> 0, root |-> NoRoot,
     just |-> {}, full |-> FALSE]

\* Mutant: next() is applied to the round that end_round already advanced.
RoundChangeTooFar(o, r) ==
    [from |-> o, round |-> r + 1, data_round |-> last_prepared_round[o],
     root |-> last_prepared_value[o],
     just |-> round_change_prepare_justifications(o),
     full |-> last_prepared_value[o] \in data[o]]

\* send_round_change for round r, with o's last prepared value.
RoundChange(o, r) ==
    [from |-> o, round |-> r, data_round |-> last_prepared_round[o],
     root |-> last_prepared_value[o],
     just |-> round_change_prepare_justifications(o),
     full |-> last_prepared_value[o] \in data[o]]

---------------------------------------------------------------------------
(* Qbft::new: every operator starts round 1; its leader proposes.          *)

Init ==
    /\ start_data = Start
    /\ round = [o \in Operators |-> 1]
    /\ st = [o \in Operators |-> "AwaitingProposal"]
    /\ accepted = [o \in Operators |-> FALSE]
    /\ proposal_root = [o \in Operators |-> NoRoot]
    /\ last_prepared_round = [o \in Operators |-> 0]
    /\ last_prepared_value = [o \in Operators |-> NoRoot]
    /\ data = [o \in Operators |-> {Start[o]}]
    /\ propose_container = [o \in Operators |-> {}]
    /\ prepare_container = [o \in Operators |-> {}]
    /\ commit_container = [o \in Operators |-> {}]
    /\ round_change_container = [o \in Operators |-> {}]
    /\ completed = [o \in Operators |-> NoRoot]
    /\ sent_proposal =
         {Proposal(o, 1, Start[o], {}, {}, {Start[o]}) :
             o \in {p \in Active : leader_function(p, 1)}}
    /\ sent_prepare = {}
    /\ sent_commit = {}
    /\ sent_round_change = {}
    /\ sent_decided = {}

\* Mutant: a completed instance still takes messages and timeouts.
RunningForever(o) == o \in Active

\* An instance that completed is replaced by QbftInstance::Decided.
Running(o) == o \in Active /\ st[o] # "Complete"

\* A process that restarts runs Qbft::new again, with the data its beacon
\* node gives it now; only what it sent before survives, in the network.
Restart(o) ==
    /\ o \in Active \cap Amnesic
    /\ \E v \in Values :
          /\ start_data' = [start_data EXCEPT ![o] = v]
          /\ data' = [data EXCEPT ![o] = {v}]
          /\ sent_proposal' = sent_proposal \cup
                {Proposal(p, 1, v, {}, {}, {v}) :
                    p \in {q \in {o} : leader_function(q, 1)}}
    /\ round' = [round EXCEPT ![o] = 1]
    /\ st' = [st EXCEPT ![o] = "AwaitingProposal"]
    /\ accepted' = [accepted EXCEPT ![o] = FALSE]
    /\ proposal_root' = [proposal_root EXCEPT ![o] = NoRoot]
    /\ last_prepared_round' = [last_prepared_round EXCEPT ![o] = 0]
    /\ last_prepared_value' = [last_prepared_value EXCEPT ![o] = NoRoot]
    /\ propose_container' = [propose_container EXCEPT ![o] = {}]
    /\ prepare_container' = [prepare_container EXCEPT ![o] = {}]
    /\ commit_container' = [commit_container EXCEPT ![o] = {}]
    /\ round_change_container' = [round_change_container EXCEPT ![o] = {}]
    /\ completed' = [completed EXCEPT ![o] = NoRoot]
    /\ UNCHANGED <<sent_prepare, sent_commit, sent_round_change,
                   sent_decided>>

---------------------------------------------------------------------------
(* Receiving a Proposal.                                                   *)

\* validate_message and the checks of received_propose that change nothing
\* when they fail.
admissible_proposal(o, m) ==
    /\ m.round >= round[o]
    /\ m.full /\ m.root \in Valid[o]
    /\ m.round = round[o] => st[o] = "AwaitingProposal"
    /\ leader_function(m.from, m.round)
    /\ m.round > 1 => validate_proposal_justifications(m)

\* DuplicateProposal (a round has one leader, so its round identifies a
\* stored proposal) and ProposalAlreadyReceived.
refuses_proposal(o, m) ==
    \/ m.round \in propose_container[o]
    \/ accepted[o] /\ m.round = round[o]

\* The proposal is accepted: adopt its round and root, and send a Prepare.
AcceptProposal(o, m) ==
    /\ Running(o)
    /\ admissible_proposal(o, m)
    /\ ~refuses_proposal(o, m)
    /\ data' = [data EXCEPT ![o] = @ \cup {m.root}]
    /\ propose_container' = [propose_container EXCEPT ![o] = @ \cup {m.round}]
    /\ round' = [round EXCEPT ![o] = m.round]
    /\ accepted' = [accepted EXCEPT ![o] = TRUE]
    /\ proposal_root' = [proposal_root EXCEPT ![o] = m.root]
    /\ st' = [st EXCEPT ![o] = "Prepare"]
    /\ sent_prepare' = sent_prepare \cup
          {[from |-> o, round |-> m.round, root |-> m.root]}
    /\ UNCHANGED <<start_data, last_prepared_round, last_prepared_value,
                   prepare_container, commit_container,
                   round_change_container, completed, sent_proposal,
                   sent_commit, sent_round_change, sent_decided>>

\* The proposal is refused after its data, and unless it is a duplicate the
\* message itself, were stored.
RefuseProposal(o, m) ==
    /\ Running(o)
    /\ admissible_proposal(o, m)
    /\ refuses_proposal(o, m)
    /\ data' = [data EXCEPT ![o] = @ \cup {m.root}]
    /\ propose_container' = [propose_container EXCEPT ![o] = @ \cup {m.round}]
    /\ UNCHANGED <<start_data, round, st, accepted, proposal_root,
                   last_prepared_round, last_prepared_value,
                   prepare_container, commit_container,
                   round_change_container, completed, network>>

---------------------------------------------------------------------------
(* Receiving a Prepare (only for the current round).                       *)

admissible_prepare(o, m) ==
    /\ m.round = round[o]
    /\ st[o] # "SentRoundChange"
    /\ ~is_duplicate(prepare_container[o], m)

\* The stored Prepare completes a quorum for the accepted proposal while the
\* instance is in the PREPARE state.
reaches_prepared(o, m) ==
    /\ accepted[o]
    /\ m.root = proposal_root[o]
    /\ st[o] = "Prepare"
    /\ proposal_root[o] \in
          quorum_values(prepare_container[o] \cup {m}, m.round)

\* Stored, without effect: no proposal accepted yet, another root, no quorum
\* yet, or the instance is not in the PREPARE state.
StorePrepare(o, m) ==
    /\ Running(o)
    /\ admissible_prepare(o, m)
    /\ ~reaches_prepared(o, m)
    /\ prepare_container' = [prepare_container EXCEPT ![o] = @ \cup {m}]
    /\ UNCHANGED <<start_data, round, st, accepted, proposal_root,
                   last_prepared_round, last_prepared_value, data,
                   propose_container, commit_container,
                   round_change_container, completed, network>>

\* Mutant: the prepared value is not recorded as the lock.
PrepareQuorumUnlocked(o, m) ==
    /\ Running(o)
    /\ admissible_prepare(o, m)
    /\ reaches_prepared(o, m)
    /\ prepare_container' = [prepare_container EXCEPT ![o] = @ \cup {m}]
    /\ st' = [st EXCEPT ![o] = "Commit"]
    /\ sent_commit' = sent_commit \cup
          {[from |-> o, round |-> round[o], root |-> proposal_root[o]]}
    /\ UNCHANGED <<start_data, round, accepted, proposal_root, data,
                   last_prepared_round, last_prepared_value,
                   propose_container, commit_container,
                   round_change_container, completed, sent_proposal,
                   sent_prepare, sent_round_change, sent_decided>>

\* Prepare consensus: lock the value and send a Commit for it.
PrepareQuorum(o, m) ==
    /\ Running(o)
    /\ admissible_prepare(o, m)
    /\ reaches_prepared(o, m)
    /\ prepare_container' = [prepare_container EXCEPT ![o] = @ \cup {m}]
    /\ st' = [st EXCEPT ![o] = "Commit"]
    /\ last_prepared_value' =
          [last_prepared_value EXCEPT ![o] = proposal_root[o]]
    /\ last_prepared_round' = [last_prepared_round EXCEPT ![o] = round[o]]
    /\ sent_commit' = sent_commit \cup
          {[from |-> o, round |-> round[o], root |-> proposal_root[o]]}
    /\ UNCHANGED <<start_data, round, accepted, proposal_root, data,
                   propose_container, commit_container,
                   round_change_container, completed, sent_proposal,
                   sent_prepare, sent_round_change, sent_decided>>

---------------------------------------------------------------------------
(* Receiving a Commit with one signer (only for the current round).        *)

admissible_commit(o, m) ==
    /\ m.round = round[o]
    /\ st[o] # "SentRoundChange"
    /\ accepted[o]
    /\ m.root = proposal_root[o]
    /\ ~is_duplicate(commit_container[o], m)

\* The stored Commit completes a quorum that the instance can act on: it is
\* in the PREPARE or COMMIT state and has the data to aggregate with.
reaches_committed(o, m) ==
    /\ st[o] \in {"Prepare", "Commit"}
    /\ proposal_root[o] \in data[o]
    /\ proposal_root[o] \in
          quorum_values(commit_container[o] \cup {m}, m.round)

StoreCommit(o, m) ==
    /\ Running(o)
    /\ admissible_commit(o, m)
    /\ ~reaches_committed(o, m)
    /\ commit_container' = [commit_container EXCEPT ![o] = @ \cup {m}]
    /\ UNCHANGED <<start_data, round, st, accepted, proposal_root,
                   last_prepared_round, last_prepared_value, data,
                   propose_container, prepare_container,
                   round_change_container, completed, network>>

\* aggregate_commit_messages over get_quorum_of_messages.
aggregate_commit(o, m) ==
    [signers |-> {x.from : x \in {y \in commit_container[o] \cup {m} :
                     y.round = m.round /\ y.root = proposal_root[o]}},
     round |-> m.round, root |-> proposal_root[o]]

\* Commit consensus: the instance succeeds; complete_if_done broadcasts the
\* aggregated commit.
CommitQuorum(o, m) ==
    /\ Running(o)
    /\ admissible_commit(o, m)
    /\ reaches_committed(o, m)
    /\ commit_container' = [commit_container EXCEPT ![o] = @ \cup {m}]
    /\ st' = [st EXCEPT ![o] = "Complete"]
    /\ completed' = [completed EXCEPT ![o] = proposal_root[o]]
    /\ sent_decided' = sent_decided \cup {aggregate_commit(o, m)}
    /\ UNCHANGED <<start_data, round, accepted, proposal_root,
                   last_prepared_round, last_prepared_value, data,
                   propose_container, prepare_container,
                   round_change_container, sent_proposal, sent_prepare,
                   sent_commit, sent_round_change>>

\* Mutant: the data of a decided message is not validated.
admissible_decided_unchecked(o, m) == Cardinality(m.signers) >= quorum_size

admissible_decided(o, m) ==
    /\ Cardinality(m.signers) >= quorum_size
    /\ m.root \in Valid[o]

\* received_decided: a commit signed by a quorum, for whatever round.
\* complete_if_done broadcasts the same message again.
ReceiveDecided(o, m) ==
    /\ Running(o)
    /\ admissible_decided(o, m)
    /\ data' = [data EXCEPT ![o] = @ \cup {m.root}]
    /\ st' = [st EXCEPT ![o] = "Complete"]
    /\ completed' = [completed EXCEPT ![o] = m.root]
    /\ UNCHANGED <<start_data, round, accepted, proposal_root,
                   last_prepared_round, last_prepared_value, containers,
                   network>>

---------------------------------------------------------------------------
(* Receiving a RoundChange (for the current round or a later one).         *)

\* Mutant: off by one, the current round's RoundChanges are turned down.
admissible_round_change_above(o, m) ==
    /\ m.round > round[o]
    /\ valid_round_change(m)

admissible_round_change(o, m) ==
    /\ m.round >= round[o]
    /\ valid_round_change(m)

completes_quorum(o, m) ==
    /\ ~has_quorum_disregarding_root(round_change_container[o], m.round)
    /\ has_quorum_disregarding_root(
          add_message(round_change_container[o], m), m.round)

\* The round that f + 1 operators above the current round pull o to.
partial_quorum_round(o, m) ==
    IF has_quorum_disregarding_root(round_change_container[o], m.round)
    THEN {}
    ELSE lowest_partial_quorum_above_round(
             add_message(round_change_container[o], m), round[o])

StoreRoundChange(o, m) ==
    /\ Running(o)
    /\ admissible_round_change(o, m)
    /\ ~completes_quorum(o, m)
    /\ partial_quorum_round(o, m) = {}
    /\ round_change_container' =
          [round_change_container EXCEPT ![o] = add_message(@, m)]
    /\ UNCHANGED <<start_data, round, st, accepted, proposal_root,
                   last_prepared_round, last_prepared_value, data,
                   propose_container, prepare_container, commit_container,
                   completed, network>>

\* A quorum for m.round: enter the round; its leader proposes.  The flag
\* accepted is left as it was.
RoundChangeQuorum(o, m) ==
    /\ Running(o)
    /\ admissible_round_change(o, m)
    /\ completes_quorum(o, m)
    /\ round_change_container' =
          [round_change_container EXCEPT ![o] = add_message(@, m)]
    /\ round' = [round EXCEPT ![o] = m.round]
    /\ st' = [st EXCEPT ![o] = "AwaitingProposal"]
    /\ \E out \in start_round(o, m.round, messages_for_round(
                      add_message(round_change_container[o], m), m.round)) :
          /\ sent_proposal' = sent_proposal \cup out.msgs
          /\ data' = [data EXCEPT ![o] = @ \cup out.data]
    /\ UNCHANGED <<start_data, accepted, proposal_root, last_prepared_round,
                   last_prepared_value, propose_container, prepare_container,
                   commit_container, completed, sent_prepare, sent_commit,
                   sent_round_change, sent_decided>>

\* f + 1 operators are ahead: join the lowest of their rounds.
RoundChangePartialQuorum(o, m) ==
    /\ Running(o)
    /\ admissible_round_change(o, m)
    /\ ~completes_quorum(o, m)
    /\ \E r \in partial_quorum_round(o, m) :
          /\ round' = [round EXCEPT ![o] = r]
          /\ sent_round_change' = sent_round_change \cup {RoundChange(o, r)}
    /\ round_change_container' =
          [round_change_container EXCEPT ![o] = add_message(@, m)]
    /\ st' = [st EXCEPT ![o] = "SentRoundChange"]
    /\ accepted' = [accepted EXCEPT ![o] = FALSE]
    /\ UNCHANGED <<start_data, proposal_root, last_prepared_round,
                   last_prepared_value, data, propose_container,
                   prepare_container, commit_container, completed,
                   sent_proposal, sent_prepare, sent_commit, sent_decided>>

---------------------------------------------------------------------------
(* The round timer: Qbft::end_round.                                       *)

EndRound(o) ==
    /\ Running(o)
    /\ round[o] < MaxRounds
    /\ round' = [round EXCEPT ![o] = @ + 1]
    /\ st' = [st EXCEPT ![o] = "SentRoundChange"]
    /\ accepted' = [accepted EXCEPT ![o] = FALSE]
    /\ sent_round_change' =
          sent_round_change \cup {RoundChange(o, round[o] + 1)}
    /\ UNCHANGED <<start_data, proposal_root, last_prepared_round,
                   last_prepared_value, data, containers, completed,
                   sent_proposal, sent_prepare, sent_commit, sent_decided>>

\* No round is left: the instance times out.
EndLastRound(o) ==
    /\ Running(o)
    /\ round[o] >= MaxRounds
    /\ st' = [st EXCEPT ![o] = "Complete"]
    /\ completed' = [completed EXCEPT ![o] = TimedOut]
    /\ UNCHANGED <<start_data, round, accepted, proposal_root,
                   last_prepared_round, last_prepared_value, data,
                   containers, network>>

---------------------------------------------------------------------------

Next ==
    \E o \in Operators :
        \/ \E m \in sent_proposal : AcceptProposal(o, m)
        \/ \E m \in sent_proposal : RefuseProposal(o, m)
        \/ \E m \in sent_prepare : StorePrepare(o, m)
        \/ \E m \in sent_prepare : PrepareQuorum(o, m)
        \/ \E m \in sent_commit : StoreCommit(o, m)
        \/ \E m \in sent_commit : CommitQuorum(o, m)
        \/ \E m \in sent_decided : ReceiveDecided(o, m)
        \/ \E m \in sent_round_change : StoreRoundChange(o, m)
        \/ \E m \in sent_round_change : RoundChangeQuorum(o, m)
        \/ \E m \in sent_round_change : RoundChangePartialQuorum(o, m)
        \/ EndRound(o)
        \/ EndLastRound(o)
        \/ Restart(o)

Spec == Init /\ [][Next]_vars

---------------------------------------------------------------------------
(* Correctness.                                                            *)

\* Every field of the instance has the type its Rust declaration gives it.
TypeOK ==
    /\ start_data \in [Operators -> Values]
    /\ round \in [Operators -> Rounds]
    /\ st \in [Operators -> InstanceStates]
    /\ accepted \in [Operators -> BOOLEAN]
    /\ proposal_root \in [Operators -> Values \cup {NoRoot}]
    /\ last_prepared_round \in [Operators -> 0..MaxRounds]
    /\ last_prepared_value \in [Operators -> Values \cup {NoRoot}]
    /\ data \in [Operators -> SUBSET Values]
    /\ propose_container \in [Operators -> SUBSET Rounds]
    /\ prepare_container \in [Operators -> SUBSET PrepareMsg]
    /\ commit_container \in [Operators -> SUBSET CommitMsg]
    /\ round_change_container \in [Operators -> SUBSET RoundChangeMsg]
    /\ completed \in [Operators -> Values \cup {NoRoot, TimedOut}]
    /\ sent_proposal \subseteq ProposalMsg
    /\ sent_prepare \subseteq PrepareMsg
    /\ sent_commit \subseteq CommitMsg
    /\ sent_round_change \subseteq RoundChangeMsg
    /\ sent_decided \subseteq DecidedMsg

\* The values for which a quorum of Commits of one round was ever sent.
chosen ==
    {v \in Values : \E r \in Rounds :
        has_quorum({m \in sent_commit : m.round = r /\ m.root = v})}

\* No two operators complete the instance with different data, whatever the
\* rounds they complete in and even if one of them restarted meanwhile: what
\* an operator completes with is the one value a quorum ever committed.  The
\* signing that follows consensus relies on it.
Agreement ==
    \A o \in Operators :
        completed[o] \in Values => chosen = {completed[o]}

\* An operator only completes with data that its own QbftDataValidator
\* accepts, whether it counted the commits itself or took a decided message.
DecidedIsValid ==
    \A o \in Operators : completed[o] \in Values => completed[o] \in Valid[o]

\* An operator that does not restart prepares one value per round, even when
\* a round change quorum for the round it is in arrives after it accepted the
\* proposal, or the leader restarted and proposed twice.
OnePreparePerRound ==
    \A p, q \in sent_prepare :
        (p.from = q.from /\ p.from \notin Amnesic /\ p.round = q.round)
            => p.root = q.root

\* An operator that does not restart keeps its lock: every RoundChange it
\* sends after committing in a round carries that round or a later one as its
\* data_round.
RoundChangeKeepsLock ==
    \A c \in sent_commit, rc \in sent_round_change :
        (c.from = rc.from /\ c.from \notin Amnesic /\ c.round < rc.round)
            => c.round <= rc.data_round

\* A lock can always be re-proposed: its data and a quorum of Prepares for it
\* are still held, so no RoundChange goes out unjustified.
LockIsJustified ==
    \A rc \in sent_round_change :
        rc.data_round > 0 => rc.full /\ valid_round_change(rc)

\* The instance implements the abstract Consensus: a value is chosen when the
\* Commit that completes a quorum for it is sent.
Abstract == INSTANCE Consensus WITH chosen <- chosen, completed <- completed

ImplementsConsensus == Abstract!Spec

\* Once a quorum of Prepares for the accepted proposal has arrived, its own
\* among them, the operator has sent its Commit for it: "Check if we have
\* reached a prepare quorum for this round, if so send the commit message"
\* (received_prepare).
PrepareQuorumSendsCommit ==
    \A o \in Active :
        /\ accepted[o]
        /\ st[o] \notin {"SentRoundChange", "Complete"}
        /\ proposal_root[o] \in quorum_values(prepare_container[o], round[o])
        /\ \E m \in prepare_container[o] : m.from = o /\ m.round = round[o]
        => \E m \in sent_commit :
              /\ m.from = o
              /\ m.round = round[o]
              /\ m.root = proposal_root[o]

===========================================================================
