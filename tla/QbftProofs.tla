---------------------------- MODULE QbftProofs ----------------------------
(***************************************************************************)
(* Machine-checked proofs about Qbft, for every committee, every number of *)
(* rounds and every choice of at most f operators that restart.            *)
(*                                                                         *)
(* The argument has three layers, each an invariant of Qbft!Spec:          *)
(*   TypeInv   types, and the lock an operator holds is re-provable;       *)
(*   LockInv   one Prepare per operator and round, and no RoundChange      *)
(*             forgets a Commit;                                           *)
(*   SafeInv   a Prepare of a later round carries every value an earlier   *)
(*             round could still choose.                                   *)
(* Agreement, and the refinement of Consensus, follow.                     *)
(***************************************************************************)
EXTENDS Qbft, TLAPS, FiniteSetTheorems

---------------------------------------------------------------------------
(* Quorums.                                                                *)

\* The committee has n = 3f + 1 members, so a quorum has 2f + 1.
LEMMA CommitteeSize ==
    /\ Cardinality(Operators) \in Nat
    /\ get_f \in Nat
    /\ Cardinality(Operators) = 3 * get_f + 1
    /\ quorum_size = 2 * get_f + 1
<1>1. Cardinality(Operators) \in Nat
    BY CommitteeAssumption, FS_CardinalityType
<1>2. QED
    BY <1>1, CommitteeAssumption DEF get_f, quorum_size

\* Two quorums share an operator that never restarts.
LEMMA QuorumsIntersect ==
    ASSUME NEW S \in SUBSET Operators, NEW T \in SUBSET Operators,
           Cardinality(S) >= quorum_size, Cardinality(T) >= quorum_size
    PROVE  \E o \in S \cap T : o \notin Amnesic
<1>1. IsFiniteSet(S) /\ IsFiniteSet(T) /\ IsFiniteSet(S \cap T)
    BY CommitteeAssumption, FS_Subset
<1>2. /\ Cardinality(S) \in Nat
      /\ Cardinality(T) \in Nat
      /\ Cardinality(S \cap T) \in Nat
      /\ Cardinality(S \cup T) \in Nat
    BY <1>1, FS_CardinalityType, FS_Union
<1>3. Cardinality(S \cup T)
        = Cardinality(S) + Cardinality(T) - Cardinality(S \cap T)
    BY <1>1, FS_Union
<1>4. Cardinality(S \cup T) <= Cardinality(Operators)
    BY CommitteeAssumption, FS_Subset
<1>5. Cardinality(S \cap T) >= get_f + 1
    BY <1>2, <1>3, <1>4, CommitteeSize
<1>6. SUFFICES ASSUME S \cap T \subseteq Amnesic PROVE FALSE
    OBVIOUS
<1>7. IsFiniteSet(Amnesic) /\ Cardinality(Amnesic) <= get_f
    BY CommitteeAssumption, FS_Subset DEF get_f
<1>8. Cardinality(S \cap T) <= Cardinality(Amnesic)
    BY <1>6, <1>7, FS_Subset
<1>9. Cardinality(Amnesic) \in Nat
    BY <1>7, FS_CardinalityType
<1>10. QED
    BY <1>2, <1>5, <1>7, <1>8, <1>9, CommitteeSize

\* A set of messages with a quorum of senders is not empty.
LEMMA QuorumNonEmpty ==
    ASSUME NEW S, has_quorum(S)
    PROVE  S # {}
<1>1. SUFFICES ASSUME S = {} PROVE FALSE
    OBVIOUS
<1>2. {m.from : m \in S} = {}
    BY <1>1
<1>3. Cardinality({m.from : m \in S}) = 0
    BY <1>2, FS_EmptySet
<1>4. QED
    BY <1>3, CommitteeSize DEF has_quorum

\* More messages keep a quorum.
LEMMA QuorumMonotone ==
    ASSUME NEW S, NEW T, S \subseteq T, \A m \in T : m.from \in Operators,
           has_quorum(S)
    PROVE  has_quorum(T)
<1>1. {m.from : m \in T} \in SUBSET Operators
    OBVIOUS
<1>2. {m.from : m \in S} \in SUBSET {m.from : m \in T}
    OBVIOUS
<1>3. IsFiniteSet({m.from : m \in T})
    BY <1>1, CommitteeAssumption, FS_Subset
<1>4. Cardinality({m.from : m \in S}) <= Cardinality({m.from : m \in T})
    BY <1>2, <1>3, FS_Subset
<1>5. /\ Cardinality({m.from : m \in S}) \in Nat
      /\ Cardinality({m.from : m \in T}) \in Nat
    BY <1>2, <1>3, FS_Subset, FS_CardinalityType
<1>6. QED
    BY <1>4, <1>5, CommitteeSize DEF has_quorum

\* Two quorums of messages have a common sender that never restarts.
LEMMA MessageQuorumsIntersect ==
    ASSUME NEW S, NEW T, \A m \in S \cup T : m.from \in Operators,
           has_quorum(S), has_quorum(T)
    PROVE  \E s \in S, t \in T : s.from = t.from /\ s.from \notin Amnesic
<1>1. /\ {m.from : m \in S} \in SUBSET Operators
      /\ {m.from : m \in T} \in SUBSET Operators
    OBVIOUS
<1>2. PICK o \in {m.from : m \in S} \cap {m.from : m \in T} : o \notin Amnesic
    BY <1>1, QuorumsIntersect DEF has_quorum
<1>3. QED
    BY <1>2

---------------------------------------------------------------------------
(* Layer 1: types, and locks that can be proved again.                     *)

\* A container holds messages that were sent.
ContainersSent ==
    \A o \in Operators :
        /\ prepare_container[o] \subseteq sent_prepare
        /\ commit_container[o] \subseteq sent_commit
        /\ round_change_container[o] \subseteq sent_round_change

\* The operator holds the data and a quorum of Prepares of its lock.
LockHeld ==
    \A o \in Operators :
        last_prepared_round[o] > 0 =>
            /\ last_prepared_round[o] <= round[o]
            /\ last_prepared_value[o] \in data[o]
            /\ has_quorum({p \in prepare_container[o] :
                              /\ p.round = last_prepared_round[o]
                              /\ p.root = last_prepared_value[o]})

\* An operator has, and accepts, the data of the proposal it accepted.
ProposalHeld ==
    \A o \in Operators :
        /\ accepted[o] => proposal_root[o] # NoRoot
        /\ proposal_root[o] # NoRoot =>
              proposal_root[o] \in data[o] \cap Valid[o]

TypeInv == TypeOK /\ ContainersSent /\ LockHeld /\ ProposalHeld
           /\ LockIsJustified

\* A RoundChange for a later round carries the lock and its justification.
LEMMA RoundChangeType ==
    ASSUME TypeInv, NEW o \in Operators, NEW r \in Rounds, r > round[o]
    PROVE  /\ RoundChange(o, r) \in RoundChangeMsg
           /\ RoundChange(o, r).just \subseteq sent_prepare
           /\ last_prepared_round[o] > 0 =>
                 /\ RoundChange(o, r).full
                 /\ valid_round_change(RoundChange(o, r))
<1> DEFINE own == {p \in prepare_container[o] :
                      /\ p.round = last_prepared_round[o]
                      /\ p.root = last_prepared_value[o]}
           just == round_change_prepare_justifications(o)
           rc == RoundChange(o, r)
<1>1. just \subseteq own /\ own \subseteq prepare_container[o]
    BY DEF round_change_prepare_justifications
<1>2. /\ prepare_container[o] \subseteq sent_prepare
      /\ sent_prepare \subseteq PrepareMsg
    BY DEF TypeInv, TypeOK, ContainersSent
<1>3. /\ rc.from = o /\ rc.round = r
      /\ rc.data_round = last_prepared_round[o]
      /\ rc.root = last_prepared_value[o]
      /\ rc.just = just
      /\ rc.full = (last_prepared_value[o] \in data[o])
    BY DEF RoundChange
<1>4. rc \in RoundChangeMsg
    BY <1>1, <1>2 DEF RoundChange, RoundChangeMsg, TypeInv, TypeOK
<1>5. ASSUME last_prepared_round[o] > 0
      PROVE  rc.full /\ valid_round_change(rc)
    <2>1. last_prepared_round[o] <= round[o] /\ rc.full /\ has_quorum(own)
        BY <1>3, <1>5 DEF TypeInv, LockHeld
    <2>2. just = own
        BY <1>5, <2>1 DEF round_change_prepare_justifications
    <2>3. justifies_prepared(rc.just, rc.data_round, rc.root)
        BY <1>3, <2>1, <2>2 DEF justifies_prepared
    <2>4. rc.data_round < rc.round
        BY <1>3, <2>1 DEF TypeInv, TypeOK, Rounds
    <2>5. QED
        BY <2>1, <2>3, <2>4 DEF valid_round_change
<1>6. QED
    BY <1>1, <1>2, <1>3, <1>4, <1>5

\* A prepared RoundChange that was sent names a value.
LEMMA PreparedRoundChangeValue ==
    ASSUME TypeInv, NEW m \in sent_round_change, m.data_round > 0
    PROVE  m.root \in Values
<1>1. m \in RoundChangeMsg /\ justifies_prepared(m.just, m.data_round, m.root)
    BY DEF TypeInv, TypeOK, LockIsJustified, valid_round_change
<1>2. PICK p \in m.just : p.root = m.root
    BY <1>1, QuorumNonEmpty DEF justifies_prepared
<1>3. p \in PrepareMsg
    BY <1>1 DEF RoundChangeMsg
<1>4. QED
    BY <1>2, <1>3 DEF PrepareMsg

\* What a leader sends when it starts a round with the RoundChanges rcs.
LEMMA StartRoundType ==
    ASSUME TypeInv, NEW o \in Operators, NEW r \in Rounds,
           NEW rcs \in SUBSET sent_round_change,
           NEW out \in start_round(o, r, rcs)
    PROVE  /\ out.msgs \subseteq ProposalMsg
           /\ out.data \subseteq Values
           /\ \A p \in out.msgs : \A rc \in p.rc_just :
                 \E x \in rcs : rc = without_full_data(x)
<1>1. CASE out.msgs = {} /\ out.data = {}
    BY <1>1
<1>2. CASE ~(out.msgs = {} /\ out.data = {})
    <2>1. PICK hashes \in justified_data(o, rcs) :
              \E h \in hashes : out \in send_proposal(o, r, rcs, h)
        BY <1>2 DEF start_round
    <2>2. PICK h \in hashes : out \in send_proposal(o, r, rcs, h)
        BY <2>1
    <2>3. h \in Values
        <3>1. start_data[o] \in Values /\ Valid[o] \subseteq Values
            BY ValuesAssumption DEF TypeInv, TypeOK
        <3>2. QED
            BY <2>1, <2>2, <3>1 DEF justified_data
    <2>4. PICK j \in prepare_justifications(o, rcs, h) :
              /\ out.msgs =
                    {Proposal(o, r, j.root, rcs, j.just, data[o] \cup {h})}
              /\ out.data = {h}
        BY <2>2 DEF send_proposal
    <2>5. j.root \in Values /\ j.just \in SUBSET PrepareMsg
        <3> DEFINE own == round_change_prepare_justifications(o)
        <3>1. own \subseteq {p \in prepare_container[o] :
                               p.root = last_prepared_value[o]}
            BY DEF round_change_prepare_justifications
        <3>2. prepare_container[o] \subseteq PrepareMsg
            BY DEF TypeInv, TypeOK
        <3>3. CASE own # {}
            <4>1. j.just = own /\ j.root = last_prepared_value[o]
                BY <2>4, <3>3 DEF prepare_justifications
            <4>2. QED
                BY <3>1, <3>2, <3>3, <4>1 DEF PrepareMsg
        <3>4. CASE own = {} /\ highest_prepared(rcs) = {}
            <4>1. j.just = {} /\ j.root = h
                BY <2>4, <3>4 DEF prepare_justifications
            <4>2. QED
                BY <2>3, <4>1
        <3>5. CASE own = {} /\ highest_prepared(rcs) # {}
            <4>1. PICK m \in highest_prepared(rcs) :
                      \/ j.just = m.just /\ j.root = m.root
                      \/ j.just = {} /\ j.root = h
                BY <2>4, <3>5 DEF prepare_justifications
            <4>2. m \in sent_round_change /\ m.data_round > 0
                BY DEF highest_prepared
            <4>3. m.root \in Values
                BY <4>2, PreparedRoundChangeValue
            <4>4. m.just \in SUBSET PrepareMsg
                BY <4>2 DEF TypeInv, TypeOK, RoundChangeMsg
            <4>5. QED
                BY <2>3, <4>1, <4>3, <4>4
        <3>6. QED
            BY <3>3, <3>4, <3>5
    <2>6. {without_full_data(m) : m \in rcs} \in SUBSET RoundChangeMsg
        <3>1. rcs \subseteq RoundChangeMsg
            BY DEF TypeInv, TypeOK
        <3>2. ASSUME NEW m \in RoundChangeMsg
              PROVE  without_full_data(m) \in RoundChangeMsg
            BY DEF without_full_data, RoundChangeMsg
        <3>3. QED
            BY <3>1, <3>2
    <2>7. Proposal(o, r, j.root, rcs, j.just, data[o] \cup {h}) \in ProposalMsg
        BY <2>5, <2>6 DEF Proposal, ProposalMsg
    <2>8. Proposal(o, r, j.root, rcs, j.just, data[o] \cup {h}).rc_just
            = {without_full_data(m) : m \in rcs}
        BY DEF Proposal
    <2>9. QED
        BY <2>3, <2>4, <2>7, <2>8
<1>3. QED
    BY <1>1, <1>2

\* The initial state satisfies the first layer (Qbft::new).
LEMMA TypeInvInit == Init => TypeInv
<1>1. SUFFICES ASSUME Init PROVE TypeInv
    OBVIOUS
<1>2. ASSUME NEW o \in Operators
      PROVE  Proposal(o, 1, Start[o], {}, {}, {Start[o]}) \in ProposalMsg
    <2>1. {without_full_data(m) : m \in {}} = {}
        OBVIOUS
    <2>2. Start[o] \in Values /\ 1 \in Rounds
        BY ValuesAssumption, ConfigAssumption DEF Rounds
    <2>3. QED
        BY <2>1, <2>2 DEF Proposal, ProposalMsg
<1>3. sent_proposal \subseteq ProposalMsg
    BY <1>1, <1>2, CommitteeAssumption DEF Init
<1>4. /\ data \in [Operators -> SUBSET Values]
      /\ start_data \in [Operators -> Values]
    BY <1>1, ValuesAssumption DEF Init
<1>5. TypeOK
    <2>1. /\ round \in [Operators -> Rounds]
          /\ last_prepared_round \in [Operators -> 0..MaxRounds]
        BY <1>1, ConfigAssumption DEF Init, Rounds
    <2>2. /\ st \in [Operators -> InstanceStates]
          /\ accepted \in [Operators -> BOOLEAN]
          /\ proposal_root \in [Operators -> Values \cup {NoRoot}]
          /\ last_prepared_value \in [Operators -> Values \cup {NoRoot}]
          /\ completed \in [Operators -> Values \cup {NoRoot, TimedOut}]
        BY <1>1 DEF Init, InstanceStates
    <2>3. /\ propose_container \in [Operators -> SUBSET Rounds]
          /\ prepare_container \in [Operators -> SUBSET PrepareMsg]
          /\ commit_container \in [Operators -> SUBSET CommitMsg]
          /\ round_change_container \in [Operators -> SUBSET RoundChangeMsg]
        BY <1>1 DEF Init
    <2>4. /\ sent_prepare \subseteq PrepareMsg
          /\ sent_commit \subseteq CommitMsg
          /\ sent_round_change \subseteq RoundChangeMsg
          /\ sent_decided \subseteq DecidedMsg
        BY <1>1 DEF Init
    <2>5. QED
        BY <1>3, <1>4, <2>1, <2>2, <2>3, <2>4 DEF TypeOK
<1>6. ContainersSent /\ LockHeld /\ ProposalHeld /\ LockIsJustified
    BY <1>1 DEF Init, ContainersSent, LockHeld, ProposalHeld, LockIsJustified
<1>7. QED
    BY <1>5, <1>6 DEF TypeInv

\* A step that leaves every variable of TypeInv alone preserves it.
LEMMA TypeInvStutter ==
    ASSUME TypeInv, UNCHANGED vars
    PROVE  TypeInv'
BY DEF TypeInv, vars, containers, network, TypeOK, ContainersSent, LockHeld,
       ProposalHeld, LockIsJustified

\* A lock stays held while the round and the known data only grow.
LEMMA LockHeldKept ==
    ASSUME TypeInv, TypeOK',
           UNCHANGED <<prepare_container, last_prepared_round,
                       last_prepared_value>>,
           \A q \in Operators :
               round'[q] >= round[q] /\ data[q] \subseteq data'[q]
    PROVE  LockHeld'
<1>1. SUFFICES ASSUME NEW q \in Operators, last_prepared_round[q] > 0
               PROVE  /\ last_prepared_round[q] <= round'[q]
                      /\ last_prepared_value[q] \in data'[q]
                      /\ has_quorum({p \in prepare_container[q] :
                             /\ p.round = last_prepared_round[q]
                             /\ p.root = last_prepared_value[q]})
    BY DEF LockHeld
<1>2. /\ last_prepared_round[q] <= round[q]
      /\ last_prepared_value[q] \in data[q]
      /\ has_quorum({p \in prepare_container[q] :
             /\ p.round = last_prepared_round[q]
             /\ p.root = last_prepared_value[q]})
    BY <1>1 DEF TypeInv, LockHeld
<1>3. last_prepared_round[q] \in Int /\ round[q] \in Int /\ round'[q] \in Int
    BY DEF TypeInv, TypeOK, Rounds
<1>4. QED
    BY <1>2, <1>3

\* Accepting a proposal stores its data with its root.
LEMMA TypeInvAcceptProposal ==
    ASSUME TypeInv, NEW o \in Operators, NEW m \in sent_proposal,
           AcceptProposal(o, m)
    PROVE  TypeInv'
<1> USE DEF AcceptProposal
<1>1. /\ m.round \in Rounds /\ m.root \in Values
      /\ m.round >= round[o] /\ m.root \in Valid[o]
    BY DEF TypeInv, TypeOK, ProposalMsg, admissible_proposal
<1>2. TypeOK'
    BY <1>1 DEF TypeInv, TypeOK, PrepareMsg, InstanceStates
<1>3. ContainersSent'
    BY DEF TypeInv, ContainersSent
<1>4. LockHeld'
    BY <1>1, <1>2, LockHeldKept DEF TypeInv, TypeOK, Rounds
<1>5. ProposalHeld'
    BY <1>1, ValuesAssumption DEF TypeInv, TypeOK, ProposalHeld
<1>6. LockIsJustified'
    BY DEF TypeInv, LockIsJustified
<1>7. QED
    BY <1>2, <1>3, <1>4, <1>5, <1>6 DEF TypeInv

\* Refusing a proposal only stores it.
LEMMA TypeInvRefuseProposal ==
    ASSUME TypeInv, NEW o \in Operators, NEW m \in sent_proposal,
           RefuseProposal(o, m)
    PROVE  TypeInv'
<1> USE DEF RefuseProposal, network
<1>1. m.round \in Rounds /\ m.root \in Values
    BY DEF TypeInv, TypeOK, ProposalMsg
<1>2. TypeOK'
    BY <1>1 DEF TypeInv, TypeOK
<1>3. ContainersSent' /\ LockIsJustified'
    BY DEF TypeInv, ContainersSent, LockIsJustified
<1>4. LockHeld' /\ ProposalHeld'
    BY DEF TypeInv, TypeOK, LockHeld, ProposalHeld
<1>5. QED
    BY <1>2, <1>3, <1>4 DEF TypeInv

\* A stored Prepare keeps the quorum behind a lock.
LEMMA LockHeldByMore ==
    ASSUME TypeInv, NEW o \in Operators, NEW m \in sent_prepare,
           prepare_container' =
               [prepare_container EXCEPT ![o] = @ \cup {m}],
           UNCHANGED <<round, data, last_prepared_round, last_prepared_value>>
    PROVE  LockHeld'
<1>1. SUFFICES ASSUME NEW q \in Operators, last_prepared_round[q] > 0
               PROVE  has_quorum({p \in prepare_container'[q] :
                              /\ p.round = last_prepared_round[q]
                              /\ p.root = last_prepared_value[q]})
    BY DEF TypeInv, LockHeld
<1> DEFINE before == {p \in prepare_container[q] :
                         /\ p.round = last_prepared_round[q]
                         /\ p.root = last_prepared_value[q]}
           after == {p \in prepare_container'[q] :
                         /\ p.round = last_prepared_round[q]
                         /\ p.root = last_prepared_value[q]}
<1>2. has_quorum(before)
    BY <1>1 DEF TypeInv, LockHeld
<1>3. prepare_container'[q] \subseteq PrepareMsg
    BY DEF TypeInv, TypeOK
<1>4. before \subseteq after /\ \A p \in after : p.from \in Operators
    BY <1>3 DEF TypeInv, TypeOK, PrepareMsg
<1>5. QED
    BY <1>2, <1>4, QuorumMonotone

\* Storing a Prepare never takes one away from behind a lock.
LEMMA TypeInvStorePrepare ==
    ASSUME TypeInv, NEW o \in Operators, NEW m \in sent_prepare,
           StorePrepare(o, m)
    PROVE  TypeInv'
<1> USE DEF StorePrepare, network
<1>1. TypeOK'
    BY DEF TypeInv, TypeOK
<1>2. ContainersSent' /\ LockIsJustified' /\ ProposalHeld'
    BY DEF TypeInv, TypeOK, ContainersSent, LockIsJustified, ProposalHeld
<1>3. LockHeld'
    BY LockHeldByMore
<1>4. QED
    BY <1>1, <1>2, <1>3 DEF TypeInv

\* A new lock is taken with its data and its quorum of Prepares at hand.
LEMMA TypeInvPrepareQuorum ==
    ASSUME TypeInv, NEW o \in Operators, NEW m \in sent_prepare,
           PrepareQuorum(o, m)
    PROVE  TypeInv'
<1> USE DEF PrepareQuorum
<1> DEFINE v == proposal_root[o]
           box == prepare_container[o] \cup {m}
<1>1. /\ m.round = round[o] /\ v \in Values
      /\ v \in data[o]
      /\ has_quorum({p \in box : p.round = round[o] /\ p.root = v})
    BY DEF admissible_prepare, reaches_prepared, quorum_values, TypeInv,
           ProposalHeld
<1>2. TypeOK'
    BY <1>1 DEF TypeInv, TypeOK, CommitMsg, InstanceStates, Rounds
<1>3. ContainersSent' /\ LockIsJustified' /\ ProposalHeld'
    BY DEF TypeInv, TypeOK, ContainersSent, LockIsJustified, ProposalHeld
<1>4. LockHeld'
    <2>1. SUFFICES ASSUME NEW q \in Operators, last_prepared_round'[q] > 0
                   PROVE  /\ last_prepared_round'[q] <= round'[q]
                          /\ last_prepared_value'[q] \in data'[q]
                          /\ has_quorum({p \in prepare_container'[q] :
                                 /\ p.round = last_prepared_round'[q]
                                 /\ p.root = last_prepared_value'[q]})
        BY DEF LockHeld
    <2>2. CASE q = o
        <3>1. /\ prepare_container'[q] = box
              /\ last_prepared_round'[q] = round[o] /\ round'[q] = round[o]
              /\ last_prepared_value'[q] = v /\ data'[q] = data[o]
            BY <2>2 DEF TypeInv, TypeOK
        <3>2. round[o] <= round[o]
            BY DEF TypeInv, TypeOK, Rounds
        <3>3. QED
            BY <1>1, <3>1, <3>2
    <2>3. CASE q # o
        <3>1. /\ prepare_container'[q] = prepare_container[q]
              /\ last_prepared_round'[q] = last_prepared_round[q]
              /\ last_prepared_value'[q] = last_prepared_value[q]
              /\ data'[q] = data[q] /\ round'[q] = round[q]
            BY <2>3 DEF TypeInv, TypeOK
        <3>2. QED
            BY <2>1, <3>1 DEF TypeInv, LockHeld
    <2>4. QED
        BY <2>2, <2>3
<1>5. QED
    BY <1>2, <1>3, <1>4 DEF TypeInv

\* Counting Commits leaves locks alone.
LEMMA TypeInvCommit ==
    ASSUME TypeInv, NEW o \in Operators, NEW m \in sent_commit,
           StoreCommit(o, m) \/ CommitQuorum(o, m)
    PROVE  TypeInv'
<1>1. CASE StoreCommit(o, m)
    <2> USE <1>1 DEF StoreCommit, network
    <2>1. TypeOK'
        BY DEF TypeInv, TypeOK
    <2>2. LockHeld'
        BY <2>1, LockHeldKept DEF TypeInv, TypeOK, Rounds
    <2>3. QED
        BY <2>1, <2>2 DEF TypeInv, TypeOK, ContainersSent, ProposalHeld,
                          LockIsJustified
<1>2. CASE CommitQuorum(o, m)
    <2> USE <1>2 DEF CommitQuorum
    <2>1. m.round \in Rounds /\ proposal_root[o] \in Values
        BY DEF TypeInv, TypeOK, CommitMsg, reaches_committed
    <2>2. aggregate_commit(o, m) \in DecidedMsg
        <3>1. commit_container[o] \cup {m} \subseteq CommitMsg
            BY DEF TypeInv, TypeOK
        <3>2. QED
            BY <2>1, <3>1 DEF aggregate_commit, DecidedMsg, CommitMsg
    <2>3. TypeOK'
        BY <2>1, <2>2 DEF TypeInv, TypeOK, InstanceStates
    <2>4. QED
        BY <2>3 DEF TypeInv, TypeOK, ContainersSent, LockHeld, ProposalHeld,
                    LockIsJustified
<1>3. QED
    BY <1>1, <1>2

\* Completing from a decided message leaves locks alone.
LEMMA TypeInvReceiveDecided ==
    ASSUME TypeInv, NEW o \in Operators, NEW m \in sent_decided,
           ReceiveDecided(o, m)
    PROVE  TypeInv'
<1> USE DEF ReceiveDecided, containers, network
<1>1. m.root \in Values
    BY DEF TypeInv, TypeOK, DecidedMsg
<1>2. TypeOK'
    BY <1>1 DEF TypeInv, TypeOK, InstanceStates
<1>3. LockHeld'
    BY <1>2, LockHeldKept DEF TypeInv, TypeOK, Rounds
<1>4. QED
    BY <1>2, <1>3 DEF TypeInv, TypeOK, ContainersSent, ProposalHeld,
                      LockIsJustified

\* The container of RoundChanges after a message arrived.
LEMMA AddMessage ==
    ASSUME NEW box, NEW m
    PROVE  /\ box \subseteq add_message(box, m)
           /\ add_message(box, m) \subseteq box \cup {m}
BY DEF add_message

\* Counting RoundChanges, starting a round and joining one keep locks.
LEMMA TypeInvRoundChange ==
    ASSUME TypeInv, NEW o \in Operators, NEW m \in sent_round_change,
           \/ StoreRoundChange(o, m)
           \/ RoundChangeQuorum(o, m)
           \/ RoundChangePartialQuorum(o, m)
    PROVE  TypeInv'
<1> DEFINE box == add_message(round_change_container[o], m)
<1>1. /\ box \subseteq sent_round_change
      /\ sent_round_change \subseteq RoundChangeMsg
    BY AddMessage DEF TypeInv, TypeOK, ContainersSent
<1>2. m.round \in Rounds
    BY DEF TypeInv, TypeOK, RoundChangeMsg
<1>3. CASE StoreRoundChange(o, m)
    <2> USE <1>3 DEF StoreRoundChange, network
    <2>1. TypeOK'
        BY <1>1 DEF TypeInv, TypeOK
    <2>2. LockHeld'
        BY <2>1, LockHeldKept DEF TypeInv, TypeOK, Rounds
    <2>3. ContainersSent'
        BY <1>1 DEF TypeInv, TypeOK, ContainersSent
    <2>4. QED
        BY <2>1, <2>2, <2>3 DEF TypeInv, ProposalHeld, LockIsJustified
<1>4. CASE RoundChangeQuorum(o, m)
    <2> USE <1>4 DEF RoundChangeQuorum
    <2> DEFINE rcs == messages_for_round(box, m.round)
    <2>1. PICK out \in start_round(o, m.round, rcs) :
              /\ sent_proposal' = sent_proposal \cup out.msgs
              /\ data' = [data EXCEPT ![o] = @ \cup out.data]
        OBVIOUS
    <2>2. rcs \in SUBSET sent_round_change
        BY <1>1 DEF messages_for_round
    <2>3. out.msgs \subseteq ProposalMsg /\ out.data \subseteq Values
        BY <1>2, <2>1, <2>2, StartRoundType
    <2>4. TypeOK'
        BY <1>1, <1>2, <2>1, <2>3 DEF TypeInv, TypeOK, InstanceStates
    <2>5. LockHeld'
        BY <2>1, <2>4, LockHeldKept
        DEF TypeInv, TypeOK, Rounds, admissible_round_change
    <2>6. ContainersSent'
        BY <1>1 DEF TypeInv, TypeOK, ContainersSent
    <2>7. ProposalHeld'
        BY <2>1 DEF TypeInv, TypeOK, ProposalHeld
    <2>8. QED
        BY <2>4, <2>5, <2>6, <2>7 DEF TypeInv, LockIsJustified
<1>5. CASE RoundChangePartialQuorum(o, m)
    <2> USE <1>5 DEF RoundChangePartialQuorum
    <2>1. PICK r \in partial_quorum_round(o, m) :
              /\ round' = [round EXCEPT ![o] = r]
              /\ sent_round_change' =
                    sent_round_change \cup {RoundChange(o, r)}
        OBVIOUS
    <2>2. r \in Rounds /\ r > round[o]
        <3>1. r \in lowest_partial_quorum_above_round(box, round[o])
            BY DEF partial_quorum_round
        <3>2. PICK x \in box : r = x.round /\ x.round > round[o]
            BY <3>1 DEF lowest_partial_quorum_above_round
        <3>3. QED
            BY <1>1, <3>2 DEF RoundChangeMsg
    <2>3. /\ RoundChange(o, r) \in RoundChangeMsg
          /\ last_prepared_round[o] > 0 =>
                /\ RoundChange(o, r).full
                /\ valid_round_change(RoundChange(o, r))
        BY <2>2, RoundChangeType
    <2>4. TypeOK'
        BY <1>1, <2>1, <2>2, <2>3 DEF TypeInv, TypeOK, InstanceStates
    <2>5. LockHeld'
        BY <2>1, <2>2, <2>4, LockHeldKept DEF TypeInv, TypeOK, Rounds
    <2>6. ContainersSent'
        BY <1>1, <2>1 DEF TypeInv, TypeOK, ContainersSent
    <2>7. ProposalHeld'
        BY DEF TypeInv, TypeOK, ProposalHeld
    <2>8. RoundChange(o, r).data_round = last_prepared_round[o]
        BY DEF RoundChange
    <2>9. LockIsJustified'
        BY <2>1, <2>3, <2>8 DEF TypeInv, LockIsJustified
    <2>10. QED
        BY <2>4, <2>5, <2>6, <2>7, <2>9 DEF TypeInv
<1>6. QED
    BY <1>3, <1>4, <1>5

\* A round timeout sends a justified RoundChange.
LEMMA TypeInvEndRound ==
    ASSUME TypeInv, NEW o \in Operators, EndRound(o)
    PROVE  TypeInv'
<1> USE DEF EndRound, containers
<1> DEFINE rc == RoundChange(o, round[o] + 1)
<1>1. round[o] + 1 \in Rounds /\ round[o] + 1 > round[o]
    BY ConfigAssumption DEF TypeInv, TypeOK, Rounds
<1>2. /\ rc \in RoundChangeMsg
      /\ last_prepared_round[o] > 0 => rc.full /\ valid_round_change(rc)
    BY <1>1, RoundChangeType
<1>3. TypeOK'
    BY <1>1, <1>2 DEF TypeInv, TypeOK, InstanceStates
<1>4. LockHeld'
    BY <1>1, <1>3, LockHeldKept DEF TypeInv, TypeOK, Rounds
<1>5. ContainersSent' /\ ProposalHeld'
    BY DEF TypeInv, TypeOK, ContainersSent, ProposalHeld
<1>6. rc.data_round = last_prepared_round[o]
    BY DEF RoundChange
<1>7. LockIsJustified'
    BY <1>2, <1>6 DEF TypeInv, LockIsJustified
<1>8. QED
    BY <1>3, <1>4, <1>5, <1>7 DEF TypeInv

\* The last timeout only completes the instance.
LEMMA TypeInvEndLastRound ==
    ASSUME TypeInv, NEW o \in Operators, EndLastRound(o)
    PROVE  TypeInv'
<1> USE DEF EndLastRound, containers, network
<1>1. TypeOK'
    BY DEF TypeInv, TypeOK, InstanceStates
<1>2. LockHeld'
    BY <1>1, LockHeldKept DEF TypeInv, TypeOK, Rounds
<1>3. QED
    BY <1>1, <1>2 DEF TypeInv, ContainersSent, ProposalHeld, LockIsJustified

\* A restarted operator has no lock.
LEMMA TypeInvRestart ==
    ASSUME TypeInv, NEW o \in Operators, Restart(o)
    PROVE  TypeInv'
<1> USE DEF Restart
<1>1. PICK v \in Values :
          /\ start_data' = [start_data EXCEPT ![o] = v]
          /\ data' = [data EXCEPT ![o] = {v}]
          /\ sent_proposal' = sent_proposal \cup
                {Proposal(p, 1, v, {}, {}, {v}) :
                    p \in {q \in {o} : leader_function(q, 1)}}
    OBVIOUS
<1>2. 1 \in Rounds
    BY ConfigAssumption DEF Rounds
<1>3. Proposal(o, 1, v, {}, {}, {v}) \in ProposalMsg
    <2>1. {without_full_data(m) : m \in {}} = {}
        OBVIOUS
    <2>2. QED
        BY <1>2, <2>1 DEF Proposal, ProposalMsg
<1>4. TypeOK'
    <2>1. (sent_proposal \subseteq ProposalMsg)'
        BY <1>1, <1>3 DEF TypeInv, TypeOK
    <2>2. /\ (round \in [Operators -> Rounds])'
          /\ (last_prepared_round \in [Operators -> 0..MaxRounds])'
        BY <1>2, ConfigAssumption DEF TypeInv, TypeOK, Rounds
    <2>3. /\ (start_data \in [Operators -> Values])'
          /\ (data \in [Operators -> SUBSET Values])'
        BY <1>1 DEF TypeInv, TypeOK
    <2>4. /\ (st \in [Operators -> InstanceStates])'
          /\ (accepted \in [Operators -> BOOLEAN])'
          /\ (proposal_root \in [Operators -> Values \cup {NoRoot}])'
          /\ (last_prepared_value \in [Operators -> Values \cup {NoRoot}])'
          /\ (completed \in [Operators -> Values \cup {NoRoot, TimedOut}])'
        BY DEF TypeInv, TypeOK, InstanceStates
    <2>5. /\ (propose_container \in [Operators -> SUBSET Rounds])'
          /\ (prepare_container \in [Operators -> SUBSET PrepareMsg])'
          /\ (commit_container \in [Operators -> SUBSET CommitMsg])'
          /\ (round_change_container \in [Operators -> SUBSET RoundChangeMsg])'
        BY DEF TypeInv, TypeOK
    <2>6. /\ (sent_prepare \subseteq PrepareMsg)'
          /\ (sent_commit \subseteq CommitMsg)'
          /\ (sent_round_change \subseteq RoundChangeMsg)'
          /\ (sent_decided \subseteq DecidedMsg)'
        BY DEF TypeInv, TypeOK
    <2>7. QED
        BY <2>1, <2>2, <2>3, <2>4, <2>5, <2>6 DEF TypeOK
<1>5. ContainersSent' /\ LockIsJustified'
    BY DEF TypeInv, TypeOK, ContainersSent, LockIsJustified
<1>6. ProposalHeld'
    BY <1>1 DEF TypeInv, TypeOK, ProposalHeld
<1>7. LockHeld'
    <2>1. SUFFICES ASSUME NEW q \in Operators, last_prepared_round'[q] > 0
                   PROVE  /\ last_prepared_round'[q] <= round'[q]
                          /\ last_prepared_value'[q] \in data'[q]
                          /\ has_quorum({p \in prepare_container'[q] :
                                 /\ p.round = last_prepared_round'[q]
                                 /\ p.root = last_prepared_value'[q]})
        BY DEF LockHeld
    <2>2. q # o
        BY <2>1 DEF TypeInv, TypeOK
    <2>3. /\ prepare_container'[q] = prepare_container[q]
          /\ last_prepared_round'[q] = last_prepared_round[q]
          /\ last_prepared_value'[q] = last_prepared_value[q]
          /\ data'[q] = data[q] /\ round'[q] = round[q]
        BY <1>1, <2>2 DEF TypeInv, TypeOK
    <2>4. QED
        BY <2>1, <2>3 DEF TypeInv, LockHeld
<1>8. QED
    BY <1>4, <1>5, <1>6, <1>7 DEF TypeInv

\* The steps of an operator, one disjunct of Next at a time.
LEMMA NextCases ==
    ASSUME Next
    PROVE  \E o \in Operators :
        \/ \E m \in sent_proposal : AcceptProposal(o, m)
        \/ \E m \in sent_proposal : RefuseProposal(o, m)
        \/ \E m \in sent_prepare : StorePrepare(o, m)
        \/ \E m \in sent_prepare : PrepareQuorum(o, m)
        \/ \E m \in sent_commit : StoreCommit(o, m) \/ CommitQuorum(o, m)
        \/ \E m \in sent_decided : ReceiveDecided(o, m)
        \/ \E m \in sent_round_change :
              \/ StoreRoundChange(o, m)
              \/ RoundChangeQuorum(o, m)
              \/ RoundChangePartialQuorum(o, m)
        \/ EndRound(o)
        \/ EndLastRound(o)
        \/ Restart(o)
BY DEF Next

\* The first layer is inductive.
LEMMA TypeInvNext == TypeInv /\ [Next]_vars => TypeInv'
<1>1. SUFFICES ASSUME TypeInv, Next PROVE TypeInv'
    BY TypeInvStutter
<1>2. QED
    BY <1>1, NextCases, TypeInvAcceptProposal, TypeInvRefuseProposal,
       TypeInvStorePrepare, TypeInvPrepareQuorum, TypeInvCommit,
       TypeInvReceiveDecided, TypeInvRoundChange, TypeInvEndRound,
       TypeInvEndLastRound, TypeInvRestart

\* Every state of every instance is well typed, and an operator can justify
\* the lock it carries into a round change.
THEOREM TypeInvHolds == Spec => []TypeInv
BY TypeInvInit, TypeInvNext, PTL DEF Spec

\* Every field of the instance keeps the type its Rust declaration gives it.
THEOREM TypeCorrect == Spec => []TypeOK
<1>1. TypeInv => TypeOK
    BY DEF TypeInv
<1>2. QED
    BY <1>1, TypeInvHolds, PTL

\* A RoundChange that claims a lock always carries the locked data and a
\* quorum of Prepares for it (get_round_change_prepare_justifications).
THEOREM LocksJustified == Spec => []LockIsJustified
<1>1. TypeInv => LockIsJustified
    BY DEF TypeInv
<1>2. QED
    BY <1>1, TypeInvHolds, PTL

---------------------------------------------------------------------------
(* Layer 2: one Prepare per round, and locks that are never forgotten.     *)

\* A quorum sent a Prepare for v in round r.
Prepared(r, v) == has_quorum({p \in sent_prepare : p.round = r /\ p.root = v})

\* What an operator that never restarts sent lies behind its present round,
\* and what it committed behind its lock.
SentBehind ==
    /\ \A p \in sent_prepare :
          p.from \notin Amnesic =>
              \/ p.round < round[p.from]
              \/ p.round = round[p.from] /\ accepted[p.from]
    /\ \A c \in sent_commit :
          c.from \notin Amnesic => c.round <= last_prepared_round[c.from]
    /\ \A rc \in sent_round_change :
          rc.from \notin Amnesic => rc.round <= round[rc.from]

\* A Commit follows a quorum of Prepares.
CommitsPrepared == \A c \in sent_commit : Prepared(c.round, c.root)

\* Justifications are made of messages that were sent.
JustificationsSent ==
    /\ \A rc \in sent_round_change : rc.just \subseteq sent_prepare
    /\ \A m \in sent_proposal : \A rc \in m.rc_just :
          \E x \in sent_round_change : rc = without_full_data(x)

LockInv == SentBehind /\ CommitsPrepared /\ JustificationsSent
           /\ OnePreparePerRound /\ RoundChangeKeepsLock

\* A prepared value stays prepared.
LEMMA PreparedStable ==
    ASSUME TypeOK', sent_prepare \subseteq sent_prepare',
           NEW r, NEW v, Prepared(r, v)
    PROVE  Prepared(r, v)'
<1> DEFINE before == {p \in sent_prepare : p.round = r /\ p.root = v}
           after == {p \in sent_prepare' : p.round = r /\ p.root = v}
<1>1. before \subseteq after /\ \A p \in after : p.from \in Operators
    BY DEF TypeOK, PrepareMsg
<1>2. has_quorum(after)
    BY <1>1, QuorumMonotone DEF Prepared
<1>3. QED
    BY <1>2 DEF Prepared, has_quorum

\* Nothing but the first proposal is sent initially.
LEMMA LockInvInit == Init => LockInv
<1>1. SUFFICES ASSUME Init PROVE LockInv
    OBVIOUS
<1>2. ASSUME NEW m \in sent_proposal PROVE m.rc_just = {}
    BY <1>1 DEF Init, Proposal
<1>3. QED
    BY <1>1, <1>2 DEF Init, LockInv, SentBehind, CommitsPrepared,
       JustificationsSent, OnePreparePerRound, RoundChangeKeepsLock

\* The second layer depends on these variables only.
LEMMA LockInvUnchanged ==
    ASSUME LockInv,
           UNCHANGED <<round, accepted, last_prepared_round, sent_proposal,
                       sent_prepare, sent_commit, sent_round_change>>
    PROVE  LockInv'
BY DEF LockInv, SentBehind, CommitsPrepared, Prepared, JustificationsSent,
       OnePreparePerRound, RoundChangeKeepsLock

\* A Prepare is only sent for a round the operator sent none for.
LEMMA LockInvAcceptProposal ==
    ASSUME TypeInv, TypeInv', LockInv, NEW o \in Operators,
           NEW m \in sent_proposal, AcceptProposal(o, m)
    PROVE  LockInv'
<1> USE DEF AcceptProposal
<1> DEFINE new == [from |-> o, round |-> m.round, root |-> m.root]
<1>1. /\ round[o] \in Nat /\ m.round \in Nat /\ m.round >= round[o]
      /\ round'[o] = m.round /\ accepted'[o]
      /\ \A q \in Operators \ {o} :
            round'[q] = round[q] /\ accepted'[q] = accepted[q]
      /\ sent_prepare' = sent_prepare \cup {new}
    BY DEF TypeInv, TypeOK, ProposalMsg, Rounds, admissible_proposal
<1>2. ~(accepted[o] /\ m.round = round[o])
    BY DEF refuses_proposal
<1>3. /\ \A p \in sent_prepare : p.from \in Operators /\ p.round \in Nat
      /\ \A rc \in sent_round_change :
            rc.from \in Operators /\ rc.round \in Nat
      /\ round \in [Operators -> Nat]
    BY DEF TypeInv, TypeOK, PrepareMsg, RoundChangeMsg, Rounds
<1>4. ASSUME NEW p \in sent_prepare, p.from = o, o \notin Amnesic
      PROVE  p.round < m.round
    BY <1>1, <1>2, <1>3, <1>4 DEF LockInv, SentBehind
<1>5. SentBehind'
    <2>1. ASSUME NEW p \in sent_prepare', p.from \notin Amnesic
          PROVE  \/ p.round < round'[p.from]
                 \/ p.round = round'[p.from] /\ accepted'[p.from]
        <3>1. CASE p.from = o
            BY <1>1, <1>4, <2>1, <3>1
        <3>2. CASE p.from # o
            BY <1>1, <1>3, <2>1, <3>2 DEF LockInv, SentBehind
        <3>3. QED
            BY <3>1, <3>2
    <2>2. ASSUME NEW rc \in sent_round_change, rc.from \notin Amnesic
          PROVE  rc.round <= round'[rc.from]
        BY <1>1, <1>3, <2>2 DEF LockInv, SentBehind
    <2>3. QED
        BY <2>1, <2>2 DEF LockInv, SentBehind
<1>6. CommitsPrepared'
    BY PreparedStable DEF LockInv, CommitsPrepared, TypeInv
<1>7. JustificationsSent' /\ RoundChangeKeepsLock'
    BY <1>1 DEF LockInv, JustificationsSent, RoundChangeKeepsLock
<1>8. OnePreparePerRound'
    <2>1. SUFFICES ASSUME NEW p \in sent_prepare', NEW q \in sent_prepare',
                          p.from = q.from, p.from \notin Amnesic,
                          p.round = q.round
                   PROVE  p.root = q.root
        BY DEF OnePreparePerRound
    <2>2. CASE p \in sent_prepare /\ q \in sent_prepare
        BY <2>1, <2>2 DEF LockInv, OnePreparePerRound
    <2>3. CASE p = new /\ q \in sent_prepare
        BY <1>1, <1>4, <2>1, <2>3
    <2>4. CASE q = new /\ p \in sent_prepare
        BY <1>1, <1>4, <2>1, <2>4
    <2>5. QED
        BY <1>1, <2>1, <2>2, <2>3, <2>4
<1>9. QED
    BY <1>5, <1>6, <1>7, <1>8 DEF LockInv

\* A Commit is sent for the present round, ahead of every RoundChange sent.
LEMMA LockInvPrepareQuorum ==
    ASSUME TypeInv, TypeInv', LockInv, NEW o \in Operators,
           NEW m \in sent_prepare, PrepareQuorum(o, m)
    PROVE  LockInv'
<1> USE DEF PrepareQuorum
<1> DEFINE v == proposal_root[o]
           new == [from |-> o, round |-> round[o], root |-> v]
           box == prepare_container[o] \cup {m}
<1>1. /\ m.round = round[o]
      /\ has_quorum({p \in box : p.round = round[o] /\ p.root = v})
    BY DEF admissible_prepare, reaches_prepared, quorum_values
<1>2. /\ last_prepared_round'[o] = round[o]
      /\ \A q \in Operators \ {o} :
            last_prepared_round'[q] = last_prepared_round[q]
      /\ last_prepared_round[o] <= round[o]
      /\ sent_commit' = sent_commit \cup {new}
      /\ last_prepared_round[o] \in Nat /\ round[o] \in Nat
    <2>1. last_prepared_round[o] \in Nat /\ round[o] \in Nat
        BY DEF TypeInv, TypeOK, Rounds
    <2>2. last_prepared_round[o] <= round[o]
        <3>1. last_prepared_round[o] > 0 => last_prepared_round[o] <= round[o]
            BY DEF TypeInv, LockHeld
        <3>2. QED
            BY <2>1, <3>1
    <2>3. last_prepared_round'[o] = round[o]
        BY DEF TypeInv, TypeOK
    <2>4. ASSUME NEW q \in Operators \ {o}
          PROVE  last_prepared_round'[q] = last_prepared_round[q]
        BY DEF TypeInv, TypeOK
    <2>5. sent_commit' = sent_commit \cup {new}
        OBVIOUS
    <2>6. QED
        BY <2>1, <2>2, <2>3, <2>4, <2>5
<1>3. /\ \A c \in sent_commit : c.from \in Operators /\ c.round \in Nat
      /\ \A rc \in sent_round_change :
            rc.from \in Operators /\ rc.round \in Nat
    BY DEF TypeInv, TypeOK, CommitMsg, RoundChangeMsg, Rounds
<1>4. SentBehind'
    <2>1. ASSUME NEW c \in sent_commit', c.from \notin Amnesic
          PROVE  c.round <= last_prepared_round'[c.from]
        BY <1>2, <1>3, <2>1 DEF LockInv, SentBehind
    <2>2. QED
        BY <2>1 DEF LockInv, SentBehind
<1>5. CommitsPrepared'
    <2>1. Prepared(round[o], v)
        <3>1. /\ box \subseteq sent_prepare
              /\ \A p \in sent_prepare : p.from \in Operators
            BY DEF TypeInv, TypeOK, ContainersSent, PrepareMsg
        <3>2. {p \in box : p.round = round[o] /\ p.root = v}
                \subseteq
              {p \in sent_prepare : p.round = round[o] /\ p.root = v}
            BY <3>1
        <3>3. QED
            BY <1>1, <3>1, <3>2, QuorumMonotone DEF Prepared
    <2>2. \A r, w : Prepared(r, w)' <=> Prepared(r, w)
        BY DEF Prepared
    <2>3. QED
        BY <1>2, <2>1, <2>2 DEF LockInv, CommitsPrepared
<1>6. JustificationsSent' /\ OnePreparePerRound'
    BY DEF LockInv, JustificationsSent, OnePreparePerRound
<1>7. RoundChangeKeepsLock'
    <2>1. ASSUME NEW rc \in sent_round_change, rc.from = o, o \notin Amnesic
          PROVE  rc.round <= round[o]
        BY <2>1 DEF LockInv, SentBehind
    <2>2. QED
        BY <1>2, <1>3, <2>1 DEF LockInv, RoundChangeKeepsLock
<1>8. QED
    BY <1>4, <1>5, <1>6, <1>7 DEF LockInv

\* An operator moves to a later round r and sends a RoundChange for it.
LEMMA LockInvSendRoundChange ==
    ASSUME TypeInv, TypeInv', LockInv, NEW o \in Operators, NEW r \in Rounds,
           r > round[o],
           round' = [round EXCEPT ![o] = r],
           accepted' = [accepted EXCEPT ![o] = FALSE],
           sent_round_change' = sent_round_change \cup {RoundChange(o, r)},
           UNCHANGED <<last_prepared_round, sent_proposal, sent_prepare,
                       sent_commit>>
    PROVE  LockInv'
<1> DEFINE new == RoundChange(o, r)
<1>1. /\ new.from = o /\ new.round = r
      /\ new.data_round = last_prepared_round[o]
    BY DEF RoundChange
<1>2. new.just \subseteq sent_prepare
    BY RoundChangeType
<1>3. /\ round'[o] = r /\ r \in Nat
      /\ \A q \in Operators \ {o} :
            round'[q] = round[q] /\ accepted'[q] = accepted[q]
      /\ round \in [Operators -> Nat]
      /\ \A p \in sent_prepare : p.from \in Operators /\ p.round \in Nat
      /\ \A rc \in sent_round_change :
            rc.from \in Operators /\ rc.round \in Nat
    BY DEF TypeInv, TypeOK, Rounds, PrepareMsg, RoundChangeMsg
<1>4. SentBehind'
    <2>1. ASSUME NEW p \in sent_prepare, p.from \notin Amnesic
          PROVE  \/ p.round < round'[p.from]
                 \/ p.round = round'[p.from] /\ accepted'[p.from]
        <3>1. CASE p.from = o
            BY <1>3, <2>1, <3>1 DEF LockInv, SentBehind
        <3>2. CASE p.from # o
            BY <1>3, <2>1, <3>2 DEF LockInv, SentBehind
        <3>3. QED
            BY <3>1, <3>2
    <2>2. ASSUME NEW rc \in sent_round_change', rc.from \notin Amnesic
          PROVE  rc.round <= round'[rc.from]
        <3>1. CASE rc = new
            BY <1>1, <1>3, <3>1
        <3>2. CASE rc \in sent_round_change
            BY <1>3, <2>2, <3>2 DEF LockInv, SentBehind
        <3>3. QED
            BY <3>1, <3>2
    <2>3. QED
        BY <2>1, <2>2 DEF LockInv, SentBehind
<1>5. CommitsPrepared'
    BY DEF LockInv, CommitsPrepared, Prepared
<1>6. JustificationsSent'
    BY <1>2 DEF LockInv, JustificationsSent
<1>7. OnePreparePerRound'
    BY DEF LockInv, OnePreparePerRound
<1>8. RoundChangeKeepsLock'
    <2>1. ASSUME NEW c \in sent_commit, c.from = o, o \notin Amnesic
          PROVE  c.round <= new.data_round
        BY <1>1, <2>1 DEF LockInv, SentBehind
    <2>2. SUFFICES ASSUME NEW c \in sent_commit,
                          NEW rc \in sent_round_change',
                          c.from = rc.from, c.from \notin Amnesic,
                          c.round < rc.round
                   PROVE  c.round <= rc.data_round
        BY DEF RoundChangeKeepsLock
    <2>3. CASE rc = new
        BY <1>1, <2>1, <2>2, <2>3
    <2>4. CASE rc \in sent_round_change
        BY <2>2, <2>4 DEF LockInv, RoundChangeKeepsLock
    <2>5. QED
        BY <2>3, <2>4
<1>9. QED
    BY <1>4, <1>5, <1>6, <1>7, <1>8 DEF LockInv

\* Counting RoundChanges, starting a round and joining one forget nothing.
LEMMA LockInvRoundChange ==
    ASSUME TypeInv, TypeInv', LockInv, NEW o \in Operators,
           NEW m \in sent_round_change,
           \/ StoreRoundChange(o, m)
           \/ RoundChangeQuorum(o, m)
           \/ RoundChangePartialQuorum(o, m)
    PROVE  LockInv'
<1> DEFINE box == add_message(round_change_container[o], m)
<1>1. box \subseteq sent_round_change
    BY AddMessage DEF TypeInv, TypeOK, ContainersSent
<1>2. CASE StoreRoundChange(o, m)
    BY <1>2, LockInvUnchanged DEF StoreRoundChange, network
<1>3. CASE RoundChangeQuorum(o, m)
    <2> USE <1>3 DEF RoundChangeQuorum
    <2> DEFINE rcs == messages_for_round(box, m.round)
    <2>1. PICK out \in start_round(o, m.round, rcs) :
              sent_proposal' = sent_proposal \cup out.msgs
        OBVIOUS
    <2>2. rcs \in SUBSET sent_round_change /\ m.round \in Rounds
        BY <1>1 DEF messages_for_round, TypeInv, TypeOK, RoundChangeMsg
    <2>3. \A p \in out.msgs : \A rc \in p.rc_just :
              \E x \in sent_round_change : rc = without_full_data(x)
        BY <2>1, <2>2, StartRoundType
    <2>4. /\ round'[o] = m.round /\ m.round >= round[o] /\ m.round \in Nat
          /\ \A q \in Operators \ {o} : round'[q] = round[q]
          /\ round \in [Operators -> Nat]
          /\ \A p \in sent_prepare : p.from \in Operators /\ p.round \in Nat
          /\ \A rc \in sent_round_change :
                rc.from \in Operators /\ rc.round \in Nat
        BY DEF TypeInv, TypeOK, Rounds, PrepareMsg, RoundChangeMsg,
               admissible_round_change
    <2>5. SentBehind'
        <3>1. ASSUME NEW p \in sent_prepare, p.from \notin Amnesic
              PROVE  \/ p.round < round'[p.from]
                     \/ p.round = round'[p.from] /\ accepted[p.from]
            BY <2>4, <3>1 DEF LockInv, SentBehind
        <3>2. ASSUME NEW rc \in sent_round_change, rc.from \notin Amnesic
              PROVE  rc.round <= round'[rc.from]
            BY <2>4, <3>2 DEF LockInv, SentBehind
        <3>3. QED
            BY <3>1, <3>2 DEF LockInv, SentBehind
    <2>6. JustificationsSent'
        BY <2>1, <2>3 DEF LockInv, JustificationsSent
    <2>7. QED
        BY <2>5, <2>6 DEF LockInv, CommitsPrepared, Prepared,
                          OnePreparePerRound, RoundChangeKeepsLock
<1>4. CASE RoundChangePartialQuorum(o, m)
    <2> USE <1>4 DEF RoundChangePartialQuorum
    <2>1. PICK r \in partial_quorum_round(o, m) :
              /\ round' = [round EXCEPT ![o] = r]
              /\ sent_round_change' =
                    sent_round_change \cup {RoundChange(o, r)}
        OBVIOUS
    <2>2. r \in lowest_partial_quorum_above_round(box, round[o])
        BY DEF partial_quorum_round
    <2>3. PICK x \in box : r = x.round /\ x.round > round[o]
        BY <2>2 DEF lowest_partial_quorum_above_round
    <2>4. r \in Rounds
        BY <1>1, <2>3 DEF TypeInv, TypeOK, RoundChangeMsg
    <2>5. QED
        BY <2>1, <2>3, <2>4, LockInvSendRoundChange
<1>5. QED
    BY <1>2, <1>3, <1>4

\* A restart concerns an operator the second layer excludes.
LEMMA LockInvRestart ==
    ASSUME TypeInv, TypeInv', LockInv, NEW o \in Operators, Restart(o)
    PROVE  LockInv'
<1> USE DEF Restart
<1>1. o \in Amnesic
    OBVIOUS
<1>2. \A q \in Operators \ {o} :
          /\ round'[q] = round[q] /\ accepted'[q] = accepted[q]
          /\ last_prepared_round'[q] = last_prepared_round[q]
    BY DEF TypeInv, TypeOK
<1>3. /\ \A p \in sent_prepare : p.from \in Operators
      /\ \A c \in sent_commit : c.from \in Operators
      /\ \A rc \in sent_round_change : rc.from \in Operators
    BY DEF TypeInv, TypeOK, PrepareMsg, CommitMsg, RoundChangeMsg
<1>4. SentBehind'
    BY <1>1, <1>2, <1>3 DEF LockInv, SentBehind
<1>5. JustificationsSent'
    <2>1. \A m \in sent_proposal' : m \in sent_proposal \/ m.rc_just = {}
        BY DEF Proposal
    <2>2. QED
        BY <2>1 DEF LockInv, JustificationsSent
<1>6. QED
    BY <1>4, <1>5 DEF LockInv, CommitsPrepared, Prepared,
                      OnePreparePerRound, RoundChangeKeepsLock

\* The second layer is inductive, given the first.
LEMMA LockInvNext == TypeInv /\ TypeInv' /\ LockInv /\ [Next]_vars => LockInv'
<1>1. SUFFICES ASSUME TypeInv, TypeInv', LockInv, [Next]_vars PROVE LockInv'
    OBVIOUS
<1>2. CASE UNCHANGED vars
    BY <1>1, <1>2, LockInvUnchanged DEF vars, containers, network
<1>3. ASSUME NEW o \in Operators, NEW m \in sent_proposal,
             RefuseProposal(o, m)
      PROVE  LockInv'
    BY <1>1, <1>3, LockInvUnchanged DEF RefuseProposal, network
<1>4. ASSUME NEW o \in Operators, NEW m \in sent_prepare, StorePrepare(o, m)
      PROVE  LockInv'
    BY <1>1, <1>4, LockInvUnchanged DEF StorePrepare, network
<1>5. ASSUME NEW o \in Operators, NEW m \in sent_commit,
             StoreCommit(o, m) \/ CommitQuorum(o, m)
      PROVE  LockInv'
    BY <1>1, <1>5, LockInvUnchanged DEF StoreCommit, CommitQuorum, network
<1>6. ASSUME NEW o \in Operators, NEW m \in sent_decided, ReceiveDecided(o, m)
      PROVE  LockInv'
    BY <1>1, <1>6, LockInvUnchanged DEF ReceiveDecided, network
<1>7. ASSUME NEW o \in Operators, EndRound(o) PROVE LockInv'
    <2>1. round[o] + 1 \in Rounds /\ round[o] + 1 > round[o]
        BY <1>1, <1>7, ConfigAssumption DEF EndRound, TypeInv, TypeOK, Rounds
    <2>2. round' = [round EXCEPT ![o] = round[o] + 1]
        BY <1>7 DEF EndRound
    <2>3. QED
        BY <1>1, <1>7, <2>1, <2>2, LockInvSendRoundChange DEF EndRound
<1>8. ASSUME NEW o \in Operators, EndLastRound(o) PROVE LockInv'
    BY <1>1, <1>8, LockInvUnchanged DEF EndLastRound, network
<1>9. QED
    BY <1>1, <1>2, <1>3, <1>4, <1>5, <1>6, <1>7, <1>8, NextCases,
       LockInvAcceptProposal, LockInvPrepareQuorum, LockInvRoundChange,
       LockInvRestart

\* One Prepare per operator and round, and no forgotten lock, always.
THEOREM LockInvHolds == Spec => []LockInv
<1>1. QED
    BY LockInvInit, LockInvNext, TypeInvHolds, PTL DEF Spec

---------------------------------------------------------------------------
(* Layer 3: what an earlier round could still choose.                      *)

\* A quorum of which every operator that never restarts sent its Commit for
\* v in round r, or has not left round r and may still send it.
CouldBeChosen(r, v) ==
    \E Q \in SUBSET Operators :
        /\ Cardinality(Q) >= quorum_size
        /\ \A o \in Q \ Amnesic :
              \/ round[o] <= r
              \/ \E c \in sent_commit :
                    c.from = o /\ c.round = r /\ c.root = v

PreparesSafe ==
    \A p \in sent_prepare : \A r \in Rounds : \A v \in Values :
        (r < p.round /\ CouldBeChosen(r, v)) => v = p.root

\* The signers of a decided message sent their Commits.
DecidedCommitted ==
    \A d \in sent_decided : \A o \in d.signers :
        \E c \in sent_commit :
            c.from = o /\ c.round = d.round /\ c.root = d.root

\* An operator completes once, with a chosen value it accepts.
CompletedChosen ==
    \A o \in Operators :
        /\ st[o] # "Complete" => completed[o] = NoRoot
        /\ completed[o] \in Values => completed[o] \in chosen \cap Valid[o]

SafeInv == PreparesSafe /\ DecidedCommitted /\ CompletedChosen

\* What can still be chosen after a step could be chosen before it.
LEMMA CouldBeChosenAntitone ==
    ASSUME TypeInv, TypeInv', [Next]_vars, NEW r \in Rounds, NEW v \in Values,
           CouldBeChosen(r, v)'
    PROVE  CouldBeChosen(r, v)
<1>1. ASSUME NEW o \in Operators, o \notin Amnesic
      PROVE  /\ round[o] <= round'[o]
             /\ \A c \in sent_commit' \ sent_commit :
                   c.from = o => c.round = round[o]
    <2>1. CASE UNCHANGED vars
        BY <2>1 DEF vars, network, TypeInv, TypeOK, Rounds
    <2> USE DEF TypeInv, TypeOK, Rounds
    <2>2. ASSUME NEW q \in Operators, NEW m \in sent_proposal,
                 AcceptProposal(q, m) \/ RefuseProposal(q, m)
          PROVE  round[o] <= round'[o] /\ sent_commit' = sent_commit
        <3>1. round[q] <= m.round
            BY <2>2 DEF AcceptProposal, RefuseProposal, admissible_proposal,
                        ProposalMsg
        <3>2. QED
            BY <2>2, <3>1 DEF AcceptProposal, RefuseProposal, network
    <2>3. ASSUME NEW q \in Operators, NEW m \in sent_prepare,
                 StorePrepare(q, m) \/ PrepareQuorum(q, m)
          PROVE  /\ round[o] <= round'[o]
                 /\ \A c \in sent_commit' \ sent_commit :
                       c.from = o => c.round = round[o]
        BY <2>3 DEF StorePrepare, PrepareQuorum, network
    <2>4. ASSUME NEW q \in Operators, NEW m \in sent_commit,
                 StoreCommit(q, m) \/ CommitQuorum(q, m)
          PROVE  round[o] <= round'[o] /\ sent_commit' = sent_commit
        BY <2>4 DEF StoreCommit, CommitQuorum, network
    <2>5. ASSUME NEW q \in Operators, NEW m \in sent_decided,
                 ReceiveDecided(q, m)
          PROVE  round[o] <= round'[o] /\ sent_commit' = sent_commit
        BY <2>5 DEF ReceiveDecided, network
    <2>6. ASSUME NEW q \in Operators, NEW m \in sent_round_change,
                 \/ StoreRoundChange(q, m)
                 \/ RoundChangeQuorum(q, m)
                 \/ RoundChangePartialQuorum(q, m)
          PROVE  round[o] <= round'[o] /\ sent_commit' = sent_commit
        <3>1. CASE StoreRoundChange(q, m)
            BY <3>1 DEF StoreRoundChange, network
        <3>2. CASE RoundChangeQuorum(q, m)
            BY <3>2 DEF RoundChangeQuorum, admissible_round_change,
                        RoundChangeMsg
        <3>3. CASE RoundChangePartialQuorum(q, m)
            <4>1. PICK s \in partial_quorum_round(q, m) :
                      round' = [round EXCEPT ![q] = s]
                BY <3>3 DEF RoundChangePartialQuorum
            <4>2. s \in lowest_partial_quorum_above_round(
                         add_message(round_change_container[q], m), round[q])
                BY DEF partial_quorum_round
            <4>3. PICK x \in add_message(round_change_container[q], m) :
                      s = x.round /\ x.round > round[q]
                BY <4>2 DEF lowest_partial_quorum_above_round
            <4>4. x.round \in Rounds
                BY <4>3, AddMessage DEF RoundChangeMsg
            <4>5. QED
                BY <3>3, <4>1, <4>3, <4>4 DEF RoundChangePartialQuorum
        <3>4. QED
            BY <2>6, <3>1, <3>2, <3>3
    <2>7. ASSUME NEW q \in Operators, EndRound(q) \/ EndLastRound(q)
          PROVE  round[o] <= round'[o] /\ sent_commit' = sent_commit
        BY <2>7 DEF EndRound, EndLastRound, network
    <2>8. ASSUME NEW q \in Operators, Restart(q)
          PROVE  round[o] <= round'[o] /\ sent_commit' = sent_commit
        BY <1>1, <2>8 DEF Restart
    <2>9. QED
        BY <2>1, <2>2, <2>3, <2>4, <2>5, <2>6, <2>7, <2>8, NextCases
<1>2. PICK Q \in SUBSET Operators :
          /\ Cardinality(Q) >= quorum_size
          /\ \A o \in Q \ Amnesic :
                \/ round'[o] <= r
                \/ \E c \in sent_commit' :
                      c.from = o /\ c.round = r /\ c.root = v
    BY DEF CouldBeChosen, quorum_size, get_f
<1>3. ASSUME NEW o \in Q \ Amnesic
      PROVE  \/ round[o] <= r
             \/ \E c \in sent_commit :
                   c.from = o /\ c.round = r /\ c.root = v
    <2>1. round[o] \in Nat /\ round'[o] \in Nat /\ r \in Nat
        BY DEF TypeInv, TypeOK, Rounds
    <2>2. CASE round'[o] <= r
        BY <1>1, <2>1, <2>2
    <2>3. CASE \E c \in sent_commit' :
                   c.from = o /\ c.round = r /\ c.root = v
        BY <1>1, <2>1, <2>3
    <2>4. QED
        BY <1>2, <2>2, <2>3
<1>4. QED
    BY <1>2, <1>3 DEF CouldBeChosen

\* Two values prepared in one round are the same.
LEMMA PreparedUnique ==
    ASSUME TypeInv, LockInv, NEW r, NEW v, NEW w,
           Prepared(r, v), Prepared(r, w)
    PROVE  v = w
<1> DEFINE S == {p \in sent_prepare : p.round = r /\ p.root = v}
           T == {p \in sent_prepare : p.round = r /\ p.root = w}
<1>1. \A p \in S \cup T : p.from \in Operators
    BY DEF TypeInv, TypeOK, PrepareMsg
<1>2. PICK s \in S, t \in T : s.from = t.from /\ s.from \notin Amnesic
    BY <1>1, MessageQuorumsIntersect DEF Prepared
<1>3. QED
    BY <1>2 DEF LockInv, OnePreparePerRound

\* The heart of the argument: a proposal whose justifications hold carries
\* every value an earlier round could still choose.
LEMMA JustifiedProposalSafe ==
    ASSUME TypeInv, LockInv, PreparesSafe, NEW m \in sent_proposal,
           m.round > 1 => validate_proposal_justifications(m),
           NEW r \in Rounds, NEW v \in Values, r < m.round, CouldBeChosen(r, v)
    PROVE  v = m.root
<1>1. m \in ProposalMsg /\ m.round \in Nat /\ r \in Nat /\ r >= 1
    BY DEF TypeInv, TypeOK, ProposalMsg, Rounds
<1>2. /\ has_quorum(m.rc_just)
      /\ \A rc \in m.rc_just :
            /\ rc.round = m.round
            /\ valid_round_change(rc)
            /\ rc.data_round > 0 => rc.root = m.root
    BY <1>1 DEF validate_proposal_justifications
<1>3. PICK Q \in SUBSET Operators :
          /\ Cardinality(Q) >= quorum_size
          /\ \A o \in Q \ Amnesic :
                \/ round[o] <= r
                \/ \E c \in sent_commit :
                      c.from = o /\ c.round = r /\ c.root = v
    BY DEF CouldBeChosen
<1>4. PICK rc \in m.rc_just : rc.from \in Q /\ rc.from \notin Amnesic
    <2>1. {x.from : x \in m.rc_just} \in SUBSET Operators
        BY <1>1 DEF ProposalMsg, RoundChangeMsg
    <2>2. Cardinality({x.from : x \in m.rc_just}) >= quorum_size
        BY <1>2 DEF has_quorum
    <2>3. PICK o \in {x.from : x \in m.rc_just} \cap Q : o \notin Amnesic
        BY <1>3, <2>1, <2>2, QuorumsIntersect
    <2>4. QED
        BY <2>3
<1>5. PICK x \in sent_round_change : rc = without_full_data(x)
    BY DEF LockInv, JustificationsSent
<1>6. /\ x.from = rc.from /\ x.round = rc.round /\ x.just = rc.just
      /\ x.data_round = rc.data_round /\ x.root = rc.root
      /\ x \in RoundChangeMsg
    BY <1>5 DEF TypeInv, TypeOK, RoundChangeMsg, without_full_data
<1>7. PICK c \in sent_commit : c.from = x.from /\ c.round = r /\ c.root = v
    <2>1. x.round <= round[x.from] /\ round[x.from] \in Nat
        BY <1>4, <1>6 DEF LockInv, SentBehind, TypeInv, TypeOK, RoundChangeMsg,
                          Rounds
    <2>2. x.round = m.round
        BY <1>2, <1>6
    <2>3. QED
        BY <1>1, <1>3, <1>4, <1>6, <2>1, <2>2
<1>8. r <= x.data_round /\ x.data_round \in Nat
    BY <1>1, <1>2, <1>4, <1>6, <1>7
    DEF LockInv, RoundChangeKeepsLock, RoundChangeMsg
<1>9. x.root = m.root
    BY <1>1, <1>2, <1>6, <1>8
<1>10. justifies_prepared(x.just, x.data_round, x.root)
    BY <1>1, <1>2, <1>6, <1>8 DEF valid_round_change
<1>11. x.just \subseteq sent_prepare
    BY DEF LockInv, JustificationsSent
<1>12. CASE x.data_round = r
    <2>1. x.just \subseteq
              {p \in sent_prepare : p.round = r /\ p.root = x.root}
        BY <1>10, <1>11, <1>12 DEF justifies_prepared
    <2>2. \A p \in sent_prepare : p.from \in Operators
        BY DEF TypeInv, TypeOK, PrepareMsg
    <2>3. Prepared(r, x.root)
        BY <1>10, <2>1, <2>2, QuorumMonotone DEF justifies_prepared, Prepared
    <2>4. Prepared(r, v)
        BY <1>7 DEF LockInv, CommitsPrepared
    <2>5. QED
        BY <1>9, <2>3, <2>4, PreparedUnique
<1>13. CASE x.data_round > r
    <2>1. PICK p \in x.just : p.round = x.data_round /\ p.root = x.root
        BY <1>10, QuorumNonEmpty DEF justifies_prepared
    <2>2. QED
        BY <1>9, <1>11, <1>13, <2>1 DEF PreparesSafe
<1>14. QED
    BY <1>1, <1>8, <1>12, <1>13

\* At most one value is ever chosen.
LEMMA ChosenUnique ==
    ASSUME TypeInv, LockInv, PreparesSafe,
           NEW v \in chosen, NEW w \in chosen
    PROVE  v = w
<1> DEFINE Commits(r, u) == {m \in sent_commit : m.round = r /\ m.root = u}
<1>1. PICK r \in Rounds : has_quorum(Commits(r, v))
    BY DEF chosen
<1>2. PICK s \in Rounds : has_quorum(Commits(s, w))
    BY DEF chosen
<1>3. v \in Values /\ w \in Values /\ r \in Nat /\ s \in Nat
    BY DEF chosen, Rounds
<1>4. ASSUME NEW t \in Rounds, NEW u \in Values, has_quorum(Commits(t, u))
      PROVE  Prepared(t, u) /\ CouldBeChosen(t, u)
    <2>1. PICK c \in Commits(t, u) : TRUE
        BY <1>4, QuorumNonEmpty
    <2>2. Prepared(t, u)
        BY <2>1 DEF LockInv, CommitsPrepared
    <2>3. {m.from : m \in Commits(t, u)} \in SUBSET Operators
        BY DEF TypeInv, TypeOK, CommitMsg
    <2>4. CouldBeChosen(t, u)
        BY <1>4, <2>3 DEF CouldBeChosen, has_quorum
    <2>5. QED
        BY <2>2, <2>4
<1>5. ASSUME NEW t \in Rounds, NEW u \in Values, Prepared(t, u)
      PROVE  \E p \in sent_prepare : p.round = t /\ p.root = u
    BY <1>5, QuorumNonEmpty DEF Prepared
<1>6. CASE r = s
    BY <1>1, <1>2, <1>3, <1>4, <1>6, PreparedUnique
<1>7. CASE r < s
    BY <1>1, <1>2, <1>3, <1>4, <1>5, <1>7 DEF PreparesSafe
<1>8. CASE s < r
    BY <1>1, <1>2, <1>3, <1>4, <1>5, <1>8 DEF PreparesSafe
<1>9. QED
    BY <1>3, <1>6, <1>7, <1>8

\* Initially nothing is prepared, decided or completed.
LEMMA SafeInvInit == Init => SafeInv
<1>1. SUFFICES ASSUME Init PROVE SafeInv
    OBVIOUS
<1>2. PreparesSafe /\ DecidedCommitted
    BY <1>1 DEF Init, PreparesSafe, DecidedCommitted
<1>3. CompletedChosen
    BY <1>1, ValuesAssumption DEF Init, CompletedChosen
<1>4. QED
    BY <1>2, <1>3 DEF SafeInv

\* Every step keeps the Prepares of later rounds safe: only AcceptProposal
\* sends one.
LEMMA PreparesSafeNext ==
    ASSUME TypeInv, TypeInv', LockInv, PreparesSafe, [Next]_vars
    PROVE  PreparesSafe'
<1>1. SUFFICES ASSUME NEW p \in sent_prepare', NEW r \in Rounds,
                      NEW v \in Values, r < p.round, CouldBeChosen(r, v)'
               PROVE  v = p.root
    BY DEF PreparesSafe
<1>2. CouldBeChosen(r, v)
    BY <1>1, CouldBeChosenAntitone
<1>3. CASE p \in sent_prepare
    BY <1>1, <1>2, <1>3 DEF PreparesSafe
<1>4. CASE p \notin sent_prepare
    <2>1. PICK o \in Operators, m \in sent_proposal : AcceptProposal(o, m)
        <3>1. CASE UNCHANGED vars
            BY <1>4, <3>1 DEF vars, network
        <3>2. ASSUME NEW o \in Operators
              PROVE  /\ \A m \in sent_proposal :
                           RefuseProposal(o, m) => sent_prepare' = sent_prepare
                     /\ \A m \in sent_prepare :
                           \/ StorePrepare(o, m)
                           \/ PrepareQuorum(o, m)
                           => sent_prepare' = sent_prepare
                     /\ \A m \in sent_commit :
                           \/ StoreCommit(o, m)
                           \/ CommitQuorum(o, m)
                           => sent_prepare' = sent_prepare
                     /\ \A m \in sent_decided :
                           ReceiveDecided(o, m) => sent_prepare' = sent_prepare
                     /\ \A m \in sent_round_change :
                           \/ StoreRoundChange(o, m)
                           \/ RoundChangeQuorum(o, m)
                           \/ RoundChangePartialQuorum(o, m)
                           => sent_prepare' = sent_prepare
                     /\ EndRound(o) \/ EndLastRound(o) \/ Restart(o)
                           => sent_prepare' = sent_prepare
            BY DEF RefuseProposal, StorePrepare, PrepareQuorum, StoreCommit,
                   CommitQuorum, ReceiveDecided, StoreRoundChange,
                   RoundChangeQuorum, RoundChangePartialQuorum, EndRound,
                   EndLastRound, Restart, network
        <3>3. QED
            BY <1>4, <3>1, <3>2, NextCases
    <2>2. p = [from |-> o, round |-> m.round, root |-> m.root]
        BY <1>4, <2>1 DEF AcceptProposal
    <2>3. m.round > 1 => validate_proposal_justifications(m)
        BY <2>1 DEF AcceptProposal, admissible_proposal
    <2>4. QED
        BY <1>1, <1>2, <2>2, <2>3, JustifiedProposalSafe
<1>5. QED
    BY <1>3, <1>4

\* Commits are never unsent, so what was chosen stays chosen.
LEMMA ChosenStable ==
    ASSUME TypeInv, TypeInv', [Next]_vars
    PROVE  sent_commit \subseteq sent_commit' /\ chosen \subseteq chosen'
<1>1. sent_commit \subseteq sent_commit'
    <2>1. CASE UNCHANGED vars
        BY <2>1 DEF vars, network
    <2>2. CASE Next
        BY <2>2, NextCases
        DEF AcceptProposal, RefuseProposal, StorePrepare, PrepareQuorum,
            StoreCommit, CommitQuorum, ReceiveDecided, StoreRoundChange,
            RoundChangeQuorum, RoundChangePartialQuorum, EndRound,
            EndLastRound, Restart, network
    <2>3. QED
        BY <2>1, <2>2
<1>2. ASSUME NEW v \in chosen PROVE v \in chosen'
    <2>1. PICK r \in Rounds :
              has_quorum({m \in sent_commit : m.round = r /\ m.root = v})
        BY DEF chosen
    <2>2. \A m \in sent_commit' : m.from \in Operators
        BY DEF TypeInv, TypeOK, CommitMsg
    <2>3. {m \in sent_commit : m.round = r /\ m.root = v}
            \subseteq {m \in sent_commit' : m.round = r /\ m.root = v}
        BY <1>1
    <2>4. has_quorum({m \in sent_commit' : m.round = r /\ m.root = v})
        BY <2>1, <2>2, <2>3, QuorumMonotone
    <2>5. QED
        BY <2>4 DEF chosen, has_quorum, quorum_size, get_f
<1>3. QED
    BY <1>1, <1>2

\* A quorum of senders of Commits for v in one round makes v chosen.
LEMMA CommitQuorumChooses ==
    ASSUME TypeInv, NEW r \in Rounds, NEW v \in Values, NEW S,
           Cardinality(S) >= quorum_size,
           \A o \in S : \E c \in sent_commit :
               c.from = o /\ c.round = r /\ c.root = v
    PROVE  v \in chosen
<1> DEFINE T == {m \in sent_commit : m.round = r /\ m.root = v}
<1>1. {m.from : m \in T} \in SUBSET Operators
    BY DEF TypeInv, TypeOK, CommitMsg
<1>2. S \in SUBSET {m.from : m \in T}
    OBVIOUS
<1>3. IsFiniteSet({m.from : m \in T})
    BY <1>1, CommitteeAssumption, FS_Subset
<1>4. Cardinality(S) <= Cardinality({m.from : m \in T})
    BY <1>2, <1>3, FS_Subset
<1>5. /\ Cardinality(S) \in Nat
      /\ Cardinality({m.from : m \in T}) \in Nat
    BY <1>2, <1>3, FS_Subset, FS_CardinalityType
<1>6. has_quorum(T)
    BY <1>4, <1>5, CommitteeSize DEF has_quorum
<1>7. QED
    BY <1>6 DEF chosen

\* A running operator completes in one of three ways, a restarting one is
\* running again, and no other step touches a completion.
Completes ==
    \/ UNCHANGED completed
    \/ /\ UNCHANGED sent_commit
       /\ \E o \in Active :
             /\ o \in Operators
             /\ \/ /\ completed[o] = NoRoot
                   /\ \E v \in chosen \cap Valid[o] :
                         completed' = [completed EXCEPT ![o] = v]
                \/ /\ completed[o] = NoRoot
                   /\ completed' = [completed EXCEPT ![o] = TimedOut]
                \/ /\ o \in Amnesic
                   /\ completed' = [completed EXCEPT ![o] = NoRoot]

\* Every step is one of those.
LEMMA StepCompletes ==
    ASSUME TypeInv, SafeInv, [Next]_vars
    PROVE  Completes
<1>1. CASE UNCHANGED vars
    BY <1>1 DEF vars, Completes
<1>2. ASSUME NEW o \in Operators, NEW m \in sent_commit, CommitQuorum(o, m)
      PROVE  Completes
    <2> USE <1>2 DEF CommitQuorum
    <2> DEFINE v == proposal_root[o]
               box == commit_container[o] \cup {m}
               T == {x \in box : x.round = m.round /\ x.root = v}
    <2>1. v \in Values /\ has_quorum(T)
        BY DEF reaches_committed, quorum_values
    <2>2. v \in Valid[o]
        BY <2>1, ValuesAssumption DEF TypeInv, ProposalHeld
    <2>3. m.round \in Rounds /\ box \subseteq sent_commit
        BY DEF TypeInv, TypeOK, ContainersSent, CommitMsg
    <2>4. v \in chosen
        <3>1. Cardinality({x.from : x \in T}) >= quorum_size
            BY <2>1 DEF has_quorum
        <3>2. \A q \in {x.from : x \in T} : \E c \in sent_commit :
                  c.from = q /\ c.round = m.round /\ c.root = v
            BY <2>3
        <3>3. QED
            BY <2>1, <2>3, <3>1, <3>2, CommitQuorumChooses
    <2>5. completed[o] = NoRoot
        BY DEF Running, SafeInv, CompletedChosen
    <2>6. QED
        BY <2>2, <2>4, <2>5 DEF Completes, Running
<1>3. ASSUME NEW o \in Operators, NEW m \in sent_decided, ReceiveDecided(o, m)
      PROVE  Completes
    <2> USE <1>3 DEF ReceiveDecided, network
    <2>1. m.root \in Values /\ m.round \in Rounds /\ m.root \in Valid[o]
        BY DEF TypeInv, TypeOK, DecidedMsg, admissible_decided
    <2>2. m.root \in chosen
        BY <2>1, CommitQuorumChooses
        DEF SafeInv, DecidedCommitted, admissible_decided
    <2>3. completed[o] = NoRoot
        BY DEF Running, SafeInv, CompletedChosen
    <2>4. QED
        BY <2>1, <2>2, <2>3 DEF Completes, Running
<1>4. ASSUME NEW o \in Operators, EndLastRound(o)
      PROVE  Completes
    BY <1>4 DEF EndLastRound, Running, network, SafeInv, CompletedChosen,
                Completes
<1>5. ASSUME NEW o \in Operators, Restart(o)
      PROVE  Completes
    BY <1>5 DEF Restart, Completes
<1>6. ASSUME NEW o \in Operators,
             \/ \E m \in sent_proposal :
                   AcceptProposal(o, m) \/ RefuseProposal(o, m)
             \/ \E m \in sent_prepare :
                   StorePrepare(o, m) \/ PrepareQuorum(o, m)
             \/ \E m \in sent_commit : StoreCommit(o, m)
             \/ \E m \in sent_round_change :
                   \/ StoreRoundChange(o, m)
                   \/ RoundChangeQuorum(o, m)
                   \/ RoundChangePartialQuorum(o, m)
             \/ EndRound(o)
      PROVE  Completes
    BY <1>6 DEF AcceptProposal, RefuseProposal, StorePrepare, PrepareQuorum,
                StoreCommit, StoreRoundChange, RoundChangeQuorum,
                RoundChangePartialQuorum, EndRound, Completes
<1>7. QED
    BY <1>1, <1>2, <1>3, <1>4, <1>5, <1>6, NextCases

\* An operator whose instance runs has not completed.
LEMMA RunningNotCompleted ==
    ASSUME TypeInv, SafeInv, [Next]_vars, NEW q \in Operators,
           st'[q] # "Complete"
    PROVE  completed'[q] = NoRoot
<1>1. st[q] # "Complete" => completed[q] = NoRoot
    BY DEF SafeInv, CompletedChosen
<1> USE <1>1 DEF TypeInv, TypeOK
<1>2. CASE UNCHANGED vars
    BY <1>2 DEF vars
<1>3. ASSUME NEW o \in Operators,
             \/ \E m \in sent_proposal :
                   AcceptProposal(o, m) \/ RefuseProposal(o, m)
             \/ \E m \in sent_prepare :
                   StorePrepare(o, m) \/ PrepareQuorum(o, m)
             \/ \E m \in sent_commit : StoreCommit(o, m)
             \/ \E m \in sent_round_change :
                   \/ StoreRoundChange(o, m)
                   \/ RoundChangeQuorum(o, m)
                   \/ RoundChangePartialQuorum(o, m)
             \/ EndRound(o)
      PROVE  completed'[q] = NoRoot
    BY <1>3 DEF AcceptProposal, RefuseProposal, StorePrepare, PrepareQuorum,
                StoreCommit, StoreRoundChange, RoundChangeQuorum,
                RoundChangePartialQuorum, EndRound, Running
<1>4. ASSUME NEW o \in Operators,
             \/ \E m \in sent_commit : CommitQuorum(o, m)
             \/ \E m \in sent_decided : ReceiveDecided(o, m)
             \/ EndLastRound(o)
             \/ Restart(o)
      PROVE  completed'[q] = NoRoot
    BY <1>4 DEF CommitQuorum, ReceiveDecided, EndLastRound, Restart
<1>5. QED
    BY <1>2, <1>3, <1>4, NextCases

\* A decided message aggregates Commits that were sent.
LEMMA DecidedCommittedNext ==
    ASSUME TypeInv, TypeInv', SafeInv, [Next]_vars
    PROVE  DecidedCommitted'
<1>1. SUFFICES ASSUME NEW d \in sent_decided', NEW o \in d.signers
               PROVE  \E c \in sent_commit' :
                          c.from = o /\ c.round = d.round /\ c.root = d.root
    BY DEF DecidedCommitted
<1>2. sent_commit \subseteq sent_commit'
    BY ChosenStable
<1>3. CASE d \in sent_decided
    BY <1>2, <1>3 DEF SafeInv, DecidedCommitted
<1>4. CASE d \notin sent_decided
    <2>1. PICK q \in Operators, m \in sent_commit : CommitQuorum(q, m)
        <3>1. CASE UNCHANGED vars
            BY <1>4, <3>1 DEF vars, network
        <3>2. CASE Next
            BY <1>4, <3>2, NextCases
            DEF AcceptProposal, RefuseProposal, StorePrepare, PrepareQuorum,
                StoreCommit, ReceiveDecided, StoreRoundChange,
                RoundChangeQuorum, RoundChangePartialQuorum, EndRound,
                EndLastRound, Restart, network
        <3>3. QED
            BY <3>1, <3>2
    <2>2. d = aggregate_commit(q, m)
        BY <1>4, <2>1 DEF CommitQuorum
    <2>3. commit_container[q] \cup {m} \subseteq sent_commit
        BY DEF TypeInv, ContainersSent
    <2>4. QED
        BY <1>1, <1>2, <2>2, <2>3 DEF aggregate_commit
<1>5. QED
    BY <1>3, <1>4

\* The third layer is inductive, given the other two.
LEMMA SafeInvNext ==
    ASSUME TypeInv, TypeInv', LockInv, SafeInv, [Next]_vars
    PROVE  SafeInv'
<1>1. PreparesSafe'
    BY PreparesSafeNext DEF SafeInv
<1>2. DecidedCommitted'
    BY DecidedCommittedNext
<1>3. CompletedChosen'
    <2>1. ASSUME NEW q \in Operators, completed'[q] \in Values
          PROVE  completed'[q] \in chosen' \cap Valid[q]
        <3>1. chosen \subseteq chosen'
            BY ChosenStable
        <3>2. completed[q] \in Values => completed[q] \in chosen \cap Valid[q]
            BY DEF SafeInv, CompletedChosen
        <3>3. completed'[q] \in chosen \cap Valid[q]
            BY <2>1, <3>2, StepCompletes, ValuesAssumption
            DEF Completes, TypeInv, TypeOK
        <3>4. QED
            BY <3>1, <3>3
    <2>2. QED
        BY <2>1, RunningNotCompleted DEF CompletedChosen
<1>4. QED
    BY <1>1, <1>2, <1>3 DEF SafeInv

\* A later round never prepares against what an earlier one could choose.
THEOREM SafeInvHolds == Spec => []SafeInv
<1>1. TypeInv /\ TypeInv' /\ LockInv /\ SafeInv /\ [Next]_vars => SafeInv'
    BY SafeInvNext
<1>2. QED
    BY <1>1, SafeInvInit, TypeInvHolds, LockInvHolds, PTL DEF Spec

---------------------------------------------------------------------------
(* The results.                                                            *)

AtMostOneChosen == \A v, w \in chosen : v = w

\* At most one value is ever chosen, in whatever rounds.
THEOREM AtMostOneChosenHolds == Spec => []AtMostOneChosen
<1>1. TypeInv /\ LockInv /\ SafeInv => AtMostOneChosen
    BY ChosenUnique DEF SafeInv, AtMostOneChosen
<1>2. QED
    BY <1>1, TypeInvHolds, LockInvHolds, SafeInvHolds, PTL

\* Whatever the committee, the number of rounds, the losses and reorderings
\* and the restarts of at most f operators: operators that complete with a
\* value complete with the one value a quorum committed.
THEOREM AgreementHolds == Spec => []Agreement
<1>1. AtMostOneChosen /\ SafeInv => Agreement
    BY DEF AtMostOneChosen, SafeInv, CompletedChosen, Agreement
<1>2. QED
    BY <1>1, AtMostOneChosenHolds, SafeInvHolds, PTL

\* An operator completes only with data its own validator accepts.
THEOREM ValidityHolds == Spec => []DecidedIsValid
<1>1. SafeInv => DecidedIsValid
    BY DEF SafeInv, CompletedChosen, DecidedIsValid
<1>2. QED
    BY <1>1, SafeInvHolds, PTL

\* An operator that does not restart never prepares two values in a round.
THEOREM OnePrepareHolds == Spec => []OnePreparePerRound
<1>1. LockInv => OnePreparePerRound
    BY DEF LockInv
<1>2. QED
    BY <1>1, LockInvHolds, PTL

\* An operator that does not restart never forgets a Commit in a RoundChange.
THEOREM KeepsLockHolds == Spec => []RoundChangeKeepsLock
<1>1. LockInv => RoundChangeKeepsLock
    BY DEF LockInv
<1>2. QED
    BY <1>1, LockInvHolds, PTL

\* The instance implements the abstract Consensus: every step chooses the
\* first value, completes an operator, times one out, restarts one, or is
\* invisible.
THEOREM RefinesConsensus == Spec => ImplementsConsensus
<1>1. Init => Abstract!Init
    <2>1. SUFFICES ASSUME Init PROVE Abstract!Init
        OBVIOUS
    <2>2. ASSUME NEW v \in chosen PROVE FALSE
        <3>1. PICK r \in Rounds :
                  has_quorum({m \in sent_commit : m.round = r /\ m.root = v})
            BY DEF chosen
        <3>2. {m \in sent_commit : m.round = r /\ m.root = v} = {}
            BY <2>1 DEF Init
        <3>3. QED
            BY <3>1, <3>2, QuorumNonEmpty
    <2>3. QED
        BY <2>1, <2>2 DEF Init, Abstract!Init
<1>2. ASSUME TypeInv, TypeInv', SafeInv, AtMostOneChosen', [Next]_vars
      PROVE  [Abstract!Next]_<<chosen, completed>>
    <2>1. chosen \subseteq chosen' /\ chosen' \subseteq Values
        BY <1>2, ChosenStable DEF chosen
    <2>2. \A v, w \in chosen' : v = w
        BY <1>2 DEF AtMostOneChosen
    <2>3. CASE UNCHANGED completed
        <3>1. CASE chosen' = chosen
            BY <2>3, <3>1
        <3>2. CASE chosen' # chosen
            <4>1. PICK v \in chosen' : v \notin chosen
                BY <2>1, <3>2
            <4>2. chosen = {} /\ chosen' = {v}
                BY <2>1, <2>2, <4>1
            <4>3. QED
                BY <2>1, <2>3, <4>1, <4>2 DEF Abstract!Next, Abstract!Choose
        <3>3. QED
            BY <3>1, <3>2
    <2>4. CASE ~UNCHANGED completed
        <3>1. sent_commit' = sent_commit
            BY <1>2, <2>4, StepCompletes DEF Completes
        <3>2. chosen' = chosen
            BY <3>1 DEF chosen
        <3>3. QED
            BY <1>2, <2>1, <2>4, <3>2, StepCompletes
            DEF Completes, Abstract!Next, Abstract!Decide, Abstract!TimeOut,
                Abstract!Forget
    <2>5. QED
        BY <2>3, <2>4
<1>3. QED
    BY <1>1, <1>2, TypeInvHolds, SafeInvHolds, AtMostOneChosenHolds, PTL
    DEF Spec, ImplementsConsensus, Abstract!Spec

===========================================================================
