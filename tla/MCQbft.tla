------------------------------ MODULE MCQbft ------------------------------
(* Instances of Qbft for TLC.                                              *)
EXTENDS Qbft, TLC

CONSTANTS a, b

\* Every operator would propose data of its own, all of it valid.
MCStart == [o \in Operators |-> IF o % 2 = 1 THEN a ELSE b]

MCValid == [o \in Operators |-> {a, b}]

\* Operator 3 does not accept a, which the first leader proposes (e.g. its
\* slashing protection refuses it); the other three are a quorum for it.
MCPickyValid == [o \in Operators |-> IF o = 3 THEN {b} ELSE {a, b}]

\* What an operator's stored messages can still influence: nothing once it
\* completed, otherwise the current and later rounds and the Prepares behind
\* its lock.  States that agree on this have the same futures.
live(box, o) ==
    IF st[o] = "Complete" THEN {}
    ELSE {m \in box[o] : m.round >= round[o]}

live_prepares(o) ==
    IF st[o] = "Complete" THEN {}
    ELSE live(prepare_container, o) \cup
         {m \in prepare_container[o] : m.round = last_prepared_round[o]
                                       /\ m.root = last_prepared_value[o]}

LocalView(o) ==
    IF st[o] = "Complete" THEN <<completed[o]>>
    ELSE <<round[o], st[o], accepted[o], proposal_root[o],
           start_data[o], last_prepared_round[o], last_prepared_value[o],
           {r \in propose_container[o] : r >= round[o]}, live_prepares(o),
           live(commit_container, o), live(round_change_container, o)>>

\* The proposal of round 1 is lost, and operator 4's timer does not fire.
FirstProposalLost ==
    /\ \A p \in sent_prepare : p.round > 1
    /\ \A rc \in sent_round_change : rc.from # 4

\* Operator 4 hears nothing: all it may do is time out and ask for round 2 in
\* operator 3's place, when the proposal of round 1 was lost; operator 3 then
\* enters the round by its proposal.
FourthStandsIn ==
    /\ propose_container[4] = {} /\ prepare_container[4] = {}
    /\ commit_container[4] = {} /\ round_change_container[4] = {}
    /\ completed[4] = NoRoot
    /\ (\E m \in sent_round_change : m.from = 4) =>
          /\ \A m \in sent_round_change : m.from # 3
          /\ \A p \in sent_prepare : p.round = 2

\* The messages of a kind and round arrive in the order of their senders,
\* those of operator 3, which may not send any, wherever they fall.
InOrder(box) ==
    \A o \in Operators : \A m \in box[o] : \A q \in {1, 2, 4} :
        q < m.from => \E x \in box[o] : x.round = m.round /\ x.from = q

\* Operator 4's timer does not fire in round 1, nobody's in round 2, and
\* RoundChanges reach operators 1 and 2, which wait for round 2 to start.
\* Commits reach operator 1 or operator 3; the others learn the decision from
\* the decided message.  Operator 3 hears no Prepare for the value it refuses.
ThirdRefuses ==
    /\ \A o \in Operators : completed[o] # TimedOut
    /\ \A m \in sent_round_change : m.from # 4
    /\ \A o \in {3, 4} : round_change_container[o] = {}
    /\ \A o \in {2, 4} : commit_container[o] = {}
    /\ commit_container[1] = {} \/ commit_container[3] = {}
    /\ \A m \in prepare_container[3] : m.root # a
    /\ InOrder(prepare_container)
    /\ InOrder(commit_container)
    /\ InOrder(round_change_container)

View == <<[o \in Operators |-> LocalView(o)], network>>
===========================================================================
