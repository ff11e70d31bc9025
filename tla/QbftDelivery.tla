--------------------------- MODULE QbftDelivery ---------------------------
(***************************************************************************)
(* Qbft under the conditions in which it is meant to decide: every message *)
(* reaches every running operator, once, in any order, and from round      *)
(* GoodRound on the round timers are long enough not to fire.  Messages    *)
(* the handlers turn down are gone, as they are in receive_qbft_message    *)
(* (anchor/qbft_manager/src/instance.rs), which logs the error and moves   *)
(* on.  The one assumption on the order is causal: a Proposal, Prepare or  *)
(* Commit of a round after the first reaches an operator after a quorum of *)
(* RoundChanges for that round (its sender had seen one).  Otherwise       *)
(* received_propose and received_prepare turn it down while the operator   *)
(* still waits for those, and the round is lost.                           *)
(***************************************************************************)
EXTENDS Qbft

CONSTANT GoodRound    \* the first round whose timers do not fire

ASSUME GoodRoundAssumption == GoodRound \in Rounds

VARIABLE delivered    \* delivered[o]: the messages handed to operator o

delivery_vars == <<vars, delivered>>

\* Every message on its way to o, with its kind.
in_transit(o) ==
    ({[kind |-> "Proposal", msg |-> m] : m \in sent_proposal}
     \cup {[kind |-> "Prepare", msg |-> m] : m \in sent_prepare}
     \cup {[kind |-> "Commit", msg |-> m] : m \in sent_commit}
     \cup {[kind |-> "RoundChange", msg |-> m] : m \in sent_round_change}
     \cup {[kind |-> "Decided", msg |-> m] : m \in sent_decided})
    \ delivered[o]

\* The operator has the RoundChanges that precede d, if there are any.
causally_ready(o, d) ==
    (d.kind \in {"Proposal", "Prepare", "Commit"} /\ d.msg.round > 1)
        => has_quorum_disregarding_root(round_change_container[o], d.msg.round)

\* Qbft::receive for a message that some handler accepts.
handle(o, d) ==
    \/ /\ d.kind = "Proposal"
       /\ AcceptProposal(o, d.msg) \/ RefuseProposal(o, d.msg)
    \/ /\ d.kind = "Prepare"
       /\ StorePrepare(o, d.msg) \/ PrepareQuorum(o, d.msg)
    \/ /\ d.kind = "Commit"
       /\ StoreCommit(o, d.msg) \/ CommitQuorum(o, d.msg)
    \/ /\ d.kind = "RoundChange"
       /\ \/ StoreRoundChange(o, d.msg)
          \/ RoundChangeQuorum(o, d.msg)
          \/ RoundChangePartialQuorum(o, d.msg)
    \/ /\ d.kind = "Decided"
       /\ ReceiveDecided(o, d.msg)

\* Qbft::receive for a message that its handler turns down with an error.
turned_down(o, d) ==
    \/ d.kind = "Proposal" /\ ~admissible_proposal(o, d.msg)
    \/ d.kind = "Prepare" /\ ~admissible_prepare(o, d.msg)
    \/ d.kind = "Commit" /\ ~admissible_commit(o, d.msg)
    \/ d.kind = "RoundChange" /\ ~admissible_round_change(o, d.msg)
    \/ d.kind = "Decided" /\ ~admissible_decided(o, d.msg)

Deliver(o) ==
    /\ Running(o)
    /\ \E d \in in_transit(o) :
          /\ causally_ready(o, d)
          /\ \/ handle(o, d)
             \/ turned_down(o, d) /\ UNCHANGED vars
          /\ delivered' = [delivered EXCEPT ![o] = @ \cup {d}]

EarlyTimeout(o) ==
    /\ round[o] < GoodRound
    /\ EndRound(o)
    /\ UNCHANGED delivered

DeliveryInit == Init /\ delivered = [o \in Operators |-> {}]

DeliveryNext == \E o \in Operators : Deliver(o) \/ EarlyTimeout(o)

\* The network delivers (gossip, and the processor's queue of the instance)
\* and an armed round timer fires.
DeliverySpec ==
    /\ DeliveryInit
    /\ [][DeliveryNext]_delivery_vars
    /\ \A o \in Operators : WF_delivery_vars(Deliver(o) \/ EarlyTimeout(o))

\* Every running operator completes with a value, if those that run make a
\* quorum: neither the order of the messages nor what the handlers drop
\* leaves the committee waiting for a timer
\* (test_consensus_with_f_faulty_operators delivers in one order only).
EveryoneDecides == \A o \in Active : <>(completed[o] \in Values)

===========================================================================
