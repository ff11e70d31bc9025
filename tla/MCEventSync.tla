--------------------------- MODULE MCEventSync ---------------------------
(***************************************************************************)
(* Two histories of the contract.  In the first an operator's key cannot   *)
(* be parsed, the cluster of two validators is liquidated and active       *)
(* again, and one of them exits and one leaves.  In the second an operator *)
(* is removed while it is a member, a registration has a wrong nonce, and  *)
(* a validator is registered again after it was removed.                   *)
(***************************************************************************)
EXTENDS EventSync, TLC

Committee == 1..4

OperatorAdded(id, key, valid) == [type |-> "OperatorAdded", id |-> id, key |-> key, valid |-> valid]
OperatorRemoved(id) == [type |-> "OperatorRemoved", id |-> id]
ValidatorAdded(v, nonce) == [type |-> "ValidatorAdded", owner |-> "o", operators |-> Committee,
                             validator |-> v, nonce |-> nonce, valid |-> TRUE]
ValidatorEvent(type, v) == [type |-> type, owner |-> "o", operators |-> Committee, validator |-> v]
ClusterEvent(type) == [type |-> type, owner |-> "o", operators |-> Committee]
FeeRecipient(r) == [type |-> "FeeRecipientAddressUpdated", owner |-> "o", recipient |-> r]

Operators == <<OperatorAdded(1, OwnKey, TRUE), OperatorAdded(2, "k2", TRUE),
               OperatorAdded(3, "k3", TRUE), OperatorAdded(4, "k4", TRUE)>>

MCChains ==
  { << Operators \o <<OperatorAdded(5, "k5", FALSE), ValidatorAdded("v1", 0)>>,
       <<FeeRecipient("r"), ValidatorAdded("v2", 1), ClusterEvent("ClusterLiquidated")>>,
       <<ClusterEvent("ClusterReactivated"), ValidatorEvent("ValidatorExited", "v1")>>,
       <<OperatorRemoved(5), ValidatorEvent("ValidatorRemoved", "v2")>> >>,
    << Operators \o <<ValidatorAdded("v1", 0)>>,
       <<ValidatorAdded("v2", 3), ValidatorEvent("ValidatorRemoved", "v1"), ValidatorAdded("v1", 2)>>,
       <<>>,
       <<OperatorRemoved(4), ValidatorAdded("v2", 3), ValidatorEvent("ValidatorRemoved", "v1")>> >> }

MCBeaconIndex == "v1" :> 11 @@ "v2" :> 12

ASSUME HistoriesFollowRules == \A logs \in MCChains : ContractRules(logs)
=============================================================================
