------------------------------ MODULE MCNetwork ------------------------------
(* Instances of Network: Boole activates at epoch 2 of two slots, warms up   *)
(* for an epoch and has a grace period of two slots.  Cluster c1 keeps its   *)
(* subnet at the fork, c2 moves onto it.                                     *)
EXTENDS Network, TLC

CONSTANTS c1, c2, p1

mc_ForkEpoch == [Alan |-> 0, Boole |-> 2]
mc_NoSlot == -1
mc_Clusters == {c1, c2}
mc_SubnetOf == [Alan |-> (c1 :> 1 @@ c2 :> 2), Boole |-> (c1 :> 1 @@ c2 :> 1)]

\* A node without peers
Churn(slots, start, subscribe_all, n) ==
    [config |-> [subscribe_all_subnets |-> subscribe_all, scoring |-> TRUE, dynamic |-> FALSE,
                 discovery |-> FALSE, announced |-> {}, peers |-> {},
                 peer_topics |-> {}, clock |-> slots, max_changes |-> 1, max_restarts |-> n],
     clusters |-> (c1 :> "live" @@ c2 :> "live"), clock |-> {start}]

\* A node with peers: the clock stands still.
Peering(ps, slot) ==
    [config |-> [subscribe_all_subnets |-> FALSE, scoring |-> FALSE, dynamic |-> TRUE,
                 discovery |-> TRUE, announced |-> AllForks, peers |-> ps,
                 peer_topics |-> AllForks \X {1}, clock |-> {slot}, max_changes |-> 0, max_restarts |-> 0],
     clusters |-> (c1 :> "live" @@ c2 :> "absent"), clock |-> {slot}]

mc_Scenarios ==
    {Churn({0, 2, 4}, 0, FALSE, 0), Churn({4, 6, mc_NoSlot}, 4, TRUE, 1),
     Peering({p1}, 0)}

mc_OnePeer == {p1}
mc_PeerEnr == [p \in AllPeers |-> {1}]
mc_PeerDomains == [p \in AllPeers |-> [main |-> "Alan", next |-> "Boole"]]
=============================================================================
