----------------------------- MODULE PeerManager -----------------------------
(***************************************************************************)
(* The peer manager (anchor/network/src/peer_manager): which peers are     *)
(* connected and blocked, what is known of their subnets from gossipsub    *)
(* and from their records, whom to dial and whom to let in.  The limits    *)
(* and the block list of libp2p are modelled by how they are used here.    *)
(***************************************************************************)
EXTENDS SubnetService

LOCAL INSTANCE SequencesExt

CONSTANTS
    AllPeers,
    PeerEnr,                \* the subnets in the record of a peer
    BASE_PEER_COUNT,
    PEERS_PER_SUBNET,
    MAX_PEER_COUNT,
    MIN_PEERS_PER_SUBNET,
    PEER_OVERDIAL_FACTOR,
    RETAIN_SCORE            \* how many heartbeats a peer stays blocked

VARIABLES
    connections,    \* the established connections, <<peer, direction>>
    closing,        \* the ones that are being closed
    dialing,        \* the peers that are being dialed
    shaking,        \* the peers that have not answered the handshake yet
    failures,       \* the peers whose failed handshake is to be handled
    gossip,         \* the topics gossipsub has from each peer
    peers           \* the state of the peer manager

peerVars == <<connections, closing, dialing, shaking, failures, gossip, peers>>

Directions == {"inbound", "outbound"}
of_peer(p) == {c \in connections : c[1] = p}

\* ObservedPeerSubnets
Unknown == [known |-> FALSE, topics |-> {}]
Known(topics) == [known |-> TRUE, topics |-> topics]

calculate_target_peers(n) ==
    IF BASE_PEER_COUNT + n * PEERS_PER_SUBNET < MAX_PEER_COUNT
    THEN BASE_PEER_COUNT + n * PEERS_PER_SUBNET ELSE MAX_PEER_COUNT

\* A number of tenths of the target, rounded up.
tenths(target, n) == (target * n + 9) \div 10

max_established_incoming(target) == tenths(target, 9)
max_established(target) == tenths(target, 11)
max_with_priority_peers(target) == tenths(target, 13)

\* connected and the observed subnets of the connection manager; established
\* is what its connection_limits has counted.  The counts of inbound and
\* outbound peers are for logs only.
InitialPeers(target) ==
    [target |-> target, connected |-> {},
     observed |-> <<>>, established |-> {}, needed |-> {}, stored |-> {},
     blocked |-> [p \in AllPeers |-> 0]]

blocked_peers == {p \in AllPeers : peers.blocked[p] > 0}

---------------------------------------------------------------------------
(* What is known of the subnets of a peer.                                 *)

subnets_in(topics, forks) == {t[2] : t \in {u \in topics : u[1] \in forks}}

\* get_peer_subnets_for_lifecycle: only the current fork counts in Normal,
\* any fork during a transition.  The result is a set of at most one set.
observed_subnets(pm, p) ==
    IF p \notin DOMAIN pm.observed \/ ~pm.observed[p].known THEN {}
    ELSE {subnets_in(pm.observed[p].topics,
                     IF lifecycle.phase = "Normal" THEN {lifecycle.current} ELSE AllForks)}

\* get_peer_subnets_with_enr_fallback
subnets_with_enr_fallback(pm, p) ==
    IF observed_subnets(pm, p) # {} THEN observed_subnets(pm, p)
    ELSE IF p \in pm.stored THEN {PeerEnr[p]} ELSE {}

count_observed_peers(pm, s) ==
    Cardinality({p \in pm.connected : \E subnets \in observed_subnets(pm, p) : s \in subnets})

qualifies_for_priority_connection(pm, p) ==
    \E subnets \in subnets_with_enr_fallback(pm, p) : \E s \in subnets \cap pm.needed :
        count_observed_peers(pm, s) < MIN_PEERS_PER_SUBNET

should_dial_peer(pm, p) ==
    /\ pm.blocked[p] = 0 /\ p \notin pm.connected
    /\ \/ Cardinality(pm.connected) < pm.target
       \/ qualifies_for_priority_connection(pm, p)

offers_needed_subnets_with_enr_fallback(pm, p) ==
    \/ pm.needed = {}
    \/ subnets_with_enr_fallback(pm, p) = {}
    \/ \E subnets \in subnets_with_enr_fallback(pm, p) : subnets \cap pm.needed # {}

should_disconnect_due_to_subnets(pm, p) ==
    /\ pm.needed # {}
    /\ \A subnets \in observed_subnets(pm, p) : subnets \cap pm.needed = {}

candidate_peers(pm) == {p \in pm.stored \ pm.connected : pm.blocked[p] = 0}

\* determine_actions_for_subnets: the stored peers to dial for these subnets,
\* tried in a random order until the need of every subnet is met, and the
\* subnets whose need is not met by them.
determine_actions(pm, subnets) ==
    LET need(s) == IF count_observed_peers(pm, s) < MIN_PEERS_PER_SUBNET
                   THEN (MIN_PEERS_PER_SUBNET - count_observed_peers(pm, s)) * PEER_OVERDIAL_FACTOR
                   ELSE 0
        offered(ps, s) == Cardinality({p \in ps : s \in PeerEnr[p]})
        dialed(order) ==
            {order[i] : i \in {j \in DOMAIN order : \E s \in PeerEnr[order[j]] \cap subnets :
                                  offered({order[k] : k \in 1..(j - 1)}, s) < need(s)}}
        actions(D) == [dial |-> D, discover |-> {s \in subnets : offered(D, s) < need(s)}]
    IN  {actions(dialed(order)) : order \in SetToSeqs(candidate_peers(pm))}

\* process_discovered_peer, up to the choice whether to dial
process_discovered_peers(pm, found) == [pm EXCEPT !.stored = @ \cup found]

\* set_peer_subscribed
set_peer_subscribed(pm, p, t, subscribed) ==
    LET old == IF p \in DOMAIN pm.observed THEN pm.observed[p].topics ELSE {}
        new == IF subscribed THEN old \cup {t} ELSE old \ {t}
    IN  [pm EXCEPT !.observed = [q \in DOMAIN @ \cup {p} |->
                                    IF q = p THEN Known(new) ELSE @[q]]]

---------------------------------------------------------------------------
(* Subnets joined and left.                                                *)

\* set_target_peers: a new target comes with new, empty connection limits.
set_target_peers(pm, target) ==
    IF target = pm.target THEN pm
    ELSE [pm EXCEPT !.target = target, !.established = {}]

with_target(pm) ==
    IF config.dynamic THEN set_target_peers(pm, calculate_target_peers(Cardinality(pm.needed)))
    ELSE pm

join_subnet(pm, s) == with_target([pm EXCEPT !.needed = @ \cup {s}])
leave_subnet(pm, s) == with_target([pm EXCEPT !.needed = @ \ {s}])

---------------------------------------------------------------------------
(* The heartbeat and the blocked peers.                                    *)

less_one(n) == IF n > 0 THEN n - 1 ELSE 0

\* check_and_unblock_expired_peers: blocked[p] is one more than the
\* heartbeats that are left.
unblocked(pm) ==
    [pm EXCEPT !.blocked = [p \in AllPeers |-> less_one(@[p])]]

\* block_peer
block(pm, ps) ==
    [pm EXCEPT !.blocked = [p \in AllPeers |->
                               IF p \in ps /\ @[p] = 0 THEN RETAIN_SCORE ELSE @[p]]]

\* heartbeat: expired peers are unblocked before candidates are chosen.
heartbeat(pm) ==
    {[peers |-> unblocked(pm), actions |-> actions] :
        actions \in determine_actions(unblocked(pm), pm.needed)}

---------------------------------------------------------------------------
(* Connections.                                                            *)

\* connection_limits
limit_result(p, direction) ==
    /\ direction = "inbound" =>
          Cardinality({c \in peers.established : c[2] = "inbound"})
              < max_established_incoming(peers.target)
    /\ Cardinality(peers.established) < max_established(peers.target)
    /\ \A c \in peers.established : c[1] # p

\* finish_established_connection
finish_established_connection(p, direction) ==
    IF limit_result(p, direction) THEN offers_needed_subnets_with_enr_fallback(peers, p)
    ELSE /\ max_with_priority_peers(peers.target) > Cardinality(peers.connected)
         /\ qualifies_for_priority_connection(peers, p)

\* on_connection_established
on_connection_established(p, direction) ==
    [peers EXCEPT
        !.observed = [q \in DOMAIN @ \cup {p} |-> IF q \in DOMAIN @ THEN @[q] ELSE Unknown],
        !.connected = @ \cup {p},
        !.established = @ \cup {<<p, direction>>}]

\* on_connection_closed, whether or not another connection of the peer is left
on_connection_closed(p, direction) ==
    [peers EXCEPT
        !.observed = [q \in DOMAIN @ \ {p} |-> @[q]],
        !.connected = @ \ {p},
        !.established = @ \ {<<p, direction>>}]

\* should_initiate_handshake: on the first connection, if this node dialed
should_initiate_handshake(p, direction) == direction = "outbound" /\ of_peer(p) = {}

\* A dial succeeds or a peer connects: the block list, then the limits.
Establish(p, direction) ==
    /\ p \in config.peers
    /\ <<p, direction>> \notin connections
    /\ direction = "outbound" => p \in dialing
    /\ dialing' = IF direction = "outbound" THEN dialing \ {p} ELSE dialing
    /\ IF p \notin blocked_peers /\ finish_established_connection(p, direction)
       THEN /\ connections' = connections \cup {<<p, direction>>}
            /\ shaking' = IF should_initiate_handshake(p, direction) THEN shaking \cup {p}
                          ELSE shaking
            /\ peers' = on_connection_established(p, direction)
       ELSE UNCHANGED <<connections, shaking, peers>>
    /\ UNCHANGED <<monitorVars, serviceVars, closing, failures, gossip>>

DialFails(p) ==
    /\ p \in dialing
    /\ dialing' = dialing \ {p}
    /\ UNCHANGED <<monitorVars, serviceVars, connections, closing, shaking, failures, gossip, peers>>

\* A connection is closed by either side, or times out.  A request that is
\* not answered fails with the last one.
Close(c) ==
    /\ c \in connections
    /\ connections' = connections \ {c}
    /\ closing' = closing \ {c}
    /\ peers' = on_connection_closed(c[1], c[2])
    /\ LET last == of_peer(c[1]) = {c}
       IN  /\ gossip' = IF last THEN [gossip EXCEPT ![c[1]] = {}] ELSE gossip
           /\ shaking' = IF last THEN shaking \ {c[1]} ELSE shaking
           /\ failures' = IF last /\ c[1] \in shaking THEN failures \cup {c[1]} ELSE failures
    /\ UNCHANGED <<monitorVars, serviceVars, dialing>>

\* swarm.disconnect_peer_id
disconnect(ps) == closing \cup {c \in connections : c[1] \in ps}

\* swarm.dial with DisconnectedAndNotDialing
dial(ps) == dialing \cup {p \in ps : of_peer(p) = {}}
=============================================================================
