------------------------------- MODULE Network -------------------------------
(***************************************************************************)
(* The network task (anchor/network/src/network.rs) with the fork monitor, *)
(* the subnet service, the peer manager, discovery and the handshake:      *)
(* topics are joined and left in gossipsub, subnets are counted over the   *)
(* forks, and the node's record and handshake data advertise the subnets   *)
(* and the domain of the fork.                                             *)
(***************************************************************************)
EXTENDS Handshake

CONSTANTS
    Scenarios       \* what to start with: the configuration, with bounds of the
                    \* clock, of the changes of the database and of restarts

\* A process starts with a clock that can be read.
ASSUME ScenarioAssumption ==
    \A sc \in Scenarios :
        sc.clock \subseteq Nat /\ sc.config.clock \subseteq Nat \cup {NoSlot}

VARIABLES
    network,    \* the network task and what it advertises
    changes,    \* how often the database changed
    restarts

networkVars == <<network, changes, restarts>>
vars == <<monitorVars, serviceVars, peerVars, discoveryVars, networkVars>>

\* The task before it is built.  metadata are the subnets of its handshake
\* data; counts, the topics of a subnet.
InitialNetwork ==
    [pc |-> "building", topics |-> {}, scored |-> {},
     counts |-> [s \in Subnets |-> 0], metadata |-> {}]

Running == network.pc = "running"

\* The state of a process that has just started.
StartProcess(slot) ==
    /\ node = "up"
    /\ SpawnMonitor(slot)
    /\ service = InitialService
    /\ channel = <<>>
    /\ db_changed = FALSE
    /\ connections = {} /\ closing = {} /\ dialing = {}
    /\ shaking = {} /\ failures = {}
    /\ gossip = [p \in AllPeers |-> {}]
    /\ peers = InitialPeers(BASE_PEER_COUNT)
    /\ enr = build_enr("none") /\ queries = {}
    /\ network = InitialNetwork

Init ==
    /\ \E sc \in Scenarios :
          /\ config = sc.config /\ clusters = sc.clusters
          /\ clock \in sc.clock
    /\ changes = 0 /\ restarts = 0
    /\ StartProcess(clock)

---------------------------------------------------------------------------
(* Construction and the lifecycle.                                         *)

\* Discovery::new builds the record from the lifecycle, then waits for
\* discv5 and the boot nodes.
Build ==
    /\ network.pc = "building"
    /\ network' = [network EXCEPT !.pc = "starting"]
    /\ enr' = build_enr(lifecycle.current)
    /\ UNCHANGED <<monitorVars, serviceVars, peerVars, queries, changes, restarts>>

\* The network task ends, and with it its connections.
Stop ==
    /\ network' = [network EXCEPT !.pc = "stopped"]
    /\ closing' = connections
    /\ UNCHANGED <<connections, dialing, shaking, failures, gossip, peers, changes, restarts>>

\* The rest of try_new: the search for peers starts, and reconcile_enr_domain
\* reads the lifecycle again, without marking it as seen.  The client does
\* not start without a network.
Reconcile ==
    /\ network.pc = "starting"
    /\ \/ /\ update_enr_domain_type(lifecycle.current)
          /\ network' = [network EXCEPT !.pc = "running"]
          /\ queries' = discover_peers
          /\ UNCHANGED <<node, peerVars, changes, restarts>>
       \/ update_fails(lifecycle.current) /\ Stop /\ request_shutdown /\ UNCHANGED queries
    /\ UNCHANGED <<clock, highest_observed_slot, lifecycle, unseen, serviceVars>>

\* Mutant: only the end of the grace period updates the record.
OnLifecycleChangedLate ==
    /\ Running /\ "network" \in unseen
    /\ unseen' = unseen \ {"network"}
    /\ IF lifecycle.phase = "Normal" THEN update_enr_domain_type(lifecycle.current)
       ELSE UNCHANGED enr
    /\ UNCHANGED <<clock, highest_observed_slot, lifecycle, node>>
    /\ UNCHANGED <<serviceVars, peerVars, queries, networkVars>>

\* on_lifecycle_changed; a record that cannot be updated stops the client.
OnLifecycleChanged ==
    /\ Running /\ "network" \in unseen
    /\ unseen' = unseen \ {"network"}
    /\ \/ update_enr_domain_type(lifecycle.current) /\ UNCHANGED <<node, peerVars, networkVars>>
       \/ update_fails(lifecycle.current) /\ Stop /\ request_shutdown
    /\ UNCHANGED <<clock, highest_observed_slot, lifecycle, queries, serviceVars>>

\* handle_outbound_message, handle_validation_outcome: as the client stops,
\* the channels of messages and of outcomes are closed.
ChannelsClose ==
    /\ Running /\ node = "stopping"
    /\ Stop
    /\ UNCHANGED <<monitorVars, serviceVars, discoveryVars>>

---------------------------------------------------------------------------
(* Topic events.                                                           *)

\* NodeMetadata::set_subscribed
metadata_set_subscribed(subnets, s, subscribed) ==
    IF subscribed THEN subnets \cup {s} ELSE subnets \ {s}

\* update_subnet_membership: the record and the handshake data
update_subnet_membership(net, s, subscribed) ==
    /\ enr' = set_subscribed(enr, s, subscribed)
    /\ network' = [net EXCEPT !.metadata = metadata_set_subscribed(@, s, subscribed)]

\* handle_connect_actions
handle_connect_actions(actions) ==
    /\ dialing' = dial(actions.dial)
    /\ queries' = start_subnet_queries({actions.discover})

\* Mutant: every subscription joins, every unsubscription leaves.
on_unsubscribe_uncounted(t) ==
    /\ update_subnet_membership([network EXCEPT !.topics = @ \ {t},
                                                !.counts[t[2]] = IF @ > 0 THEN @ - 1 ELSE 0],
                                t[2], FALSE)
    /\ peers' = leave_subnet(peers, t[2])
    /\ UNCHANGED <<dialing, queries>>

on_subscribe(t, rate) ==
    LET first == network.counts[t[2]] = 0
        net == [network EXCEPT !.topics = @ \cup {t},
                               !.scored = IF rate THEN @ \cup {t} ELSE @,
                               !.counts[t[2]] = @ + 1]
    IN  IF first
        THEN /\ update_subnet_membership(net, t[2], TRUE)
             /\ peers' = join_subnet(peers, t[2])
             /\ \E actions \in determine_actions(peers, {t[2]}) : handle_connect_actions(actions)
        ELSE network' = net /\ UNCHANGED <<peers, dialing, discoveryVars>>

on_unsubscribe(t) ==
    LET net == [network EXCEPT !.topics = @ \ {t},
                               !.counts[t[2]] = IF @ > 0 THEN @ - 1 ELSE 0]
    IN  /\ IF network.counts[t[2]] = 1
           THEN /\ update_subnet_membership(net, t[2], FALSE)
                /\ peers' = leave_subnet(peers, t[2])
           ELSE network' = net /\ UNCHANGED <<peers, enr>>
        /\ UNCHANGED <<dialing, queries>>

\* on_topic_event
OnTopicEvent ==
    /\ Running /\ channel # <<>>
    /\ channel' = Tail(channel)
    /\ LET e == Head(channel)
       IN  CASE e.kind = "Subscribe" -> on_subscribe(e.topic, e.rate)
             [] e.kind = "Unsubscribe" -> on_unsubscribe(e.topic)
             [] e.kind = "RateUpdate" ->
                  /\ network' = [network EXCEPT !.scored = @ \cup {e.topic}]
                  /\ UNCHANGED <<peers, dialing, discoveryVars>>
    /\ UNCHANGED <<monitorVars, config, clusters, db_changed, service>>
    /\ UNCHANGED <<connections, closing, shaking, failures, gossip, changes, restarts>>

---------------------------------------------------------------------------
(* Peers.                                                                  *)

Connected(p) == of_peer(p) # {}

\* A peer joins or leaves a topic (handle_gossipsub_event).
PeerTopic(p, t) ==
    /\ Running /\ Connected(p)
    /\ LET subscribed == t \notin gossip[p]
       IN  /\ gossip' = [gossip EXCEPT ![p] = IF subscribed THEN @ \cup {t} ELSE @ \ {t}]
           /\ peers' = set_peer_subscribed(peers, p, t, subscribed)
    /\ UNCHANGED <<monitorVars, serviceVars, discoveryVars, networkVars>>
    /\ UNCHANGED <<connections, closing, dialing, shaking, failures>>

\* on_discovered_peers, process_discovered_peer
Discovered(query, found) ==
    /\ Running
    /\ process_completed_queries(query, found)
    /\ peers' = process_discovered_peers(peers, found)
    /\ dialing' = dial({p \in found : should_dial_peer(peers', p)})
    /\ UNCHANGED <<monitorVars, serviceVars, networkVars>>
    /\ UNCHANGED <<connections, closing, shaking, failures, gossip>>

\* handle_handshake_result of a failure; a handshake that completes only
\* names the client of the peer.
HandleHandshakeResult(p) ==
    /\ Running /\ p \in failures
    /\ failures' = failures \ {p}
    /\ closing' = disconnect({p})
    /\ UNCHANGED <<monitorVars, serviceVars, discoveryVars, networkVars>>
    /\ UNCHANGED <<connections, dialing, shaking, gossip, peers>>

SwarmPeers == {c[1] : c \in connections}

\* Mutant: low-scored peers are blocked, their connections kept.
ToDisconnectUnblocked(low, pruned) ==
    pruned \cup (IF peers.needed = {} THEN {}
                 ELSE {p \in peers.connected : should_disconnect_due_to_subnets(peers, p)} \ low)

\* The peers a heartbeat disconnects: of a low score, the worst ones above
\* the target, and those without a needed subnet.
ToDisconnect(low, pruned) ==
    low \cup pruned
        \cup (IF peers.needed = {} THEN {}
              ELSE {p \in peers.connected : should_disconnect_due_to_subnets(peers, p)})

\* heartbeat and handle_peer_manager_heartbeat
Heartbeat(low, pruned) ==
    /\ Running
    /\ low \subseteq SwarmPeers /\ pruned \subseteq SwarmPeers \ low
    /\ LET excess == IF Cardinality(SwarmPeers) > peers.target
                     THEN Cardinality(SwarmPeers) - peers.target ELSE 0
       IN  \/ Cardinality(pruned) = excess
           \/ Cardinality(pruned) < excess /\ pruned = SwarmPeers \ low
    /\ closing' = disconnect(ToDisconnect(low, pruned))
    /\ \E h \in heartbeat(peers) :
          /\ peers' = block(h.peers, low)
          /\ dialing' = dial(h.actions.dial)
          /\ queries' = start_subnet_queries(
                           {h.actions.discover, IF Cardinality(peers.connected) < peers.target
                                                THEN peers.needed ELSE {}})
    /\ UNCHANGED <<monitorVars, serviceVars, enr, networkVars>>
    /\ UNCHANGED <<connections, shaking, failures, gossip>>

---------------------------------------------------------------------------
(* The process.                                                            *)

\* Time goes on, is corrected or cannot be read.  Once the monitor has
\* stopped, it matters to a restart only.
ClockMoves(slot) ==
    /\ node = "up" \/ restarts < config.max_restarts
    /\ slot \in config.clock /\ clock' = slot
    /\ UNCHANGED <<highest_observed_slot, lifecycle, unseen, node>>
    /\ UNCHANGED <<serviceVars, peerVars, discoveryVars, networkVars>>

\* The process ends, as it asked for or in a crash, and is started again.
Restart ==
    /\ restarts < config.max_restarts /\ clock # NoSlot
    /\ restarts' = restarts + 1
    /\ node' = "up"
    /\ highest_observed_slot' = clock /\ lifecycle' = lifecycle_at(clock) /\ unseen' = {}
    /\ service' = InitialService /\ channel' = <<>> /\ db_changed' = FALSE
    /\ connections' = {} /\ closing' = {} /\ dialing' = {}
    /\ shaking' = {} /\ failures' = {}
    /\ gossip' = [p \in AllPeers |-> {}]
    /\ peers' = InitialPeers(BASE_PEER_COUNT)
    /\ enr' = build_enr("none") /\ queries' = {}
    /\ network' = InitialNetwork
    /\ UNCHANGED <<clock, config, clusters, changes>>

MonitorStep == Observe /\ UNCHANGED <<serviceVars, peerVars, discoveryVars, networkVars>>

ServiceStep ==
    /\ \/ HandleLifecycle \/ HandleDbChange \/ EpochTick
       \/ BeginSubnetChanges \/ (\E f \in Scheduled : BeginFork(f)) \/ EndFork \/ Done
       \/ network.pc # "stopped" /\ \E t \in Topics : Send(t)
       \/ network.pc = "stopped" /\ SendFails
    /\ UNCHANGED <<peerVars, discoveryVars, networkVars>>

DatabaseStep ==
    /\ changes < config.max_changes
    /\ changes' = changes + 1
    /\ \E c \in Clusters : \E to \in {"absent", "live", "liquidated"} : ClusterChanges(c, to)
    /\ UNCHANGED <<peerVars, discoveryVars, network, restarts>>

\* handle_swarm_event, handle_behaviour_event
PeerStep ==
    \/ /\ \/ \E p \in AllPeers : DialFails(p)
          \/ Running /\ \E p \in AllPeers, d \in Directions : Establish(p, d)
          \/ \E c \in connections : Close(c)
       /\ UNCHANGED <<discoveryVars, networkVars>>
    \/ /\ Running
       /\ \E p \in AllPeers :
             \/ \E d \in config.announced : HandleRequest(p, d) \/ HandleResponse(p, d)
             \/ OutboundFailure(p) \/ InboundFailure(p)
       /\ UNCHANGED networkVars
    \/ \E p \in AllPeers :
          \/ HandleHandshakeResult(p)
          \/ \E t \in config.peer_topics : PeerTopic(p, t)
    \/ \E q \in queries : \E found \in SUBSET admitted(q) : Discovered(q, found)
    \/ \E low, pruned \in SUBSET AllPeers : Heartbeat(low, pruned)

Next ==
    \/ \E slot \in config.clock : ClockMoves(slot)
    \/ MonitorStep \/ ServiceStep \/ DatabaseStep
    \/ Build \/ Reconcile \/ OnLifecycleChanged \/ OnTopicEvent \/ ChannelsClose
    \/ PeerStep
    \/ Restart

---------------------------------------------------------------------------
(* Properties.                                                             *)

RequiredTopics == UNION {topics_of(f, generate_subnets(f)) : f \in lifecycle.forks}
SubnetsOf(topics) == {t[2] : t \in topics}

\* Everything the node has joined, counts, advertises and looks for agrees
\* with the lifecycle and with the live clusters of the operator.
Consistent ==
    /\ network.topics = RequiredTopics
    /\ enr.domain = lifecycle.current
    /\ LET joined == SubnetsOf(RequiredTopics)
       IN  /\ enr.subnets = joined /\ network.metadata = joined /\ peers.needed = joined
           /\ \A s \in Subnets :
                 network.counts[s] = Cardinality({t \in network.topics : t[2] = s})
    /\ config.scoring => {t \in network.topics : t[1] = lifecycle.current} \subseteq network.scored

Settled ==
    /\ Running /\ unseen = {} /\ service.pc = "idle" /\ channel = <<>>
    /\ config.subscribe_all_subnets \/ ~db_changed

\* Whenever nothing is on its way, the node is consistent: however the
\* lifecycle, the clusters, the channel and the network task interleaved, and
\* although two forks may share a subnet, no topic is forgotten, none is kept,
\* no subnet is advertised that has no topic, and none that has one is not.
SettledIsConsistent == Settled => Consistent

\* The place of a lifecycle in the order of the schedule.
Stage(l) == 3 * ForkIndex[l.current] + [GracePeriod |-> 0, Normal |-> 1, WarmUp |-> 2][l.phase]

\* In one life of the process the published lifecycle only goes forward, as
\* the clock goes back and forth (monitor.rs, classify_observation).
LifecycleOnlyAdvances ==
    [][restarts' = restarts => Stage(lifecycle') >= Stage(lifecycle)]_vars

\* Every change of the lifecycle and of the clusters is followed through: the
\* node is consistent in the end, unless it has stopped.
Converges == <>[](Consistent \/ node # "up" \/ network.pc = "stopped")

\* A connection of a peer that is blocked, or whose handshake failed, is
\* closed: although the block may expire, the peer may be dialed again before
\* it is, and the failure may be the one of an earlier connection.
UnwelcomePeersLeave ==
    \A c \in AllPeers \X Directions :
        (c[1] \in blocked_peers \cup failures /\ c \in connections) ~> c \notin connections

---------------------------------------------------------------------------
(* Fairness.  Tasks make progress; the select! of the subnet service takes *)
(* its arms in a random order, so that none is passed over forever.        *)
Fairness ==
    /\ WF_vars(MonitorStep)
    /\ SF_vars(HandleLifecycle /\ UNCHANGED <<peerVars, discoveryVars, networkVars>>)
    /\ SF_vars(HandleDbChange /\ UNCHANGED <<peerVars, discoveryVars, networkVars>>)
    /\ WF_vars(ServiceStep)
    /\ WF_vars(Build) /\ WF_vars(Reconcile)
    /\ WF_vars(OnLifecycleChanged) /\ WF_vars(OnTopicEvent)
    /\ \A c \in AllPeers \X Directions :
          WF_vars(c \in closing /\ Close(c) /\ UNCHANGED <<discoveryVars, networkVars>>)
    /\ \A p \in AllPeers : WF_vars(HandleHandshakeResult(p))

Spec == Init /\ [][Next]_vars /\ Fairness
=============================================================================
