---------------------------- MODULE SubnetService ----------------------------
(***************************************************************************)
(* The subnet service (anchor/subnet_service): it follows the lifecycle and *)
(* the clusters of the database and tells the network, over a bounded      *)
(* channel, which topics to join and to leave and which to score.  Every   *)
(* event is sent at an await, so the network handles events, and the       *)
(* lifecycle and the database change, in the middle of a change of the     *)
(* subscriptions.  Expected message rates are left out.                    *)
(***************************************************************************)
EXTENDS ForkMonitor, Sequences

CONSTANTS
    Subnets,
    Clusters,           \* the clusters of this operator
    SubnetOf,           \* SubnetOf[fork][cluster]: from_operators_for_fork
    CHANNEL_SIZE        \* the capacity of the channel of topic events

\* A subnet id is a remainder of the number of subnets.
ASSUME SubnetAssumption == \A f \in Scheduled, c \in Clusters : SubnetOf[f][c] \in Subnets

VARIABLES
    config,     \* subscribe_all_subnets, scoring, and what the network is given
    clusters,   \* the database: "absent", "live" or "liquidated"
    db_changed, \* the service has not seen the last change of the database
    service,    \* the service task
    channel     \* topic events on their way to the network

serviceVars == <<config, clusters, db_changed, service, channel>>

Topics == Scheduled \X Subnets

Subscribe(t, rate) == [kind |-> "Subscribe", topic |-> t, rate |-> rate]
Unsubscribe(t) == [kind |-> "Unsubscribe", topic |-> t]
RateUpdate(t) == [kind |-> "RateUpdate", topic |-> t]

\* The subnet of a committee: its id (Alan) or the least hash of its operators
\* (Boole), modulo the number of subnets
from_operators_for_fork(fork, c) == SubnetOf[fork][c]

\* committees_from_network_state and generate_subnets
generate_subnets(fork) ==
    IF config.subscribe_all_subnets THEN Subnets
    ELSE {from_operators_for_fork(fork, c) : c \in {x \in Clusters : clusters[x] = "live"}}

topics_of(fork, subnets) == {<<fork, s>> : s \in subnets}

---------------------------------------------------------------------------
(* The task.  leave, rates and join are the topics of the events that are  *)
(* still to be sent, in this order; fork and target belong to the fork     *)
(* whose subscriptions are being changed; todo are the forks after it.     *)

NoFork == "none"

InitialService ==
    [pc |-> "start", forks |-> <<>>, fork_to_score |-> "Alan", leave |-> {},
     rates |-> {}, join |-> {}, todo |-> {}, fork |-> NoFork, target |-> <<>>]

Sending == service.leave \cup service.rates \cup service.join # {}

tracked(forks, f) == IF f \in DOMAIN forks THEN forks[f] ELSE {}

\* set_subscribed_forks, and the unsubscribes of the forks it removes
set_subscribed_forks(svc, keep) ==
    [svc EXCEPT
        !.forks = [f \in keep |-> tracked(svc.forks, f)],
        !.leave = UNION {topics_of(f, svc.forks[f]) : f \in DOMAIN svc.forks \ keep}]

\* send_scoring_rate_updates
scoring_rate_updates(svc) ==
    IF svc.fork_to_score \in DOMAIN svc.forks
    THEN topics_of(svc.fork_to_score, svc.forks[svc.fork_to_score]) ELSE {}

\* on_lifecycle_transition up to its last send
on_lifecycle_transition(svc, new) ==
    LET s == set_subscribed_forks([svc EXCEPT !.fork_to_score = new.current], new.forks)
    IN  [s EXCEPT
            !.pc = "changes",
            !.rates = IF svc.fork_to_score # new.current /\ config.scoring
                      THEN scoring_rate_updates(s) ELSE {}]

\* initial_service_state, and the arm of lifecycle_rx.changed()
HandleLifecycle ==
    /\ \/ service.pc = "start"
       \/ service.pc = "idle" /\ "subnet_service" \in unseen
    /\ unseen' = unseen \ {"subnet_service"}
    /\ service' = on_lifecycle_transition(service, lifecycle)
    /\ UNCHANGED <<clock, highest_observed_slot, lifecycle, node>>
    /\ UNCHANGED <<config, clusters, db_changed, channel>>

\* The arm of db.changed()
HandleDbChange ==
    /\ service.pc = "idle"
    /\ db_changed /\ ~config.subscribe_all_subnets
    /\ db_changed' = FALSE
    /\ service' = [service EXCEPT !.pc = "changes"]
    /\ UNCHANGED <<monitorVars, config, clusters, channel>>

\* The arm of the epoch timer
EpochTick ==
    /\ service.pc = "idle" /\ config.scoring
    /\ service' = [service EXCEPT !.pc = "scoring", !.rates = scoring_rate_updates(service)]
    /\ UNCHANGED <<monitorVars, config, clusters, db_changed, channel>>

\* handle_subnet_changes reads the database once, then changes fork after fork.
BeginSubnetChanges ==
    /\ service.pc = "changes" /\ ~Sending
    /\ service' = [service EXCEPT !.pc = "forks", !.todo = DOMAIN service.forks,
                      !.target = [f \in DOMAIN service.forks |-> generate_subnets(f)]]
    /\ UNCHANGED <<monitorVars, config, clusters, db_changed, channel>>

\* handle_subnet_changes_for_fork, up to its first send
handle_subnet_changes_for_fork(fork) ==
    service' = [service EXCEPT
        !.todo = @ \ {fork}, !.fork = fork,
        !.leave = topics_of(fork, service.forks[fork] \ service.target[fork]),
        !.join = topics_of(fork, service.target[fork] \ service.forks[fork])]

BeginFork(fork) ==
    /\ service.pc = "forks" /\ service.fork = NoFork
    /\ fork \in service.todo
    /\ handle_subnet_changes_for_fork(fork)
    /\ UNCHANGED <<monitorVars, config, clusters, db_changed, channel>>

\* The end of handle_subnet_changes_for_fork: only now is the set recorded.
EndFork ==
    /\ service.pc = "forks" /\ service.fork # NoFork /\ ~Sending
    /\ service' = [service EXCEPT !.forks[service.fork] = service.target[service.fork],
                                  !.fork = NoFork]
    /\ UNCHANGED <<monitorVars, config, clusters, db_changed, channel>>

\* Back in the select! of run
Done ==
    /\ ~Sending
    /\ \/ service.pc = "scoring"
       \/ service.pc = "forks" /\ service.todo = {} /\ service.fork = NoFork
    /\ service' = [service EXCEPT !.pc = "idle", !.target = <<>>]
    /\ UNCHANGED <<monitorVars, config, clusters, db_changed, channel>>

\* send_unsubscribes, the rate updates, send_subscribes: one event, when the
\* channel has room
Send(t) ==
    /\ Len(channel) < CHANNEL_SIZE
    /\ \/ /\ t \in service.leave
          /\ channel' = Append(channel, Unsubscribe(t))
          /\ service' = [service EXCEPT !.leave = @ \ {t}]
       \/ /\ service.leave = {} /\ t \in service.rates
          /\ channel' = Append(channel, RateUpdate(t))
          /\ service' = [service EXCEPT !.rates = @ \ {t}]
       \/ /\ service.leave \cup service.rates = {} /\ t \in service.join
          /\ channel' = Append(channel,
               Subscribe(t, config.scoring /\ t[1] = service.fork_to_score))
          /\ service' = [service EXCEPT !.join = @ \ {t}]
    /\ UNCHANGED <<monitorVars, config, clusters, db_changed>>

\* The network has dropped its receiver: the send fails, what was to be sent
\* is given up, and the subscriptions of the fork stay as recorded.
SendFails ==
    /\ Sending
    /\ service' = [service EXCEPT !.leave = {}, !.rates = {}, !.join = {}, !.fork = NoFork]
    /\ UNCHANGED <<monitorVars, config, clusters, db_changed, channel>>

\* A contract event adds, removes, liquidates or reactivates a cluster.
ClusterChanges(c, to) ==
    /\ clusters[c] # to
    /\ to = "liquidated" => clusters[c] = "live"
    /\ clusters' = [clusters EXCEPT ![c] = to]
    /\ db_changed' = TRUE
    /\ UNCHANGED <<monitorVars, config, service, channel>>
=============================================================================
