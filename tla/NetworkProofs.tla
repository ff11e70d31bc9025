--------------------------- MODULE NetworkProofs ---------------------------
(***************************************************************************)
(* Proofs about the fork lifecycle and the subscriptions it leads to, for  *)
(* any schedule, clusters, subnets, peers and capacity of the channel of   *)
(* topic events.                                                           *)
(***************************************************************************)
EXTENDS Network, FiniteSetTheorems, TLAPS

---------------------------------------------------------------------------
(* The schedule.                                                           *)

LEMMA ScheduleFacts ==
    /\ SLOTS_PER_EPOCH \in Nat \ {0} /\ FORK_PREPARATION_EPOCHS \in Nat \ {0}
    /\ SUBSEQUENT_WINDOW_SLOTS \in Nat \ {0}
    /\ "Alan" \in Scheduled /\ Scheduled \subseteq {"Alan", "Boole"}
    /\ ForkEpoch["Alan"] = 0
    /\ "Boole" \in Scheduled => ForkEpoch["Boole"] \in Nat
    /\ ForkIndex["Alan"] = 1 /\ ForkIndex["Boole"] = 2
BY ScheduleAssumption DEF ValidSchedule, AllForks, ForkIndex

\* Boole is active at epoch e.
BooleAt(e) == "Boole" \in Scheduled /\ ForkEpoch["Boole"] <= e

LEMMA ActiveFork ==
    ASSUME NEW e \in Nat
    PROVE  active_fork(e) = IF BooleAt(e) THEN "Boole" ELSE "Alan"
<1> DEFINE P(f) == /\ ForkEpoch[f] <= e
                   /\ \A g \in Scheduled : ForkEpoch[g] <= e => ForkIndex[g] <= ForkIndex[f]
           a == IF BooleAt(e) THEN "Boole" ELSE "Alan"
<1>1. a \in Scheduled /\ P(a)
  BY ScheduleFacts DEF BooleAt
<1>2. \A f \in Scheduled : P(f) => f = a
  BY ScheduleFacts DEF BooleAt
<1>3. active_fork(e) = CHOOSE f \in Scheduled : P(f)
  BY DEF active_fork
<1> HIDE DEF P, a
<1>4. (CHOOSE f \in Scheduled : P(f)) = a
  BY <1>1, <1>2
<1> QED
  BY <1>3, <1>4 DEF a

LEMMA NextFork ==
    ASSUME NEW e \in Nat
    PROVE  next_fork_after(e) =
              IF "Boole" \in Scheduled /\ ~BooleAt(e) THEN {"Boole"} ELSE {}
<1> DEFINE P(f) == /\ ForkEpoch[f] > e
                   /\ \A g \in Scheduled : ForkEpoch[g] > e => ForkEpoch[f] <= ForkEpoch[g]
           N == {f \in Scheduled : P(f)}
<1>1. ~P("Alan")
  BY ScheduleFacts
<1>2. "Boole" \in Scheduled => (P("Boole") <=> ~BooleAt(e))
  BY ScheduleFacts DEF BooleAt
<1>3. next_fork_after(e) = N
  BY DEF next_fork_after
<1> HIDE DEF P
<1>4. CASE "Boole" \in Scheduled /\ ~BooleAt(e)
  <2>1. "Boole" \in N
    BY <1>2, <1>4
  <2>2. \A f \in N : f = "Boole"
    BY <1>1, ScheduleFacts
  <2> QED
    BY <2>1, <2>2, <1>3, <1>4
<1>5. CASE ~("Boole" \in Scheduled /\ ~BooleAt(e))
  <2>1. \A f \in N : FALSE
    BY <1>1, <1>2, <1>5, ScheduleFacts
  <2> QED
    BY <2>1, <1>3, <1>5
<1> QED
  BY <1>4, <1>5

LEMMA EpochTypes ==
    ASSUME NEW slot \in Nat
    PROVE  epoch(slot) \in Nat
BY ScheduleFacts DEF epoch

\* The lifecycle by the phases of the transition.
LEMMA LifecycleCases ==
    ASSUME NEW slot \in Nat
    PROVE  LET b == BooleAt(epoch(slot))
               warm == "Boole" \in Scheduled /\ slot >= preparation_start_slot("Boole")
               grace == /\ ForkEpoch["Boole"] > 0
                        /\ slot < ForkEpoch["Boole"] * SLOTS_PER_EPOCH + SUBSEQUENT_WINDOW_SLOTS
           IN  /\ ~b /\ warm => lifecycle_at(slot) = WarmUp("Alan", "Boole")
               /\ ~b /\ ~warm => lifecycle_at(slot) = Normal("Alan")
               /\ b /\ grace => lifecycle_at(slot) = GracePeriod("Boole", "Alan")
               /\ b /\ ~grace => lifecycle_at(slot) = Normal("Boole")
<1> DEFINE e == epoch(slot)
           b == BooleAt(e)
           warm == "Boole" \in Scheduled /\ slot >= preparation_start_slot("Boole")
           E == ForkEpoch["Boole"]
           grace == E > 0 /\ slot < E * SLOTS_PER_EPOCH + SUBSEQUENT_WINDOW_SLOTS
           f == active_fork(e)
           upcoming == {g \in next_fork_after(e) : slot >= preparation_start_slot(g)}
<1>1. e \in Nat
  BY EpochTypes
<1>2. f = (IF b THEN "Boole" ELSE "Alan")
  BY <1>1, ActiveFork
<1>3. next_fork_after(e) = IF "Boole" \in Scheduled /\ ~b THEN {"Boole"} ELSE {}
  BY <1>1, NextFork
<1>4. upcoming = IF ~b /\ warm THEN {"Boole"} ELSE {}
  BY <1>3
<1>5. lifecycle_at(slot) =
        CASE upcoming # {} -> WarmUp(f, CHOOSE g \in upcoming : TRUE)
          [] upcoming = {} /\ ForkEpoch[f] > 0
               /\ slot < ForkEpoch[f] * SLOTS_PER_EPOCH + SUBSEQUENT_WINDOW_SLOTS ->
                GracePeriod(f, active_fork(ForkEpoch[f] - 1))
          [] OTHER -> Normal(f)
  BY DEF lifecycle_at
<1> HIDE DEF upcoming, f, e, b
<1>6. CASE ~b /\ warm
  <2>1. upcoming = {"Boole"} /\ (CHOOSE g \in upcoming : TRUE) = "Boole" /\ f = "Alan"
    BY <1>2, <1>4, <1>6
  <2> QED
    BY <2>1, <1>5, <1>6 DEF b, e
<1>7. CASE ~b /\ ~warm
  <2>1. upcoming = {} /\ f = "Alan" /\ ~(ForkEpoch[f] > 0)
    BY <1>2, <1>4, <1>7, ScheduleFacts
  <2>2. lifecycle_at(slot) = Normal("Alan")
    BY <2>1, <1>5
  <2> QED
    BY <2>2, <1>7 DEF b, e
<1>8. CASE b /\ grace
  <2>1. upcoming = {} /\ f = "Boole" /\ E \in Nat /\ E - 1 \in Nat
    BY <1>2, <1>4, <1>8, ScheduleFacts DEF b, BooleAt
  <2>2. active_fork(E - 1) = "Alan"
    <3>1. ~BooleAt(E - 1)
      BY <2>1 DEF BooleAt
    <3> QED
      BY <3>1, <2>1, ActiveFork
  <2>3. lifecycle_at(slot) = GracePeriod("Boole", "Alan")
    BY <2>1, <2>2, <1>5, <1>8
  <2> QED
    BY <2>3, <1>8 DEF b, e
<1>9. CASE b /\ ~grace
  <2>1. upcoming = {} /\ f = "Boole"
    BY <1>2, <1>4, <1>9
  <2>2. lifecycle_at(slot) = Normal("Boole")
    BY <2>1, <1>5, <1>9
  <2> QED
    BY <2>2, <1>9 DEF b, e
<1> QED
  BY <1>6, <1>7, <1>8, <1>9 DEF b, e

LEMMA LifecycleTypes ==
    ASSUME NEW slot \in Nat
    PROVE  /\ lifecycle_at(slot).forks \subseteq Scheduled
           /\ lifecycle_at(slot).current \in lifecycle_at(slot).forks
<1> DEFINE l == lifecycle_at(slot)
<1>1. \/ l = Normal("Alan")
      \/ "Boole" \in Scheduled /\ l \in {WarmUp("Alan", "Boole"),
                                         GracePeriod("Boole", "Alan"), Normal("Boole")}
  BY LifecycleCases DEF BooleAt
<1> HIDE DEF l
<1>2. l.forks \subseteq Scheduled /\ l.current \in l.forks
  BY <1>1, ScheduleFacts DEF Normal, WarmUp, GracePeriod
<1> QED
  BY <1>2 DEF l

LEMMA EpochReached ==
    ASSUME NEW slot \in Nat, NEW e \in Nat
    PROVE  epoch(slot) >= e <=> slot >= e * SLOTS_PER_EPOCH
BY ScheduleFacts DEF epoch

\* A later slot is at a stage that is not earlier.
LEMMA StageAdvances ==
    ASSUME NEW s1 \in Nat, NEW s2 \in Nat, s1 <= s2
    PROVE  Stage(lifecycle_at(s2)) >= Stage(lifecycle_at(s1))
<1> DEFINE b(s) == BooleAt(epoch(s))
           E == ForkEpoch["Boole"]
           start == E * SLOTS_PER_EPOCH
           warm(s) == "Boole" \in Scheduled /\ s >= preparation_start_slot("Boole")
           grace(s) == E > 0 /\ s < start + SUBSEQUENT_WINDOW_SLOTS
           L(s) == lifecycle_at(s)
<1>1. /\ Stage(Normal("Alan")) = 4 /\ Stage(WarmUp("Alan", "Boole")) = 5
      /\ Stage(GracePeriod("Boole", "Alan")) = 6 /\ Stage(Normal("Boole")) = 7
  BY ScheduleFacts DEF Stage, Normal, WarmUp, GracePeriod
<1>2. \A s \in Nat : /\ ~b(s) /\ warm(s) => Stage(L(s)) = 5
                     /\ ~b(s) /\ ~warm(s) => Stage(L(s)) = 4
                     /\ b(s) /\ grace(s) => Stage(L(s)) = 6
                     /\ b(s) /\ ~grace(s) => Stage(L(s)) = 7
  <2> TAKE s \in Nat
  <2>1. /\ ~b(s) /\ warm(s) => L(s) = WarmUp("Alan", "Boole")
        /\ ~b(s) /\ ~warm(s) => L(s) = Normal("Alan")
        /\ b(s) /\ grace(s) => L(s) = GracePeriod("Boole", "Alan")
        /\ b(s) /\ ~grace(s) => L(s) = Normal("Boole")
    BY LifecycleCases
  <2> QED
    BY <2>1, <1>1
<1>3. b(s1) => b(s2)
  <2> SUFFICES ASSUME b(s1) PROVE b(s2)
    OBVIOUS
  <2>1. E \in Nat /\ epoch(s1) >= E
    BY ScheduleFacts, EpochTypes DEF BooleAt
  <2>2. s1 >= start /\ start \in Nat
    BY <2>1, EpochReached, ScheduleFacts
  <2>3. epoch(s2) >= E
    BY <2>1, <2>2, EpochReached
  <2> QED
    BY <2>1, <2>3, EpochTypes DEF BooleAt
<1>4. warm(s1) => warm(s2)
  <2>1. "Boole" \in Scheduled => preparation_start_slot("Boole") \in Nat
    BY ScheduleFacts DEF preparation_start_slot
  <2> QED
    BY <2>1
<1>5. b(s1) /\ b(s2) /\ grace(s2) => grace(s1)
  <2>1. b(s1) => start \in Nat
    BY ScheduleFacts DEF BooleAt
  <2> QED
    BY <2>1, ScheduleFacts
<1> HIDE DEF b, warm, grace, L
<1>6. Stage(L(s2)) >= Stage(L(s1))
  BY <1>2, <1>3, <1>4, <1>5
<1> QED
  BY <1>6 DEF L

---------------------------------------------------------------------------
(* The monitor.                                                            *)

\* The lifecycle that is published is the one of the highest slot seen.
MonitorInv ==
    /\ config.clock \subseteq Nat \cup {NoSlot}
    /\ clock \in Nat \cup {NoSlot}
    /\ highest_observed_slot \in Nat
    /\ lifecycle = lifecycle_at(highest_observed_slot)
    /\ restarts \in Nat

LEMMA MonitorInvInit == Init => MonitorInv
BY ScenarioAssumption DEF Init, StartProcess, SpawnMonitor, MonitorInv

\* One turn of the monitor's loop.
LEMMA ObserveAdvances ==
    ASSUME MonitorInv, Observe
    PROVE  /\ highest_observed_slot' \in Nat /\ lifecycle' = lifecycle_at(highest_observed_slot')
           /\ Stage(lifecycle') >= Stage(lifecycle)
           /\ (lifecycle' = lifecycle /\ unseen' = unseen) \/ unseen' = Receivers
           /\ clock' = clock
<1>1. Stage(lifecycle_at(highest_observed_slot)) >= Stage(lifecycle_at(highest_observed_slot))
  BY StageAdvances DEF MonitorInv
<1>2. CASE clock = NoSlot \/ classify_observation(clock) = "BackwardsAcrossBoundary"
  BY <1>1, <1>2 DEF Observe, MonitorInv
<1>3. CASE ~(clock = NoSlot \/ classify_observation(clock) = "BackwardsAcrossBoundary")
  <2>1. clock \in Nat
    BY <1>3 DEF MonitorInv
  <2>2. /\ highest_observed_slot' = IF classify_observation(clock) = "Advanced" THEN clock
                                    ELSE highest_observed_slot
        /\ publish(lifecycle_at(highest_observed_slot')) /\ clock' = clock
    BY <1>3 DEF Observe
  <2>3. classify_observation(clock) = "Advanced" => clock >= highest_observed_slot
    BY DEF classify_observation
  <2>4. highest_observed_slot' \in Nat /\ highest_observed_slot <= highest_observed_slot'
    BY <2>1, <2>2, <2>3 DEF MonitorInv
  <2>5. /\ lifecycle' = lifecycle_at(highest_observed_slot')
        /\ unseen' = IF lifecycle' = lifecycle THEN unseen ELSE Receivers
    BY <2>2 DEF publish
  <2>6. Stage(lifecycle') >= Stage(lifecycle)
    BY <2>4, <2>5, StageAdvances DEF MonitorInv
  <2> QED
    BY <2>2, <2>4, <2>5, <2>6
<1> QED
  BY <1>2, <1>3

\* What the other steps of the process do to the monitor: nothing, but for
\* the clock and for a restart.
LEMMA MonitorSteps ==
    ASSUME Next, ~MonitorStep, ~Restart
    PROVE  /\ UNCHANGED <<highest_observed_slot, lifecycle, config, restarts>>
           /\ clock' = clock \/ clock' \in config.clock
<1>1. ASSUME NEW slot \in config.clock, ClockMoves(slot)
      PROVE  /\ UNCHANGED <<highest_observed_slot, lifecycle, config, restarts>>
             /\ clock' \in config.clock
  BY <1>1 DEF ClockMoves, serviceVars, networkVars
<1>2. ASSUME ServiceStep \/ DatabaseStep
      PROVE  UNCHANGED <<clock, highest_observed_slot, lifecycle, config, restarts>>
  BY <1>2 DEF ServiceStep, DatabaseStep, HandleLifecycle, HandleDbChange, EpochTick,
     BeginSubnetChanges, BeginFork, EndFork, Done, Send, SendFails, ClusterChanges,
     monitorVars, networkVars
<1>3. ASSUME Build \/ Reconcile \/ OnLifecycleChanged \/ OnTopicEvent \/ ChannelsClose
      PROVE  UNCHANGED <<clock, highest_observed_slot, lifecycle, config, restarts>>
  BY <1>3 DEF Build, Reconcile, OnLifecycleChanged, OnTopicEvent, ChannelsClose,
     Stop, monitorVars, serviceVars, networkVars
<1>4. ASSUME PeerStep
      PROVE  UNCHANGED <<clock, highest_observed_slot, lifecycle, config, restarts>>
  BY <1>4 DEF PeerStep, DialFails, Establish, Close, HandleRequest, HandleResponse,
     OutboundFailure, InboundFailure, HandleHandshakeResult, PeerTopic, Discovered,
     Heartbeat, monitorVars, serviceVars, networkVars
<1> QED
  BY <1>1, <1>2, <1>3, <1>4 DEF Next

LEMMA MonitorInvNext == MonitorInv /\ [Next]_vars => MonitorInv'
<1> SUFFICES ASSUME MonitorInv, [Next]_vars PROVE MonitorInv'
  OBVIOUS
<1>1. CASE MonitorStep
  BY <1>1, ObserveAdvances DEF MonitorStep, MonitorInv, serviceVars, networkVars
<1>2. CASE Restart
  BY <1>2 DEF Restart, MonitorInv
<1>3. CASE Next /\ ~MonitorStep /\ ~Restart
  BY <1>3, MonitorSteps DEF MonitorInv
<1>4. CASE UNCHANGED vars
  BY <1>4 DEF vars, monitorVars, serviceVars, networkVars, MonitorInv
<1> QED
  BY <1>1, <1>2, <1>3, <1>4

\* In one life of the process the published lifecycle never goes back to an
\* earlier stage, for every schedule and however the clock jumps.
THEOREM LifecycleOnlyAdvancesHolds == Spec => LifecycleOnlyAdvances
<1> DEFINE A == restarts' = restarts => Stage(lifecycle') >= Stage(lifecycle)
<1>1. MonitorInv => Stage(lifecycle) >= Stage(lifecycle)
  BY StageAdvances DEF MonitorInv
<1>2. MonitorInv /\ [Next]_vars => [A]_vars
  <2> SUFFICES ASSUME MonitorInv, Next, restarts' = restarts
               PROVE  Stage(lifecycle') >= Stage(lifecycle)
    OBVIOUS
  <2>1. CASE MonitorStep
    BY <2>1, ObserveAdvances DEF MonitorStep
  <2>2. CASE Restart
    <3>1. FALSE
      BY <2>2 DEF Restart, MonitorInv
    <3> QED
      BY <3>1
  <2>3. CASE ~MonitorStep /\ ~Restart
    BY <2>3, <1>1, MonitorSteps
  <2> QED
    BY <2>1, <2>2, <2>3
<1> QED
  BY <1>2, MonitorInvInit, MonitorInvNext, PTL DEF Spec, LifecycleOnlyAdvances

---------------------------------------------------------------------------
(* The subnet service.                                                     *)

ForkMap(m) == DOMAIN m \subseteq Scheduled /\ m \in [DOMAIN m -> SUBSET Subnets]

Events ==
    [kind : {"Subscribe"}, topic : Topics, rate : BOOLEAN]
        \cup [kind : {"Unsubscribe", "RateUpdate"}, topic : Topics]

ServiceTypes ==
    /\ DOMAIN service = {"pc", "forks", "fork_to_score", "leave", "rates", "join", "todo",
                         "fork", "target"}
    /\ service.pc \in {"start", "idle", "scoring", "changes", "forks"}
    /\ ForkMap(service.forks) /\ ForkMap(service.target)
    /\ service.fork_to_score \in Scheduled
    /\ service.leave \subseteq Topics /\ service.rates \subseteq Topics
    /\ service.join \subseteq Topics
    /\ service.todo \subseteq Scheduled /\ service.fork \in Scheduled \cup {NoFork}
    /\ channel \in Seq(Events)

\* What the service still has to send is apart from what it keeps, and is
\* empty wherever it waits for the next change.
Shape ==
    /\ service.pc \in {"start", "idle"} =>
          service.leave = {} /\ service.rates = {} /\ service.join = {}
    /\ service.pc # "forks" => service.fork = NoFork /\ service.join = {}
    /\ service.pc = "scoring" => service.leave = {}
    /\ service.pc = "forks" =>
          /\ service.rates = {} /\ DOMAIN service.target = DOMAIN service.forks
          /\ service.todo \subseteq DOMAIN service.forks /\ service.fork \notin service.todo
          /\ service.fork \in DOMAIN service.forks \cup {NoFork}
          /\ service.fork = NoFork => service.leave = {} /\ service.join = {}
    /\ \A t \in service.leave :
          IF t[1] = service.fork THEN t[2] \notin service.target[service.fork]
          ELSE t[1] \notin DOMAIN service.forks
    /\ \A t \in service.join :
          t[1] = service.fork /\ t[2] \in service.target[service.fork]

\* The forks that have been dealt with have their new subnets.
Recorded ==
    service.pc = "forks" =>
        \A f \in DOMAIN service.forks \ service.todo :
            f # service.fork => service.forks[f] = service.target[f]

\* Once the last change of the database was seen, the subnets are those of
\* the live clusters.
Fresh ==
    config.subscribe_all_subnets \/ ~db_changed =>
        /\ service.pc \in {"idle", "scoring"} =>
              \A f \in DOMAIN service.forks : service.forks[f] = generate_subnets(f)
        /\ service.pc = "forks" =>
              \A f \in DOMAIN service.forks : service.target[f] = generate_subnets(f)

\* Once the last lifecycle was seen, its forks are the ones subscribed to.
Following ==
    service.pc # "start" /\ "subnet_service" \notin unseen =>
        DOMAIN service.forks = lifecycle.forks /\ service.fork_to_score = lifecycle.current

\* The topics the network has been told to have joined, once it has handled
\* the events in the channel.
Told ==
    {t \in Topics :
        \/ t \in service.leave
        \/ IF t[1] = service.fork
           THEN t[2] \in service.target[service.fork] /\ t \notin service.join
           ELSE t[1] \in DOMAIN service.forks /\ t[2] \in service.forks[t[1]]}

\* What an event makes of the topics that are joined: no topic is joined
\* twice, and none is left that was not joined.
Takes(e, before, after) ==
    /\ e.kind = "Subscribe" => e.topic \notin before /\ after = before \cup {e.topic}
    /\ e.kind = "Unsubscribe" => e.topic \in before /\ after = before \ {e.topic}
    /\ e.kind = "RateUpdate" => after = before

\* The events in the channel lead from the topics joined to the topics told.
Chain(W) ==
    /\ W \in [0 .. Len(channel) -> SUBSET Topics]
    /\ W[0] = network.topics /\ W[Len(channel)] = Told
    /\ \A i \in 1 .. Len(channel) : Takes(channel[i], W[i - 1], W[i])

Rated(e, t) == e.topic = t /\ (e.kind = "RateUpdate" \/ (e.kind = "Subscribe" /\ e.rate))

\* Every topic of the fork to score is scored, or will be.
Scored ==
    config.scoring =>
        \A t \in Told : t[1] = service.fork_to_score =>
            \/ t \in network.scored \/ t \in service.rates
            \/ \E i \in 1 .. Len(channel) : Rated(channel[i], t)

ServiceInv ==
    /\ ServiceTypes /\ Shape /\ Following
    /\ network.pc # "stopped" => Recorded /\ Fresh /\ Scored /\ \E W : Chain(W)

LEMMA TopicFacts ==
    /\ NoFork \notin Scheduled
    /\ \A t \in Topics : t[1] \in Scheduled /\ t[2] \in Subnets /\ t = <<t[1], t[2]>>
    /\ \A f \in Scheduled : \A s \in Subnets :
          <<f, s>> \in Topics /\ <<f, s>>[1] = f /\ <<f, s>>[2] = s
BY ScheduleFacts DEF NoFork, Topics

LEMMA TopicsOf ==
    ASSUME NEW f \in Scheduled, NEW S \in SUBSET Subnets
    PROVE  /\ topics_of(f, S) \subseteq Topics
           /\ \A t \in Topics : t \in topics_of(f, S) <=> t[1] = f /\ t[2] \in S
<1>1. \A t \in topics_of(f, S) : \E s \in S : t = <<f, s>>
  BY DEF topics_of
<1>2. \A s \in S : <<f, s>> \in topics_of(f, S)
  BY DEF topics_of
<1>3. topics_of(f, S) \subseteq Topics
  BY <1>1, TopicFacts
<1>4. ASSUME NEW t \in Topics
      PROVE  t \in topics_of(f, S) <=> t[1] = f /\ t[2] \in S
  BY <1>1, <1>2, TopicFacts
<1> QED
  BY <1>3, <1>4

LEMMA GenerateTypes ==
    ASSUME NEW f \in Scheduled
    PROVE  generate_subnets(f) \in SUBSET Subnets
<1>1. \A c \in Clusters : from_operators_for_fork(f, c) \in Subnets
  BY SubnetAssumption DEF from_operators_for_fork
<1> QED
  BY <1>1 DEF generate_subnets

LEMMA GenerateKept ==
    ASSUME config' = config, clusters' = clusters
    PROVE  \A f \in Scheduled : generate_subnets(f)' = generate_subnets(f)
BY DEF generate_subnets

\* The events of the channel that lead from the topics joined to the topics
\* told are not affected by a step that keeps both and the channel.
LEMMA ChainKept ==
    ASSUME \E W : Chain(W), channel' = channel, network' = network, Told' = Told
    PROVE  (\E W : Chain(W))'
<1>1. PICK W : Chain(W)
  OBVIOUS
<1>2. Chain(W)'
  BY <1>1 DEF Chain
<1> QED
  BY <1>2

LEMMA HandleLifecycleInv ==
    ASSUME ServiceInv, MonitorInv, HandleLifecycle, network' = network
    PROVE  ServiceInv'
<1> DEFINE forks == service.forks
           keep == lifecycle.forks
           left == UNION {topics_of(f, forks[f]) : f \in DOMAIN forks \ keep}
           kept == [f \in keep |-> tracked(forks, f)]
<1> USE DEF ServiceInv
<1>1. keep \subseteq Scheduled /\ lifecycle.current \in keep
  BY LifecycleTypes DEF MonitorInv
<1>2. ForkMap(kept) /\ DOMAIN kept = keep
      /\ \A f \in keep : kept[f] = IF f \in DOMAIN forks THEN forks[f] ELSE {}
  BY <1>1 DEF ServiceTypes, ForkMap, tracked
<1>3. left \subseteq Topics
      /\ \A t \in Topics :
            t \in left <=> t[1] \in DOMAIN forks \ keep /\ t[2] \in forks[t[1]]
  <2>1. \A f \in DOMAIN forks :
           /\ topics_of(f, forks[f]) \subseteq Topics
           /\ \A t \in Topics : t \in topics_of(f, forks[f]) <=> t[1] = f /\ t[2] \in forks[f]
    BY TopicsOf DEF ServiceTypes, ForkMap
  <2> QED
    BY <2>1
<1>4. /\ service.leave = {} /\ service.rates = {} /\ service.join = {} /\ service.fork = NoFork
      /\ config' = config /\ db_changed' = db_changed /\ channel' = channel
      /\ lifecycle' = lifecycle /\ unseen' = unseen \ {"subnet_service"}
  BY DEF HandleLifecycle, Shape
<1>5. service' = on_lifecycle_transition(service, lifecycle)
  BY DEF HandleLifecycle
<1> DEFINE svc == set_subscribed_forks([service EXCEPT !.fork_to_score = lifecycle.current], keep)
<1>6. /\ DOMAIN svc = DOMAIN service
      /\ svc.forks = kept /\ svc.leave = left /\ svc.fork_to_score = lifecycle.current
      /\ svc.join = service.join /\ svc.fork = service.fork /\ svc.target = service.target
      /\ svc.todo = service.todo
  BY DEF set_subscribed_forks, ServiceTypes
<1>7. /\ DOMAIN service' = DOMAIN service
      /\ service'.pc = "changes" /\ service'.forks = kept /\ service'.leave = left
      /\ service'.fork_to_score = lifecycle.current /\ service'.join = {}
      /\ service'.fork = NoFork /\ service'.target = service.target
      /\ service'.todo = service.todo
      /\ service'.rates = IF service.fork_to_score # lifecycle.current /\ config.scoring
                          THEN scoring_rate_updates(svc) ELSE {}
  <2> HIDE DEF svc, kept, left
  <2>1. service' = [svc EXCEPT !.pc = "changes",
                       !.rates = IF service.fork_to_score # lifecycle.current /\ config.scoring
                                 THEN scoring_rate_updates(svc) ELSE {}]
    BY <1>5 DEF on_lifecycle_transition, svc
  <2> QED
    BY <2>1, <1>4, <1>6 DEF ServiceTypes
<1>8. scoring_rate_updates(svc) = topics_of(lifecycle.current, kept[lifecycle.current])
  <2> HIDE DEF svc, kept
  <2> QED
    BY <1>1, <1>2, <1>6 DEF scoring_rate_updates
<1> HIDE DEF svc, kept, left
<1>9. /\ kept[lifecycle.current] \in SUBSET Subnets
      /\ topics_of(lifecycle.current, kept[lifecycle.current]) \subseteq Topics
      /\ \A t \in Topics : t \in topics_of(lifecycle.current, kept[lifecycle.current])
                              <=> t[1] = lifecycle.current /\ t[2] \in kept[lifecycle.current]
  <2>1. kept[lifecycle.current] \in SUBSET Subnets
    BY <1>1, <1>2 DEF ForkMap
  <2> QED
    BY <2>1, <1>1, TopicsOf
<1>10. ServiceTypes'
  BY <1>1, <1>2, <1>3, <1>4, <1>7, <1>8, <1>9 DEF ServiceTypes, ForkMap
<1>11. Shape'
  BY <1>2, <1>3, <1>7, TopicFacts DEF Shape
<1>12. Following'
  BY <1>2, <1>4, <1>7 DEF Following
<1>13. Told' = Told
  <2>1. \A t \in Topics : t[1] # NoFork
    BY TopicFacts
  <2> QED
    BY <2>1, <1>2, <1>3, <1>4, <1>7 DEF Told
<1>14. network.pc # "stopped" => Scored'
  <2> SUFFICES ASSUME Scored, config.scoring, NEW t \in Told, t[1] = lifecycle.current
               PROVE  \/ t \in network.scored \/ t \in service'.rates
                      \/ \E i \in 1 .. Len(channel) : Rated(channel[i], t)
    BY <1>4, <1>7, <1>13 DEF Scored
  <2>1. CASE service.fork_to_score = lifecycle.current
    BY <2>1, <1>4 DEF Scored
  <2>2. CASE service.fork_to_score # lifecycle.current
    <3>1. t \in Topics /\ t \in Told'
      BY <1>13 DEF Told
    <3>2. t[2] \in kept[lifecycle.current]
      BY <3>1, <1>1, <1>2, <1>3, <1>7, TopicFacts DEF Told
    <3> QED
      BY <2>2, <3>1, <3>2, <1>7, <1>8, <1>9
  <2> QED
    BY <2>1, <2>2
<1>15. Recorded' /\ Fresh'
  BY <1>7 DEF Recorded, Fresh
<1>16. network.pc # "stopped" => (\E W : Chain(W))'
  BY <1>4, <1>13, ChainKept
<1> QED
  BY <1>10, <1>11, <1>12, <1>14, <1>15, <1>16

LEMMA HandleDbChangeInv ==
    ASSUME ServiceInv, HandleDbChange, network' = network
    PROVE  ServiceInv'
<1> USE DEF ServiceInv
<1>1. /\ DOMAIN service' = DOMAIN service /\ service'.pc = "changes"
      /\ service'.forks = service.forks /\ service'.leave = service.leave
      /\ service'.fork_to_score = service.fork_to_score /\ service'.join = service.join
      /\ service'.fork = service.fork /\ service'.target = service.target
      /\ service'.todo = service.todo /\ service'.rates = service.rates
      /\ config' = config /\ channel' = channel /\ lifecycle' = lifecycle /\ unseen' = unseen
      /\ service.pc = "idle"
  BY DEF HandleDbChange, ServiceTypes, monitorVars
<1>2. ServiceTypes' /\ Shape' /\ Following' /\ Recorded' /\ Fresh'
  BY <1>1 DEF ServiceTypes, Shape, Following, Recorded, Fresh
<1>3. Told' = Told
  BY <1>1 DEF Told
<1>4. Scored => Scored'
  BY <1>1, <1>3 DEF Scored
<1>5. network.pc # "stopped" => (\E W : Chain(W))'
  BY <1>1, <1>3, ChainKept
<1> QED
  BY <1>2, <1>4, <1>5

LEMMA EpochTickInv ==
    ASSUME ServiceInv, EpochTick, network' = network
    PROVE  ServiceInv'
<1> USE DEF ServiceInv
<1>1. /\ DOMAIN service' = DOMAIN service /\ service'.pc = "scoring"
      /\ service'.forks = service.forks /\ service'.leave = service.leave
      /\ service'.fork_to_score = service.fork_to_score /\ service'.join = service.join
      /\ service'.fork = service.fork /\ service'.target = service.target
      /\ service'.todo = service.todo /\ service'.rates = scoring_rate_updates(service)
      /\ config' = config /\ channel' = channel /\ lifecycle' = lifecycle /\ unseen' = unseen
      /\ clusters' = clusters /\ db_changed' = db_changed
      /\ service.pc = "idle" /\ service.rates = {}
  BY DEF EpochTick, ServiceTypes, Shape, monitorVars
<1>2. scoring_rate_updates(service) \subseteq Topics
  BY TopicsOf DEF scoring_rate_updates, ServiceTypes, ForkMap
<1>3. ServiceTypes' /\ Shape' /\ Following' /\ Recorded'
  BY <1>1, <1>2 DEF ServiceTypes, Shape, Following, Recorded
<1>4. Fresh => Fresh'
  BY <1>1, GenerateKept DEF Fresh, ServiceTypes, ForkMap
<1>5. Told' = Told
  BY <1>1 DEF Told
<1>6. Scored => Scored'
  BY <1>1, <1>5 DEF Scored
<1>7. network.pc # "stopped" => (\E W : Chain(W))'
  BY <1>1, <1>5, ChainKept
<1> QED
  BY <1>3, <1>4, <1>6, <1>7

LEMMA BeginSubnetChangesInv ==
    ASSUME ServiceInv, BeginSubnetChanges, network' = network
    PROVE  ServiceInv'
<1> USE DEF ServiceInv
<1> DEFINE target == [f \in DOMAIN service.forks |-> generate_subnets(f)]
<1>1. /\ DOMAIN service' = DOMAIN service /\ service'.pc = "forks"
      /\ service'.forks = service.forks /\ service'.leave = service.leave
      /\ service'.fork_to_score = service.fork_to_score /\ service'.join = service.join
      /\ service'.fork = service.fork /\ service'.target = target
      /\ service'.todo = DOMAIN service.forks /\ service'.rates = service.rates
      /\ config' = config /\ channel' = channel /\ lifecycle' = lifecycle /\ unseen' = unseen
      /\ clusters' = clusters /\ db_changed' = db_changed
      /\ service.pc = "changes" /\ service.rates = {} /\ service.leave = {}
      /\ service.join = {} /\ service.fork = NoFork
  BY DEF BeginSubnetChanges, ServiceTypes, Shape, Sending, monitorVars
<1>2. ForkMap(target) /\ DOMAIN target = DOMAIN service.forks
      /\ \A f \in DOMAIN service.forks : target[f] = generate_subnets(f)
  BY GenerateTypes DEF ServiceTypes, ForkMap
<1> HIDE DEF target
<1>3. ServiceTypes'
  BY <1>1, <1>2 DEF ServiceTypes, ForkMap
<1>4. Shape' /\ Following' /\ Recorded'
  BY <1>1, <1>2, TopicFacts DEF ServiceTypes, ForkMap, Shape, Following, Recorded
<1>5. Fresh'
  BY <1>1, <1>2, GenerateKept DEF Fresh, ServiceTypes, ForkMap
<1>6. Told' = Told
  BY <1>1, TopicFacts DEF Told
<1>7. Scored => Scored'
  BY <1>1, <1>6 DEF Scored
<1>8. network.pc # "stopped" => (\E W : Chain(W))'
  BY <1>1, <1>6, ChainKept
<1> QED
  BY <1>3, <1>4, <1>5, <1>7, <1>8

LEMMA BeginForkInv ==
    ASSUME ServiceInv, NEW f \in Scheduled, BeginFork(f), network' = network
    PROVE  ServiceInv'
<1> USE DEF ServiceInv
<1> DEFINE S == service.forks[f]
           T == service.target[f]
<1>1. /\ DOMAIN service' = DOMAIN service /\ service'.pc = "forks"
      /\ service'.forks = service.forks /\ service'.leave = topics_of(f, S \ T)
      /\ service'.fork_to_score = service.fork_to_score
      /\ service'.join = topics_of(f, T \ S)
      /\ service'.fork = f /\ service'.target = service.target
      /\ service'.todo = service.todo \ {f} /\ service'.rates = service.rates
      /\ config' = config /\ channel' = channel /\ lifecycle' = lifecycle /\ unseen' = unseen
      /\ clusters' = clusters /\ db_changed' = db_changed
      /\ service.pc = "forks" /\ service.fork = NoFork /\ f \in service.todo
      /\ service.leave = {} /\ service.join = {}
  BY DEF BeginFork, handle_subnet_changes_for_fork, ServiceTypes, Shape, monitorVars
<1>2. f \in DOMAIN service.forks /\ f \in DOMAIN service.target
  BY <1>1 DEF Shape
<1>3. S \in SUBSET Subnets /\ T \in SUBSET Subnets
  BY <1>2 DEF ServiceTypes, ForkMap
<1>4. /\ topics_of(f, S \ T) \subseteq Topics /\ topics_of(f, T \ S) \subseteq Topics
      /\ \A t \in Topics : /\ t \in topics_of(f, S \ T) <=> t[1] = f /\ t[2] \in S \ T
                           /\ t \in topics_of(f, T \ S) <=> t[1] = f /\ t[2] \in T \ S
  <2>1. S \ T \in SUBSET Subnets /\ T \ S \in SUBSET Subnets
    BY <1>3
  <2> QED
    BY <2>1, TopicsOf
<1> HIDE DEF S, T
<1>5. ServiceTypes'
  BY <1>1, <1>4 DEF ServiceTypes
<1>6. Shape'
  <2>1. \A t \in service'.leave : t[1] = f /\ t[2] \notin service'.target[f]
    BY <1>1, <1>4 DEF T
  <2>2. \A t \in service'.join : t[1] = f /\ t[2] \in service'.target[f]
    BY <1>1, <1>4 DEF T
  <2>3. f # NoFork
    BY TopicFacts
  <2> QED
    BY <1>1, <1>2, <2>1, <2>2, <2>3 DEF Shape
<1>7. Following' /\ (Recorded => Recorded')
  BY <1>1, TopicFacts DEF Following, Recorded, ServiceTypes, ForkMap
<1>8. Fresh => Fresh'
  BY <1>1, GenerateKept DEF Fresh, ServiceTypes, ForkMap
<1>9. Told' = Told
  <2>1. ASSUME NEW t \in Topics
        PROVE  t \in Told' <=> t \in Told
    <3>1. t[1] # NoFork
      BY TopicFacts
    <3>2. t \in Told <=> t[1] \in DOMAIN service.forks /\ t[2] \in service.forks[t[1]]
      BY <3>1, <1>1 DEF Told
    <3>3. t \in Told' <=> \/ t \in topics_of(f, S \ T)
                          \/ IF t[1] = f THEN t[2] \in T /\ t \notin topics_of(f, T \ S)
                             ELSE t[1] \in DOMAIN service.forks /\ t[2] \in service.forks[t[1]]
      BY <1>1 DEF Told, T
    <3>4. CASE t[1] = f
      BY <3>2, <3>3, <3>4, <1>2, <1>4 DEF S
    <3>5. CASE t[1] # f
      BY <3>2, <3>3, <3>5, <1>4
    <3> QED
      BY <3>4, <3>5
  <2>2. Told' \subseteq Topics /\ Told \subseteq Topics
    BY DEF Told
  <2> QED
    BY <2>1, <2>2
<1>10. Scored => Scored'
  BY <1>1, <1>9 DEF Scored
<1>11. network.pc # "stopped" => (\E W : Chain(W))'
  BY <1>1, <1>9, ChainKept
<1> QED
  BY <1>5, <1>6, <1>7, <1>8, <1>10, <1>11

LEMMA EndForkInv ==
    ASSUME ServiceInv, EndFork, network' = network
    PROVE  ServiceInv'
<1> USE DEF ServiceInv
<1> DEFINE f == service.fork
           forks == [service.forks EXCEPT ![f] = service.target[f]]
<1>1. /\ DOMAIN service' = DOMAIN service /\ service'.pc = "forks"
      /\ service'.forks = forks /\ service'.leave = service.leave
      /\ service'.fork_to_score = service.fork_to_score /\ service'.join = service.join
      /\ service'.fork = NoFork /\ service'.target = service.target
      /\ service'.todo = service.todo /\ service'.rates = service.rates
      /\ config' = config /\ channel' = channel /\ lifecycle' = lifecycle /\ unseen' = unseen
      /\ clusters' = clusters /\ db_changed' = db_changed
      /\ service.pc = "forks" /\ service.fork # NoFork
      /\ service.leave = {} /\ service.join = {}
  BY DEF EndFork, Sending, ServiceTypes, monitorVars
<1>2. f \in DOMAIN service.forks /\ f \in DOMAIN service.target
  BY <1>1 DEF Shape
<1>3. service.target[f] \in SUBSET Subnets
  BY <1>2 DEF ServiceTypes, ForkMap
<1>4. ForkMap(forks) /\ DOMAIN forks = DOMAIN service.forks /\ forks[f] = service.target[f]
      /\ \A g \in DOMAIN service.forks : g # f => forks[g] = service.forks[g]
  BY <1>2, <1>3 DEF ServiceTypes, ForkMap
<1> HIDE DEF forks
<1>5. ServiceTypes'
  BY <1>1, <1>4 DEF ServiceTypes, ForkMap
<1>6. Shape'
  BY <1>1, <1>4, TopicFacts DEF ServiceTypes, ForkMap, Shape
<1>7. Following' /\ (Recorded => Recorded')
  BY <1>1, <1>4, TopicFacts DEF Following, Recorded
<1>8. Fresh => Fresh'
  BY <1>1, <1>4, GenerateKept DEF Fresh, ServiceTypes, ForkMap
<1>9. Told' = Told
  BY <1>1, <1>2, <1>4, TopicFacts DEF Told
<1>10. Scored => Scored'
  BY <1>1, <1>9 DEF Scored
<1>11. network.pc # "stopped" => (\E W : Chain(W))'
  BY <1>1, <1>9, ChainKept
<1> QED
  BY <1>5, <1>6, <1>7, <1>8, <1>10, <1>11

LEMMA DoneInv ==
    ASSUME ServiceInv, Done, network' = network
    PROVE  ServiceInv'
<1> USE DEF ServiceInv
<1>1. /\ DOMAIN service' = DOMAIN service /\ service'.pc = "idle"
      /\ service'.forks = service.forks /\ service'.leave = {}
      /\ service'.fork_to_score = service.fork_to_score /\ service'.join = {}
      /\ service'.fork = NoFork /\ service'.target = <<>>
      /\ service'.todo = service.todo /\ service'.rates = {}
      /\ config' = config /\ channel' = channel /\ lifecycle' = lifecycle /\ unseen' = unseen
      /\ clusters' = clusters /\ db_changed' = db_changed
      /\ service.pc = "scoring" \/ (service.pc = "forks" /\ service.todo = {})
      /\ service.leave = {} /\ service.join = {} /\ service.fork = NoFork /\ service.rates = {}
  BY DEF Done, Sending, ServiceTypes, Shape, monitorVars
<1>2. ForkMap(<<>>)
  BY DEF ForkMap
<1>3. ServiceTypes'
  BY <1>1, <1>2 DEF ServiceTypes, ForkMap
<1>4. Shape' /\ Following' /\ Recorded'
  BY <1>1 DEF Shape, Following, Recorded
<1>5. Fresh /\ Recorded => Fresh'
  BY <1>1, TopicFacts, GenerateKept DEF Fresh, Recorded, ServiceTypes, ForkMap
<1>6. Told' = Told
  BY <1>1, TopicFacts DEF Told
<1>7. Scored => Scored'
  BY <1>1, <1>6 DEF Scored
<1>8. network.pc # "stopped" => (\E W : Chain(W))'
  BY <1>1, <1>6, ChainKept
<1> QED
  BY <1>3, <1>4, <1>5, <1>7, <1>8

\* An event that is sent takes what the network was told to what it is told.
LEMMA ChainSend ==
    ASSUME channel \in Seq(Events), NEW W, Chain(W), NEW e \in Events,
           channel' = Append(channel, e), network' = network, Takes(e, Told, Told')
    PROVE  (\E V : Chain(V))'
<1> DEFINE n == Len(channel)
<1>1. n \in Nat /\ Len(channel') = n + 1 /\ channel'[n + 1] = e
      /\ \A i \in 1 .. n : channel'[i] = channel[i]
  OBVIOUS
<1>2. Told' \subseteq Topics
  BY DEF Told
<1>3. /\ W \in [0 .. n -> SUBSET Topics] /\ W[0] = network.topics /\ W[n] = Told
      /\ \A i \in 1 .. n : Takes(channel[i], W[i - 1], W[i])
  BY DEF Chain
<1> HIDE DEF n
<1>0. PICK V : V = [i \in 0 .. n + 1 |-> IF i <= n THEN W[i] ELSE Told']
  OBVIOUS
<1>4. V \in [0 .. n + 1 -> SUBSET Topics]
  BY <1>0, <1>1, <1>2, <1>3
<1>5. V[0] = network.topics /\ V[n + 1] = Told' /\ V[n] = Told
  BY <1>0, <1>1, <1>3
<1>6. ASSUME NEW i \in 1 .. n + 1
      PROVE  Takes(channel'[i], V[i - 1], V[i])
  <2>1. CASE i = n + 1
    BY <2>1, <1>1, <1>5
  <2>2. CASE i # n + 1
    <3>1. i \in 1 .. n /\ V[i] = W[i] /\ V[i - 1] = W[i - 1] /\ channel'[i] = channel[i]
      BY <2>2, <1>0, <1>1
    <3> QED
      BY <3>1, <1>3
  <2> QED
    BY <2>1, <2>2
<1>7. Chain(V)'
  <2>1. /\ V \in [0 .. Len(channel') -> SUBSET Topics]
        /\ V[0] = network'.topics /\ V[Len(channel')] = Told'
        /\ \A i \in 1 .. Len(channel') : Takes(channel'[i], V[i - 1], V[i])
    BY <1>1, <1>4, <1>5, <1>6
  <2> QED
    BY <2>1 DEF Chain, Takes, Topics, Scheduled
<1> QED
  BY <1>7

LEMMA SendInv ==
    ASSUME ServiceInv, NEW t \in Topics, Send(t), network' = network, network.pc # "stopped"
    PROVE  ServiceInv'
<1> USE DEF ServiceInv
<1> DEFINE n == Len(channel)
<1>1. /\ config' = config /\ lifecycle' = lifecycle /\ unseen' = unseen
      /\ clusters' = clusters /\ db_changed' = db_changed
      /\ DOMAIN service' = DOMAIN service /\ service'.pc = service.pc
      /\ service'.forks = service.forks /\ service'.fork_to_score = service.fork_to_score
      /\ service'.fork = service.fork /\ service'.target = service.target
      /\ service'.todo = service.todo
  BY DEF Send, ServiceTypes, monitorVars
<1>2. PICK e \in Events :
         /\ channel' = Append(channel, e) /\ e.topic = t
         /\ \/ /\ e.kind = "Unsubscribe" /\ t \in service.leave
               /\ service'.leave = service.leave \ {t}
               /\ service'.rates = service.rates /\ service'.join = service.join
            \/ /\ e.kind = "RateUpdate" /\ t \in service.rates
               /\ service'.rates = service.rates \ {t}
               /\ service'.leave = service.leave /\ service'.join = service.join
            \/ /\ e.kind = "Subscribe" /\ t \in service.join
               /\ e.rate = (config.scoring /\ t[1] = service.fork_to_score)
               /\ service'.join = service.join \ {t}
               /\ service'.leave = service.leave /\ service'.rates = service.rates
  <2>1. CASE t \in service.leave /\ channel' = Append(channel, Unsubscribe(t))
             /\ service' = [service EXCEPT !.leave = @ \ {t}]
    <3>1. Unsubscribe(t) \in Events
      BY DEF Unsubscribe, Events
    <3> QED
      BY <2>1, <3>1 DEF Unsubscribe, ServiceTypes
  <2>2. CASE t \in service.rates /\ channel' = Append(channel, RateUpdate(t))
             /\ service' = [service EXCEPT !.rates = @ \ {t}]
    <3>1. RateUpdate(t) \in Events
      BY DEF RateUpdate, Events
    <3> QED
      BY <2>2, <3>1 DEF RateUpdate, ServiceTypes
  <2>3. CASE t \in service.join
             /\ channel' = Append(channel,
                              Subscribe(t, config.scoring /\ t[1] = service.fork_to_score))
             /\ service' = [service EXCEPT !.join = @ \ {t}]
    <3> DEFINE r == config.scoring /\ t[1] = service.fork_to_score
    <3>1. Subscribe(t, r) \in Events
      BY DEF Subscribe, Events
    <3>2. /\ Subscribe(t, r).topic = t /\ Subscribe(t, r).kind = "Subscribe"
          /\ Subscribe(t, r).rate = r
      BY DEF Subscribe
    <3> QED
      BY <2>3, <3>1, <3>2 DEF ServiceTypes
  <2> QED
    BY <2>1, <2>2, <2>3 DEF Send
<1>3. channel \in Seq(Events) /\ channel' \in Seq(Events) /\ n \in Nat
      /\ Len(channel') = n + 1 /\ channel'[n + 1] = e
      /\ \A i \in 1 .. n : channel'[i] = channel[i]
  BY <1>2 DEF ServiceTypes
<1>4. ServiceTypes'
  BY <1>1, <1>2, <1>3 DEF ServiceTypes
<1>5. Shape'
  BY <1>1, <1>2 DEF Shape
<1>6. Following' /\ Recorded'
  BY <1>1 DEF Following, Recorded
<1>7. Fresh'
  BY <1>1, GenerateKept DEF Fresh, ServiceTypes, ForkMap
<1>8. Takes(e, Told, Told')
  <2>1. CASE e.kind = "Unsubscribe"
    BY <2>1, <1>1, <1>2 DEF Takes, Told, Shape
  <2>2. CASE e.kind = "RateUpdate"
    BY <2>2, <1>1, <1>2 DEF Takes, Told
  <2>3. CASE e.kind = "Subscribe"
    BY <2>3, <1>1, <1>2 DEF Takes, Told, Shape
  <2> QED
    BY <2>1, <2>2, <2>3 DEF Takes
<1>9. Scored'
  <2> SUFFICES ASSUME config.scoring, NEW u \in Told', u[1] = service.fork_to_score
               PROVE  \/ u \in network.scored \/ u \in service'.rates
                      \/ \E i \in 1 .. n + 1 : Rated(channel'[i], u)
    BY <1>1, <1>3 DEF Scored
  <2>1. Rated(e, u) => \E i \in 1 .. n + 1 : Rated(channel'[i], u)
    BY <1>3
  <2>2. CASE u = t /\ e.kind # "Unsubscribe"
    BY <2>1, <2>2, <1>2 DEF Rated
  <2>3. CASE u # t \/ e.kind = "Unsubscribe"
    <3>1. u \in Told
      BY <2>3, <1>2, <1>8 DEF Takes
    <3>2. u \in service.rates => u \in service'.rates
      BY <2>3, <1>2
    <3>3. ASSUME NEW i \in 1 .. n, Rated(channel[i], u)
          PROVE  \E j \in 1 .. n + 1 : Rated(channel'[j], u)
      BY <1>3, <3>3
    <3> QED
      BY <3>1, <3>2, <3>3 DEF Scored
  <2> QED
    BY <2>2, <2>3
<1>10. (\E W : Chain(W))'
  <2>1. PICK W : Chain(W)
    OBVIOUS
  <2> QED
    BY <2>1, <1>2, <1>3, <1>8, ChainSend
<1> QED
  BY <1>4, <1>5, <1>6, <1>7, <1>9, <1>10

LEMMA SendFailsInv ==
    ASSUME ServiceInv, SendFails, network' = network, network.pc = "stopped"
    PROVE  ServiceInv'
<1>1. /\ DOMAIN service' = DOMAIN service /\ service'.pc = service.pc
      /\ service'.forks = service.forks /\ service'.leave = {}
      /\ service'.fork_to_score = service.fork_to_score /\ service'.join = {}
      /\ service'.fork = NoFork /\ service'.target = service.target
      /\ service'.todo = service.todo /\ service'.rates = {}
      /\ channel' = channel /\ lifecycle' = lifecycle /\ unseen' = unseen
  BY DEF SendFails, ServiceInv, ServiceTypes, monitorVars
<1>2. ServiceTypes' /\ Following'
  BY <1>1 DEF ServiceInv, ServiceTypes, Following
<1>3. Shape'
  BY <1>1, TopicFacts DEF ServiceInv, ServiceTypes, Shape
<1> QED
  BY <1>2, <1>3 DEF ServiceInv

---------------------------------------------------------------------------
(* The network task.                                                       *)

LEMMA PeerStepKeepsNeeded ==
    ASSUME PeerStep, DOMAIN peers = DOMAIN InitialPeers(0)
    PROVE  /\ peers'.needed = peers.needed /\ DOMAIN peers' = DOMAIN peers
           /\ UNCHANGED <<monitorVars, serviceVars, enr, networkVars>>
<1> DEFINE kept == peers'.needed = peers.needed /\ DOMAIN peers' = DOMAIN peers
<1>1. {"observed", "needed", "connected", "established", "stored", "blocked"} \subseteq DOMAIN peers
  BY DEF InitialPeers
<1>2. \A p, d : /\ on_connection_established(p, d).needed = peers.needed
                /\ DOMAIN on_connection_established(p, d) = DOMAIN peers
                /\ on_connection_closed(p, d).needed = peers.needed
                /\ DOMAIN on_connection_closed(p, d) = DOMAIN peers
  BY <1>1 DEF on_connection_established, on_connection_closed
<1>3. ASSUME NEW p, DialFails(p)
      PROVE  kept /\ UNCHANGED <<monitorVars, serviceVars>>
  BY <1>3 DEF DialFails
<1>4. ASSUME NEW p, NEW d, Establish(p, d)
      PROVE  kept /\ UNCHANGED <<monitorVars, serviceVars>>
  BY <1>4, <1>2 DEF Establish
<1>5. ASSUME NEW c, Close(c)
      PROVE  kept /\ UNCHANGED <<monitorVars, serviceVars>>
  BY <1>5, <1>2 DEF Close
<1>6. ASSUME NEW p, NEW d, \/ HandleRequest(p, d) \/ HandleResponse(p, d)
                           \/ OutboundFailure(p) \/ InboundFailure(p)
      PROVE  kept /\ UNCHANGED <<monitorVars, serviceVars, enr>>
  BY <1>6 DEF HandleRequest, HandleResponse, OutboundFailure, InboundFailure, discoveryVars
<1>7. ASSUME NEW p, HandleHandshakeResult(p)
      PROVE  kept /\ UNCHANGED <<monitorVars, serviceVars, enr, networkVars>>
  BY <1>7 DEF HandleHandshakeResult, discoveryVars
<1>8. ASSUME NEW p, NEW t, PeerTopic(p, t)
      PROVE  kept /\ UNCHANGED <<monitorVars, serviceVars, enr, networkVars>>
  <2>1. \A b : /\ set_peer_subscribed(peers, p, t, b).needed = peers.needed
               /\ DOMAIN set_peer_subscribed(peers, p, t, b) = DOMAIN peers
    BY <1>1 DEF set_peer_subscribed
  <2> QED
    BY <1>8, <2>1 DEF PeerTopic, discoveryVars
<1>9. ASSUME NEW q, NEW found, Discovered(q, found)
      PROVE  kept /\ UNCHANGED <<monitorVars, serviceVars, enr, networkVars>>
  BY <1>9, <1>1 DEF Discovered, process_completed_queries, process_discovered_peers
<1>10. ASSUME NEW low, NEW pruned, Heartbeat(low, pruned)
       PROVE  kept /\ UNCHANGED <<monitorVars, serviceVars, enr, networkVars>>
  <2>1. PICK h \in heartbeat(peers) : peers' = block(h.peers, low)
    BY <1>10 DEF Heartbeat
  <2>2. h.peers = unblocked(peers)
    BY <2>1 DEF heartbeat
  <2>3. unblocked(peers).needed = peers.needed /\ DOMAIN unblocked(peers) = DOMAIN peers
    BY <1>1 DEF unblocked
  <2>4. kept
    BY <2>1, <2>2, <2>3, <1>1 DEF block
  <2> QED
    BY <2>4, <1>10 DEF Heartbeat
<1> HIDE DEF kept
<1>11. kept /\ UNCHANGED <<monitorVars, serviceVars, enr, networkVars>>
  BY <1>3, <1>4, <1>5, <1>6, <1>7, <1>8, <1>9, <1>10 DEF PeerStep, discoveryVars
<1> QED
  BY <1>11 DEF kept

OnSubnet(T, s) == {t \in T : t[2] = s}

LEMMA CountAdds ==
    ASSUME NEW T, IsFiniteSet(T), T \subseteq Topics, NEW t \in Topics, t \notin T
    PROVE  /\ IsFiniteSet(T \cup {t}) /\ SubnetsOf(T \cup {t}) = SubnetsOf(T) \cup {t[2]}
           /\ \A s \in Subnets :
                 Cardinality(OnSubnet(T \cup {t}, s)) =
                    Cardinality(OnSubnet(T, s)) + (IF s = t[2] THEN 1 ELSE 0)
           /\ Cardinality(OnSubnet(T, t[2])) = 0 <=> t[2] \notin SubnetsOf(T)
<1>1. IsFiniteSet(T \cup {t})
  BY FS_AddElement
<1>2. SubnetsOf(T \cup {t}) = SubnetsOf(T) \cup {t[2]}
  BY DEF SubnetsOf
<1>3. \A s : IsFiniteSet(OnSubnet(T, s))
  <2>1. \A s : OnSubnet(T, s) \subseteq T
    BY DEF OnSubnet
  <2> QED
    BY <2>1, FS_Subset
<1>4. ASSUME NEW s \in Subnets
      PROVE  Cardinality(OnSubnet(T \cup {t}, s)) =
                Cardinality(OnSubnet(T, s)) + (IF s = t[2] THEN 1 ELSE 0)
  <2>1. CASE s = t[2]
    <3>1. OnSubnet(T \cup {t}, s) = OnSubnet(T, s) \cup {t} /\ t \notin OnSubnet(T, s)
      BY <2>1 DEF OnSubnet
    <3> QED
      BY <2>1, <3>1, <1>3, FS_AddElement
  <2>2. CASE s # t[2]
    <3>1. OnSubnet(T \cup {t}, s) = OnSubnet(T, s)
      BY <2>2 DEF OnSubnet
    <3>2. Cardinality(OnSubnet(T, s)) \in Nat
      BY <1>3, FS_CardinalityType
    <3> QED
      BY <2>2, <3>1, <3>2
  <2> QED
    BY <2>1, <2>2
<1>5. Cardinality(OnSubnet(T, t[2])) = 0 <=> t[2] \notin SubnetsOf(T)
  <2>1. Cardinality(OnSubnet(T, t[2])) = 0 <=> OnSubnet(T, t[2]) = {}
    BY <1>3, FS_EmptySet
  <2>2. OnSubnet(T, t[2]) = {} <=> t[2] \notin SubnetsOf(T)
    BY DEF OnSubnet, SubnetsOf
  <2> QED
    BY <2>1, <2>2
<1> QED
  BY <1>1, <1>2, <1>4, <1>5

LEMMA CountRemoves ==
    ASSUME NEW T, IsFiniteSet(T), T \subseteq Topics, NEW t \in T
    PROVE  /\ IsFiniteSet(T \ {t})
           /\ \A s \in Subnets :
                 Cardinality(OnSubnet(T, s)) \in Nat /\
                 Cardinality(OnSubnet(T \ {t}, s)) =
                    Cardinality(OnSubnet(T, s)) - (IF s = t[2] THEN 1 ELSE 0)
           /\ SubnetsOf(T \ {t}) = IF Cardinality(OnSubnet(T, t[2])) = 1
                                   THEN SubnetsOf(T) \ {t[2]} ELSE SubnetsOf(T)
           /\ Cardinality(OnSubnet(T, t[2])) > 0
<1> DEFINE R == T \ {t}
<1>1. IsFiniteSet(R) /\ R \subseteq Topics /\ t \notin R /\ R \cup {t} = T /\ t \in Topics
  BY FS_RemoveElement
<1>2. \A s : Cardinality(OnSubnet(R, s)) \in Nat
  <2>1. \A s : OnSubnet(R, s) \subseteq R
    BY DEF OnSubnet
  <2> QED
    BY <1>1, <2>1, FS_Subset, FS_CardinalityType
<1>3. t[2] \in Subnets
  BY <1>1, TopicFacts
<1>4. /\ SubnetsOf(T) = SubnetsOf(R) \cup {t[2]}
      /\ \A s \in Subnets : Cardinality(OnSubnet(T, s)) =
                               Cardinality(OnSubnet(R, s)) + (IF s = t[2] THEN 1 ELSE 0)
      /\ Cardinality(OnSubnet(R, t[2])) = 0 <=> t[2] \notin SubnetsOf(R)
  <2> HIDE DEF R
  <2> QED
    BY <1>1, CountAdds
<1> HIDE DEF R
<1>5. IsFiniteSet(R)
      /\ \A s \in Subnets :
            Cardinality(OnSubnet(T, s)) \in Nat /\
            Cardinality(OnSubnet(R, s)) =
               Cardinality(OnSubnet(T, s)) - (IF s = t[2] THEN 1 ELSE 0)
  BY <1>1, <1>2, <1>4
<1>6. Cardinality(OnSubnet(T, t[2])) = Cardinality(OnSubnet(R, t[2])) + 1
  BY <1>3, <1>4
<1>7. SubnetsOf(R) = IF Cardinality(OnSubnet(T, t[2])) = 1
                     THEN SubnetsOf(T) \ {t[2]} ELSE SubnetsOf(T)
  BY <1>2, <1>4, <1>6
<1>8. Cardinality(OnSubnet(T, t[2])) > 0
  BY <1>2, <1>6
<1> QED
  BY <1>5, <1>7, <1>8 DEF R

\* What is counted, advertised and looked for is what was joined.
NetworkInv ==
    /\ DOMAIN network = {"pc", "topics", "scored", "counts", "metadata"}
    /\ DOMAIN enr = {"domain", "subnets"} /\ DOMAIN peers = DOMAIN InitialPeers(0)
    /\ IsFiniteSet(network.topics) /\ network.topics \subseteq Topics
    /\ network.counts \in [Subnets -> Nat]
    /\ \A s \in Subnets : network.counts[s] = Cardinality(OnSubnet(network.topics, s))
    /\ network.metadata = SubnetsOf(network.topics)
    /\ enr.subnets = SubnetsOf(network.topics) /\ peers.needed = SubnetsOf(network.topics)
    /\ network.pc \in {"building", "starting"} => network.topics = {}
    /\ Running /\ "network" \notin unseen => enr.domain = lifecycle.current

LEMMA WithTarget ==
    ASSUME NEW pm
    PROVE  /\ DOMAIN with_target(pm) = DOMAIN pm
           /\ "needed" \in DOMAIN pm => with_target(pm).needed = pm.needed
BY DEF with_target, set_target_peers

LEMMA OnSubscribeInv ==
    ASSUME NetworkInv, Running, NEW t \in Topics, t \notin network.topics, NEW rate,
           on_subscribe(t, rate), lifecycle' = lifecycle, unseen' = unseen
    PROVE  /\ NetworkInv' /\ network'.pc = network.pc
           /\ network'.topics = network.topics \cup {t}
           /\ network'.scored = IF rate THEN network.scored \cup {t} ELSE network.scored
<1> DEFINE T == network.topics
           s0 == t[2]
           net == [network EXCEPT !.topics = @ \cup {t},
                                  !.scored = IF rate THEN @ \cup {t} ELSE @,
                                  !.counts[t[2]] = @ + 1]
           counts == [network.counts EXCEPT ![s0] = network.counts[s0] + 1]
<1>1. s0 \in Subnets
  BY TopicFacts
<1>2. /\ DOMAIN net = DOMAIN network /\ net.pc = network.pc /\ net.topics = T \cup {t}
      /\ net.scored = IF rate THEN network.scored \cup {t} ELSE network.scored
      /\ net.counts = counts /\ net.metadata = network.metadata
  BY DEF NetworkInv
<1>3. /\ IsFiniteSet(T \cup {t}) /\ SubnetsOf(T \cup {t}) = SubnetsOf(T) \cup {s0}
      /\ \A s \in Subnets : Cardinality(OnSubnet(T \cup {t}, s)) =
                               Cardinality(OnSubnet(T, s)) + (IF s = s0 THEN 1 ELSE 0)
      /\ Cardinality(OnSubnet(T, s0)) = 0 <=> s0 \notin SubnetsOf(T)
  BY CountAdds DEF NetworkInv
<1>4. /\ counts \in [Subnets -> Nat]
      /\ \A s \in Subnets : counts[s] = Cardinality(OnSubnet(T \cup {t}, s))
  <2>1. counts \in [Subnets -> Nat]
    BY <1>1 DEF NetworkInv
  <2>2. \A s \in Subnets : counts[s] = network.counts[s] + (IF s = s0 THEN 1 ELSE 0)
    BY <1>1 DEF NetworkInv
  <2> HIDE DEF counts
  <2> QED
    BY <2>1, <2>2, <1>3 DEF NetworkInv
<1> HIDE DEF counts
<1>5. network.counts[s0] = 0 <=> s0 \notin SubnetsOf(T)
  BY <1>1, <1>3 DEF NetworkInv
<1>6. CASE network.counts[s0] = 0
  <2>1. enr' = set_subscribed(enr, s0, TRUE) /\ peers' = join_subnet(peers, s0)
        /\ network' = [net EXCEPT !.metadata = metadata_set_subscribed(@, s0, TRUE)]
    BY <1>6 DEF on_subscribe, update_subnet_membership
  <2> HIDE DEF net
  <2>2. DOMAIN enr' = DOMAIN enr /\ enr'.domain = enr.domain /\ enr'.subnets = enr.subnets \cup {s0}
    BY <2>1 DEF set_subscribed, NetworkInv
  <2>3. DOMAIN peers' = DOMAIN peers /\ peers'.needed = peers.needed \cup {s0}
    <3>1. "needed" \in DOMAIN peers
      BY DEF NetworkInv, InitialPeers
    <3> DEFINE pm == [peers EXCEPT !.needed = peers.needed \cup {s0}]
    <3>2. DOMAIN pm = DOMAIN peers /\ pm.needed = peers.needed \cup {s0}
      BY <3>1
    <3> HIDE DEF pm
    <3>3. peers' = with_target(pm)
      BY <2>1 DEF join_subnet, pm
    <3> QED
      BY <3>1, <3>2, <3>3, WithTarget
  <2>4. DOMAIN network' = DOMAIN net /\ network'.metadata = net.metadata \cup {s0}
        /\ network'.pc = net.pc /\ network'.topics = net.topics /\ network'.scored = net.scored
        /\ network'.counts = net.counts
    BY <2>1, <1>2 DEF metadata_set_subscribed, NetworkInv
  <2>5. NetworkInv'
    <3>1. /\ DOMAIN network' = DOMAIN network /\ network'.topics = T \cup {t}
          /\ network'.counts = counts /\ network'.metadata = SubnetsOf(T \cup {t})
          /\ network'.pc = network.pc
          /\ enr'.subnets = SubnetsOf(T \cup {t}) /\ peers'.needed = SubnetsOf(T \cup {t})
      BY <2>2, <2>3, <2>4, <1>2, <1>3 DEF NetworkInv
    <3> QED
      BY <3>1, <2>2, <2>3, <1>3, <1>4 DEF NetworkInv, Running
  <2> QED
    BY <2>4, <2>5, <1>2
<1>7. CASE network.counts[s0] # 0
  <2>1. network' = net /\ enr' = enr /\ peers' = peers
    BY <1>7 DEF on_subscribe, discoveryVars
  <2> HIDE DEF net
  <2>2. SubnetsOf(T \cup {t}) = SubnetsOf(T)
    BY <1>3, <1>5, <1>7
  <2>3. NetworkInv'
    BY <2>1, <2>2, <1>2, <1>3, <1>4 DEF NetworkInv, Running
  <2> QED
    BY <2>1, <2>3, <1>2
<1> QED
  BY <1>6, <1>7

LEMMA OnUnsubscribeInv ==
    ASSUME NetworkInv, Running, NEW t \in network.topics,
           on_unsubscribe(t), lifecycle' = lifecycle, unseen' = unseen
    PROVE  /\ NetworkInv' /\ network'.pc = network.pc
           /\ network'.topics = network.topics \ {t} /\ network'.scored = network.scored
<1> DEFINE T == network.topics
           s0 == t[2]
           net == [network EXCEPT !.topics = @ \ {t},
                                  !.counts[t[2]] = IF @ > 0 THEN @ - 1 ELSE 0]
           counts == [network.counts EXCEPT ![s0] = IF network.counts[s0] > 0
                                                    THEN network.counts[s0] - 1 ELSE 0]
<1>1. s0 \in Subnets
  BY TopicFacts DEF NetworkInv
<1>2. /\ DOMAIN net = DOMAIN network /\ net.pc = network.pc /\ net.topics = T \ {t}
      /\ net.scored = network.scored /\ net.counts = counts /\ net.metadata = network.metadata
  BY DEF NetworkInv
<1>3. /\ IsFiniteSet(T \ {t})
      /\ \A s \in Subnets : Cardinality(OnSubnet(T, s)) \in Nat /\
                            Cardinality(OnSubnet(T \ {t}, s)) =
                               Cardinality(OnSubnet(T, s)) - (IF s = s0 THEN 1 ELSE 0)
      /\ SubnetsOf(T \ {t}) = IF Cardinality(OnSubnet(T, s0)) = 1
                              THEN SubnetsOf(T) \ {s0} ELSE SubnetsOf(T)
      /\ Cardinality(OnSubnet(T, s0)) > 0
  BY CountRemoves DEF NetworkInv
<1>4. /\ counts \in [Subnets -> Nat]
      /\ \A s \in Subnets : counts[s] = Cardinality(OnSubnet(T \ {t}, s))
  <2>1. network.counts[s0] \in Nat /\ network.counts[s0] > 0
    BY <1>1, <1>3 DEF NetworkInv
  <2>2. counts \in [Subnets -> Nat]
    BY <2>1, <1>1 DEF NetworkInv
  <2>3. \A s \in Subnets : counts[s] = network.counts[s] - (IF s = s0 THEN 1 ELSE 0)
    BY <2>1, <1>1 DEF NetworkInv
  <2> HIDE DEF counts
  <2> QED
    BY <2>2, <2>3, <1>3 DEF NetworkInv
<1> HIDE DEF counts
<1>5. network.counts[s0] = Cardinality(OnSubnet(T, s0))
  BY <1>1 DEF NetworkInv
<1>6. CASE network.counts[s0] = 1
  <2>1. enr' = set_subscribed(enr, s0, FALSE) /\ peers' = leave_subnet(peers, s0)
        /\ network' = [net EXCEPT !.metadata = metadata_set_subscribed(@, s0, FALSE)]
    BY <1>6 DEF on_unsubscribe, update_subnet_membership
  <2> HIDE DEF net
  <2>2. DOMAIN enr' = DOMAIN enr /\ enr'.domain = enr.domain /\ enr'.subnets = enr.subnets \ {s0}
    BY <2>1 DEF set_subscribed, NetworkInv
  <2>3. DOMAIN peers' = DOMAIN peers /\ peers'.needed = peers.needed \ {s0}
    <3>1. "needed" \in DOMAIN peers
      BY DEF NetworkInv, InitialPeers
    <3> DEFINE pm == [peers EXCEPT !.needed = peers.needed \ {s0}]
    <3>2. DOMAIN pm = DOMAIN peers /\ pm.needed = peers.needed \ {s0}
      BY <3>1
    <3> HIDE DEF pm
    <3>3. peers' = with_target(pm)
      BY <2>1 DEF leave_subnet, pm
    <3> QED
      BY <3>1, <3>2, <3>3, WithTarget
  <2>4. DOMAIN network' = DOMAIN net /\ network'.metadata = net.metadata \ {s0}
        /\ network'.pc = net.pc /\ network'.topics = net.topics /\ network'.scored = net.scored
        /\ network'.counts = net.counts
    BY <2>1, <1>2 DEF metadata_set_subscribed, NetworkInv
  <2>5. T \ {t} \subseteq Topics /\ SubnetsOf(T \ {t}) = SubnetsOf(T) \ {s0}
    BY <1>3, <1>5, <1>6 DEF NetworkInv
  <2>6. NetworkInv'
    <3>1. /\ DOMAIN network' = DOMAIN network /\ network'.topics = T \ {t}
          /\ network'.counts = counts /\ network'.metadata = SubnetsOf(T \ {t})
          /\ network'.pc = network.pc
          /\ enr'.subnets = SubnetsOf(T \ {t}) /\ peers'.needed = SubnetsOf(T \ {t})
      BY <2>2, <2>3, <2>4, <2>5, <1>2 DEF NetworkInv
    <3> QED
      BY <3>1, <2>2, <2>3, <2>5, <1>3, <1>4 DEF NetworkInv, Running
  <2> QED
    BY <2>4, <2>6, <1>2
<1>7. CASE network.counts[s0] # 1
  <2>1. network' = net /\ enr' = enr /\ peers' = peers
    BY <1>7 DEF on_unsubscribe
  <2> HIDE DEF net
  <2>2. T \ {t} \subseteq Topics /\ SubnetsOf(T \ {t}) = SubnetsOf(T)
    BY <1>3, <1>5, <1>7 DEF NetworkInv
  <2>3. NetworkInv'
    BY <2>1, <2>2, <1>2, <1>3, <1>4 DEF NetworkInv, Running
  <2> QED
    BY <2>1, <2>3, <1>2
<1> QED
  BY <1>6, <1>7

LEMMA OnTopicEventInv ==
    ASSUME ServiceInv, NetworkInv, OnTopicEvent
    PROVE  ServiceInv' /\ NetworkInv'
<1> DEFINE e == Head(channel)
           n == Len(channel)
<1>1. /\ Running /\ channel # <<>> /\ channel' = Tail(channel)
      /\ lifecycle' = lifecycle /\ unseen' = unseen /\ config' = config
      /\ clusters' = clusters /\ db_changed' = db_changed /\ service' = service
  BY DEF OnTopicEvent, monitorVars
<1>2. /\ channel \in Seq(Events) /\ n \in Nat /\ n >= 1 /\ e = channel[1] /\ e \in Events
      /\ channel' \in Seq(Events) /\ Len(channel') = n - 1
      /\ \A i \in 1 .. n - 1 : channel'[i] = channel[i + 1]
  BY <1>1 DEF ServiceInv, ServiceTypes
<1>3. PICK W : Chain(W)
  BY <1>1 DEF ServiceInv, Running
<1>4. /\ W \in [0 .. n -> SUBSET Topics] /\ W[0] = network.topics /\ W[n] = Told
      /\ \A i \in 1 .. n : Takes(channel[i], W[i - 1], W[i])
  BY <1>3 DEF Chain
<1>5. Takes(e, network.topics, W[1])
  <2>1. 1 \in 1 .. n /\ 1 - 1 = 0
    BY <1>2
  <2> QED
    BY <2>1, <1>2, <1>4
<1>6. e.topic \in Topics /\ e.kind \in {"Subscribe", "Unsubscribe", "RateUpdate"}
  BY <1>2 DEF Events
<1>7. /\ NetworkInv' /\ network'.pc = network.pc /\ network'.topics = W[1]
      /\ network.scored \subseteq network'.scored
      /\ \A t : Rated(e, t) => t \in network'.scored
  <2>1. CASE e.kind = "Subscribe"
    <3>1. on_subscribe(e.topic, e.rate)
      BY <2>1 DEF OnTopicEvent
    <3>2. e.topic \notin network.topics /\ W[1] = network.topics \cup {e.topic}
      BY <2>1, <1>5 DEF Takes
    <3> HIDE DEF e
    <3>3. /\ NetworkInv' /\ network'.pc = network.pc
          /\ network'.topics = network.topics \cup {e.topic}
          /\ network'.scored = IF e.rate THEN network.scored \cup {e.topic} ELSE network.scored
      BY <3>1, <3>2, <1>1, <1>6, OnSubscribeInv
    <3> QED
      BY <2>1, <3>2, <3>3 DEF Rated
  <2>2. CASE e.kind = "Unsubscribe"
    <3>1. on_unsubscribe(e.topic)
      BY <2>2 DEF OnTopicEvent
    <3>2. e.topic \in network.topics /\ W[1] = network.topics \ {e.topic}
      BY <2>2, <1>5 DEF Takes
    <3> HIDE DEF e
    <3>3. /\ NetworkInv' /\ network'.pc = network.pc
          /\ network'.topics = network.topics \ {e.topic} /\ network'.scored = network.scored
      BY <3>1, <3>2, <1>1, OnUnsubscribeInv
    <3> QED
      BY <2>2, <3>2, <3>3 DEF Rated
  <2>3. CASE e.kind = "RateUpdate"
    <3>1. /\ network' = [network EXCEPT !.scored = network.scored \cup {e.topic}]
          /\ peers' = peers /\ enr' = enr
      BY <2>3 DEF OnTopicEvent, discoveryVars
    <3> HIDE DEF e
    <3>2. /\ DOMAIN network' = DOMAIN network /\ network'.topics = network.topics
          /\ network'.pc = network.pc /\ network'.counts = network.counts
          /\ network'.metadata = network.metadata
          /\ network'.scored = network.scored \cup {e.topic}
      BY <3>1 DEF NetworkInv
    <3>3. NetworkInv'
      BY <3>1, <3>2, <1>1 DEF NetworkInv, Running
    <3>4. W[1] = network.topics
      BY <2>3, <1>5 DEF Takes
    <3> QED
      BY <3>2, <3>3, <3>4 DEF Rated
  <2> QED
    BY <2>1, <2>2, <2>3, <1>6
<1>8. ServiceTypes' /\ Shape' /\ Following' /\ Recorded'
  BY <1>1, <1>2 DEF ServiceInv, ServiceTypes, Shape, Following, Recorded, Running
<1>9. Fresh'
  BY <1>1, GenerateKept DEF ServiceInv, ServiceTypes, ForkMap, Fresh, Running
<1>10. Told' = Told
  BY <1>1 DEF Told
<1>11. Scored'
  <2> SUFFICES ASSUME config.scoring, NEW t \in Told, t[1] = service.fork_to_score
               PROVE  \/ t \in network'.scored \/ t \in service.rates
                      \/ \E i \in 1 .. n - 1 : Rated(channel'[i], t)
    BY <1>1, <1>2, <1>10 DEF Scored
  <2>1. ASSUME NEW i \in 1 .. n, Rated(channel[i], t)
        PROVE  t \in network'.scored \/ \E j \in 1 .. n - 1 : Rated(channel'[j], t)
    <3>1. CASE i = 1
      BY <2>1, <3>1, <1>2, <1>7
    <3>2. CASE i # 1
      <4>1. i - 1 \in 1 .. n - 1 /\ channel'[i - 1] = channel[i]
        BY <3>2, <1>2
      <4> QED
        BY <2>1, <4>1
    <3> QED
      BY <3>1, <3>2
  <2> QED
    BY <2>1, <1>1, <1>7 DEF ServiceInv, Scored, Running
<1>12. (\E V : Chain(V))'
  <2>1. PICK V : V = [i \in 0 .. n - 1 |-> W[i + 1]]
    OBVIOUS
  <2>2. V \in [0 .. n - 1 -> SUBSET Topics] /\ V[0] = W[1] /\ V[n - 1] = Told
    <3> HIDE DEF n
    <3> QED
      BY <2>1, <1>2, <1>4
  <2>3. ASSUME NEW i \in 1 .. n - 1
        PROVE  Takes(channel'[i], V[i - 1], V[i])
    <3>1. /\ i + 1 \in 1 .. n /\ V[i] = W[i + 1] /\ V[i - 1] = W[i]
          /\ channel'[i] = channel[i + 1] /\ (i + 1) - 1 = i
      <4> HIDE DEF n
      <4> QED
        BY <2>1, <1>2
    <3> QED
      BY <3>1, <1>4
  <2>4. /\ V \in [0 .. Len(channel') -> SUBSET Topics]
        /\ V[0] = network'.topics /\ V[Len(channel')] = Told'
        /\ \A i \in 1 .. Len(channel') : Takes(channel'[i], V[i - 1], V[i])
    BY <2>2, <2>3, <1>2, <1>7, <1>10
  <2>5. Chain(V)'
    BY <2>4 DEF Chain, Takes, Topics, Scheduled
  <2> QED
    BY <2>5
<1> QED
  BY <1>7, <1>8, <1>9, <1>11, <1>12 DEF ServiceInv

\* A step that leaves the service, the joined topics and the lifecycle alone
LEMMA ServiceInvKept ==
    ASSUME ServiceInv, UNCHANGED <<config, clusters, db_changed, service, channel>>,
           network'.topics = network.topics, network'.scored = network.scored,
           network.pc = "stopped" => network'.pc = "stopped",
           lifecycle' = lifecycle, unseen' = unseen \/ unseen' = unseen \ {"network"}
    PROVE  ServiceInv'
<1>1. ServiceTypes' /\ Shape' /\ Following'
  BY DEF ServiceInv, ServiceTypes, Shape, Following
<1>2. Told' = Told
  BY DEF Told
<1>3. ASSUME network'.pc # "stopped"
      PROVE  Recorded' /\ Fresh' /\ Scored' /\ (\E W : Chain(W))'
  <2>1. Recorded' /\ Scored'
    BY <1>2, <1>3 DEF ServiceInv, Recorded, Scored
  <2>2. Fresh'
    BY <1>3, GenerateKept DEF ServiceInv, ServiceTypes, ForkMap, Fresh
  <2>3. PICK W : Chain(W)
    BY <1>3 DEF ServiceInv
  <2>4. Chain(W)'
    BY <2>3, <1>2 DEF Chain
  <2> QED
    BY <2>1, <2>2, <2>4
<1> QED
  BY <1>1, <1>3 DEF ServiceInv

LEMMA ObserveInv ==
    ASSUME MonitorInv, ServiceInv, NetworkInv, MonitorStep
    PROVE  ServiceInv' /\ NetworkInv'
<1>1. /\ (lifecycle' = lifecycle /\ unseen' = unseen) \/ unseen' = Receivers
      /\ UNCHANGED <<config, clusters, db_changed, service, channel, peers, enr, network>>
  BY ObserveAdvances DEF MonitorStep, serviceVars, peerVars, discoveryVars, networkVars
<1>2. ServiceTypes' /\ Shape' /\ Following'
  BY <1>1 DEF ServiceInv, ServiceTypes, Shape, Following, Receivers
<1>3. Told' = Told
  BY <1>1 DEF Told
<1>4. network.pc # "stopped" => Recorded' /\ Scored'
  BY <1>1, <1>3 DEF ServiceInv, Recorded, Scored
<1>5. network.pc # "stopped" => Fresh'
  BY <1>1, GenerateKept DEF ServiceInv, ServiceTypes, ForkMap, Fresh
<1>6. network.pc # "stopped" => (\E W : Chain(W))'
  BY <1>1, <1>3, ChainKept DEF ServiceInv
<1>7. NetworkInv'
  BY <1>1 DEF NetworkInv, Running, Receivers
<1> QED
  BY <1>1, <1>2, <1>4, <1>5, <1>6, <1>7 DEF ServiceInv

LEMMA DatabaseInv ==
    ASSUME ServiceInv, NetworkInv, DatabaseStep
    PROVE  ServiceInv' /\ NetworkInv'
<1>1. /\ UNCHANGED <<lifecycle, unseen, config, service, channel, peers, enr, network>>
      /\ db_changed' = TRUE
  BY DEF DatabaseStep, ClusterChanges, monitorVars, peerVars, discoveryVars
<1>2. ServiceTypes' /\ Shape' /\ Following'
  BY <1>1 DEF ServiceInv, ServiceTypes, Shape, Following
<1>3. Told' = Told
  BY <1>1 DEF Told
<1>4. network.pc # "stopped" => Recorded' /\ Scored'
  BY <1>1, <1>3 DEF ServiceInv, Recorded, Scored
<1>5. network.pc # "stopped" => Fresh'
  BY <1>1 DEF ServiceInv, Fresh, generate_subnets
<1>6. network.pc # "stopped" => (\E W : Chain(W))'
  BY <1>1, <1>3, ChainKept DEF ServiceInv
<1>7. NetworkInv'
  BY <1>1 DEF NetworkInv, Running
<1> QED
  BY <1>1, <1>2, <1>4, <1>5, <1>6, <1>7 DEF ServiceInv

LEMMA ServiceStepInv ==
    ASSUME MonitorInv, ServiceInv, NetworkInv, ServiceStep
    PROVE  ServiceInv' /\ NetworkInv'
<1>1. UNCHANGED <<peers, enr, network>>
  BY DEF ServiceStep, peerVars, discoveryVars, networkVars
<1>2. ServiceInv'
  BY <1>1, HandleLifecycleInv, HandleDbChangeInv, EpochTickInv, BeginSubnetChangesInv,
     BeginForkInv, EndForkInv, DoneInv, SendInv, SendFailsInv DEF ServiceStep
<1>3. lifecycle' = lifecycle /\ (unseen' = unseen \/ unseen' = unseen \ {"subnet_service"})
  BY DEF ServiceStep, HandleLifecycle, HandleDbChange, EpochTick, BeginSubnetChanges,
     BeginFork, EndFork, Done, Send, SendFails, monitorVars
<1>4. NetworkInv'
  BY <1>1, <1>3 DEF NetworkInv, Running
<1> QED
  BY <1>2, <1>4

LEMMA TaskStepInv ==
    ASSUME ServiceInv, NetworkInv, Build \/ Reconcile \/ OnLifecycleChanged \/ ChannelsClose
    PROVE  ServiceInv' /\ NetworkInv'
<1>1. /\ UNCHANGED <<config, clusters, db_changed, service, channel, lifecycle, peers>>
      /\ DOMAIN network' = DOMAIN network /\ network'.topics = network.topics
      /\ network'.scored = network.scored /\ network'.counts = network.counts
      /\ network'.metadata = network.metadata
      /\ network.pc = "stopped" => network'.pc = "stopped"
      /\ unseen' = unseen \/ unseen' = unseen \ {"network"}
  BY DEF Build, Reconcile, OnLifecycleChanged, ChannelsClose, Stop, Running, NetworkInv,
     serviceVars, peerVars, monitorVars, networkVars
<1>2. DOMAIN enr' = DOMAIN enr /\ enr'.subnets = enr.subnets
  <2>1. CASE Build
    <3>1. enr' = [domain |-> lifecycle.current, subnets |-> {}] /\ network.topics = {}
      BY <2>1 DEF Build, build_enr, NetworkInv
    <3> QED
      BY <3>1 DEF NetworkInv, SubnetsOf
  <2>2. CASE Reconcile \/ OnLifecycleChanged \/ ChannelsClose
    BY <2>2 DEF Reconcile, OnLifecycleChanged, ChannelsClose, update_enr_domain_type,
       update_fails, discoveryVars, NetworkInv
  <2> QED
    BY <2>1, <2>2
<1>3. network'.pc \in {"building", "starting"} => network.pc \in {"building", "starting"}
  BY DEF Build, Reconcile, OnLifecycleChanged, ChannelsClose, Stop, Running, NetworkInv,
     networkVars
<1>4. network'.pc = "running" /\ "network" \notin unseen' => enr'.domain = lifecycle'.current
  <2>1. CASE Build
    BY <2>1 DEF Build, NetworkInv
  <2>2. CASE Reconcile
    BY <2>2 DEF Reconcile, update_enr_domain_type, Stop, NetworkInv
  <2>3. CASE OnLifecycleChanged
    BY <2>3 DEF OnLifecycleChanged, update_enr_domain_type, Stop, NetworkInv, networkVars
  <2>4. CASE ChannelsClose
    BY <2>4 DEF ChannelsClose, Stop, NetworkInv
  <2> QED
    BY <2>1, <2>2, <2>3, <2>4
<1>5. ServiceInv'
  BY <1>1, ServiceInvKept
<1>6. NetworkInv'
  BY <1>1, <1>2, <1>3, <1>4 DEF NetworkInv, Running
<1> QED
  BY <1>5, <1>6

\* A process that starts, or is started again.
Started ==
    /\ service = InitialService /\ channel = <<>> /\ unseen = {} /\ network = InitialNetwork
    /\ peers = InitialPeers(BASE_PEER_COUNT) /\ enr = build_enr("none")

LEMMA StartInv == Started => ServiceInv /\ NetworkInv
<1> SUFFICES ASSUME Started PROVE ServiceInv /\ NetworkInv
  OBVIOUS
<1> USE DEF Started
<1>1. ServiceTypes
  <2>1. ForkMap(<<>>)
    BY DEF ForkMap
  <2> QED
    BY <2>1, ScheduleFacts DEF ServiceTypes, InitialService
<1>2. Shape /\ Following /\ Recorded /\ Fresh
  BY DEF Shape, Following, Recorded, Fresh, InitialService
<1>3. Told = {}
  BY TopicFacts DEF Told, InitialService
<1>4. Scored
  BY <1>3 DEF Scored
<1>5. \E W : Chain(W)
  <2>1. PICK W : W = [i \in 0 .. 0 |-> {}]
    OBVIOUS
  <2>2. Len(channel) = 0 /\ network.topics = {}
    BY DEF InitialNetwork
  <2>3. Chain(W)
    BY <2>1, <2>2, <1>3 DEF Chain
  <2> QED
    BY <2>3
<1>6. NetworkInv
  <2>1. /\ network.topics = {} /\ network.metadata = {} /\ enr.subnets = {}
        /\ peers.needed = {} /\ network.pc = "building"
        /\ network.counts = [s \in Subnets |-> 0]
        /\ DOMAIN network = {"pc", "topics", "scored", "counts", "metadata"}
        /\ DOMAIN enr = {"domain", "subnets"} /\ DOMAIN peers = DOMAIN InitialPeers(0)
    BY DEF InitialNetwork, build_enr, InitialPeers
  <2>2. SubnetsOf({}) = {} /\ \A s : OnSubnet({}, s) = {}
    BY DEF SubnetsOf, OnSubnet
  <2>3. IsFiniteSet({}) /\ Cardinality({}) = 0
    BY FS_EmptySet
  <2>4. network.counts \in [Subnets -> Nat] /\ \A s \in Subnets : network.counts[s] = 0
    BY <2>1
  <2> QED
    BY <2>1, <2>2, <2>3, <2>4 DEF NetworkInv, Running
<1> QED
  BY <1>1, <1>2, <1>4, <1>5, <1>6 DEF ServiceInv

NetworkSafe == MonitorInv /\ ServiceInv /\ NetworkInv

LEMMA NetworkSafeInit == Init => NetworkSafe
<1>1. Init => Started
  BY DEF Init, StartProcess, SpawnMonitor, Started
<1> QED
  BY <1>1, MonitorInvInit, StartInv DEF NetworkSafe

LEMMA RestartInv == Restart => (ServiceInv /\ NetworkInv)'
<1>1. Restart => Started'
  BY DEF Restart, Started
<1> QED
  BY <1>1, StartInv, PTL

LEMMA NetworkSafeNext == NetworkSafe /\ [Next]_vars => NetworkSafe'
<1> SUFFICES ASSUME NetworkSafe, [Next]_vars PROVE ServiceInv' /\ NetworkInv'
  BY MonitorInvNext DEF NetworkSafe
<1> USE DEF NetworkSafe
<1>1. ASSUME NEW slot \in config.clock, ClockMoves(slot)
      PROVE  ServiceInv' /\ NetworkInv'
  <2>1. UNCHANGED <<config, clusters, db_changed, service, channel, lifecycle, unseen, network,
                    peers, enr>>
    BY <1>1 DEF ClockMoves, serviceVars, peerVars, discoveryVars, networkVars
  <2>2. NetworkInv'
    BY <2>1 DEF NetworkInv, Running
  <2> QED
    BY <2>1, <2>2, ServiceInvKept
<1>2. CASE PeerStep
  <2>1. /\ UNCHANGED <<config, clusters, db_changed, service, channel, lifecycle, unseen,
                       network, enr>>
        /\ peers'.needed = peers.needed /\ DOMAIN peers' = DOMAIN peers
    <3>1. DOMAIN peers = DOMAIN InitialPeers(0)
      BY DEF NetworkInv
    <3> QED
      BY <1>2, <3>1, PeerStepKeepsNeeded DEF monitorVars, serviceVars, networkVars
  <2>2. NetworkInv'
    BY <2>1 DEF NetworkInv, Running
  <2> QED
    BY <2>1, <2>2, ServiceInvKept
<1>3. CASE UNCHANGED vars
  <2>1. UNCHANGED <<config, clusters, db_changed, service, channel, lifecycle, unseen, network,
                    peers, enr>>
    BY <1>3 DEF vars, monitorVars, serviceVars, peerVars, discoveryVars, networkVars
  <2>2. NetworkInv'
    BY <2>1 DEF NetworkInv, Running
  <2> QED
    BY <2>1, <2>2, ServiceInvKept
<1>4. CASE Restart
  BY <1>4, RestartInv
<1>5. CASE MonitorStep \/ ServiceStep \/ DatabaseStep
  BY <1>5, ObserveInv, ServiceStepInv, DatabaseInv
<1>6. CASE Build \/ Reconcile \/ OnLifecycleChanged \/ OnTopicEvent \/ ChannelsClose
  BY <1>6, TaskStepInv, OnTopicEventInv
<1> QED
  BY <1>1, <1>2, <1>3, <1>4, <1>5, <1>6 DEF Next

LEMMA SafeIsConsistent == NetworkSafe => SettledIsConsistent
<1> SUFFICES ASSUME NetworkSafe, Settled PROVE Consistent
  BY DEF SettledIsConsistent
<1> USE DEF NetworkSafe
<1>1. /\ network.pc = "running" /\ unseen = {} /\ service.pc = "idle" /\ channel = <<>>
      /\ config.subscribe_all_subnets \/ ~db_changed
  BY DEF Settled, Running
<1>2. /\ Recorded /\ Fresh /\ Scored /\ ServiceTypes /\ Shape
      /\ DOMAIN service.forks = lifecycle.forks /\ service.fork_to_score = lifecycle.current
  BY <1>1 DEF ServiceInv, Following
<1>3. network.topics = Told
  <2>1. PICK W : Chain(W)
    BY <1>1 DEF ServiceInv
  <2>2. Len(channel) = 0
    BY <1>1
  <2> QED
    BY <2>1, <2>2 DEF Chain
<1>4. \A t \in Topics : t \in Told <=> t[1] \in lifecycle.forks /\ t[2] \in generate_subnets(t[1])
  <2>1. service.leave = {} /\ service.fork = NoFork
    BY <1>1, <1>2 DEF Shape
  <2>2. \A f \in lifecycle.forks : service.forks[f] = generate_subnets(f)
    BY <1>1, <1>2 DEF Fresh
  <2>3. \A t \in Topics : t[1] # NoFork
    BY TopicFacts
  <2> QED
    BY <2>1, <2>2, <2>3, <1>2 DEF Told
<1>5. RequiredTopics = Told
  <2>1. lifecycle.forks \subseteq Scheduled
    BY LifecycleTypes DEF MonitorInv
  <2>2. \A f \in lifecycle.forks :
           /\ topics_of(f, generate_subnets(f)) \subseteq Topics
           /\ \A t \in Topics :
                 t \in topics_of(f, generate_subnets(f)) <=> t[1] = f /\ t[2] \in generate_subnets(f)
    BY <2>1, GenerateTypes, TopicsOf
  <2>3. RequiredTopics \subseteq Topics
    BY <2>2 DEF RequiredTopics
  <2>4. \A t \in Topics :
           t \in RequiredTopics <=> t[1] \in lifecycle.forks /\ t[2] \in generate_subnets(t[1])
    BY <2>2 DEF RequiredTopics
  <2>5. Told \subseteq Topics
    BY DEF Told
  <2> QED
    BY <2>3, <2>4, <2>5, <1>4
<1>6. config.scoring => {t \in network.topics : t[1] = lifecycle.current} \subseteq network.scored
  <2>1. service.rates = {} /\ Len(channel) = 0
    BY <1>1, <1>2 DEF Shape
  <2> QED
    BY <2>1, <1>2, <1>3 DEF Scored
<1>7. \A s \in Subnets : network.counts[s] = Cardinality({t \in network.topics : t[2] = s})
  BY DEF NetworkInv, OnSubnet
<1>8. /\ enr.domain = lifecycle.current /\ enr.subnets = SubnetsOf(network.topics)
      /\ network.metadata = SubnetsOf(network.topics) /\ peers.needed = SubnetsOf(network.topics)
  BY <1>1 DEF NetworkInv, Running
<1> QED
  BY <1>3, <1>5, <1>6, <1>7, <1>8 DEF Consistent

\* Whenever nothing is on its way, the topics joined, the counts, the record,
\* the handshake data, the needed subnets and the scored topics are those of
\* the lifecycle and of the live clusters: for every schedule, every set of
\* clusters and subnets, every capacity of the channel, however the monitor,
\* the database, the service and the network task interleave and restart.
THEOREM SettledIsConsistentHolds == Spec => []SettledIsConsistent
BY NetworkSafeInit, NetworkSafeNext, SafeIsConsistent, PTL DEF Spec

===========================================================================
