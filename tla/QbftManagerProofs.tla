------------------------- MODULE QbftManagerProofs -------------------------
(***************************************************************************)
(* Proofs about the instances of one duty, their manager and the processor *)
(* they run on, for any number of callers, messages and generations and    *)
(* for queues and a buffer of any size.                                    *)
(***************************************************************************)
EXTENDS QbftManager, FiniteSetTheorems, SequenceTheorems, TLAPS

Phases == {"free", "queued", "uninit", "sleeping", "init", "decided", "ended"}

TaskStates ==
    [phase : Phases, channel : Seq(Work), buffer : Seq(Messages),
     on_completed : SUBSET Callers, ours : Nat, round : 1..MaxRounds,
     current_round_start_time : Nat, completed : {"no", "success", "timed_out"},
     entered : Nat, log : Seq(Messages), handed : Seq(Messages)]

\* The types, for all the fields of a task; how many permits can be held is
\* a consequence of NoPermitLeaks.
Types ==
    /\ urgent \in Seq(Work) /\ Len(urgent) <= UrgentSize
    /\ permitless \in Seq(Tasks) /\ Len(permitless) <= PermitlessSize
    /\ held \in Int
    /\ time \in 0..MaxTime
    /\ mode \in {"Relative", "SlotTime"}
    /\ arrived \subseteq Messages
    /\ running \in Seq(Work)
    /\ entry \in 0..MaxTasks
    /\ task \in [Tasks -> TaskStates]
    /\ caller \in [Callers ->
          [state : {"idle", "waiting", "success", "timed_out", "error"},
           task : 0..MaxTasks]]

\* The work of each kind has its own fields.
LEMMA WorkFields ==
    ASSUME NEW w \in Work
    PROVE  /\ w.kind \in {"validate", "sign", "send", "net", "init"}
           /\ w.kind = "validate" => w.body \in Messages
           /\ w.kind \notin Blocking => w.kind \in {"net", "init"} /\ w.to \in Tasks
           /\ w.kind \in {"sign", "send"} => w.to \in Tasks
           /\ w.kind = "net" => w.to \in Tasks /\ w.body \in Messages
           /\ w.kind = "init" => w.to \in Tasks /\ w.body \in Callers
BY DEF Work, Blocking

LEMMA WorkMade ==
    /\ \A m \in Messages : [kind |-> "validate", body |-> m] \in Work
    /\ \A k \in Tasks : [kind |-> "sign", to |-> k] \in Work
    /\ \A k \in Tasks : [kind |-> "send", to |-> k] \in Work
    /\ \A k \in Tasks, m \in Messages : [kind |-> "net", to |-> k, body |-> m] \in Work
    /\ \A k \in Tasks, c \in Callers : [kind |-> "init", to |-> k, body |-> c] \in Work
BY DEF Work

\* Work is sent to a queue with room for it, or dropped.
LEMMA SentTypes ==
    ASSUME NEW S, NEW q \in Seq(S), NEW n \in Nat, Len(q) <= n, NEW x \in S
    PROVE  /\ Sent(q, n, x) \in Seq(S)
           /\ Len(Sent(q, n, x)) <= n
           /\ \A i \in DOMAIN Sent(q, n, x) :
                 \/ i \in DOMAIN q /\ Sent(q, n, x)[i] = q[i]
                 \/ i = Len(q) + 1 /\ Sent(q, n, x)[i] = x
BY DEF Sent

LEMMA RemoveAtTypes ==
    ASSUME NEW S, NEW q \in Seq(S), NEW i \in DOMAIN q
    PROVE  RemoveAt(q, i) \in Seq(S) /\ Len(RemoveAt(q, i)) = Len(q) - 1
BY SubSeqProperties, ConcatProperties DEF RemoveAt

LEMMA ManagerConstants ==
    /\ Effect \in [Messages -> {"none", "advance", "decide"}]
    /\ MaxTasks \in Nat \ {0} /\ MaxRounds \in Nat \ {0} /\ RoundTimeout \in Nat \ {0}
    /\ SlotTicks \in Nat \ {0}
    /\ StartTime \in Nat /\ Height \in Nat /\ MaxTime \in Nat /\ BufferLimit \in Nat
BY ManagerAssumption

---------------------------------------------------------------------------
(* What the operators of an instance's task do to its record.              *)

LEMMA NoTaskTypes == NoTask \in TaskStates
BY ManagerConstants DEF NoTask, TaskStates, Phases

LEMMA RoundStartTypes ==
    ASSUME Types
    PROVE  round_start \in Nat
BY ManagerConstants DEF Types, round_start

\* What may change in a record when its Qbft gets a message.
LEMMA QbftReceive ==
    ASSUME Types, NEW t \in TaskStates, NEW effect \in {"none", "advance", "decide"}
    PROVE  LET u == qbft_receive(t, effect)
           IN  /\ u \in TaskStates
               /\ u.phase = t.phase /\ u.channel = t.channel /\ u.buffer = t.buffer
               /\ u.log = t.log /\ u.handed = t.handed
               /\ u.on_completed = t.on_completed
               /\ u.current_round_start_time = t.current_round_start_time
               /\ \/ u.round = t.round /\ u.entered = t.entered
                  \/ /\ effect = "advance" /\ u.round = t.round + 1
                     /\ u.entered = round_start
<1>1. round_start \in Nat
  BY RoundStartTypes
<1>2. CASE t.completed # "no" \/ (effect # "decide" /\ ~(effect = "advance" /\ t.round < MaxRounds))
  BY <1>2 DEF qbft_receive
<1>3. CASE t.completed = "no" /\ effect = "decide"
  <2>1. qbft_receive(t, effect) = [t EXCEPT !.completed = "success"]
    BY <1>3 DEF qbft_receive
  <2> QED
    BY <2>1 DEF TaskStates
<1>4. CASE t.completed = "no" /\ effect = "advance" /\ t.round < MaxRounds
  <2>1. qbft_receive(t, effect) = [t EXCEPT !.round = @ + 1, !.entered = round_start]
    BY <1>4 DEF qbft_receive
  <2>2. t.round + 1 \in 1..MaxRounds
    BY <1>4, ManagerConstants DEF TaskStates
  <2> QED
    BY <2>1, <2>2, <1>1, <1>4 DEF TaskStates
<1> QED
  BY <1>2, <1>3, <1>4

LEMMA Received ==
    ASSUME Types, NEW t \in TaskStates, NEW m \in Messages
    PROVE  LET u == receive(t, m)
           IN  /\ u \in TaskStates
               /\ u.phase = t.phase /\ u.channel = t.channel /\ u.buffer = t.buffer
               /\ u.log = t.log /\ u.handed = Append(t.handed, m)
               /\ u.on_completed = t.on_completed
               /\ t.current_round_start_time = t.entered =>
                     u.current_round_start_time = u.entered
<1> DEFINE e == Effect[m]
           q == qbft_receive(t, e)
           h == hand(t, m)
           u == receive(t, m)
<1>1. e \in {"none", "advance", "decide"} /\ round_start \in Nat
  BY ManagerConstants, RoundStartTypes
<1>2. /\ q \in TaskStates
      /\ q.phase = t.phase /\ q.channel = t.channel /\ q.buffer = t.buffer
      /\ q.log = t.log /\ q.handed = t.handed
      /\ q.on_completed = t.on_completed
      /\ q.current_round_start_time = t.current_round_start_time
      /\ \/ q.round = t.round /\ q.entered = t.entered
         \/ q.round = t.round + 1 /\ q.entered = round_start
  BY <1>1, QbftReceive
<1>3. h = [q EXCEPT !.handed = Append(@, m)]
  BY DEF hand
<1> HIDE DEF q
<1>4. /\ Append(q.handed, m) \in Seq(Messages) /\ q.round \in Nat /\ t.round \in Nat
  BY <1>2 DEF TaskStates
<1>5. /\ h \in TaskStates /\ h.handed = Append(t.handed, m)
      /\ h.phase = t.phase /\ h.channel = t.channel /\ h.buffer = t.buffer
      /\ h.log = t.log /\ h.on_completed = t.on_completed
      /\ h.current_round_start_time = t.current_round_start_time
      /\ h.round = q.round /\ h.entered = q.entered
  BY <1>2, <1>3, <1>4 DEF TaskStates
<1>6. u = IF h.round > t.round
          THEN [h EXCEPT !.current_round_start_time = round_start] ELSE h
  BY DEF receive
<1> HIDE DEF h, u, e
<1>7. CASE h.round > t.round
  <2>1. u = [h EXCEPT !.current_round_start_time = round_start]
    BY <1>6, <1>7
  <2>2. h.entered = round_start
    BY <1>2, <1>4, <1>5, <1>7
  <2> QED
    BY <2>1, <2>2, <1>5, <1>1 DEF TaskStates, u
<1>8. CASE ~(h.round > t.round)
  BY <1>8, <1>2, <1>4, <1>5, <1>6 DEF u
<1> QED
  BY <1>7, <1>8

LEMMA Begun ==
    ASSUME Types, NEW t \in TaskStates, NEW c \in Callers
    PROVE  LET u == begin(t, c)
           IN  /\ u \in TaskStates
               /\ u.phase = "init" /\ u.channel = t.channel /\ u.buffer = <<>>
               /\ u.log = t.log /\ u.handed = t.handed \o t.buffer
               /\ u.current_round_start_time = u.entered
<1> DEFINE with(effect) == {i \in DOMAIN t.buffer : Effect[t.buffer[i]] = effect}
           advances == {i \in with("advance") : \A j \in with("decide") : i < j}
           raised == t.round + Cardinality(advances)
           r == IF raised < MaxRounds THEN raised ELSE MaxRounds
           s == IF with("decide") = {} THEN t.completed ELSE "success"
           b == t.handed \o t.buffer
           u == begin(t, c)
<1>1. t.buffer \in Seq(Messages) /\ t.handed \in Seq(Messages) /\ t.round \in 1..MaxRounds
  BY DEF TaskStates
<1>2. Cardinality(advances) \in Nat
  <2>1. IsFiniteSet(1..Len(t.buffer))
    BY <1>1, FS_Interval, LenProperties
  <2>2. advances \subseteq 1..Len(t.buffer)
    BY <1>1
  <2> QED
    BY <2>1, <2>2, FS_Subset, FS_CardinalityType
<1>3. b \in Seq(Messages)
  BY <1>1, ConcatProperties
<1>4. r \in 1..MaxRounds
  <2> HIDE DEF advances
  <2> QED
    BY <1>1, <1>2, ManagerConstants
<1>5. s \in {"no", "success", "timed_out"} /\ {c} \in SUBSET Callers /\ <<>> \in Seq(Messages)
  BY DEF TaskStates
<1>6. round_start \in Nat
  BY RoundStartTypes
<1>7. u = [t EXCEPT !.phase = "init", !.current_round_start_time = round_start,
                    !.entered = round_start, !.on_completed = {c}, !.buffer = <<>>,
                    !.handed = b, !.round = r, !.completed = s]
  BY DEF begin, u
<1> HIDE DEF b, r, s, u, raised, advances, with
<1>8. u \in TaskStates
  BY <1>3, <1>4, <1>5, <1>6, <1>7 DEF TaskStates, Phases
<1>9. /\ u.phase = "init" /\ u.channel = t.channel /\ u.buffer = <<>>
      /\ u.log = t.log /\ u.handed = b
      /\ u.current_round_start_time = u.entered
  BY <1>7 DEF TaskStates
<1> QED
  BY <1>8, <1>9 DEF u, b

LEMMA RoundEnded ==
    ASSUME Types, NEW t \in TaskStates
    PROVE  LET u == end_round(t)
           IN  /\ u \in TaskStates
               /\ u.phase = t.phase /\ u.channel = t.channel /\ u.buffer = t.buffer
               /\ u.log = t.log /\ u.handed = t.handed
               /\ t.current_round_start_time = t.entered =>
                     u.current_round_start_time = u.entered
<1>1. round_start \in Nat
  BY RoundStartTypes
<1>2. CASE t.round = MaxRounds
  <2>1. end_round(t) = [t EXCEPT !.completed = "timed_out"]
    BY <1>2 DEF end_round
  <2> QED
    BY <2>1 DEF TaskStates
<1>3. CASE t.round # MaxRounds
  <2>1. end_round(t) = [t EXCEPT !.round = @ + 1, !.entered = round_start,
                                 !.current_round_start_time = round_start]
    BY <1>3 DEF end_round
  <2>2. t.round + 1 \in 1..MaxRounds
    BY <1>3, ManagerConstants DEF TaskStates
  <2> QED
    BY <2>1, <2>2, <1>1 DEF TaskStates
<1> QED
  BY <1>2, <1>3

---------------------------------------------------------------------------
(* The messages in the channels.                                           *)

\* A task whose channel keeps its length, loses its first message, or gets
\* one more.
LEMMA ChannelCounts ==
    ASSUME task \in [Tasks -> TaskStates], task' \in [Tasks -> TaskStates],
           IsFiniteSet(InChannels), NEW k \in Tasks,
           \A j \in Tasks : j # k => task'[j].channel = task[j].channel
    PROVE  /\ task'[k].channel = task[k].channel =>
                 InChannels' = InChannels
           /\ task[k].channel # <<>> /\ task'[k].channel = Tail(task[k].channel) =>
                 /\ IsFiniteSet(InChannels')
                 /\ Cardinality(InChannels') = Cardinality(InChannels) - 1
           /\ \A w \in Work : task'[k].channel = Append(task[k].channel, w) =>
                 /\ IsFiniteSet(InChannels')
                 /\ Cardinality(InChannels') = Cardinality(InChannels) + 1
<1> DEFINE Places(j) == {<<j, i>> : i \in DOMAIN task[j].channel}
           n == Len(task[k].channel)
<1>0. \A t \in TaskStates : t.channel \in Seq(Work)
  BY DEF TaskStates
<1>1. /\ \A j \in Tasks : task[j].channel \in Seq(Work) /\ task'[j].channel \in Seq(Work)
      /\ n \in Nat /\ DOMAIN task[k].channel = 1..n
  BY <1>0
<1>2. \A x : x \in InChannels <=> \E j \in Tasks : \E i \in DOMAIN task[j].channel : x = <<j, i>>
  BY DEF InChannels
<1>3. \A x : x \in InChannels' <=> \E j \in Tasks : \E i \in DOMAIN task'[j].channel : x = <<j, i>>
  BY DEF InChannels
<1>4. ASSUME task'[k].channel = task[k].channel
      PROVE  InChannels' = InChannels
  BY <1>2, <1>3, <1>4
<1>5. ASSUME task[k].channel # <<>>, task'[k].channel = Tail(task[k].channel)
      PROVE  /\ IsFiniteSet(InChannels')
             /\ Cardinality(InChannels') = Cardinality(InChannels) - 1
  <2>1. DOMAIN task'[k].channel = 1..(n - 1) /\ n > 0
    BY <1>1, <1>5
  <2>2. InChannels' = InChannels \ {<<k, n>>}
    BY <1>1, <1>2, <1>3, <2>1
  <2>3. <<k, n>> \in InChannels
    BY <1>1, <1>2, <2>1
  <2> QED
    BY <2>2, <2>3, FS_RemoveElement
<1>6. ASSUME NEW w \in Work, task'[k].channel = Append(task[k].channel, w)
      PROVE  /\ IsFiniteSet(InChannels')
             /\ Cardinality(InChannels') = Cardinality(InChannels) + 1
  <2>1. DOMAIN task'[k].channel = 1..(n + 1)
    BY <1>1, <1>6
  <2>2. InChannels' = InChannels \cup {<<k, n + 1>>}
    BY <1>1, <1>2, <1>3, <2>1
  <2>3. <<k, n + 1>> \notin InChannels
    BY <1>1, <1>2
  <2> QED
    BY <2>2, <2>3, FS_AddElement
<1> QED
  BY <1>4, <1>5, <1>6

LEMMA SleepingFinite == IsFiniteSet(Sleeping) /\ Cardinality(Sleeping) \in Nat
<1>1. IsFiniteSet(Tasks)
  BY FS_Interval, ManagerConstants DEF Tasks
<1> QED
  BY <1>1, FS_Subset, FS_CardinalityType DEF Sleeping

\* A task falls asleep, wakes up, or does neither.
LEMMA SleepingCounts ==
    ASSUME task \in [Tasks -> TaskStates], task' \in [Tasks -> TaskStates],
           NEW k \in Tasks,
           \A j \in Tasks : j # k => task'[j].phase = task[j].phase
    PROVE  /\ IsFiniteSet(Sleeping) /\ Cardinality(Sleeping) \in Nat
           /\ (task[k].phase = "sleeping") <=> (task'[k].phase = "sleeping") =>
                 Sleeping' = Sleeping
           /\ task[k].phase # "sleeping" /\ task'[k].phase = "sleeping" =>
                 Cardinality(Sleeping') = Cardinality(Sleeping) + 1
           /\ task[k].phase = "sleeping" /\ task'[k].phase # "sleeping" =>
                 Cardinality(Sleeping') = Cardinality(Sleeping) - 1
<1>1. IsFiniteSet(Sleeping)
  BY SleepingFinite
<1>2. ASSUME (task[k].phase = "sleeping") <=> (task'[k].phase = "sleeping")
      PROVE  Sleeping' = Sleeping
  BY <1>2 DEF Sleeping
<1>3. ASSUME task[k].phase # "sleeping", task'[k].phase = "sleeping"
      PROVE  Cardinality(Sleeping') = Cardinality(Sleeping) + 1
  <2>1. Sleeping' = Sleeping \cup {k} /\ k \notin Sleeping
    BY <1>3 DEF Sleeping
  <2> QED
    BY <2>1, <1>1, FS_AddElement
<1>4. ASSUME task[k].phase = "sleeping", task'[k].phase # "sleeping"
      PROVE  Cardinality(Sleeping') = Cardinality(Sleeping) - 1
  <2>1. Sleeping' = Sleeping \ {k} /\ k \in Sleeping
    BY <1>4 DEF Sleeping
  <2> QED
    BY <2>1, <1>1, FS_RemoveElement
<1> QED
  BY <1>1, <1>2, <1>3, <1>4, FS_CardinalityType

---------------------------------------------------------------------------
(* The places of the network messages in a channel.                        *)

\* How many of the first i messages of a channel are from the network.
Rank(channel, i) == Cardinality({j \in InChannel(channel) : j <= i})

LEMMA InChannelFinite ==
    ASSUME NEW c \in Seq(Work)
    PROVE  /\ InChannel(c) \subseteq 1..Len(c)
           /\ IsFiniteSet(InChannel(c)) /\ Cardinality(InChannel(c)) \in Nat
<1>1. InChannel(c) \subseteq 1..Len(c)
  BY DEF InChannel
<1>2. IsFiniteSet(1..Len(c))
  BY FS_Interval, LenProperties
<1> QED
  BY <1>1, <1>2, FS_Subset, FS_CardinalityType

LEMMA RankTypes ==
    ASSUME NEW c \in Seq(Work), NEW i \in Int
    PROVE  /\ Rank(c, i) \in Nat
           /\ Rank(c, i) <= Cardinality(InChannel(c))
           /\ i >= Len(c) => Rank(c, i) = Cardinality(InChannel(c))
           /\ i \in InChannel(c) => Rank(c, i) >= 1
<1> DEFINE R == {j \in InChannel(c) : j <= i}
<1>1. /\ InChannel(c) \subseteq 1..Len(c) /\ IsFiniteSet(InChannel(c))
      /\ R \subseteq InChannel(c)
  BY InChannelFinite
<1>2. IsFiniteSet(InChannel(c)) /\ IsFiniteSet(R) /\ Cardinality(R) <= Cardinality(InChannel(c))
  BY <1>1, FS_Subset
<1>3. i >= Len(c) => R = InChannel(c)
  BY <1>1, LenProperties
<1>4. i \in InChannel(c) => Cardinality(R) >= 1
  <2> SUFFICES ASSUME i \in InChannel(c) PROVE Cardinality(R) >= 1
    OBVIOUS
  <2>1. {i} \subseteq R
    OBVIOUS
  <2>2. Cardinality({i}) = 1 /\ Cardinality({i}) <= Cardinality(R)
    BY <2>1, <1>2, FS_Subset, FS_Singleton
  <2>3. Cardinality(R) \in Nat
    BY <1>2, FS_CardinalityType
  <2> QED
    BY <2>2, <2>3
<1> QED
  BY <1>1, <1>2, <1>3, <1>4, FS_CardinalityType DEF Rank

\* The channel loses its first message.
LEMMA RankTail ==
    ASSUME NEW c \in Seq(Work), c # <<>>, NEW i \in Nat
    PROVE  /\ c[1].kind = "net" => Rank(c, i + 1) = Rank(Tail(c), i) + 1
           /\ c[1].kind # "net" => Rank(c, i + 1) = Rank(Tail(c), i)
<1> DEFINE R == {j \in InChannel(c) : j <= i + 1}
           S == {j \in InChannel(Tail(c)) : j <= i}
           f == [j \in S |-> j + 1]
<1>1. Len(c) \in Nat /\ Len(c) > 0 /\ 1 \in DOMAIN c /\ DOMAIN c = 1..Len(c)
  BY DEF InChannel
<1>2. /\ Tail(c) \in Seq(Work) /\ DOMAIN Tail(c) = 1..(Len(c) - 1)
      /\ \A j \in 1..(Len(c) - 1) : Tail(c)[j] = c[j + 1]
  BY <1>1
<1>3. IsFiniteSet(S) /\ IsFiniteSet(R)
  <2>1. IsFiniteSet(InChannel(c)) /\ IsFiniteSet(InChannel(Tail(c)))
    BY <1>2, InChannelFinite
  <2> QED
    BY <2>1, FS_Subset
<1>4. S \subseteq Nat \ {0} /\ R \subseteq Nat /\ 1 \notin {j + 1 : j \in S}
  BY <1>1, <1>2 DEF InChannel
<1>5. \A j \in Nat \ {0} : j + 1 \in R <=> j \in S
  <2> TAKE j \in Nat \ {0}
  <2>1. j + 1 \in DOMAIN c <=> j \in DOMAIN Tail(c)
    BY <1>1, <1>2
  <2>2. j \in DOMAIN Tail(c) => c[j + 1] = Tail(c)[j]
    BY <1>2
  <2>3. j + 1 <= i + 1 <=> j <= i
    OBVIOUS
  <2> QED
    BY <2>1, <2>2, <2>3 DEF InChannel
<1>6. R \ {1} = {j + 1 : j \in S}
  <2>1. \A x \in R \ {1} : x - 1 \in S /\ x = (x - 1) + 1
    <3> TAKE x \in R \ {1}
    <3>1. x \in Nat /\ x >= 1
      BY <1>1 DEF InChannel
    <3>2. x - 1 \in Nat \ {0} /\ x = (x - 1) + 1
      BY <3>1
    <3> QED
      BY <3>2, <1>5
  <2>2. \A j \in S : j + 1 \in R \ {1}
    BY <1>4, <1>5
  <2> QED
    BY <2>1, <2>2
<1>7. f \in Bijection(S, R \ {1})
  BY <1>4, <1>6 DEF Bijection, Injection, Surjection, IsInjective
<1>8. Cardinality(R \ {1}) = Cardinality(S)
  BY <1>3, <1>7, FS_Bijection DEF ExistsBijection
<1>9. 1 \in R <=> c[1].kind = "net"
  BY <1>1 DEF InChannel
<1>10. CASE c[1].kind = "net"
  <2>1. Cardinality(R \ {1}) = Cardinality(R) - 1 /\ Cardinality(R) \in Nat
    BY <1>9, <1>10, <1>3, FS_RemoveElement, FS_CardinalityType
  <2> QED
    BY <2>1, <1>8, <1>10 DEF Rank
<1>11. CASE c[1].kind # "net"
  <2>1. R \ {1} = R
    BY <1>9, <1>11
  <2> QED
    BY <2>1, <1>8, <1>11 DEF Rank
<1> QED
  BY <1>10, <1>11

\* The channel gets another message.
LEMMA RankAppend ==
    ASSUME NEW c \in Seq(Work), NEW w \in Work
    PROVE  /\ \A i \in 0..Len(c) : Rank(Append(c, w), i) = Rank(c, i)
           /\ w.kind = "net" =>
                 /\ Cardinality(InChannel(Append(c, w))) = Cardinality(InChannel(c)) + 1
                 /\ InChannel(Append(c, w)) = InChannel(c) \cup {Len(c) + 1}
           /\ w.kind # "net" => InChannel(Append(c, w)) = InChannel(c)
<1> DEFINE d == Append(c, w)
<1>1. /\ Len(c) \in Nat /\ DOMAIN c = 1..Len(c) /\ DOMAIN d = 1..(Len(c) + 1)
      /\ d[Len(c) + 1] = w /\ \A i \in 1..Len(c) : d[i] = c[i]
  OBVIOUS
<1> HIDE DEF d
<1>2. \A i \in 0..Len(c) : {j \in InChannel(d) : j <= i} = {j \in InChannel(c) : j <= i}
  BY <1>1 DEF InChannel
<1>3. w.kind # "net" => InChannel(d) = InChannel(c)
  BY <1>1 DEF InChannel
<1>4. w.kind = "net" => InChannel(d) = InChannel(c) \cup {Len(c) + 1}
  BY <1>1 DEF InChannel
<1>5. Len(c) + 1 \notin InChannel(c) /\ IsFiniteSet(InChannel(c))
  BY <1>1, InChannelFinite
<1>6. w.kind = "net" => Cardinality(InChannel(d)) = Cardinality(InChannel(c)) + 1
  BY <1>4, <1>5, FS_AddElement
<1> QED
  BY <1>2, <1>3, <1>4, <1>6 DEF d, Rank

---------------------------------------------------------------------------
(* MessagesInOrder for one task: what is taken, what was sent to it and    *)
(* what its channel holds.                                                 *)

Past(log, channel) == Len(log) - Cardinality(InChannel(channel))

Missed(taken, log, channel) == Past(log, channel) - Len(taken)

InOrder(taken, log, channel) ==
    LET missed == Missed(taken, log, channel)
    IN  /\ missed >= 0 /\ (missed > 0 => Len(taken) >= BufferLimit)
        /\ \A i \in DOMAIN taken :
              taken[i] = log[IF i <= BufferLimit THEN i ELSE i + missed]
        /\ \A i \in InChannel(channel) :
              channel[i].body = log[Past(log, channel) + Rank(channel, i)]

LEMMA OrderTypes ==
    ASSUME NEW taken \in Seq(Messages), NEW log \in Seq(Messages), NEW c \in Seq(Work),
           InOrder(taken, log, c)
    PROVE  /\ Past(log, c) \in Nat /\ Missed(taken, log, c) \in Nat
           /\ Past(log, c) = Len(taken) + Missed(taken, log, c)
           /\ Len(log) = Past(log, c) + Cardinality(InChannel(c))
           /\ Cardinality(InChannel(c)) \in Nat /\ Len(log) \in Nat /\ Len(taken) \in Nat
<1>1. Cardinality(InChannel(c)) \in Nat
  BY InChannelFinite
<1>2. Len(log) \in Nat /\ Len(taken) \in Nat
  OBVIOUS
<1>3. Missed(taken, log, c) >= 0
  BY DEF InOrder
<1> QED
  BY <1>1, <1>2, <1>3 DEF Past, Missed

\* A message is sent to the task.
LEMMA OrderSent ==
    ASSUME NEW taken \in Seq(Messages), NEW log \in Seq(Messages), NEW c \in Seq(Work),
           NEW w \in Work, InOrder(taken, log, c)
    PROVE  /\ w.kind = "net" => InOrder(taken, Append(log, w.body), Append(c, w))
           /\ w.kind # "net" => InOrder(taken, log, Append(c, w))
<1> DEFINE d == Append(c, w)
           p == Past(log, c)
           x == Missed(taken, log, c)
<1>1. /\ p \in Nat /\ x \in Nat /\ p = Len(taken) + x
      /\ Len(log) = p + Cardinality(InChannel(c))
      /\ Cardinality(InChannel(c)) \in Nat /\ Len(log) \in Nat /\ Len(taken) \in Nat
  BY OrderTypes
<1>2. /\ \A i \in 0..Len(c) : Rank(d, i) = Rank(c, i)
      /\ w.kind = "net" =>
           /\ Cardinality(InChannel(d)) = Cardinality(InChannel(c)) + 1
           /\ InChannel(d) = InChannel(c) \cup {Len(c) + 1}
      /\ w.kind # "net" => InChannel(d) = InChannel(c)
  BY RankAppend
<1>3. /\ d \in Seq(Work) /\ Len(d) = Len(c) + 1 /\ Len(c) \in Nat /\ d[Len(c) + 1] = w
      /\ \A i \in 1..Len(c) : d[i] = c[i]
  OBVIOUS
<1>4. InChannel(c) \subseteq 1..Len(c)
  BY InChannelFinite
<1>5. \A i \in InChannel(c) : Rank(c, i) \in Nat /\ Rank(c, i) <= Cardinality(InChannel(c))
                              /\ Rank(c, i) >= 1
  <2> TAKE i \in InChannel(c)
  <2>1. i \in Int
    BY <1>3, <1>4
  <2> QED
    BY <2>1, RankTypes
<1>6. \A i \in DOMAIN taken : taken[i] = log[IF i <= BufferLimit THEN i ELSE i + x]
  BY DEF InOrder
<1>7. \A i \in InChannel(c) : c[i].body = log[p + Rank(c, i)]
  BY DEF InOrder
<1>8. x > 0 => Len(taken) >= BufferLimit
  BY DEF InOrder
<1>9. DOMAIN taken = 1..Len(taken)
  OBVIOUS
<1> HIDE DEF d
<1>10. CASE w.kind = "net"
  <2> DEFINE l == Append(log, w.body)
  <2>1. w.body \in Messages
    BY <1>10, WorkFields
  <2>2. Len(l) = Len(log) + 1 /\ l[Len(log) + 1] = w.body
        /\ \A i \in 1..Len(log) : l[i] = log[i]
    BY <2>1
  <2> HIDE DEF l
  <2>3. Past(l, d) = p /\ Missed(taken, l, d) = x
    BY <1>1, <1>2, <1>10, <2>2 DEF Past, Missed
  <2>4. ASSUME NEW i \in DOMAIN taken
        PROVE  taken[i] = l[IF i <= BufferLimit THEN i ELSE i + x]
    <3>1. (IF i <= BufferLimit THEN i ELSE i + x) \in 1..Len(log)
      BY <1>1, <1>9
    <3> QED
      BY <3>1, <2>2, <1>6
  <2>5. ASSUME NEW i \in InChannel(d)
        PROVE  d[i].body = l[p + Rank(d, i)]
    <3>1. CASE i \in InChannel(c)
      <4>1. Rank(d, i) = Rank(c, i) /\ d[i] = c[i]
        BY <3>1, <1>2, <1>3, <1>4
      <4>2. p + Rank(c, i) \in 1..Len(log)
        BY <3>1, <1>1, <1>5
      <4> QED
        BY <4>1, <4>2, <3>1, <1>7, <2>2
    <3>2. CASE i = Len(c) + 1
      <4>1. Rank(d, i) = Cardinality(InChannel(c)) + 1
        <5>1. i \in Int /\ i >= Len(d)
          BY <3>2, <1>3
        <5>2. Rank(d, i) = Cardinality(InChannel(d))
          BY <5>1, <1>3, RankTypes
        <5> QED
          BY <5>2, <1>2, <1>10
      <4>2. p + Rank(d, i) = Len(log) + 1
        BY <4>1, <1>1
      <4> QED
        BY <4>2, <3>2, <1>3, <2>2
    <3> QED
      BY <3>1, <3>2, <1>2, <1>10
  <2> QED
    BY <2>3, <2>4, <2>5, <1>1, <1>8, <1>10 DEF InOrder, l, d
<1>11. CASE w.kind # "net"
  <2>1. Past(log, d) = p /\ Missed(taken, log, d) = x
    BY <1>2, <1>11 DEF Past, Missed
  <2>2. ASSUME NEW i \in InChannel(d)
        PROVE  d[i].body = log[p + Rank(d, i)]
    <3>1. i \in InChannel(c) /\ Rank(d, i) = Rank(c, i) /\ d[i] = c[i]
      BY <1>2, <1>3, <1>4, <1>11
    <3> QED
      BY <3>1, <1>7
  <2> QED
    BY <2>1, <2>2, <1>1, <1>6, <1>8, <1>11 DEF InOrder, d
<1> QED
  BY <1>10, <1>11

\* The task takes a message from its channel, or drops it because its buffer
\* is full.
LEMMA OrderTaken ==
    ASSUME NEW taken \in Seq(Messages), NEW log \in Seq(Messages), NEW c \in Seq(Work),
           InOrder(taken, log, c), c # <<>>, c[1].kind = "net"
    PROVE  /\ InOrder(Append(taken, c[1].body), log, Tail(c))
           /\ Len(taken) = BufferLimit => InOrder(taken, log, Tail(c))
<1> DEFINE d == Tail(c)
           p == Past(log, c)
           x == Missed(taken, log, c)
           m == c[1].body
           more == Append(taken, m)
<1>1. /\ p \in Nat /\ x \in Nat /\ p = Len(taken) + x
      /\ Len(log) = p + Cardinality(InChannel(c))
      /\ Cardinality(InChannel(c)) \in Nat /\ Len(log) \in Nat /\ Len(taken) \in Nat
  BY OrderTypes
<1>2. /\ d \in Seq(Work) /\ Len(d) = Len(c) - 1 /\ Len(c) \in Nat /\ Len(c) > 0
      /\ \A i \in 1..Len(d) : d[i] = c[i + 1]
      /\ c[1] \in Work /\ m \in Messages
  BY WorkFields
<1>3. \A i \in Nat : Rank(c, i + 1) = Rank(d, i) + 1
  BY RankTail
<1> HIDE DEF d
<1>4. InChannel(d) \subseteq 1..Len(d) /\ Cardinality(InChannel(d)) \in Nat
  BY <1>2, InChannelFinite
<1>5. \A i \in Nat : Rank(d, i) \in Nat
  <2> TAKE i \in Nat
  <2>1. i \in Int /\ d \in Seq(Work)
    BY <1>2
  <2> QED
    BY <2>1, RankTypes
<1>6. Cardinality(InChannel(c)) = Cardinality(InChannel(d)) + 1
  <2>1. Len(c) \in Int /\ Len(d) \in Int /\ Len(d) \in Nat /\ Len(d) + 1 = Len(c)
    BY <1>2
  <2>2. Rank(c, Len(c)) = Cardinality(InChannel(c))
    BY <2>1, RankTypes
  <2>3. Rank(d, Len(d)) = Cardinality(InChannel(d))
    BY <2>1, <1>2, RankTypes
  <2> QED
    BY <2>1, <2>2, <2>3, <1>3
<1>7. \A i \in InChannel(d) : i + 1 \in InChannel(c) /\ d[i] = c[i + 1]
  <2> TAKE i \in InChannel(d)
  <2>1. i \in 1..Len(d) /\ d[i].kind = "net" /\ d[i] = c[i + 1] /\ i + 1 \in 1..Len(c)
    BY <1>2, <1>4 DEF InChannel
  <2> QED
    BY <2>1 DEF InChannel
<1>8. \A i \in InChannel(c) : c[i].body = log[p + Rank(c, i)]
  BY DEF InOrder
<1>9. m = log[p + 1]
  <2>1. Rank(c, 1) = 1
    <3>1. Rank(c, 0 + 1) = Rank(d, 0) + 1
      BY <1>3
    <3>2. Rank(d, 0) = 0
      <4>1. {j \in InChannel(d) : j <= 0} = {}
        BY <1>4
      <4> QED
        BY <4>1, FS_EmptySet DEF Rank
    <3> QED
      BY <3>1, <3>2
  <2>2. 1 \in InChannel(c)
    BY <1>2 DEF InChannel
  <2> QED
    BY <2>1, <2>2, <1>8
<1>10. \A i \in DOMAIN taken : taken[i] = log[IF i <= BufferLimit THEN i ELSE i + x]
  BY DEF InOrder
<1>11. x > 0 => Len(taken) >= BufferLimit
  BY DEF InOrder
<1>12. /\ more \in Seq(Messages) /\ Len(more) = Len(taken) + 1
       /\ DOMAIN more = 1..(Len(taken) + 1) /\ more[Len(taken) + 1] = m
       /\ DOMAIN taken = 1..Len(taken)
       /\ \A i \in 1..Len(taken) : more[i] = taken[i]
  BY <1>2
<1> HIDE DEF more, m
<1>13. Past(log, d) = p + 1
  BY <1>1, <1>4, <1>6 DEF Past
<1>14. ASSUME NEW i \in InChannel(d)
       PROVE  d[i].body = log[p + 1 + Rank(d, i)]
  <2>1. i \in Nat /\ Rank(d, i) \in Nat /\ Rank(c, i + 1) = Rank(d, i) + 1
    <3>1. i \in Nat
      BY <1>2, <1>4
    <3> QED
      BY <3>1, <1>3, <1>5
  <2>2. p + Rank(c, i + 1) = p + 1 + Rank(d, i)
    BY <2>1, <1>1
  <2> QED
    BY <2>2, <1>7, <1>8
<1>15. InOrder(more, log, d)
  <2>1. Missed(more, log, d) = x
    BY <1>1, <1>12, <1>13 DEF Missed
  <2>2. x > 0 => Len(more) >= BufferLimit
    BY <1>1, <1>11, <1>12, ManagerConstants
  <2>3. ASSUME NEW i \in DOMAIN more
        PROVE  more[i] = log[IF i <= BufferLimit THEN i ELSE i + x]
    <3>1. CASE i \in 1..Len(taken)
      BY <3>1, <1>10, <1>12
    <3>2. CASE i = Len(taken) + 1
      <4>1. CASE i <= BufferLimit
        <5>1. x = 0
          BY <4>1, <3>2, <1>1, <1>11, ManagerConstants
        <5>2. p + 1 = i
          BY <5>1, <3>2, <1>1
        <5> QED
          BY <5>2, <4>1, <3>2, <1>9, <1>12
      <4>2. CASE ~(i <= BufferLimit)
        <5>1. p + 1 = i + x
          BY <3>2, <1>1
        <5> QED
          BY <5>1, <4>2, <3>2, <1>9, <1>12
      <4> QED
        BY <4>1, <4>2
    <3> QED
      BY <3>1, <3>2, <1>1, <1>12
  <2> QED
    BY <2>1, <2>2, <2>3, <1>1, <1>13, <1>14 DEF InOrder
<1>16. ASSUME Len(taken) = BufferLimit
       PROVE  InOrder(taken, log, d)
  <2>1. Missed(taken, log, d) = x + 1
    BY <1>1, <1>13 DEF Missed
  <2>2. ASSUME NEW i \in DOMAIN taken
        PROVE  taken[i] = log[IF i <= BufferLimit THEN i ELSE i + (x + 1)]
    <3>1. i <= BufferLimit
      BY <1>12, <1>16, ManagerConstants
    <3> QED
      BY <3>1, <1>10
  <2> QED
    BY <2>1, <2>2, <1>1, <1>13, <1>14, <1>16, ManagerConstants DEF InOrder
<1> QED
  BY <1>15, <1>16 DEF d, more, m

\* The task takes an initialization from its channel.
LEMMA OrderSkipped ==
    ASSUME NEW taken \in Seq(Messages), NEW log \in Seq(Messages), NEW c \in Seq(Work),
           InOrder(taken, log, c), c # <<>>, c[1].kind # "net"
    PROVE  InOrder(taken, log, Tail(c))
<1> DEFINE d == Tail(c)
           p == Past(log, c)
<1>2. /\ d \in Seq(Work) /\ Len(d) = Len(c) - 1 /\ Len(c) \in Nat /\ Len(c) > 0
      /\ \A i \in 1..Len(d) : d[i] = c[i + 1]
  OBVIOUS
<1>3. \A i \in Nat : Rank(c, i + 1) = Rank(d, i)
  BY RankTail
<1> HIDE DEF d
<1>4. InChannel(d) \subseteq 1..Len(d)
  BY <1>2, InChannelFinite
<1>6. Cardinality(InChannel(c)) = Cardinality(InChannel(d))
  <2>1. Len(c) \in Int /\ Len(d) \in Int /\ Len(d) \in Nat /\ Len(d) + 1 = Len(c)
    BY <1>2
  <2>2. Rank(c, Len(c)) = Cardinality(InChannel(c))
    BY <2>1, RankTypes
  <2>3. Rank(d, Len(d)) = Cardinality(InChannel(d))
    BY <2>1, <1>2, RankTypes
  <2> QED
    BY <2>1, <2>2, <2>3, <1>3
<1>7. \A i \in InChannel(d) : i \in Nat /\ i + 1 \in InChannel(c) /\ d[i] = c[i + 1]
  <2> TAKE i \in InChannel(d)
  <2>1. i \in 1..Len(d) /\ d[i].kind = "net" /\ d[i] = c[i + 1] /\ i + 1 \in 1..Len(c)
    BY <1>2, <1>4 DEF InChannel
  <2> QED
    BY <2>1 DEF InChannel
<1>8. Past(log, d) = p /\ Missed(taken, log, d) = Missed(taken, log, c)
  BY <1>6 DEF Past, Missed
<1>9. ASSUME NEW i \in InChannel(d)
      PROVE  d[i].body = log[p + Rank(d, i)]
  BY <1>3, <1>7 DEF InOrder
<1> QED
  BY <1>8, <1>9 DEF InOrder, d

---------------------------------------------------------------------------
(* The inductive invariant.                                                *)

\* What holds of a task in each of its phases: nothing was sent to a free
\* one, one that is not initialized handed nothing on, one that is has
\* emptied its buffer and times its round from the round's beginning, one
\* that is decided has a result, and until the decision the messages are in
\* order.
TaskInv(t) ==
    /\ t.phase = "free" => t = NoTask
    /\ t.phase \in {"queued", "uninit", "sleeping"} =>
          t.handed = <<>> /\ Len(t.buffer) <= BufferLimit
    /\ t.phase = "init" => t.buffer = <<>> /\ t.current_round_start_time = t.entered
    /\ t.phase = "decided" => t.completed # "no"
    /\ t.phase \in {"queued", "uninit", "sleeping", "init"} =>
          InOrder(t.handed \o t.buffer, t.log, t.channel)

\* The processor starts a task once, and no message is on its way to a task
\* that was not spawned.
Queues ==
    /\ \A i \in DOMAIN permitless : task[permitless[i]].phase = "queued"
    /\ \A i, j \in DOMAIN permitless : permitless[i] = permitless[j] => i = j
    /\ \A i \in DOMAIN urgent :
          urgent[i].kind \in {"net", "init"} => task[urgent[i].to].phase # "free"
    /\ entry # 0 => task[entry].phase # "free"

Permits == IsFiniteSet(InChannels) /\ NoPermitLeaks /\ held <= MaxWorkers

ManagerInv ==
    /\ Types
    /\ Queues
    /\ Permits
    /\ \A k \in Tasks : TaskInv(task[k])

\* Task k moves on; work that is not for an instance may be sent.
LEMMA QueuesKept ==
    ASSUME Types, Queues, NEW k \in Tasks, task' \in [Tasks -> TaskStates],
           urgent' \in Seq(Work),
           \A j \in Tasks : j # k => task'[j].phase = task[j].phase,
           task'[k].phase = task[k].phase \/
              (task[k].phase # "queued" /\ task'[k].phase # "free"),
           permitless' = permitless, entry' \in {0, entry},
           \A i \in DOMAIN urgent' : urgent'[i].kind \in {"net", "init"} =>
              \E j \in DOMAIN urgent : urgent'[i] = urgent[j]
    PROVE  Queues'
<1>1. \A j \in Tasks : /\ task[j].phase = "queued" => task'[j].phase = "queued"
                       /\ task[j].phase # "free" => task'[j].phase # "free"
  OBVIOUS
<1>2. \A i \in DOMAIN permitless : permitless[i] \in Tasks
  BY DEF Types
<1>3. \A i \in DOMAIN urgent : urgent[i].kind \in {"net", "init"} => urgent[i].to \in Tasks
  <2> TAKE i \in DOMAIN urgent
  <2>1. urgent[i] \in Work
    BY DEF Types
  <2> QED
    BY <2>1, WorkFields
<1>4. entry # 0 => entry \in Tasks
  BY ManagerConstants DEF Types, Tasks
<1>5. (\A i \in DOMAIN permitless : task[permitless[i]].phase = "queued")'
  BY <1>1, <1>2 DEF Queues
<1>6. (\A i, j \in DOMAIN permitless : permitless[i] = permitless[j] => i = j)'
  BY DEF Queues
<1>7. (\A i \in DOMAIN urgent : urgent[i].kind \in {"net", "init"} =>
          task[urgent[i].to].phase # "free")'
  <2> SUFFICES ASSUME NEW i \in DOMAIN urgent', urgent'[i].kind \in {"net", "init"}
               PROVE  task'[urgent'[i].to].phase # "free"
    OBVIOUS
  <2>1. PICK j \in DOMAIN urgent : urgent'[i] = urgent[j]
    OBVIOUS
  <2> QED
    BY <2>1, <1>1, <1>3 DEF Queues
<1>8. (entry # 0 => task[entry].phase # "free")'
  BY <1>1, <1>4 DEF Queues
<1> QED
  BY <1>5, <1>6, <1>7, <1>8 DEF Queues

\* The permits of a step of task k: the message it took is done with, it
\* falls asleep with the message, or it is done with the one it slept with.
PermitsFreed(k, u, freed) ==
    \/ /\ u.channel = task[k].channel /\ freed = 0
       /\ u.phase = "sleeping" <=> task[k].phase = "sleeping"
    \/ /\ task[k].channel # <<>> /\ u.channel = Tail(task[k].channel) /\ freed = 1
       /\ u.phase = "sleeping" <=> task[k].phase = "sleeping"
    \/ /\ task[k].channel # <<>> /\ u.channel = Tail(task[k].channel) /\ freed = 0
       /\ u.phase = "sleeping" /\ task[k].phase # "sleeping"
    \/ /\ u.channel = task[k].channel /\ freed = 1
       /\ u.phase # "sleeping" /\ task[k].phase = "sleeping"

LEMMA PermitsKept ==
    ASSUME Types, Permits, NEW k \in Tasks, NEW u \in TaskStates, NEW freed \in {0, 1},
           task' = [task EXCEPT ![k] = u], PermitsFreed(k, u, freed),
           held' = held - freed, running' = running
    PROVE  Permits'
<1>1. task \in [Tasks -> TaskStates] /\ task' \in [Tasks -> TaskStates] /\ task'[k] = u
      /\ \A j \in Tasks : j # k => task'[j] = task[j]
  BY DEF Types
<1>2. /\ u.channel = task[k].channel => InChannels' = InChannels
      /\ task[k].channel # <<>> /\ u.channel = Tail(task[k].channel) =>
           /\ IsFiniteSet(InChannels')
           /\ Cardinality(InChannels') = Cardinality(InChannels) - 1
  BY <1>1, ChannelCounts DEF Permits
<1>3. /\ Cardinality(Sleeping) \in Nat
      /\ (task[k].phase = "sleeping") <=> (u.phase = "sleeping") =>
           Sleeping' = Sleeping
      /\ task[k].phase # "sleeping" /\ u.phase = "sleeping" =>
           Cardinality(Sleeping') = Cardinality(Sleeping) + 1
      /\ task[k].phase = "sleeping" /\ u.phase # "sleeping" =>
           Cardinality(Sleeping') = Cardinality(Sleeping) - 1
  BY <1>1, SleepingCounts
<1>4. /\ Cardinality(InChannels) \in Nat /\ IsFiniteSet(InChannels) /\ Len(running) \in Nat
      /\ held \in Int /\ held <= MaxWorkers
      /\ held = Len(running) + Cardinality(InChannels) + Cardinality(Sleeping)
  BY FS_CardinalityType DEF Permits, NoPermitLeaks, Types
<1>5. IsFiniteSet(InChannels')
  BY <1>2, <1>4 DEF PermitsFreed
<1>6. held' = Len(running) + Cardinality(InChannels') + Cardinality(Sleeping')
  BY <1>2, <1>3, <1>4 DEF PermitsFreed
<1>7. held' <= MaxWorkers
  BY <1>4, ProcessorAssumption
<1> QED
  BY <1>5, <1>6, <1>7 DEF Permits, NoPermitLeaks

LEMMA AnsweredTypes ==
    ASSUME Types, NEW S, NEW result \in {"success", "timed_out", "error"}
    PROVE  answered(S, result) \in [Callers ->
              [state : {"idle", "waiting", "success", "timed_out", "error"},
               task : 0..MaxTasks]]
BY DEF Types, answered

\* A step of a task keeps the invariant when the record it moves to is sound
\* and it frees the right permits.
LEMMA StepKept ==
    ASSUME ManagerInv, NEW k \in Tasks, NEW t \in TaskStates, NEW freed \in {0, 1},
           NEW signs \in BOOLEAN, Step(k, t, freed, signs),
           task[k].phase \notin {"free", "queued"}, t.phase \notin {"free", "queued"},
           TaskInv(t), PermitsFreed(k, t, freed)
    PROVE  ManagerInv'
<1> DEFINE done == t.phase = "init" /\ t.completed # "no"
           closing == [NoTask EXCEPT !.phase = "decided", !.channel = t.channel,
                                     !.completed = t.completed]
           u == IF done THEN closing ELSE t
           sign == [kind |-> "sign", to |-> k]
           send == [kind |-> "send", to |-> k]
           queue == IF signs THEN own_message(urgent, k) ELSE urgent
           sent == IF done /\ t.completed = "success" THEN SendUrgent(queue, send) ELSE queue
<1>1. /\ task' = [task EXCEPT ![k] = u] /\ urgent' = sent /\ held' = held - freed
      /\ caller' = IF done THEN answered(t.on_completed, t.completed) ELSE caller
      /\ UNCHANGED <<permitless, time, mode, arrived, running, entry>>
  BY DEF Step
<1>2. /\ closing \in TaskStates /\ closing.phase = "decided" /\ closing.channel = t.channel
      /\ closing.completed = t.completed
  <2>1. /\ t.channel \in Seq(Work) /\ t.completed \in {"no", "success", "timed_out"}
    BY DEF TaskStates
  <2> QED
    BY <2>1, NoTaskTypes DEF TaskStates, Phases
<1>3. /\ u \in TaskStates /\ u.channel = t.channel
      /\ u.phase # "free" /\ u.phase # "queued"
      /\ (u.phase = "sleeping" <=> t.phase = "sleeping")
  BY <1>2
<1>4. TaskInv(u)
  BY <1>2 DEF TaskInv
<1> HIDE DEF closing
<1>5. /\ sign \in Work /\ send \in Work /\ sign.kind = "sign" /\ send.kind = "send"
  BY WorkMade
<1> HIDE DEF sign, send
<1>6. urgent \in Seq(Work) /\ Len(urgent) <= UrgentSize /\ UrgentSize \in Nat
  BY ProcessorAssumption DEF ManagerInv, Types
<1>7. /\ queue \in Seq(Work) /\ Len(queue) <= UrgentSize
      /\ \A i \in DOMAIN queue : queue[i].kind \in {"net", "init"} =>
            \E j \in DOMAIN urgent : queue[i] = urgent[j]
  <2>1. queue = IF signs THEN Sent(urgent, UrgentSize, sign) ELSE urgent
    BY DEF own_message, SendUrgent, sign
  <2> HIDE DEF queue
  <2>2. CASE signs
    <3>1. queue = Sent(urgent, UrgentSize, sign)
      BY <2>1, <2>2
    <3>2. /\ Sent(urgent, UrgentSize, sign) \in Seq(Work)
          /\ Len(Sent(urgent, UrgentSize, sign)) <= UrgentSize
          /\ \A i \in DOMAIN Sent(urgent, UrgentSize, sign) :
                \/ i \in DOMAIN urgent /\ Sent(urgent, UrgentSize, sign)[i] = urgent[i]
                \/ i = Len(urgent) + 1 /\ Sent(urgent, UrgentSize, sign)[i] = sign
      BY <1>5, <1>6, SentTypes
    <3> QED
      BY <3>1, <3>2, <1>5
  <2>3. CASE ~signs
    BY <2>1, <2>3, <1>6
  <2> QED
    BY <2>2, <2>3
<1> HIDE DEF queue
<1>8. /\ sent \in Seq(Work) /\ Len(sent) <= UrgentSize
      /\ \A i \in DOMAIN sent : sent[i].kind \in {"net", "init"} =>
            \E j \in DOMAIN urgent : sent[i] = urgent[j]
  <2>1. CASE done /\ t.completed = "success"
    <3>1. sent = Sent(queue, UrgentSize, send)
      BY <2>1 DEF SendUrgent
    <3> HIDE DEF sent
    <3>0. /\ Sent(queue, UrgentSize, send) \in Seq(Work)
          /\ Len(Sent(queue, UrgentSize, send)) <= UrgentSize
          /\ \A i \in DOMAIN Sent(queue, UrgentSize, send) :
                \/ i \in DOMAIN queue /\ Sent(queue, UrgentSize, send)[i] = queue[i]
                \/ i = Len(queue) + 1 /\ Sent(queue, UrgentSize, send)[i] = send
      BY <1>5, <1>6, <1>7, SentTypes
    <3>2. /\ sent \in Seq(Work) /\ Len(sent) <= UrgentSize
          /\ \A i \in DOMAIN sent : \/ i \in DOMAIN queue /\ sent[i] = queue[i]
                                    \/ i = Len(queue) + 1 /\ sent[i] = send
      BY <3>0, <3>1
    <3> QED
      BY <3>2, <1>5, <1>7
  <2>2. CASE ~(done /\ t.completed = "success")
    <3>1. sent = queue
      BY <2>2
    <3> QED
      BY <3>1, <1>7
  <2> QED
    BY <2>1, <2>2
<1> HIDE DEF sent, u
<1>9. caller' \in [Callers -> [state : {"idle", "waiting", "success", "timed_out", "error"},
                               task : 0..MaxTasks]]
  <2>1. CASE done
    <3>1. t.completed \in {"success", "timed_out"}
      BY <2>1 DEF TaskStates
    <3> QED
      BY <3>1, <2>1, <1>1, AnsweredTypes DEF ManagerInv
  <2>2. CASE ~done
    BY <2>2, <1>1 DEF ManagerInv, Types
  <2> QED
    BY <2>1, <2>2
<1> HIDE DEF done
<1>10. /\ task \in [Tasks -> TaskStates] /\ task' \in [Tasks -> TaskStates] /\ task'[k] = u
       /\ \A j \in Tasks : j # k => task'[j] = task[j]
  BY <1>1, <1>3 DEF ManagerInv, Types
<1>11. Types'
  <2>1. held' \in Int
    BY <1>1 DEF ManagerInv, Types
  <2> QED
    BY <2>1, <1>1, <1>8, <1>9, <1>10 DEF ManagerInv, Types
<1>12. Queues'
  BY <1>1, <1>3, <1>8, <1>10, QueuesKept DEF ManagerInv
<1>13. Permits'
  <2>1. PermitsFreed(k, u, freed)
    BY <1>3 DEF PermitsFreed
  <2> QED
    BY <2>1, <1>1, <1>3, PermitsKept DEF ManagerInv
<1>14. (\A j \in Tasks : TaskInv(task[j]))'
  BY <1>4, <1>10 DEF ManagerInv
<1> QED
  BY <1>11, <1>12, <1>13, <1>14 DEF ManagerInv

---------------------------------------------------------------------------
(* The steps of a task.                                                    *)

LEMMA Popped ==
    ASSUME Types, NEW k \in Tasks, NEW kind, Head_is(k, kind)
    PROVE  /\ task[k] \in TaskStates /\ popped(k) \in TaskStates
           /\ task[k].channel # <<>> /\ popped(k).channel = Tail(task[k].channel)
           /\ popped(k).phase = task[k].phase /\ popped(k).buffer = task[k].buffer
           /\ popped(k).log = task[k].log /\ popped(k).handed = task[k].handed
           /\ popped(k).current_round_start_time = task[k].current_round_start_time
           /\ popped(k).entered = task[k].entered
           /\ popped(k).on_completed = task[k].on_completed
           /\ popped(k).completed = task[k].completed
           /\ Head(task[k].channel) = task[k].channel[1]
           /\ task[k].channel[1] \in Work /\ task[k].channel[1].kind = kind
<1>1. task[k] \in TaskStates
  BY DEF Types
<1>2. task[k].channel \in Seq(Work) /\ task[k].channel # <<>>
      /\ Head(task[k].channel).kind = kind
  BY <1>1 DEF TaskStates, Head_is
<1>3. Tail(task[k].channel) \in Seq(Work) /\ Head(task[k].channel) = task[k].channel[1]
      /\ task[k].channel[1] \in Work
  BY <1>2
<1>4. popped(k) = [task[k] EXCEPT !.channel = Tail(task[k].channel)]
  BY DEF popped
<1>5. popped(k) \in TaskStates
  BY <1>1, <1>3, <1>4 DEF TaskStates
<1> QED
  BY <1>1, <1>2, <1>3, <1>4, <1>5 DEF TaskStates

\* What a task in one of its phases before the decision has.
LEMMA LiveTask ==
    ASSUME ManagerInv, NEW k \in Tasks,
           task[k].phase \in {"queued", "uninit", "sleeping", "init"}
    PROVE  /\ task[k] \in TaskStates /\ TaskInv(task[k])
           /\ task[k].handed \in Seq(Messages) /\ task[k].buffer \in Seq(Messages)
           /\ task[k].log \in Seq(Messages) /\ task[k].channel \in Seq(Work)
           /\ task[k].handed \o task[k].buffer \in Seq(Messages)
           /\ InOrder(task[k].handed \o task[k].buffer, task[k].log, task[k].channel)
<1>1. task[k] \in TaskStates /\ TaskInv(task[k])
  BY DEF ManagerInv, Types
<1>2. /\ task[k].handed \in Seq(Messages) /\ task[k].buffer \in Seq(Messages)
      /\ task[k].log \in Seq(Messages) /\ task[k].channel \in Seq(Work)
  BY <1>1 DEF TaskStates
<1>3. task[k].handed \o task[k].buffer \in Seq(Messages)
  BY <1>2, ConcatProperties
<1> QED
  BY <1>1, <1>2, <1>3 DEF TaskInv

LEMMA BufferMessageKept ==
    ASSUME ManagerInv, NEW k \in Tasks, BufferMessage(k)
    PROVE  ManagerInv'
<1> DEFINE t == task[k]
           m == Head(t.channel).body
           b == IF Len(t.buffer) < BufferLimit THEN Append(t.buffer, m) ELSE t.buffer
           u == [popped(k) EXCEPT !.buffer = b]
<1>1. t.phase = "uninit" /\ Head_is(k, "net")
  BY DEF BufferMessage
<1>2. /\ t \in TaskStates /\ popped(k) \in TaskStates
      /\ t.channel # <<>> /\ popped(k).channel = Tail(t.channel)
      /\ popped(k).phase = "uninit" /\ popped(k).buffer = t.buffer
      /\ popped(k).log = t.log /\ popped(k).handed = t.handed
      /\ m = t.channel[1].body
      /\ t.channel[1] \in Work /\ t.channel[1].kind = "net"
  BY <1>1, Popped DEF ManagerInv
<1>3. m \in Messages
  BY <1>2, WorkFields
<1>4. /\ t.handed = <<>> /\ Len(t.buffer) <= BufferLimit
      /\ t.buffer \in Seq(Messages) /\ t.log \in Seq(Messages) /\ t.channel \in Seq(Work)
      /\ InOrder(t.handed \o t.buffer, t.log, t.channel)
  BY <1>1, LiveTask DEF TaskInv
<1>5. InOrder(t.buffer, t.log, t.channel)
  <2>1. t.handed \o t.buffer = t.buffer
    BY <1>4, ConcatEmptySeq
  <2> QED
    BY <2>1, <1>4
<1>6. /\ InOrder(Append(t.buffer, m), t.log, Tail(t.channel))
      /\ Len(t.buffer) = BufferLimit => InOrder(t.buffer, t.log, Tail(t.channel))
  BY <1>2, <1>4, <1>5, OrderTaken
<1>7. /\ b \in Seq(Messages) /\ Len(b) <= BufferLimit /\ InOrder(b, t.log, Tail(t.channel))
  <2>1. CASE Len(t.buffer) < BufferLimit
    BY <2>1, <1>3, <1>4, <1>6, ManagerConstants
  <2>2. CASE ~(Len(t.buffer) < BufferLimit)
    <3>1. Len(t.buffer) = BufferLimit
      BY <2>2, <1>4, ManagerConstants
    <3> QED
      BY <3>1, <2>2, <1>4, <1>6, ManagerConstants
  <2> QED
    BY <2>1, <2>2
<1>8. Step(k, u, 1, FALSE)
  BY <1>2 DEF BufferMessage
<1> HIDE DEF m, b
<1>9. /\ u \in TaskStates /\ u.phase = "uninit" /\ u.channel = Tail(t.channel)
      /\ u.buffer = b /\ u.log = t.log /\ u.handed = <<>>
  BY <1>2, <1>4, <1>7 DEF TaskStates
<1>10. u.handed \o u.buffer = b
  BY <1>7, <1>9, ConcatEmptySeq
<1> HIDE DEF u
<1>11. TaskInv(u)
  BY <1>7, <1>9, <1>10 DEF TaskInv
<1>12. PermitsFreed(k, u, 1)
  BY <1>1, <1>2, <1>9 DEF PermitsFreed
<1> QED
  BY <1>1, <1>8, <1>9, <1>11, <1>12, StepKept

LEMMA ReceiveMessageKept ==
    ASSUME ManagerInv, NEW k \in Tasks, ReceiveMessage(k)
    PROVE  ManagerInv'
<1> DEFINE t == task[k]
           m == Head(t.channel).body
           p == popped(k)
           u == receive(p, m)
<1>1. t.phase = "init" /\ Head_is(k, "net") /\ Step(k, u, 1, FALSE)
  BY DEF ReceiveMessage
<1>2. /\ p \in TaskStates
      /\ t.channel # <<>> /\ p.channel = Tail(t.channel)
      /\ p.phase = "init" /\ p.buffer = t.buffer
      /\ p.log = t.log /\ p.handed = t.handed
      /\ p.current_round_start_time = t.current_round_start_time
      /\ p.entered = t.entered
      /\ m = t.channel[1].body
      /\ t.channel[1] \in Work /\ t.channel[1].kind = "net"
  BY <1>1, Popped DEF ManagerInv
<1>3. m \in Messages
  BY <1>2, WorkFields
<1>4. /\ t.buffer = <<>> /\ t.current_round_start_time = t.entered
      /\ t.handed \in Seq(Messages) /\ t.log \in Seq(Messages) /\ t.channel \in Seq(Work)
      /\ InOrder(t.handed \o t.buffer, t.log, t.channel)
  BY <1>1, LiveTask DEF TaskInv
<1>5. InOrder(t.handed, t.log, t.channel)
  <2>1. t.handed \o t.buffer = t.handed
    BY <1>4, ConcatEmptySeq
  <2> QED
    BY <2>1, <1>4
<1>6. InOrder(Append(t.handed, m), t.log, Tail(t.channel))
  BY <1>2, <1>4, <1>5, OrderTaken
<1> HIDE DEF p, m
<1>7. /\ u \in TaskStates
      /\ u.phase = p.phase /\ u.channel = p.channel /\ u.buffer = p.buffer
      /\ u.log = p.log /\ u.handed = Append(p.handed, m)
      /\ p.current_round_start_time = p.entered => u.current_round_start_time = u.entered
  BY <1>2, <1>3, Received DEF ManagerInv
<1> HIDE DEF u
<1>8. /\ u.phase = "init" /\ u.channel = Tail(t.channel) /\ u.buffer = <<>>
      /\ u.log = t.log /\ u.handed = Append(t.handed, m)
      /\ u.current_round_start_time = u.entered
  BY <1>2, <1>4, <1>7
<1>9. u.handed \o u.buffer = u.handed
  BY <1>3, <1>4, <1>8, ConcatEmptySeq, AppendProperties
<1>10. TaskInv(u)
  BY <1>6, <1>8, <1>9 DEF TaskInv
<1>11. PermitsFreed(k, u, 1)
  BY <1>1, <1>2, <1>8 DEF PermitsFreed
<1> QED
  BY <1>1, <1>7, <1>8, <1>10, <1>11, StepKept

LEMMA IgnoreMessageKept ==
    ASSUME ManagerInv, NEW k \in Tasks, IgnoreMessage(k)
    PROVE  ManagerInv'
<1>1. task[k].phase = "decided" /\ Head_is(k, "net") /\ Step(k, popped(k), 1, FALSE)
  BY DEF IgnoreMessage
<1>2. /\ popped(k) \in TaskStates /\ popped(k).phase = "decided"
      /\ task[k].channel # <<>> /\ popped(k).channel = Tail(task[k].channel)
      /\ popped(k).completed = task[k].completed
  BY <1>1, Popped DEF ManagerInv
<1>3. TaskInv(popped(k)) /\ PermitsFreed(k, popped(k), 1)
  BY <1>1, <1>2 DEF ManagerInv, TaskInv, PermitsFreed
<1> QED
  BY <1>1, <1>2, <1>3, StepKept

LEMMA ReceiveOwnKept ==
    ASSUME ManagerInv, NEW k \in Tasks, ReceiveOwn(k)
    PROVE  ManagerInv'
<1> DEFINE t == task[k]
           p == [t EXCEPT !.ours = @ - 1]
<1>1. t.phase = "init" /\ t.ours > 0
  BY DEF ReceiveOwn
<1>2. PICK effect \in {"none", "decide"} : Step(k, qbft_receive(p, effect), 0, FALSE)
  BY DEF ReceiveOwn
<1> DEFINE u == qbft_receive(p, effect)
<1>3. /\ t \in TaskStates /\ t.buffer = <<>> /\ t.current_round_start_time = t.entered
      /\ InOrder(t.handed \o t.buffer, t.log, t.channel)
  BY <1>1, LiveTask DEF TaskInv
<1>4. t.ours - 1 \in Nat
  BY <1>1, <1>3 DEF TaskStates
<1>5. /\ p \in TaskStates /\ p.phase = "init" /\ p.channel = t.channel
      /\ p.buffer = t.buffer /\ p.log = t.log /\ p.handed = t.handed
      /\ p.current_round_start_time = t.current_round_start_time
      /\ p.entered = t.entered
  BY <1>1, <1>3, <1>4 DEF TaskStates
<1> HIDE DEF p
<1>6. /\ u \in TaskStates
      /\ u.phase = p.phase /\ u.channel = p.channel /\ u.buffer = p.buffer
      /\ u.log = p.log /\ u.handed = p.handed
      /\ u.current_round_start_time = p.current_round_start_time
      /\ u.entered = p.entered
  <2>1. effect \in {"none", "advance", "decide"} /\ effect # "advance"
    OBVIOUS
  <2> QED
    BY <2>1, <1>5, QbftReceive DEF ManagerInv
<1>7. Step(k, u, 0, FALSE)
  BY <1>2
<1> HIDE DEF u
<1>8. TaskInv(u)
  BY <1>3, <1>5, <1>6 DEF TaskInv
<1>9. PermitsFreed(k, u, 0)
  BY <1>1, <1>5, <1>6 DEF PermitsFreed
<1> QED
  BY <1>1, <1>5, <1>6, <1>7, <1>8, <1>9, StepKept

\* An instance begins with the buffer of the task.
LEMMA BegunInv ==
    ASSUME Types, NEW t \in TaskStates, NEW c \in Callers,
           InOrder(t.handed \o t.buffer, t.log, t.channel)
    PROVE  TaskInv(begin(t, c))
<1> DEFINE u == begin(t, c)
<1>1. /\ u.phase = "init" /\ u.channel = t.channel /\ u.buffer = <<>>
      /\ u.log = t.log /\ u.handed = t.handed \o t.buffer
      /\ u.current_round_start_time = u.entered
  BY Begun
<1>2. t.handed \o t.buffer \in Seq(Messages)
  BY ConcatProperties DEF TaskStates
<1> HIDE DEF u
<1>3. u.handed \o u.buffer = t.handed \o t.buffer
  BY <1>1, <1>2, ConcatEmptySeq
<1> QED
  BY <1>1, <1>3 DEF TaskInv, u

LEMMA InitializeKept ==
    ASSUME ManagerInv, NEW k \in Tasks, Initialize(k)
    PROVE  ManagerInv'
<1> DEFINE t == task[k]
           c == Head(t.channel).body
           p == popped(k)
<1>1. t.phase = "uninit" /\ Head_is(k, "init")
  BY DEF Initialize
<1>2. /\ p \in TaskStates /\ t.channel # <<>> /\ p.channel = Tail(t.channel)
      /\ p.phase = "uninit" /\ p.buffer = t.buffer
      /\ p.log = t.log /\ p.handed = t.handed
      /\ c = t.channel[1].body
      /\ t.channel[1] \in Work /\ t.channel[1].kind = "init"
  BY <1>1, Popped DEF ManagerInv
<1>3. c \in Callers
  BY <1>2, WorkFields
<1>4. /\ t.handed = <<>> /\ Len(t.buffer) <= BufferLimit
      /\ t.handed \o t.buffer \in Seq(Messages)
      /\ t.log \in Seq(Messages) /\ t.channel \in Seq(Work)
      /\ InOrder(t.handed \o t.buffer, t.log, t.channel)
  BY <1>1, LiveTask DEF TaskInv
<1>5. InOrder(p.handed \o p.buffer, p.log, p.channel)
  <2>1. t.channel[1].kind # "net"
    BY <1>2
  <2>2. InOrder(t.handed \o t.buffer, t.log, Tail(t.channel))
    BY <2>1, <1>2, <1>4, OrderSkipped
  <2> QED
    BY <2>2, <1>2
<1>6. CASE mode = "Relative" /\ time < StartTime
  <2> DEFINE u == [p EXCEPT !.phase = "sleeping", !.on_completed = {c}]
  <2>1. Step(k, u, 0, FALSE)
    BY <1>6 DEF Initialize
  <2> HIDE DEF c, p
  <2>2. /\ u \in TaskStates /\ u.phase = "sleeping" /\ u.channel = p.channel
        /\ u.buffer = p.buffer /\ u.log = p.log /\ u.handed = p.handed
    BY <1>2, <1>3 DEF TaskStates, Phases
  <2> HIDE DEF u
  <2>3. TaskInv(u)
    BY <1>2, <1>4, <1>5, <2>2 DEF TaskInv
  <2>4. PermitsFreed(k, u, 0)
    BY <1>1, <1>2, <2>2 DEF PermitsFreed
  <2> QED
    BY <1>1, <2>1, <2>2, <2>3, <2>4, StepKept
<1>7. CASE ~(mode = "Relative" /\ time < StartTime)
  <2> DEFINE u == begin(p, c)
  <2>1. Step(k, u, 1, TRUE)
    BY <1>7 DEF Initialize
  <2> HIDE DEF c, p
  <2>2. u \in TaskStates /\ u.phase = "init" /\ u.channel = p.channel
    BY <1>2, <1>3, Begun DEF ManagerInv
  <2>3. TaskInv(u)
    BY <1>2, <1>3, <1>5, BegunInv DEF ManagerInv
  <2> HIDE DEF u
  <2>4. PermitsFreed(k, u, 1)
    BY <1>1, <1>2, <2>2 DEF PermitsFreed
  <2> QED
    BY <1>1, <2>1, <2>2, <2>3, <2>4, StepKept
<1> QED
  BY <1>6, <1>7

LEMMA WakeKept ==
    ASSUME ManagerInv, NEW k \in Tasks, Wake(k)
    PROVE  ManagerInv'
<1> DEFINE t == task[k]
<1>1. t.phase = "sleeping"
  BY DEF Wake
<1>2. PICK c \in t.on_completed : Step(k, begin(t, c), 1, TRUE)
  BY DEF Wake
<1>3. t \in TaskStates /\ InOrder(t.handed \o t.buffer, t.log, t.channel)
  BY <1>1, LiveTask
<1>4. c \in Callers
  BY <1>3 DEF TaskStates
<1> DEFINE u == begin(t, c)
<1>5. u \in TaskStates /\ u.phase = "init" /\ u.channel = t.channel
  BY <1>3, <1>4, Begun DEF ManagerInv
<1>6. TaskInv(u)
  BY <1>3, <1>4, BegunInv DEF ManagerInv
<1> HIDE DEF u
<1>7. PermitsFreed(k, u, 1)
  BY <1>1, <1>5 DEF PermitsFreed
<1> QED
  BY <1>1, <1>2, <1>5, <1>6, <1>7, StepKept DEF u

LEMMA InitializeAgainKept ==
    ASSUME ManagerInv, NEW k \in Tasks, InitializeAgain(k)
    PROVE  ManagerInv'
<1> DEFINE t == task[k]
           p == popped(k)
           cs == p.on_completed \cup {Head(t.channel).body}
           u == [p EXCEPT !.on_completed = cs]
<1>1. t.phase = "init" /\ Head_is(k, "init") /\ Step(k, u, 1, FALSE)
  BY DEF InitializeAgain
<1>2. /\ p \in TaskStates /\ t.channel # <<>> /\ p.channel = Tail(t.channel)
      /\ p.phase = "init" /\ p.buffer = t.buffer
      /\ p.log = t.log /\ p.handed = t.handed
      /\ p.current_round_start_time = t.current_round_start_time
      /\ p.entered = t.entered
      /\ Head(t.channel) = t.channel[1]
      /\ t.channel[1] \in Work /\ t.channel[1].kind = "init"
  BY <1>1, Popped DEF ManagerInv
<1>3. Head(t.channel).body \in Callers
  BY <1>2, WorkFields
<1>4. cs \in SUBSET Callers
  BY <1>2, <1>3 DEF TaskStates
<1>5. /\ t.buffer = <<>> /\ t.current_round_start_time = t.entered
      /\ t.handed \o t.buffer \in Seq(Messages)
      /\ t.log \in Seq(Messages) /\ t.channel \in Seq(Work)
      /\ InOrder(t.handed \o t.buffer, t.log, t.channel)
  BY <1>1, LiveTask DEF TaskInv
<1>6. InOrder(t.handed \o t.buffer, t.log, Tail(t.channel))
  <2>1. t.channel[1].kind # "net"
    BY <1>2
  <2> QED
    BY <2>1, <1>2, <1>5, OrderSkipped
<1> HIDE DEF p, cs
<1>7. /\ u \in TaskStates /\ u.phase = "init" /\ u.channel = p.channel
      /\ u.buffer = p.buffer /\ u.log = p.log /\ u.handed = p.handed
      /\ u.current_round_start_time = p.current_round_start_time
      /\ u.entered = p.entered
  BY <1>2, <1>4 DEF TaskStates
<1> HIDE DEF u
<1>8. TaskInv(u)
  BY <1>2, <1>5, <1>6, <1>7 DEF TaskInv
<1>9. PermitsFreed(k, u, 1)
  BY <1>1, <1>2, <1>7 DEF PermitsFreed
<1> QED
  BY <1>1, <1>7, <1>8, <1>9, StepKept

LEMMA RoundEndKept ==
    ASSUME ManagerInv, NEW k \in Tasks, RoundEnd(k)
    PROVE  ManagerInv'
<1> DEFINE t == task[k]
           u == end_round(t)
<1>1. t.phase = "init" /\ Step(k, u, 0, TRUE)
  BY DEF RoundEnd
<1>2. /\ t \in TaskStates /\ t.buffer = <<>> /\ t.current_round_start_time = t.entered
      /\ InOrder(t.handed \o t.buffer, t.log, t.channel)
  BY <1>1, LiveTask DEF TaskInv
<1>3. /\ u \in TaskStates
      /\ u.phase = t.phase /\ u.channel = t.channel /\ u.buffer = t.buffer
      /\ u.log = t.log /\ u.handed = t.handed
      /\ t.current_round_start_time = t.entered => u.current_round_start_time = u.entered
  BY <1>2, RoundEnded DEF ManagerInv
<1> HIDE DEF u
<1>4. TaskInv(u)
  BY <1>1, <1>2, <1>3 DEF TaskInv
<1>5. PermitsFreed(k, u, 0)
  BY <1>1, <1>3 DEF PermitsFreed
<1> QED
  BY <1>1, <1>3, <1>4, <1>5, StepKept

\* Task k moves to u without sending work.
LEMMA MoveKept ==
    ASSUME ManagerInv, NEW k \in Tasks, NEW u \in TaskStates, NEW freed \in {0, 1},
           task' = [task EXCEPT ![k] = u], held' = held - freed,
           NEW S, NEW result \in {"success", "timed_out", "error"},
           caller' = answered(S, result),
           UNCHANGED <<urgent, permitless, time, mode, arrived, running, entry>>,
           task[k].phase \notin {"free", "queued"}, u.phase # "free",
           TaskInv(u), PermitsFreed(k, u, freed)
    PROVE  ManagerInv'
<1>1. /\ task \in [Tasks -> TaskStates] /\ task' \in [Tasks -> TaskStates] /\ task'[k] = u
      /\ \A j \in Tasks : j # k => task'[j] = task[j]
  BY DEF ManagerInv, Types
<1>2. caller' \in [Callers -> [state : {"idle", "waiting", "success", "timed_out", "error"},
                               task : 0..MaxTasks]]
  BY AnsweredTypes DEF ManagerInv
<1>3. Types'
  <2>1. held' \in Int
    BY DEF ManagerInv, Types
  <2> QED
    BY <2>1, <1>1, <1>2 DEF ManagerInv, Types
<1>4. Queues'
  <2>1. urgent' \in Seq(Work) /\ urgent' = urgent
    BY DEF ManagerInv, Types
  <2> QED
    BY <2>1, <1>1, QueuesKept DEF ManagerInv
<1>5. Permits'
  BY PermitsKept DEF ManagerInv
<1>6. (\A j \in Tasks : TaskInv(task[j]))'
  BY <1>1 DEF ManagerInv
<1> QED
  BY <1>3, <1>4, <1>5, <1>6 DEF ManagerInv

LEMMA InitializeDecidedKept ==
    ASSUME ManagerInv, NEW k \in Tasks, InitializeDecided(k)
    PROVE  ManagerInv'
<1> DEFINE S == {Head(task[k].channel).body}
<1>1. /\ task[k].phase = "decided" /\ Head_is(k, "init")
      /\ task' = [task EXCEPT ![k] = popped(k)] /\ held' = held - 1
      /\ caller' = answered(S, task[k].completed)
      /\ UNCHANGED <<urgent, permitless, time, mode, arrived, running, entry>>
  BY DEF InitializeDecided
<1>2. /\ popped(k) \in TaskStates /\ popped(k).phase = "decided" /\ task[k] \in TaskStates
      /\ task[k].channel # <<>> /\ popped(k).channel = Tail(task[k].channel)
      /\ popped(k).completed = task[k].completed
  BY <1>1, Popped DEF ManagerInv
<1>3. TaskInv(popped(k)) /\ PermitsFreed(k, popped(k), 1)
  BY <1>1, <1>2 DEF ManagerInv, TaskInv, PermitsFreed
<1>4. task[k].completed \in {"success", "timed_out", "error"}
  BY <1>1, <1>2 DEF ManagerInv, TaskInv, TaskStates
<1> HIDE DEF S
<1> QED
  BY <1>1, <1>2, <1>3, <1>4, MoveKept

LEMMA ClosedKept ==
    ASSUME ManagerInv, NEW k \in Tasks, Closed(k)
    PROVE  ManagerInv'
<1> DEFINE u == [NoTask EXCEPT !.phase = "ended"]
           S == task[k].on_completed
<1>1. /\ task[k].phase \in {"uninit", "init", "decided"} /\ task[k].channel = <<>>
      /\ task' = [task EXCEPT ![k] = u] /\ held' = held
      /\ caller' = answered(S, "timed_out")
      /\ UNCHANGED <<urgent, permitless, time, mode, arrived, running, entry>>
  BY DEF Closed
<1>2. u \in TaskStates /\ u.phase = "ended" /\ u.channel = <<>>
  <2>1. NoTask.channel = <<>>
    BY DEF NoTask
  <2> QED
    BY <2>1, NoTaskTypes DEF TaskStates, Phases
<1> HIDE DEF u, S
<1>3. TaskInv(u) /\ PermitsFreed(k, u, 0)
  BY <1>1, <1>2 DEF TaskInv, PermitsFreed
<1> DEFINE freed == 0
           result == "timed_out"
<1>4. /\ freed \in {0, 1} /\ held' = held - freed /\ PermitsFreed(k, u, freed)
      /\ result \in {"success", "timed_out", "error"} /\ caller' = answered(S, result)
  BY <1>1, <1>3 DEF ManagerInv, Types
<1>5. task[k].phase \notin {"free", "queued"} /\ u.phase # "free"
  BY <1>1, <1>2
<1> HIDE DEF freed, result
<1> QED
  BY <1>1, <1>2, <1>3, <1>4, <1>5, MoveKept

---------------------------------------------------------------------------
(* The processor, the receiver and the manager.                            *)

\* Work that ends frees its permit; the tasks keep their channels and phases.
LEMMA FinishedPermits ==
    ASSUME Types, Permits, NEW i \in DOMAIN running,
           running' = RemoveAt(running, i), held' = held - 1,
           InChannels' = InChannels, Sleeping' = Sleeping
    PROVE  Permits' /\ running' \in Seq(Work) /\ held' \in Int
<1>1. running' \in Seq(Work) /\ Len(running') = Len(running) - 1 /\ Len(running) \in Nat
  BY RemoveAtTypes DEF Types
<1>2. /\ Cardinality(InChannels) \in Nat /\ IsFiniteSet(InChannels)
      /\ held \in Int /\ held <= MaxWorkers
      /\ held = Len(running) + Cardinality(InChannels) + Cardinality(Sleeping)
  BY FS_CardinalityType DEF Permits, NoPermitLeaks, Types
<1>3. Cardinality(Sleeping) \in Nat
  BY SleepingFinite
<1>4. held' = Len(running') + Cardinality(InChannels) + Cardinality(Sleeping)
  BY <1>1, <1>2, <1>3
<1>5. held' <= MaxWorkers
  BY <1>2, ProcessorAssumption
<1> QED
  BY <1>1, <1>2, <1>4, <1>5 DEF Permits, NoPermitLeaks

\* Only the record of task k changes, and neither its channel nor whether it
\* sleeps.
LEMMA CountsSame ==
    ASSUME Types, task' \in [Tasks -> TaskStates], NEW k \in Tasks,
           IsFiniteSet(InChannels),
           \A j \in Tasks : j # k => task'[j] = task[j],
           task'[k].channel = task[k].channel,
           task'[k].phase = "sleeping" <=> task[k].phase = "sleeping"
    PROVE  InChannels' = InChannels /\ Sleeping' = Sleeping
<1>1. task \in [Tasks -> TaskStates]
  BY DEF Types
<1> QED
  BY <1>1, ChannelCounts, SleepingCounts

\* An instance is found or spawned, and a message for it is sent.
LEMMA SpawnKept ==
    ASSUME ManagerInv, NEW k \in Tasks, get_or_spawn_instance(k),
           NEW w \in Work, w.kind \in {"net", "init"}, w.to = k,
           urgent' = SendUrgent(urgent, w)
    PROVE  /\ urgent' \in Seq(Work) /\ Len(urgent') <= UrgentSize
           /\ permitless' \in Seq(Tasks) /\ Len(permitless') <= PermitlessSize
           /\ entry' \in 0..MaxTasks
           /\ task' \in [Tasks -> TaskStates]
           /\ Queues'
           /\ InChannels' = InChannels /\ Sleeping' = Sleeping
           /\ \A j \in Tasks : TaskInv(task'[j])
<1> USE DEF ManagerInv
<1>1. /\ urgent' \in Seq(Work) /\ Len(urgent') <= UrgentSize
      /\ \A i \in DOMAIN urgent' : \/ i \in DOMAIN urgent /\ urgent'[i] = urgent[i]
                                   \/ i = Len(urgent) + 1 /\ urgent'[i] = w
  <2>1. urgent' = Sent(urgent, UrgentSize, w)
    BY DEF SendUrgent
  <2>2. urgent \in Seq(Work) /\ Len(urgent) <= UrgentSize /\ UrgentSize \in Nat
    BY ProcessorAssumption DEF Types
  <2>3. /\ Sent(urgent, UrgentSize, w) \in Seq(Work)
        /\ Len(Sent(urgent, UrgentSize, w)) <= UrgentSize
        /\ \A i \in DOMAIN Sent(urgent, UrgentSize, w) :
              \/ i \in DOMAIN urgent /\ Sent(urgent, UrgentSize, w)[i] = urgent[i]
              \/ i = Len(urgent) + 1 /\ Sent(urgent, UrgentSize, w)[i] = w
    BY <2>2, SentTypes
  <2> QED
    BY <2>1, <2>3
<1>2. \A i \in DOMAIN urgent : urgent[i].kind \in {"net", "init"} =>
         urgent[i].to \in Tasks /\ task[urgent[i].to].phase # "free"
  <2> TAKE i \in DOMAIN urgent
  <2>1. urgent[i] \in Work
    BY DEF Types
  <2> QED
    BY <2>1, WorkFields DEF Queues
<1>3. CASE entry # 0
  <2>1. k = entry /\ UNCHANGED <<entry, task, permitless>>
    BY <1>3 DEF get_or_spawn_instance
  <2>2. task[k].phase # "free"
    BY <1>3, <2>1 DEF Queues
  <2>3. (\A i \in DOMAIN urgent : urgent[i].kind \in {"net", "init"} =>
             task[urgent[i].to].phase # "free")'
    BY <1>1, <1>2, <2>1, <2>2
  <2>4. Queues'
    BY <2>1, <2>3 DEF Queues
  <2> QED
    BY <1>1, <2>1, <2>4 DEF Types, InChannels, Sleeping
<1>4. CASE entry = 0
  <2> DEFINE u == [task[k] EXCEPT !.phase = IF PermitlessFull THEN "ended" ELSE "queued"]
  <2>1. /\ task[k].phase = "free" /\ entry' = k
        /\ task' = [task EXCEPT ![k] = u]
        /\ permitless' = Sent(permitless, PermitlessSize, k)
    BY <1>4 DEF get_or_spawn_instance
  <2>2. task[k] = NoTask
    BY <2>1 DEF TaskInv
  <2>3. /\ u \in TaskStates /\ u.phase = (IF PermitlessFull THEN "ended" ELSE "queued")
        /\ u.channel = <<>> /\ u.log = <<>> /\ u.handed = <<>> /\ u.buffer = <<>>
        /\ task[k].channel = <<>>
    <3>1. NoTask.channel = <<>> /\ NoTask.log = <<>> /\ NoTask.handed = <<>>
          /\ NoTask.buffer = <<>>
      BY DEF NoTask
    <3> QED
      BY <3>1, <2>2, NoTaskTypes DEF TaskStates, Phases
  <2> HIDE DEF u
  <2>4. /\ task' \in [Tasks -> TaskStates] /\ task'[k] = u
        /\ \A j \in Tasks : j # k => task'[j] = task[j]
    BY <2>1, <2>3 DEF Types
  <2>5. TaskInv(u)
    <3>1. InOrder(u.handed \o u.buffer, u.log, u.channel)
      <4>1. u.handed \o u.buffer = <<>>
        BY <2>3
      <4>2. InChannel(<<>>) = {}
        BY DEF InChannel
      <4>3. Past(<<>>, <<>>) = 0 /\ Missed(<<>>, <<>>, <<>>) = 0
        <5>1. Cardinality(InChannel(<<>>)) = 0
          BY <4>2, FS_EmptySet
        <5>2. Len(<<>>) = 0
          OBVIOUS
        <5> QED
          BY <5>1, <5>2 DEF Past, Missed
      <4> QED
        BY <2>3, <4>1, <4>2, <4>3, ManagerConstants DEF InOrder
    <3> QED
      BY <3>1, <2>3, ManagerConstants DEF TaskInv
  <2>6. \A j \in Tasks : TaskInv(task'[j])
    BY <2>4, <2>5
  <2>7. InChannels' = InChannels /\ Sleeping' = Sleeping
    BY <2>1, <2>3, <2>4, CountsSame DEF Permits
  <2>8. /\ permitless \in Seq(Tasks) /\ Len(permitless) <= PermitlessSize
        /\ PermitlessSize \in Nat
    BY ProcessorAssumption DEF Types
  <2>9. permitless' \in Seq(Tasks) /\ Len(permitless') <= PermitlessSize
    BY <2>1, <2>8, SentTypes
  <2>10. entry' \in 0..MaxTasks /\ entry' # 0
    BY <2>1, ManagerConstants DEF Tasks
  <2>11. (\A i \in DOMAIN urgent : urgent[i].kind \in {"net", "init"} =>
             task[urgent[i].to].phase # "free")'
    BY <1>1, <1>2, <2>3, <2>4
  <2>12. (entry # 0 => task[entry].phase # "free")'
    BY <2>1, <2>3, <2>4
  <2>13. \A i \in DOMAIN permitless : permitless[i] \in Tasks /\ permitless[i] # k
    BY <2>1 DEF Queues, Types
  <2>14. /\ (\A i \in DOMAIN permitless : task[permitless[i]].phase = "queued")'
         /\ (\A i, j \in DOMAIN permitless : permitless[i] = permitless[j] => i = j)'
    <3>1. CASE PermitlessFull
      <4>1. permitless' = permitless
        BY <3>1, <2>1, <2>8 DEF PermitlessFull, Sent
      <4> QED
        BY <4>1, <2>4, <2>13 DEF Queues
    <3>2. CASE ~PermitlessFull
      <4>1. permitless' = Append(permitless, k) /\ u.phase = "queued"
        BY <3>2, <2>1, <2>3, <2>8 DEF PermitlessFull, Sent
      <4>2. /\ DOMAIN permitless' = 1..(Len(permitless) + 1)
            /\ DOMAIN permitless = 1..Len(permitless) /\ Len(permitless) \in Nat
            /\ permitless'[Len(permitless) + 1] = k
            /\ \A i \in DOMAIN permitless : permitless'[i] = permitless[i]
        BY <4>1, <2>8
      <4>3. \A i \in DOMAIN permitless' : i \in DOMAIN permitless \/ i = Len(permitless) + 1
        BY <4>2
      <4>4. (\A i \in DOMAIN permitless : task[permitless[i]].phase = "queued")'
        BY <4>1, <4>2, <4>3, <2>4, <2>13 DEF Queues
      <4>5. (\A i, j \in DOMAIN permitless : permitless[i] = permitless[j] => i = j)'
        BY <4>2, <4>3, <2>13 DEF Queues
      <4> QED
        BY <4>4, <4>5
    <3> QED
      BY <3>1, <3>2
  <2>15. Queues'
    BY <2>11, <2>12, <2>14 DEF Queues
  <2> QED
    BY <1>1, <2>4, <2>6, <2>7, <2>9, <2>10, <2>15
<1> QED
  BY <1>3, <1>4

LEMMA DecideKept ==
    ASSUME ManagerInv, NEW c \in Callers, Decide(c)
    PROVE  ManagerInv'
<1>1. PICK k \in Tasks :
        /\ get_or_spawn_instance(k)
        /\ urgent' = SendUrgent(urgent, [kind |-> "init", to |-> k, body |-> c])
        /\ caller' = [caller EXCEPT ![c] =
              [state |-> IF UrgentFull THEN "error" ELSE "waiting", task |-> k]]
  BY DEF Decide
<1>2. UNCHANGED <<held, time, mode, arrived, running>>
  BY DEF Decide
<1> DEFINE w == [kind |-> "init", to |-> k, body |-> c]
<1>3. w \in Work /\ w.kind \in {"net", "init"} /\ w.to = k /\ urgent' = SendUrgent(urgent, w)
  BY <1>1, WorkMade
<1> HIDE DEF w
<1>4. /\ urgent' \in Seq(Work) /\ Len(urgent') <= UrgentSize
      /\ permitless' \in Seq(Tasks) /\ Len(permitless') <= PermitlessSize
      /\ entry' \in 0..MaxTasks
      /\ task' \in [Tasks -> TaskStates]
      /\ Queues'
      /\ InChannels' = InChannels /\ Sleeping' = Sleeping
      /\ \A j \in Tasks : TaskInv(task'[j])
  BY <1>1, <1>3, SpawnKept
<1>5. caller' \in [Callers -> [state : {"idle", "waiting", "success", "timed_out", "error"},
                               task : 0..MaxTasks]]
  <2>1. k \in 0..MaxTasks
    BY ManagerConstants DEF Tasks
  <2> QED
    BY <2>1, <1>1 DEF ManagerInv, Types
<1>6. Types'
  BY <1>2, <1>4, <1>5 DEF ManagerInv, Types
<1>7. Permits'
  BY <1>2, <1>4 DEF ManagerInv, Permits, NoPermitLeaks
<1> QED
  BY <1>4, <1>6, <1>7 DEF ManagerInv

LEMMA ReceiveKept ==
    ASSUME ManagerInv, NEW m \in Messages, Receive(m)
    PROVE  ManagerInv'
<1> DEFINE w == [kind |-> "validate", body |-> m]
<1>1. /\ arrived' = arrived \cup {m} /\ urgent' = Sent(urgent, UrgentSize, w)
      /\ UNCHANGED <<permitless, held, time, mode, running, entry, task, caller>>
  BY DEF Receive, SendUrgent
<1>2. w \in Work /\ w.kind = "validate"
  BY WorkMade
<1> HIDE DEF w
<1>3. urgent \in Seq(Work) /\ Len(urgent) <= UrgentSize /\ UrgentSize \in Nat
  BY ProcessorAssumption DEF ManagerInv, Types
<1>4. /\ Sent(urgent, UrgentSize, w) \in Seq(Work)
      /\ Len(Sent(urgent, UrgentSize, w)) <= UrgentSize
      /\ \A i \in DOMAIN Sent(urgent, UrgentSize, w) :
            \/ i \in DOMAIN urgent /\ Sent(urgent, UrgentSize, w)[i] = urgent[i]
            \/ i = Len(urgent) + 1 /\ Sent(urgent, UrgentSize, w)[i] = w
  BY <1>2, <1>3, SentTypes
<1>5. Types'
  BY <1>1, <1>4 DEF ManagerInv, Types
<1>6. (\A i \in DOMAIN urgent : urgent[i].kind \in {"net", "init"} =>
          task[urgent[i].to].phase # "free")'
  BY <1>1, <1>2, <1>4 DEF ManagerInv, Queues
<1>7. Queues'
  BY <1>1, <1>6 DEF ManagerInv, Queues
<1>8. Permits'
  BY <1>1 DEF ManagerInv, Permits, NoPermitLeaks, InChannels, Sleeping
<1> QED
  BY <1>1, <1>5, <1>7, <1>8 DEF ManagerInv

LEMMA PassToInstanceKept ==
    ASSUME ManagerInv, NEW i \in DOMAIN running, NEW k \in Tasks, PassToInstance(i, k)
    PROVE  ManagerInv'
<1> DEFINE w == [kind |-> "net", to |-> k, body |-> running[i].body]
<1>1. /\ running[i].kind = "validate" /\ get_or_spawn_instance(k)
      /\ urgent' = SendUrgent(urgent, w)
      /\ running' = RemoveAt(running, i) /\ held' = held - 1
      /\ UNCHANGED <<time, mode, arrived, caller>>
  BY DEF PassToInstance
<1>2. running[i] \in Work
  BY DEF ManagerInv, Types
<1>3. w \in Work /\ w.kind \in {"net", "init"} /\ w.to = k
  BY <1>1, <1>2, WorkFields, WorkMade
<1> HIDE DEF w
<1>4. /\ urgent' \in Seq(Work) /\ Len(urgent') <= UrgentSize
      /\ permitless' \in Seq(Tasks) /\ Len(permitless') <= PermitlessSize
      /\ entry' \in 0..MaxTasks
      /\ task' \in [Tasks -> TaskStates]
      /\ Queues'
      /\ InChannels' = InChannels /\ Sleeping' = Sleeping
      /\ \A j \in Tasks : TaskInv(task'[j])
  BY <1>1, <1>3, SpawnKept
<1>5. Permits' /\ running' \in Seq(Work) /\ held' \in Int
  BY <1>1, <1>4, FinishedPermits DEF ManagerInv
<1>6. Types'
  BY <1>1, <1>4, <1>5 DEF ManagerInv, Types
<1> QED
  BY <1>4, <1>5, <1>6 DEF ManagerInv

LEMMA NotPassedKept ==
    ASSUME ManagerInv, NEW i \in DOMAIN running, NotPassed(i)
    PROVE  ManagerInv'
<1>1. /\ running' = RemoveAt(running, i) /\ held' = held - 1
      /\ UNCHANGED <<urgent, permitless, time, mode, arrived, entry, task, caller>>
  BY DEF NotPassed
<1>2. InChannels' = InChannels /\ Sleeping' = Sleeping
  BY <1>1 DEF InChannels, Sleeping
<1>3. Permits' /\ running' \in Seq(Work) /\ held' \in Int
  BY <1>1, <1>2, FinishedPermits DEF ManagerInv
<1>4. Types' /\ Queues'
  BY <1>1, <1>3 DEF ManagerInv, Types, Queues
<1> QED
  BY <1>1, <1>3, <1>4 DEF ManagerInv

LEMMA FinishSendKept ==
    ASSUME ManagerInv, NEW i \in DOMAIN running, FinishSend(i)
    PROVE  ManagerInv'
<1> DEFINE k == running[i].to
           u == [task[k] EXCEPT !.ours = @ + 1]
<1>1. /\ running[i].kind \in {"sign", "send"}
      /\ running' = RemoveAt(running, i) /\ held' = held - 1
      /\ UNCHANGED <<urgent, permitless, time, mode, arrived, entry, caller>>
  BY DEF FinishSend
<1>2. k \in Tasks
  <2>1. running[i] \in Work
    BY DEF ManagerInv, Types
  <2> QED
    BY <2>1, <1>1, WorkFields
<1> HIDE DEF k
<1>3. task \in [Tasks -> TaskStates] /\ task[k] \in TaskStates /\ TaskInv(task[k])
  BY <1>2 DEF ManagerInv, Types
<1>4. /\ u \in TaskStates /\ u.phase = task[k].phase /\ u.channel = task[k].channel
      /\ u.handed = task[k].handed /\ u.buffer = task[k].buffer /\ u.log = task[k].log
      /\ u.current_round_start_time = task[k].current_round_start_time
      /\ u.entered = task[k].entered /\ u.completed = task[k].completed
  <2>1. task[k].ours + 1 \in Nat
    BY <1>3 DEF TaskStates
  <2> QED
    BY <1>3, <2>1 DEF TaskStates
<1>5. \/ task' = [task EXCEPT ![k] = u] /\ task[k].phase = "init"
      \/ task' = task
  BY DEF FinishSend, k
<1>6. task[k].phase = "init" => TaskInv(u)
  BY <1>3, <1>4 DEF TaskInv
<1> HIDE DEF u
<1>7. /\ task' \in [Tasks -> TaskStates]
      /\ \A j \in Tasks : j # k => task'[j] = task[j]
      /\ task'[k].channel = task[k].channel /\ task'[k].phase = task[k].phase
      /\ TaskInv(task'[k])
  BY <1>2, <1>3, <1>4, <1>5, <1>6
<1>8. InChannels' = InChannels /\ Sleeping' = Sleeping
  BY <1>2, <1>7, CountsSame DEF ManagerInv, Permits
<1>9. Permits' /\ running' \in Seq(Work) /\ held' \in Int
  BY <1>1, <1>8, FinishedPermits DEF ManagerInv
<1>10. Types'
  BY <1>1, <1>7, <1>9 DEF ManagerInv, Types
<1>11. Queues'
  <2>1. urgent' \in Seq(Work) /\ urgent' = urgent
    BY <1>1 DEF ManagerInv, Types
  <2> QED
    BY <2>1, <1>1, <1>2, <1>7, QueuesKept DEF ManagerInv
<1>12. (\A j \in Tasks : TaskInv(task[j]))'
  BY <1>7 DEF ManagerInv
<1> QED
  BY <1>9, <1>10, <1>11, <1>12 DEF ManagerInv

\* The queue of urgent work loses its first piece.
LEMMA UrgentTaken ==
    ASSUME ManagerInv, TakeUrgent
    PROVE  /\ urgent' \in Seq(Work) /\ Len(urgent') <= UrgentSize
           /\ \A i \in DOMAIN urgent' : \E j \in DOMAIN urgent : urgent'[i] = urgent[j]
           /\ Head(urgent) \in Work
           /\ Head(urgent).kind \in {"net", "init"} =>
                 task[Head(urgent).to].phase # "free"
           /\ held + 1 \in Int /\ held + 1 <= MaxWorkers
<1>1. urgent \in Seq(Work) /\ urgent # <<>> /\ urgent' = Tail(urgent) /\ Len(urgent) <= UrgentSize
  BY DEF ManagerInv, Types, TakeUrgent
<1>2. /\ urgent' \in Seq(Work) /\ Len(urgent') = Len(urgent) - 1 /\ Len(urgent) \in Nat
      /\ Head(urgent) = urgent[1] /\ 1 \in DOMAIN urgent /\ urgent[1] \in Work
      /\ DOMAIN urgent' = 1..(Len(urgent) - 1) /\ DOMAIN urgent = 1..Len(urgent)
      /\ \A i \in 1..(Len(urgent) - 1) : urgent'[i] = urgent[i + 1]
  BY <1>1
<1>3. \A i \in DOMAIN urgent' : i + 1 \in DOMAIN urgent /\ urgent'[i] = urgent[i + 1]
  BY <1>2
<1>4. held + 1 \in Int /\ held + 1 <= MaxWorkers
  BY ProcessorAssumption DEF ManagerInv, Types, TakeUrgent
<1>5. Len(urgent') <= UrgentSize
  BY <1>1, <1>2, ProcessorAssumption
<1> QED
  BY <1>2, <1>3, <1>4, <1>5 DEF ManagerInv, Queues

LEMMA RunUrgentKept ==
    ASSUME ManagerInv, RunUrgent
    PROVE  ManagerInv'
<1> DEFINE w == Head(urgent)
           k == w.to
<1>1. /\ urgent' \in Seq(Work) /\ Len(urgent') <= UrgentSize
      /\ \A i \in DOMAIN urgent' : \E j \in DOMAIN urgent : urgent'[i] = urgent[j]
      /\ w.kind \in {"net", "init"} => task[w.to].phase # "free"
      /\ held + 1 \in Int /\ held + 1 <= MaxWorkers
  BY UrgentTaken DEF RunUrgent
<1>2. w \in Work /\ UNCHANGED <<permitless, time, mode, arrived, entry>>
  BY UrgentTaken DEF RunUrgent
<1>3. /\ Cardinality(InChannels) \in Nat /\ IsFiniteSet(InChannels) /\ Len(running) \in Nat
      /\ held \in Int /\ Cardinality(Sleeping) \in Nat /\ running \in Seq(Work)
      /\ held = Len(running) + Cardinality(InChannels) + Cardinality(Sleeping)
  BY FS_CardinalityType, SleepingFinite DEF ManagerInv, Permits, NoPermitLeaks, Types
<1>4. ASSUME task' = task
      PROVE  Queues' /\ InChannels' = InChannels /\ Sleeping' = Sleeping
  <2>1. 1 \in Tasks /\ task' \in [Tasks -> TaskStates]
    BY <1>4, ManagerConstants DEF ManagerInv, Types, Tasks
  <2>2. Queues'
    BY <2>1, <1>1, <1>2, <1>4, QueuesKept DEF ManagerInv
  <2> QED
    BY <2>2, <1>4 DEF InChannels, Sleeping
<1>5. CASE w.kind \in Blocking
  <2>1. running' = Append(running, w) /\ held' = held + 1 /\ UNCHANGED <<task, caller>>
    BY <1>5 DEF RunUrgent
  <2> HIDE DEF w
  <2>2. running' \in Seq(Work) /\ Len(running') = Len(running) + 1
    BY <2>1, <1>2, <1>3
  <2>3. Permits'
    BY <2>1, <2>2, <1>1, <1>3, <1>4 DEF Permits, NoPermitLeaks
  <2>4. Types'
    BY <2>1, <2>2, <1>1, <1>2 DEF ManagerInv, Types
  <2> QED
    BY <2>1, <2>3, <2>4, <1>4 DEF ManagerInv
<1>6. CASE w.kind \notin Blocking /\ task[k].phase = "ended"
  <2>1. /\ caller' = IF w.kind = "init" THEN [caller EXCEPT ![w.body].state = "error"]
                                        ELSE caller
        /\ UNCHANGED <<running, held, task>>
    BY <1>6 DEF RunUrgent
  <2> HIDE DEF w
  <2>2. caller' \in [Callers -> [state : {"idle", "waiting", "success", "timed_out", "error"},
                                 task : 0..MaxTasks]]
    <3>1. w.kind = "init" => w.body \in Callers
      BY <1>2, WorkFields
    <3> QED
      BY <3>1, <2>1 DEF ManagerInv, Types
  <2>3. Permits'
    BY <2>1, <1>4 DEF ManagerInv, Permits, NoPermitLeaks
  <2>4. Types'
    BY <2>1, <2>2, <1>1, <1>2 DEF ManagerInv, Types
  <2> QED
    BY <2>1, <2>3, <2>4, <1>4 DEF ManagerInv
<1>7. CASE w.kind \notin Blocking /\ task[k].phase # "ended"
  <2> DEFINE t == task[k]
             logged == w.kind = "net" /\ t.phase # "decided"
             l == IF logged THEN Append(t.log, w.body) ELSE t.log
             u == [t EXCEPT !.channel = Append(@, w), !.log = l]
  <2>1. /\ task' = [task EXCEPT ![k] = u] /\ held' = held + 1 /\ UNCHANGED <<running, caller>>
    BY <1>7 DEF RunUrgent
  <2>2. /\ k \in Tasks /\ w.kind \in {"net", "init"} /\ (w.kind = "net" => w.body \in Messages)
    BY <1>2, <1>7, WorkFields
  <2>3. t.phase # "free"
    BY <2>2, <1>1
  <2> HIDE DEF w, k
  <2>4. t \in TaskStates /\ TaskInv(t) /\ task \in [Tasks -> TaskStates]
    BY <2>2 DEF ManagerInv, Types
  <2>5. /\ t.log \in Seq(Messages) /\ t.channel \in Seq(Work)
        /\ t.handed \in Seq(Messages) /\ t.buffer \in Seq(Messages)
    BY <2>4 DEF TaskStates
  <2>6. l \in Seq(Messages) /\ Append(t.channel, w) \in Seq(Work)
    BY <2>2, <2>5, <1>2
  <2>7. /\ u \in TaskStates /\ u.phase = t.phase /\ u.channel = Append(t.channel, w)
        /\ u.log = l /\ u.handed = t.handed /\ u.buffer = t.buffer
        /\ u.current_round_start_time = t.current_round_start_time
        /\ u.entered = t.entered /\ u.completed = t.completed
    <3> HIDE DEF l
    <3> QED
      BY <2>4, <2>6 DEF TaskStates
  <2>8. TaskInv(u)
    <3>1. ASSUME t.phase \in {"queued", "uninit", "sleeping", "init"}
          PROVE  InOrder(t.handed \o t.buffer, l, Append(t.channel, w))
      <4>1. t.handed \o t.buffer \in Seq(Messages)
        BY <2>5, ConcatProperties
      <4>2. InOrder(t.handed \o t.buffer, t.log, t.channel)
        BY <3>1, <2>4 DEF TaskInv
      <4>3. CASE w.kind = "net"
        BY <4>1, <4>2, <4>3, <3>1, <2>5, <1>2, OrderSent
      <4>4. CASE w.kind # "net"
        BY <4>1, <4>2, <4>4, <2>5, <1>2, OrderSent
      <4> QED
        BY <4>3, <4>4
    <3> HIDE DEF u, l
    <3> QED
      BY <3>1, <2>3, <2>4, <2>7 DEF TaskInv
  <2> HIDE DEF u, l
  <2>9. /\ task' \in [Tasks -> TaskStates] /\ task'[k] = u
        /\ \A j \in Tasks : j # k => task'[j] = task[j]
    BY <2>1, <2>2, <2>4, <2>7
  <2>10. IsFiniteSet(InChannels') /\ Cardinality(InChannels') = Cardinality(InChannels) + 1
    BY <2>2, <2>4, <2>7, <2>9, <1>2, <1>3, ChannelCounts
  <2>11. Sleeping' = Sleeping
    BY <2>2, <2>4, <2>7, <2>9, SleepingCounts
  <2>12. Permits'
    BY <2>1, <2>10, <2>11, <1>1, <1>3 DEF Permits, NoPermitLeaks
  <2>13. Types'
    BY <2>1, <2>9, <1>1, <1>2 DEF ManagerInv, Types
  <2>14. Queues'
    BY <2>2, <2>7, <2>9, <1>1, <1>2, QueuesKept DEF ManagerInv
  <2>15. (\A j \in Tasks : TaskInv(task[j]))'
    BY <2>8, <2>9 DEF ManagerInv
  <2> QED
    BY <2>12, <2>13, <2>14, <2>15 DEF ManagerInv
<1> QED
  BY <1>5, <1>6, <1>7

LEMMA RunPermitlessKept ==
    ASSUME ManagerInv, RunPermitless
    PROVE  ManagerInv'
<1> DEFINE k == Head(permitless)
           u == [task[k] EXCEPT !.phase = "uninit"]
<1>1. /\ permitless # <<>> /\ permitless' = Tail(permitless)
      /\ task' = [task EXCEPT ![k] = u]
      /\ UNCHANGED <<urgent, held, time, mode, arrived, running, entry, caller>>
  BY DEF RunPermitless, TakePermitless
<1>2. permitless \in Seq(Tasks) /\ Len(permitless) <= PermitlessSize
  BY DEF ManagerInv, Types
<1>3. /\ permitless' \in Seq(Tasks) /\ Len(permitless') = Len(permitless) - 1
      /\ Len(permitless) \in Nat /\ Len(permitless) > 0
      /\ k = permitless[1] /\ k \in Tasks
      /\ DOMAIN permitless' = 1..(Len(permitless) - 1)
      /\ DOMAIN permitless = 1..Len(permitless)
      /\ \A i \in 1..(Len(permitless) - 1) : permitless'[i] = permitless[i + 1]
  BY <1>1, <1>2
<1>4. task[k].phase = "queued"
  BY <1>3 DEF ManagerInv, Queues
<1> HIDE DEF k
<1>5. task \in [Tasks -> TaskStates] /\ task[k] \in TaskStates /\ TaskInv(task[k])
  BY <1>3 DEF ManagerInv, Types
<1>6. /\ u \in TaskStates /\ u.phase = "uninit" /\ u.channel = task[k].channel
      /\ u.handed = task[k].handed /\ u.buffer = task[k].buffer /\ u.log = task[k].log
  BY <1>5 DEF TaskStates, Phases
<1>7. TaskInv(u)
  BY <1>4, <1>5, <1>6 DEF TaskInv
<1> HIDE DEF u
<1>8. /\ task' \in [Tasks -> TaskStates] /\ task'[k] = u
      /\ \A j \in Tasks : j # k => task'[j] = task[j]
  BY <1>1, <1>3, <1>5, <1>6
<1>9. InChannels' = InChannels /\ Sleeping' = Sleeping
  BY <1>3, <1>4, <1>6, <1>8, CountsSame DEF ManagerInv, Permits
<1>10. Permits'
  BY <1>1, <1>9 DEF ManagerInv, Permits, NoPermitLeaks
<1>11. Len(permitless') <= PermitlessSize
  BY <1>2, <1>3, ProcessorAssumption
<1>12. Types'
  BY <1>1, <1>3, <1>8, <1>11 DEF ManagerInv, Types
<1>13. Queues'
  <2>1. \A i \in DOMAIN permitless' :
           /\ i + 1 \in DOMAIN permitless /\ i + 1 # 1 /\ 1 \in DOMAIN permitless
           /\ permitless'[i] = permitless[i + 1]
           /\ permitless[i + 1] \in Tasks
    BY <1>2, <1>3
  <2>2. \A i \in DOMAIN permitless' : permitless'[i] # k
    BY <2>1, <1>3 DEF ManagerInv, Queues
  <2>3. (\A i \in DOMAIN permitless : task[permitless[i]].phase = "queued")'
    BY <2>1, <2>2, <1>8 DEF ManagerInv, Queues
  <2>4. \A i, j \in DOMAIN permitless' : permitless'[i] = permitless'[j] => i + 1 = j + 1
    BY <2>1 DEF ManagerInv, Queues
  <2>5. (\A i, j \in DOMAIN permitless : permitless[i] = permitless[j] => i = j)'
    BY <2>4, <1>3
  <2>6. \A j \in Tasks : task[j].phase # "free" => task'[j].phase # "free"
    BY <1>6, <1>8
  <2>7. (\A i \in DOMAIN urgent : urgent[i].kind \in {"net", "init"} =>
             task[urgent[i].to].phase # "free")'
    <3>1. \A i \in DOMAIN urgent : urgent[i].kind \in {"net", "init"} => urgent[i].to \in Tasks
      <4> TAKE i \in DOMAIN urgent
      <4>1. urgent[i] \in Work
        BY DEF ManagerInv, Types
      <4> QED
        BY <4>1, WorkFields
    <3> QED
      BY <3>1, <2>6, <1>1 DEF ManagerInv, Queues
  <2>8. (entry # 0 => task[entry].phase # "free")'
    <3>1. entry # 0 => entry \in Tasks
      BY ManagerConstants DEF ManagerInv, Types, Tasks
    <3> QED
      BY <3>1, <2>6, <1>1 DEF ManagerInv, Queues
  <2> QED
    BY <2>3, <2>5, <2>7, <2>8 DEF Queues
<1>14. (\A j \in Tasks : TaskInv(task[j]))'
  BY <1>7, <1>8 DEF ManagerInv
<1> QED
  BY <1>10, <1>12, <1>13, <1>14 DEF ManagerInv

LEMMA CleanAndTickKept ==
    ASSUME ManagerInv, Clean \/ Tick
    PROVE  ManagerInv'
<1>1. /\ UNCHANGED <<urgent, permitless, held, mode, arrived, running, task, caller>>
      /\ entry' \in {0, entry} /\ (time' = time \/ (time < MaxTime /\ time' = time + 1))
  BY DEF Clean, Tick, processorVars
<1>2. Types'
  <2>1. time' \in 0..MaxTime /\ entry' \in 0..MaxTasks
    BY <1>1, ManagerConstants DEF ManagerInv, Types
  <2> QED
    BY <2>1, <1>1 DEF ManagerInv, Types
<1>3. Queues'
  BY <1>1 DEF ManagerInv, Queues
<1>4. Permits'
  BY <1>1 DEF ManagerInv, Permits, NoPermitLeaks, InChannels, Sleeping
<1> QED
  BY <1>1, <1>2, <1>3, <1>4 DEF ManagerInv

---------------------------------------------------------------------------
(* The theorems.                                                           *)

LEMMA ManagerInvInit == Init => ManagerInv
<1> SUFFICES ASSUME Init PROVE ManagerInv
  OBVIOUS
<1>1. /\ urgent = <<>> /\ permitless = <<>> /\ held = 0 /\ time = 0 /\ arrived = {}
      /\ mode \in {"Relative", "SlotTime"} /\ running = <<>> /\ entry = 0
      /\ task = [k \in Tasks |-> NoTask]
      /\ caller = [c \in Callers |-> [state |-> "idle", task |-> 0]]
  BY DEF Init, ProcessorInit
<1>2. NoTask.phase = "free" /\ NoTask.channel = <<>>
  BY DEF NoTask
<1>3. Types
  <2>1. task \in [Tasks -> TaskStates]
    BY <1>1, NoTaskTypes
  <2>2. caller \in [Callers -> [state : {"idle", "waiting", "success", "timed_out", "error"},
                                task : 0..MaxTasks]]
    BY <1>1, ManagerConstants
  <2>3. /\ <<>> \in Seq(Work) /\ <<>> \in Seq(Tasks) /\ Len(<<>>) = 0
        /\ 0 <= UrgentSize /\ 0 <= PermitlessSize /\ 0 \in 0..MaxTime /\ 0 \in 0..MaxTasks
    BY ProcessorAssumption, ManagerConstants
  <2> QED
    BY <1>1, <2>1, <2>2, <2>3 DEF Types
<1>4. Queues
  BY <1>1 DEF Queues
<1>5. InChannels = {} /\ Sleeping = {}
  BY <1>1, <1>2 DEF InChannels, Sleeping
<1>6. Permits
  <2>1. IsFiniteSet({}) /\ Cardinality({}) = 0
    BY FS_EmptySet
  <2>2. Len(running) = 0 /\ 0 <= MaxWorkers
    BY <1>1, ProcessorAssumption
  <2> QED
    BY <1>1, <1>5, <2>1, <2>2 DEF Permits, NoPermitLeaks
<1>7. \A k \in Tasks : TaskInv(task[k])
  BY <1>1, <1>2 DEF TaskInv
<1> QED
  BY <1>3, <1>4, <1>6, <1>7 DEF ManagerInv

LEMMA ManagerInvNext == ManagerInv /\ [Next]_vars => ManagerInv'
<1> SUFFICES ASSUME ManagerInv, [Next]_vars PROVE ManagerInv'
  OBVIOUS
<1>1. ASSUME NEW c \in Callers, Decide(c) PROVE ManagerInv'
  BY <1>1, DecideKept
<1>2. ASSUME NEW m \in Messages, Receive(m) PROVE ManagerInv'
  BY <1>2, ReceiveKept
<1>3. ASSUME Finish PROVE ManagerInv'
  BY <1>3, PassToInstanceKept, NotPassedKept, FinishSendKept DEF Finish
<1>4. ASSUME RunUrgent \/ RunPermitless PROVE ManagerInv'
  BY <1>4, RunUrgentKept, RunPermitlessKept
<1>5. ASSUME NEW k \in Tasks, TaskStep(k) PROVE ManagerInv'
  BY <1>5, BufferMessageKept, ReceiveMessageKept, IgnoreMessageKept, ReceiveOwnKept,
     InitializeKept, WakeKept, InitializeAgainKept, InitializeDecidedKept, RoundEndKept,
     ClosedKept DEF TaskStep
<1>6. ASSUME Clean \/ Tick PROVE ManagerInv'
  BY <1>6, CleanAndTickKept
<1>7. ASSUME UNCHANGED vars PROVE ManagerInv'
  BY <1>7 DEF ManagerInv, Types, Queues, Permits, NoPermitLeaks, InChannels, Sleeping,
              vars, processorVars, managerVars
<1> QED
  BY <1>1, <1>2, <1>3, <1>4, <1>5, <1>6, <1>7 DEF Next

\* The inductive invariant that the theorems below share.
THEOREM ManagerInvariant == Spec => []ManagerInv
<1> QED
  BY ManagerInvInit, ManagerInvNext, PTL DEF Spec

\* No permit of the processor is lost or given back twice, whatever the tasks
\* do with their messages: those that are out are held by blocking work, by
\* messages on their way to an instance and by instances that sleep.
THEOREM NoPermitLeaksHolds == Spec => []NoPermitLeaks
<1>1. ManagerInv => NoPermitLeaks
  BY DEF ManagerInv, Permits
<1> QED
  BY <1>1, ManagerInvariant, PTL

\* Everything in the manager and the processor has its type; the permits out
\* are never negative and never more than the workers.
THEOREM ManagerTypesHold == Spec => []TypeOK
<1>1. ManagerInv => TypeOK
  <2> SUFFICES ASSUME ManagerInv PROVE TypeOK
    OBVIOUS
  <2>1. held \in 0..MaxWorkers
    <3>1. /\ Cardinality(InChannels) \in Nat /\ Cardinality(Sleeping) \in Nat
          /\ Len(running) \in Nat /\ held \in Int /\ held <= MaxWorkers
          /\ held = Len(running) + Cardinality(InChannels) + Cardinality(Sleeping)
      BY FS_CardinalityType, SleepingFinite DEF ManagerInv, Permits, NoPermitLeaks, Types
    <3> QED
      BY <3>1, ProcessorAssumption
  <2>2. \A t \in TaskStates :
           /\ t.phase \in {"free", "queued", "uninit", "sleeping", "init", "decided", "ended"}
           /\ t.channel \in Seq(Work) /\ t.on_completed \subseteq Callers
           /\ t.round \in 1..MaxRounds
    BY DEF TaskStates, Phases
  <2> QED
    BY <2>1, <2>2 DEF ManagerInv, Types, TypeOK
<1> QED
  BY <1>1, ManagerInvariant, PTL

\* A Relative instance never times a round from an earlier one's beginning,
\* whether the timer, a message or the replay of the buffer began the round.
THEOREM RoundsGetTheirTimeHolds == Spec => []RoundsGetTheirTime
<1>1. ManagerInv => RoundsGetTheirTime
  BY DEF ManagerInv, TaskInv, RoundsGetTheirTime, round_end
<1> QED
  BY <1>1, ManagerInvariant, PTL

\* The Qbft of an instance gets the messages in the order in which they were
\* sent, and only those that found a full buffer are missing: the messages
\* before the initialization come from the buffer, the later ones from the
\* channel, and none of them overtakes another.
THEOREM MessagesInOrderHolds == Spec => []MessagesInOrder
<1>1. ManagerInv => MessagesInOrder
  <2> SUFFICES ASSUME ManagerInv, NEW k \in Tasks,
                      task[k].phase \in {"queued", "uninit", "sleeping", "init"}
               PROVE  LET t == task[k]
                          rest == InChannel(t.channel)
                          past == Len(t.log) - Cardinality(rest)
                          taken == t.handed \o t.buffer
                          missed == past - Len(taken)
                      IN  /\ missed >= 0 /\ (missed > 0 => Len(taken) >= BufferLimit)
                          /\ \A i \in DOMAIN taken :
                                taken[i] = t.log[IF i <= BufferLimit THEN i ELSE i + missed]
                          /\ \A i \in rest : t.channel[i].body =
                                t.log[past + Cardinality({j \in rest : j <= i})]
    BY DEF MessagesInOrder
  <2>1. InOrder(task[k].handed \o task[k].buffer, task[k].log, task[k].channel)
    BY DEF ManagerInv, TaskInv
  <2> QED
    BY <2>1 DEF InOrder, Past, Missed, Rank
<1> QED
  BY <1>1, ManagerInvariant, PTL

===========================================================================
