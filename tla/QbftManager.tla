---------------------------- MODULE QbftManager ----------------------------
(***************************************************************************)
(* The life of the QBFT instances of one duty in one operator's process:   *)
(* the message receiver, the QBFT manager with its map and its cleaner,    *)
(* the instance tasks and the processor they all run on                    *)
(* (anchor/message_receiver, anchor/qbft_manager, anchor/processor).       *)
(*                                                                         *)
(* Every task of the duty is a generation: the cleaner drops the map entry *)
(* when the slot is over, and the next message or caller spawns another.   *)
(* What the protocol does inside an instance is in Qbft; here a message    *)
(* has one of the effects on the instance that its driver sees: none, a    *)
(* higher round, or completion.                                            *)
(***************************************************************************)
EXTENDS Processor, FiniteSets, SequencesExt

CONSTANTS
    Callers,        \* the tasks that call decide_instance
    Messages,       \* the messages from the network
    Effect,         \* Effect[m]: what message m does to the instance
    MaxTasks,       \* bound of the generations
    MaxRounds,      \* max_rounds of the role
    RoundTimeout,   \* the timeout of a round
    StartTime,      \* the scheduled start of round 1, or the deadline origin
    SlotTicks,      \* the length of a slot
    Height,         \* the slot of the duty (InstanceHeight)
    MaxTime,        \* bound of the clock
    BufferLimit     \* MESSAGE_BUFFER_LIMIT

Tasks == 1..MaxTasks

ASSUME ManagerAssumption ==
    /\ Effect \in [Messages -> {"none", "advance", "decide"}]
    /\ {MaxTasks, MaxRounds, RoundTimeout, SlotTicks} \subseteq Nat \ {0}
    /\ {StartTime, Height, MaxTime, BufferLimit} \subseteq Nat

VARIABLES
    time,      \* the clock
    mode,      \* TimeoutMode of the duty
    arrived,   \* the messages gossip has delivered
    running,   \* the blocking work that runs
    entry,     \* the task whose sender the map holds, or 0
    task,      \* the instance tasks, with their channels
    caller     \* where each caller is

managerVars == <<time, mode, arrived, running, entry, task, caller>>
vars == <<processorVars, managerVars>>

\* The work of urgent_consensus: validate a message, sign and send one of an
\* instance, send its decided message, and pass a message or an
\* initialization to an instance.
Work ==
    [kind : {"validate"}, body : Messages] \cup
    [kind : {"sign", "send"}, to : Tasks] \cup
    [kind : {"net"}, to : Tasks, body : Messages] \cup
    [kind : {"init"}, to : Tasks, body : Callers]

Blocking == {"validate", "sign", "send"}

\* queued is a task that the processor has not started yet; entered, log and
\* handed are history: when the round began (for the Relative mode), and the
\* messages that were sent to the task and handed to its Qbft.
NoTask ==
    [phase |-> "free", channel |-> <<>>, buffer |-> <<>>,
     on_completed |-> {}, ours |-> 0, round |-> 1,
     current_round_start_time |-> 0, completed |-> "no",
     entered |-> 0, log |-> <<>>, handed |-> <<>>]

slot == time \div SlotTicks

\* The Relative mode keeps the time at which a round began.
round_start == IF mode = "Relative" THEN time ELSE 0

Init ==
    /\ ProcessorInit
    /\ time = 0
    /\ mode \in {"Relative", "SlotTime"}
    /\ arrived = {}
    /\ running = <<>>
    /\ entry = 0
    /\ task = [k \in Tasks |-> NoTask]
    /\ caller = [c \in Callers |-> [state |-> "idle", task |-> 0]]

---------------------------------------------------------------------------
(* The map of instances.                                                   *)

\* get_or_spawn_instance: the entry's task, or a new one.  A processor whose
\* queue is full drops the new task and its receiver; the entry stays.
get_or_spawn_instance(k) ==
    IF entry # 0
    THEN k = entry /\ UNCHANGED <<entry, task, permitless>>
    ELSE /\ task[k].phase = "free" /\ \A j \in Tasks : j < k => task[j].phase # "free"
         /\ entry' = k
         /\ task' = [task EXCEPT ![k].phase =
                        IF PermitlessFull THEN "ended" ELSE "queued"]
         /\ permitless' = Sent(permitless, PermitlessSize, k)

\* decide_instance
Decide(c) ==
    /\ caller[c].state = "idle"
    /\ \E k \in Tasks :
          /\ get_or_spawn_instance(k)
          /\ urgent' = SendUrgent(urgent,
                           [kind |-> "init", to |-> k, body |-> c])
          /\ caller' = [caller EXCEPT ![c] =
                [state |-> IF UrgentFull THEN "error" ELSE "waiting",
                 task |-> k]]
    /\ UNCHANGED <<held, time, mode, arrived, running>>

\* NetworkMessageReceiver::receive
Receive(m) ==
    /\ m \notin arrived
    /\ arrived' = arrived \cup {m}
    /\ urgent' = SendUrgent(urgent, [kind |-> "validate", body |-> m])
    /\ UNCHANGED <<permitless, held, time, mode, running, entry, task, caller>>

\* The validation passed: receive_data and pass_to_instance.
PassToInstance(i, k) ==
    /\ running[i].kind = "validate"
    /\ get_or_spawn_instance(k)
    /\ urgent' = SendUrgent(urgent,
                     [kind |-> "net", to |-> k, body |-> running[i].body])
    /\ running' = RemoveAt(running, i)
    /\ held' = held - 1
    /\ UNCHANGED <<time, mode, arrived, caller>>

\* The validation failed, the message is for other operators, or the
\* doppelganger service still monitors.
NotPassed(i) ==
    /\ running[i].kind = "validate"
    /\ running' = RemoveAt(running, i)
    /\ held' = held - 1
    /\ UNCHANGED <<urgent, permitless, time, mode, arrived, entry, task, caller>>

\* The blocking work of NetworkMessageSender: a signed message goes back to
\* the instance that sent it (MessageCallback) and to the network.
FinishSend(i) ==
    /\ running[i].kind \in {"sign", "send"}
    /\ running' = RemoveAt(running, i)
    /\ held' = held - 1
    /\ task' = IF running[i].kind = "sign" /\ task[running[i].to].phase = "init"
               THEN [task EXCEPT ![running[i].to].ours = @ + 1]
               ELSE task
    /\ UNCHANGED <<urgent, permitless, time, mode, arrived, entry, caller>>

---------------------------------------------------------------------------
(* The processor starts what it takes.  A message for an instance keeps    *)
(* the permit until the instance is done with it; one for an instance that *)
(* has ended is dropped, with its permit and its callback.                 *)

RunUrgent ==
    /\ TakeUrgent
    /\ LET w == Head(urgent)
       IN  IF w.kind \in Blocking
           THEN /\ running' = Append(running, w)
                /\ held' = held + 1
                /\ UNCHANGED <<task, caller>>
           ELSE IF task[w.to].phase = "ended"
           THEN /\ caller' = IF w.kind = "init"
                             THEN [caller EXCEPT ![w.body].state = "error"]
                             ELSE caller
                /\ UNCHANGED <<running, held, task>>
           ELSE /\ task' = [task EXCEPT
                      ![w.to].channel = Append(@, w),
                      ![w.to].log = IF w.kind = "net" /\ task[w.to].phase # "decided"
                                    THEN Append(@, w.body) ELSE @]
                /\ held' = held + 1
                /\ UNCHANGED <<running, caller>>
    /\ UNCHANGED <<permitless, time, mode, arrived, entry>>

RunPermitless ==
    /\ TakePermitless
    /\ task' = [task EXCEPT ![Head(permitless)].phase = "uninit"]
    /\ UNCHANGED <<urgent, held, time, mode, arrived, running, entry, caller>>

---------------------------------------------------------------------------
(* The instance task: qbft_instance.                                       *)

\* What Qbft::receive does, as far as the driver sees it.
qbft_receive(t, effect) ==
    IF t.completed # "no" THEN t
    ELSE IF effect = "decide" THEN [t EXCEPT !.completed = "success"]
    ELSE IF effect = "advance" /\ t.round < MaxRounds
    THEN [t EXCEPT !.round = @ + 1, !.entered = round_start]
    ELSE t

hand(t, m) ==
    [qbft_receive(t, Effect[m]) EXCEPT !.handed = Append(@, m)]

\* Mutant: a message that ends the round leaves the timer alone.
receive_keeps_timer(t, m) == hand(t, m)

\* The Relative timer restarts when a message moved the instance to a later
\* round.
receive(t, m) ==
    LET u == hand(t, m)
    IN  IF u.round > t.round
        THEN [u EXCEPT !.current_round_start_time = round_start]
        ELSE u

\* Mutant: the buffer is not replayed.
begin_without_replay(t, c) ==
    [t EXCEPT !.phase = "init", !.current_round_start_time = round_start,
              !.entered = round_start, !.on_completed = {c}, !.buffer = <<>>]

\* Uninitialized::initialize, after the wait: the buffer is replayed in order.
\* Its messages raise the round until one of them completes the instance.
begin(t, c) ==
    LET with(effect) == {i \in DOMAIN t.buffer : Effect[t.buffer[i]] = effect}
        advances == {i \in with("advance") : \A j \in with("decide") : i < j}
        raised == t.round + Cardinality(advances)
    IN  [t EXCEPT !.phase = "init", !.current_round_start_time = round_start,
                  !.entered = round_start, !.on_completed = {c}, !.buffer = <<>>,
                  !.handed = @ \o t.buffer,
                  !.round = IF raised < MaxRounds THEN raised ELSE MaxRounds,
                  !.completed = IF with("decide") = {} THEN @ ELSE "success"]

\* end_round
end_round(t) ==
    IF t.round = MaxRounds
    THEN [t EXCEPT !.completed = "timed_out"]
    ELSE [t EXCEPT !.round = @ + 1, !.entered = round_start,
                   !.current_round_start_time = round_start]

\* calculate_round_timeout
round_end(t) ==
    IF mode = "Relative" THEN t.current_round_start_time + RoundTimeout
                         ELSE StartTime + t.round * RoundTimeout

answered(callers, result) ==
    [c \in Callers |->
        IF c \in callers THEN [caller[c] EXCEPT !.state = result] ELSE caller[c]]

\* MessageCallback::send: a message of the instance is to be signed.
own_message(queue, k) == SendUrgent(queue, [kind |-> "sign", to |-> k])

\* Task k moves to t, which frees the permits freed, and sends a message of
\* its own if signs: complete_if_done answers the callers and sends the
\* decided message.
Step(k, t, freed, signs) ==
    LET done == t.phase = "init" /\ t.completed # "no"
        queue == IF signs THEN own_message(urgent, k) ELSE urgent
    IN  /\ task' = [task EXCEPT ![k] =
              IF done THEN [NoTask EXCEPT !.phase = "decided",
                                          !.channel = t.channel,
                                          !.completed = t.completed]
                      ELSE t]
        /\ caller' = IF done THEN answered(t.on_completed, t.completed)
                             ELSE caller
        /\ urgent' = IF done /\ t.completed = "success"
                     THEN SendUrgent(queue, [kind |-> "send", to |-> k]) ELSE queue
        /\ held' = held - freed
        /\ UNCHANGED <<permitless, time, mode, arrived, running, entry>>

popped(k) == [task[k] EXCEPT !.channel = Tail(@)]

Head_is(k, kind) == task[k].channel # <<>> /\ Head(task[k].channel).kind = kind

\* A network message for a task that is not initialized is buffered.
BufferMessage(k) ==
    /\ task[k].phase = "uninit" /\ Head_is(k, "net")
    /\ Step(k, [popped(k) EXCEPT !.buffer =
                   IF Len(@) < BufferLimit
                   THEN Append(@, Head(task[k].channel).body) ELSE @],
            1, FALSE)

ReceiveMessage(k) ==
    /\ task[k].phase = "init" /\ Head_is(k, "net")
    /\ Step(k, receive(popped(k), Head(task[k].channel).body), 1, FALSE)

IgnoreMessage(k) ==
    /\ task[k].phase = "decided" /\ Head_is(k, "net")
    /\ Step(k, popped(k), 1, FALSE)

\* A message this instance sent comes back.
ReceiveOwn(k) ==
    /\ task[k].phase = "init" /\ task[k].ours > 0
    /\ \E effect \in {"none", "decide"} :
          Step(k, qbft_receive([task[k] EXCEPT !.ours = @ - 1], effect), 0, FALSE)

\* Mutant: the permit is given back before the sleep, and after it again.
InitializeFreesTwice(k) ==
    /\ task[k].phase = "uninit" /\ Head_is(k, "init")
    /\ LET c == Head(task[k].channel).body
       IN  IF mode = "Relative" /\ time < StartTime
           THEN Step(k, [popped(k) EXCEPT !.phase = "sleeping",
                                          !.on_completed = {c}], 1, FALSE)
           ELSE Step(k, begin(popped(k), c), 1, TRUE)

\* The first initialization.  A Relative instance first sleeps until its
\* start time, with the message's permit.
Initialize(k) ==
    /\ task[k].phase = "uninit" /\ Head_is(k, "init")
    /\ LET c == Head(task[k].channel).body
       IN  IF mode = "Relative" /\ time < StartTime
           THEN Step(k, [popped(k) EXCEPT !.phase = "sleeping",
                                          !.on_completed = {c}], 0, FALSE)
           ELSE Step(k, begin(popped(k), c), 1, TRUE)

Wake(k) ==
    /\ task[k].phase = "sleeping"
    /\ time >= StartTime
    /\ \E c \in task[k].on_completed :
          Step(k, begin(task[k], c), 1, TRUE)

\* A second initialization waits for the same result.
InitializeAgain(k) ==
    /\ task[k].phase = "init" /\ Head_is(k, "init")
    /\ Step(k, [popped(k) EXCEPT !.on_completed =
                   @ \cup {Head(task[k].channel).body}], 1, FALSE)

\* An initialization after the decision is answered at once.
InitializeDecided(k) ==
    /\ task[k].phase = "decided" /\ Head_is(k, "init")
    /\ task' = [task EXCEPT ![k] = popped(k)]
    /\ caller' = answered({Head(task[k].channel).body}, task[k].completed)
    /\ held' = held - 1
    /\ UNCHANGED <<urgent, permitless, time, mode, arrived, running, entry>>

RoundEnd(k) ==
    /\ task[k].phase = "init"
    /\ time >= round_end(task[k])
    /\ Step(k, end_round(task[k]), 0, TRUE)

\* Mutant: a decided instance stays for late callers.
ClosedUndecided(k) ==
    /\ task[k].phase \in {"uninit", "init"}
    /\ task[k].channel = <<>>
    /\ entry # k
    /\ task' = [task EXCEPT ![k] = [NoTask EXCEPT !.phase = "ended"]]
    /\ caller' = answered(task[k].on_completed, "timed_out")
    /\ UNCHANGED <<urgent, permitless, held, time, mode, arrived, running, entry>>

\* All senders are gone: neither the map nor a queued closure has one.
Closed(k) ==
    /\ task[k].phase \in {"uninit", "init", "decided"}
    /\ task[k].channel = <<>>
    /\ entry # k
    /\ \A i \in DOMAIN urgent :
          urgent[i].kind \in {"net", "init"} => urgent[i].to # k
    /\ task' = [task EXCEPT ![k] = [NoTask EXCEPT !.phase = "ended"]]
    /\ caller' = answered(task[k].on_completed, "timed_out")
    /\ UNCHANGED <<urgent, permitless, held, time, mode, arrived, running, entry>>

\* The cleaner, for QBFT_RETAIN_SLOTS = 1.
Clean ==
    /\ entry # 0
    /\ Height + 1 < slot
    /\ entry' = 0
    /\ UNCHANGED <<processorVars, time, mode, arrived, running, task, caller>>

Tick ==
    /\ time < MaxTime
    /\ time' = time + 1
    /\ UNCHANGED <<processorVars, mode, arrived, running, entry, task, caller>>

---------------------------------------------------------------------------

TaskStep(k) ==
    \/ BufferMessage(k)
    \/ ReceiveMessage(k)
    \/ IgnoreMessage(k)
    \/ ReceiveOwn(k)
    \/ Initialize(k)
    \/ Wake(k)
    \/ InitializeAgain(k)
    \/ InitializeDecided(k)
    \/ RoundEnd(k)
    \/ Closed(k)

Finish ==
    \E i \in DOMAIN running :
        \/ \E k \in Tasks : PassToInstance(i, k)
        \/ NotPassed(i)
        \/ FinishSend(i)

Next ==
    \/ \E c \in Callers : Decide(c)
    \/ \E m \in Messages : Receive(m)
    \/ Finish
    \/ RunUrgent
    \/ RunPermitless
    \/ \E k \in Tasks : TaskStep(k)
    \/ Clean
    \/ Tick

\* The processor's loop and the tasks run, blocking work ends, and time goes
\* on, with the cleaner in every slot.
Spec ==
    /\ Init
    /\ [][Next]_vars
    /\ WF_vars(RunUrgent) /\ WF_vars(RunPermitless) /\ WF_vars(Finish)
    /\ \A k \in Tasks : WF_vars(TaskStep(k))
    /\ WF_vars(Clean) /\ WF_vars(Tick)

---------------------------------------------------------------------------
(* Correctness.                                                            *)

\* The types of queues, tasks and callers.
TypeOK ==
    /\ urgent \in Seq(Work) /\ Len(urgent) <= UrgentSize
    /\ permitless \in Seq(Tasks) /\ Len(permitless) <= PermitlessSize
    /\ held \in 0..MaxWorkers
    /\ time \in 0..MaxTime
    /\ mode \in {"Relative", "SlotTime"}
    /\ arrived \subseteq Messages
    /\ running \in Seq(Work)
    /\ entry \in 0..MaxTasks
    /\ \A k \in Tasks :
          /\ task[k].phase \in {"free", "queued", "uninit", "sleeping", "init",
                                "decided", "ended"}
          /\ task[k].channel \in Seq(Work)
          /\ task[k].on_completed \subseteq Callers
          /\ task[k].round \in 1..MaxRounds
    /\ caller \in [Callers ->
          [state : {"idle", "waiting", "success", "timed_out", "error"},
           task : 0..MaxTasks]]

\* The messages in the channels of the tasks, and the tasks that sleep with a
\* message in hand.
InChannels == UNION {{<<k, i>> : i \in DOMAIN task[k].channel} : k \in Tasks}
Sleeping == {k \in Tasks : task[k].phase = "sleeping"}

\* Every permit is held by work that runs, a message that waits for its
\* instance, or the initialization of an instance that sleeps; none is lost
\* when instances end with messages on their way.
NoPermitLeaks ==
    held = Len(running) + Cardinality(InChannels) + Cardinality(Sleeping)

\* The network messages in a channel, by their place.
InChannel(channel) == {i \in DOMAIN channel : channel[i].kind = "net"}

\* The instance gets the messages in the order in which they were sent to it,
\* whether they came before, during or after its initialization: those it has
\* taken are the first ones sent, but for the ones that found the buffer full,
\* and its channel holds the rest.
MessagesInOrder ==
    \A k \in Tasks :
        LET t == task[k]
            rest == InChannel(t.channel)
            past == Len(t.log) - Cardinality(rest)
            taken == t.handed \o t.buffer
            missed == past - Len(taken)
        IN  t.phase \in {"queued", "uninit", "sleeping", "init"} =>
              /\ missed >= 0 /\ (missed > 0 => Len(taken) >= BufferLimit)
              /\ \A i \in DOMAIN taken :
                    taken[i] = t.log[IF i <= BufferLimit THEN i ELSE i + missed]
              /\ \A i \in rest :
                    t.channel[i].body = t.log[past + Cardinality({j \in rest : j <= i})]

\* A round of a proposal gets its whole timeout, whether the timer or a
\* message started it.
RoundsGetTheirTime ==
    \A k \in Tasks :
        (mode = "Relative" /\ task[k].phase = "init") =>
            round_end(task[k]) = task[k].entered + RoundTimeout

\* Whoever calls decide_instance gets a result or an error, with any number
\* of workers and however the queues fill.
EveryDecisionAnswered ==
    \A c \in Callers :
        (caller[c].state = "waiting") ~> (caller[c].state # "waiting")

\* No instance outlives its slot for ever.
InstancesEnd == <>[](\A k \in Tasks : task[k].phase \in {"free", "ended"})
===========================================================================
