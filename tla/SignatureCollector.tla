------------------------ MODULE SignatureCollector ------------------------
(***************************************************************************)
(* The signature collectors of one operator, for one validator and one     *)
(* slot: anchor/signature_collector/src/lib.rs.  A collector is a task per *)
(* signing root.  It is spawned by whoever comes first, a caller that      *)
(* wants the signature or a partial signature from the network, and is     *)
(* dropped with its map entry when the slot is over.  A Gloas proposer     *)
(* packet signs two roots, the block and the payload envelope; the         *)
(* envelope's collector only takes shares that arrived in one packet with  *)
(* a share of the decided block.                                           *)
(*                                                                         *)
(* A share is good or bad: whether its BLS verification would succeed.     *)
(* Shares that verify combine to the validator's signature if there are    *)
(* Threshold of them, and one bad share spoils the combination.            *)
(***************************************************************************)
EXTENDS Integers, FiniteSets

CONSTANTS
    Operators,   \* the operators of the cluster
    Self,        \* the operator whose collectors these are
    Threshold,   \* 2f + 1 (signature_metadata)
    Roots,       \* the signing roots
    Callers,     \* the tasks that ask for a signature
    Duties,      \* what is signed: the callers' jobs and the shares of others
    DutySlot,    \* the slot of the duty
    StartSlot,   \* the slot in which the callers start
    MaxSlot,     \* bound of the slot clock
    None         \* Option::None

Companions == Roots \cup {None}

Shares ==
    [root : Roots, op : Operators, sig : {"good", "bad"},
     companion : Companions, packet : BOOLEAN]

\* collect: sign_and_collect; packet: sign_proposer_packet; wait:
\* wait_for_registered_signature.
Jobs ==
    [kind : {"collect", "packet", "wait"}, root : Roots,
     envelope : Companions, companion : Companions]

ASSUME ClusterAssumption ==
    /\ IsFiniteSet(Operators)
    /\ Self \in Operators
    /\ Threshold \in 1..Cardinality(Operators)
    /\ None \notin Roots

ASSUME JobAssumption ==
    /\ \A d \in Duties : /\ d.job \in [Callers -> Jobs]
                         /\ d.traffic \subseteq Shares
    /\ DutySlot \in Nat
    /\ StartSlot \in Nat
    /\ MaxSlot \in Nat
    /\ DutySlot <= StartSlot

VARIABLES
    duty,       \* the duty the callers work for
    now,        \* the slot clock
    collector,  \* signature_collectors, with the state of each task
    channel,    \* the registrations on their way to a task
    caller,     \* where each caller is, and what it got
    signing,    \* the callers whose signing waits in urgent_consensus
    signed      \* the shares this operator has signed

vars == <<duty, now, collector, channel, caller, signing, signed>>

---------------------------------------------------------------------------
(* A collector: SignatureCollectorState, with its map entry.  registration *)
(* holds the required companion, once there is a registration.  full holds *)
(* the shares the signature was recovered from.                            *)

CollectedShare ==
    [op : Operators, sig : {"good", "bad"}, companion_roots : SUBSET Roots]

Absent ==
    [task |-> "absent", for_slot |-> 0, registration |-> {}, shares |-> {},
     full |-> {}, notifiers |-> {}]

\* get_or_spawn: a processor whose queue is full drops the new task, and the
\* map entry stays behind with a closed channel.
get_or_spawn(r) ==
    IF collector[r].task = "absent"
    THEN {[Absent EXCEPT !.task = t, !.for_slot = DutySlot] :
             t \in {"running", "broken"}}
    ELSE {collector[r]}

\* The task returned; its map entry stays until the cleaner comes.
broken(s) ==
    [Absent EXCEPT !.task = "broken", !.for_slot = s.for_slot,
                   !.notifiers = s.notifiers]

\* Mutant: the shares that came before the registration are kept.
register_request_keeps_early(s, notify, companion) ==
    IF companion \in s.registration \/ s.registration = {}
    THEN [s EXCEPT !.registration = {companion},
                   !.notifiers = @ \cup notify]
    ELSE broken([s EXCEPT !.notifiers = @ \cup notify])

\* register_request: the first registration fixes the companion and drops
\* the shares that came without it; a conflicting one ends the task.
register_request(s, notify, companion) ==
    IF s.registration = {}
    THEN [s EXCEPT !.registration = {companion},
                   !.notifiers = @ \cup notify,
                   !.shares = {x \in @ : companion # None =>
                                  companion \in x.companion_roots}]
    ELSE IF companion \in s.registration
         THEN [s EXCEPT !.notifiers = @ \cup notify]
         ELSE broken([s EXCEPT !.notifiers = @ \cup notify])

\* A share of an operator that has one: it may gain a second witness, if
\* the signatures are the same.
add_witness(x, m) ==
    IF /\ x.sig = m.sig
       /\ m.companion # None
       /\ Cardinality(x.companion_roots) < 2
    THEN [x EXCEPT !.companion_roots = @ \cup {m.companion}]
    ELSE x

add_partial_signature(s, m) ==
    IF s.full # {} \/ ~(s.registration \subseteq {None, m.companion})
    THEN s
    ELSE IF \E x \in s.shares : x.op = m.op
    THEN [s EXCEPT !.shares =
            {IF x.op = m.op THEN add_witness(x, m) ELSE x : x \in @}]
    ELSE [s EXCEPT !.shares = @ \cup
            {[op |-> m.op, sig |-> m.sig,
              companion_roots |-> {m.companion} \ {None}]}]

\* combine_signatures and the verification with the validator's key.
combines(shares) ==
    /\ Cardinality(shares) >= Threshold
    /\ \A x \in shares : x.sig = "good"

\* try_reconstruct and complete_reconstruction; a failure starts the lookup
\* of the share keys, during which the task takes no message.
try_reconstruct(s) ==
    IF \/ s.full # {}
       \/ s.registration = {}
       \/ Cardinality(s.shares) < Threshold
    THEN s
    ELSE IF combines(s.shares)
         THEN [s EXCEPT !.full = s.shares, !.shares = {}]
         ELSE [s EXCEPT !.task = "fetching"]

\* Mutant: one bad share costs all.
remove_all_shares(s) == [s EXCEPT !.shares = {}]

\* remove_invalid_shares
remove_invalid_shares(s) ==
    [s EXCEPT !.shares = {x \in @ : x.sig = "good"}]

\* handle_reconstruction_fallback, once the share keys were found.
fallback(s) ==
    LET verified == remove_invalid_shares([s EXCEPT !.task = "running"])
    IN  IF verified.shares = s.shares
        THEN broken(s)
        ELSE IF Cardinality(verified.shares) < Threshold
        THEN verified
        ELSE IF combines(verified.shares)
        THEN try_reconstruct(verified)
        ELSE broken(s)

---------------------------------------------------------------------------
(* The task of root r moves to state s, having taken the registrations     *)
(* taken from its channel: recovered signatures go to every notifier, and  *)
(* a task that ends closes its notifiers and its channel.                  *)

Waiting == {"calling", "envelope_registered", "waiting"}

answer(c, s) ==
    IF c \in s.notifiers /\ caller[c] \in Waiting
    THEN IF s.full # {} THEN "signature"
         ELSE IF s.task \in {"broken", "absent"} THEN "closed"
         ELSE caller[c]
    ELSE caller[c]

queued_callers(r) == UNION {m.notify : m \in channel[r]}

Step(r, s, taken) ==
    LET ends == s.task \in {"broken", "absent"}
        last == [s EXCEPT !.notifiers =
                    IF ends THEN @ \cup queued_callers(r) ELSE @]
    IN  /\ caller' = [c \in Callers |-> answer(c, last)]
        /\ collector' =
              [collector EXCEPT ![r] = [s EXCEPT !.notifiers =
                  IF ends \/ s.full # {} THEN {} ELSE @]]
        /\ channel' =
              [channel EXCEPT ![r] = IF ends THEN {} ELSE @ \ taken]

\* is_stale_slot, for SIGNATURE_COLLECTOR_RETAIN_SLOTS = 1.
is_stale_slot == DutySlot < now - 1

Init ==
    /\ duty \in Duties
    /\ now = StartSlot
    /\ collector = [r \in Roots |-> Absent]
    /\ channel = [r \in Roots |-> {}]
    /\ caller = [c \in Callers |-> "idle"]
    /\ signing = {}
    /\ signed = {}

---------------------------------------------------------------------------
(* The callers.  Their registrations run as closures of the permitless     *)
(* queue of the processor, their signing as blocking work of               *)
(* urgent_consensus.                                                       *)

Call(c) ==
    /\ caller[c] = "idle"
    /\ caller' = [caller EXCEPT ![c] = "calling"]
    /\ signing' = IF duty.job[c].kind = "collect" THEN signing \cup {c}
                                            ELSE signing
    /\ UNCHANGED <<duty, now, collector, channel, signed>>

\* The permitless queue of the processor is full: the caller gets the error
\* before its registration, a packet's also between its two registrations.
PermitlessFull(c) ==
    /\ caller[c] \in {"idle", "envelope_registered"}
    /\ caller' = [caller EXCEPT ![c] = "closed"]
    /\ UNCHANGED <<duty, now, collector, channel, signing, signed>>

\* The registration of root r is sent to the task; a task that has ended
\* takes none, which drops the notifier.
Register(c, r, notify, companion, next) ==
    /\ \E s \in get_or_spawn(r) : collector' = [collector EXCEPT ![r] = s]
    /\ IF collector'[r].task = "broken"
       THEN /\ caller' = [caller EXCEPT ![c] = "closed"]
            /\ UNCHANGED channel
       ELSE /\ caller' = [caller EXCEPT ![c] = next]
            /\ channel' = [channel EXCEPT ![r] =
                  @ \cup {[notify |-> notify, companion |-> companion]}]

\* sign_and_collect
RegisterCollect(c) ==
    /\ caller[c] = "calling" /\ duty.job[c].kind = "collect"
    /\ Register(c, duty.job[c].root, {c}, None, "waiting")
    /\ UNCHANGED <<duty, now, signing, signed>>

\* sign_proposer_packet registers the envelope, without a notifier, waits
\* for that to happen, and then registers the block.
RegisterEnvelope(c) ==
    /\ caller[c] = "calling" /\ duty.job[c].kind = "packet"
    /\ duty.job[c].envelope # None
    /\ ~is_stale_slot
    /\ Register(c, duty.job[c].envelope, {}, duty.job[c].root, "envelope_registered")
    /\ UNCHANGED <<duty, now, signing, signed>>

RegisterBlock(c) ==
    /\ duty.job[c].kind = "packet"
    /\ \/ caller[c] = "envelope_registered"
       \/ caller[c] = "calling" /\ duty.job[c].envelope = None
    /\ ~is_stale_slot
    /\ Register(c, duty.job[c].root, {c}, None, "waiting")
    /\ signing' = signing \cup {c}
    /\ UNCHANGED <<duty, now, signed>>

\* wait_for_registered_signature neither signs nor spawns.
RegisterWait(c) ==
    LET s == collector[duty.job[c].root]
    IN  /\ caller[c] = "calling" /\ duty.job[c].kind = "wait"
        /\ ~is_stale_slot
        /\ s.task # "absent" /\ s.for_slot = DutySlot
        /\ Register(c, duty.job[c].root, {c}, duty.job[c].companion, "waiting")
        /\ UNCHANGED <<duty, now, signing, signed>>

\* The closures that return early drop the notifier or acknowledgement.
RefuseRegistration(c) ==
    /\ duty.job[c].kind \in {"packet", "wait"}
    /\ caller[c] \in {"calling", "envelope_registered"}
    /\ \/ is_stale_slot
       \/ /\ duty.job[c].kind = "wait"
          /\ \/ collector[duty.job[c].root].task = "absent"
             \/ collector[duty.job[c].root].for_slot # DutySlot
    /\ caller' = [caller EXCEPT ![c] = "closed"]
    /\ UNCHANGED <<duty, now, collector, channel, signing, signed>>

own_share(r, companion, packet) ==
    [root |-> r, op |-> Self, sig |-> "good", companion |-> companion,
     packet |-> packet]

\* The shares that signing for caller c makes, sends and injects.
own_shares(c) ==
    IF duty.job[c].kind = "collect"
    THEN {own_share(duty.job[c].root, None, FALSE)}
    ELSE {own_share(duty.job[c].root, duty.job[c].envelope, TRUE)} \cup
         {own_share(r, duty.job[c].root, TRUE) : r \in {duty.job[c].envelope} \ {None}}

Sign(c) ==
    /\ c \in signing
    /\ signing' = signing \ {c}
    /\ signed' = IF duty.job[c].kind = "packet" /\ is_stale_slot THEN signed
                                                ELSE signed \cup own_shares(c)
    /\ UNCHANGED <<duty, now, collector, channel, caller>>

\* urgent_consensus is full: the registration stands and nothing is signed.
\* The error may reach the caller before its registration runs; either order
\* leaves the collectors alike.
UrgentConsensusFull(c) ==
    /\ c \in signing
    /\ caller[c] # "calling"
    /\ signing' = signing \ {c}
    /\ caller' = [caller EXCEPT ![c] = "closed"]
    /\ UNCHANGED <<duty, now, collector, channel, signed>>

---------------------------------------------------------------------------
(* The collector tasks, the slot clock and the cleaner.                    *)

\* Mutant: only a share triggers the reconstruction.
ReceiveRegistrationOnly(r) ==
    /\ collector[r].task = "running"
    /\ \E m \in channel[r] :
          Step(r, register_request(collector[r], m.notify, m.companion), {m})
    /\ UNCHANGED <<duty, now, signing, signed>>

\* RegisterNotifier in signature_collector_loop.
ReceiveRegistration(r) ==
    /\ collector[r].task = "running"
    /\ \E m \in channel[r] :
          Step(r, try_reconstruct(register_request(collector[r], m.notify,
                                                   m.companion)), {m})
    /\ UNCHANGED <<duty, now, signing, signed>>

\* receive_partial_signature_with_companion and PartialSignature in
\* signature_collector_loop.
ReceivePartialSignature(m) ==
    /\ m.packet => ~is_stale_slot
    /\ \E s \in get_or_spawn(m.root) :
          /\ s.task \in {"running", "broken"}
          /\ Step(m.root, IF s.task = "broken" THEN s
                ELSE try_reconstruct(add_partial_signature(s, m)), {})
    /\ UNCHANGED <<duty, now, signing, signed>>

\* SharePubkeyLoader::fetch found the keys, or failed.
SharePubkeysFound(r) ==
    /\ collector[r].task = "fetching"
    /\ Step(r, fallback(collector[r]), {})
    /\ UNCHANGED <<duty, now, signing, signed>>

SharePubkeysMissing(r) ==
    /\ collector[r].task = "fetching"
    /\ Step(r, broken(collector[r]), {})
    /\ UNCHANGED <<duty, now, signing, signed>>

Tick ==
    /\ now < MaxSlot
    /\ now' = now + 1
    /\ UNCHANGED <<duty, collector, channel, caller, signing, signed>>

\* Mutant: entries that somebody waits for are retained.
CleanIdle(r) ==
    /\ collector[r].task # "absent" /\ collector[r].notifiers = {}
    /\ collector[r].for_slot < now - 1
    /\ Step(r, Absent, {})
    /\ UNCHANGED <<duty, now, signing, signed>>

\* remove_stale_entries: the map entry and the task go together.
Clean(r) ==
    /\ collector[r].task # "absent"
    /\ collector[r].for_slot < now - 1
    /\ Step(r, [collector[r] EXCEPT !.task = "absent", !.for_slot = 0,
                    !.registration = {}, !.shares = {}, !.full = {}], {})
    /\ UNCHANGED <<duty, now, signing, signed>>

---------------------------------------------------------------------------

CallerStep(c) ==
    \/ RegisterCollect(c)
    \/ RegisterEnvelope(c)
    \/ RegisterBlock(c)
    \/ RegisterWait(c)
    \/ RefuseRegistration(c)
    \/ Sign(c)

Next ==
    \/ \E c \in Callers :
          \/ Call(c)
          \/ PermitlessFull(c)
          \/ UrgentConsensusFull(c)
          \/ CallerStep(c)
    \/ \E m \in duty.traffic \cup signed : ReceivePartialSignature(m)
    \/ \E r \in Roots :
          \/ ReceiveRegistration(r)
          \/ SharePubkeysFound(r)
          \/ SharePubkeysMissing(r)
          \/ Clean(r)
    \/ Tick

\* The processor runs what it admitted, the tasks take their messages, the
\* database answers, and the cleaner runs in every slot.
Spec ==
    /\ Init
    /\ [][Next]_vars
    /\ \A c \in Callers : WF_vars(CallerStep(c))
    /\ \A r \in Roots : WF_vars(ReceiveRegistration(r)) /\ WF_vars(Clean(r))
    /\ WF_vars(Tick)

---------------------------------------------------------------------------
(* Correctness.                                                            *)

\* The types of callers, channels and collectors.
TypeOK ==
    /\ duty \in Duties
    /\ now \in Nat
    /\ collector \in
          [Roots -> [task : {"absent", "running", "fetching", "broken"},
                     for_slot : Nat,
                     registration : SUBSET Companions,
                     shares : SUBSET CollectedShare,
                     full : SUBSET CollectedShare,
                     notifiers : SUBSET Callers]]
    /\ channel \in
          [Roots -> SUBSET [notify : SUBSET Callers, companion : Companions]]
    /\ caller \in [Callers -> {"idle", "signature", "closed"} \cup Waiting]
    /\ signing \subseteq Callers
    /\ signed \subseteq Shares

\* A collector that is waiting for messages has nothing it could act on: with
\* a registration it holds fewer shares than the threshold, whatever the order
\* in which shares and registrations arrived, and once it has the signature
\* nobody waits for it and no share is kept (the invariant stated at
\* SignatureCollectorState).
QuorumNeverIdle ==
    \A r \in Roots :
        LET s == collector[r]
        IN  s.task = "running" =>
              /\ s.registration # {} => Cardinality(s.shares) < Threshold
              /\ s.full # {} => s.shares = {} /\ s.notifiers = {}

\* A signature is recovered from a threshold of operators' shares, and an
\* envelope's only from shares that came in a packet with the block it was
\* registered for, also when they came before the registration or first came
\* with another block.
EnvelopeFollowsBlock ==
    \A r \in Roots :
        LET s == collector[r]
        IN  /\ \A x \in s.shares \cup s.full :
                  s.registration \subseteq {None} \cup x.companion_roots
            /\ s.full # {} => Cardinality({x.op : x \in s.full}) >= Threshold

\* A good share that a registered collector holds stays until it is part of
\* the signature or the task ends: another operator's bad share, and the
\* fallback it causes, cost no honest operator its share.
HonestSharesKept ==
    [][\A r \in Roots :
          \A x \in {y \in collector[r].shares : y.sig = "good"} :
              (collector[r].registration # {}
                 /\ collector'[r].task \in {"running", "fetching"})
              => \E y \in collector'[r].shares \cup collector'[r].full :
                    y.op = x.op]_vars

\* Whoever asked for a signature gets it or an error, though collectors break
\* and are cleaned up while registrations are on their way to them.
EveryCallAnswered ==
    \A c \in Callers :
        (caller[c] \in Waiting) ~> (caller[c] \in {"signature", "closed"})

===========================================================================
