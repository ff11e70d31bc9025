---------------------- MODULE SignatureCollectorProofs ----------------------
(***************************************************************************)
(* Proofs about the signature collectors, for any cluster, threshold,      *)
(* duties and traffic.  A lemma for each operator of the collector's state *)
(* says what it preserves (Sound) and which shares it keeps (Keeps); the   *)
(* steps of the module then differ only in the operators they apply.       *)
(***************************************************************************)
EXTENDS SignatureCollector, FiniteSetTheorems, TLAPS

States ==
    [task : {"absent", "running", "fetching", "broken"}, for_slot : Nat,
     registration : SUBSET Companions, shares : SUBSET CollectedShare,
     full : SUBSET CollectedShare, notifiers : SUBSET Callers]

OnePerOperator(S) == \A x, y \in S : x.op = y.op => x = y

Operators_of(S) == {x.op : x \in S}

\* What holds of a collector's state at any point of its loop: an operator has
\* one share, every share witnesses the registration, a signature needs a
\* registration and a threshold of operators, and a task that is gone left
\* nothing behind.
Sound(s) ==
    /\ s \in States
    /\ OnePerOperator(s.shares) /\ OnePerOperator(s.full)
    /\ \A x \in s.shares \cup s.full : s.registration \subseteq {None} \cup x.companion_roots
    /\ s.full # {} => /\ s.registration # {} /\ s.shares = {}
                      /\ Cardinality(Operators_of(s.full)) >= Threshold
    /\ s.task \in {"absent", "broken"} => /\ s.registration = {} /\ s.shares = {}
                                          /\ s.full = {}
    /\ s.task = "fetching" => s.registration # {} /\ s.full = {}

\* The loop waits for a message: it could not reconstruct.
Idle(s) == s.task = "running" /\ s.registration # {} => Cardinality(s.shares) < Threshold

\* From s to t no good share is lost while the task goes on.
Keeps(s, t) ==
    s.registration # {} /\ t.task \in {"running", "fetching"} =>
        \A x \in s.shares : x.sig = "good" =>
            \E y \in t.shares \cup t.full : y.op = x.op

---------------------------------------------------------------------------
(* The shares of distinct operators.                                       *)

LEMMA SharesFinite ==
    ASSUME NEW S \in SUBSET CollectedShare, OnePerOperator(S)
    PROVE  /\ IsFiniteSet(S) /\ Cardinality(S) \in Nat
           /\ Cardinality(Operators_of(S)) = Cardinality(S)
<1> DEFINE f == [x \in S |-> x.op]
<1>1. \A x \in S : x.op \in Operators
  BY DEF CollectedShare
<1>2. f \in Injection(S, Operators)
  BY <1>1 DEF Injection, IsInjective, OnePerOperator
<1>3. IsFiniteSet(S)
  BY <1>2, FS_Injection, ClusterAssumption
<1>4. f \in Bijection(S, Operators_of(S))
  BY DEF Bijection, Injection, Surjection, IsInjective, OnePerOperator, Operators_of
<1>5. Cardinality(Operators_of(S)) = Cardinality(S)
  BY <1>3, <1>4, FS_Bijection DEF ExistsBijection
<1> QED
  BY <1>3, <1>5, FS_CardinalityType

LEMMA SubsetUnique ==
    ASSUME NEW S, OnePerOperator(S), NEW T \in SUBSET S
    PROVE  OnePerOperator(T)
BY DEF OnePerOperator

---------------------------------------------------------------------------
(* The operators of a collector's state.                                   *)

LEMMA AbsentSound == Sound(Absent)
BY DEF Absent, Sound, States, OnePerOperator

LEMMA BrokenSound ==
    ASSUME NEW s \in States
    PROVE  /\ Sound(broken(s)) /\ broken(s).task = "broken"
           /\ broken(s).notifiers = s.notifiers /\ broken(s).full = {}
BY DEF broken, Absent, Sound, States, OnePerOperator

\* A state that keeps shares, registration and signature is as sound.
LEMMA NotifiersSound ==
    ASSUME NEW s, Sound(s), NEW N \in SUBSET Callers
    PROVE  Sound([s EXCEPT !.notifiers = N])
<1>1. s \in States
  BY DEF Sound
<1>2. [s EXCEPT !.notifiers = N] \in States
  BY <1>1 DEF States
<1> DEFINE t == [s EXCEPT !.notifiers = N]
<1>3. /\ t.task = s.task /\ t.registration = s.registration /\ t.shares = s.shares
      /\ t.full = s.full
  BY <1>1 DEF States
<1> HIDE DEF t
<1>4. t \in States
  BY <1>2 DEF t
<1>5. Sound(t)
  BY <1>3, <1>4 DEF Sound
<1> QED
  BY <1>5 DEF t

LEMMA SpawnSound ==
    ASSUME NEW r \in Roots, Sound(collector[r]), NEW s \in get_or_spawn(r)
    PROVE  /\ Sound(s) /\ s.task # "absent"
           /\ s = collector[r] \/ (/\ collector[r].task = "absent" /\ s.registration = {}
                                   /\ s.full = {} /\ s.notifiers = {})
<1>1. CASE collector[r].task = "absent"
  <2>1. PICK t \in {"running", "broken"} : s = [Absent EXCEPT !.task = t, !.for_slot = DutySlot]
    BY <1>1 DEF get_or_spawn
  <2> QED
    BY <1>1, <2>1, JobAssumption DEF Absent, Sound, States, OnePerOperator
<1>2. CASE collector[r].task # "absent"
  BY <1>2 DEF get_or_spawn
<1> QED
  BY <1>1, <1>2

LEMMA RegisterSound ==
    ASSUME NEW s, Sound(s), s.task = "running", NEW N \in SUBSET Callers, NEW c \in Companions
    PROVE  LET t == register_request(s, N, c)
           IN  /\ Sound(t) /\ t.task \in {"running", "broken"} /\ Keeps(s, t)
<1>1. s \in States /\ s.notifiers \cup N \in SUBSET Callers
  BY DEF Sound, States
<1> DEFINE w == [s EXCEPT !.notifiers = s.notifiers \cup N]
<1>2. /\ w \in States /\ Sound(w) /\ w.task = s.task /\ w.shares = s.shares
      /\ w.registration = s.registration /\ w.full = s.full
  BY <1>1, NotifiersSound DEF States
<1>3. CASE s.registration = {}
  <2> DEFINE S == {x \in s.shares : c # None => c \in x.companion_roots}
             t == [s EXCEPT !.registration = {c}, !.notifiers = s.notifiers \cup N, !.shares = S]
  <2>1. register_request(s, N, c) = t
    BY <1>3 DEF register_request
  <2>2. S \in SUBSET s.shares /\ \A x \in S : {c} \subseteq {None} \cup x.companion_roots
    OBVIOUS
  <2>3. S \in SUBSET CollectedShare /\ OnePerOperator(S)
    BY <1>1, <2>2, SubsetUnique DEF Sound, States
  <2> HIDE DEF S
  <2>4. /\ t \in States /\ t.task = "running" /\ t.shares = S /\ t.registration = {c}
        /\ t.full = s.full
    BY <1>1, <2>3 DEF States
  <2>5. s.full = {}
    BY <1>3 DEF Sound
  <2> HIDE DEF t
  <2>6. Sound(t)
    BY <2>2, <2>3, <2>4, <2>5 DEF Sound, OnePerOperator
  <2> QED
    BY <1>3, <2>1, <2>4, <2>6 DEF Keeps
<1>4. CASE s.registration # {} /\ c \in s.registration
  <2>1. register_request(s, N, c) = w
    BY <1>4 DEF register_request
  <2> HIDE DEF w
  <2> QED
    BY <1>2, <2>1 DEF Keeps
<1>5. CASE s.registration # {} /\ c \notin s.registration
  <2>1. register_request(s, N, c) = broken(w)
    BY <1>5 DEF register_request
  <2> HIDE DEF w
  <2> QED
    BY <1>2, <2>1, BrokenSound DEF Keeps
<1> QED
  BY <1>3, <1>4, <1>5

LEMMA WitnessKeepsShare ==
    ASSUME NEW x \in CollectedShare, NEW m \in Shares
    PROVE  /\ add_witness(x, m) \in CollectedShare
           /\ add_witness(x, m).op = x.op /\ add_witness(x, m).sig = x.sig
           /\ x.companion_roots \subseteq add_witness(x, m).companion_roots
BY DEF add_witness, CollectedShare, Shares, Companions

LEMMA AddSound ==
    ASSUME NEW s, Sound(s), s.task = "running", NEW m \in Shares
    PROVE  LET t == add_partial_signature(s, m)
           IN  /\ Sound(t) /\ t.task = "running" /\ t.registration = s.registration
               /\ t.notifiers = s.notifiers /\ Keeps(s, t)
<1>1. s \in States /\ s.shares \in SUBSET CollectedShare
  BY DEF Sound, States
<1>2. ASSUME NEW S \in SUBSET CollectedShare, OnePerOperator(S), s.full = {},
             \A x \in S : s.registration \subseteq {None} \cup x.companion_roots,
             \A x \in s.shares : \E y \in S : y.op = x.op
      PROVE  LET t == [s EXCEPT !.shares = S]
             IN  /\ Sound(t) /\ t.task = "running" /\ t.registration = s.registration
                 /\ t.notifiers = s.notifiers /\ Keeps(s, t)
  <2> DEFINE t == [s EXCEPT !.shares = S]
  <2>1. /\ t \in States /\ t.task = "running" /\ t.shares = S
        /\ t.registration = s.registration /\ t.full = {} /\ t.notifiers = s.notifiers
    BY <1>1, <1>2 DEF States
  <2> HIDE DEF t
  <2>2. Sound(t) /\ Keeps(s, t)
    BY <1>2, <2>1 DEF Sound, Keeps, OnePerOperator
  <2> QED
    BY <2>1, <2>2 DEF t
<1>3. CASE s.full # {} \/ ~(s.registration \subseteq {None, m.companion})
  BY <1>3 DEF add_partial_signature, Keeps
<1>4. CASE /\ s.full = {} /\ s.registration \subseteq {None, m.companion}
           /\ \E x \in s.shares : x.op = m.op
  <2> DEFINE S == {IF x.op = m.op THEN add_witness(x, m) ELSE x : x \in s.shares}
  <2>1. add_partial_signature(s, m) = [s EXCEPT !.shares = S]
    BY <1>4 DEF add_partial_signature
  <2>2. ASSUME NEW x \in s.shares
        PROVE  \E y \in S : y.op = x.op
    BY <1>1, WitnessKeepsShare
  <2>3. ASSUME NEW y \in S
        PROVE  /\ y \in CollectedShare
               /\ \E x \in s.shares : /\ y.op = x.op /\ x.companion_roots \subseteq y.companion_roots
                                      /\ y = IF x.op = m.op THEN add_witness(x, m) ELSE x
    BY <1>1, WitnessKeepsShare
  <2> HIDE DEF S
  <2>4. OnePerOperator(S)
    <3> SUFFICES ASSUME NEW y \in S, NEW z \in S, y.op = z.op
                 PROVE  y = z
      BY DEF OnePerOperator
    <3>1. PICK a \in s.shares : /\ y.op = a.op
                                /\ y = IF a.op = m.op THEN add_witness(a, m) ELSE a
      BY <2>3
    <3>2. PICK b \in s.shares : /\ z.op = b.op
                                /\ z = IF b.op = m.op THEN add_witness(b, m) ELSE b
      BY <2>3
    <3>3. a = b
      BY <3>1, <3>2 DEF Sound, OnePerOperator
    <3> QED
      BY <3>1, <3>2, <3>3
  <2>5. \A y \in S : s.registration \subseteq {None} \cup y.companion_roots
    BY <2>3 DEF Sound
  <2>6. S \in SUBSET CollectedShare
    BY <2>3
  <2> QED
    BY <1>2, <1>4, <2>1, <2>2, <2>4, <2>5, <2>6
<1>5. CASE /\ s.full = {} /\ s.registration \subseteq {None, m.companion}
           /\ ~\E x \in s.shares : x.op = m.op
  <2> DEFINE n == [op |-> m.op, sig |-> m.sig, companion_roots |-> {m.companion} \ {None}]
             S == s.shares \cup {n}
  <2>1. add_partial_signature(s, m) = [s EXCEPT !.shares = S]
    BY <1>5 DEF add_partial_signature
  <2>2. n \in CollectedShare /\ n.op = m.op /\ n.companion_roots = {m.companion} \ {None}
    BY DEF CollectedShare, Shares, Companions
  <2>3. s.registration \subseteq {None} \cup n.companion_roots
    BY <1>5, <2>2
  <2> HIDE DEF n
  <2>4. OnePerOperator(S)
    BY <1>5, <2>2 DEF Sound, OnePerOperator
  <2>5. /\ S \in SUBSET CollectedShare /\ \A x \in s.shares : \E y \in S : y.op = x.op
        /\ \A x \in S : s.registration \subseteq {None} \cup x.companion_roots
    BY <1>1, <2>2, <2>3 DEF Sound
  <2> HIDE DEF S
  <2> QED
    BY <1>2, <1>5, <2>1, <2>4, <2>5
<1> QED
  BY <1>3, <1>4, <1>5

LEMMA ReconstructSound ==
    ASSUME NEW s, Sound(s), s.task = "running"
    PROVE  LET t == try_reconstruct(s)
           IN  /\ Sound(t) /\ Idle(t) /\ t.task \in {"running", "fetching"}
               /\ t.registration = s.registration /\ t.notifiers = s.notifiers
               /\ \A x \in s.shares \cup s.full : x \in t.shares \cup t.full
<1>1. s \in States /\ Threshold \in Nat \ {0}
  BY ClusterAssumption DEF Sound
<1>2. /\ IsFiniteSet(s.shares) /\ Cardinality(s.shares) \in Nat
      /\ Cardinality(Operators_of(s.shares)) = Cardinality(s.shares)
  BY SharesFinite DEF Sound, States
<1>3. Cardinality({}) = 0
  BY FS_EmptySet
<1>4. CASE \/ s.full # {} \/ s.registration = {} \/ Cardinality(s.shares) < Threshold
  <2>1. try_reconstruct(s) = s
    BY <1>4 DEF try_reconstruct
  <2>2. s.registration # {} => Cardinality(s.shares) < Threshold
    BY <1>1, <1>3, <1>4 DEF Sound
  <2> QED
    BY <2>1, <2>2 DEF Idle
<1>5. CASE /\ ~(\/ s.full # {} \/ s.registration = {} \/ Cardinality(s.shares) < Threshold)
           /\ combines(s.shares)
  <2> DEFINE t == [s EXCEPT !.full = s.shares, !.shares = {}]
  <2>1. try_reconstruct(s) = t
    BY <1>5 DEF try_reconstruct
  <2>2. /\ t \in States /\ t.task = "running" /\ t.shares = {} /\ t.full = s.shares
        /\ t.registration = s.registration /\ t.notifiers = s.notifiers
    BY <1>1 DEF States
  <2> HIDE DEF t
  <2>3. Cardinality(Operators_of(t.full)) >= Threshold
    BY <1>2, <2>2, <1>5 DEF combines
  <2>4. Sound(t)
    BY <1>5, <2>2, <2>3 DEF Sound, OnePerOperator
  <2>5. Idle(t)
    BY <1>1, <1>3, <2>2 DEF Idle
  <2> QED
    BY <1>5, <2>1, <2>2, <2>4, <2>5
<1>6. CASE /\ ~(\/ s.full # {} \/ s.registration = {} \/ Cardinality(s.shares) < Threshold)
           /\ ~combines(s.shares)
  <2> DEFINE t == [s EXCEPT !.task = "fetching"]
  <2>1. try_reconstruct(s) = t
    BY <1>6 DEF try_reconstruct
  <2>2. /\ t \in States /\ t.task = "fetching" /\ t.shares = s.shares /\ t.full = s.full
        /\ t.registration = s.registration /\ t.notifiers = s.notifiers
    BY <1>1 DEF States
  <2> HIDE DEF t
  <2>3. Sound(t) /\ Idle(t)
    BY <1>6, <2>2 DEF Sound, Idle
  <2> QED
    BY <2>1, <2>2, <2>3
<1> QED
  BY <1>4, <1>5, <1>6

LEMMA FallbackSound ==
    ASSUME NEW s, Sound(s), s.task = "fetching"
    PROVE  LET t == fallback(s)
           IN  /\ Sound(t) /\ Idle(t) /\ t.task \in {"running", "fetching", "broken"}
               /\ Keeps(s, t)
<1> DEFINE S == {x \in s.shares : x.sig = "good"}
           v == [s EXCEPT !.task = "running", !.shares = S]
<1>1. s \in States /\ s.registration # {} /\ s.full = {}
  BY DEF Sound
<1>2. remove_invalid_shares([s EXCEPT !.task = "running"]) = v
  BY <1>1 DEF remove_invalid_shares, States
<1>3. S \in SUBSET s.shares
  OBVIOUS
<1>4. S \in SUBSET CollectedShare /\ OnePerOperator(S) /\ \A x \in s.shares : x.sig = "good" => x \in S
  BY <1>1, <1>3, SubsetUnique DEF Sound, States
<1>5. \A x \in S : s.registration \subseteq {None} \cup x.companion_roots
  BY <1>3 DEF Sound
<1> HIDE DEF S
<1>6. /\ v \in States /\ v.task = "running" /\ v.shares = S /\ v.full = {}
      /\ v.registration = s.registration
  BY <1>1, <1>4 DEF States
<1> HIDE DEF v
<1>7. Sound(v)
  BY <1>4, <1>5, <1>6 DEF Sound, OnePerOperator
<1>8. fallback(s) = IF v.shares = s.shares THEN broken(s)
                    ELSE IF Cardinality(v.shares) < Threshold THEN v
                    ELSE IF combines(v.shares) THEN try_reconstruct(v)
                    ELSE broken(s)
  BY <1>2 DEF fallback
<1>9. Sound(broken(s)) /\ Idle(broken(s)) /\ broken(s).task = "broken" /\ Keeps(s, broken(s))
  BY <1>1, BrokenSound DEF Idle, Keeps
<1>10. Cardinality(v.shares) < Threshold => Idle(v)
  BY DEF Idle
<1>11. Keeps(s, v)
  BY <1>4, <1>6 DEF Keeps
<1>12. LET t == try_reconstruct(v)
       IN  /\ Sound(t) /\ Idle(t) /\ t.task \in {"running", "fetching"} /\ Keeps(s, t)
  <2> DEFINE t == try_reconstruct(v)
  <2>1. /\ Sound(t) /\ Idle(t) /\ t.task \in {"running", "fetching"}
        /\ \A x \in v.shares \cup v.full : x \in t.shares \cup t.full
    BY <1>6, <1>7, ReconstructSound
  <2> HIDE DEF t
  <2>2. Keeps(s, t)
    BY <1>4, <1>6, <2>1 DEF Keeps
  <2> QED
    BY <2>1, <2>2 DEF t
<1> QED
  BY <1>6, <1>7, <1>8, <1>9, <1>10, <1>11, <1>12

---------------------------------------------------------------------------
(* The steps.                                                              *)

\* The invariant: between two messages every collector is sound and idle, and
\* one that has the signature has told everyone.
CollectorInv ==
    \A r \in Roots : /\ Sound(collector[r]) /\ Idle(collector[r])
                     /\ collector[r].full # {} => collector[r].notifiers = {}

\* What no step takes from a collector.
SharesKept == \A r \in Roots : Keeps(collector[r], collector'[r])

LEMMA KeepsItself ==
    ASSUME NEW s, NEW N, s \in States
    PROVE  Keeps(s, s) /\ Keeps(s, [s EXCEPT !.notifiers = N])
BY DEF Keeps, States

\* A step of one task that ends in a sound and idle state.
LEMMA TaskStep ==
    ASSUME TypeOK, CollectorInv, NEW r \in Roots, NEW s, Sound(s), Idle(s),
           Keeps(collector[r], s), NEW taken, Step(r, s, taken),
           UNCHANGED <<duty, now, signing, signed>>
    PROVE  TypeOK' /\ CollectorInv' /\ SharesKept
<1> DEFINE N == IF s.task \in {"broken", "absent"} \/ s.full # {} THEN {} ELSE s.notifiers
           t == [s EXCEPT !.notifiers = N]
<1>1. s \in States /\ s.notifiers \in SUBSET Callers
  BY DEF Sound, States
<1>2. N \in SUBSET Callers /\ (s.full # {} => N = {})
  BY <1>1
<1>3. collector' = [collector EXCEPT ![r] = t]
  BY DEF Step
<1> HIDE DEF N
<1>4. /\ t \in States /\ Sound(t) /\ t.task = s.task /\ t.registration = s.registration
      /\ t.shares = s.shares /\ t.full = s.full /\ t.notifiers = N
  BY <1>1, <1>2, NotifiersSound DEF States
<1> HIDE DEF t
<1>5. collector \in [Roots -> States]
  BY DEF TypeOK, States
<1>6. /\ collector' \in [Roots -> States] /\ collector'[r] = t
      /\ \A x \in Roots \ {r} : collector'[x] = collector[x]
  BY <1>3, <1>4, <1>5
<1>7. CollectorInv'
  BY <1>2, <1>4, <1>6 DEF CollectorInv, Idle
<1>8. SharesKept
  <2>1. Keeps(collector[r], t)
    BY <1>4 DEF Keeps
  <2> QED
    BY <1>5, <1>6, <2>1, KeepsItself DEF SharesKept
<1>9. channel' \in [Roots -> SUBSET [notify : SUBSET Callers, companion : Companions]]
  BY DEF Step, TypeOK
<1>10. caller' \in [Callers -> {"idle", "signature", "closed"} \cup Waiting]
  <2>1. \A c \in Callers : \A x : answer(c, x) \in {"idle", "signature", "closed"} \cup Waiting
    BY DEF answer, TypeOK
  <2> QED
    BY <2>1 DEF Step
<1>11. TypeOK'
  BY <1>6, <1>9, <1>10 DEF TypeOK, States
<1> QED
  BY <1>7, <1>8, <1>11

LEMMA RegistrationStep ==
    ASSUME TypeOK, CollectorInv, NEW r \in Roots, ReceiveRegistration(r)
    PROVE  TypeOK' /\ CollectorInv' /\ SharesKept
<1>1. PICK m \in channel[r] :
         Step(r, try_reconstruct(register_request(collector[r], m.notify, m.companion)), {m})
  BY DEF ReceiveRegistration
<1>2. m.notify \in SUBSET Callers /\ m.companion \in Companions
  BY DEF TypeOK
<1> DEFINE s == collector[r]
           u == register_request(s, m.notify, m.companion)
           t == try_reconstruct(u)
<1>3. Sound(s) /\ s.task = "running"
  BY DEF CollectorInv, ReceiveRegistration
<1>4. Sound(u) /\ u.task \in {"running", "broken"} /\ Keeps(s, u)
  BY <1>2, <1>3, RegisterSound
<1>5. Step(r, t, {m}) /\ UNCHANGED <<duty, now, signing, signed>>
  BY <1>1 DEF ReceiveRegistration
<1> HIDE DEF u, s
<1>6. CASE u.task = "running"
  <2>1. /\ Sound(t) /\ Idle(t) /\ t.task \in {"running", "fetching"}
        /\ t.registration = u.registration
        /\ \A x \in u.shares \cup u.full : x \in t.shares \cup t.full
    BY <1>4, <1>6, ReconstructSound
  <2> HIDE DEF t
  <2>2. Keeps(s, t)
    BY <1>4, <1>6, <2>1 DEF Keeps
  <2> QED
    BY <1>5, <2>1, <2>2, TaskStep DEF s
<1>7. CASE u.task = "broken"
  <2>1. t = u
    BY <1>4, <1>7 DEF Sound, try_reconstruct
  <2>2. Idle(u)
    BY <1>7 DEF Idle
  <2> HIDE DEF t
  <2> QED
    BY <1>4, <1>5, <2>1, <2>2, TaskStep DEF s
<1> QED
  BY <1>4, <1>6, <1>7

LEMMA ShareStep ==
    ASSUME TypeOK, CollectorInv, NEW m \in duty.traffic \cup signed, ReceivePartialSignature(m)
    PROVE  TypeOK' /\ CollectorInv' /\ SharesKept
<1>1. m \in Shares /\ m.root \in Roots
  BY JobAssumption DEF TypeOK, Shares
<1> DEFINE r == m.root
<1>2. PICK s \in get_or_spawn(r) :
         /\ s.task \in {"running", "broken"}
         /\ Step(r, IF s.task = "broken" THEN s
                    ELSE try_reconstruct(add_partial_signature(s, m)), {})
  BY DEF ReceivePartialSignature
<1>3. UNCHANGED <<duty, now, signing, signed>>
  BY DEF ReceivePartialSignature
<1>4. Sound(s) /\ (s = collector[r] \/ collector[r].task = "absent")
  BY <1>1, <1>2, SpawnSound DEF CollectorInv
<1>5. ASSUME NEW t, Keeps(s, t)
      PROVE  Keeps(collector[r], t)
  <2>1. collector[r].task = "absent" => collector[r].registration = {}
    BY <1>1 DEF CollectorInv, Sound
  <2> QED
    BY <1>4, <1>5, <2>1 DEF Keeps
<1> HIDE DEF r
<1>6. r \in Roots
  BY <1>1 DEF r
<1>7. CASE s.task = "broken"
  <2>1. Idle(s) /\ Keeps(s, s) /\ Step(r, s, {})
    BY <1>2, <1>4, <1>7, KeepsItself DEF Idle, Sound
  <2> QED
    BY <1>3, <1>4, <1>5, <1>6, <2>1, TaskStep
<1>8. CASE s.task = "running"
  <2> DEFINE u == add_partial_signature(s, m)
             t == try_reconstruct(u)
  <2>1. Sound(u) /\ u.task = "running" /\ Keeps(s, u)
    BY <1>1, <1>4, <1>8, AddSound
  <2> HIDE DEF u
  <2>2. /\ Sound(t) /\ Idle(t) /\ t.task \in {"running", "fetching"}
        /\ \A x \in u.shares \cup u.full : x \in t.shares \cup t.full
    BY <2>1, ReconstructSound
  <2>3. Step(r, t, {})
    BY <1>2, <1>8 DEF u
  <2> HIDE DEF t
  <2>4. Keeps(s, t)
    BY <2>1, <2>2 DEF Keeps
  <2> QED
    BY <1>3, <1>5, <1>6, <2>2, <2>3, <2>4, TaskStep
<1> QED
  BY <1>2, <1>7, <1>8

LEMMA EndStep ==
    ASSUME TypeOK, CollectorInv, NEW r \in Roots,
           SharePubkeysFound(r) \/ SharePubkeysMissing(r) \/ Clean(r)
    PROVE  TypeOK' /\ CollectorInv' /\ SharesKept
<1>0. UNCHANGED <<duty, now, signing, signed>> /\ Sound(collector[r]) /\ collector[r] \in States
  BY DEF SharePubkeysFound, SharePubkeysMissing, Clean, CollectorInv, Sound
<1>1. CASE SharePubkeysFound(r)
  <2>1. collector[r].task = "fetching" /\ Step(r, fallback(collector[r]), {})
    BY <1>1 DEF SharePubkeysFound
  <2>2. LET t == fallback(collector[r]) IN Sound(t) /\ Idle(t) /\ Keeps(collector[r], t)
    BY <1>0, <2>1, FallbackSound
  <2> QED
    BY <1>0, <2>1, <2>2, TaskStep
<1>2. CASE SharePubkeysMissing(r)
  <2>1. Step(r, broken(collector[r]), {})
    BY <1>2 DEF SharePubkeysMissing
  <2>2. LET t == broken(collector[r]) IN Sound(t) /\ Idle(t) /\ Keeps(collector[r], t)
    BY <1>0, BrokenSound DEF Idle, Keeps
  <2> QED
    BY <1>0, <2>1, <2>2, TaskStep
<1>3. CASE Clean(r)
  <2> DEFINE t == [collector[r] EXCEPT !.task = "absent", !.for_slot = 0,
                      !.registration = {}, !.shares = {}, !.full = {}]
  <2>1. Step(r, t, {})
    BY <1>3 DEF Clean
  <2>2. /\ t \in States /\ t.task = "absent" /\ t.registration = {} /\ t.shares = {}
        /\ t.full = {}
    BY <1>0 DEF States
  <2> HIDE DEF t
  <2>3. Sound(t) /\ Idle(t) /\ Keeps(collector[r], t)
    BY <2>2 DEF Sound, Idle, Keeps, OnePerOperator
  <2> QED
    BY <1>0, <2>1, <2>3, TaskStep
<1> QED
  BY <1>1, <1>2, <1>3

\* The registration of a caller may spawn the task, and changes no other.
LEMMA RegisterStep ==
    ASSUME TypeOK, CollectorInv, NEW c \in Callers, NEW r \in Roots, NEW N \in SUBSET Callers,
           NEW companion \in Companions, NEW next \in Waiting,
           Register(c, r, N, companion, next),
           UNCHANGED <<duty, now, signed>>, signing' \subseteq Callers
    PROVE  TypeOK' /\ CollectorInv' /\ SharesKept
<1>1. PICK s \in get_or_spawn(r) : collector' = [collector EXCEPT ![r] = s]
  BY DEF Register
<1>2. /\ Sound(s)
      /\ s = collector[r] \/ (/\ collector[r].task = "absent" /\ s.registration = {}
                              /\ s.full = {} /\ s.notifiers = {})
  BY SpawnSound DEF CollectorInv
<1>3. collector \in [Roots -> States] /\ s \in States
  BY <1>2 DEF TypeOK, States, Sound
<1>4. /\ collector' \in [Roots -> States] /\ collector'[r] = s
      /\ \A x \in Roots \ {r} : collector'[x] = collector[x]
  BY <1>1, <1>3
<1>5. Idle(s) /\ (s.full # {} => s.notifiers = {})
  BY <1>2 DEF CollectorInv, Idle
<1>6. CollectorInv'
  BY <1>2, <1>4, <1>5 DEF CollectorInv
<1>7. Keeps(collector[r], s)
  <2>1. collector[r].task = "absent" => collector[r].registration = {}
    BY DEF CollectorInv, Sound
  <2> QED
    BY <1>2, <1>3, <2>1, KeepsItself DEF Keeps
<1>8. SharesKept
  BY <1>3, <1>4, <1>7, KeepsItself DEF SharesKept
<1>9. caller' \in [Callers -> {"idle", "signature", "closed"} \cup Waiting]
  BY DEF Register, TypeOK
<1>10. channel' \in [Roots -> SUBSET [notify : SUBSET Callers, companion : Companions]]
  BY DEF Register, TypeOK
<1> QED
  BY <1>4, <1>6, <1>8, <1>9, <1>10 DEF TypeOK, States

LEMMA JobType ==
    ASSUME TypeOK, NEW c \in Callers
    PROVE  /\ duty.job[c] \in Jobs
           /\ duty.job[c].root \in Roots /\ duty.job[c].root \in Companions
           /\ duty.job[c].envelope \in Companions /\ duty.job[c].companion \in Companions
           /\ duty.job[c].envelope # None => duty.job[c].envelope \in Roots
           /\ own_shares(c) \subseteq Shares
<1>1. duty.job[c] \in Jobs
  BY JobAssumption DEF TypeOK
<1>2. /\ duty.job[c].root \in Roots /\ duty.job[c].root \in Companions /\ None \in Companions
      /\ duty.job[c].envelope \in Companions /\ duty.job[c].companion \in Companions
      /\ duty.job[c].envelope # None => duty.job[c].envelope \in Roots
  BY <1>1 DEF Jobs, Companions
<1>3. ASSUME NEW r \in Roots, NEW k \in Companions, NEW p \in BOOLEAN
      PROVE  own_share(r, k, p) \in Shares
  BY ClusterAssumption DEF own_share, Shares
<1>4. own_shares(c) \subseteq Shares
  BY <1>2, <1>3 DEF own_shares
<1> QED
  BY <1>1, <1>2, <1>4

\* No task is touched.
LEMMA CallerOnly ==
    ASSUME TypeOK, CollectorInv, UNCHANGED <<duty, collector, channel>>, now' \in Nat,
           caller' \in [Callers -> {"idle", "signature", "closed"} \cup Waiting],
           signing' \subseteq Callers, signed' \subseteq Shares
    PROVE  TypeOK' /\ CollectorInv' /\ SharesKept
<1>1. collector \in [Roots -> States]
  BY DEF TypeOK, States
<1>2. SharesKept
  BY <1>1, KeepsItself DEF SharesKept
<1> QED
  BY <1>2 DEF TypeOK, CollectorInv

LEMMA CallerSteps ==
    ASSUME TypeOK, CollectorInv, NEW c \in Callers,
           Call(c) \/ PermitlessFull(c) \/ UrgentConsensusFull(c) \/ CallerStep(c)
    PROVE  TypeOK' /\ CollectorInv' /\ SharesKept
<1>0. /\ duty.job[c].root \in Roots /\ duty.job[c].root \in Companions /\ None \in Companions
      /\ duty.job[c].companion \in Companions
      /\ duty.job[c].envelope # None => duty.job[c].envelope \in Roots
      /\ own_shares(c) \subseteq Shares /\ {c} \in SUBSET Callers /\ {} \in SUBSET Callers
      /\ "waiting" \in Waiting /\ "envelope_registered" \in Waiting
  BY JobType DEF Companions, Waiting
<1>1. CASE RegisterCollect(c) \/ RegisterBlock(c)
  <2>1. /\ Register(c, duty.job[c].root, {c}, None, "waiting")
        /\ UNCHANGED <<duty, now, signed>> /\ signing' \subseteq Callers
    BY <1>1 DEF RegisterCollect, RegisterBlock, TypeOK
  <2> QED
    BY <1>0, <2>1, RegisterStep
<1>2. CASE RegisterEnvelope(c)
  <2>1. /\ Register(c, duty.job[c].envelope, {}, duty.job[c].root, "envelope_registered")
        /\ UNCHANGED <<duty, now, signed>> /\ signing' \subseteq Callers
        /\ duty.job[c].envelope \in Roots
    BY <1>0, <1>2 DEF RegisterEnvelope, TypeOK
  <2> QED
    BY <1>0, <2>1, RegisterStep
<1>3. CASE RegisterWait(c)
  <2>1. /\ Register(c, duty.job[c].root, {c}, duty.job[c].companion, "waiting")
        /\ UNCHANGED <<duty, now, signed>> /\ signing' \subseteq Callers
    BY <1>3 DEF RegisterWait, TypeOK
  <2> QED
    BY <1>0, <2>1, RegisterStep
<1>4. CASE \/ Call(c) \/ PermitlessFull(c) \/ UrgentConsensusFull(c)
           \/ RefuseRegistration(c) \/ Sign(c)
  <2>1. UNCHANGED <<duty, collector, channel, now>>
    BY <1>4 DEF Call, PermitlessFull, UrgentConsensusFull, RefuseRegistration, Sign
  <2>2. caller' \in [Callers -> {"idle", "signature", "closed"} \cup Waiting]
    BY <1>4 DEF Call, PermitlessFull, UrgentConsensusFull, RefuseRegistration, Sign,
         TypeOK, Waiting
  <2>3. signing' \subseteq Callers /\ signed' \subseteq Shares
    BY <1>0, <1>4 DEF Call, PermitlessFull, UrgentConsensusFull, RefuseRegistration, Sign,
         TypeOK
  <2>4. now' \in Nat
    BY <2>1 DEF TypeOK
  <2> QED
    BY <2>1, <2>2, <2>3, <2>4, CallerOnly
<1> QED
  BY <1>1, <1>2, <1>3, <1>4 DEF CallerStep

LEMMA CollectorStep ==
    ASSUME TypeOK, CollectorInv, [Next]_vars
    PROVE  TypeOK' /\ CollectorInv' /\ SharesKept
<1>1. CASE Tick \/ UNCHANGED vars
  <2>1. UNCHANGED <<duty, collector, channel, caller, signing, signed>> /\ now' \in Nat
    BY <1>1 DEF Tick, vars, TypeOK
  <2> QED
    BY <2>1, CallerOnly DEF TypeOK
<1> QED
  BY <1>1, CallerSteps, ShareStep, RegistrationStep, EndStep DEF Next

LEMMA CollectorInitial == Init => TypeOK /\ CollectorInv
<1> SUFFICES ASSUME Init PROVE TypeOK /\ CollectorInv
  OBVIOUS
<1>1. Absent \in States /\ Sound(Absent) /\ Idle(Absent) /\ Absent.full = {}
  BY AbsentSound DEF Absent, Sound, Idle
<1>2. collector \in [Roots -> States] /\ \A r \in Roots : collector[r] = Absent
  BY <1>1 DEF Init
<1>3. CollectorInv
  BY <1>1, <1>2 DEF CollectorInv
<1>4. TypeOK
  BY <1>2, JobAssumption DEF Init, TypeOK, States, Waiting
<1> QED
  BY <1>3, <1>4

LEMMA CollectorInduction == Spec => [](TypeOK /\ CollectorInv)
<1>1. TypeOK /\ CollectorInv /\ [Next]_vars => (TypeOK /\ CollectorInv)'
  BY CollectorStep
<1> QED
  BY <1>1, CollectorInitial, PTL DEF Spec

---------------------------------------------------------------------------
(* The theorems.                                                           *)

\* Callers, channels and collectors keep their types.
THEOREM CollectorTypesHold == Spec => []TypeOK
BY CollectorInduction, PTL

\* A collector that waits for messages could not reconstruct: after every
\* message signature_collector_loop ends below the threshold, without a
\* registration, or with the signature sent to everyone that asked.
THEOREM QuorumNeverIdleHolds == Spec => []QuorumNeverIdle
<1>1. CollectorInv => QuorumNeverIdle
  BY DEF CollectorInv, Sound, Idle, QuorumNeverIdle
<1> QED
  BY <1>1, CollectorInduction, PTL

\* A signature comes from the shares of a threshold of distinct operators, and
\* an envelope's from shares that came with the block it was registered for.
THEOREM EnvelopeFollowsBlockHolds == Spec => []EnvelopeFollowsBlock
<1>1. CollectorInv => EnvelopeFollowsBlock
  BY DEF CollectorInv, Sound, Operators_of, EnvelopeFollowsBlock
<1> QED
  BY <1>1, CollectorInduction, PTL

\* A good share of a registered collector is only given up with the task: bad
\* shares, second witnesses and the fallback leave it.
THEOREM HonestSharesKeptHolds == Spec => HonestSharesKept
<1>1. /\ TypeOK /\ CollectorInv /\ [Next]_vars
      => [\A r \in Roots :
             \A x \in {y \in collector[r].shares : y.sig = "good"} :
                 (collector[r].registration # {}
                    /\ collector'[r].task \in {"running", "fetching"})
                 => \E y \in collector'[r].shares \cup collector'[r].full :
                       y.op = x.op]_vars
  <2> SUFFICES ASSUME TypeOK, CollectorInv, [Next]_vars
               PROVE  \A r \in Roots :
                         \A x \in {y \in collector[r].shares : y.sig = "good"} :
                            (collector[r].registration # {}
                               /\ collector'[r].task \in {"running", "fetching"})
                            => \E y \in collector'[r].shares \cup collector'[r].full :
                                  y.op = x.op
    OBVIOUS
  <2>1. SharesKept
    BY CollectorStep
  <2> QED
    BY <2>1 DEF SharesKept, Keeps
<1> QED
  BY <1>1, CollectorInduction, PTL DEF Spec, HonestSharesKept

=============================================================================
