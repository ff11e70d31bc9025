-------------------------- MODULE EventSyncProofs --------------------------
(***************************************************************************)
(* Proofs about the contract sync.  Sound is what every step keeps,        *)
(* whatever fails: the batches of a round, the threads and the one         *)
(* connection fit together, and memory, once the committed block is        *)
(* published, mirrors the tables.  InStep and InReplay are what holds as   *)
(* long as no processor is left running: the blocks are committed in the   *)
(* order of the chain, each of them once, so that the tables hold what one *)
(* pass over the chain gives.  ExitsOK, OwnOK and FlagsOK follow the exit  *)
(* requests, the operator's own part of memory and the liquidated flags.   *)
(*                                                                         *)
(* What the recursive functions of the model compute is proved by          *)
(* induction on sets of numbers (NatInductionOnSet), first that they       *)
(* satisfy their defining equations.                                       *)
(***************************************************************************)
EXTENDS EventSync, FiniteSetTheorems, WellFoundedInduction, TLAPS

\* The context process_block_logs begins with.
Begun(d) == [tx |-> [disk |-> d, updates |-> <<>>], index_sync |-> {}, exits |-> <<>>,
             registered |-> {}, abort |-> FALSE]

LEMMA NatInductionOnSet ==
    ASSUME NEW S, 0 \in S, \A n \in Nat : n \in S => n + 1 \in S
    PROVE  \A n \in Nat : n \in S
<1> DEFINE T == Nat \ S
           R == OpToRel(<, Nat)
<1>1. IsWellFoundedOn(R, Nat)
  BY NatLessThanWellFounded
<1>2. \A u, t \in Nat : u < t => <<u, t>> \in R
  BY DEF OpToRel
<1> SUFFICES ASSUME T # {} PROVE FALSE
  OBVIOUS
<1> HIDE DEF R
<1>3. PICK t \in T : \A u \in T : ~(<<u, t>> \in R)
  BY <1>1, WFMin
<1>4. \A u \in T : ~(u < t)
  BY <1>2, <1>3
<1>5. t # 0 /\ t - 1 \in Nat /\ t - 1 < t /\ (t - 1) + 1 = t
  BY <1>3
<1>6. t - 1 \in S
  BY <1>4, <1>5
<1> QED
  BY <1>5, <1>6

LEMMA LogContextsEquation ==
    ASSUME NEW d, NEW logs, NEW known, NEW live, Len(logs) \in Nat
    PROVE  LET after == LogContexts(d, logs, known, live)
           IN  after = [i \in 0..Len(logs) |->
                            IF i = 0 THEN Begun(d) ELSE process_log(after[i - 1], logs[i], known, live)]
<1> DEFINE step(ctx, i) == CHOOSE done \in {process_log(c, logs[i], known, live) : c \in {ctx}} : TRUE
           Solves(f, n) == f = [i \in 0..n |-> IF i = 0 THEN Begun(d) ELSE step(f[i - 1], i)]
           S == {n \in Nat : \E f : Solves(f, n)}
<1>0. \A ctx, i : step(ctx, i) = process_log(ctx, logs[i], known, live)
  <2> TAKE ctx, i
  <2>1. {process_log(c, logs[i], known, live) : c \in {ctx}} = {process_log(ctx, logs[i], known, live)}
    OBVIOUS
  <2> QED
    BY <2>1
<1>1. 0 \in S
  <2> DEFINE f == [i \in 0..0 |-> Begun(d)]
  <2>1. Solves(f, 0)
    OBVIOUS
  <2> HIDE DEF f, Solves
  <2> QED
    BY <2>1
<1>2. ASSUME NEW n \in Nat, n \in S PROVE n + 1 \in S
  <2>1. PICK f : Solves(f, n)
    BY <1>2
  <2> HIDE DEF step
  <2> DEFINE g == [i \in 0..(n + 1) |-> IF i <= n THEN f[i] ELSE step(f[n], n + 1)]
  <2>2. \A i \in 0..(n + 1) : g[i] = IF i <= n THEN f[i] ELSE step(f[n], n + 1)
    OBVIOUS
  <2>3. \A i \in 0..n : f[i] = IF i = 0 THEN Begun(d) ELSE step(f[i - 1], i)
    BY <2>1
  <2>4. g = [i \in 0..(n + 1) |-> g[i]]
    BY <2>2
  <2> HIDE DEF g
  <2>5. \A i \in 0..(n + 1) : g[i] = IF i = 0 THEN Begun(d) ELSE step(g[i - 1], i)
    <3> TAKE i \in 0..(n + 1)
    <3>1. CASE i <= n
      BY <3>1, <2>2, <2>3
    <3>2. CASE i = n + 1
      BY <3>2, <2>2
    <3> QED
      BY <3>1, <3>2
  <2>6. [i \in 0..(n + 1) |-> g[i]] = [i \in 0..(n + 1) |-> IF i = 0 THEN Begun(d) ELSE step(g[i - 1], i)]
    BY <2>5, Zenon
  <2>7. Solves(g, n + 1)
    BY <2>4, <2>6, Zenon
  <2> HIDE DEF Solves
  <2> QED
    BY <2>7
<1> DEFINE A == CHOOSE f : Solves(f, Len(logs))
<1>3. Solves(A, Len(logs))
  <2> HIDE DEF Solves
  <2>1. Len(logs) \in S
    <3> HIDE DEF S
    <3> QED
      BY <1>1, <1>2, NatInductionOnSet
  <2> QED
    BY <2>1
<1>4. LogContexts(d, logs, known, live) = A
  BY DEF LogContexts, Begun
<1> HIDE DEF A, step
<1> QED
  BY <1>0, <1>3, <1>4

LEMMA UpdatesAppliedEquation ==
    ASSUME NEW m, NEW updates, Len(updates) \in Nat
    PROVE  LET after == UpdatesApplied(m, updates)
           IN  after = [i \in 0..Len(updates) |->
                            IF i = 0 THEN m ELSE apply(after[i - 1], updates[i])]
<1> DEFINE step(ctx, i) == CHOOSE next \in {apply(c, updates[i]) : c \in {ctx}} : TRUE
           Solves(f, n) == f = [i \in 0..n |-> IF i = 0 THEN m ELSE step(f[i - 1], i)]
           S == {n \in Nat : \E f : Solves(f, n)}
<1>0. \A ctx, i : step(ctx, i) = apply(ctx, updates[i])
  <2> TAKE ctx, i
  <2>1. {apply(c, updates[i]) : c \in {ctx}} = {apply(ctx, updates[i])}
    OBVIOUS
  <2> QED
    BY <2>1
<1>1. 0 \in S
  <2> DEFINE f == [i \in 0..0 |-> m]
  <2>1. Solves(f, 0)
    OBVIOUS
  <2> HIDE DEF f, Solves
  <2> QED
    BY <2>1
<1>2. ASSUME NEW n \in Nat, n \in S PROVE n + 1 \in S
  <2>1. PICK f : Solves(f, n)
    BY <1>2
  <2> HIDE DEF step
  <2> DEFINE g == [i \in 0..(n + 1) |-> IF i <= n THEN f[i] ELSE step(f[n], n + 1)]
  <2>2. \A i \in 0..(n + 1) : g[i] = IF i <= n THEN f[i] ELSE step(f[n], n + 1)
    OBVIOUS
  <2>3. \A i \in 0..n : f[i] = IF i = 0 THEN m ELSE step(f[i - 1], i)
    BY <2>1
  <2>4. g = [i \in 0..(n + 1) |-> g[i]]
    BY <2>2
  <2> HIDE DEF g
  <2>5. \A i \in 0..(n + 1) : g[i] = IF i = 0 THEN m ELSE step(g[i - 1], i)
    <3> TAKE i \in 0..(n + 1)
    <3>1. CASE i <= n
      BY <3>1, <2>2, <2>3
    <3>2. CASE i = n + 1
      BY <3>2, <2>2
    <3> QED
      BY <3>1, <3>2
  <2>6. [i \in 0..(n + 1) |-> g[i]] = [i \in 0..(n + 1) |-> IF i = 0 THEN m ELSE step(g[i - 1], i)]
    BY <2>5, Zenon
  <2>7. Solves(g, n + 1)
    BY <2>4, <2>6, Zenon
  <2> HIDE DEF Solves
  <2> QED
    BY <2>7
<1> DEFINE A == CHOOSE f : Solves(f, Len(updates))
<1>3. Solves(A, Len(updates))
  <2> HIDE DEF Solves
  <2>1. Len(updates) \in S
    <3> HIDE DEF S
    <3> QED
      BY <1>1, <1>2, NatInductionOnSet
  <2> QED
    BY <2>1
<1>4. UpdatesApplied(m, updates) = A
  BY DEF UpdatesApplied
<1> HIDE DEF A, step
<1> QED
  BY <1>0, <1>3, <1>4

IsSeq(s) == s \in Seq(Range(s))

LEMMA AppendFacts ==
    ASSUME NEW s, IsSeq(s), NEW x
    PROVE  /\ IsSeq(Append(s, x))
           /\ Len(s) \in Nat /\ Len(Append(s, x)) = Len(s) + 1
           /\ \A i \in 1..Len(s) : Append(s, x)[i] = s[i]
           /\ Append(s, x)[Len(s) + 1] = x
<1> DEFINE T == {s[i] : i \in DOMAIN s} \union {x}
<1>1. s \in Seq(T) /\ x \in T
  BY DEF IsSeq, Range
<1> HIDE DEF T
<1>2. Append(s, x) \in Seq(T) /\ Len(s) \in Nat /\ Len(Append(s, x)) = Len(s) + 1
  BY <1>1
<1>3. /\ \A i \in 1..Len(s) : Append(s, x)[i] = s[i]
      /\ Append(s, x)[Len(s) + 1] = x
  BY <1>1
<1>4. IsSeq(Append(s, x))
  BY <1>2 DEF IsSeq, Range
<1> QED
  BY <1>2, <1>3, <1>4

LEMMA EmptySeq == IsSeq(<<>>) /\ Len(<<>>) = 0
BY DEF IsSeq, Range

LEMMA PublishNothing ==
    ASSUME NEW m
    PROVE  publish_pending_state_updates(m, <<>>) = m
<1>1. UpdatesApplied(m, <<>>)[0] = m
  BY EmptySeq, UpdatesAppliedEquation
<1> QED
  BY <1>1, EmptySeq DEF publish_pending_state_updates

LEMMA PublishOneMore ==
    ASSUME NEW m, NEW updates, IsSeq(updates), NEW u
    PROVE  publish_pending_state_updates(m, Append(updates, u))
             = apply(publish_pending_state_updates(m, updates), u)
<1> DEFINE all == Append(updates, u)
           f == UpdatesApplied(m, updates)
           g == UpdatesApplied(m, all)
           n == Len(updates)
           S == {i \in Nat : i <= n => f[i] = g[i]}
<1>1. /\ n \in Nat /\ Len(all) = n + 1
      /\ \A i \in 1..n : all[i] = updates[i]
      /\ all[n + 1] = u
  BY AppendFacts
<1> HIDE DEF all
<1>2. /\ f = [i \in 0..n |-> IF i = 0 THEN m ELSE apply(f[i - 1], updates[i])]
      /\ g = [i \in 0..(n + 1) |-> IF i = 0 THEN m ELSE apply(g[i - 1], all[i])]
  BY <1>1, UpdatesAppliedEquation
<1> HIDE DEF f, g, n
<1>3. 0 \in S
  BY <1>1, <1>2
<1>4. ASSUME NEW i \in Nat, i \in S PROVE i + 1 \in S
  <2>1. CASE i + 1 <= n
    <3>1. f[i] = g[i]
      BY <1>1, <1>4, <2>1
    <3>2. f[i + 1] = apply(f[i], updates[i + 1]) /\ g[i + 1] = apply(g[i], all[i + 1])
      BY <1>1, <1>2, <2>1
    <3> QED
      BY <1>1, <2>1, <3>1, <3>2
  <2> QED
    BY <1>1, <2>1
<1>5. n \in S
  <2> HIDE DEF S
  <2> QED
    BY <1>1, <1>3, <1>4, NatInductionOnSet
<1>6. g[n + 1] = apply(g[n], u)
  BY <1>1, <1>2
<1> QED
  BY <1>1, <1>5, <1>6 DEF publish_pending_state_updates, f, g, n, all

---------------------------------------------------------------------------
(* Tables and memory.                                                      *)

Tables(block, max, operators, skipped, owners, clusters, validators) ==
    [block_number |-> block, max_operator_id_seen |-> max, operators |-> operators,
     skipped_operator_adds |-> skipped, owners |-> owners, clusters |-> clusters, validators |-> validators]

Memory(id, block, max, operators, own_clusters, shares, nonces, clusters, metadata) ==
    [id |-> id, last_processed_block |-> block, max_operator_id_seen |-> max, operators |-> operators,
     own_clusters |-> own_clusters, shares |-> shares, nonces |-> nonces, clusters |-> clusters,
     metadata |-> metadata]

IsMap(f) == f = [x \in DOMAIN f |-> f[x]]

OperatorsOK(d) ==
    /\ IsMap(d.operators)
    /\ d.max_operator_id_seen \in Nat
    /\ \A id \in DOMAIN d.operators :
          /\ id \in 1..d.max_operator_id_seen
          /\ d.operators[id] = [key |-> d.operators[id].key, removed |-> d.operators[id].removed]
          /\ d.operators[id].removed \in BOOLEAN
    /\ \A id, other \in DOMAIN d.operators : d.operators[id].key = d.operators[other].key => id = other

OwnersOK(d) ==
    /\ IsMap(d.owners)
    /\ \A o \in DOMAIN d.owners :
          /\ d.owners[o] = [fee_recipient |-> d.owners[o].fee_recipient, nonce |-> d.owners[o].nonce]
          /\ d.owners[o].nonce \in Nat \union {None}

ClustersOK(d) ==
    /\ IsMap(d.clusters)
    /\ \A c \in DOMAIN d.clusters :
          /\ d.clusters[c] = [liquidated |-> d.clusters[c].liquidated]
          /\ d.clusters[c].liquidated \in BOOLEAN
          /\ cluster_members(c) \subseteq DOMAIN d.operators

ValidatorsOK(d) ==
    /\ IsMap(d.validators)
    /\ \A v \in DOMAIN d.validators :
          /\ d.validators[v] = [cluster |-> d.validators[v].cluster, index |-> d.validators[v].index]
          /\ d.validators[v].cluster \in DOMAIN d.clusters

TablesOK(d) ==
    /\ d = Tables(d.block_number, d.max_operator_id_seen, d.operators, d.skipped_operator_adds, d.owners,
                  d.clusters, d.validators)
    /\ OperatorsOK(d) /\ OwnersOK(d) /\ ClustersOK(d) /\ ValidatorsOK(d)

MemoryOK(m) ==
    /\ m = Memory(m.id, m.last_processed_block, m.max_operator_id_seen, m.operators, m.own_clusters, m.shares,
                  m.nonces, m.clusters, m.metadata)
    /\ IsMap(m.clusters)
    /\ \A c \in DOMAIN m.clusters :
          m.clusters[c] = [fee_recipient |-> m.clusters[c].fee_recipient, liquidated |-> m.clusters[c].liquidated]

\* What a restart rebuilds of the registry, but for the liquidated flags.
RecipientsMirror(m, d) ==
    /\ DOMAIN m.clusters = DOMAIN d.clusters
    /\ \A c \in DOMAIN d.clusters : m.clusters[c].fee_recipient = fee_recipient_for_owner(d, cluster_owner(c))

Mirrors(m, d) ==
    /\ m.last_processed_block = d.block_number
    /\ m.max_operator_id_seen = d.max_operator_id_seen
    /\ m.operators = fetch_operators(d)
    /\ m.nonces = fetch_nonces(d)
    /\ m.metadata = d.validators
    /\ RecipientsMirror(m, d)

FlagsMirror(m, d) == \A c \in DOMAIN d.clusters : m.clusters[c].liquidated = d.clusters[c].liquidated

\* The part of memory that follows from the operator's own id.
OwnIds(d) == {id \in DOMAIN d.operators : operator_exists_tx(d, id) /\ d.operators[id].key = OwnKey}

OwnMirrors(m, d, own) ==
    /\ m.id # None => m.id \in own /\ m.id \in 1..d.max_operator_id_seen
    /\ m.id \in DOMAIN d.operators => d.operators[m.id].key = OwnKey
    /\ OwnIds(d) \subseteq {m.id}
    /\ m.shares = {v \in DOMAIN d.validators : m.id # None /\ m.id \in cluster_members(d.validators[v].cluster)}
    /\ m.own_clusters = {d.validators[v].cluster : v \in m.shares}

Consistent(m, d) == TablesOK(d) /\ MemoryOK(m) /\ Mirrors(m, d)

NotLiquidated(d, c) == c \in DOMAIN d.clusters => d.clusters[c].liquidated = FALSE

---------------------------------------------------------------------------
(* One operation of a transaction and the update it queues.                *)

LEMMA OperatorIds ==
    ASSUME NEW d, TablesOK(d)
    PROVE  /\ d.max_operator_id_seen \in Nat
           /\ \A id \in DOMAIN d.operators : id \in Nat /\ id <= d.max_operator_id_seen
<1>1. OperatorsOK(d)
  BY DEF TablesOK
<1>2. d.max_operator_id_seen \in Nat /\ \A id \in DOMAIN d.operators : id \in 1..d.max_operator_id_seen
  BY <1>1 DEF OperatorsOK
<1> QED
  BY <1>2

LEMMA ProcessedBlock ==
    ASSUME NEW m, NEW tx, Consistent(m, tx.disk),
           NEW block
    PROVE  LET e == processed_block_tx(tx, block).disk
               n == apply(m, [kind |-> "SetLastProcessedBlock", block |-> block])
           IN  /\ Consistent(n, e)
               /\ FlagsMirror(m, tx.disk) => FlagsMirror(n, e)
               /\ \A own : OwnMirrors(m, tx.disk, own) => OwnMirrors(n, e, own)
               /\ n.id = m.id
<1> DEFINE d == tx.disk
           e == processed_block_tx(tx, block).disk
           n == apply(m, [kind |-> "SetLastProcessedBlock", block |-> block])
<1>1. e = [d EXCEPT !.block_number = block]
  BY DEF processed_block_tx
<1>2. n = [m EXCEPT !.last_processed_block = block]
  BY DEF apply
<1>a. TablesOK(d) /\ MemoryOK(m) /\ Mirrors(m, d)
  BY DEF Consistent
<1> HIDE DEF e, n, d
<1>3. e = Tables(block, d.max_operator_id_seen, d.operators, d.skipped_operator_adds, d.owners, d.clusters,
                 d.validators)
  BY <1>a, <1>1 DEF TablesOK, Tables
<1>4. n = Memory(m.id, block, m.max_operator_id_seen, m.operators, m.own_clusters, m.shares, m.nonces,
                 m.clusters, m.metadata)
  BY <1>a, <1>2 DEF MemoryOK, Memory
<1>5. /\ e.block_number = block
      /\ e.max_operator_id_seen = d.max_operator_id_seen /\ e.operators = d.operators
      /\ e.skipped_operator_adds = d.skipped_operator_adds /\ e.owners = d.owners /\ e.clusters = d.clusters
      /\ e.validators = d.validators
  BY <1>3 DEF Tables
<1>6. /\ n.id = m.id
      /\ n.last_processed_block = block
      /\ n.max_operator_id_seen = m.max_operator_id_seen /\ n.operators = m.operators
      /\ n.own_clusters = m.own_clusters /\ n.shares = m.shares /\ n.nonces = m.nonces
      /\ n.clusters = m.clusters /\ n.metadata = m.metadata
  BY <1>4 DEF Memory
<1>7. TablesOK(e)
  BY <1>a, <1>3, <1>5 DEF TablesOK, OperatorsOK, OwnersOK, ClustersOK, ValidatorsOK
<1>8. MemoryOK(n)
  BY <1>a, <1>4, <1>6 DEF MemoryOK
<1>9. Mirrors(n, e)
  BY <1>a, <1>5, <1>6 DEF Mirrors, RecipientsMirror, fetch_operators, fetch_nonces, fee_recipient_for_owner,
                          operator_exists_tx
<1>10. FlagsMirror(m, d) => FlagsMirror(n, e)
  BY <1>a, <1>5, <1>6 DEF FlagsMirror
<1>11. \A own : OwnMirrors(m, d, own) => OwnMirrors(n, e, own)
  BY <1>a, <1>5, <1>6 DEF OwnMirrors, OwnIds, operator_exists_tx
<1> QED
  BY <1>6, <1>7, <1>8, <1>9, <1>10, <1>11 DEF Consistent, d, e, n

LEMMA SetMaxOperatorId ==
    ASSUME NEW m, NEW tx, Consistent(m, tx.disk),
           NEW id \in Nat,
           id > tx.disk.max_operator_id_seen
    PROVE  LET e == set_max_operator_id_seen_tx(tx, id).disk
               n == apply(m, [kind |-> "SetMaxOperatorIdSeen", id |-> id])
           IN  /\ Consistent(n, e)
               /\ FlagsMirror(m, tx.disk) => FlagsMirror(n, e)
               /\ \A own : OwnMirrors(m, tx.disk, own) => OwnMirrors(n, e, own)
               /\ n.id = m.id
               /\ e.operators = tx.disk.operators /\ e.max_operator_id_seen = id
<1> DEFINE d == tx.disk
           e == set_max_operator_id_seen_tx(tx, id).disk
           n == apply(m, [kind |-> "SetMaxOperatorIdSeen", id |-> id])
<1>1. e = [d EXCEPT !.max_operator_id_seen = id]
  BY DEF set_max_operator_id_seen_tx
<1>2. n = [m EXCEPT !.max_operator_id_seen = id]
  BY DEF apply
<1>a. TablesOK(d) /\ MemoryOK(m) /\ Mirrors(m, d)
  BY DEF Consistent
<1>b. id > d.max_operator_id_seen /\ id \in Nat
  OBVIOUS
<1> HIDE DEF e, n, d
<1>3. e = Tables(d.block_number, id, d.operators, d.skipped_operator_adds, d.owners, d.clusters, d.validators)
  BY <1>a, <1>1 DEF TablesOK, Tables
<1>4. n = Memory(m.id, m.last_processed_block, id, m.operators, m.own_clusters, m.shares, m.nonces, m.clusters,
                 m.metadata)
  BY <1>a, <1>2 DEF MemoryOK, Memory
<1>5. /\ e.block_number = d.block_number
      /\ e.max_operator_id_seen = id
      /\ e.operators = d.operators /\ e.skipped_operator_adds = d.skipped_operator_adds /\ e.owners = d.owners
      /\ e.clusters = d.clusters /\ e.validators = d.validators
  BY <1>3 DEF Tables
<1>6. /\ n.id = m.id /\ n.last_processed_block = m.last_processed_block
      /\ n.max_operator_id_seen = id
      /\ n.operators = m.operators /\ n.own_clusters = m.own_clusters /\ n.shares = m.shares
      /\ n.nonces = m.nonces /\ n.clusters = m.clusters /\ n.metadata = m.metadata
  BY <1>4 DEF Memory
<1>7. TablesOK(e)
  BY <1>a, <1>b, <1>3, <1>5 DEF TablesOK, OperatorsOK, OwnersOK, ClustersOK, ValidatorsOK
<1>8. MemoryOK(n)
  BY <1>a, <1>4, <1>6 DEF MemoryOK
<1>9. Mirrors(n, e)
  BY <1>a, <1>5, <1>6 DEF Mirrors, RecipientsMirror, fetch_operators, fetch_nonces, fee_recipient_for_owner,
                          operator_exists_tx
<1>10. FlagsMirror(m, d) => FlagsMirror(n, e)
  BY <1>a, <1>5, <1>6 DEF FlagsMirror
<1>11. \A own : OwnMirrors(m, d, own) => OwnMirrors(n, e, own)
  BY <1>a, <1>b, <1>5, <1>6 DEF OwnMirrors, TablesOK, OperatorsOK, OwnIds, operator_exists_tx
<1> QED
  BY <1>5, <1>6, <1>7, <1>8, <1>9, <1>10, <1>11 DEF Consistent, d, e, n

LEMMA InsertOperator ==
    ASSUME NEW m, NEW tx, Consistent(m, tx.disk),
           NEW id,
           NEW key,
           id \in 1..tx.disk.max_operator_id_seen,
           id \notin DOMAIN tx.disk.operators,
           ~key_in_use_tx(tx.disk, key)
    PROVE  LET e == insert_operator_tx(tx, id, key).disk
               n == apply(m, [kind |-> "InsertOperator", id |-> id, key |-> key])
           IN  /\ Consistent(n, e)
               /\ FlagsMirror(m, tx.disk) => FlagsMirror(n, e)
               /\ \A own : m.id # id /\ (key = OwnKey => id \in own /\ m.id = None) /\ OwnMirrors(m, tx.disk, own) => OwnMirrors(n, e, own)
               /\ m.id # None => n.id = m.id
<1> DEFINE d == tx.disk
           e == insert_operator_tx(tx, id, key).disk
           n == apply(m, [kind |-> "InsertOperator", id |-> id, key |-> key])
<1>1. e = [d EXCEPT !.operators = insert_or_ignore(@, id, [key |-> key, removed |-> FALSE])]
  BY DEF insert_operator_tx
<1>2. n = [m EXCEPT !.id = IF @ = None /\ key = OwnKey THEN id ELSE @,
              !.operators = insert_or_update(@, id, key)]
  BY DEF apply
<1>a. TablesOK(d) /\ MemoryOK(m) /\ Mirrors(m, d)
  BY DEF Consistent
<1>b. /\ id \in 1..d.max_operator_id_seen /\ id \notin DOMAIN d.operators
      /\ ~key_in_use_tx(d, key)
  OBVIOUS
<1> HIDE DEF e, n, d
<1>3. e = Tables(d.block_number, d.max_operator_id_seen,
                 insert_or_ignore(d.operators, id, [key |-> key, removed |-> FALSE]), d.skipped_operator_adds,
                 d.owners, d.clusters, d.validators)
  BY <1>a, <1>1 DEF TablesOK, Tables
<1>4. n = Memory(IF m.id = None /\ key = OwnKey THEN id ELSE m.id, m.last_processed_block,
                 m.max_operator_id_seen, insert_or_update(m.operators, id, key), m.own_clusters, m.shares,
                 m.nonces, m.clusters, m.metadata)
  BY <1>a, <1>2 DEF MemoryOK, Memory
<1>5. /\ e.block_number = d.block_number /\ e.max_operator_id_seen = d.max_operator_id_seen
      /\ e.operators = insert_or_ignore(d.operators, id, [key |-> key, removed |-> FALSE])
      /\ e.skipped_operator_adds = d.skipped_operator_adds /\ e.owners = d.owners /\ e.clusters = d.clusters
      /\ e.validators = d.validators
  BY <1>3 DEF Tables
<1>6. /\ n.id = IF m.id = None /\ key = OwnKey THEN id ELSE m.id
      /\ n.last_processed_block = m.last_processed_block /\ n.max_operator_id_seen = m.max_operator_id_seen
      /\ n.operators = insert_or_update(m.operators, id, key)
      /\ n.own_clusters = m.own_clusters /\ n.shares = m.shares /\ n.nonces = m.nonces
      /\ n.clusters = m.clusters /\ n.metadata = m.metadata
  BY <1>4 DEF Memory
<1>c. /\ DOMAIN e.operators = DOMAIN d.operators \union {id}
      /\ e.operators[id] = [key |-> key, removed |-> FALSE]
      /\ \A o \in DOMAIN d.operators : e.operators[o] = d.operators[o]
      /\ e.operators = [o \in DOMAIN e.operators |-> e.operators[o]]
  BY <1>5, <1>b DEF insert_or_ignore
<1>d. \A o \in DOMAIN d.operators : operator_exists_tx(e, o) <=> operator_exists_tx(d, o)
  BY <1>c, <1>b DEF operator_exists_tx
<1>e. operator_exists_tx(e, id)
  BY <1>c DEF operator_exists_tx
<1>f. OperatorsOK(e)
  <2>1. \A o \in DOMAIN d.operators : d.operators[o].key # key
    BY <1>b DEF key_in_use_tx
  <2>2. d.max_operator_id_seen \in Nat /\ e.max_operator_id_seen = d.max_operator_id_seen
    BY <1>a, <1>5 DEF TablesOK, OperatorsOK
  <2>3. \A o \in DOMAIN e.operators : /\ o \in 1..e.max_operator_id_seen
                                      /\ e.operators[o] = [key |-> e.operators[o].key, removed |-> e.operators[o].removed]
                                      /\ e.operators[o].removed \in BOOLEAN
    <3> TAKE o \in DOMAIN e.operators
    <3>1. CASE o = id
      <4>1. e.operators[o] = [key |-> key, removed |-> FALSE]
        BY <1>c, <3>1
      <4>2. o \in 1..e.max_operator_id_seen
        BY <1>b, <2>2, <3>1
      <4> QED
        BY <4>1, <4>2
    <3>2. CASE o \in DOMAIN d.operators
      <4>1. e.operators[o] = d.operators[o]
        BY <1>c, <3>2
      <4>2. /\ o \in 1..d.max_operator_id_seen
            /\ d.operators[o] = [key |-> d.operators[o].key, removed |-> d.operators[o].removed]
            /\ d.operators[o].removed \in BOOLEAN
        BY <1>a, <3>2 DEF TablesOK, OperatorsOK
      <4> QED
        BY <2>2, <4>1, <4>2
    <3> QED
      BY <1>c, <3>1, <3>2
  <2>4. \A o, p \in DOMAIN e.operators : e.operators[o].key = e.operators[p].key => o = p
    BY <1>a, <1>c, <2>1 DEF TablesOK, OperatorsOK
  <2> QED
    BY <1>c, <2>2, <2>3, <2>4 DEF OperatorsOK, IsMap
<1>7. TablesOK(e)
  <2>1. OwnersOK(e) /\ ValidatorsOK(e)
    BY <1>a, <1>5 DEF TablesOK, OwnersOK, ValidatorsOK
  <2>2. ClustersOK(e)
    BY SMTT(60), <1>a, <1>5, <1>c DEF TablesOK, ClustersOK
  <2> QED
    BY <1>3, <1>5, <1>f, <2>1, <2>2 DEF TablesOK
<1>8. MemoryOK(n)
  BY <1>a, <1>4, <1>6 DEF MemoryOK
<1>9. Mirrors(n, e)
  <2>1. {p \in DOMAIN e.operators : operator_exists_tx(e, p)}
          = {p \in DOMAIN d.operators : operator_exists_tx(d, p)} \union {id}
    BY <1>c, <1>d, <1>e
  <2>2. n.operators = fetch_operators(e)
    <3>1. m.operators = fetch_operators(d)
      BY <1>a DEF Mirrors
    <3> QED
      BY <1>b, <1>c, <1>6, <2>1, <3>1 DEF fetch_operators, insert_or_update
  <2> QED
    BY <1>a, <1>5, <1>6, <2>2 DEF Mirrors, RecipientsMirror, fetch_nonces, fee_recipient_for_owner
<1>10. FlagsMirror(m, d) => FlagsMirror(n, e)
  BY <1>a, <1>5, <1>6 DEF FlagsMirror
<1>11. ASSUME NEW own, OwnMirrors(m, d, own), m.id # id, key = OwnKey => id \in own /\ m.id = None
       PROVE  OwnMirrors(n, e, own)
  <2>1. n.id # None => n.id \in own /\ n.id \in 1..e.max_operator_id_seen
    BY <1>b, <1>5, <1>6, <1>11 DEF OwnMirrors
  <2>2. n.id \in DOMAIN e.operators => e.operators[n.id].key = OwnKey
    BY <1>c, <1>6, <1>11 DEF OwnMirrors
  <2>3. OwnIds(e) \subseteq {n.id}
    <3>1. \A o \in OwnIds(e) : o = id \/ o \in OwnIds(d)
      BY <1>c, <1>d DEF OwnIds
    <3>2. id \in OwnIds(e) => key = OwnKey
      BY <1>c DEF OwnIds
    <3>3. None \notin OwnIds(d)
      <4>1. \A o \in DOMAIN d.operators : o \in Nat
        BY <1>a, OperatorIds
      <4> QED
        BY <4>1, SyncAssumption DEF OwnIds
    <3> QED
      BY <1>6, <1>11, <3>1, <3>2, <3>3 DEF OwnMirrors
  <2>4. n.shares = {v \in DOMAIN e.validators : n.id # None /\ n.id \in cluster_members(e.validators[v].cluster)}
    <3>1. CASE n.id = m.id
      BY <1>5, <1>6, <1>11, <3>1 DEF OwnMirrors
    <3>2. CASE n.id # m.id
      <4>1. n.id = id /\ m.id = None /\ n.shares = {}
        BY <1>6, <1>11, <3>2 DEF OwnMirrors
      <4>2. \A v \in DOMAIN d.validators : id \notin cluster_members(d.validators[v].cluster)
        BY <1>a, <1>b DEF TablesOK, ClustersOK, ValidatorsOK
      <4> QED
        BY <1>5, <4>1, <4>2
    <3> QED
      BY <3>1, <3>2
  <2>5. n.own_clusters = {e.validators[v].cluster : v \in n.shares}
    BY <1>5, <1>6, <1>11 DEF OwnMirrors
  <2> QED
    BY <2>1, <2>2, <2>3, <2>4, <2>5 DEF OwnMirrors
<1> QED
  BY <1>6, <1>7, <1>8, <1>9, <1>10, <1>11 DEF Consistent, d, e, n

LEMMA OperatorRow ==
    ASSUME NEW row, NEW key, NEW removed, row = [key |-> key, removed |-> removed]
    PROVE  /\ row.key = key /\ row.removed = removed
           /\ row = [key |-> row.key, removed |-> row.removed]
           /\ [row EXCEPT !.removed = TRUE] = [key |-> key, removed |-> TRUE]
<1>1. row.key = key /\ row.removed = removed
  OBVIOUS
<1>2. \A b : [row EXCEPT !.removed = b] = [key |-> key, removed |-> b]
  OBVIOUS
<1>3. [row EXCEPT !.removed = TRUE] = [key |-> key, removed |-> TRUE]
  BY <1>2, Zenon
<1> QED
  BY <1>1, <1>3, Zenon

LEMMA SkippedOperatorAdds ==
    ASSUME NEW m, NEW tx, Consistent(m, tx.disk), NEW set
    PROVE  LET e == [tx.disk EXCEPT !.skipped_operator_adds = set]
           IN  /\ Consistent(m, e)
               /\ FlagsMirror(m, tx.disk) => FlagsMirror(m, e)
               /\ \A own : OwnMirrors(m, tx.disk, own) => OwnMirrors(m, e, own)
<1> DEFINE d == tx.disk
           e == [tx.disk EXCEPT !.skipped_operator_adds = set]
<1>1. e = [d EXCEPT !.skipped_operator_adds = set]
  OBVIOUS
<1>a. TablesOK(d) /\ MemoryOK(m) /\ Mirrors(m, d)
  BY DEF Consistent
<1> HIDE DEF e, d
<1>3. e = Tables(d.block_number, d.max_operator_id_seen, d.operators, e.skipped_operator_adds, d.owners,
                 d.clusters, d.validators)
  BY <1>a, <1>1 DEF TablesOK, Tables
<1>5. /\ e.block_number = d.block_number /\ e.max_operator_id_seen = d.max_operator_id_seen
      /\ e.operators = d.operators /\ e.owners = d.owners
      /\ e.clusters = d.clusters /\ e.validators = d.validators
  BY <1>3 DEF Tables
<1>7. TablesOK(e)
  BY <1>a, <1>3, <1>5 DEF TablesOK, OperatorsOK, OwnersOK, ClustersOK, ValidatorsOK
<1>9. Mirrors(m, e)
  BY <1>a, <1>5 DEF Mirrors, RecipientsMirror, fetch_operators, fetch_nonces, fee_recipient_for_owner,
                    operator_exists_tx
<1>10. FlagsMirror(m, d) => FlagsMirror(m, e)
  BY <1>5 DEF FlagsMirror
<1>11. \A own : OwnMirrors(m, d, own) => OwnMirrors(m, e, own)
  BY <1>5 DEF OwnMirrors, OwnIds, operator_exists_tx
<1> QED
  BY <1>a, <1>7, <1>9, <1>10, <1>11 DEF Consistent, d, e

LEMMA DeleteOperator ==
    ASSUME NEW m, NEW tx, Consistent(m, tx.disk),
           NEW id,
           operator_exists_tx(tx.disk, id)
    PROVE  LET e == delete_operator_tx(tx, id).disk
               n == apply(m, [kind |-> "DeleteOperator", id |-> id])
           IN  /\ Consistent(n, e)
               /\ FlagsMirror(m, tx.disk) => FlagsMirror(n, e)
               /\ \A own : OwnMirrors(m, tx.disk, own) => OwnMirrors(n, e, own)
               /\ n.id = m.id
<1> DEFINE d == tx.disk
           e == delete_operator_tx(tx, id).disk
           n == apply(m, [kind |-> "DeleteOperator", id |-> id])
           member == \E cluster \in DOMAIN d.clusters : id \in cluster_members(cluster)
           left == IF member THEN [d.operators EXCEPT ![id].removed = TRUE] ELSE Without(d.operators, {id})
<1>1. e = [d EXCEPT !.operators = left]
  BY DEF delete_operator_tx
<1>2. n = [m EXCEPT !.operators = Without(@, {id})]
  BY DEF apply
<1>a. TablesOK(d) /\ MemoryOK(m) /\ Mirrors(m, d)
  BY DEF Consistent
<1>b. operator_exists_tx(d, id)
  OBVIOUS
<1> HIDE DEF e, n, d, member, left
<1>3. e = Tables(d.block_number, d.max_operator_id_seen, left, d.skipped_operator_adds, d.owners, d.clusters,
                 d.validators)
  BY <1>a, <1>1 DEF TablesOK, Tables
<1>4. n = Memory(m.id, m.last_processed_block, m.max_operator_id_seen, Without(m.operators, {id}),
                 m.own_clusters, m.shares, m.nonces, m.clusters, m.metadata)
  BY <1>a, <1>2 DEF MemoryOK, Memory
<1>5. /\ e.block_number = d.block_number /\ e.max_operator_id_seen = d.max_operator_id_seen
      /\ e.operators = left
      /\ e.skipped_operator_adds = d.skipped_operator_adds /\ e.owners = d.owners /\ e.clusters = d.clusters
      /\ e.validators = d.validators
  BY <1>3 DEF Tables
<1>6. /\ n.id = m.id /\ n.last_processed_block = m.last_processed_block
      /\ n.max_operator_id_seen = m.max_operator_id_seen
      /\ n.operators = Without(m.operators, {id})
      /\ n.own_clusters = m.own_clusters /\ n.shares = m.shares /\ n.nonces = m.nonces
      /\ n.clusters = m.clusters /\ n.metadata = m.metadata
  BY <1>4 DEF Memory
<1>c. OperatorsOK(d)
  BY <1>a DEF TablesOK
<1>d. /\ DOMAIN left = IF member THEN DOMAIN d.operators ELSE DOMAIN d.operators \ {id}
      /\ \A o \in DOMAIN left : o # id => left[o] = d.operators[o]
      /\ member => left[id] = [key |-> d.operators[id].key, removed |-> TRUE]
      /\ IsMap(left)
  <2>1. id \in DOMAIN d.operators /\ d.operators[id] = [key |-> d.operators[id].key, removed |-> d.operators[id].removed]
    BY <1>b, <1>c DEF operator_exists_tx, OperatorsOK
  <2>2. CASE member
    <3>1. left = [d.operators EXCEPT ![id].removed = TRUE]
      BY <2>2 DEF left
    <3>2. [d.operators[id] EXCEPT !.removed = TRUE] = [key |-> d.operators[id].key, removed |-> TRUE]
      BY <2>1, OperatorRow
    <3>3. left[id] = [d.operators[id] EXCEPT !.removed = TRUE]
      BY <2>1, <3>1
    <3>4. DOMAIN left = DOMAIN d.operators /\ \A o \in DOMAIN left : o # id => left[o] = d.operators[o]
      BY <2>1, <3>1
    <3>5. left = [o \in DOMAIN d.operators |-> left[o]]
      BY <3>1
    <3> QED
      BY <2>2, <3>2, <3>3, <3>4, <3>5 DEF IsMap
  <2>3. CASE ~member
    BY <2>3 DEF left, Without, Restrict, IsMap
  <2> QED
    BY <2>2, <2>3
<1>e. \A o : operator_exists_tx(e, o) <=> operator_exists_tx(d, o) /\ o # id
  BY <1>5, <1>d DEF operator_exists_tx
<1>7. TablesOK(e)
  <2>1. OwnersOK(e) /\ ValidatorsOK(e)
    BY <1>a, <1>5 DEF TablesOK, OwnersOK, ValidatorsOK
  <2>2. ClustersOK(e)
    <3>1. \A c \in DOMAIN d.clusters : cluster_members(c) \subseteq DOMAIN left
      BY <1>a, <1>d DEF TablesOK, ClustersOK, member
    <3> QED
      BY <1>a, <1>5, <3>1 DEF TablesOK, ClustersOK
  <2>3. ASSUME NEW o \in DOMAIN left
        PROVE  /\ o \in 1..d.max_operator_id_seen
               /\ left[o] = [key |-> left[o].key, removed |-> left[o].removed]
               /\ left[o].removed \in BOOLEAN
               /\ o \in DOMAIN d.operators /\ left[o].key = d.operators[o].key
    <3>1. o \in DOMAIN d.operators /\ (o = id => member)
      BY <1>d, <2>3
    <3>2. o \in 1..d.max_operator_id_seen
      BY <1>c, <3>1 DEF OperatorsOK
    <3>3. CASE o = id
      <4>1. left[o] = [key |-> d.operators[o].key, removed |-> TRUE]
        BY <1>d, <3>1, <3>3
      <4> QED
        BY <3>1, <3>2, <4>1, OperatorRow
    <3>4. CASE o # id
      <4>1. left[o] = d.operators[o]
        BY <1>d, <2>3, <3>4
      <4>2. d.operators[o] = [key |-> d.operators[o].key, removed |-> d.operators[o].removed] /\ d.operators[o].removed \in BOOLEAN
        BY <1>c, <3>1 DEF OperatorsOK
      <4> QED
        BY <3>1, <3>2, <4>1, <4>2
    <3> QED
      BY <3>3, <3>4
  <2>4. \A o, p \in DOMAIN left : left[o].key = left[p].key => o = p
    BY <1>c, <2>3 DEF OperatorsOK
  <2>5. OperatorsOK(e)
    BY SMTT(60), <1>5, <1>c, <1>d, <2>3, <2>4 DEF OperatorsOK
  <2> QED
    BY <1>3, <1>5, <2>1, <2>2, <2>5 DEF TablesOK
<1>8. MemoryOK(n)
  BY <1>a, <1>4, <1>6 DEF MemoryOK
<1>9. Mirrors(n, e)
  <2>1. {p \in DOMAIN e.operators : operator_exists_tx(e, p)}
          = {p \in DOMAIN d.operators : operator_exists_tx(d, p)} \ {id}
    BY <1>e DEF operator_exists_tx
  <2>2. n.operators = fetch_operators(e)
    <3>1. m.operators = fetch_operators(d)
      BY <1>a DEF Mirrors
    <3>2. \A p \in DOMAIN left : p # id => e.operators[p].key = d.operators[p].key
      BY <1>5, <1>d
    <3>3. \A p \in DOMAIN e.operators : p \in DOMAIN left
      BY <1>5
    <3> QED
      BY <1>6, <2>1, <3>1, <3>2, <3>3 DEF fetch_operators, Without, Restrict
  <2> QED
    BY <1>a, <1>5, <1>6, <2>2 DEF Mirrors, RecipientsMirror, fetch_nonces, fee_recipient_for_owner
<1>10. FlagsMirror(m, d) => FlagsMirror(n, e)
  BY <1>a, <1>5, <1>6 DEF FlagsMirror
<1>11. ASSUME NEW own, OwnMirrors(m, d, own)
       PROVE  OwnMirrors(n, e, own)
  <2>1. \A o \in DOMAIN left : o \in DOMAIN d.operators /\ left[o].key = d.operators[o].key
    BY <1>b, <1>d DEF operator_exists_tx
  <2>2. OwnIds(e) \subseteq OwnIds(d)
    BY <1>5, <1>e, <2>1 DEF OwnIds
  <2> QED
    BY <1>5, <1>6, <1>11, <2>1, <2>2 DEF OwnMirrors
<1> QED
  BY <1>6, <1>7, <1>8, <1>9, <1>10, <1>11 DEF Consistent, d, e, n

OwnerRow(d, owner) ==
    IF owner \in DOMAIN d.owners THEN d.owners[owner] ELSE [fee_recipient |-> None, nonce |-> None]

NextNonce(d, owner) == IF OwnerRow(d, owner).nonce = None THEN 0 ELSE OwnerRow(d, owner).nonce + 1

LEMMA ClusterRow ==
    ASSUME NEW row, NEW recipient, NEW liquidated, row = [fee_recipient |-> recipient, liquidated |-> liquidated]
    PROVE  /\ row.fee_recipient = recipient /\ row.liquidated = liquidated
           /\ row = [fee_recipient |-> row.fee_recipient, liquidated |-> row.liquidated]
           /\ \A x : [row EXCEPT !.fee_recipient = x] = [fee_recipient |-> x, liquidated |-> liquidated]
           /\ \A x : [row EXCEPT !.liquidated = x] = [fee_recipient |-> recipient, liquidated |-> x]
OBVIOUS

LEMMA OwnerRowShape ==
    ASSUME NEW d, TablesOK(d), NEW owner
    PROVE  LET row == OwnerRow(d, owner)
           IN  /\ row = [fee_recipient |-> row.fee_recipient, nonce |-> row.nonce]
               /\ row.nonce \in Nat \union {None}
               /\ NextNonce(d, owner) \in Nat
               /\ \A x : [row EXCEPT !.nonce = x] = [fee_recipient |-> row.fee_recipient, nonce |-> x]
               /\ \A x : [row EXCEPT !.fee_recipient = x] = [fee_recipient |-> x, nonce |-> row.nonce]
<1> DEFINE row == OwnerRow(d, owner)
<1>1. row = [fee_recipient |-> row.fee_recipient, nonce |-> row.nonce] /\ row.nonce \in Nat \union {None}
  BY DEF TablesOK, OwnersOK, OwnerRow
<1>2. NextNonce(d, owner) \in Nat
  BY <1>1 DEF NextNonce
<1> HIDE DEF row
<1>3. \A a, b : row = [fee_recipient |-> a, nonce |-> b] =>
        /\ \A x : [row EXCEPT !.nonce = x] = [fee_recipient |-> a, nonce |-> x]
        /\ \A x : [row EXCEPT !.fee_recipient = x] = [fee_recipient |-> x, nonce |-> b]
  OBVIOUS
<1>4. /\ \A x : [row EXCEPT !.nonce = x] = [fee_recipient |-> row.fee_recipient, nonce |-> x]
      /\ \A x : [row EXCEPT !.fee_recipient = x] = [fee_recipient |-> x, nonce |-> row.nonce]
  BY <1>1, <1>3, Zenon
<1> QED
  BY <1>1, <1>2, <1>4, Zenon DEF row

LEMMA SetOwnerNonce ==
    ASSUME NEW m, NEW tx, Consistent(m, tx.disk),
           NEW owner
    PROVE  LET e == bump_and_get_nonce_tx(tx, owner).disk
               n == apply(m, [kind |-> "SetOwnerNonce", owner |-> owner,
                              nonce |-> NextNonce(tx.disk, owner)])
           IN  /\ Consistent(n, e)
               /\ FlagsMirror(m, tx.disk) => FlagsMirror(n, e)
               /\ \A own : OwnMirrors(m, tx.disk, own) => OwnMirrors(n, e, own)
               /\ n.id = m.id
               /\ owner \in DOMAIN e.owners
               /\ e.operators = tx.disk.operators /\ e.clusters = tx.disk.clusters /\ e.validators = tx.disk.validators
<1> DEFINE d == tx.disk
           e == bump_and_get_nonce_tx(tx, owner).disk
           n == apply(m, [kind |-> "SetOwnerNonce", owner |-> owner,
                              nonce |-> NextNonce(tx.disk, owner)])
<1>1. e = [d EXCEPT !.owners = insert_or_update(@, owner, [OwnerRow(d, owner) EXCEPT !.nonce = NextNonce(d, owner)])]
  BY DEF bump_and_get_nonce_tx, OwnerRow, NextNonce
<1>2. n = [m EXCEPT !.nonces = insert_or_update(@, owner, NextNonce(d, owner))]
  BY DEF apply
<1>a. TablesOK(d) /\ MemoryOK(m) /\ Mirrors(m, d)
  BY DEF Consistent
<1>b. /\ OwnerRow(d, owner).nonce \in Nat \union {None}
      /\ NextNonce(d, owner) \in Nat
      /\ [OwnerRow(d, owner) EXCEPT !.nonce = NextNonce(d, owner)]
           = [fee_recipient |-> OwnerRow(d, owner).fee_recipient, nonce |-> NextNonce(d, owner)]
  BY <1>a, OwnerRowShape
<1> HIDE DEF e, n, d
<1>3. e = Tables(d.block_number, d.max_operator_id_seen, d.operators, d.skipped_operator_adds,
                 insert_or_update(d.owners, owner, [OwnerRow(d, owner) EXCEPT !.nonce = NextNonce(d, owner)]),
                 d.clusters, d.validators)
  BY <1>a, <1>1 DEF TablesOK, Tables
<1>4. n = Memory(m.id, m.last_processed_block, m.max_operator_id_seen, m.operators, m.own_clusters, m.shares,
                 insert_or_update(m.nonces, owner, NextNonce(d, owner)), m.clusters, m.metadata)
  BY <1>a, <1>2 DEF MemoryOK, Memory
<1>5. /\ e.block_number = d.block_number /\ e.max_operator_id_seen = d.max_operator_id_seen
      /\ e.operators = d.operators /\ e.skipped_operator_adds = d.skipped_operator_adds
      /\ e.owners = insert_or_update(d.owners, owner, [OwnerRow(d, owner) EXCEPT !.nonce = NextNonce(d, owner)])
      /\ e.clusters = d.clusters /\ e.validators = d.validators
  BY <1>3 DEF Tables
<1>6. /\ n.id = m.id /\ n.last_processed_block = m.last_processed_block
      /\ n.max_operator_id_seen = m.max_operator_id_seen /\ n.operators = m.operators
      /\ n.own_clusters = m.own_clusters /\ n.shares = m.shares
      /\ n.nonces = insert_or_update(m.nonces, owner, NextNonce(d, owner))
      /\ n.clusters = m.clusters /\ n.metadata = m.metadata
  BY <1>4 DEF Memory
<1>c. /\ DOMAIN e.owners = DOMAIN d.owners \union {owner}
      /\ e.owners[owner] = [fee_recipient |-> OwnerRow(d, owner).fee_recipient, nonce |-> NextNonce(d, owner)]
      /\ \A o \in DOMAIN d.owners : o # owner => e.owners[o] = d.owners[o]
      /\ IsMap(e.owners)
  BY <1>5, <1>b DEF insert_or_update, IsMap
<1>7. TablesOK(e)
  <2>1. OperatorsOK(e) /\ ClustersOK(e) /\ ValidatorsOK(e)
    BY <1>a, <1>5 DEF TablesOK, OperatorsOK, ClustersOK, ValidatorsOK
  <2>2. ASSUME NEW o \in DOMAIN e.owners
        PROVE  /\ e.owners[o] = [fee_recipient |-> e.owners[o].fee_recipient, nonce |-> e.owners[o].nonce]
               /\ e.owners[o].nonce \in Nat \union {None}
    <3>1. CASE o = owner
      BY <1>b, <1>c, <3>1
    <3>2. CASE o # owner
      BY <1>a, <1>c, <3>2 DEF TablesOK, OwnersOK
    <3> QED
      BY <3>1, <3>2
  <2>3. OwnersOK(e)
    BY <1>c, <2>2 DEF OwnersOK
  <2> QED
    BY <1>3, <1>5, <2>1, <2>3 DEF TablesOK
<1>8. MemoryOK(n)
  BY <1>a, <1>4, <1>6 DEF MemoryOK
<1>9. Mirrors(n, e)
  <2>1. \A o : fee_recipient_for_owner(e, o) = fee_recipient_for_owner(d, o)
    <3> TAKE o
    <3>1. CASE o = owner
      BY <1>c, <3>1 DEF fee_recipient_for_owner, OwnerRow
    <3>2. CASE o # owner
      BY <1>c, <3>2 DEF fee_recipient_for_owner
    <3> QED
      BY <3>1, <3>2
  <2>2. {p \in DOMAIN e.owners : e.owners[p].nonce # None}
          = {p \in DOMAIN d.owners : d.owners[p].nonce # None} \union {owner}
    BY <1>b, <1>c, SyncAssumption
  <2>3. \A p \in {q \in DOMAIN d.owners : d.owners[q].nonce # None} : p # owner => e.owners[p].nonce = d.owners[p].nonce
    BY <1>c
  <2>4. e.owners[owner].nonce = NextNonce(d, owner)
    BY <1>c
  <2>5. n.nonces = fetch_nonces(e)
    <3>1. m.nonces = fetch_nonces(d)
      BY <1>a DEF Mirrors
    <3> QED
      BY <1>6, <2>2, <2>3, <2>4, <3>1 DEF fetch_nonces, insert_or_update
  <2> QED
    BY <1>a, <1>5, <1>6, <2>1, <2>5 DEF Mirrors, RecipientsMirror, fetch_operators, operator_exists_tx
<1>10. FlagsMirror(m, d) => FlagsMirror(n, e)
  BY <1>a, <1>5, <1>6 DEF FlagsMirror
<1>11. \A own : OwnMirrors(m, d, own) => OwnMirrors(n, e, own)
  BY <1>a, <1>5, <1>6 DEF OwnMirrors, OwnIds, operator_exists_tx
<1> QED
  BY <1>5, <1>6, <1>7, <1>8, <1>9, <1>10, <1>11, <1>c DEF Consistent, d, e, n

LEMMA UpdateFeeRecipient ==
    ASSUME NEW m, NEW tx, Consistent(m, tx.disk),
           NEW owner,
           NEW recipient,
           recipient # None
    PROVE  LET e == update_fee_recipient_tx(tx, owner, recipient).disk
               n == apply(m, [kind |-> "UpdateFeeRecipient", owner |-> owner, fee_recipient |-> recipient])
           IN  /\ Consistent(n, e)
               /\ FlagsMirror(m, tx.disk) => FlagsMirror(n, e)
               /\ \A own : OwnMirrors(m, tx.disk, own) => OwnMirrors(n, e, own)
               /\ n.id = m.id
<1> DEFINE d == tx.disk
           e == update_fee_recipient_tx(tx, owner, recipient).disk
           n == apply(m, [kind |-> "UpdateFeeRecipient", owner |-> owner, fee_recipient |-> recipient])
           clusters == [c \in DOMAIN m.clusters |-> IF cluster_owner(c) = owner
                         THEN [m.clusters[c] EXCEPT !.fee_recipient = recipient] ELSE m.clusters[c]]
<1>1. e = [d EXCEPT !.owners = insert_or_update(@, owner, [OwnerRow(d, owner) EXCEPT !.fee_recipient = recipient])]
  BY DEF update_fee_recipient_tx, OwnerRow
<1>2. n = [m EXCEPT !.clusters = clusters]
  BY DEF apply
<1>a. TablesOK(d) /\ MemoryOK(m) /\ Mirrors(m, d)
  BY DEF Consistent
<1>b. /\ recipient # None
      /\ OwnerRow(d, owner).nonce \in Nat \union {None}
      /\ [OwnerRow(d, owner) EXCEPT !.fee_recipient = recipient]
           = [fee_recipient |-> recipient, nonce |-> OwnerRow(d, owner).nonce]
  BY <1>a, OwnerRowShape
<1> HIDE DEF e, n, d, clusters
<1>3. e = Tables(d.block_number, d.max_operator_id_seen, d.operators, d.skipped_operator_adds,
                 insert_or_update(d.owners, owner, [OwnerRow(d, owner) EXCEPT !.fee_recipient = recipient]),
                 d.clusters, d.validators)
  BY <1>a, <1>1 DEF TablesOK, Tables
<1>4. n = Memory(m.id, m.last_processed_block, m.max_operator_id_seen, m.operators, m.own_clusters, m.shares,
                 m.nonces, clusters, m.metadata)
  BY <1>a, <1>2 DEF MemoryOK, Memory
<1>5. /\ e.block_number = d.block_number /\ e.max_operator_id_seen = d.max_operator_id_seen
      /\ e.operators = d.operators /\ e.skipped_operator_adds = d.skipped_operator_adds
      /\ e.owners = insert_or_update(d.owners, owner, [OwnerRow(d, owner) EXCEPT !.fee_recipient = recipient])
      /\ e.clusters = d.clusters /\ e.validators = d.validators
  BY <1>3 DEF Tables
<1>6. /\ n.id = m.id /\ n.last_processed_block = m.last_processed_block
      /\ n.max_operator_id_seen = m.max_operator_id_seen /\ n.operators = m.operators
      /\ n.own_clusters = m.own_clusters /\ n.shares = m.shares /\ n.nonces = m.nonces
      /\ n.clusters = clusters
      /\ n.metadata = m.metadata
  BY <1>4 DEF Memory
<1>c. /\ DOMAIN e.owners = DOMAIN d.owners \union {owner}
      /\ e.owners[owner] = [fee_recipient |-> recipient, nonce |-> OwnerRow(d, owner).nonce]
      /\ \A o \in DOMAIN d.owners : o # owner => e.owners[o] = d.owners[o]
      /\ IsMap(e.owners)
  BY <1>5, <1>b DEF insert_or_update, IsMap
<1>7. TablesOK(e)
  <2>1. OperatorsOK(e) /\ ClustersOK(e) /\ ValidatorsOK(e)
    BY <1>a, <1>5 DEF TablesOK, OperatorsOK, ClustersOK, ValidatorsOK
  <2>2. ASSUME NEW o \in DOMAIN e.owners
        PROVE  /\ e.owners[o] = [fee_recipient |-> e.owners[o].fee_recipient, nonce |-> e.owners[o].nonce]
               /\ e.owners[o].nonce \in Nat \union {None}
    <3>1. CASE o = owner
      BY <1>b, <1>c, <3>1
    <3>2. CASE o # owner
      BY <1>a, <1>c, <3>2 DEF TablesOK, OwnersOK
    <3> QED
      BY <3>1, <3>2
  <2>3. OwnersOK(e)
    BY <1>c, <2>2 DEF OwnersOK
  <2> QED
    BY <1>3, <1>5, <2>1, <2>3 DEF TablesOK
<1>d. /\ DOMAIN clusters = DOMAIN m.clusters /\ IsMap(clusters)
      /\ \A c \in DOMAIN m.clusters :
            clusters[c] = [fee_recipient |-> IF cluster_owner(c) = owner THEN recipient ELSE m.clusters[c].fee_recipient,
                           liquidated |-> m.clusters[c].liquidated]
  <2>1. DOMAIN clusters = DOMAIN m.clusters /\ IsMap(clusters)
    BY DEF clusters, IsMap
  <2>2. ASSUME NEW c \in DOMAIN m.clusters
        PROVE  clusters[c] = [fee_recipient |-> IF cluster_owner(c) = owner THEN recipient
                                                ELSE m.clusters[c].fee_recipient,
                              liquidated |-> m.clusters[c].liquidated]
    <3>1. m.clusters[c] = [fee_recipient |-> m.clusters[c].fee_recipient, liquidated |-> m.clusters[c].liquidated]
      BY <1>a, <2>2 DEF MemoryOK
    <3>3. [m.clusters[c] EXCEPT !.fee_recipient = recipient]
            = [fee_recipient |-> recipient, liquidated |-> m.clusters[c].liquidated]
      BY <3>1, ClusterRow
    <3>4. clusters[c] = IF cluster_owner(c) = owner THEN [m.clusters[c] EXCEPT !.fee_recipient = recipient]
                        ELSE m.clusters[c]
      BY <2>2 DEF clusters
    <3>5. CASE cluster_owner(c) = owner
      BY <3>3, <3>4, <3>5
    <3>6. CASE cluster_owner(c) # owner
      BY <3>1, <3>4, <3>6
    <3> QED
      BY <3>5, <3>6
  <2> QED
    BY <2>1, <2>2
<1>f. ASSUME NEW c \in DOMAIN m.clusters
      PROVE  /\ clusters[c].fee_recipient = IF cluster_owner(c) = owner THEN recipient ELSE m.clusters[c].fee_recipient
             /\ clusters[c].liquidated = m.clusters[c].liquidated
             /\ clusters[c] = [fee_recipient |-> clusters[c].fee_recipient, liquidated |-> clusters[c].liquidated]
  <2>1. clusters[c] = [fee_recipient |-> IF cluster_owner(c) = owner THEN recipient ELSE m.clusters[c].fee_recipient,
                       liquidated |-> m.clusters[c].liquidated]
    BY <1>d, <1>f
  <2> QED
    BY <2>1, ClusterRow
<1>8. MemoryOK(n)
  <2>1. \A c \in DOMAIN clusters :
          clusters[c] = [fee_recipient |-> clusters[c].fee_recipient, liquidated |-> clusters[c].liquidated]
    BY <1>d, <1>f
  <2> QED
    BY <1>a, <1>4, <1>6, <1>d, <2>1 DEF MemoryOK
<1>9. Mirrors(n, e)
  <2>1. \A o : fee_recipient_for_owner(e, o) = IF o = owner THEN recipient ELSE fee_recipient_for_owner(d, o)
    <3> TAKE o
    <3>1. CASE o = owner
      BY <1>b, <1>c, <3>1 DEF fee_recipient_for_owner
    <3>2. CASE o # owner
      BY <1>c, <3>2 DEF fee_recipient_for_owner
    <3> QED
      BY <3>1, <3>2
  <2>2. RecipientsMirror(n, e)
    BY <1>a, <1>5, <1>6, <1>d, <1>f, <2>1 DEF Mirrors, RecipientsMirror
  <2>3. {p \in DOMAIN e.owners : e.owners[p].nonce # None} = {p \in DOMAIN d.owners : d.owners[p].nonce # None}
    BY <1>c DEF OwnerRow
  <2>4. \A p \in {q \in DOMAIN d.owners : d.owners[q].nonce # None} : e.owners[p].nonce = d.owners[p].nonce
    BY <1>c DEF OwnerRow
  <2>5. fetch_nonces(e) = fetch_nonces(d)
    BY <2>3, <2>4 DEF fetch_nonces
  <2> QED
    BY <1>a, <1>5, <1>6, <2>2, <2>5 DEF Mirrors, fetch_operators, operator_exists_tx
<1>10. FlagsMirror(m, d) => FlagsMirror(n, e)
  BY <1>a, <1>5, <1>6, <1>d, <1>f DEF FlagsMirror, Mirrors, RecipientsMirror
<1>11. \A own : OwnMirrors(m, d, own) => OwnMirrors(n, e, own)
  BY <1>a, <1>5, <1>6 DEF OwnMirrors, OwnIds, operator_exists_tx
<1> QED
  BY <1>6, <1>7, <1>8, <1>9, <1>10, <1>11 DEF Consistent, d, e, n

LEMMA OwnOperator ==
    ASSUME NEW m, NEW d, TablesOK(d), NEW own, OwnMirrors(m, d, own), NEW known, known # None => m.id = known,
           NEW members, \A id \in members : operator_exists_tx(d, id)
    PROVE  get_own_operator_id_tx(d, known) \in members <=> m.id # None /\ m.id \in members
<1>1. None \notin members /\ None \notin OwnIds(d)
  BY OperatorIds, SyncAssumption DEF operator_exists_tx, OwnIds
<1>2. CASE known # None
  BY <1>2 DEF get_own_operator_id_tx
<1>3. CASE known = None
  <2>1. get_own_operator_id_tx(d, known) = IF OwnIds(d) = {} THEN None ELSE CHOOSE id \in OwnIds(d) : TRUE
    BY <1>3 DEF get_own_operator_id_tx, own_operator, OwnIds
  <2>2. m.id \in members => m.id \in OwnIds(d)
    BY DEF OwnMirrors, OwnIds, operator_exists_tx
  <2>3. OwnIds(d) # {} => (CHOOSE id \in OwnIds(d) : TRUE) = m.id
    BY DEF OwnMirrors
  <2>4. CASE OwnIds(d) = {}
    BY <1>1, <2>1, <2>2, <2>4
  <2>5. CASE OwnIds(d) # {}
    BY <1>1, <2>1, <2>3, <2>5 DEF OwnMirrors
  <2> QED
    BY <2>4, <2>5
<1> QED
  BY <1>2, <1>3

InsertValidatorUpdate(d, cluster, pubkey, recipient, known) ==
    [kind |-> "InsertValidator", cluster |-> cluster, validator |-> pubkey, fee_recipient |-> recipient,
     own |-> get_own_operator_id_tx(d, known) \in cluster_members(cluster)]

LEMMA InsertValidator ==
    ASSUME NEW m, NEW tx, Consistent(m, tx.disk),
           NEW cluster,
           NEW pubkey,
           NEW recipient,
           NEW known,
           pubkey \notin DOMAIN tx.disk.validators,
           cluster_owner(cluster) \in DOMAIN tx.disk.owners,
           \A id \in cluster_members(cluster) : operator_exists_tx(tx.disk, id),
           recipient = fee_recipient_for_owner(tx.disk, cluster_owner(cluster))
    PROVE  LET e == insert_validator_tx(tx, cluster, pubkey, recipient, known).disk
               n == apply(m, InsertValidatorUpdate(tx.disk, cluster, pubkey, recipient, known))
           IN  /\ Consistent(n, e)
               /\ NotLiquidated(tx.disk, cluster) /\ FlagsMirror(m, tx.disk) => FlagsMirror(n, e)
               /\ \A own : (known # None => m.id = known) /\ OwnMirrors(m, tx.disk, own) => OwnMirrors(n, e, own)
               /\ n.id = m.id
<1> DEFINE d == tx.disk
           e == insert_validator_tx(tx, cluster, pubkey, recipient, known).disk
           n == apply(m, InsertValidatorUpdate(tx.disk, cluster, pubkey, recipient, known))
           mine == get_own_operator_id_tx(d, known) \in cluster_members(cluster)
           row == [fee_recipient |-> recipient, liquidated |-> FALSE]
           oc == IF mine THEN m.own_clusters \union {cluster} ELSE m.own_clusters
           sh == IF mine THEN m.shares \union {pubkey} ELSE m.shares
           cl == insert_or_ignore(d.clusters, cluster, [liquidated |-> FALSE])
           va == insert_or_ignore(d.validators, pubkey, [cluster |-> cluster, index |-> None])
           ow == insert_or_ignore(d.owners, cluster_owner(cluster), [fee_recipient |-> cluster_owner(cluster), nonce |-> None])
<1>1. e = [d EXCEPT !.clusters = cl, !.validators = va, !.owners = ow]
  BY DEF insert_validator_tx, cl, va, ow
<1>2. n = [m EXCEPT !.own_clusters = oc, !.shares = sh, !.clusters = insert_or_update(@, cluster, row),
               !.metadata = insert_or_update(@, pubkey, [cluster |-> cluster, index |-> None])]
  BY DEF InsertValidatorUpdate, apply, oc, sh, row
<1>a. TablesOK(d) /\ MemoryOK(m) /\ Mirrors(m, d)
  BY DEF Consistent
<1>b. /\ pubkey \notin DOMAIN d.validators /\ cluster_owner(cluster) \in DOMAIN d.owners
      /\ \A id \in cluster_members(cluster) : operator_exists_tx(d, id)
      /\ recipient = fee_recipient_for_owner(d, cluster_owner(cluster))
  OBVIOUS
<1> HIDE DEF e, n, d, mine, row, oc, sh, cl, va, ow
<1>3. e = Tables(d.block_number, d.max_operator_id_seen, d.operators, d.skipped_operator_adds, ow, cl, va)
  BY <1>a, <1>1 DEF TablesOK, Tables
<1>4. n = Memory(m.id, m.last_processed_block, m.max_operator_id_seen, m.operators, oc, sh, m.nonces,
                 insert_or_update(m.clusters, cluster, row),
                 insert_or_update(m.metadata, pubkey, [cluster |-> cluster, index |-> None]))
  BY <1>a, <1>2 DEF MemoryOK, Memory
<1>5. /\ e.block_number = d.block_number /\ e.max_operator_id_seen = d.max_operator_id_seen
      /\ e.operators = d.operators /\ e.skipped_operator_adds = d.skipped_operator_adds
      /\ e.owners = ow
      /\ e.clusters = cl
      /\ e.validators = va
  BY <1>3 DEF Tables
<1>6. /\ n.id = m.id /\ n.last_processed_block = m.last_processed_block
      /\ n.max_operator_id_seen = m.max_operator_id_seen /\ n.operators = m.operators
      /\ n.own_clusters = oc
      /\ n.shares = sh
      /\ n.nonces = m.nonces
      /\ n.clusters = insert_or_update(m.clusters, cluster, row)
      /\ n.metadata = insert_or_update(m.metadata, pubkey, [cluster |-> cluster, index |-> None])
  BY <1>4 DEF Memory
<1>c. ow = d.owners
  BY <1>a, <1>b DEF ow, insert_or_ignore, TablesOK, OwnersOK, IsMap
<1>d. /\ DOMAIN cl = DOMAIN d.clusters \union {cluster} /\ IsMap(cl)
      /\ \A c \in DOMAIN d.clusters : cl[c] = d.clusters[c]
      /\ cluster \notin DOMAIN d.clusters => cl[cluster] = [liquidated |-> FALSE]
  BY DEF cl, insert_or_ignore, IsMap
<1>e. /\ DOMAIN va = DOMAIN d.validators \union {pubkey} /\ IsMap(va)
      /\ \A v \in DOMAIN d.validators : va[v] = d.validators[v]
      /\ va[pubkey] = [cluster |-> cluster, index |-> None]
  BY <1>b DEF va, insert_or_ignore, IsMap
<1>f. /\ DOMAIN n.clusters = DOMAIN m.clusters \union {cluster} /\ IsMap(n.clusters)
      /\ \A c \in DOMAIN m.clusters : c # cluster => n.clusters[c] = m.clusters[c]
      /\ n.clusters[cluster] = row
  BY <1>6 DEF insert_or_update, IsMap
<1>g. row.fee_recipient = recipient /\ row.liquidated = FALSE
      /\ row = [fee_recipient |-> row.fee_recipient, liquidated |-> row.liquidated]
  BY DEF row
<1>7. TablesOK(e)
  <2>1. OperatorsOK(e) /\ OwnersOK(e)
    BY <1>a, <1>5, <1>c DEF TablesOK, OperatorsOK, OwnersOK
  <2>2. cluster_members(cluster) \subseteq DOMAIN d.operators
    BY <1>b DEF operator_exists_tx
  <2>3. ASSUME NEW c \in DOMAIN cl
        PROVE  /\ cl[c] = [liquidated |-> cl[c].liquidated]
               /\ cl[c].liquidated \in BOOLEAN
               /\ cluster_members(c) \subseteq DOMAIN d.operators
    <3>1. CASE c \in DOMAIN d.clusters
      BY <1>a, <1>d, <3>1 DEF TablesOK, ClustersOK
    <3>2. CASE c \notin DOMAIN d.clusters
      <4>1. c = cluster /\ cl[c] = [liquidated |-> FALSE]
        BY <1>d, <2>3, <3>2
      <4> QED
        BY <2>2, <4>1
    <3> QED
      BY <3>1, <3>2
  <2>4. ClustersOK(e)
    BY <1>5, <1>d, <2>3 DEF ClustersOK
  <2>5. ASSUME NEW v \in DOMAIN va
        PROVE  va[v] = [cluster |-> va[v].cluster, index |-> va[v].index] /\ va[v].cluster \in DOMAIN cl
    <3>1. CASE v \in DOMAIN d.validators
      BY <1>a, <1>d, <1>e, <3>1 DEF TablesOK, ValidatorsOK
    <3>2. CASE v = pubkey
      BY <1>d, <1>e, <3>2
    <3> QED
      BY <1>e, <2>5, <3>1, <3>2
  <2>6. ValidatorsOK(e)
    BY SMTT(60), <1>5, <1>e, <2>5 DEF ValidatorsOK
  <2> QED
    BY <1>3, <1>5, <2>1, <2>4, <2>6 DEF TablesOK
<1>8. MemoryOK(n)
  <2>1. ASSUME NEW c \in DOMAIN n.clusters
        PROVE  n.clusters[c] = [fee_recipient |-> n.clusters[c].fee_recipient, liquidated |-> n.clusters[c].liquidated]
    <3>1. CASE c = cluster
      BY <1>f, <1>g, <3>1, Zenon
    <3>2. CASE c # cluster
      BY <1>a, <1>f, <2>1, <3>2 DEF MemoryOK
    <3> QED
      BY <3>1, <3>2
  <2> QED
    BY <1>4, <1>6, <1>f, <2>1 DEF MemoryOK
<1>9. Mirrors(n, e)
  <2>1. \A o : fee_recipient_for_owner(e, o) = fee_recipient_for_owner(d, o)
    BY <1>5, <1>c DEF fee_recipient_for_owner
  <2>2. RecipientsMirror(n, e)
    <3>1. DOMAIN n.clusters = DOMAIN e.clusters
      BY <1>a, <1>5, <1>d, <1>f DEF Mirrors, RecipientsMirror
    <3>2. ASSUME NEW c \in DOMAIN e.clusters
          PROVE  n.clusters[c].fee_recipient = fee_recipient_for_owner(e, cluster_owner(c))
      <4>1. CASE c = cluster
        BY <1>b, <1>f, <1>g, <2>1, <4>1
      <4>2. CASE c # cluster
        <5>1. c \in DOMAIN m.clusters /\ c \in DOMAIN d.clusters
          BY <1>f, <3>1, <3>2, <4>2, <1>a DEF Mirrors, RecipientsMirror
        <5> QED
          BY <1>a, <1>f, <2>1, <4>2, <5>1 DEF Mirrors, RecipientsMirror
      <4> QED
        BY <4>1, <4>2
    <3> QED
      BY <3>1, <3>2 DEF RecipientsMirror
  <2>3. n.metadata = e.validators
    <3>1. m.metadata = d.validators
      BY <1>a DEF Mirrors
    <3>2. \A v \in DOMAIN d.validators : v # pubkey
      BY <1>b
    <3> QED
      BY <1>5, <1>6, <3>1, <3>2 DEF va, insert_or_update, insert_or_ignore
  <2> QED
    BY <1>a, <1>5, <1>6, <1>c, <2>2, <2>3 DEF Mirrors, fetch_operators, fetch_nonces, operator_exists_tx
<1>10. ASSUME NotLiquidated(d, cluster), FlagsMirror(m, d)
       PROVE  FlagsMirror(n, e)
  <2> SUFFICES ASSUME NEW c \in DOMAIN e.clusters
               PROVE  n.clusters[c].liquidated = e.clusters[c].liquidated
    BY DEF FlagsMirror
  <2>1. CASE c = cluster
    <3>1. e.clusters[c].liquidated = FALSE
      BY <1>5, <1>10, <1>d, <2>1 DEF NotLiquidated
    <3> QED
      BY <1>f, <1>g, <2>1, <3>1
  <2>2. CASE c # cluster
    <3>1. c \in DOMAIN d.clusters /\ e.clusters[c] = d.clusters[c]
      BY <1>5, <1>d, <2>2
    <3>2. c \in DOMAIN m.clusters
      BY <1>a, <3>1 DEF Mirrors, RecipientsMirror
    <3> QED
      BY <1>10, <1>f, <2>2, <3>1, <3>2 DEF FlagsMirror
  <2> QED
    BY <2>1, <2>2
<1>11. ASSUME NEW own, known # None => m.id = known, OwnMirrors(m, d, own)
       PROVE  OwnMirrors(n, e, own)
  <2>1. mine <=> m.id # None /\ m.id \in cluster_members(cluster)
    <3>1. \A id \in cluster_members(cluster) : operator_exists_tx(d, id)
      BY <1>b
    <3> QED
      BY <1>a, <1>11, <3>1, OwnOperator DEF mine
  <2>2. n.shares = {v \in DOMAIN e.validators : n.id # None /\ n.id \in cluster_members(e.validators[v].cluster)}
    <3>1. \A v \in DOMAIN va : v \in sh <=> m.id # None /\ m.id \in cluster_members(va[v].cluster)
      <4> TAKE v \in DOMAIN va
      <4>1. CASE v = pubkey
        <5>1. pubkey \notin m.shares
          BY <1>b, <1>11 DEF OwnMirrors
        <5> QED
          BY <1>e, <2>1, <4>1, <5>1 DEF sh
      <4>2. CASE v # pubkey
        <5>1. v \in DOMAIN d.validators /\ va[v] = d.validators[v]
          BY <1>e, <4>2
        <5>2. v \in sh <=> v \in m.shares
          BY <4>2 DEF sh
        <5> QED
          BY <1>11, <5>1, <5>2 DEF OwnMirrors
      <4> QED
        BY <4>1, <4>2
    <3>2. sh \subseteq DOMAIN va
      BY <1>e, <1>11 DEF sh, OwnMirrors
    <3> QED
      BY <1>5, <1>6, <3>1, <3>2
  <2>3. n.own_clusters = {e.validators[v].cluster : v \in n.shares}
    <3>1. \A v \in m.shares : v \in DOMAIN d.validators /\ va[v] = d.validators[v]
      BY <1>e, <1>11 DEF OwnMirrors
    <3>2. m.own_clusters = {va[v].cluster : v \in m.shares}
      BY <1>11, <3>1 DEF OwnMirrors
    <3>3. va[pubkey].cluster = cluster
      BY <1>e
    <3>4. oc = {va[v].cluster : v \in sh}
      BY <3>2, <3>3 DEF oc, sh
    <3> QED
      BY <1>5, <1>6, <3>4
  <2> QED
    BY <1>5, <1>6, <1>11, <2>2, <2>3 DEF OwnMirrors, OwnIds, operator_exists_tx
<1> QED
  BY <1>6, <1>7, <1>8, <1>9, <1>10, <1>11 DEF Consistent, d, e, n

LEMMA UpdateClusterStatus ==
    ASSUME NEW m, NEW tx, Consistent(m, tx.disk),
           NEW cluster,
           NEW liquidated \in BOOLEAN
    PROVE  LET e == update_status_tx(tx, cluster, liquidated).disk
               n == apply(m, [kind |-> "UpdateClusterStatus", cluster |-> cluster, liquidated |-> liquidated])
           IN  /\ Consistent(n, e)
               /\ FlagsMirror(m, tx.disk) => FlagsMirror(n, e)
               /\ \A own : OwnMirrors(m, tx.disk, own) => OwnMirrors(n, e, own)
               /\ n.id = m.id
<1> DEFINE d == tx.disk
           e == update_status_tx(tx, cluster, liquidated).disk
           n == apply(m, [kind |-> "UpdateClusterStatus", cluster |-> cluster, liquidated |-> liquidated])
           cl == IF cluster \in DOMAIN d.clusters THEN [d.clusters EXCEPT ![cluster].liquidated = liquidated] ELSE d.clusters
           mc == IF cluster \in DOMAIN m.clusters THEN [m.clusters EXCEPT ![cluster].liquidated = liquidated] ELSE m.clusters
<1>1. e = [d EXCEPT !.clusters = cl]
  BY DEF update_status_tx, cl
<1>2. n = [m EXCEPT !.clusters = mc]
  BY DEF apply, mc
<1>a. TablesOK(d) /\ MemoryOK(m) /\ Mirrors(m, d)
  BY DEF Consistent
<1> HIDE DEF e, n, d, cl, mc
<1>3. e = Tables(d.block_number, d.max_operator_id_seen, d.operators, d.skipped_operator_adds, d.owners, cl,
                 d.validators)
  BY <1>a, <1>1 DEF TablesOK, Tables
<1>4. n = Memory(m.id, m.last_processed_block, m.max_operator_id_seen, m.operators, m.own_clusters, m.shares,
                 m.nonces, mc, m.metadata)
  BY <1>a, <1>2 DEF MemoryOK, Memory
<1>5. /\ e.block_number = d.block_number /\ e.max_operator_id_seen = d.max_operator_id_seen
      /\ e.operators = d.operators /\ e.skipped_operator_adds = d.skipped_operator_adds /\ e.owners = d.owners
      /\ e.clusters = cl
      /\ e.validators = d.validators
  BY <1>3 DEF Tables
<1>6. /\ n.id = m.id /\ n.last_processed_block = m.last_processed_block
      /\ n.max_operator_id_seen = m.max_operator_id_seen /\ n.operators = m.operators
      /\ n.own_clusters = m.own_clusters /\ n.shares = m.shares /\ n.nonces = m.nonces
      /\ n.clusters = mc
      /\ n.metadata = m.metadata
  BY <1>4 DEF Memory
<1>c. /\ DOMAIN cl = DOMAIN d.clusters /\ IsMap(cl)
      /\ \A c \in DOMAIN d.clusters : c # cluster => cl[c] = d.clusters[c]
      /\ cluster \in DOMAIN d.clusters => cl[cluster] = [liquidated |-> liquidated]
  <2>1. ClustersOK(d)
    BY <1>a DEF TablesOK
  <2>2. CASE cluster \in DOMAIN d.clusters
    <3>1. cl = [d.clusters EXCEPT ![cluster].liquidated = liquidated]
      BY <2>2 DEF cl
    <3>2. d.clusters[cluster] = [liquidated |-> d.clusters[cluster].liquidated]
      BY <2>1, <2>2 DEF ClustersOK
    <3>3. \A r, a : r = [liquidated |-> a] => [r EXCEPT !.liquidated = liquidated] = [liquidated |-> liquidated]
      OBVIOUS
    <3>4. [d.clusters[cluster] EXCEPT !.liquidated = liquidated] = [liquidated |-> liquidated]
      BY <3>2, <3>3, Zenon
    <3>5. DOMAIN cl = DOMAIN d.clusters /\ \A c \in DOMAIN d.clusters : c # cluster => cl[c] = d.clusters[c]
      BY <2>2, <3>1
    <3>6. cl[cluster] = [d.clusters[cluster] EXCEPT !.liquidated = liquidated]
      BY <2>2, <3>1
    <3>7. cl = [c \in DOMAIN d.clusters |-> cl[c]]
      BY <3>1
    <3> QED
      BY <3>4, <3>5, <3>6, <3>7 DEF IsMap
  <2>3. CASE cluster \notin DOMAIN d.clusters
    BY <2>1, <2>3 DEF cl, ClustersOK
  <2> QED
    BY <2>2, <2>3
<1>d. DOMAIN m.clusters = DOMAIN d.clusters
  BY <1>a DEF Mirrors, RecipientsMirror
<1>f. /\ DOMAIN mc = DOMAIN m.clusters /\ IsMap(mc)
      /\ \A c \in DOMAIN m.clusters : c # cluster => mc[c] = m.clusters[c]
      /\ cluster \in DOMAIN m.clusters =>
            mc[cluster] = [fee_recipient |-> m.clusters[cluster].fee_recipient, liquidated |-> liquidated]
  <2>2. CASE cluster \in DOMAIN m.clusters
    <3>1. mc = [m.clusters EXCEPT ![cluster].liquidated = liquidated]
      BY <2>2 DEF mc
    <3>2. m.clusters[cluster] = [fee_recipient |-> m.clusters[cluster].fee_recipient,
                                 liquidated |-> m.clusters[cluster].liquidated]
      BY <1>a, <2>2 DEF MemoryOK
    <3>4. [m.clusters[cluster] EXCEPT !.liquidated = liquidated]
            = [fee_recipient |-> m.clusters[cluster].fee_recipient, liquidated |-> liquidated]
      BY <3>2, ClusterRow
    <3>5. DOMAIN mc = DOMAIN m.clusters /\ \A c \in DOMAIN m.clusters : c # cluster => mc[c] = m.clusters[c]
      BY <2>2, <3>1
    <3>6. mc[cluster] = [m.clusters[cluster] EXCEPT !.liquidated = liquidated]
      BY <2>2, <3>1
    <3>7. mc = [c \in DOMAIN m.clusters |-> mc[c]]
      BY <3>1
    <3> QED
      BY <3>4, <3>5, <3>6, <3>7 DEF IsMap
  <2>3. CASE cluster \notin DOMAIN m.clusters
    BY <1>a, <2>3 DEF mc, MemoryOK
  <2> QED
    BY <2>2, <2>3
<1>g. ASSUME NEW c \in DOMAIN m.clusters
      PROVE  /\ mc[c].fee_recipient = m.clusters[c].fee_recipient
             /\ mc[c] = [fee_recipient |-> mc[c].fee_recipient, liquidated |-> mc[c].liquidated]
             /\ c = cluster => mc[c].liquidated = liquidated
  <2>1. CASE c = cluster
    <3>1. mc[c] = [fee_recipient |-> m.clusters[c].fee_recipient, liquidated |-> liquidated]
      BY <1>f, <1>g, <2>1
    <3> QED
      BY <3>1, ClusterRow
  <2>2. CASE c # cluster
    BY <1>a, <1>f, <1>g, <2>2 DEF MemoryOK
  <2> QED
    BY <2>1, <2>2
<1>7. TablesOK(e)
  <2>1. OperatorsOK(e) /\ OwnersOK(e) /\ ValidatorsOK(e)
    BY <1>a, <1>5, <1>c DEF TablesOK, OperatorsOK, OwnersOK, ValidatorsOK
  <2>2. ASSUME NEW c \in DOMAIN cl
        PROVE  /\ cl[c] = [liquidated |-> cl[c].liquidated]
               /\ cl[c].liquidated \in BOOLEAN
               /\ cluster_members(c) \subseteq DOMAIN d.operators
    <3>1. CASE c = cluster
      <4>1. cl[c] = [liquidated |-> liquidated]
        BY <1>c, <2>2, <3>1
      <4>2. cl[c].liquidated = liquidated
        BY <4>1
      <4>3. cl[c] = [liquidated |-> cl[c].liquidated]
        BY <4>1, <4>2, Zenon
      <4>4. cluster_members(c) \subseteq DOMAIN d.operators
        BY <1>a, <1>c, <2>2 DEF TablesOK, ClustersOK
      <4> QED
        BY <4>2, <4>3, <4>4, Zenon
    <3>2. CASE c # cluster
      BY <1>a, <1>c, <2>2, <3>2 DEF TablesOK, ClustersOK
    <3> QED
      BY <3>1, <3>2
  <2>3. ClustersOK(e)
    BY <1>5, <1>c, <2>2 DEF ClustersOK
  <2> QED
    BY <1>3, <1>5, <2>1, <2>3 DEF TablesOK
<1>8. MemoryOK(n)
  BY <1>4, <1>6, <1>f, <1>g DEF MemoryOK
<1>9. Mirrors(n, e)
  <2>1. RecipientsMirror(n, e)
    <3>1. \A o : fee_recipient_for_owner(e, o) = fee_recipient_for_owner(d, o)
      BY <1>5 DEF fee_recipient_for_owner
    <3> QED
      BY <1>a, <1>5, <1>6, <1>c, <1>d, <1>f, <1>g, <3>1 DEF Mirrors, RecipientsMirror
  <2> QED
    BY <1>a, <1>5, <1>6, <2>1 DEF Mirrors, fetch_operators, fetch_nonces, operator_exists_tx
<1>10. ASSUME FlagsMirror(m, d) PROVE FlagsMirror(n, e)
  <2> SUFFICES ASSUME NEW c \in DOMAIN e.clusters
               PROVE  n.clusters[c].liquidated = e.clusters[c].liquidated
    BY DEF FlagsMirror
  <2>1. c \in DOMAIN d.clusters /\ c \in DOMAIN m.clusters
    BY <1>5, <1>c, <1>d
  <2>2. CASE c = cluster
    <3>1. cl[c].liquidated = liquidated
      BY <1>c, <2>1, <2>2
    <3> QED
      BY <1>5, <1>6, <1>g, <2>1, <2>2, <3>1
  <2>3. CASE c # cluster
    BY <1>5, <1>6, <1>10, <1>c, <1>f, <2>1, <2>3 DEF FlagsMirror
  <2> QED
    BY <2>2, <2>3
<1>11. \A own : OwnMirrors(m, d, own) => OwnMirrors(n, e, own)
  BY <1>a, <1>5, <1>6 DEF OwnMirrors, OwnIds, operator_exists_tx
<1> QED
  BY <1>6, <1>7, <1>8, <1>9, <1>10, <1>11 DEF Consistent, d, e, n

LEMMA DeleteValidator ==
    ASSUME NEW m, NEW tx, Consistent(m, tx.disk),
           NEW pubkey,
           pubkey \in DOMAIN tx.disk.validators
    PROVE  LET e == delete_validator_tx(tx, pubkey).disk
               n == apply(m, [kind |-> "DeleteValidator", validator |-> pubkey])
           IN  /\ Consistent(n, e)
               /\ FlagsMirror(m, tx.disk) => FlagsMirror(n, e)
               /\ \A own : OwnMirrors(m, tx.disk, own) => OwnMirrors(n, e, own)
               /\ n.id = m.id
<1> DEFINE d == tx.disk
           e == delete_validator_tx(tx, pubkey).disk
           n == apply(m, [kind |-> "DeleteValidator", validator |-> pubkey])
           cluster == d.validators[pubkey].cluster
           left == Without(d.validators, {pubkey})
           last == \A v \in DOMAIN left : left[v].cluster # cluster
           gone == IF last THEN {cluster} ELSE {}
           cl == IF last THEN Without(d.clusters, {cluster}) ELSE d.clusters
           orphans == {id \in DOMAIN d.operators :
                          /\ last /\ id \in cluster_members(cluster)
                          /\ d.operators[id].removed
                          /\ \A c \in DOMAIN cl : id \notin cluster_members(c)}
<1>1. e = [d EXCEPT !.validators = left, !.clusters = cl, !.operators = Without(@, orphans)]
  BY DEF delete_validator_tx, left, last, cl, orphans, cluster
<1>2. n = [m EXCEPT !.shares = @ \ {pubkey}, !.metadata = left,
               !.clusters = Without(@, gone), !.own_clusters = @ \ gone]
  BY DEF apply, left, last, gone, cluster, Mirrors, Consistent
<1>a. TablesOK(d) /\ MemoryOK(m) /\ Mirrors(m, d)
  BY DEF Consistent
<1>b. pubkey \in DOMAIN d.validators
  OBVIOUS
<1> HIDE DEF e, n, d, cluster, left, last, gone, cl, orphans
<1>3. e = Tables(d.block_number, d.max_operator_id_seen, Without(d.operators, orphans), d.skipped_operator_adds,
                 d.owners, cl, left)
  BY <1>a, <1>1 DEF TablesOK, Tables
<1>4. n = Memory(m.id, m.last_processed_block, m.max_operator_id_seen, m.operators, m.own_clusters \ gone,
                 m.shares \ {pubkey}, m.nonces, Without(m.clusters, gone), left)
  BY <1>a, <1>2 DEF MemoryOK, Memory
<1>5. /\ e.block_number = d.block_number /\ e.max_operator_id_seen = d.max_operator_id_seen
      /\ e.operators = Without(d.operators, orphans)
      /\ e.skipped_operator_adds = d.skipped_operator_adds /\ e.owners = d.owners
      /\ e.clusters = cl
      /\ e.validators = left
  BY <1>3 DEF Tables
<1>6. /\ n.id = m.id /\ n.last_processed_block = m.last_processed_block
      /\ n.max_operator_id_seen = m.max_operator_id_seen /\ n.operators = m.operators
      /\ n.own_clusters = m.own_clusters \ gone
      /\ n.shares = m.shares \ {pubkey}
      /\ n.nonces = m.nonces
      /\ n.clusters = Without(m.clusters, gone)
      /\ n.metadata = left
  BY <1>4 DEF Memory
<1>c. /\ DOMAIN left = DOMAIN d.validators \ {pubkey} /\ IsMap(left)
      /\ \A v \in DOMAIN left : left[v] = d.validators[v]
  BY DEF left, Without, Restrict, IsMap
<1>d. /\ DOMAIN cl = DOMAIN d.clusters \ gone /\ IsMap(cl)
      /\ \A c \in DOMAIN cl : cl[c] = d.clusters[c]
  BY <1>a DEF cl, gone, Without, Restrict, IsMap, TablesOK, ClustersOK
<1>e. /\ DOMAIN e.operators = DOMAIN d.operators \ orphans /\ IsMap(e.operators)
      /\ \A o \in DOMAIN e.operators : e.operators[o] = d.operators[o]
  BY <1>5 DEF Without, Restrict, IsMap
<1>f. /\ DOMAIN n.clusters = DOMAIN m.clusters \ gone /\ IsMap(n.clusters)
      /\ \A c \in DOMAIN n.clusters : n.clusters[c] = m.clusters[c]
  BY <1>6 DEF Without, Restrict, IsMap
<1>g. \A v \in DOMAIN left : left[v].cluster \notin gone
  BY DEF gone, last
<1>h. \A id \in orphans : ~operator_exists_tx(d, id) /\ \A c \in DOMAIN cl : id \notin cluster_members(c)
  BY DEF orphans, operator_exists_tx
<1>i. DOMAIN m.clusters = DOMAIN d.clusters
  BY <1>a DEF Mirrors, RecipientsMirror
<1>j. \A o : operator_exists_tx(e, o) <=> operator_exists_tx(d, o)
  BY <1>e, <1>h DEF operator_exists_tx
<1>7. TablesOK(e)
  <2>1. OwnersOK(e)
    BY <1>a, <1>5 DEF TablesOK, OwnersOK
  <2>2. OperatorsOK(e)
    BY <1>a, <1>5, <1>e DEF TablesOK, OperatorsOK
  <2>3. ClustersOK(e)
    <3>1. \A c \in DOMAIN cl : c \in DOMAIN d.clusters /\ cluster_members(c) \subseteq DOMAIN e.operators
      BY <1>a, <1>d, <1>e, <1>h DEF TablesOK, ClustersOK
    <3> QED
      BY <1>a, <1>5, <1>d, <3>1 DEF TablesOK, ClustersOK
  <2>4. ValidatorsOK(e)
    <3>1. \A v \in DOMAIN left : /\ left[v] = [cluster |-> left[v].cluster, index |-> left[v].index]
                                 /\ left[v].cluster \in DOMAIN cl
      BY <1>a, <1>c, <1>d, <1>g DEF TablesOK, ValidatorsOK
    <3> QED
      BY <1>5, <1>c, <3>1 DEF ValidatorsOK
  <2> QED
    BY <1>3, <1>5, <2>1, <2>2, <2>3, <2>4 DEF TablesOK
<1>8. MemoryOK(n)
  <2>1. \A c \in DOMAIN n.clusters :
           n.clusters[c] = [fee_recipient |-> n.clusters[c].fee_recipient, liquidated |-> n.clusters[c].liquidated]
    BY <1>a, <1>f DEF MemoryOK
  <2> QED
    BY <1>4, <1>6, <1>f, <2>1 DEF MemoryOK
<1>9. Mirrors(n, e)
  <2>1. RecipientsMirror(n, e)
    <3>1. \A o : fee_recipient_for_owner(e, o) = fee_recipient_for_owner(d, o)
      BY <1>5 DEF fee_recipient_for_owner
    <3> QED
      BY <1>a, <1>5, <1>d, <1>f, <1>i, <3>1 DEF Mirrors, RecipientsMirror
  <2>2. fetch_operators(e) = fetch_operators(d)
    <3>1. {p \in DOMAIN e.operators : operator_exists_tx(e, p)} = {p \in DOMAIN d.operators : operator_exists_tx(d, p)}
      BY <1>j DEF operator_exists_tx
    <3>2. \A p \in {q \in DOMAIN d.operators : operator_exists_tx(d, q)} : e.operators[p] = d.operators[p]
      BY <1>e, <3>1
    <3> QED
      BY <3>1, <3>2 DEF fetch_operators
  <2> QED
    BY <1>a, <1>5, <1>6, <2>1, <2>2 DEF Mirrors, fetch_nonces
<1>10. FlagsMirror(m, d) => FlagsMirror(n, e)
  BY <1>5, <1>d, <1>f, <1>i DEF FlagsMirror
<1>11. ASSUME NEW own, OwnMirrors(m, d, own)
       PROVE  OwnMirrors(n, e, own)
  <2>1. OwnIds(e) \subseteq OwnIds(d)
    BY <1>e, <1>j DEF OwnIds
  <2>2. n.shares = {v \in DOMAIN e.validators : n.id # None /\ n.id \in cluster_members(e.validators[v].cluster)}
    BY <1>5, <1>6, <1>11, <1>c DEF OwnMirrors
  <2>3. n.own_clusters = {e.validators[v].cluster : v \in n.shares}
    <3>1. ASSUME NEW c \in n.own_clusters PROVE c \in {left[v].cluster : v \in n.shares}
      <4>1. c \in m.own_clusters /\ c \notin gone
        BY <1>6, <3>1
      <4>2. PICK v \in m.shares : c = d.validators[v].cluster
        BY <1>11, <4>1 DEF OwnMirrors
      <4>3. v \in DOMAIN d.validators /\ m.id # None /\ m.id \in cluster_members(c)
        BY <1>11, <4>2 DEF OwnMirrors
      <4>4. CASE v # pubkey
        BY <1>6, <1>c, <4>2, <4>3, <4>4
      <4>5. CASE v = pubkey
        <5>1. ~last
          BY <4>1, <4>2, <4>5 DEF gone, cluster
        <5>2. PICK w \in DOMAIN left : left[w].cluster = c
          BY <4>2, <4>5, <5>1 DEF last, cluster
        <5>3. w \in m.shares /\ w # pubkey
          BY <1>11, <1>c, <4>3, <5>2 DEF OwnMirrors
        <5> QED
          BY <1>6, <5>2, <5>3
      <4> QED
        BY <4>4, <4>5
    <3>2. ASSUME NEW v \in n.shares PROVE left[v].cluster \in n.own_clusters
      <4>1. v \in m.shares /\ v \in DOMAIN left
        BY <1>6, <1>11, <1>c DEF OwnMirrors
      <4>2. left[v].cluster \in m.own_clusters
        BY <1>11, <1>c, <4>1 DEF OwnMirrors
      <4> QED
        BY <1>6, <1>g, <4>1, <4>2
    <3> QED
      BY <1>5, <3>1, <3>2
  <2> QED
    BY <1>5, <1>6, <1>11, <1>e, <2>1, <2>2, <2>3 DEF OwnMirrors
<1> QED
  BY <1>6, <1>7, <1>8, <1>9, <1>10, <1>11 DEF Consistent, d, e, n

---------------------------------------------------------------------------
(* One log: what its handler does to the tables, and what the updates it   *)
(* queues will do to memory.                                               *)

IsTx(tx) == tx = [disk |-> tx.disk, updates |-> tx.updates]

IsContext(ctx) == ctx = [tx |-> ctx.tx, index_sync |-> ctx.index_sync, exits |-> ctx.exits,
                         registered |-> ctx.registered, abort |-> ctx.abort]

ContextOK(ctx) ==
    /\ IsContext(ctx) /\ IsTx(ctx.tx)
    /\ IsSeq(ctx.tx.updates)
    /\ IsSeq(ctx.exits)
    /\ ctx.abort \in BOOLEAN

\* Memory once the updates of a transaction are published.
Published(mem0, tx) == publish_pending_state_updates(mem0, tx.updates)

\* A log takes memory m and tables d to memory n and tables f.
LogStep(m, d, n, f, e, known) ==
    /\ Consistent(n, f)
    /\ m.id # None => n.id = m.id
    /\ (e.type = "ValidatorAdded" => NotLiquidated(d, compute_cluster_id(e))) /\ FlagsMirror(m, d) => FlagsMirror(n, f)
    /\ \A own : /\ OwnMirrors(m, d, own)
                /\ \A a, b \in own : a = b
                /\ known # None => m.id = known
                /\ e.type = "OperatorAdded" /\ e.key = OwnKey => e.id \in own
                => OwnMirrors(n, f, own)

Queue(updates, u) == Append(updates, u)

LEMMA Queued ==
    ASSUME NEW mem0, NEW tx, IsSeq(tx.updates), NEW next, NEW u, next.updates = Queue(tx.updates, u)
    PROVE  Published(mem0, next) = apply(Published(mem0, tx), u) /\ IsSeq(next.updates)
BY PublishOneMore, AppendFacts DEF Published, Queue

LEMMA NoStep ==
    ASSUME NEW m, NEW d, Consistent(m, d), NEW e, NEW known
    PROVE  LogStep(m, d, m, d, e, known)
BY DEF LogStep

LEMMA SkippedTx ==
    ASSUME NEW tx, IsTx(tx), NEW set
    PROVE  [tx EXCEPT !.disk.skipped_operator_adds = set]
              = [disk |-> [tx.disk EXCEPT !.skipped_operator_adds = set], updates |-> tx.updates]
<1>1. \A d, u : tx = [disk |-> d, updates |-> u] =>
        [tx EXCEPT !.disk.skipped_operator_adds = set] = [disk |-> [d EXCEPT !.skipped_operator_adds = set], updates |-> u]
  OBVIOUS
<1> QED
  BY <1>1, Zenon DEF IsTx

\* A context whose transaction is replaced.
LEMMA WithTx ==
    ASSUME NEW ctx, ContextOK(ctx), NEW tx, IsTx(tx), IsSeq(tx.updates)
    PROVE  LET next == [ctx EXCEPT !.tx = tx]
           IN  /\ ContextOK(next) /\ next.tx = tx /\ next.index_sync = ctx.index_sync /\ next.exits = ctx.exits
               /\ next.registered = ctx.registered /\ next.abort = ctx.abort
<1> DEFINE next == [ctx EXCEPT !.tx = tx]
<1>1. next = [tx |-> tx, index_sync |-> ctx.index_sync, exits |-> ctx.exits,
              registered |-> ctx.registered, abort |-> ctx.abort]
  BY DEF ContextOK, IsContext
<1> HIDE DEF next
<1>2. /\ next.tx = tx /\ next.index_sync = ctx.index_sync /\ next.exits = ctx.exits
      /\ next.registered = ctx.registered /\ next.abort = ctx.abort
  BY <1>1
<1>3. ContextOK(next)
  BY <1>1, <1>2 DEF ContextOK, IsContext
<1> QED
  BY <1>2, <1>3 DEF next

\* What every handler does.
HandlerOK(mem0, ctx, next, e, known) ==
    /\ ContextOK(next)
    /\ LogStep(Published(mem0, ctx.tx), ctx.tx.disk, Published(mem0, next.tx), next.tx.disk, e, known)
    /\ ctx.registered \subseteq next.registered
    /\ DOMAIN next.tx.disk.validators \subseteq DOMAIN ctx.tx.disk.validators \union next.registered
    /\ \/ next.exits = ctx.exits
       \/ e.type = "ValidatorExited" /\ next.exits = Queue(ctx.exits, e.validator)

LEMMA NothingDone ==
    ASSUME NEW mem0, NEW ctx, ContextOK(ctx), Consistent(Published(mem0, ctx.tx), ctx.tx.disk), NEW e, NEW known
    PROVE  HandlerOK(mem0, ctx, ctx, e, known)
BY NoStep DEF HandlerOK

LEMMA OneUpdate ==
    ASSUME NEW mem0, NEW ctx, ContextOK(ctx), NEW tx, NEW u, IsTx(tx), tx.updates = Queue(ctx.tx.updates, u),
           NEW e, NEW known, LogStep(Published(mem0, ctx.tx), ctx.tx.disk, apply(Published(mem0, ctx.tx), u), tx.disk, e, known),
           DOMAIN tx.disk.validators \subseteq DOMAIN ctx.tx.disk.validators
    PROVE  HandlerOK(mem0, ctx, [ctx EXCEPT !.tx = tx], e, known)
<1> DEFINE next == [ctx EXCEPT !.tx = tx]
<1>1. IsSeq(ctx.tx.updates)
  BY DEF ContextOK
<1>2. IsSeq(tx.updates) /\ Published(mem0, tx) = apply(Published(mem0, ctx.tx), u)
  BY <1>1, Queued
<1>3. /\ ContextOK(next) /\ next.tx = tx
      /\ next.exits = ctx.exits /\ next.registered = ctx.registered
  BY <1>2, WithTx
<1> HIDE DEF next
<1>4. HandlerOK(mem0, ctx, next, e, known)
  BY <1>2, <1>3 DEF HandlerOK
<1> QED
  BY <1>4 DEF next

LEMMA OperatorAdded ==
    ASSUME NEW mem0, NEW ctx, ContextOK(ctx), Consistent(Published(mem0, ctx.tx), ctx.tx.disk),
           NEW e, e.type = "OperatorAdded", Decoded(e), NEW known
    PROVE  LET next == process_operator_added(ctx, e)
           IN  HandlerOK(mem0, ctx, next, e, known) /\ next.abort = ctx.abort
<1> DEFINE d == ctx.tx.disk
           m == Published(mem0, ctx.tx)
           seen == set_max_operator_id_seen_tx(ctx.tx, e.id)
           m1 == Published(mem0, seen)
           refused == \/ operator_exists_tx(d, e.id)
                      \/ d.max_operator_id_seen # None /\ d.max_operator_id_seen # e.id - 1
           added == insert_operator_tx(seen, e.id, e.key)
           skipped == insert_skipped_operator_add_tx(seen, e.id)
           next == process_operator_added(ctx, e)
           u1 == [kind |-> "SetMaxOperatorIdSeen", id |-> e.id]
           u2 == [kind |-> "InsertOperator", id |-> e.id, key |-> e.key]
<1>1. e.id \in Nat /\ e.valid \in BOOLEAN
  BY DEF Decoded
<1>2. TablesOK(d) /\ Consistent(m, d)
  BY DEF Consistent
<1>u. IsSeq(ctx.tx.updates)
  BY DEF ContextOK
<1>3. CASE refused
  <2>1. next = ctx
    BY <1>3 DEF process_operator_added
  <2> HIDE DEF next
  <2> QED
    BY <2>1, NothingDone DEF next
<1>4. CASE ~refused
  <2>1. d.max_operator_id_seen \in Nat /\ d.max_operator_id_seen = e.id - 1 /\ e.id > d.max_operator_id_seen
    BY <1>1, <1>2, <1>4, OperatorIds, SyncAssumption
  <2>2. e.id \notin DOMAIN d.operators
    BY <1>1, <1>2, <2>1, OperatorIds
  <2>3. /\ IsTx(seen)
        /\ seen.updates = Queue(ctx.tx.updates, u1)
    BY DEF set_max_operator_id_seen_tx, IsTx, Queue
  <2>v. seen.disk.validators = d.validators
    BY <1>2 DEF set_max_operator_id_seen_tx, TablesOK, Tables
  <2>m. /\ seen.disk = set_max_operator_id_seen_tx(ctx.tx, e.id).disk
        /\ next = [ctx EXCEPT !.tx = IF e.valid /\ ~key_in_use_tx(d, e.key) THEN added ELSE skipped]
    BY <1>4 DEF process_operator_added
  <2> HIDE DEF next, added, skipped, seen, d, m, m1, refused, u1, u2
  <2>4. /\ m1 = apply(m, u1)
        /\ IsSeq(seen.updates)
    BY <1>u, <2>3, Queued DEF m, m1
  <2>5. /\ Consistent(m1, seen.disk) /\ m1.id = m.id
        /\ FlagsMirror(m, d) => FlagsMirror(m1, seen.disk)
        /\ \A own : OwnMirrors(m, d, own) => OwnMirrors(m1, seen.disk, own)
        /\ seen.disk.operators = d.operators /\ seen.disk.max_operator_id_seen = e.id
    <3>1. Consistent(m, ctx.tx.disk) /\ e.id > ctx.tx.disk.max_operator_id_seen
      BY <1>2, <2>1 DEF d
    <3> QED
      BY <1>1, <2>4, <2>m, <3>1, SetMaxOperatorId DEF d, u1
  <2>6. CASE e.valid /\ ~key_in_use_tx(d, e.key)
    <3>1. next = [ctx EXCEPT !.tx = added]
      BY <2>6, <2>m
    <3>2. /\ IsTx(added)
          /\ added.updates = Queue(seen.updates, u2)
      BY DEF added, insert_operator_tx, IsTx, Queue, u2
    <3>v. added.disk.validators = seen.disk.validators
      BY <2>5 DEF added, insert_operator_tx, Consistent, TablesOK, Tables
    <3>3. /\ Published(mem0, added) = apply(m1, u2)
          /\ IsSeq(added.updates)
      BY <2>4, <3>2, Queued DEF m1
    <3>4. /\ e.id \in 1..seen.disk.max_operator_id_seen /\ e.id \notin DOMAIN seen.disk.operators
          /\ ~key_in_use_tx(seen.disk, e.key)
      BY <1>1, <2>1, <2>2, <2>5, <2>6 DEF key_in_use_tx
    <3>5. /\ Consistent(Published(mem0, added), added.disk)
          /\ FlagsMirror(m1, seen.disk) => FlagsMirror(Published(mem0, added), added.disk)
          /\ \A own : m1.id # e.id /\ (e.key = OwnKey => e.id \in own /\ m1.id = None) /\ OwnMirrors(m1, seen.disk, own)
                         => OwnMirrors(Published(mem0, added), added.disk, own)
          /\ m1.id # None => Published(mem0, added).id = m1.id
      BY <2>5, <3>3, <3>4, InsertOperator DEF added, u2
    <3>6. ASSUME NEW own, OwnMirrors(m, d, own), \A a, b \in own : a = b, e.key = OwnKey => e.id \in own
          PROVE  OwnMirrors(Published(mem0, added), added.disk, own)
      <4>1. m.id # e.id
        BY <1>1, <2>1, <3>6, SyncAssumption DEF OwnMirrors
      <4>2. e.key = OwnKey => m.id = None
        BY <3>6, <4>1 DEF OwnMirrors
      <4> QED
        BY <2>5, <3>5, <3>6, <4>1, <4>2
    <3>7. LogStep(m, d, Published(mem0, added), added.disk, e, known)
      BY <2>5, <3>5, <3>6 DEF LogStep
    <3>8. /\ ContextOK(next) /\ next.tx = added
          /\ next.exits = ctx.exits /\ next.registered = ctx.registered /\ next.abort = ctx.abort
      BY <3>1, <3>2, <3>3, WithTx, Zenon
    <3> QED
      BY <2>v, <3>v, <3>3, <3>7, <3>8 DEF next, d, m, HandlerOK
  <2>7. CASE ~(e.valid /\ ~key_in_use_tx(d, e.key))
    <3>1. next = [ctx EXCEPT !.tx = skipped]
      BY <2>7, <2>m
    <3>2. skipped = [disk |-> [seen.disk EXCEPT !.skipped_operator_adds = seen.disk.skipped_operator_adds \union {e.id}],
                     updates |-> seen.updates]
      BY <2>3, SkippedTx DEF skipped, insert_skipped_operator_add_tx
    <3>3. /\ IsTx(skipped)
          /\ IsSeq(skipped.updates) /\ Published(mem0, skipped) = m1
          /\ skipped.disk = [seen.disk EXCEPT !.skipped_operator_adds = seen.disk.skipped_operator_adds \union {e.id}]
      BY <2>4, <3>2 DEF Published, m1, IsTx
    <3>v. skipped.disk.validators = seen.disk.validators
      BY <2>5, <3>3 DEF Consistent, TablesOK, Tables
    <3>4. /\ Consistent(m1, skipped.disk)
          /\ FlagsMirror(m1, seen.disk) => FlagsMirror(m1, skipped.disk)
          /\ \A own : OwnMirrors(m1, seen.disk, own) => OwnMirrors(m1, skipped.disk, own)
      BY SMTT(60), <2>5, <3>3, SkippedOperatorAdds
    <3>5. LogStep(m, d, m1, skipped.disk, e, known)
      BY <2>5, <3>4 DEF LogStep
    <3>8. /\ ContextOK(next) /\ next.tx = skipped
          /\ next.exits = ctx.exits /\ next.registered = ctx.registered /\ next.abort = ctx.abort
      BY <3>1, <3>3, WithTx
    <3> QED
      BY <2>v, <3>v, <3>3, <3>5, <3>8 DEF next, d, m, HandlerOK
  <2> QED
    BY <2>6, <2>7
<1> QED
  BY <1>3, <1>4

LEMMA OperatorRemoved ==
    ASSUME NEW mem0, NEW ctx, ContextOK(ctx), Consistent(Published(mem0, ctx.tx), ctx.tx.disk),
           NEW e, e.type = "OperatorRemoved", NEW known
    PROVE  HandlerOK(mem0, ctx, process_operator_removed(ctx, e), e, known)
<1> DEFINE d == ctx.tx.disk
           m == Published(mem0, ctx.tx)
           skipped == delete_skipped_operator_add_tx(ctx.tx, e.id)
           deleted == delete_operator_tx(ctx.tx, e.id)
           next == process_operator_removed(ctx, e)
           u == [kind |-> "DeleteOperator", id |-> e.id]
<1>1. IsTx(ctx.tx) /\ IsSeq(ctx.tx.updates) /\ TablesOK(d) /\ Consistent(m, d)
  BY DEF ContextOK, Consistent
<1>2. CASE e.id \in d.skipped_operator_adds
  <2>1. next = [ctx EXCEPT !.tx = skipped]
    BY <1>2 DEF process_operator_removed
  <2>2. skipped = [disk |-> [d EXCEPT !.skipped_operator_adds = d.skipped_operator_adds \ {e.id}],
                   updates |-> ctx.tx.updates]
    BY <1>1, SkippedTx DEF delete_skipped_operator_add_tx
  <2> HIDE DEF next, skipped, deleted, d, m, u
  <2>3. /\ IsTx(skipped) /\ IsSeq(skipped.updates) /\ Published(mem0, skipped) = m
        /\ skipped.disk = [ctx.tx.disk EXCEPT !.skipped_operator_adds = d.skipped_operator_adds \ {e.id}]
    BY <1>1, <2>2 DEF Published, IsTx, m, d
  <2>4. skipped.disk.validators = d.validators
    BY <1>1, <2>3 DEF TablesOK, Tables, d
  <2>5. LogStep(m, d, m, skipped.disk, e, known)
    BY SMTT(60), <1>1, <2>3, SkippedOperatorAdds DEF LogStep, d
  <2>6. /\ ContextOK(next) /\ next.tx = skipped
        /\ next.exits = ctx.exits /\ next.registered = ctx.registered
    BY <2>1, <2>3, WithTx
  <2> QED
    BY <2>3, <2>4, <2>5, <2>6 DEF HandlerOK, next, d, m
<1>3. CASE e.id \notin d.skipped_operator_adds /\ operator_exists_tx(d, e.id)
  <2>1. next = [ctx EXCEPT !.tx = deleted]
    BY <1>3 DEF process_operator_removed
  <2>2. IsTx(deleted) /\ deleted.updates = Queue(ctx.tx.updates, u)
    BY DEF delete_operator_tx, IsTx, Queue
  <2>3. deleted.disk.validators = d.validators
    BY <1>1 DEF delete_operator_tx, TablesOK, Tables
  <2>4. LogStep(m, d, apply(m, u), deleted.disk, e, known)
    BY <1>1, <1>3, DeleteOperator DEF LogStep
  <2> HIDE DEF next, deleted, u
  <2> QED
    BY <2>1, <2>2, <2>3, <2>4, OneUpdate DEF next
<1>4. CASE e.id \notin d.skipped_operator_adds /\ ~operator_exists_tx(d, e.id)
  <2>1. next = [ctx EXCEPT !.abort = TRUE]
    BY <1>4 DEF process_operator_removed
  <2>2. /\ ContextOK(next) /\ next.tx = ctx.tx /\ next.exits = ctx.exits /\ next.registered = ctx.registered
    <3> HIDE DEF next
    <3>1. \A b : [ctx EXCEPT !.abort = b] = [tx |-> ctx.tx, index_sync |-> ctx.index_sync, exits |-> ctx.exits,
                                              registered |-> ctx.registered, abort |-> b]
      BY DEF ContextOK, IsContext
    <3>2. next = [tx |-> ctx.tx, index_sync |-> ctx.index_sync, exits |-> ctx.exits,
                  registered |-> ctx.registered, abort |-> TRUE]
      BY <2>1, <3>1, Zenon
    <3>3. next.tx = ctx.tx /\ next.exits = ctx.exits /\ next.registered = ctx.registered /\ next.index_sync = ctx.index_sync
      BY <3>2
    <3>4. next.abort = TRUE
      BY <3>2
    <3>5. IsContext(next)
      BY <3>2, <3>3, <3>4, Zenon DEF IsContext
    <3>6. next.abort \in BOOLEAN
      BY <3>4, Zenon
    <3> QED
      BY <3>3, <3>5, <3>6 DEF ContextOK
  <2> HIDE DEF next
  <2>3. LogStep(m, d, m, d, e, known)
    BY <1>1, NoStep
  <2> QED
    BY <2>2, <2>3 DEF HandlerOK, next
<1> QED
  BY <1>2, <1>3, <1>4

LEMMA InsertValidatorId ==
    ASSUME NEW m, MemoryOK(m), NEW d, NEW cluster, NEW pubkey, NEW recipient, NEW known
    PROVE  apply(m, InsertValidatorUpdate(d, cluster, pubkey, recipient, known)).id = m.id
<1> DEFINE own == get_own_operator_id_tx(d, known) \in cluster_members(cluster)
           u == [kind |-> "InsertValidator", cluster |-> cluster, validator |-> pubkey,
                 fee_recipient |-> recipient, own |-> own]
<1> HIDE DEF own
<1>1. InsertValidatorUpdate(d, cluster, pubkey, recipient, known) = u
  BY DEF InsertValidatorUpdate, own
<1>2. \A oc, sh, cl, md : [m EXCEPT !.own_clusters = oc, !.shares = sh, !.clusters = cl, !.metadata = md].id = m.id
  BY DEF MemoryOK, Memory
<1> DEFINE oc == IF u.own THEN m.own_clusters \union {u.cluster} ELSE m.own_clusters
           sh == IF u.own THEN m.shares \union {u.validator} ELSE m.shares
           cl == insert_or_update(m.clusters, u.cluster, [fee_recipient |-> u.fee_recipient, liquidated |-> FALSE])
           md == insert_or_update(m.metadata, u.validator, [cluster |-> u.cluster, index |-> None])
<1>3. apply(m, u) = [m EXCEPT !.own_clusters = oc, !.shares = sh, !.clusters = cl, !.metadata = md]
  BY DEF apply
<1> HIDE DEF oc, sh, cl, md, u
<1> QED
  BY <1>1, <1>2, <1>3

LEMMA ValidatorAdded ==
    ASSUME NEW mem0, NEW ctx, ContextOK(ctx), Consistent(Published(mem0, ctx.tx), ctx.tx.disk),
           NEW e, e.type = "ValidatorAdded", Decoded(e), NEW known
    PROVE  HandlerOK(mem0, ctx, process_validator_added(ctx, e, known), e, known)
<1> DEFINE d == ctx.tx.disk
           m == Published(mem0, ctx.tx)
           bumped == bump_and_get_nonce_tx(ctx.tx, e.owner)
           m1 == Published(mem0, bumped)
           recipient == fee_recipient_for_owner(bumped.disk, e.owner)
           accepted == /\ parse_shares(e)
                       /\ validate_operators(bumped.disk, e.operators)
                       /\ verify_signature(bumped.disk, e)
                       /\ ~validate_validator_added_conflict(bumped.disk, e)
           cluster == compute_cluster_id(e)
           added == insert_validator_tx(bumped, cluster, e.validator, recipient, known)
           u1 == [kind |-> "SetOwnerNonce", owner |-> e.owner, nonce |-> NextNonce(d, e.owner)]
           u2 == InsertValidatorUpdate(bumped.disk, cluster, e.validator, recipient, known)
           next == process_validator_added(ctx, e, known)
<1>1. IsTx(ctx.tx) /\ IsSeq(ctx.tx.updates) /\ TablesOK(d) /\ Consistent(m, d) /\ IsContext(ctx)
  BY DEF ContextOK, Consistent
<1>2. next = IF accepted THEN [ctx EXCEPT !.tx = added, !.registered = @ \union {e.validator},
                                          !.index_sync = @ \union {e.validator}]
             ELSE [ctx EXCEPT !.tx = bumped]
  BY DEF process_validator_added
<1>3. /\ IsTx(bumped) /\ bumped.updates = Queue(ctx.tx.updates, u1)
  BY DEF bump_and_get_nonce_tx, IsTx, Queue, NextNonce, OwnerRow
<1>4. /\ IsTx(added) /\ added.updates = Queue(bumped.updates, u2)
  BY DEF insert_validator_tx, IsTx, Queue, InsertValidatorUpdate
<1>5. cluster_owner(cluster) = e.owner /\ cluster_members(cluster) = e.operators
  BY DEF compute_cluster_id, cluster_owner, cluster_members
<1>6. accepted => /\ e.validator \notin DOMAIN bumped.disk.validators
                  /\ \A id \in e.operators : operator_exists_tx(bumped.disk, id)
  BY DEF validate_operators, validate_validator_added_conflict
<1>7. recipient = fee_recipient_for_owner(bumped.disk, cluster_owner(cluster))
  BY <1>5
<1> HIDE DEF d, m, bumped, m1, recipient, accepted, cluster, added, u1, u2, next
<1>8. m1 = apply(m, u1) /\ IsSeq(bumped.updates)
  BY <1>1, <1>3, Queued DEF m, m1
<1>9. /\ Consistent(m1, bumped.disk) /\ m1.id = m.id
      /\ FlagsMirror(m, d) => FlagsMirror(m1, bumped.disk)
      /\ \A own : OwnMirrors(m, d, own) => OwnMirrors(m1, bumped.disk, own)
      /\ e.owner \in DOMAIN bumped.disk.owners
      /\ bumped.disk.clusters = d.clusters /\ bumped.disk.validators = d.validators
  BY <1>1, <1>8, SetOwnerNonce DEF d, bumped, u1
<1>10. CASE ~accepted
  <2>1. next = [ctx EXCEPT !.tx = bumped]
    BY <1>2, <1>10
  <2>2. LogStep(m, d, apply(m, u1), bumped.disk, e, known)
    BY <1>8, <1>9 DEF LogStep
  <2> QED
    BY <1>3, <1>9, <2>1, <2>2, OneUpdate DEF next, d, m
<1>11. CASE accepted
  <2>1. next = [ctx EXCEPT !.tx = added, !.registered = @ \union {e.validator}, !.index_sync = @ \union {e.validator}]
    BY <1>2, <1>11
  <2>2. Published(mem0, added) = apply(m1, u2) /\ IsSeq(added.updates)
    BY <1>4, <1>8, Queued DEF m1
  <2>3. next = [tx |-> added, index_sync |-> ctx.index_sync \union {e.validator}, exits |-> ctx.exits,
                registered |-> ctx.registered \union {e.validator}, abort |-> ctx.abort]
    BY <1>1, <2>1 DEF IsContext
  <2>4. /\ next.tx = added /\ next.index_sync = ctx.index_sync \union {e.validator} /\ next.exits = ctx.exits
        /\ next.registered = ctx.registered \union {e.validator} /\ next.abort = ctx.abort
    BY <2>3
  <2>5. ContextOK(next)
    BY <1>4, <2>2, <2>3, <2>4 DEF ContextOK, IsContext
  <2>6. /\ Consistent(apply(m1, u2), added.disk)
        /\ NotLiquidated(bumped.disk, cluster) /\ FlagsMirror(m1, bumped.disk) => FlagsMirror(apply(m1, u2), added.disk)
        /\ \A own : (known # None => m1.id = known) /\ OwnMirrors(m1, bumped.disk, own)
                       => OwnMirrors(apply(m1, u2), added.disk, own)
        /\ apply(m1, u2).id = m1.id
    <3>1. /\ e.validator \notin DOMAIN bumped.disk.validators
          /\ cluster_owner(cluster) \in DOMAIN bumped.disk.owners
          /\ \A id \in cluster_members(cluster) : operator_exists_tx(bumped.disk, id)
      BY <1>5, <1>6, <1>9, <1>11
    <3>2. Consistent(m1, bumped.disk)
      BY <1>9
    <3>3. added = insert_validator_tx(bumped, cluster, e.validator, recipient, known)
      BY DEF added
    <3>4. u2 = InsertValidatorUpdate(bumped.disk, cluster, e.validator, recipient, known)
      BY DEF u2
    <3> DEFINE v == e.validator
    <3> HIDE DEF v
    <3>5. /\ v \notin DOMAIN bumped.disk.validators /\ v = e.validator
      BY <3>1 DEF v
    <3> DEFINE n == apply(m1, InsertValidatorUpdate(bumped.disk, cluster, v, recipient, known))
               f == insert_validator_tx(bumped, cluster, v, recipient, known).disk
    <3>6. Consistent(n, f)
      BY <1>7, <3>1, <3>2, <3>5, InsertValidator
    <3>7. NotLiquidated(bumped.disk, cluster) /\ FlagsMirror(m1, bumped.disk) => FlagsMirror(n, f)
      BY <1>7, <3>1, <3>2, <3>5, InsertValidator
    <3>8. \A own : (known # None => m1.id = known) /\ OwnMirrors(m1, bumped.disk, own) => OwnMirrors(n, f, own)
      BY <1>7, <3>1, <3>2, <3>5, InsertValidator
    <3>9. n.id = m1.id
      BY <3>2, InsertValidatorId DEF Consistent
    <3>10. n = apply(m1, u2) /\ f = added.disk
      BY <3>3, <3>4, <3>5
    <3> HIDE DEF n, f
    <3> QED
      BY <3>6, <3>7, <3>8, <3>9, <3>10
  <2>7. NotLiquidated(d, cluster) => NotLiquidated(bumped.disk, cluster)
    BY <1>9 DEF NotLiquidated
  <2>8. LogStep(m, d, apply(m1, u2), added.disk, e, known)
    BY <1>9, <2>6, <2>7 DEF LogStep, cluster
  <2>9. DOMAIN added.disk.validators \subseteq DOMAIN d.validators \union {e.validator}
    <3>1. added.disk.validators = insert_or_ignore(bumped.disk.validators, e.validator, [cluster |-> cluster, index |-> None])
      BY <1>9 DEF added, insert_validator_tx, Consistent, TablesOK, Tables
    <3> QED
      BY <1>9, <3>1 DEF insert_or_ignore
  <2> QED
    BY <2>2, <2>4, <2>5, <2>8, <2>9 DEF HandlerOK, next, d, m
<1> QED
  BY <1>10, <1>11

LEMMA ValidatorRemoved ==
    ASSUME NEW mem0, NEW ctx, ContextOK(ctx), Consistent(Published(mem0, ctx.tx), ctx.tx.disk),
           NEW e, e.type = "ValidatorRemoved", NEW known
    PROVE  HandlerOK(mem0, ctx, process_validator_removed(ctx, e), e, known)
<1> DEFINE d == ctx.tx.disk
           m == Published(mem0, ctx.tx)
           deleted == delete_validator_tx(ctx.tx, e.validator)
           next == process_validator_removed(ctx, e)
           u == [kind |-> "DeleteValidator", validator |-> e.validator]
<1>1. TablesOK(d) /\ Consistent(m, d)
  BY DEF Consistent
<1>2. CASE e.validator \in DOMAIN d.validators /\ cluster_owner(d.validators[e.validator].cluster) = e.owner
  <2>1. next = [ctx EXCEPT !.tx = deleted]
    BY <1>2 DEF process_validator_removed
  <2>2. IsTx(deleted) /\ deleted.updates = Queue(ctx.tx.updates, u)
    BY SMTT(60) DEF delete_validator_tx, IsTx, Queue
  <2>3. DOMAIN deleted.disk.validators \subseteq DOMAIN d.validators
    <3>1. deleted.disk.validators = Without(d.validators, {e.validator})
      BY <1>1 DEF delete_validator_tx, TablesOK, Tables
    <3> QED
      BY SMTT(60), <3>1 DEF Without, Restrict
  <2>4. LogStep(m, d, apply(m, u), deleted.disk, e, known)
    BY <1>1, <1>2, DeleteValidator DEF LogStep
  <2> HIDE DEF next, deleted, u
  <2> QED
    BY <2>1, <2>2, <2>3, <2>4, OneUpdate DEF next
<1>3. CASE ~(e.validator \in DOMAIN d.validators /\ cluster_owner(d.validators[e.validator].cluster) = e.owner)
  <2>1. next = ctx
    BY <1>3 DEF process_validator_removed
  <2> QED
    BY <1>1, <2>1, NothingDone
<1> QED
  BY <1>2, <1>3

LEMMA ClusterStatus ==
    ASSUME NEW mem0, NEW ctx, ContextOK(ctx), Consistent(Published(mem0, ctx.tx), ctx.tx.disk),
           NEW e, e.type # "ValidatorAdded", e.type # "OperatorAdded", NEW known, NEW liquidated \in BOOLEAN
    PROVE  HandlerOK(mem0, ctx, [ctx EXCEPT !.tx = update_status_tx(ctx.tx, compute_cluster_id(e), liquidated)], e, known)
<1> DEFINE d == ctx.tx.disk
           m == Published(mem0, ctx.tx)
           tx == update_status_tx(ctx.tx, compute_cluster_id(e), liquidated)
           u == [kind |-> "UpdateClusterStatus", cluster |-> compute_cluster_id(e), liquidated |-> liquidated]
<1>1. TablesOK(d) /\ Consistent(m, d)
  BY DEF Consistent
<1>2. IsTx(tx) /\ tx.updates = Queue(ctx.tx.updates, u)
  BY DEF update_status_tx, IsTx, Queue
<1>3. tx.disk.validators = d.validators
  BY <1>1 DEF update_status_tx, TablesOK, Tables
<1>4. LogStep(m, d, apply(m, u), tx.disk, e, known)
  BY <1>1, UpdateClusterStatus DEF LogStep
<1> HIDE DEF tx, u
<1>5. HandlerOK(mem0, ctx, [ctx EXCEPT !.tx = tx], e, known)
  BY <1>2, <1>3, <1>4, OneUpdate
<1> QED
  BY <1>5 DEF tx

LEMMA FeeRecipientUpdated ==
    ASSUME NEW mem0, NEW ctx, ContextOK(ctx), Consistent(Published(mem0, ctx.tx), ctx.tx.disk),
           NEW e, e.type = "FeeRecipientAddressUpdated", Decoded(e), NEW known
    PROVE  HandlerOK(mem0, ctx, process_fee_recipient_updated(ctx, e), e, known)
<1> DEFINE d == ctx.tx.disk
           m == Published(mem0, ctx.tx)
           tx == update_fee_recipient_tx(ctx.tx, e.owner, e.recipient)
           u == [kind |-> "UpdateFeeRecipient", owner |-> e.owner, fee_recipient |-> e.recipient]
<1>1. TablesOK(d) /\ Consistent(m, d)
  BY DEF Consistent
<1>2. IsTx(tx) /\ tx.updates = Queue(ctx.tx.updates, u)
  BY DEF update_fee_recipient_tx, IsTx, Queue
<1>3. tx.disk.validators = d.validators
  BY <1>1 DEF update_fee_recipient_tx, TablesOK, Tables
<1>4. e.recipient # None
  BY DEF Decoded
<1>5. LogStep(m, d, apply(m, u), tx.disk, e, known)
  BY SMTT(60), <1>1, <1>4, UpdateFeeRecipient DEF LogStep
<1>6. process_fee_recipient_updated(ctx, e) = [ctx EXCEPT !.tx = tx]
  BY DEF process_fee_recipient_updated
<1> HIDE DEF tx, u
<1> QED
  BY <1>2, <1>3, <1>5, <1>6, OneUpdate

LEMMA ValidatorExited ==
    ASSUME NEW mem0, NEW ctx, ContextOK(ctx), Consistent(Published(mem0, ctx.tx), ctx.tx.disk),
           NEW e, e.type = "ValidatorExited", NEW known, NEW live
    PROVE  HandlerOK(mem0, ctx, process_validator_exited(ctx, e, live), e, known)
<1> DEFINE d == ctx.tx.disk
           next == process_validator_exited(ctx, e, live)
<1>1. next = ctx \/ next = [ctx EXCEPT !.exits = Queue(@, e.validator)]
  BY DEF process_validator_exited, Queue
<1>2. CASE next = ctx
  BY <1>2, NothingDone
<1>3. CASE next = [ctx EXCEPT !.exits = Queue(@, e.validator)]
  <2> HIDE DEF next
  <2>1. next = [tx |-> ctx.tx, index_sync |-> ctx.index_sync, exits |-> Queue(ctx.exits, e.validator),
                registered |-> ctx.registered, abort |-> ctx.abort]
    BY <1>3 DEF ContextOK, IsContext
  <2>2. /\ next.tx = ctx.tx /\ next.index_sync = ctx.index_sync /\ next.exits = Queue(ctx.exits, e.validator)
        /\ next.registered = ctx.registered /\ next.abort = ctx.abort
    BY <2>1
  <2>3. IsSeq(Queue(ctx.exits, e.validator))
    BY AppendFacts DEF Queue, ContextOK
  <2>4. ContextOK(next)
    BY <2>1, <2>2, <2>3 DEF ContextOK, IsContext
  <2>5. LogStep(Published(mem0, ctx.tx), d, Published(mem0, ctx.tx), d, e, known)
    BY NoStep
  <2> QED
    BY <2>2, <2>4, <2>5 DEF HandlerOK, next
<1> QED
  BY <1>1, <1>2, <1>3

LEMMA ProcessLog ==
    ASSUME NEW mem0, NEW ctx, ContextOK(ctx), Consistent(Published(mem0, ctx.tx), ctx.tx.disk),
           NEW e, Decoded(e), NEW known, NEW live
    PROVE  HandlerOK(mem0, ctx, process_log(ctx, e, known, live), e, known)
<1>1. CASE ctx.abort
  <2>1. process_log(ctx, e, known, live) = ctx
    BY <1>1 DEF process_log
  <2> QED
    BY <2>1, NothingDone
<1>2. CASE ~ctx.abort
  <2>1. CASE e.type = "OperatorAdded"
    BY <1>2, <2>1, OperatorAdded DEF process_log
  <2>2. CASE e.type = "OperatorRemoved"
    BY <1>2, <2>2, OperatorRemoved DEF process_log
  <2>3. CASE e.type = "ValidatorAdded"
    BY <1>2, <2>3, ValidatorAdded DEF process_log
  <2>4. CASE e.type = "ValidatorRemoved"
    BY <1>2, <2>4, ValidatorRemoved DEF process_log
  <2>5. CASE e.type = "ClusterLiquidated"
    BY <1>2, <2>5, ClusterStatus DEF process_log, process_cluster_liquidated
  <2>6. CASE e.type = "ClusterReactivated"
    BY <1>2, <2>6, ClusterStatus DEF process_log, process_cluster_reactivated
  <2>7. CASE e.type = "FeeRecipientAddressUpdated"
    BY <1>2, <2>7, FeeRecipientUpdated DEF process_log
  <2>8. CASE e.type = "ValidatorExited"
    BY <1>2, <2>8, ValidatorExited DEF process_log
  <2> QED
    BY <2>1, <2>2, <2>3, <2>4, <2>5, <2>6, <2>7, <2>8 DEF Decoded, EventTypes
<1> QED
  BY <1>1, <1>2

---------------------------------------------------------------------------
(* The logs of one block.                                                  *)

Logs(logs) == IsSeq(logs) /\ \A k \in DOMAIN logs : Decoded(logs[k])

LEMMA LogsShape ==
    ASSUME NEW logs, Logs(logs)
    PROVE  Len(logs) \in Nat /\ DOMAIN logs = 1..Len(logs) /\ \A k \in 1..Len(logs) : Decoded(logs[k])
<1>1. logs \in Seq(Range(logs)) /\ \A k \in DOMAIN logs : Decoded(logs[k])
  BY DEF Logs, IsSeq
<1> QED
  BY <1>1

LEMMA ContextsUnfold ==
    ASSUME NEW d, NEW logs, Logs(logs), NEW known, NEW live
    PROVE  LET C == LogContexts(d, logs, known, live)
           IN  C[0] = Begun(d) /\ \A i \in 1..Len(logs) : C[i] = process_log(C[i - 1], logs[i], known, live)
<1> DEFINE C == LogContexts(d, logs, known, live)
<1>1. Len(logs) \in Nat
  BY LogsShape
<1>2. C = [i \in 0..Len(logs) |-> IF i = 0 THEN Begun(d) ELSE process_log(C[i - 1], logs[i], known, live)]
  BY <1>1, LogContextsEquation
<1> HIDE DEF C
<1>3. C[0] = Begun(d) /\ \A i \in 1..Len(logs) : C[i] = process_log(C[i - 1], logs[i], known, live)
  BY <1>1, <1>2
<1> QED
  BY <1>3 DEF C

LEMMA BegunShape ==
    ASSUME NEW m, NEW d
    PROVE  LET ctx == Begun(d)
           IN  /\ ContextOK(ctx) /\ ctx.tx.disk = d /\ Published(m, ctx.tx) = m
               /\ ctx.exits = <<>> /\ ctx.registered = {} /\ ~ctx.abort
<1> DEFINE ctx == Begun(d)
<1>1. /\ ctx.tx = [disk |-> d, updates |-> <<>>] /\ ctx.exits = <<>> /\ ctx.registered = {} /\ ctx.index_sync = {}
  BY DEF Begun
<1>2. ctx.abort = FALSE /\ ~ctx.abort
  BY DEF Begun
<1>3. ctx.tx.disk = d /\ ctx.tx.updates = <<>> /\ IsTx(ctx.tx)
  BY <1>1 DEF IsTx
<1>4. IsContext(ctx)
  <2>1. ctx = [tx |-> [disk |-> d, updates |-> <<>>], index_sync |-> {}, exits |-> <<>>, registered |-> {}, abort |-> FALSE]
    BY DEF Begun
  <2> HIDE DEF ctx
  <2> QED
    BY <1>1, <1>2, <2>1, Zenon DEF IsContext
<1> HIDE DEF ctx
<1>5. Published(m, ctx.tx) = m
  BY <1>3, PublishNothing DEF Published
<1>6. ctx.abort \in BOOLEAN
  BY <1>2, Zenon
<1>7. ContextOK(ctx)
  BY <1>1, <1>3, <1>4, <1>6, EmptySeq DEF ContextOK
<1> QED
  BY <1>1, <1>2, <1>3, <1>5, <1>7 DEF ctx

LEMMA BlockContexts ==
    ASSUME NEW m, NEW d, Consistent(m, d), NEW logs, Logs(logs), NEW known, NEW live
    PROVE  LET C == LogContexts(d, logs, known, live)
           IN  /\ \A i \in 0..Len(logs) : ContextOK(C[i]) /\ Consistent(Published(m, C[i].tx), C[i].tx.disk)
               /\ \A i \in 1..Len(logs) : HandlerOK(m, C[i - 1], C[i], logs[i], known)
<1> DEFINE C == LogContexts(d, logs, known, live)
           n == Len(logs)
           Good(i) == ContextOK(C[i]) /\ Consistent(Published(m, C[i].tx), C[i].tx.disk)
           S == {i \in Nat : i <= n => Good(i)}
<1>1. /\ n \in Nat
      /\ C[0] = Begun(d) /\ \A i \in 1..n : C[i] = process_log(C[i - 1], logs[i], known, live) /\ Decoded(logs[i])
  BY LogsShape, ContextsUnfold
<1> HIDE DEF C, n
<1>2. Good(0)
  <2>1. ContextOK(C[0]) /\ C[0].tx.disk = d /\ Published(m, C[0].tx) = m
    <3> DEFINE b == Begun(d)
    <3>1. ContextOK(b) /\ b.tx.disk = d /\ Published(m, b.tx) = m
      BY BegunShape
    <3> HIDE DEF b
    <3> QED
      BY <1>1, <3>1 DEF b
  <2> QED
    BY <2>1
<1>3. ASSUME NEW i \in 1..n, Good(i - 1) PROVE HandlerOK(m, C[i - 1], C[i], logs[i], known)
  BY <1>1, <1>3, ProcessLog
<1>4. ASSUME NEW i \in 1..n, Good(i - 1) PROVE Good(i)
  BY <1>3, <1>4 DEF HandlerOK, LogStep
<1> HIDE DEF Good
<1>5. 0 \in S
  BY <1>2
<1>6. ASSUME NEW i \in Nat, i \in S PROVE i + 1 \in S
  <2>1. CASE i + 1 <= n
    <3>1. i + 1 \in 1..n /\ (i + 1) - 1 = i /\ i <= n
      BY <1>1, <2>1
    <3>2. Good(i)
      BY <1>6, <3>1
    <3> QED
      BY <1>4, <3>1, <3>2
  <2> QED
    BY <2>1, <1>1
<1>7. \A i \in Nat : i \in S
  <2> HIDE DEF S
  <2> QED
    BY <1>5, <1>6, NatInductionOnSet
<1>8. \A i \in 0..n : Good(i)
  BY <1>1, <1>7
<1>9. \A i \in 1..n : HandlerOK(m, C[i - 1], C[i], logs[i], known)
  BY <1>1, <1>3, <1>8
<1> QED
  BY <1>8, <1>9 DEF C, n, Good

\* Induction over the logs of a block.
LEMMA BlockInduction ==
    ASSUME NEW n \in Nat, NEW S, 0 \in S, \A i \in 1..n : i - 1 \in S => i \in S
    PROVE  \A i \in 0..n : i \in S
<1> DEFINE T == {i \in Nat : i <= n => i \in S}
<1>1. 0 \in T
  OBVIOUS
<1>2. ASSUME NEW i \in Nat, i \in T PROVE i + 1 \in T
  <2>1. CASE i + 1 <= n
    <3>1. i + 1 \in 1..n /\ (i + 1) - 1 = i /\ i \in S
      BY <1>2, <2>1
    <3> QED
      BY <3>1
  <2> QED
    BY <2>1
<1>3. \A i \in Nat : i \in T
  <2> HIDE DEF T
  <2> QED
    BY <1>1, <1>2, NatInductionOnSet
<1> QED
  BY <1>3

LEMMA BlockKept ==
    ASSUME NEW m, NEW d, Consistent(m, d), NEW logs, Logs(logs), NEW known, NEW live
    PROVE  LET C == LogContexts(d, logs, known, live)
           IN  \A i \in 0..Len(logs) :
                  /\ DOMAIN C[i].tx.disk.validators \subseteq DOMAIN d.validators \union C[i].registered
                  /\ m.id # None => Published(m, C[i].tx).id = m.id
<1> DEFINE C == LogContexts(d, logs, known, live)
           n == Len(logs)
           Good(i) == /\ DOMAIN C[i].tx.disk.validators \subseteq DOMAIN d.validators \union C[i].registered
                      /\ m.id # None => Published(m, C[i].tx).id = m.id
           S == {i \in 0..n : Good(i)}
<1>1. /\ n \in Nat
      /\ C[0] = Begun(d) /\ \A i \in 1..n : HandlerOK(m, C[i - 1], C[i], logs[i], known)
  BY LogsShape, ContextsUnfold, BlockContexts
<1> HIDE DEF C, n
<1>2. Good(0)
  <2> DEFINE b == Begun(d)
  <2>1. b.tx.disk = d /\ Published(m, b.tx) = m
    BY BegunShape
  <2> HIDE DEF b
  <2> QED
    BY <1>1, <2>1 DEF b
<1>3. ASSUME NEW i \in 1..n, Good(i - 1) PROVE Good(i)
  <2>1. HandlerOK(m, C[i - 1], C[i], logs[i], known)
    BY <1>1
  <2>2. /\ DOMAIN C[i].tx.disk.validators \subseteq DOMAIN C[i - 1].tx.disk.validators \union C[i].registered
        /\ C[i - 1].registered \subseteq C[i].registered
        /\ Published(m, C[i - 1].tx).id # None => Published(m, C[i].tx).id = Published(m, C[i - 1].tx).id
    BY <2>1 DEF HandlerOK, LogStep
  <2> QED
    BY <1>3, <2>2
<1> HIDE DEF Good
<1>4. 0 \in S /\ \A i \in 1..n : i - 1 \in S => i \in S
  BY <1>1, <1>2, <1>3
<1>5. \A i \in 0..n : i \in S
  <2> HIDE DEF S
  <2> QED
    BY <1>1, <1>4, BlockInduction
<1> QED
  BY <1>5 DEF C, n, Good

LEMMA BlockOwn ==
    ASSUME NEW m, NEW d, Consistent(m, d), NEW logs, Logs(logs), NEW known, NEW live,
           NEW own, OwnMirrors(m, d, own), \A a, b \in own : a = b, known # None => m.id = known,
           \A k \in DOMAIN logs : logs[k].type = "OperatorAdded" /\ logs[k].key = OwnKey => logs[k].id \in own
    PROVE  LET C == LogContexts(d, logs, known, live)
           IN  \A i \in 0..Len(logs) : OwnMirrors(Published(m, C[i].tx), C[i].tx.disk, own)
<1> DEFINE C == LogContexts(d, logs, known, live)
           n == Len(logs)
           Good(i) == OwnMirrors(Published(m, C[i].tx), C[i].tx.disk, own)
           S == {i \in 0..n : Good(i)}
<1>1. /\ n \in Nat /\ DOMAIN logs = 1..n
      /\ C[0] = Begun(d)
      /\ \A i \in 1..n : HandlerOK(m, C[i - 1], C[i], logs[i], known)
      /\ \A i \in 0..n : m.id # None => Published(m, C[i].tx).id = m.id
  BY LogsShape, ContextsUnfold, BlockContexts, BlockKept
<1> HIDE DEF C, n
<1>2. Good(0)
  <2> DEFINE b == Begun(d)
  <2>1. b.tx.disk = d /\ Published(m, b.tx) = m
    BY BegunShape
  <2> HIDE DEF b
  <2> QED
    BY <1>1, <2>1 DEF b
<1>3. ASSUME NEW i \in 1..n, Good(i - 1) PROVE Good(i)
  <2>1. LogStep(Published(m, C[i - 1].tx), C[i - 1].tx.disk, Published(m, C[i].tx), C[i].tx.disk, logs[i], known)
    BY <1>1 DEF HandlerOK
  <2>2. known # None => Published(m, C[i - 1].tx).id = known
    BY <1>1
  <2> QED
    BY <1>1, <1>3, <2>1, <2>2 DEF LogStep
<1> HIDE DEF Good
<1>4. 0 \in S /\ \A i \in 1..n : i - 1 \in S => i \in S
  BY <1>1, <1>2, <1>3
<1>5. \A i \in 0..n : i \in S
  <2> HIDE DEF S
  <2> QED
    BY <1>1, <1>4, BlockInduction
<1> QED
  BY <1>5 DEF C, n, Good

LEMMA BlockFlags ==
    ASSUME NEW m, NEW d, Consistent(m, d), NEW logs, Logs(logs), NEW known, NEW live,
           FlagsMirror(m, d),
           \A i \in 1..Len(logs) : logs[i].type = "ValidatorAdded" =>
               NotLiquidated(LogContexts(d, logs, known, live)[i - 1].tx.disk, compute_cluster_id(logs[i]))
    PROVE  LET C == LogContexts(d, logs, known, live)
           IN  \A i \in 0..Len(logs) : FlagsMirror(Published(m, C[i].tx), C[i].tx.disk)
<1> DEFINE C == LogContexts(d, logs, known, live)
           n == Len(logs)
           Good(i) == FlagsMirror(Published(m, C[i].tx), C[i].tx.disk)
           S == {i \in 0..n : Good(i)}
<1>1. /\ n \in Nat /\ DOMAIN logs = 1..n
      /\ C[0] = Begun(d)
      /\ \A i \in 1..n : HandlerOK(m, C[i - 1], C[i], logs[i], known)
      /\ \A i \in 1..n : logs[i].type = "ValidatorAdded" => NotLiquidated(C[i - 1].tx.disk, compute_cluster_id(logs[i]))
  BY LogsShape, ContextsUnfold, BlockContexts
<1> HIDE DEF C, n
<1>2. Good(0)
  <2> DEFINE b == Begun(d)
  <2>1. b.tx.disk = d /\ Published(m, b.tx) = m
    BY BegunShape
  <2> HIDE DEF b
  <2> QED
    BY <1>1, <2>1 DEF b
<1>3. ASSUME NEW i \in 1..n, Good(i - 1) PROVE Good(i)
  <2>1. LogStep(Published(m, C[i - 1].tx), C[i - 1].tx.disk, Published(m, C[i].tx), C[i].tx.disk, logs[i], known)
    BY <1>1 DEF HandlerOK
  <2> QED
    BY <1>1, <1>3, <2>1 DEF LogStep
<1> HIDE DEF Good
<1>4. 0 \in S /\ \A i \in 1..n : i - 1 \in S => i \in S
  BY <1>1, <1>2, <1>3
<1>5. \A i \in 0..n : i \in S
  <2> HIDE DEF S
  <2> QED
    BY <1>1, <1>4, BlockInduction
<1> QED
  BY <1>5 DEF C, n, Good

\* The exit requests of a block come from different logs among its first i.
ExitsFrom(logs, requests, i) ==
    \E g \in [1..Len(requests) -> 1..i] :
       /\ \A j, k \in 1..Len(requests) : g[j] = g[k] => j = k
       /\ \A k \in 1..Len(requests) : logs[g[k]].type = "ValidatorExited" /\ logs[g[k]].validator = requests[k]

LEMMA BlockExits ==
    ASSUME NEW m, NEW d, Consistent(m, d), NEW logs, Logs(logs), NEW known, NEW live
    PROVE  LET C == LogContexts(d, logs, known, live)
           IN  \A i \in 0..Len(logs) : ExitsFrom(logs, C[i].exits, i)
<1> DEFINE C == LogContexts(d, logs, known, live)
           n == Len(logs)
           Good(i) == ExitsFrom(logs, C[i].exits, i)
           S == {i \in 0..n : Good(i)}
<1>1. /\ n \in Nat
      /\ C[0] = Begun(d)
      /\ \A i \in 1..n : HandlerOK(m, C[i - 1], C[i], logs[i], known)
      /\ \A i \in 0..n : IsSeq(C[i].exits)
  BY LogsShape, ContextsUnfold, BlockContexts DEF ContextOK
<1> HIDE DEF C, n
<1>2. Good(0)
  <2> DEFINE b == Begun(d)
  <2>1. b.exits = <<>>
    BY BegunShape
  <2> HIDE DEF b
  <2>2. C[0].exits = <<>> /\ Len(<<>>) = 0
    BY <1>1, <2>1, EmptySeq DEF b
  <2> DEFINE none == C[0].exits
             g == [k \in 1..0 |-> 0]
  <2>3. g \in [1..0 -> 1..0]
    OBVIOUS
  <2>4. Len(none) = 0
    BY <2>2
  <2> HIDE DEF none, g
  <2>5. ExitsFrom(logs, none, 0)
    <3>1. 1..Len(none) = {}
      BY <2>4
    <3>2. g \in [1..Len(none) -> 1..0]
      BY <2>3, <2>4
    <3> QED
      BY <3>1, <3>2, Zenon DEF ExitsFrom
  <2> QED
    BY <2>5 DEF none
<1>3. ASSUME NEW i \in 1..n, Good(i - 1) PROVE Good(i)
  <2> DEFINE xs == C[i - 1].exits
             len == Len(xs)
             e == logs[i]
  <2>1. \/ C[i].exits = xs
        \/ e.type = "ValidatorExited" /\ C[i].exits = Queue(xs, e.validator)
    <3>1. HandlerOK(m, C[i - 1], C[i], logs[i], known)
      BY <1>1
    <3> QED
      BY <3>1 DEF HandlerOK
  <2>2. /\ IsSeq(xs)
        /\ len \in Nat
    BY <1>1, AppendFacts
  <2>3. PICK g \in [1..len -> 1..(i - 1)] :
          /\ \A j, k \in 1..len : g[j] = g[k] => j = k
          /\ \A k \in 1..len : logs[g[k]].type = "ValidatorExited" /\ logs[g[k]].validator = xs[k]
    BY <1>3 DEF ExitsFrom
  <2>4. CASE C[i].exits = xs
    <3>1. g \in [1..len -> 1..i]
      BY <1>1, <2>2
    <3> QED
      BY <2>3, <2>4, <3>1 DEF ExitsFrom
  <2>5. CASE e.type = "ValidatorExited" /\ C[i].exits = Queue(xs, e.validator)
    <3> DEFINE ys == C[i].exits
               h == [k \in 1..(len + 1) |-> IF k <= len THEN g[k] ELSE i]
    <3>1. /\ Len(ys) = len + 1
          /\ \A k \in 1..len : ys[k] = xs[k]
          /\ ys[len + 1] = e.validator
      BY <2>2, <2>5, AppendFacts DEF Queue
    <3> HIDE DEF xs, len, ys
    <3>2. h \in [1..(len + 1) -> 1..i] /\ \A k \in 1..len : h[k] = g[k] /\ h[k] < i
      BY <1>1, <2>2
    <3>3. h[len + 1] = i
      BY <2>2
    <3> HIDE DEF h
    <3>4. \A j, k \in 1..(len + 1) : h[j] = h[k] => j = k
      <4> TAKE j, k \in 1..(len + 1)
      <4> HAVE h[j] = h[k]
      <4>1. CASE j = len + 1 \/ k = len + 1
        BY <2>2, <3>2, <3>3, <4>1
      <4>2. CASE j \in 1..len /\ k \in 1..len
        BY <2>3, <3>2, <4>2
      <4> QED
        BY <2>2, <4>1, <4>2
    <3>5. \A k \in 1..(len + 1) : logs[h[k]].type = "ValidatorExited" /\ logs[h[k]].validator = ys[k]
      <4> TAKE k \in 1..(len + 1)
      <4>1. CASE k = len + 1
        BY <2>5, <3>1, <3>3, <4>1
      <4>2. CASE k \in 1..len
        BY <2>3, <3>1, <3>2, <4>2
      <4> QED
        BY <2>2, <4>1, <4>2
    <3> QED
      BY <3>1, <3>2, <3>4, <3>5 DEF ExitsFrom, ys
  <2> QED
    BY <2>1, <2>4, <2>5
<1> HIDE DEF Good
<1>4. 0 \in S /\ \A i \in 1..n : i - 1 \in S => i \in S
  BY <1>1, <1>2, <1>3
<1>5. \A i \in 0..n : i \in S
  <2> HIDE DEF S
  <2> QED
    BY <1>1, <1>4, BlockInduction
<1> QED
  BY <1>5 DEF C, n, Good

LEMMA LastContext ==
    ASSUME NEW m, NEW d, Consistent(m, d), NEW logs, Logs(logs), NEW block, NEW known, NEW live
    PROVE  LET last == LogContexts(d, logs, known, live)[Len(logs)]
               done == process_block_logs(d, logs, block, known, live)
           IN  /\ ContextOK(done)
               /\ done.tx.disk = [last.tx.disk EXCEPT !.block_number = block]
               /\ done.exits = last.exits /\ done.registered = last.registered /\ done.abort = last.abort
               /\ Consistent(Published(m, done.tx), done.tx.disk)
               /\ Published(m, done.tx).id = Published(m, last.tx).id
               /\ FlagsMirror(Published(m, last.tx), last.tx.disk) => FlagsMirror(Published(m, done.tx), done.tx.disk)
               /\ \A own : OwnMirrors(Published(m, last.tx), last.tx.disk, own) => OwnMirrors(Published(m, done.tx), done.tx.disk, own)
<1> DEFINE last == LogContexts(d, logs, known, live)[Len(logs)]
           done == process_block_logs(d, logs, block, known, live)
           tx == processed_block_tx(last.tx, block)
           u == [kind |-> "SetLastProcessedBlock", block |-> block]
<1>1. Len(logs) \in 0..Len(logs)
  BY LogsShape
<1>2. ContextOK(last) /\ Consistent(Published(m, last.tx), last.tx.disk)
  BY <1>1, BlockContexts
<1>3. done = [last EXCEPT !.tx = tx]
  BY DEF process_block_logs
<1> HIDE DEF last, done
<1>4. /\ IsTx(tx) /\ tx.updates = Queue(last.tx.updates, u)
      /\ tx.disk = [last.tx.disk EXCEPT !.block_number = block]
  BY DEF processed_block_tx, IsTx, Queue
<1>5. /\ Consistent(apply(Published(m, last.tx), u), tx.disk)
      /\ FlagsMirror(Published(m, last.tx), last.tx.disk) => FlagsMirror(apply(Published(m, last.tx), u), tx.disk)
      /\ \A own : OwnMirrors(Published(m, last.tx), last.tx.disk, own) => OwnMirrors(apply(Published(m, last.tx), u), tx.disk, own)
      /\ apply(Published(m, last.tx), u).id = Published(m, last.tx).id
  BY <1>2, ProcessedBlock
<1> HIDE DEF tx, u
<1>6. IsSeq(tx.updates) /\ Published(m, tx) = apply(Published(m, last.tx), u)
  BY <1>2, <1>4, Queued DEF ContextOK
<1>7. /\ ContextOK(done) /\ done.tx = tx /\ done.exits = last.exits
      /\ done.registered = last.registered /\ done.abort = last.abort
  BY <1>2, <1>3, <1>4, <1>6, WithTx
<1> QED
  BY <1>4, <1>5, <1>6, <1>7 DEF last, done

\* What a block that is committed, and published, does to memory and tables.
LEMMA ProcessBlock ==
    ASSUME NEW m, NEW d, Consistent(m, d), NEW logs, Logs(logs), NEW block, NEW known, NEW live
    PROVE  LET done == process_block_logs(d, logs, block, known, live)
           IN  /\ ContextOK(done)
               /\ Consistent(Published(m, done.tx), done.tx.disk)
               /\ done.tx.disk.block_number = block
               /\ DOMAIN done.tx.disk.validators \subseteq DOMAIN d.validators \union done.registered
               /\ ExitsFrom(logs, done.exits, Len(logs))
<1> DEFINE last == LogContexts(d, logs, known, live)[Len(logs)]
           done == process_block_logs(d, logs, block, known, live)
<1>1. Len(logs) \in 0..Len(logs)
  BY LogsShape
<1>2. /\ DOMAIN last.tx.disk.validators \subseteq DOMAIN d.validators \union last.registered
      /\ ExitsFrom(logs, last.exits, Len(logs))
  BY <1>1, BlockKept, BlockExits
<1>3. /\ ContextOK(done)
      /\ done.tx.disk = [last.tx.disk EXCEPT !.block_number = block]
      /\ done.exits = last.exits /\ done.registered = last.registered
      /\ Consistent(Published(m, done.tx), done.tx.disk)
  BY LastContext
<1>4. TablesOK(last.tx.disk)
  BY <1>1, BlockContexts DEF Consistent
<1> HIDE DEF last, done
<1>5. done.tx.disk.validators = last.tx.disk.validators /\ done.tx.disk.block_number = block
  BY <1>3, <1>4 DEF TablesOK, Tables
<1> QED
  BY <1>2, <1>3, <1>5 DEF done
---------------------------------------------------------------------------
(* The state: threads, syncer, tables and memory.                          *)

IsProc(r) == r = [status |-> r.status, blocks |-> r.blocks, live |-> r.live, updates |-> r.updates,
                  index_sync |-> r.index_sync, exits |-> r.exits]

IsSyncer(s) == s = [pc |-> s.pc, last |-> s.last, start |-> s.start, end |-> s.end, pending |-> s.pending,
                    fetching |-> s.fetching, fetched |-> s.fetched, running |-> s.running, synced |-> s.synced]

ChainOK == chain \in Chains /\ tip \in 0..Len(chain) /\ errors \in 0..MaxErrors

\* Who has the connection is in a transaction or publishes one.
ThreadsOK ==
    /\ procs = [p \in ProcIds |-> procs[p]]
    /\ conn \in ProcIds \union {None}
    /\ \A p \in ProcIds :
          /\ IsProc(procs[p])
          /\ procs[p].status \in Statuses
          /\ procs[p].blocks \subseteq 1..tip
          /\ procs[p].status \in {"block", "commit", "publish"} <=> conn = p

\* The threads no syncer waits for.
Orphans == {p \in ProcIds : procs[p].status # "idle" /\ p # syncer.running}

\* A thread is left running by an error of its syncer, so there is always a free one.
OrphansOK == Cardinality(Orphans) <= errors

\* The batches of one round of historical_sync that no processor has got yet are its
\* last ones: first those that are fetched, then those being fetched, then the pending ones.
Pieces(n, all, fetched, fetching, pending) ==
    LET a == Len(fetched)
        b == Len(fetching)
        c == Len(pending)
    IN /\ a + b + c <= n
       /\ \A x \in 1..a : fetched[x] = all[n - c - b - a + x]
       /\ \A x \in 1..b : fetching[x] = all[n - c - b + x]
       /\ \A x \in 1..c : pending[x] = all[n - c + x]

BatchCount(from, to) == (to - from + BATCH_SIZE) \div BATCH_SIZE
BatchesLeft(s) == Len(s.fetched) + Len(s.fetching) + Len(s.pending)
StartedBatches(s) == BatchCount(s.start, s.end) - BatchesLeft(s)

\* A round of historical_sync.
Round(s) ==
    /\ s.start \in 1..s.end /\ s.end \in 1..tip
    /\ Pieces(BatchCount(s.start, s.end), Batches(s.start, s.end), s.fetched, s.fetching, s.pending)
    /\ s.running # None => BatchesLeft(s) < BatchCount(s.start, s.end)
    /\ s.running = None => s.fetched = <<>>
    /\ s.pending # <<>> => Len(s.fetched) + Len(s.fetching) = FETCH_CONCURRENT

SyncerOK ==
    /\ IsSyncer(syncer)
    /\ syncer.running \in ProcIds \union {None}
    /\ syncer.pc \in {"start", "check", "batches", "live", "live_fetch", "live_process"}
    /\ syncer.start \in Nat /\ syncer.end \in Nat
    /\ syncer.pending \in Seq(Nat \X Nat) /\ syncer.fetching \in Seq(Nat \X Nat) /\ syncer.fetched \in Seq(Nat \X Nat)
    /\ syncer.pc \in {"start", "check", "live", "live_fetch"} => syncer.running = None
    /\ syncer.pc = "live_process" => syncer.running # None
    /\ syncer.pc = "check" => syncer.start >= 1 /\ syncer.pending = <<>> /\ syncer.fetching = <<>> /\ syncer.fetched = <<>>
    /\ syncer.pc = "live_fetch" =>
          Len(syncer.fetching) = 1 /\ syncer.fetching[1][1] \in 1..syncer.fetching[1][2] /\ syncer.fetching[1][2] \in 1..tip
    /\ syncer.pc = "batches" => Round(syncer)

\* Memory once what is committed is published.
Publishing == conn # None /\ procs[conn].status = "publish"
Visible == IF Publishing THEN publish_pending_state_updates(mem, procs[conn].updates) ELSE mem

StoreOK == /\ Consistent(Visible, disk)
           /\ disk.block_number \in 0..tip
           /\ mem.last_processed_block \in 0..tip

Protected == DOMAIN mem.metadata \subseteq slashing /\ DOMAIN disk.validators \subseteq slashing

\* The transaction of a block.
Done(p, block) == process_block_logs(disk, chain[block], block, mem.id, procs[p].live)

\* Whoever is about to commit has registered the validators of the block.
PreparedOK ==
    \A p \in ProcIds : procs[p].status = "commit" =>
        \A block \in procs[p].blocks : (\A b \in procs[p].blocks : block <= b) =>
            ~Done(p, block).abort /\ Done(p, block).registered \subseteq slashing

\* The blocks of a processor are what is left of a range whose end is last.
Covers(logs, newest, blocks, done, last) ==
    /\ done \in 0..last /\ last \in 1..newest
    /\ blocks \subseteq (done + 1)..last
    /\ \A b \in (done + 1)..last : logs[b] # <<>> => b \in blocks
    /\ last \in blocks \/ (blocks = {} /\ done = last)

BatchEnd(s, i) == IF i = 0 THEN s.start - 1 ELSE Batches(s.start, s.end)[i][2]

\* What the syncer fetches and the processor has left begins after the last committed block.
InStep ==
    LET L == disk.block_number
        r == syncer.running
    IN /\ \A p \in ProcIds : procs[p].status # "idle" => p = r
       /\ syncer.pc = "check" => syncer.start = L + 1
       /\ syncer.pc = "live_fetch" => syncer.fetching[1][1] = L + 1
       /\ syncer.pc = "batches" /\ r = None => L = BatchEnd(syncer, StartedBatches(syncer))
       /\ syncer.pc = "batches" /\ r # None /\ procs[r].status = "done" => L = BatchEnd(syncer, StartedBatches(syncer))
       /\ r # None /\ procs[r].status \in {"waiting", "block", "commit", "publish"} =>
             \E last \in 1..tip :
                 /\ Covers(chain, tip, procs[r].blocks, L, last)
                 /\ syncer.pc = "batches" => last = BatchEnd(syncer, StartedBatches(syncer))

\* The same tables, but for the validators' indices and the last processed block.
SameRegistry(d, f) ==
    /\ d.max_operator_id_seen = f.max_operator_id_seen
    /\ d.operators = f.operators
    /\ d.skipped_operator_adds = f.skipped_operator_adds
    /\ d.owners = f.owners
    /\ d.clusters = f.clusters
    /\ DOMAIN d.validators = DOMAIN f.validators
    /\ \A v \in DOMAIN d.validators : d.validators[v].cluster = f.validators[v].cluster

InReplay == SameRegistry(disk, Replay(chain)[disk.block_number])

\* The requests are of different logs, in blocks up to one of them.
ExitAt(logs, pos, v) ==
    /\ pos[1] \in 1..Len(logs) /\ pos[2] \in 1..Len(logs[pos[1]])
    /\ logs[pos[1]][pos[2]].type = "ValidatorExited" /\ logs[pos[1]][pos[2]].validator = v

Requested(logs, requests, upto) ==
    \E f \in [1..Len(requests) -> Nat \X Nat] :
       /\ \A j, k \in 1..Len(requests) : f[j] = f[k] => j = k
       /\ \A k \in 1..Len(requests) : ExitAt(logs, f[k], requests[k]) /\ f[k][1] <= upto

\* The exits of a block that is committed are sent when it is published.
ExitsOK ==
    LET L == disk.block_number
    IN /\ IsSeq(exits)
       /\ Requested(chain, exits, IF Publishing THEN L - 1 ELSE L)
       /\ Publishing => /\ L \in 1..Len(chain)
                        /\ IsSeq(procs[conn].exits) /\ ExitsFrom(chain[L], procs[conn].exits, Len(chain[L]))

OwnOK == OwnMirrors(Visible, disk, OwnRegistrations(chain))

\* A liquidated flag of the tables is the work of the logs up to the one at position k of block b.
LiquidatedOK(d, logs, b, k) == \A c \in DOMAIN d.clusters : d.clusters[c].liquidated => LiquidatedBy(logs, c, b, k)

LastLog(logs, b) == IF b = 0 THEN 0 ELSE Len(logs[b])

FlagsOK == FlagsMirror(Visible, disk) /\ LiquidatedOK(disk, chain, disk.block_number, LastLog(chain, disk.block_number))


LEMMA DivFacts ==
    ASSUME NEW x \in Nat, NEW b \in Nat \ {0}
    PROVE  x \div b \in Nat /\ (x \div b) * b <= x /\ x < (x \div b) * b + b
OBVIOUS

LEMMA Multiples ==
    ASSUME NEW b \in Nat
    PROVE  /\ \A i \in Nat : i * b \in Nat /\ (i + 1) * b = i * b + b
           /\ \A i, j \in Nat : i <= j => i * b <= j * b
OBVIOUS

LEMMA BatchesShape ==
    ASSUME NEW from \in Nat \ {0}, NEW to \in Nat, from <= to
    PROVE  LET B == Batches(from, to)
               n == BatchCount(from, to)
           IN  /\ n \in Nat \ {0} /\ B \in Seq(Nat \X Nat) /\ Len(B) = n
               /\ B[1][1] = from /\ B[n][2] = to
               /\ \A k \in 1..n : B[k][1] \in 1..B[k][2] /\ B[k][2] \in 1..to
               /\ \A k \in 1..(n - 1) : B[k + 1][1] = B[k][2] + 1
<1> DEFINE B == Batches(from, to)
           n == BatchCount(from, to)
           x == to - from + BATCH_SIZE
           first(k) == from + (k - 1) * BATCH_SIZE
           last(k) == IF first(k) + BATCH_SIZE - 1 < to THEN first(k) + BATCH_SIZE - 1 ELSE to
<1>1. BATCH_SIZE \in Nat \ {0} /\ x \in Nat
  BY SyncAssumption
<1>2. n \in Nat /\ n * BATCH_SIZE <= x /\ x < n * BATCH_SIZE + BATCH_SIZE
  BY <1>1, DivFacts DEF BatchCount
<1>3. B = [k \in 1..n |-> <<first(k), last(k)>>]
  BY DEF Batches, BatchCount
<1> HIDE DEF B, n
<1>m. /\ \A i \in Nat : i * BATCH_SIZE \in Nat /\ (i + 1) * BATCH_SIZE = i * BATCH_SIZE + BATCH_SIZE
      /\ \A i, j \in Nat : i <= j => i * BATCH_SIZE <= j * BATCH_SIZE
  BY <1>1, Multiples
<1>4. n # 0
  BY <1>1, <1>2
<1>5. ASSUME NEW k \in 1..n
      PROVE  /\ first(k) \in Nat /\ from <= first(k) /\ first(k) <= to
             /\ last(k) \in Nat /\ first(k) <= last(k) /\ last(k) <= to
             /\ k < n => last(k) = first(k) + BATCH_SIZE - 1
             /\ k = n => last(k) = to
             /\ first(k + 1) = first(k) + BATCH_SIZE
  <2> DEFINE j == k - 1
             jb == j * BATCH_SIZE
             kb == k * BATCH_SIZE
             nb == n * BATCH_SIZE
  <2>1. j \in Nat /\ j + 1 = k /\ k <= n /\ j <= n - 1 /\ n - 1 \in Nat /\ k \in Nat /\ (n - 1) + 1 = n
    BY <1>2
  <2>2. jb \in Nat /\ kb = jb + BATCH_SIZE /\ kb <= nb /\ nb \in Nat
    BY <1>2, <1>m, <2>1
  <2>3. (k + 1) - 1 = k
    BY <2>1
  <2>4. k < n => kb + BATCH_SIZE <= nb
    <3>1. k < n => k + 1 <= n /\ k + 1 \in Nat
      BY <1>2, <2>1
    <3> QED
      BY <1>2, <1>m, <2>1, <3>1
  <2>5. first(k) = from + jb /\ first(k + 1) = from + kb
    BY <2>3
  <2>6. nb <= x /\ x < nb + BATCH_SIZE
    BY <1>2
  <2>7. k = n => kb = nb
    OBVIOUS
  <2> HIDE DEF jb, kb, nb, first
  <2> QED
    BY <1>1, <2>2, <2>4, <2>5, <2>6, <2>7
<1>6. first(1) = from
  BY <1>1
<1> HIDE DEF first, last
<1>7. \A k \in 1..n : B[k] = <<first(k), last(k)>>
  BY <1>3
<1>8. B \in Seq(Nat \X Nat) /\ Len(B) = n
  <2>1. \A k \in 1..n : <<first(k), last(k)>> \in Nat \X Nat
    BY <1>5
  <2>2. B \in [1..n -> Nat \X Nat]
    BY <1>3, <2>1
  <2> QED
    BY <1>2, <2>2
<1>9. /\ B[1][1] = from /\ B[n][2] = to
      /\ \A k \in 1..n : B[k][1] \in 1..B[k][2] /\ B[k][2] \in 1..to
  <2>1. 1 \in 1..n /\ n \in 1..n
    BY <1>2, <1>4
  <2>2. B[1] = <<first(1), last(1)>> /\ B[n] = <<first(n), last(n)>>
    BY <1>7, <2>1
  <2>3. B[1][1] = from /\ B[n][2] = to
    BY <1>5, <1>6, <2>1, <2>2
  <2>4. ASSUME NEW k \in 1..n PROVE B[k][1] \in 1..B[k][2] /\ B[k][2] \in 1..to
    <3>1. B[k][1] = first(k) /\ B[k][2] = last(k)
      BY <1>7
    <3> QED
      BY <1>5, <3>1
  <2> QED
    BY <2>3, <2>4
<1>10. ASSUME NEW k \in 1..(n - 1) PROVE B[k + 1][1] = B[k][2] + 1
  <2>1. k \in 1..n /\ k + 1 \in 1..n /\ k < n
    BY <1>2
  <2>2. B[k + 1][1] = first(k + 1) /\ B[k][2] = last(k)
    BY <1>7, <2>1
  <2>3. first(k + 1) = first(k) + BATCH_SIZE /\ last(k) = first(k) + BATCH_SIZE - 1 /\ first(k) \in Nat
    BY <1>5, <2>1
  <2> QED
    BY <1>1, <2>2, <2>3
<1> QED
  BY <1>2, <1>4, <1>8, <1>9, <1>10 DEF B, n

---------------------------------------------------------------------------
(* The operations on tables and memory outside a transaction.              *)

LEMMA EmptyTables == TablesOK(EmptyDisk) /\ EmptyDisk.block_number = 0 /\ DOMAIN EmptyDisk.validators = {}
<1>1. EmptyDisk = Tables(0, 0, <<>>, {}, <<>>, <<>>, <<>>)
  BY DEF EmptyDisk, Tables
<1> DEFINE d == EmptyDisk
<1>2. /\ d.block_number = 0 /\ d.max_operator_id_seen = 0 /\ d.operators = <<>> /\ d.skipped_operator_adds = {}
      /\ d.owners = <<>> /\ d.clusters = <<>> /\ d.validators = <<>>
  BY <1>1 DEF Tables
<1> HIDE DEF d
<1>3. DOMAIN <<>> = {} /\ IsMap(<<>>)
  BY DEF IsMap
<1>4. d = Tables(d.block_number, d.max_operator_id_seen, d.operators, d.skipped_operator_adds, d.owners,
                 d.clusters, d.validators)
  BY <1>1, <1>2 DEF d
<1>5. TablesOK(d)
  BY <1>2, <1>3, <1>4 DEF TablesOK, OperatorsOK, OwnersOK, ClustersOK, ValidatorsOK
<1> QED
  BY <1>2, <1>3, <1>5 DEF d

\* new_with_state.
LEMMA NewWithState ==
    ASSUME NEW d, TablesOK(d)
    PROVE  LET m == new_with_state(d)
           IN  /\ Consistent(m, d) /\ FlagsMirror(m, d)
               /\ m.id = own_operator(d) /\ m.shares = fetch_shares(d, m.id)
               /\ m.own_clusters = {d.validators[v].cluster : v \in m.shares}
<1> DEFINE m == new_with_state(d)
           id == own_operator(d)
           own == fetch_shares(d, id)
           oc == {d.validators[v].cluster : v \in own}
           cl == fetch_clusters(d)
<1>1. m = Memory(id, d.block_number, d.max_operator_id_seen, fetch_operators(d), oc, own, fetch_nonces(d), cl,
                 fetch_validators(d))
  BY DEF new_with_state, Memory
<1> HIDE DEF m, id, own, oc
<1>2. /\ m.id = id /\ m.last_processed_block = d.block_number /\ m.max_operator_id_seen = d.max_operator_id_seen
      /\ m.operators = fetch_operators(d) /\ m.own_clusters = oc /\ m.shares = own /\ m.nonces = fetch_nonces(d)
      /\ m.clusters = cl /\ m.metadata = d.validators
  BY <1>1 DEF Memory, fetch_validators
<1>3. m = Memory(m.id, m.last_processed_block, m.max_operator_id_seen, m.operators, m.own_clusters, m.shares,
                 m.nonces, m.clusters, m.metadata)
  BY <1>1, <1>2, Zenon DEF fetch_validators
<1>4. DOMAIN cl = DOMAIN d.clusters /\ IsMap(cl)
  BY DEF fetch_clusters, IsMap
<1>5. \A c \in DOMAIN d.clusters :
         cl[c] = [fee_recipient |-> fee_recipient_for_owner(d, cluster_owner(c)), liquidated |-> d.clusters[c].liquidated]
  BY DEF fetch_clusters
<1> HIDE DEF cl
<1>6. \A c \in DOMAIN d.clusters :
         /\ cl[c].fee_recipient = fee_recipient_for_owner(d, cluster_owner(c))
         /\ cl[c].liquidated = d.clusters[c].liquidated
         /\ cl[c] = [fee_recipient |-> cl[c].fee_recipient, liquidated |-> cl[c].liquidated]
  <2> TAKE c \in DOMAIN d.clusters
  <2> DEFINE row == cl[c]
             r == fee_recipient_for_owner(d, cluster_owner(c))
             l == d.clusters[c].liquidated
  <2>1. row = [fee_recipient |-> r, liquidated |-> l]
    BY <1>5
  <2> HIDE DEF row, r, l
  <2>2. row.fee_recipient = r /\ row.liquidated = l /\ row = [fee_recipient |-> row.fee_recipient, liquidated |-> row.liquidated]
    BY <2>1, ClusterRow
  <2> QED
    BY <2>2 DEF row, r, l
<1>7. MemoryOK(m)
  BY <1>2, <1>3, <1>4, <1>6 DEF MemoryOK
<1>8. Mirrors(m, d) /\ FlagsMirror(m, d)
  BY <1>2, <1>4, <1>6 DEF Mirrors, RecipientsMirror, FlagsMirror
<1> QED
  BY <1>2, <1>7, <1>8 DEF Consistent, m, id, own, oc

\* set_validator_indices.
LEMMA SetIndices ==
    ASSUME NEW m, NEW d, Consistent(m, d), NEW pubkeys, NEW index
    PROVE  LET n == set_index_in_memory(m, pubkeys, index)
               e == set_index_on_disk(d, pubkeys, index)
           IN  /\ Consistent(n, e)
               /\ FlagsMirror(m, d) => FlagsMirror(n, e)
               /\ \A own : OwnMirrors(m, d, own) => OwnMirrors(n, e, own)
               /\ SameRegistry(e, d) /\ e.block_number = d.block_number
               /\ n.last_processed_block = m.last_processed_block
               /\ DOMAIN n.metadata = DOMAIN m.metadata
<1> DEFINE n == set_index_in_memory(m, pubkeys, index)
           e == set_index_on_disk(d, pubkeys, index)
           rows == [v \in DOMAIN d.validators |-> IF v \in pubkeys THEN [d.validators[v] EXCEPT !.index = index[v]] ELSE d.validators[v]]
<1>a. TablesOK(d) /\ MemoryOK(m) /\ Mirrors(m, d)
  BY DEF Consistent
<1>1. e = [d EXCEPT !.validators = rows]
  BY DEF set_index_on_disk
<1>2. n = [m EXCEPT !.metadata = rows]
  <2>1. m.metadata = d.validators
    BY <1>a DEF Mirrors
  <2>2. n = [m EXCEPT !.metadata = [v \in DOMAIN m.metadata |-> IF v \in pubkeys THEN [m.metadata[v] EXCEPT !.index = index[v]] ELSE m.metadata[v]]]
    BY DEF set_index_in_memory
  <2> HIDE DEF n
  <2> QED
    BY <2>1, <2>2, Zenon
<1>3. DOMAIN rows = DOMAIN d.validators /\ IsMap(rows)
  BY DEF IsMap
<1>4. \A v \in DOMAIN d.validators :
         /\ rows[v].cluster = d.validators[v].cluster
         /\ rows[v] = [cluster |-> rows[v].cluster, index |-> rows[v].index]
  <2> TAKE v \in DOMAIN d.validators
  <2> DEFINE old == d.validators[v]
             row == rows[v]
             x == index[v]
             c == old.cluster
             i == old.index
  <2>1. old = [cluster |-> c, index |-> i]
    BY <1>a DEF TablesOK, ValidatorsOK
  <2>2. row = IF v \in pubkeys THEN [old EXCEPT !.index = x] ELSE old
    OBVIOUS
  <2> HIDE DEF old, row, x, c, i
  <2>3. [old EXCEPT !.index = x] = [cluster |-> c, index |-> x]
    BY <2>1
  <2>4. row = [cluster |-> c, index |-> x] \/ row = [cluster |-> c, index |-> i]
    BY <2>1, <2>2, <2>3, Zenon
  <2>5. row.cluster = c /\ row = [cluster |-> row.cluster, index |-> row.index]
    BY <2>4
  <2> QED
    BY <2>5 DEF row, c, old
<1> HIDE DEF n, e, rows
<1>5. e = Tables(d.block_number, d.max_operator_id_seen, d.operators, d.skipped_operator_adds, d.owners, d.clusters, rows)
  BY <1>a, <1>1 DEF TablesOK, Tables
<1>6. n = Memory(m.id, m.last_processed_block, m.max_operator_id_seen, m.operators, m.own_clusters, m.shares,
                 m.nonces, m.clusters, rows)
  BY <1>a, <1>2 DEF MemoryOK, Memory
<1>7. /\ e.block_number = d.block_number /\ e.max_operator_id_seen = d.max_operator_id_seen
      /\ e.operators = d.operators /\ e.skipped_operator_adds = d.skipped_operator_adds /\ e.owners = d.owners
      /\ e.clusters = d.clusters /\ e.validators = rows
  BY <1>5 DEF Tables
<1>8. /\ n.id = m.id /\ n.last_processed_block = m.last_processed_block
      /\ n.max_operator_id_seen = m.max_operator_id_seen /\ n.operators = m.operators
      /\ n.own_clusters = m.own_clusters /\ n.shares = m.shares /\ n.nonces = m.nonces /\ n.clusters = m.clusters
      /\ n.metadata = rows
  BY <1>6 DEF Memory
<1>9. e = Tables(e.block_number, e.max_operator_id_seen, e.operators, e.skipped_operator_adds, e.owners, e.clusters, e.validators)
  BY <1>5, <1>7, Zenon
<1>10. n = Memory(n.id, n.last_processed_block, n.max_operator_id_seen, n.operators, n.own_clusters, n.shares,
                  n.nonces, n.clusters, n.metadata)
  BY <1>6, <1>8, Zenon
<1>11. TablesOK(e)
  <2>1. OperatorsOK(e) /\ OwnersOK(e) /\ ClustersOK(e)
    BY <1>a, <1>7 DEF TablesOK, OperatorsOK, OwnersOK, ClustersOK
  <2>2. ValidatorsOK(e)
    BY <1>a, <1>3, <1>4, <1>7 DEF TablesOK, ValidatorsOK
  <2> QED
    BY <1>9, <2>1, <2>2 DEF TablesOK
<1>12. MemoryOK(n)
  BY <1>a, <1>8, <1>10 DEF MemoryOK
<1>13. fetch_operators(e) = fetch_operators(d) /\ fetch_nonces(e) = fetch_nonces(d)
  BY <1>7 DEF fetch_operators, fetch_nonces, operator_exists_tx
<1>14. Mirrors(n, e)
  BY <1>a, <1>7, <1>8, <1>13 DEF Mirrors, RecipientsMirror, fee_recipient_for_owner
<1>15. FlagsMirror(m, d) => FlagsMirror(n, e)
  BY <1>7, <1>8 DEF FlagsMirror
<1>16. SameRegistry(e, d)
  BY <1>3, <1>4, <1>7 DEF SameRegistry
<1>17. ASSUME NEW own, OwnMirrors(m, d, own) PROVE OwnMirrors(n, e, own)
  <2>1. OwnIds(e) = OwnIds(d)
    BY <1>7 DEF OwnIds, operator_exists_tx
  <2>2. n.shares = {v \in DOMAIN e.validators : n.id # None /\ n.id \in cluster_members(e.validators[v].cluster)}
    <3>1. m.shares = {v \in DOMAIN d.validators : m.id # None /\ m.id \in cluster_members(d.validators[v].cluster)}
      BY <1>17 DEF OwnMirrors
    <3>2. \A v \in DOMAIN d.validators : rows[v].cluster = d.validators[v].cluster
      BY <1>4
    <3> QED
      BY <1>3, <1>7, <1>8, <3>1, <3>2
  <2>3. n.own_clusters = {e.validators[v].cluster : v \in n.shares}
    <3>1. n.shares \subseteq DOMAIN d.validators
      BY <1>8, <1>17 DEF OwnMirrors
    <3>2. {e.validators[v].cluster : v \in n.shares} = {d.validators[v].cluster : v \in n.shares}
      BY <1>4, <1>7, <3>1
    <3> QED
      BY <1>8, <1>17, <3>2 DEF OwnMirrors
  <2> QED
    BY <1>7, <1>8, <1>17, <2>1, <2>2, <2>3 DEF OwnMirrors
<1>18. DOMAIN n.metadata = DOMAIN m.metadata
  BY <1>a, <1>3, <1>8 DEF Mirrors
<1> QED
  BY <1>7, <1>8, <1>11, <1>12, <1>14, <1>15, <1>16, <1>17, <1>18 DEF Consistent, n, e

---------------------------------------------------------------------------
(* What the actions do to threads and syncer.                              *)

Thread(status, blocks, live, updates, index_sync, requests) ==
    [status |-> status, blocks |-> blocks, live |-> live, updates |-> updates,
     index_sync |-> index_sync, exits |-> requests]

Changed(p, r) == procs' = [q \in ProcIds |-> IF q = p THEN r ELSE procs[q]]

LEMMA ThreadFields ==
    ASSUME NEW r, NEW status, NEW blocks, NEW live, NEW updates, NEW index_sync, NEW requests,
           r = Thread(status, blocks, live, updates, index_sync, requests)
    PROVE  /\ IsProc(r) /\ r.status = status /\ r.blocks = blocks /\ r.live = live /\ r.updates = updates
           /\ r.index_sync = index_sync /\ r.exits = requests
<1>1. /\ r.status = status /\ r.blocks = blocks /\ r.live = live /\ r.updates = updates
      /\ r.index_sync = index_sync /\ r.exits = requests
  BY DEF Thread
<1> QED
  BY <1>1 DEF Thread, IsProc

LEMMA IdleThread == Idle = Thread("idle", {}, FALSE, <<>>, {}, <<>>)
BY DEF Idle, Thread

LEMMA IdleFields == IsProc(Idle) /\ Idle.status = "idle" /\ Idle.blocks = {}
<1>1. \A l : LET r == Thread("idle", {}, l, <<>>, {}, <<>>) IN IsProc(r) /\ r.status = "idle" /\ r.blocks = {}
  BY ThreadFields
<1> QED
  BY <1>1, IdleThread, Zenon

LEMMA IdleExcept ==
    ASSUME NEW status, NEW blocks, NEW live
    PROVE  /\ [Idle EXCEPT !.status = status, !.live = live, !.blocks = blocks]
                 = Thread(status, blocks, live, <<>>, {}, <<>>)
           /\ [Idle EXCEPT !.status = status, !.blocks = blocks, !.live = live]
                 = Thread(status, blocks, live, <<>>, {}, <<>>)
           /\ [Idle EXCEPT !.status = status, !.blocks = blocks] = Thread(status, blocks, FALSE, <<>>, {}, <<>>)
           /\ [Idle EXCEPT !.status = status] = Thread(status, {}, FALSE, <<>>, {}, <<>>)
<1> DEFINE r == Idle
           l == FALSE
           idle == "idle"
           none == {}
           nil == <<>>
<1>1. r = Thread(idle, none, l, nil, none, nil)
  BY IdleThread
<1> HIDE DEF r, l, idle, none, nil
<1>2. ASSUME NEW t, t = [r EXCEPT !.status = status, !.live = live, !.blocks = blocks]
      PROVE  t = Thread(status, blocks, live, nil, none, nil)
  BY <1>1, <1>2 DEF Thread
<1>3. ASSUME NEW t, t = [r EXCEPT !.status = status, !.blocks = blocks, !.live = live]
      PROVE  t = Thread(status, blocks, live, nil, none, nil)
  BY <1>1, <1>3 DEF Thread
<1>4. ASSUME NEW t, t = [r EXCEPT !.status = status, !.blocks = blocks]
      PROVE  t = Thread(status, blocks, l, nil, none, nil)
  BY <1>1, <1>4 DEF Thread
<1>5. [r EXCEPT !.status = status] = Thread(status, none, l, nil, none, nil)
  BY <1>1 DEF Thread
<1> QED
  BY <1>2, <1>3, <1>4, <1>5, Zenon DEF r, l, none, nil

LEMMA ThreadSet ==
    ASSUME ThreadsOK, NEW p \in ProcIds, NEW r, procs' = [procs EXCEPT ![p] = r]
    PROVE  Changed(p, r)
<1>1. procs = [q \in ProcIds |-> procs[q]]
  BY DEF ThreadsOK
<1> QED
  BY <1>1 DEF Changed

LEMMA ChangedFacts ==
    ASSUME NEW p \in ProcIds, NEW r, Changed(p, r)
    PROVE  /\ procs' = [q \in ProcIds |-> procs'[q]]
           /\ procs'[p] = r
           /\ \A q \in ProcIds : q # p => procs'[q] = procs[q]
BY DEF Changed

LEMMA FreeProcIdle ==
    ASSUME ChainOK, ThreadsOK, OrphansOK, syncer.running = None
    PROVE  FreeProc \in ProcIds /\ procs[FreeProc].status = "idle"
<1>1. None \notin ProcIds /\ MaxErrors + 1 \in Nat /\ errors \in 0..MaxErrors
  BY SyncAssumption DEF ProcIds, ChainOK
<1>2. IsFiniteSet(ProcIds) /\ Cardinality(ProcIds) = MaxErrors + 1
  BY <1>1, FS_Interval, SyncAssumption DEF ProcIds
<1>3. ASSUME \A p \in ProcIds : procs[p].status # "idle" PROVE FALSE
  <2>1. Orphans = ProcIds
    BY <1>1, <1>3 DEF Orphans
  <2> QED
    BY <1>1, <1>2, <2>1, SyncAssumption DEF OrphansOK
<1> QED
  BY <1>3 DEF FreeProc

LEMMA ThreadsKept ==
    ASSUME ThreadsOK, NEW p \in ProcIds, NEW r, Changed(p, r), IsProc(r), r.status \in Statuses, r.blocks \subseteq 1..tip',
           1..tip \subseteq 1..tip', conn' \in ProcIds \union {None},
           r.status \in {"block", "commit", "publish"} <=> conn' = p,
           \A q \in ProcIds : q # p => (conn' = q <=> conn = q)
    PROVE  ThreadsOK'
<1>1. /\ procs' = [q \in ProcIds |-> procs'[q]]
      /\ procs'[p] = r
      /\ \A q \in ProcIds : q # p => procs'[q] = procs[q]
  BY ChangedFacts
<1>2. ASSUME NEW q \in ProcIds
      PROVE  /\ IsProc(procs'[q])
             /\ procs'[q].status \in Statuses
             /\ procs'[q].blocks \subseteq 1..tip'
             /\ procs'[q].status \in {"block", "commit", "publish"} <=> conn' = q
  <2>1. CASE q = p
    BY <1>1, <2>1
  <2>2. CASE q # p
    <3>1. /\ IsProc(procs[q]) /\ procs[q].status \in Statuses /\ procs[q].blocks \subseteq 1..tip
          /\ procs[q].status \in {"block", "commit", "publish"} <=> conn = q
      BY DEF ThreadsOK
    <3> QED
      BY <1>1, <2>2, <3>1
  <2> QED
    BY <2>1, <2>2
<1>3. ProcIds' = ProcIds /\ Statuses' = Statuses
  BY DEF ProcIds, Statuses
<1> QED
  BY <1>1, <1>2, <1>3 DEF ThreadsOK, IsProc

LEMMA FlushedBlocks ==
    ASSUME NEW from \in Nat \ {0}, NEW to \in 1..tip, from <= to, tip \in Nat
    PROVE  Flushed(from, to) \subseteq 1..tip
BY DEF Flushed

Syncer(pc, last, start, end, pending, fetching, fetched, running, synced) ==
    [pc |-> pc, last |-> last, start |-> start, end |-> end, pending |-> pending,
     fetching |-> fetching, fetched |-> fetched, running |-> running, synced |-> synced]

LEMMA SyncerFields ==
    ASSUME NEW s, NEW pc, NEW last, NEW start, NEW end, NEW pending, NEW fetching, NEW fetched, NEW running, NEW synced,
           s = Syncer(pc, last, start, end, pending, fetching, fetched, running, synced)
    PROVE  /\ IsSyncer(s)
           /\ s.pc = pc /\ s.last = last /\ s.start = start /\ s.end = end /\ s.pending = pending
           /\ s.fetching = fetching /\ s.fetched = fetched /\ s.running = running /\ s.synced = synced
<1>1. /\ s.pc = pc /\ s.last = last /\ s.start = start /\ s.end = end /\ s.pending = pending
      /\ s.fetching = fetching /\ s.fetched = fetched /\ s.running = running /\ s.synced = synced
  BY DEF Syncer
<1>2. IsSyncer(s)
  BY <1>1, Zenon DEF Syncer, IsSyncer
<1> QED
  BY <1>1, <1>2

LEMMA StartedSyncer == Started = Syncer("start", 0, 0, 0, <<>>, <<>>, <<>>, None, FALSE)
BY DEF Started, Syncer

\* The fields of a syncer that its invariant reads.
SyncerIs(t, pc, start, end, pending, fetching, fetched, running) ==
    /\ IsSyncer(t)
    /\ t.pc = pc /\ t.start = start /\ t.end = end /\ t.pending = pending /\ t.fetching = fetching
    /\ t.fetched = fetched /\ t.running = running

LEMMA StartedFields == SyncerIs(Started, "start", 0, 0, <<>>, <<>>, <<>>, None)
<1> DEFINE f == FALSE
           s == Started
<1>1. s = Syncer("start", 0, 0, 0, <<>>, <<>>, <<>>, None, f)
  BY StartedSyncer
<1> HIDE DEF f, s
<1>2. SyncerIs(s, "start", 0, 0, <<>>, <<>>, <<>>, None)
  BY <1>1, SyncerFields DEF SyncerIs
<1> QED
  BY <1>2 DEF s

LEMMA SetPcLastStart ==
    ASSUME NEW s, IsSyncer(s), NEW pc, NEW last, NEW start, NEW t, t = [s EXCEPT !.pc = pc, !.last = last, !.start = start]
    PROVE  SyncerIs(t, pc, start, s.end, s.pending, s.fetching, s.fetched, s.running)
<1>1. t = Syncer(pc, last, start, s.end, s.pending, s.fetching, s.fetched, s.running, s.synced)
  BY DEF IsSyncer, Syncer
<1> QED
  BY <1>1, SyncerFields DEF SyncerIs

LEMMA SetPcSynced ==
    ASSUME NEW s, IsSyncer(s), NEW pc, NEW synced, NEW t, t = [s EXCEPT !.pc = pc, !.synced = synced]
    PROVE  SyncerIs(t, pc, s.start, s.end, s.pending, s.fetching, s.fetched, s.running)
<1>1. t = Syncer(pc, s.last, s.start, s.end, s.pending, s.fetching, s.fetched, s.running, synced)
  BY DEF IsSyncer, Syncer
<1> QED
  BY <1>1, SyncerFields DEF SyncerIs

LEMMA SetPcEndFetchingPending ==
    ASSUME NEW s, IsSyncer(s), NEW pc, NEW end, NEW fetching, NEW pending, NEW t, t = [s EXCEPT !.pc = pc, !.end = end, !.fetching = fetching, !.pending = pending]
    PROVE  SyncerIs(t, pc, s.start, end, pending, fetching, s.fetched, s.running)
<1>1. t = Syncer(pc, s.last, s.start, end, pending, fetching, s.fetched, s.running, s.synced)
  BY DEF IsSyncer, Syncer
<1> QED
  BY <1>1, SyncerFields DEF SyncerIs

LEMMA SetRunningFetchingPending ==
    ASSUME NEW s, IsSyncer(s), NEW running, NEW fetching, NEW pending, NEW t, t = [s EXCEPT !.running = running, !.fetching = fetching, !.pending = pending]
    PROVE  SyncerIs(t, s.pc, s.start, s.end, pending, fetching, s.fetched, running)
<1>1. t = Syncer(s.pc, s.last, s.start, s.end, pending, fetching, s.fetched, running, s.synced)
  BY DEF IsSyncer, Syncer
<1> QED
  BY <1>1, SyncerFields DEF SyncerIs

LEMMA SetFetching ==
    ASSUME NEW s, IsSyncer(s), NEW fetching, NEW t, t = [s EXCEPT !.fetching = fetching]
    PROVE  SyncerIs(t, s.pc, s.start, s.end, s.pending, fetching, s.fetched, s.running)
<1>1. t = Syncer(s.pc, s.last, s.start, s.end, s.pending, fetching, s.fetched, s.running, s.synced)
  BY DEF IsSyncer, Syncer
<1> QED
  BY <1>1, SyncerFields DEF SyncerIs

LEMMA SetFetched ==
    ASSUME NEW s, IsSyncer(s), NEW fetched, NEW t, t = [s EXCEPT !.fetched = fetched]
    PROVE  SyncerIs(t, s.pc, s.start, s.end, s.pending, s.fetching, fetched, s.running)
<1>1. t = Syncer(s.pc, s.last, s.start, s.end, s.pending, s.fetching, fetched, s.running, s.synced)
  BY DEF IsSyncer, Syncer
<1> QED
  BY <1>1, SyncerFields DEF SyncerIs

LEMMA SetRunning ==
    ASSUME NEW s, IsSyncer(s), NEW running, NEW t, t = [s EXCEPT !.running = running]
    PROVE  SyncerIs(t, s.pc, s.start, s.end, s.pending, s.fetching, s.fetched, running)
<1>1. t = Syncer(s.pc, s.last, s.start, s.end, s.pending, s.fetching, s.fetched, running, s.synced)
  BY DEF IsSyncer, Syncer
<1> QED
  BY <1>1, SyncerFields DEF SyncerIs

LEMMA SetPcStart ==
    ASSUME NEW s, IsSyncer(s), NEW pc, NEW start, NEW t, t = [s EXCEPT !.pc = pc, !.start = start]
    PROVE  SyncerIs(t, pc, start, s.end, s.pending, s.fetching, s.fetched, s.running)
<1>1. t = Syncer(pc, s.last, start, s.end, s.pending, s.fetching, s.fetched, s.running, s.synced)
  BY DEF IsSyncer, Syncer
<1> QED
  BY <1>1, SyncerFields DEF SyncerIs

LEMMA SetPcFetching ==
    ASSUME NEW s, IsSyncer(s), NEW pc, NEW fetching, NEW t, t = [s EXCEPT !.pc = pc, !.fetching = fetching]
    PROVE  SyncerIs(t, pc, s.start, s.end, s.pending, fetching, s.fetched, s.running)
<1>1. t = Syncer(pc, s.last, s.start, s.end, s.pending, fetching, s.fetched, s.running, s.synced)
  BY DEF IsSyncer, Syncer
<1> QED
  BY <1>1, SyncerFields DEF SyncerIs

LEMMA SetPcFetchingRunning ==
    ASSUME NEW s, IsSyncer(s), NEW pc, NEW fetching, NEW running, NEW t, t = [s EXCEPT !.pc = pc, !.fetching = fetching, !.running = running]
    PROVE  SyncerIs(t, pc, s.start, s.end, s.pending, fetching, s.fetched, running)
<1>1. t = Syncer(pc, s.last, s.start, s.end, s.pending, fetching, s.fetched, running, s.synced)
  BY DEF IsSyncer, Syncer
<1> QED
  BY <1>1, SyncerFields DEF SyncerIs

LEMMA SetPcRunning ==
    ASSUME NEW s, IsSyncer(s), NEW pc, NEW running, NEW t, t = [s EXCEPT !.pc = pc, !.running = running]
    PROVE  SyncerIs(t, pc, s.start, s.end, s.pending, s.fetching, s.fetched, running)
<1>1. t = Syncer(pc, s.last, s.start, s.end, s.pending, s.fetching, s.fetched, running, s.synced)
  BY DEF IsSyncer, Syncer
<1> QED
  BY <1>1, SyncerFields DEF SyncerIs

---------------------------------------------------------------------------
(* The batches of a round.                                                 *)

LEMMA PiecesStart ==
    ASSUME NEW T, NEW all \in Seq(T), NEW first \in 0..Len(all)
    PROVE  LET fetching == SubSeq(all, 1, first)
               pending == SubSeq(all, first + 1, Len(all))
           IN  /\ fetching \in Seq(T) /\ pending \in Seq(T)
               /\ Len(fetching) = first /\ Len(pending) = Len(all) - first
               /\ Pieces(Len(all), all, <<>>, fetching, pending)
<1> DEFINE n == Len(all)
           f == SubSeq(all, 1, first)
           g == SubSeq(all, first + 1, n)
<1>1. n \in Nat
  OBVIOUS
<1>2. /\ f \in Seq(T) /\ Len(f) = first /\ \A x \in 1..first : f[x] = all[x]
  OBVIOUS
<1>3. /\ g \in Seq(T) /\ Len(g) = n - first /\ \A x \in 1..(n - first) : g[x] = all[first + x]
  OBVIOUS
<1> DEFINE none == <<>>
<1>4. Len(none) = 0
  OBVIOUS
<1> HIDE DEF f, g, n, none
<1>5. first \in Nat /\ first <= n
  BY <1>1 DEF n
<1>6. /\ Len(none) + Len(f) + Len(g) <= n
      /\ n - Len(g) - Len(f) = 0 /\ n - Len(g) = first
  BY <1>1, <1>2, <1>3, <1>4, <1>5
<1>7. /\ \A x \in 1..Len(none) : none[x] = all[n - Len(g) - Len(f) - Len(none) + x]
      /\ \A x \in 1..Len(f) : f[x] = all[n - Len(g) - Len(f) + x]
      /\ \A x \in 1..Len(g) : g[x] = all[n - Len(g) + x]
  <2>1. \A x \in 1..Len(none) : FALSE
    BY <1>4
  <2>2. \A x \in 1..Len(f) : n - Len(g) - Len(f) + x = x
    BY <1>2, <1>5, <1>6
  <2>3. \A x \in 1..Len(f) : f[x] = all[n - Len(g) - Len(f) + x]
    BY <1>2, <2>2
  <2>4. \A x \in 1..Len(g) : g[x] = all[n - Len(g) + x]
    BY <1>3, <1>6
  <2> QED
    BY <2>1, <2>3, <2>4
<1>8. Pieces(n, all, none, f, g)
  BY <1>6, <1>7, Zenon DEF Pieces
<1> QED
  BY <1>2, <1>3, <1>8 DEF f, g, n, none

\* A batch, if there is one, is taken from those pending.
FetchedNext(fetching, pending) == IF pending = <<>> THEN fetching ELSE Append(fetching, Head(pending))
PendingNext(pending) == IF pending = <<>> THEN pending ELSE Tail(pending)

LEMMA PiecesFetch ==
    ASSUME NEW T, NEW fetching \in Seq(T), NEW pending \in Seq(T), NEW fetched \in Seq(T), NEW n \in Nat, NEW all,
           Pieces(n, all, fetched, fetching, pending)
    PROVE  LET f == FetchedNext(fetching, pending)
               g == PendingNext(pending)
           IN  /\ f \in Seq(T) /\ g \in Seq(T)
               /\ Len(f) + Len(g) = Len(fetching) + Len(pending)
               /\ g # <<>> => Len(f) = Len(fetching) + 1
               /\ Pieces(n, all, fetched, f, g)
<1> DEFINE f == FetchedNext(fetching, pending)
           g == PendingNext(pending)
           a == Len(fetched)
           b == Len(fetching)
           c == Len(pending)
<1>1. CASE pending = <<>>
  BY <1>1 DEF FetchedNext, PendingNext
<1>2. CASE pending # <<>>
  <2>1. f = Append(fetching, Head(pending)) /\ g = Tail(pending) /\ a \in Nat /\ b \in Nat /\ c \in Nat \ {0}
    BY <1>2 DEF FetchedNext, PendingNext
  <2>2. /\ g \in Seq(T) /\ Len(g) = c - 1 /\ \A x \in 1..(c - 1) : g[x] = pending[x + 1]
        /\ Head(pending) = pending[1] /\ Head(pending) \in T
    BY <1>2, <2>1
  <2>3. /\ f \in Seq(T) /\ Len(f) = b + 1 /\ \A x \in 1..b : f[x] = fetching[x]
        /\ f[b + 1] = pending[1]
    BY <2>1, <2>2
  <2>4. /\ a + b + c <= n
        /\ \A x \in 1..a : fetched[x] = all[n - c - b - a + x]
        /\ \A x \in 1..b : fetching[x] = all[n - c - b + x]
        /\ \A x \in 1..c : pending[x] = all[n - c + x]
    BY DEF Pieces
  <2> HIDE DEF f, g, a, b, c
  <2>5. \A x \in 1..(b + 1) : f[x] = all[n - (c - 1) - (b + 1) + x]
    <3> TAKE x \in 1..(b + 1)
    <3>1. CASE x \in 1..b
      <4>1. n - (c - 1) - (b + 1) + x = n - c - b + x
        BY <2>1
      <4> QED
        BY <2>3, <2>4, <3>1, <4>1
    <3>2. CASE x = b + 1
      <4>1. n - (c - 1) - (b + 1) + x = n - c + 1 /\ 1 \in 1..c
        BY <2>1, <3>2
      <4>2. pending[1] = all[n - c + 1]
        BY <2>4, <4>1
      <4> QED
        BY <2>3, <3>2, <4>1, <4>2
    <3>3. x \in 1..b \/ x = b + 1
      BY <2>1
    <3> QED
      BY <3>1, <3>2, <3>3
  <2>6. \A x \in 1..(c - 1) : g[x] = all[n - (c - 1) + x]
    <3> TAKE x \in 1..(c - 1)
    <3>1. x + 1 \in 1..c /\ n - c + (x + 1) = n - (c - 1) + x
      BY <2>1
    <3> QED
      BY <2>2, <2>4, <3>1
  <2>7. \A x \in 1..a : fetched[x] = all[n - (c - 1) - (b + 1) - a + x]
    BY <2>1, <2>4
  <2>8. Pieces(n, all, fetched, f, g)
    <3>1. a + (b + 1) + (c - 1) <= n
      BY <2>1, <2>4
    <3> QED
      BY <2>2, <2>3, <2>5, <2>6, <2>7, <3>1 DEF Pieces, a
  <2> QED
    BY <2>1, <2>2, <2>3, <2>8 DEF f, g, a, b, c
<1> QED
  BY <1>1, <1>2

\* The first of the batches being fetched is handed over.
LEMMA PiecesTake ==
    ASSUME NEW T, NEW fetching \in Seq(T), NEW pending \in Seq(T), NEW n \in Nat, NEW all,
           Pieces(n, all, <<>>, fetching, pending), fetching # <<>>
    PROVE  /\ Tail(fetching) \in Seq(T) /\ Len(Tail(fetching)) = Len(fetching) - 1
           /\ Pieces(n, all, <<>>, Tail(fetching), pending)
           /\ Head(fetching) = all[n - Len(pending) - Len(fetching) + 1]
<1> DEFINE t == Tail(fetching)
           b == Len(fetching)
           c == Len(pending)
<1>1. /\ t \in Seq(T) /\ Len(t) = b - 1 /\ \A x \in 1..(b - 1) : t[x] = fetching[x + 1]
      /\ Head(fetching) = fetching[1] /\ b \in Nat \ {0} /\ c \in Nat
  OBVIOUS
<1>2. /\ b + c <= n
      /\ \A x \in 1..b : fetching[x] = all[n - c - b + x]
      /\ \A x \in 1..c : pending[x] = all[n - c + x]
  BY DEF Pieces
<1> HIDE DEF t, b, c
<1>3. \A x \in 1..(b - 1) : t[x] = all[n - c - (b - 1) + x]
  <2> TAKE x \in 1..(b - 1)
  <2>1. x + 1 \in 1..b /\ n - c - b + (x + 1) = n - c - (b - 1) + x
    BY <1>1
  <2> QED
    BY <1>1, <1>2, <2>1
<1>4. Pieces(n, all, <<>>, t, pending)
  BY <1>1, <1>2, <1>3 DEF Pieces, c
<1>5. Head(fetching) = all[n - c - b + 1]
  BY <1>1, <1>2
<1> QED
  BY <1>1, <1>4, <1>5 DEF t, b, c

\* It has to wait for the batch before it.
LEMMA PiecesWait ==
    ASSUME NEW T, NEW fetching \in Seq(T), NEW pending \in Seq(T), NEW fetched \in Seq(T), NEW n \in Nat, NEW all,
           Pieces(n, all, fetched, fetching, pending), fetching # <<>>
    PROVE  LET f == Append(fetched, Head(fetching))
               t == Tail(fetching)
           IN  /\ f \in Seq(T) /\ t \in Seq(T) /\ Len(f) = Len(fetched) + 1 /\ Len(t) = Len(fetching) - 1
               /\ Pieces(n, all, f, t, pending)
<1> DEFINE f == Append(fetched, Head(fetching))
           t == Tail(fetching)
           a == Len(fetched)
           b == Len(fetching)
           c == Len(pending)
<1>1. /\ t \in Seq(T) /\ Len(t) = b - 1 /\ \A x \in 1..(b - 1) : t[x] = fetching[x + 1]
      /\ Head(fetching) = fetching[1] /\ Head(fetching) \in T /\ a \in Nat /\ b \in Nat \ {0} /\ c \in Nat
  OBVIOUS
<1>2. /\ f \in Seq(T) /\ Len(f) = a + 1 /\ \A x \in 1..a : f[x] = fetched[x]
      /\ f[a + 1] = fetching[1]
  BY <1>1
<1>3. /\ a + b + c <= n
      /\ \A x \in 1..a : fetched[x] = all[n - c - b - a + x]
      /\ \A x \in 1..b : fetching[x] = all[n - c - b + x]
      /\ \A x \in 1..c : pending[x] = all[n - c + x]
  BY DEF Pieces
<1> HIDE DEF f, t, a, b, c
<1>4. \A x \in 1..(b - 1) : t[x] = all[n - c - (b - 1) + x]
  <2> TAKE x \in 1..(b - 1)
  <2>1. x + 1 \in 1..b /\ n - c - b + (x + 1) = n - c - (b - 1) + x
    BY <1>1
  <2> QED
    BY <1>1, <1>3, <2>1
<1>5. \A x \in 1..(a + 1) : f[x] = all[n - c - (b - 1) - (a + 1) + x]
  <2> TAKE x \in 1..(a + 1)
  <2>1. CASE x \in 1..a
    <3>1. n - c - (b - 1) - (a + 1) + x = n - c - b - a + x
      BY <1>1
    <3> QED
      BY <1>2, <1>3, <2>1, <3>1
  <2>2. CASE x = a + 1
    <3>1. n - c - (b - 1) - (a + 1) + x = n - c - b + 1 /\ 1 \in 1..b
      BY <1>1, <2>2
    <3>2. fetching[1] = all[n - c - b + 1]
      BY <1>3, <3>1
    <3> QED
      BY <1>2, <2>2, <3>1, <3>2
  <2>3. x \in 1..a \/ x = a + 1
    BY <1>1
  <2> QED
    BY <2>1, <2>2, <2>3
<1>6. Pieces(n, all, f, t, pending)
  BY <1>1, <1>2, <1>3, <1>4, <1>5 DEF Pieces, c
<1> QED
  BY <1>1, <1>2, <1>6 DEF f, t, a, b, c

\* The first of those that wait is handed over.
LEMMA PiecesNext ==
    ASSUME NEW T, NEW fetching \in Seq(T), NEW pending \in Seq(T), NEW fetched \in Seq(T), NEW n \in Nat, NEW all,
           Pieces(n, all, fetched, fetching, pending), fetched # <<>>
    PROVE  /\ Tail(fetched) \in Seq(T) /\ Len(Tail(fetched)) = Len(fetched) - 1
           /\ Pieces(n, all, Tail(fetched), fetching, pending)
           /\ Head(fetched) = all[n - Len(pending) - Len(fetching) - Len(fetched) + 1]
<1> DEFINE t == Tail(fetched)
           a == Len(fetched)
           b == Len(fetching)
           c == Len(pending)
<1>1. /\ t \in Seq(T) /\ Len(t) = a - 1 /\ \A x \in 1..(a - 1) : t[x] = fetched[x + 1]
      /\ Head(fetched) = fetched[1] /\ a \in Nat \ {0} /\ b \in Nat /\ c \in Nat
  OBVIOUS
<1>2. /\ a + b + c <= n
      /\ \A x \in 1..a : fetched[x] = all[n - c - b - a + x]
      /\ \A x \in 1..b : fetching[x] = all[n - c - b + x]
      /\ \A x \in 1..c : pending[x] = all[n - c + x]
  BY DEF Pieces
<1> HIDE DEF t, a, b, c
<1>3. \A x \in 1..(a - 1) : t[x] = all[n - c - b - (a - 1) + x]
  <2> TAKE x \in 1..(a - 1)
  <2>1. x + 1 \in 1..a /\ n - c - b - a + (x + 1) = n - c - b - (a - 1) + x
    BY <1>1
  <2> QED
    BY <1>1, <1>2, <2>1
<1>4. Pieces(n, all, t, fetching, pending)
  BY <1>1, <1>2, <1>3 DEF Pieces, b, c
<1>5. Head(fetched) = all[n - c - b - a + 1]
  <2>1. 1 \in 1..a
    BY <1>1
  <2>2. fetched[1] = all[n - c - b - a + 1]
    BY <1>2, <2>1
  <2> QED
    BY <1>1, <2>2
<1> QED
  BY <1>1, <1>4, <1>5 DEF t, a, b, c

---------------------------------------------------------------------------
(* The syncer.                                                             *)

Widened == 1..tip \subseteq 1..tip'

LEMMA SyncerUnchanged ==
    ASSUME SyncerOK, UNCHANGED syncer, Widened
    PROVE  SyncerOK'
<1>1. ProcIds' = ProcIds /\ (syncer.pc = "batches" => Round(syncer))
  BY DEF ProcIds, SyncerOK
<1>2. syncer.pc = "batches" => Round(syncer)'
  BY <1>1 DEF Round, Widened, BatchesLeft, BatchCount, Batches
<1> QED
  BY <1>1, <1>2 DEF SyncerOK, Widened, IsSyncer

LEMMA SyncerStarted ==
    ASSUME syncer' = Started
    PROVE  SyncerOK'
<1>1. SyncerIs(syncer', "start", 0, 0, <<>>, <<>>, <<>>, None)
  BY StartedFields
<1>2. <<>> \in Seq(Nat \X Nat)
  OBVIOUS
<1> QED
  BY <1>1, <1>2 DEF SyncerOK, SyncerIs, IsSyncer

LEMMA SyncerHistorical ==
    ASSUME SyncerOK, mem.last_processed_block \in Nat, historical_sync
    PROVE  SyncerOK' /\ syncer.pc = "start" /\ SyncerIs(syncer', "check", mem.last_processed_block + 1, 0, <<>>, <<>>, <<>>, None)
<1> DEFINE s == Started
           L == mem.last_processed_block
<1>1. syncer' = [s EXCEPT !.pc = "check", !.last = L, !.start = L + 1] /\ syncer.pc = "start"
  BY DEF historical_sync
<1>2. SyncerIs(s, "start", 0, 0, <<>>, <<>>, <<>>, None)
  BY StartedFields
<1> HIDE DEF s, L
<1>3. SyncerIs(syncer', "check", L + 1, 0, <<>>, <<>>, <<>>, None)
  <2>1. SyncerIs(syncer', "check", L + 1, s.end, s.pending, s.fetching, s.fetched, s.running)
    <3>1. IsSyncer(s)
      BY <1>2 DEF SyncerIs
    <3> QED
      BY <1>1, <3>1, SetPcLastStart
  <2> QED
    BY <1>2, <2>1 DEF SyncerIs
<1>4. <<>> \in Seq(Nat \X Nat) /\ L + 1 \in Nat /\ L + 1 >= 1
  BY DEF L
<1>5. SyncerOK'
  BY <1>3, <1>4 DEF SyncerOK, SyncerIs, IsSyncer
<1> QED
  BY <1>1, <1>3, <1>5 DEF L

LEMMA SyncerFinish ==
    ASSUME SyncerOK, FinishHistoricalSync
    PROVE  SyncerOK' /\ syncer.pc = "check" /\ SyncerIs(syncer', "live", syncer.start, syncer.end, <<>>, <<>>, <<>>, None)
<1> DEFINE true == TRUE
           s == syncer
<1>1. syncer' = [s EXCEPT !.pc = "live", !.synced = true] /\ s.pc = "check"
  BY DEF FinishHistoricalSync
<1>2. IsSyncer(s) /\ s.running = None /\ s.pending = <<>> /\ s.fetching = <<>> /\ s.fetched = <<>>
  BY <1>1 DEF SyncerOK
<1> HIDE DEF true, s
<1>3. SyncerIs(syncer', "live", s.start, s.end, <<>>, <<>>, <<>>, None)
  <2>1. SyncerIs(syncer', "live", s.start, s.end, s.pending, s.fetching, s.fetched, s.running)
    BY <1>1, <1>2, SetPcSynced
  <2> QED
    BY <1>2, <2>1
<1>4. <<>> \in Seq(Nat \X Nat) /\ s.start \in Nat /\ s.end \in Nat
  BY DEF SyncerOK, s
<1>5. SyncerOK'
  BY <1>3, <1>4 DEF SyncerOK, SyncerIs, IsSyncer
<1> QED
  BY <1>1, <1>3, <1>5 DEF s

LEMMA SyncerBatches ==
    ASSUME ChainOK, SyncerOK, StartBatches
    PROVE  /\ SyncerOK'
           /\ syncer.pc = "check" /\ syncer'.pc = "batches" /\ syncer'.running = None
           /\ syncer'.start = syncer.start /\ syncer'.end = tip /\ StartedBatches(syncer') = 0
<1> DEFINE s == syncer
           B == Batches(s.start, tip)
           n == BatchCount(s.start, tip)
           first == IF Len(B) < FETCH_CONCURRENT THEN Len(B) ELSE FETCH_CONCURRENT
           f == SubSeq(B, 1, first)
           g == SubSeq(B, first + 1, Len(B))
<1>1. /\ s.pc = "check" /\ ~NothingToSync /\ tip' = tip
      /\ syncer' = [s EXCEPT !.pc = "batches", !.end = tip, !.fetching = f, !.pending = g]
  BY DEF StartBatches
<1>2. /\ IsSyncer(s) /\ s.running = None /\ s.pending = <<>> /\ s.fetching = <<>> /\ s.fetched = <<>>
      /\ s.start \in Nat \ {0} /\ tip \in Nat /\ s.start <= tip
  BY <1>1 DEF SyncerOK, NothingToSync, ChainOK
<1>3. n \in Nat \ {0} /\ B \in Seq(Nat \X Nat) /\ Len(B) = n
  BY <1>2, BatchesShape
<1>4. first \in 0..Len(B) /\ FETCH_CONCURRENT \in Nat \ {0} /\ (first < n => first = FETCH_CONCURRENT)
  BY <1>3, SyncAssumption
<1> HIDE DEF B, n, first, s
<1>5. /\ f \in Seq(Nat \X Nat) /\ g \in Seq(Nat \X Nat)
      /\ Len(f) = first /\ Len(g) = n - first
      /\ Pieces(n, B, <<>>, f, g)
  BY SMTT(60), <1>3, <1>4, PiecesStart
<1> HIDE DEF f, g
<1>6. SyncerIs(syncer', "batches", s.start, tip, g, f, <<>>, None)
  <2>1. SyncerIs(syncer', "batches", s.start, tip, g, f, s.fetched, s.running)
    BY <1>1, <1>2, SetPcEndFetchingPending
  <2> QED
    BY <1>2, <2>1
<1>7. <<>> \in Seq(Nat \X Nat) /\ Len(<<>>) = 0
  OBVIOUS
<1>8. /\ BatchCount(syncer'.start, syncer'.end) = n /\ Batches(syncer'.start, syncer'.end) = B
      /\ BatchesLeft(syncer') = n
  <2>1. BatchCount(syncer'.start, syncer'.end) = n /\ Batches(syncer'.start, syncer'.end) = B
    BY <1>6 DEF SyncerIs, n, B
  <2>2. BatchesLeft(syncer') = 0 + first + (n - first)
    BY <1>5, <1>6, <1>7 DEF SyncerIs, BatchesLeft
  <2> QED
    BY <1>3, <1>4, <2>1, <2>2
<1>9. g # <<>> => first = FETCH_CONCURRENT
  BY <1>3, <1>4, <1>5
<1>10. Round(syncer)'
  <2>1. /\ syncer'.start \in 1..syncer'.end /\ syncer'.end \in 1..tip'
    BY <1>1, <1>2, <1>6 DEF SyncerIs
  <2>2. Pieces(BatchCount(syncer'.start, syncer'.end), Batches(syncer'.start, syncer'.end), syncer'.fetched, syncer'.fetching, syncer'.pending)
    BY <1>5, <1>6, <1>8 DEF SyncerIs
  <2>3. /\ syncer'.running = None /\ syncer'.fetched = <<>>
        /\ syncer'.pending # <<>> => Len(syncer'.fetched) + Len(syncer'.fetching) = FETCH_CONCURRENT
    BY <1>4, <1>5, <1>6, <1>7, <1>9 DEF SyncerIs
  <2> QED
    BY <2>1, <2>2, <2>3 DEF Round, Pieces
<1>11. SyncerOK'
  BY <1>2, <1>5, <1>6, <1>7, <1>10 DEF SyncerOK, SyncerIs, IsSyncer
<1>12. StartedBatches(syncer') = 0
  BY <1>3, <1>8 DEF StartedBatches
<1> QED
  BY <1>1, <1>6, <1>11, <1>12 DEF SyncerIs, s

LEMMA StartBatch ==
    ASSUME NEW s, IsSyncer(s), NEW p
    PROVE  SyncerIs(start_batch(s, p), s.pc, s.start, s.end, PendingNext(s.pending),
                    FetchedNext(s.fetching, s.pending), s.fetched, p)
<1> DEFINE f == FetchedNext(s.fetching, s.pending)
           g == PendingNext(s.pending)
           t == start_batch(s, p)
<1>1. t = [s EXCEPT !.running = p, !.fetching = f, !.pending = g]
  BY DEF start_batch, FetchedNext, PendingNext
<1> HIDE DEF f, g, t
<1>2. SyncerIs(t, s.pc, s.start, s.end, g, f, s.fetched, p)
  BY <1>1, SetRunningFetchingPending
<1> QED
  BY <1>2 DEF f, g, t

\* The facts of a round.
LEMMA RoundShape ==
    ASSUME ChainOK, SyncerOK, syncer.pc = "batches"
    PROVE  LET n == BatchCount(syncer.start, syncer.end)
               B == Batches(syncer.start, syncer.end)
           IN  /\ Round(syncer) /\ n \in Nat \ {0} /\ BatchesLeft(syncer) \in 0..n /\ StartedBatches(syncer) \in 0..n
               /\ syncer.start \in Nat \ {0} /\ syncer.end \in 1..tip /\ tip \in Nat /\ syncer.start <= syncer.end
               /\ \A k \in 1..n : B[k][1] \in 1..B[k][2] /\ B[k][2] \in 1..tip
               /\ Pieces(n, B, syncer.fetched, syncer.fetching, syncer.pending)
<1> DEFINE s == syncer
           n == BatchCount(s.start, s.end)
           B == Batches(s.start, s.end)
<1>1. /\ Round(s) /\ s.pending \in Seq(Nat \X Nat) /\ s.fetching \in Seq(Nat \X Nat) /\ s.fetched \in Seq(Nat \X Nat)
  BY DEF SyncerOK
<1>2. s.start \in 1..s.end /\ s.end \in 1..tip /\ tip \in Nat /\ Pieces(n, B, s.fetched, s.fetching, s.pending)
  BY <1>1 DEF Round, ChainOK
<1>3. s.start \in Nat \ {0} /\ s.end \in Nat /\ s.start <= s.end
  BY <1>2
<1>4. n \in Nat \ {0} /\ \A k \in 1..n : B[k][1] \in 1..B[k][2] /\ B[k][2] \in 1..s.end
  BY <1>3, BatchesShape
<1> HIDE DEF n, B
<1>5. \A k \in 1..n : B[k][1] \in 1..B[k][2] /\ B[k][2] \in 1..tip
  BY <1>2, <1>4
<1>6. Len(s.fetched) + Len(s.fetching) + Len(s.pending) <= n
  BY <1>2 DEF Pieces
<1>7. BatchesLeft(s) \in 0..n
  <2> DEFINE a == Len(s.fetched)
             b == Len(s.fetching)
             c == Len(s.pending)
  <2>1. a \in Nat /\ b \in Nat /\ c \in Nat
    BY <1>1
  <2>2. BatchesLeft(s) = a + b + c /\ a + b + c <= n
    BY <1>6 DEF BatchesLeft
  <2> HIDE DEF a, b, c
  <2> QED
    BY <1>4, <2>1, <2>2
<1>8. StartedBatches(s) \in 0..n
  BY <1>4, <1>7 DEF StartedBatches, n
<1> QED
  BY <1>1, <1>2, <1>3, <1>4, <1>5, <1>7, <1>8 DEF n, B

\* SyncerOK of a syncer in a round.
LEMMA RoundGoesOn ==
    ASSUME SyncerOK, Round(syncer), tip' = tip, NEW pending \in Seq(Nat \X Nat), NEW fetching \in Seq(Nat \X Nat), NEW fetched \in Seq(Nat \X Nat),
           NEW running \in ProcIds \union {None},
           SyncerIs(syncer', "batches", syncer.start, syncer.end, pending, fetching, fetched, running),
           Pieces(BatchCount(syncer.start, syncer.end), Batches(syncer.start, syncer.end), fetched, fetching, pending),
           NEW left, left = Len(fetched) + Len(fetching) + Len(pending),
           running # None => left < BatchCount(syncer.start, syncer.end),
           running = None => fetched = <<>>,
           pending # <<>> => Len(fetched) + Len(fetching) = FETCH_CONCURRENT
    PROVE  /\ SyncerOK'
           /\ BatchesLeft(syncer') = left
           /\ StartedBatches(syncer') = BatchCount(syncer.start, syncer.end) - left
<1> DEFINE t == syncer'
<1>1. /\ t.pc = "batches" /\ t.start = syncer.start /\ t.end = syncer.end /\ t.pending = pending
      /\ t.fetching = fetching /\ t.fetched = fetched /\ t.running = running /\ IsSyncer(t)
  BY DEF SyncerIs
<1>2. syncer.start \in 1..syncer.end /\ syncer.end \in 1..tip /\ syncer.start \in Nat /\ syncer.end \in Nat
  BY DEF Round, SyncerOK
<1> HIDE DEF t
<1>3. /\ BatchesLeft(t) = left
      /\ BatchCount(t.start, t.end) = BatchCount(syncer.start, syncer.end)
      /\ Batches(t.start, t.end) = Batches(syncer.start, syncer.end)
  BY <1>1 DEF BatchesLeft
<1>4. Round(t)
  BY <1>1, <1>2, <1>3 DEF Round
<1>5. Round(syncer)'
  BY <1>4 DEF Round, t
<1>6. SyncerOK'
  BY <1>1, <1>2, <1>5 DEF SyncerOK, IsSyncer, t
<1> QED
  BY <1>3, <1>6 DEF t, StartedBatches

LEMMA SyncerFetched ==
    ASSUME ChainOK, ThreadsOK, OrphansOK, SyncerOK, BatchFetched
    PROVE  LET batch == Batches(syncer.start, syncer.end)[StartedBatches(syncer) + 1]
           IN  /\ SyncerOK' /\ syncer.pc = "batches" /\ syncer'.pc = "batches"
               /\ syncer'.start = syncer.start /\ syncer'.end = syncer.end
               /\ \/ /\ syncer.running # None /\ UNCHANGED procs
                     /\ syncer'.running = syncer.running /\ StartedBatches(syncer') = StartedBatches(syncer)
                  \/ /\ syncer.running = None /\ syncer'.running = FreeProc
                     /\ StartedBatches(syncer') = StartedBatches(syncer) + 1
                     /\ StartedBatches(syncer) + 1 \in 1..BatchCount(syncer.start, syncer.end)
                     /\ Changed(FreeProc, Thread("waiting", Flushed(batch[1], batch[2]), FALSE, <<>>, {}, <<>>))
<1> DEFINE s == syncer
           n == BatchCount(s.start, s.end)
           B == Batches(s.start, s.end)
           a == Len(s.fetched)
           b == Len(s.fetching)
           c == Len(s.pending)
           rest == [s EXCEPT !.fetching = Tail(s.fetching)]
           batch == Head(s.fetching)
<1>1. /\ s.pc = "batches" /\ s.fetching # <<>> /\ tip' = tip
      /\ s.running = None => syncer' = start_batch(rest, FreeProc) /\ procs' = spawn_processor(batch, FALSE)
      /\ s.running # None => syncer' = [rest EXCEPT !.fetched = Append(s.fetched, batch)] /\ procs' = procs
  <2>1. /\ s.pc = "batches" /\ s.fetching # <<>> /\ tip' = tip
        /\ s.running = None => syncer' = start_batch(rest, FreeProc) /\ procs' = spawn_processor(batch, FALSE)
        /\ s.running # None => syncer' = [rest EXCEPT !.fetched = Append(@, batch)] /\ procs' = procs
    BY DEF BatchFetched
  <2>2. rest.fetched = s.fetched
    BY DEF SyncerOK, IsSyncer
  <2> HIDE DEF rest, batch
  <2>3. [rest EXCEPT !.fetched = Append(@, batch)] = [rest EXCEPT !.fetched = Append(s.fetched, batch)]
    BY <2>2
  <2> QED
    BY <2>1, <2>3
<1>2. /\ Round(s) /\ n \in Nat \ {0} /\ StartedBatches(s) \in 0..n /\ IsSyncer(s)
      /\ Pieces(n, B, s.fetched, s.fetching, s.pending)
      /\ s.pending \in Seq(Nat \X Nat) /\ s.fetching \in Seq(Nat \X Nat) /\ s.fetched \in Seq(Nat \X Nat)
      /\ s.running \in ProcIds \union {None}
  BY <1>1, RoundShape DEF SyncerOK
<1>3. a \in Nat /\ b \in Nat \ {0} /\ c \in Nat /\ a + b + c <= n
  <2>1. a \in Nat /\ b \in Nat /\ c \in Nat
    BY <1>2
  <2>2. b # 0
    BY <1>1, <1>2
  <2>3. a + b + c <= n
    BY <1>2 DEF Pieces
  <2> QED
    BY <2>1, <2>2, <2>3
<1>4. StartedBatches(s) = n - (a + b + c)
  BY DEF StartedBatches, BatchesLeft
<1>5. /\ s.running # None => a + b + c < n
      /\ s.running = None => s.fetched = <<>>
      /\ s.pending # <<>> => a + b = FETCH_CONCURRENT
  BY <1>2 DEF Round, BatchesLeft
<1>6. SyncerIs(rest, s.pc, s.start, s.end, s.pending, Tail(s.fetching), s.fetched, s.running)
  BY <1>2, SetFetching
<1>l. Len(s.fetched) = a /\ Len(s.fetching) = b /\ Len(s.pending) = c
  OBVIOUS
<1> HIDE DEF rest, n, B, batch, a, b, c
<1>7. CASE s.running # None
  <2> DEFINE f == Append(s.fetched, batch)
             t == Tail(s.fetching)
  <2>1. /\ f \in Seq(Nat \X Nat) /\ t \in Seq(Nat \X Nat) /\ Len(f) = a + 1 /\ Len(t) = b - 1
        /\ Pieces(n, B, f, t, s.pending)
    <3>1. /\ f \in Seq(Nat \X Nat) /\ t \in Seq(Nat \X Nat) /\ Len(f) = Len(s.fetched) + 1 /\ Len(t) = Len(s.fetching) - 1
          /\ Pieces(n, B, f, t, s.pending)
      BY <1>1, <1>2, PiecesWait DEF batch
    <3> HIDE DEF f, t
    <3> QED
      BY <1>l, <3>1
  <2>2. syncer' = [rest EXCEPT !.fetched = f]
    BY <1>1, <1>7
  <2> HIDE DEF f, t
  <2>3. SyncerIs(syncer', rest.pc, rest.start, rest.end, rest.pending, rest.fetching, f, rest.running)
    BY <1>6, <2>2, SetFetched DEF SyncerIs
  <2>4. SyncerIs(syncer', "batches", s.start, s.end, s.pending, t, f, s.running)
    BY <1>1, <1>6, <2>3 DEF SyncerIs, t
  <2> DEFINE left == Len(f) + Len(t) + c
  <2>5. left = a + b + c /\ Len(f) + Len(t) = a + b
    <3> HIDE DEF left
    <3>1. left = (a + 1) + (b - 1) + c /\ Len(f) + Len(t) = (a + 1) + (b - 1)
      BY <2>1 DEF left
    <3> QED
      BY <1>3, <3>1
  <2> HIDE DEF left
  <2>6. /\ SyncerOK'
        /\ StartedBatches(syncer') = n - left
    <3>1. left = Len(f) + Len(t) + Len(s.pending)
      BY <1>l DEF left
    <3>2. /\ left < BatchCount(s.start, s.end)
          /\ s.pending # <<>> => Len(f) + Len(t) = FETCH_CONCURRENT
      BY <1>5, <1>7, <2>5 DEF n
    <3>3. Pieces(BatchCount(s.start, s.end), Batches(s.start, s.end), f, t, s.pending)
      BY <2>1 DEF n, B
    <3> QED
      BY <1>1, <1>2, <1>7, <2>1, <2>4, <3>1, <3>2, <3>3, RoundGoesOn DEF n
  <2> QED
    BY <1>1, <1>4, <1>7, <2>4, <2>5, <2>6 DEF SyncerIs
<1>8. CASE s.running = None
  <2> DEFINE r == Tail(s.fetching)
             f == FetchedNext(r, s.pending)
             g == PendingNext(s.pending)
  <2>1. /\ r \in Seq(Nat \X Nat) /\ Len(r) = b - 1 /\ Pieces(n, B, <<>>, r, s.pending)
        /\ batch = B[n - c - b + 1]
    <3>1. Pieces(n, B, <<>>, s.fetching, s.pending)
      BY <1>2, <1>5, <1>8
    <3>2. /\ r \in Seq(Nat \X Nat) /\ Len(r) = Len(s.fetching) - 1 /\ Pieces(n, B, <<>>, r, s.pending)
          /\ batch = B[n - Len(s.pending) - Len(s.fetching) + 1]
      <4> DEFINE x == s.fetching
                 y == s.pending
      <4>1. x \in Seq(Nat \X Nat) /\ y \in Seq(Nat \X Nat) /\ n \in Nat /\ Pieces(n, B, <<>>, x, y) /\ x # <<>>
        BY <1>1, <1>2, <3>1
      <4> HIDE DEF x, y
      <4>2. /\ Tail(x) \in Seq(Nat \X Nat) /\ Len(Tail(x)) = Len(x) - 1
            /\ Pieces(n, B, <<>>, Tail(x), y)
            /\ Head(x) = B[n - Len(y) - Len(x) + 1]
        BY <4>1, PiecesTake
      <4> QED
        BY <4>2 DEF x, y, batch
    <3> HIDE DEF r
    <3> QED
      BY <1>l, <3>2
  <2> HIDE DEF r
  <2>2. <<>> \in Seq(Nat \X Nat) /\ Len(<<>>) = 0 /\ a = 0 /\ s.fetched = <<>>
    BY <1>5, <1>8, <1>l
  <2>3. /\ f \in Seq(Nat \X Nat) /\ g \in Seq(Nat \X Nat)
        /\ Len(f) + Len(g) = (b - 1) + c
        /\ g # <<>> => Len(f) = b
        /\ Pieces(n, B, <<>>, f, g)
    <3>1. /\ f \in Seq(Nat \X Nat) /\ g \in Seq(Nat \X Nat)
          /\ Len(f) + Len(g) = Len(r) + Len(s.pending)
          /\ g # <<>> => Len(f) = Len(r) + 1
          /\ Pieces(n, B, <<>>, f, g)
      <4> DEFINE y == s.pending
                 nil == <<>>
      <4>1. nil \in Seq(Nat \X Nat) /\ y \in Seq(Nat \X Nat) /\ r \in Seq(Nat \X Nat) /\ Pieces(n, B, nil, r, y) /\ n \in Nat
        BY <1>2, <2>1, <2>2
      <4> HIDE DEF nil, y
      <4>2. /\ FetchedNext(r, y) \in Seq(Nat \X Nat) /\ PendingNext(y) \in Seq(Nat \X Nat)
            /\ Len(FetchedNext(r, y)) + Len(PendingNext(y)) = Len(r) + Len(y)
            /\ PendingNext(y) # <<>> => Len(FetchedNext(r, y)) = Len(r) + 1
            /\ Pieces(n, B, nil, FetchedNext(r, y), PendingNext(y))
        BY <4>1, PiecesFetch
      <4> QED
        BY <4>2 DEF nil, y
    <3> HIDE DEF f, g
    <3>2. (b - 1) + 1 = b
      BY <1>3
    <3> QED
      BY <1>l, <2>1, <3>1, <3>2
  <2>4. g # <<>> => s.pending # <<>>
    BY DEF PendingNext
  <2>5. SyncerIs(syncer', rest.pc, rest.start, rest.end, PendingNext(rest.pending), FetchedNext(rest.fetching, rest.pending), rest.fetched, FreeProc)
    <3>1. IsSyncer(rest)
      BY <1>6 DEF SyncerIs
    <3> QED
      BY <1>1, <1>8, <3>1, StartBatch
  <2>6. SyncerIs(syncer', "batches", s.start, s.end, g, f, <<>>, FreeProc)
    BY <1>1, <1>6, <2>2, <2>5 DEF SyncerIs, r
  <2>7. FreeProc \in ProcIds
    BY <1>8, FreeProcIdle
  <2> HIDE DEF f, g
  <2> DEFINE left == Len(<<>>) + Len(f) + Len(g)
  <2>8. left = b + c - 1 /\ left < n
    <3>1. left = 0 + (Len(f) + Len(g)) /\ Len(f) \in Nat /\ Len(g) \in Nat
      BY <2>2, <2>3
    <3> HIDE DEF left
    <3>2. left = (b - 1) + c
      BY <1>3, <2>3, <3>1
    <3> QED
      BY <1>2, <1>3, <2>2, <3>2
  <2> HIDE DEF left
  <2>9. /\ SyncerOK'
        /\ StartedBatches(syncer') = n - left
    <3>1. g # <<>> => Len(<<>>) + Len(f) = FETCH_CONCURRENT
      BY <1>3, <1>5, <2>2, <2>3, <2>4
    <3>2. left = Len(<<>>) + Len(f) + Len(g)
      BY DEF left
    <3>3. FreeProc # None
      BY <2>7, SyncAssumption DEF ProcIds
    <3> DEFINE nil == <<>>
               p == FreeProc
               N == BatchCount(s.start, s.end)
    <3>4. /\ nil \in Seq(Nat \X Nat) /\ p \in ProcIds \union {None} /\ p # None
          /\ SyncerIs(syncer', "batches", s.start, s.end, g, f, nil, p)
          /\ Pieces(BatchCount(s.start, s.end), Batches(s.start, s.end), nil, f, g)
          /\ left = Len(nil) + Len(f) + Len(g)
          /\ left < BatchCount(s.start, s.end)
          /\ g # <<>> => Len(nil) + Len(f) = FETCH_CONCURRENT
      BY <2>2, <2>3, <2>6, <2>7, <2>8, <3>1, <3>2, <3>3 DEF n, B
    <3> HIDE DEF nil, p
    <3> QED
      BY <1>1, <1>2, <2>3, <3>4, RoundGoesOn DEF n
  <2>10. /\ StartedBatches(syncer') = StartedBatches(s) + 1 /\ StartedBatches(s) + 1 \in 1..n
         /\ batch = B[StartedBatches(s) + 1]
    <3>1. StartedBatches(s) = n - (0 + b + c)
      BY <1>4, <2>2
    <3>2. n - c - b + 1 = StartedBatches(s) + 1
      BY <1>2, <1>3, <3>1
    <3>3. n - left = StartedBatches(s) + 1 /\ n - left \in 1..n
      BY <1>2, <1>3, <2>8, <3>1
    <3> QED
      BY <2>1, <2>9, <3>2, <3>3
  <2>11. Changed(FreeProc, Thread("waiting", Flushed(batch[1], batch[2]), FALSE, <<>>, {}, <<>>))
    <3> DEFINE w == [Idle EXCEPT !.status = "waiting", !.live = FALSE, !.blocks = Flushed(batch[1], batch[2])]
    <3>1. procs' = [procs EXCEPT ![FreeProc] = w]
      BY <1>1, <1>8 DEF spawn_processor
    <3>2. w = Thread("waiting", Flushed(batch[1], batch[2]), FALSE, <<>>, {}, <<>>)
      BY IdleExcept, ZenonT(60)
    <3> HIDE DEF w
    <3> QED
      BY <2>7, <3>1, <3>2, ThreadSet
  <2> QED
    BY <1>1, <1>8, <2>6, <2>9, <2>10, <2>11 DEF SyncerIs, n, B
<1> QED
  BY <1>7, <1>8

LEMMA SyncerProcessed ==
    ASSUME ChainOK, ThreadsOK, SyncerOK, BatchProcessed
    PROVE  LET batch == Batches(syncer.start, syncer.end)[StartedBatches(syncer) + 1]
           IN  /\ SyncerOK' /\ syncer.pc = "batches" /\ syncer'.pc = "batches"
               /\ syncer'.start = syncer.start /\ syncer'.end = syncer.end
               /\ syncer.running \in ProcIds /\ procs[syncer.running].status = "done"
               /\ \/ /\ syncer'.running = None /\ StartedBatches(syncer') = StartedBatches(syncer)
                     /\ Changed(syncer.running, Idle)
                  \/ /\ syncer'.running = syncer.running
                     /\ StartedBatches(syncer') = StartedBatches(syncer) + 1
                     /\ StartedBatches(syncer) + 1 \in 1..BatchCount(syncer.start, syncer.end)
                     /\ Changed(syncer.running, Thread("waiting", Flushed(batch[1], batch[2]), FALSE, <<>>, {}, <<>>))
<1> DEFINE s == syncer
           n == BatchCount(s.start, s.end)
           B == Batches(s.start, s.end)
           a == Len(s.fetched)
           b == Len(s.fetching)
           c == Len(s.pending)
           rest == [s EXCEPT !.fetched = Tail(s.fetched)]
           batch == Head(s.fetched)
           w == [Idle EXCEPT !.status = "waiting", !.blocks = Flushed(batch[1], batch[2])]
<1>1. /\ s.pc = "batches" /\ s.running # None /\ procs[s.running].status = "done" /\ tip' = tip
      /\ s.fetched = <<>> => syncer' = [s EXCEPT !.running = None] /\ procs' = [procs EXCEPT ![s.running] = Idle]
      /\ s.fetched # <<>> => syncer' = start_batch(rest, s.running) /\ procs' = [procs EXCEPT ![s.running] = w]
  BY DEF BatchProcessed
<1>2. /\ Round(s) /\ n \in Nat \ {0} /\ StartedBatches(s) \in 0..n /\ IsSyncer(s)
      /\ Pieces(n, B, s.fetched, s.fetching, s.pending)
      /\ s.pending \in Seq(Nat \X Nat) /\ s.fetching \in Seq(Nat \X Nat) /\ s.fetched \in Seq(Nat \X Nat)
      /\ s.running \in ProcIds
  BY <1>1, RoundShape DEF SyncerOK
<1>3. a \in Nat /\ b \in Nat /\ c \in Nat /\ a + b + c <= n
  <2>1. a \in Nat /\ b \in Nat /\ c \in Nat
    BY <1>2
  <2>2. a + b + c <= n
    BY <1>2 DEF Pieces
  <2> QED
    BY <2>1, <2>2
<1>4. StartedBatches(s) = n - (a + b + c)
  BY DEF StartedBatches, BatchesLeft
<1>5. /\ a + b + c < n
      /\ s.pending # <<>> => a + b = FETCH_CONCURRENT
  BY <1>1, <1>2 DEF Round, BatchesLeft
<1>6. SyncerIs(rest, s.pc, s.start, s.end, s.pending, s.fetching, Tail(s.fetched), s.running)
  BY <1>2, SetFetched
<1>l. Len(s.fetched) = a /\ Len(s.fetching) = b /\ Len(s.pending) = c
  OBVIOUS
<1>w. w = Thread("waiting", Flushed(batch[1], batch[2]), FALSE, <<>>, {}, <<>>)
  BY IdleExcept, Zenon
<1> HIDE DEF rest, n, B, batch, a, b, c, w
<1>7. CASE s.fetched = <<>>
  <2>1. SyncerIs(syncer', s.pc, s.start, s.end, s.pending, s.fetching, s.fetched, None)
    BY <1>1, <1>2, <1>7, SetRunning
  <2> DEFINE left == a + b + c
             none == None
  <2> HIDE DEF left, none
  <2> DEFINE x == s.fetched
             y == s.fetching
             z == s.pending
  <2>n. none = None
    BY DEF none
  <2>2. /\ none \in ProcIds \union {None} /\ left = Len(x) + Len(y) + Len(z)
        /\ x \in Seq(Nat \X Nat) /\ y \in Seq(Nat \X Nat) /\ z \in Seq(Nat \X Nat)
        /\ SyncerIs(syncer', "batches", s.start, s.end, z, y, x, none)
        /\ Pieces(BatchCount(s.start, s.end), Batches(s.start, s.end), x, y, z)
        /\ z # <<>> => Len(x) + Len(y) = FETCH_CONCURRENT
        /\ none = None => x = <<>>
    BY <1>1, <1>2, <1>5, <1>7, <1>l, <2>1 DEF left, none, n, B
  <2> HIDE DEF x, y, z
  <2>3. SyncerOK' /\ StartedBatches(syncer') = n - left
    <3>1. none # None => left < BatchCount(s.start, s.end)
      BY <2>n
    <3>2. tip' = tip /\ Round(s)
      BY <1>1, <1>2
    <3> QED
      BY <2>2, <3>1, <3>2, RoundGoesOn DEF n
  <2>4. Changed(s.running, Idle)
    BY <1>1, <1>2, <1>7, ThreadSet
  <2> QED
    BY <1>1, <1>2, <1>4, <2>1, <2>3, <2>4 DEF SyncerIs, left
<1>8. CASE s.fetched # <<>>
  <2> DEFINE r == Tail(s.fetched)
             f == FetchedNext(s.fetching, s.pending)
             g == PendingNext(s.pending)
  <2>1. /\ r \in Seq(Nat \X Nat) /\ Len(r) = a - 1 /\ Pieces(n, B, r, s.fetching, s.pending)
        /\ batch = B[n - c - b - a + 1] /\ a # 0
    <3> DEFINE x == s.fetched
               y == s.fetching
               z == s.pending
    <3>1. /\ x \in Seq(Nat \X Nat) /\ y \in Seq(Nat \X Nat) /\ z \in Seq(Nat \X Nat) /\ n \in Nat
          /\ Pieces(n, B, x, y, z) /\ x # <<>>
      BY <1>2, <1>8
    <3> HIDE DEF x, y, z
    <3>2. /\ Tail(x) \in Seq(Nat \X Nat) /\ Len(Tail(x)) = Len(x) - 1
          /\ Pieces(n, B, Tail(x), y, z)
          /\ Head(x) = B[n - Len(z) - Len(y) - Len(x) + 1]
      BY <3>1, PiecesNext
    <3>3. Len(x) # 0
      BY <3>1
    <3> QED
      BY <3>2, <3>3 DEF x, y, z, a, b, c, batch
  <2> HIDE DEF r
  <2>3. /\ f \in Seq(Nat \X Nat) /\ g \in Seq(Nat \X Nat)
        /\ Len(f) + Len(g) = b + c
        /\ g # <<>> => Len(f) = b + 1
        /\ Pieces(n, B, r, f, g)
    <3> DEFINE y == s.fetching
               z == s.pending
    <3>1. r \in Seq(Nat \X Nat) /\ y \in Seq(Nat \X Nat) /\ z \in Seq(Nat \X Nat) /\ Pieces(n, B, r, y, z) /\ n \in Nat
      BY <1>2, <2>1
    <3> HIDE DEF y, z
    <3>2. /\ FetchedNext(y, z) \in Seq(Nat \X Nat) /\ PendingNext(z) \in Seq(Nat \X Nat)
          /\ Len(FetchedNext(y, z)) + Len(PendingNext(z)) = Len(y) + Len(z)
          /\ PendingNext(z) # <<>> => Len(FetchedNext(y, z)) = Len(y) + 1
          /\ Pieces(n, B, r, FetchedNext(y, z), PendingNext(z))
      BY <3>1, PiecesFetch
    <3> QED
      BY <3>2 DEF y, z, b, c
  <2>4. g # <<>> => s.pending # <<>>
    BY DEF PendingNext
  <2>5. SyncerIs(syncer', rest.pc, rest.start, rest.end, PendingNext(rest.pending), FetchedNext(rest.fetching, rest.pending), rest.fetched, s.running)
    <3>1. IsSyncer(rest)
      BY <1>6 DEF SyncerIs
    <3> QED
      BY <1>1, <1>8, <3>1, StartBatch
  <2>6. SyncerIs(syncer', "batches", s.start, s.end, g, f, r, s.running)
    BY <1>1, <1>6, <2>5 DEF SyncerIs, r
  <2> HIDE DEF f, g
  <2> DEFINE left == Len(r) + Len(f) + Len(g)
  <2>8. left = a + b + c - 1 /\ left < n /\ (g # <<>> => Len(r) + Len(f) = a + b)
    <3> DEFINE x == Len(r)
               y == Len(f)
               z == Len(g)
    <3>1. /\ left = x + y + z /\ x = a - 1 /\ x \in Nat /\ y \in Nat /\ z \in Nat /\ y + z = b + c
          /\ g # <<>> => y = b + 1
      BY <2>1, <2>3
    <3>2. n \in Nat /\ a \in Nat /\ b \in Nat /\ c \in Nat /\ a + b + c < n
      BY <1>2, <1>3, <1>5
    <3> HIDE DEF left, x, y, z
    <3>3. left = a + b + c - 1 /\ left < n /\ (g # <<>> => x + y = a + b)
      BY <3>1, <3>2
    <3> QED
      BY <3>3 DEF x, y
  <2> HIDE DEF left
  <2>9. /\ SyncerOK'
        /\ StartedBatches(syncer') = n - left
    <3>1. g # <<>> => Len(r) + Len(f) = FETCH_CONCURRENT
      BY <1>5, <2>4, <2>8
    <3>2. s.running # None
      BY <1>1
    <3> DEFINE p == s.running
    <3>4. /\ p \in ProcIds \union {None} /\ p # None
          /\ SyncerIs(syncer', "batches", s.start, s.end, g, f, r, p)
          /\ Pieces(BatchCount(s.start, s.end), Batches(s.start, s.end), r, f, g)
          /\ left = Len(r) + Len(f) + Len(g)
          /\ left < BatchCount(s.start, s.end)
          /\ g # <<>> => Len(r) + Len(f) = FETCH_CONCURRENT
      BY <1>1, <1>2, <2>3, <2>6, <2>8, <3>1 DEF n, B, left
    <3> HIDE DEF p
    <3>5. p # None => left < BatchCount(s.start, s.end)
      BY <3>4
    <3>6. p = None => r = <<>>
      BY <3>4
    <3>7. tip' = tip /\ Round(s) /\ f \in Seq(Nat \X Nat) /\ g \in Seq(Nat \X Nat) /\ r \in Seq(Nat \X Nat)
      BY <1>1, <1>2, <2>1, <2>3
    <3> QED
      BY <3>4, <3>5, <3>6, <3>7, RoundGoesOn DEF n
  <2>10. /\ StartedBatches(syncer') = StartedBatches(s) + 1 /\ StartedBatches(s) + 1 \in 1..n
         /\ batch = B[StartedBatches(s) + 1]
    <3>2. n - c - b - a + 1 = StartedBatches(s) + 1
      BY <1>2, <1>3, <1>4
    <3>3. n - left = StartedBatches(s) + 1 /\ n - left \in 1..n
      <4>1. n \in Nat /\ a \in Nat \ {0} /\ b \in Nat /\ c \in Nat /\ a + b + c < n
        BY <1>2, <1>3, <1>5, <2>1
      <4>2. left = a + b + c - 1
        BY <2>8
      <4>3. n - left = n - (a + b + c) + 1 /\ n - left >= 1 /\ n - left <= n /\ n - left \in Nat
        BY <4>1, <4>2
      <4> QED
        BY <1>4, <4>1, <4>3
    <3> QED
      BY <2>1, <2>9, <3>2, <3>3
  <2>11. Changed(s.running, Thread("waiting", Flushed(batch[1], batch[2]), FALSE, <<>>, {}, <<>>))
    BY <1>1, <1>2, <1>8, <1>w, ThreadSet
  <2> QED
    BY <1>1, <1>2, <2>6, <2>9, <2>10, <2>11 DEF SyncerIs, n, B
<1> QED
  BY <1>7, <1>8

LEMMA SyncerRoundDone ==
    ASSUME ChainOK, SyncerOK, BatchesDone
    PROVE  /\ SyncerOK' /\ syncer.pc = "batches" /\ syncer.running = None
           /\ StartedBatches(syncer) = BatchCount(syncer.start, syncer.end)
           /\ SyncerIs(syncer', "check", syncer.end + 1, syncer.end, <<>>, <<>>, <<>>, None)
<1> DEFINE s == syncer
           n == BatchCount(s.start, s.end)
<1>1. /\ s.pc = "batches" /\ s.running = None /\ s.fetching = <<>>
      /\ syncer' = [s EXCEPT !.pc = "check", !.start = s.end + 1]
  BY DEF BatchesDone
<1>2. /\ Round(s) /\ IsSyncer(s) /\ s.end \in Nat /\ n \in Nat
  BY <1>1, RoundShape DEF SyncerOK
<1>3. s.fetched = <<>> /\ s.pending = <<>>
  <2>1. s.fetched = <<>> /\ (s.pending # <<>> => Len(s.fetched) + Len(s.fetching) = FETCH_CONCURRENT)
    BY <1>1, <1>2 DEF Round
  <2>2. Len(<<>>) = 0 /\ FETCH_CONCURRENT # 0
    BY SyncAssumption
  <2> QED
    BY <1>1, <2>1, <2>2
<1>4. StartedBatches(s) = n
  <2>1. BatchesLeft(s) = 0
    BY <1>1, <1>3 DEF BatchesLeft
  <2> QED
    BY <1>2, <2>1 DEF StartedBatches
<1> HIDE DEF s, n
<1>5. SyncerIs(syncer', "check", s.end + 1, s.end, <<>>, <<>>, <<>>, None)
  <2>1. SyncerIs(syncer', "check", s.end + 1, s.end, s.pending, s.fetching, s.fetched, s.running)
    BY <1>1, <1>2, SetPcStart
  <2> QED
    BY <1>1, <1>3, <2>1
<1>6. <<>> \in Seq(Nat \X Nat) /\ s.end + 1 \in Nat /\ s.end + 1 >= 1
  BY <1>2
<1>7. SyncerOK'
  BY <1>2, <1>5, <1>6 DEF SyncerOK, SyncerIs, IsSyncer
<1> QED
  BY <1>1, <1>4, <1>5, <1>7 DEF s, n

LEMMA SyncerHeader ==
    ASSUME ChainOK, SyncerOK, mem.last_processed_block \in Nat, HeaderReceived
    PROVE  /\ SyncerOK' /\ syncer.pc = "live" /\ syncer.running = None
           /\ syncer'.pc = "live_fetch" /\ syncer'.running = None
           /\ syncer'.fetching[1][1] = mem.last_processed_block + 1
<1> DEFINE s == syncer
           L == mem.last_processed_block
<1>1. s.pc = "live" /\ tip' = tip
  BY DEF HeaderReceived
<1>2. PICK block \in (L + 1)..tip : syncer' = [s EXCEPT !.pc = "live_fetch", !.fetching = <<<<L + 1, block>>>>]
  BY DEF HeaderReceived
<1>3. IsSyncer(s) /\ s.running = None /\ s.start \in Nat /\ s.end \in Nat /\ s.pending \in Seq(Nat \X Nat) /\ s.fetched \in Seq(Nat \X Nat)
  BY <1>1 DEF SyncerOK
<1>4. L \in Nat /\ block \in Nat /\ tip \in Nat /\ L + 1 \in 1..block /\ block \in 1..tip
  BY <1>2 DEF ChainOK
<1> DEFINE q == <<<<L + 1, block>>>>
<1>5. q \in Seq(Nat \X Nat) /\ Len(q) = 1 /\ q[1] = <<L + 1, block>> /\ q[1][1] = L + 1 /\ q[1][2] = block
  BY <1>4
<1> HIDE DEF s, L, q
<1>6. SyncerIs(syncer', "live_fetch", s.start, s.end, s.pending, q, s.fetched, None)
  <2>1. SyncerIs(syncer', "live_fetch", s.start, s.end, s.pending, q, s.fetched, s.running)
    BY <1>2, <1>3, SetPcFetching DEF q
  <2> QED
    BY <1>3, <2>1
<1>7. SyncerOK'
  BY <1>1, <1>3, <1>4, <1>5, <1>6 DEF SyncerOK, SyncerIs, IsSyncer
<1> QED
  BY <1>1, <1>3, <1>5, <1>6, <1>7 DEF s, L, SyncerIs

LEMMA SyncerLiveFetched ==
    ASSUME ChainOK, ThreadsOK, OrphansOK, SyncerOK, LiveLogsFetched
    PROVE  LET batch == syncer.fetching[1]
           IN  /\ SyncerOK' /\ syncer.pc = "live_fetch" /\ syncer.running = None
               /\ syncer'.pc = "live_process" /\ syncer'.running = FreeProc
               /\ batch[1] \in 1..batch[2] /\ batch[2] \in 1..tip
               /\ Changed(FreeProc, Thread("waiting", Flushed(batch[1], batch[2]), TRUE, <<>>, {}, <<>>))
<1> DEFINE s == syncer
           batch == s.fetching[1]
           w == [Idle EXCEPT !.status = "waiting", !.live = TRUE, !.blocks = Flushed(batch[1], batch[2])]
<1>1. /\ s.pc = "live_fetch" /\ tip' = tip
      /\ syncer' = [s EXCEPT !.pc = "live_process", !.fetching = <<>>, !.running = FreeProc]
      /\ procs' = spawn_processor(Head(s.fetching), TRUE)
  BY DEF LiveLogsFetched
<1>2. /\ IsSyncer(s) /\ s.running = None /\ s.start \in Nat /\ s.end \in Nat /\ s.pending \in Seq(Nat \X Nat)
      /\ s.fetched \in Seq(Nat \X Nat) /\ s.fetching \in Seq(Nat \X Nat) /\ Len(s.fetching) = 1
      /\ batch[1] \in 1..batch[2] /\ batch[2] \in 1..tip
  BY <1>1 DEF SyncerOK
<1>3. Head(s.fetching) = batch
  BY <1>2
<1>4. FreeProc \in ProcIds
  BY <1>2, FreeProcIdle
<1>5. procs' = [procs EXCEPT ![FreeProc] = w]
  BY <1>1, <1>3 DEF spawn_processor
<1>6. w = Thread("waiting", Flushed(batch[1], batch[2]), TRUE, <<>>, {}, <<>>)
  BY IdleExcept, ZenonT(90)
<1> HIDE DEF w, s, batch
<1>7. Changed(FreeProc, Thread("waiting", Flushed(batch[1], batch[2]), TRUE, <<>>, {}, <<>>))
  BY <1>4, <1>5, <1>6, ThreadSet
<1>8. SyncerIs(syncer', "live_process", s.start, s.end, s.pending, <<>>, s.fetched, FreeProc)
  BY <1>1, <1>2, SetPcFetchingRunning
<1>9. <<>> \in Seq(Nat \X Nat) /\ FreeProc # None
  BY <1>4, SyncAssumption DEF ProcIds
<1>10. SyncerOK'
  BY <1>1, <1>2, <1>4, <1>8, <1>9 DEF SyncerOK, SyncerIs, IsSyncer
<1> QED
  BY <1>1, <1>2, <1>7, <1>8, <1>10 DEF SyncerIs, s, batch

LEMMA SyncerLiveProcessed ==
    ASSUME ChainOK, ThreadsOK, SyncerOK, LiveLogsProcessed
    PROVE  /\ SyncerOK' /\ syncer.pc = "live_process" /\ syncer.running \in ProcIds
           /\ procs[syncer.running].status = "done"
           /\ syncer'.pc = "live" /\ syncer'.running = None
           /\ Changed(syncer.running, Idle)
<1> DEFINE s == syncer
           p == s.running
<1>1. /\ s.pc = "live_process" /\ procs[p].status = "done" /\ tip' = tip
      /\ syncer' = [s EXCEPT !.pc = "live", !.running = None]
      /\ procs' = [procs EXCEPT ![p] = Idle]
  BY DEF LiveLogsProcessed
<1>2. /\ IsSyncer(s) /\ p \in ProcIds /\ s.start \in Nat /\ s.end \in Nat /\ s.pending \in Seq(Nat \X Nat)
      /\ s.fetched \in Seq(Nat \X Nat) /\ s.fetching \in Seq(Nat \X Nat)
  BY <1>1 DEF SyncerOK
<1>3. Changed(p, Idle)
  BY <1>1, <1>2, ThreadSet
<1> HIDE DEF s, p
<1>4. SyncerIs(syncer', "live", s.start, s.end, s.pending, s.fetching, s.fetched, None)
  BY <1>1, <1>2, SetPcRunning
<1>5. SyncerOK'
  BY <1>2, <1>4 DEF SyncerOK, SyncerIs, IsSyncer
<1> QED
  BY <1>1, <1>2, <1>3, <1>4, <1>5 DEF SyncerIs, s, p

---------------------------------------------------------------------------
(* Every step keeps the state sound.                                       *)

Sound == ChainOK /\ ThreadsOK /\ OrphansOK /\ SyncerOK /\ StoreOK /\ Protected /\ PreparedOK

\* Nothing is committed or published.
Unseen == /\ Visible' = Visible
          /\ Publishing' <=> Publishing
          /\ Publishing => procs'[conn'].exits = procs[conn].exits

LEMMA OrphansKept ==
    ASSUME OrphansOK, ChainOK, Orphans' \subseteq Orphans, errors' \in Nat, errors <= errors'
    PROVE  OrphansOK'
<1>1. IsFiniteSet(Orphans)
  <2>1. IsFiniteSet(ProcIds)
    BY FS_Interval, SyncAssumption DEF ProcIds
  <2>2. Orphans \subseteq ProcIds
    BY DEF Orphans
  <2> QED
    BY <2>1, <2>2, FS_Subset
<1>2. IsFiniteSet(Orphans') /\ Cardinality(Orphans') <= Cardinality(Orphans) /\ Cardinality(Orphans) \in Nat /\ Cardinality(Orphans') \in Nat
  BY <1>1, FS_Subset, FS_CardinalityType
<1>3. errors \in Nat /\ Cardinality(Orphans) <= errors
  BY SyncAssumption DEF ChainOK, OrphansOK
<1>4. Cardinality(Orphans') <= errors'
  BY <1>2, <1>3
<1> QED
  BY <1>4 DEF OrphansOK

LEMMA OrphansOneMore ==
    ASSUME OrphansOK, ChainOK, NEW p, Orphans' \subseteq Orphans \union {p}, errors' = errors + 1
    PROVE  OrphansOK'
<1>1. IsFiniteSet(Orphans)
  <2>1. IsFiniteSet(ProcIds)
    BY FS_Interval, SyncAssumption DEF ProcIds
  <2>2. Orphans \subseteq ProcIds
    BY DEF Orphans
  <2> QED
    BY <2>1, <2>2, FS_Subset
<1> DEFINE O == Orphans \union {p}
<1>2. IsFiniteSet(O) /\ Cardinality(O) <= Cardinality(Orphans) + 1 /\ Cardinality(Orphans) \in Nat /\ Cardinality(O) \in Nat
  BY <1>1, FS_AddElement, FS_CardinalityType
<1> HIDE DEF O
<1>3. Orphans' \subseteq O
  BY DEF O
<1>4. Cardinality(Orphans') <= Cardinality(O) /\ Cardinality(Orphans') \in Nat
  BY <1>2, <1>3, FS_Subset, FS_CardinalityType
<1>5. errors \in Nat /\ Cardinality(Orphans) <= errors
  BY SyncAssumption DEF ChainOK, OrphansOK
<1>6. Cardinality(Orphans') <= errors'
  BY <1>2, <1>4, <1>5
<1> QED
  BY <1>6 DEF OrphansOK

LEMMA OrphansChanged ==
    ASSUME OrphansOK, ChainOK, NEW q \in ProcIds, NEW r, Changed(q, r), errors' = errors,
           syncer.running \in {syncer'.running, None, q},
           r.status = "idle" \/ q = syncer'.running \/ q \in Orphans
    PROVE  OrphansOK'
<1>1. procs'[q] = r /\ \A x \in ProcIds : x # q => procs'[x] = procs[x]
  BY ChangedFacts
<1>2. Orphans' \subseteq Orphans
  <2>1. ProcIds' = ProcIds /\ None \notin ProcIds
    BY SyncAssumption DEF ProcIds
  <2>2. Orphans' = {x \in ProcIds : procs'[x].status # "idle" /\ x # syncer'.running}
    BY <2>1 DEF Orphans
  <2> QED
    BY <1>1, <2>1, <2>2 DEF Orphans
<1>3. errors \in Nat
  BY SyncAssumption DEF ChainOK
<1> QED
  BY <1>2, <1>3, OrphansKept

LEMMA LogsOfBlock ==
    ASSUME ChainOK, NEW block \in 1..tip
    PROVE  Logs(chain[block]) /\ block \in 1..Len(chain) /\ Len(chain) \in Nat /\ DOMAIN chain = 1..Len(chain)
<1>1. /\ chain \in Seq(Range(chain)) /\ tip \in 0..Len(chain)
      /\ \A b \in DOMAIN chain : chain[b] \in Seq(Range(chain[b])) /\ \A k \in DOMAIN chain[b] : Decoded(chain[b][k])
  BY ChainAssumption DEF ChainOK
<1>2. Len(chain) \in Nat /\ DOMAIN chain = 1..Len(chain)
  BY <1>1
<1>3. block \in 1..Len(chain)
  BY <1>1, <1>2
<1> QED
  BY <1>1, <1>2, <1>3 DEF Logs, IsSeq

\* Nobody is about to commit.
LEMMA NoneCommits ==
    ASSUME ThreadsOK', conn' = None \/ procs'[conn'].status # "commit"
    PROVE  PreparedOK'
<1>1. \A p \in ProcIds : procs'[p].status # "commit"
  <2>1. /\ None \notin ProcIds /\ ProcIds' = ProcIds
        /\ \A p \in ProcIds' : procs'[p].status \in {"block", "commit", "publish"} <=> conn' = p
    BY SyncAssumption DEF ThreadsOK, ProcIds
  <2> QED
    BY <2>1
<1> QED
  BY <1>1 DEF PreparedOK, ProcIds

\* Whoever is about to commit still is, on the same tables.
LEMMA StillPrepared ==
    ASSUME PreparedOK, UNCHANGED <<chain, disk, mem>>, slashing \subseteq slashing',
           \A p \in ProcIds : procs'[p].status = "commit" => procs'[p] = procs[p]
    PROVE  PreparedOK'
<1> SUFFICES ASSUME NEW p \in ProcIds, procs'[p].status = "commit", NEW block \in procs'[p].blocks,
                    \A b \in procs'[p].blocks : block <= b
             PROVE  ~Done(p, block)'.abort /\ Done(p, block)'.registered \subseteq slashing'
  BY DEF PreparedOK, ProcIds
<1>1. procs'[p] = procs[p]
  OBVIOUS
<1>2. ~Done(p, block).abort /\ Done(p, block).registered \subseteq slashing
  BY <1>1 DEF PreparedOK
<1>3. Done(p, block)' = Done(p, block)
  BY <1>1 DEF Done
<1> QED
  BY <1>2, <1>3

\* A step of the syncer, on a thread that is not the one with the connection.
LEMMA QuietStep ==
    ASSUME Sound, NEW q \in ProcIds, NEW r, Changed(q, r), IsProc(r),
           r.status \in {"idle", "waiting", "done", "failed"}, r.blocks \subseteq 1..tip, q # conn,
           UNCHANGED <<chain, tip, disk, mem, slashing, conn>>, errors' \in 0..MaxErrors, OrphansOK', SyncerOK'
    PROVE  Sound' /\ Unseen
<1>1. procs'[q] = r /\ \A x \in ProcIds : x # q => procs'[x] = procs[x]
  BY ChangedFacts
<1>2. ThreadsOK'
  <2>1. r.status \in Statuses /\ ~(r.status \in {"block", "commit", "publish"}) /\ conn \in ProcIds \union {None} /\ ThreadsOK
    BY DEF Statuses, Sound, ThreadsOK
  <2> QED
    BY <2>1, ThreadsKept
<1>3. conn # None => conn \in ProcIds /\ procs'[conn] = procs[conn]
  BY <1>1 DEF Sound, ThreadsOK
<1>4. Unseen
  BY <1>3 DEF Visible, Publishing, Unseen
<1>5. ChainOK' /\ StoreOK' /\ Protected'
  BY <1>4 DEF Unseen, Sound, ChainOK, StoreOK, Protected
<1>6. PreparedOK'
  <2>1. \A x \in ProcIds : procs'[x].status = "commit" => procs'[x] = procs[x]
    BY <1>1
  <2> QED
    BY <2>1, StillPrepared DEF Sound
<1> QED
  BY <1>2, <1>4, <1>5, <1>6 DEF Sound

\* A step that leaves threads and stores alone.
LEMMA StillStep ==
    ASSUME Sound, UNCHANGED <<chain, disk, mem, slashing, conn, procs>>, tip' = tip \/ (tip < MaxBlock /\ tip' = tip + 1),
           errors' \in 0..MaxErrors, errors <= errors', syncer'.running = syncer.running, SyncerOK'
    PROVE  Sound' /\ Unseen
<1>1. tip \in 0..Len(chain) /\ Len(chain) \in Nat
  <2>1. chain \in Seq(Range(chain)) /\ tip \in 0..Len(chain)
    BY ChainAssumption DEF Sound, ChainOK
  <2> QED
    BY <2>1
<1>2. tip' \in 0..Len(chain) /\ 1..tip \subseteq 1..tip' /\ 0..tip \subseteq 0..tip'
  BY <1>1 DEF MaxBlock
<1>3. ProcIds' = ProcIds /\ Statuses' = Statuses
  BY DEF ProcIds, Statuses
<1>4. ThreadsOK'
  <2>1. ThreadsOK
    BY DEF Sound
  <2> QED
    BY <1>2, <1>3, <2>1 DEF ThreadsOK, IsProc
<1>5. OrphansOK'
  <2>1. Orphans' = Orphans
    BY <1>3 DEF Orphans
  <2>2. errors' \in Nat
    BY SyncAssumption
  <2> QED
    BY <2>1, <2>2, OrphansKept DEF Sound
<1>6. Unseen
  BY DEF Visible, Publishing, Unseen
<1>7. ChainOK' /\ StoreOK' /\ Protected'
  BY <1>2, <1>6 DEF Unseen, Sound, ChainOK, StoreOK, Protected
<1>8. PreparedOK'
  BY StillPrepared DEF Sound
<1> QED
  BY <1>4, <1>5, <1>6, <1>7, <1>8 DEF Sound

LEMMA EndedFields ==
    ASSUME NEW p, NEW status
    PROVE  LET r == ended(p, status)
           IN  /\ IsProc(r) /\ r.blocks = {} /\ r.status \in {status, "idle"}
               /\ syncer.running = p => r.status = status
               /\ syncer.running # p => r.status = "idle"
<1> DEFINE t == [Idle EXCEPT !.status = status]
           l == FALSE
<1>1. t = Thread(status, {}, l, <<>>, {}, <<>>)
  BY IdleExcept, Zenon
<1> HIDE DEF t, l
<1>2. IsProc(t) /\ t.blocks = {} /\ t.status = status
  BY <1>1, ThreadFields
<1>3. ended(p, status) = (IF syncer.running = p THEN t ELSE Idle)
  BY DEF ended, t
<1> QED
  BY <1>2, <1>3, IdleFields

\* The thread that has the connection is in a transaction.
LEMMA NotConnected ==
    ASSUME ThreadsOK, NEW q \in ProcIds, procs[q].status \in {"idle", "waiting", "done", "failed"}
    PROVE  q # conn
BY DEF ThreadsOK

LEMMA SoundMine ==
    ASSUME Sound, Mine
    PROVE  Sound' /\ Unseen
<1>1. /\ UNCHANGED <<chain, disk, mem, slashing, conn, procs, syncer, errors>>
      /\ tip < MaxBlock /\ tip' = tip + 1
  BY DEF Mine
<1>2. Widened
  BY <1>1 DEF Widened, Sound, ChainOK
<1>3. SyncerOK'
  BY <1>1, <1>2, SyncerUnchanged DEF Sound
<1>4. errors \in 0..MaxErrors /\ errors <= errors
  BY SyncAssumption DEF Sound, ChainOK
<1> QED
  BY <1>1, <1>3, <1>4, StillStep

\* The syncer's steps that neither start nor end a processor.
LEMMA SoundSyncer ==
    ASSUME Sound, SyncerOK', syncer'.running = syncer.running,
           UNCHANGED <<chain, tip, disk, mem, slashing, conn, procs, errors>>
    PROVE  Sound' /\ Unseen
<1>1. errors \in 0..MaxErrors /\ errors <= errors
  BY SyncAssumption DEF Sound, ChainOK
<1> QED
  BY <1>1, StillStep

LEMMA SoundHistorical ==
    ASSUME Sound, historical_sync \/ FinishHistoricalSync \/ StartBatches \/ BatchesDone \/ HeaderReceived
    PROVE  Sound' /\ Unseen
<1>1. ChainOK /\ SyncerOK /\ mem.last_processed_block \in Nat
  BY DEF Sound, StoreOK
<1>2. UNCHANGED <<chain, tip, disk, mem, slashing, conn, procs, errors>>
  BY DEF historical_sync, FinishHistoricalSync, StartBatches, BatchesDone, HeaderReceived
<1>3. CASE historical_sync
  BY <1>1, <1>2, <1>3, SyncerHistorical, SoundSyncer DEF SyncerIs, SyncerOK
<1>4. CASE FinishHistoricalSync
  BY <1>1, <1>2, <1>4, SyncerFinish, SoundSyncer DEF SyncerIs, SyncerOK
<1>5. CASE StartBatches
  BY <1>1, <1>2, <1>5, SyncerBatches, SoundSyncer DEF SyncerOK
<1>6. CASE BatchesDone
  BY <1>1, <1>2, <1>6, SyncerRoundDone, SoundSyncer DEF SyncerIs
<1>7. CASE HeaderReceived
  BY <1>1, <1>2, <1>7, SyncerHeader, SoundSyncer
<1> QED
  BY <1>3, <1>4, <1>5, <1>6, <1>7

\* The syncer starts a processor, of one of its batches.
LEMMA SoundSpawn ==
    ASSUME Sound, SyncerOK', UNCHANGED <<chain, tip, disk, mem, slashing, conn, errors>>,
           NEW q \in ProcIds, q = syncer'.running, procs[q].status \in {"idle", "done"}, syncer.running \in {None, q},
           NEW from, NEW to, from \in 1..to, to \in 1..tip, NEW live,
           Changed(q, Thread("waiting", Flushed(from, to), live, <<>>, {}, <<>>))
    PROVE  Sound' /\ Unseen
<1> DEFINE r == Thread("waiting", Flushed(from, to), live, <<>>, {}, <<>>)
<1>1. IsProc(r) /\ r.status = "waiting" /\ r.blocks = Flushed(from, to)
  BY ThreadFields
<1>2. Flushed(from, to) \subseteq 1..tip
  BY FlushedBlocks DEF Sound, ChainOK
<1> HIDE DEF r
<1>3. Changed(q, r)
  BY DEF r
<1>4. OrphansOK'
  BY <1>3, OrphansChanged DEF Sound
<1>5. errors' \in 0..MaxErrors /\ q # conn
  BY NotConnected DEF Sound, ChainOK
<1> QED
  BY <1>1, <1>2, <1>3, <1>4, <1>5, QuietStep

\* The syncer forgets a processor that ended.
LEMMA SoundJoin ==
    ASSUME Sound, SyncerOK', UNCHANGED <<chain, tip, disk, mem, slashing, conn, errors>>,
           NEW q \in ProcIds, q = syncer.running, procs[q].status \in {"done", "failed"},
           Changed(q, Idle)
    PROVE  Sound' /\ Unseen
<1>1. OrphansOK'
  BY OrphansChanged, IdleFields DEF Sound
<1>2. errors' \in 0..MaxErrors /\ q # conn
  BY NotConnected DEF Sound, ChainOK
<1>3. IsProc(Idle) /\ Idle.status \in {"idle", "waiting", "done", "failed"} /\ Idle.blocks \subseteq 1..tip
  BY IdleFields
<1> QED
  BY <1>1, <1>2, <1>3, QuietStep

LEMMA SoundBatchFetched ==
    ASSUME Sound, BatchFetched
    PROVE  Sound' /\ Unseen
<1> DEFINE n == BatchCount(syncer.start, syncer.end)
           k == StartedBatches(syncer) + 1
           batch == Batches(syncer.start, syncer.end)[k]
           from == batch[1]
           to == batch[2]
<1>1. UNCHANGED <<chain, tip, disk, mem, slashing, conn, errors>>
  BY DEF BatchFetched
<1>2. /\ SyncerOK' /\ syncer.pc = "batches"
      /\ \/ syncer.running # None /\ UNCHANGED procs /\ syncer'.running = syncer.running
         \/ /\ syncer.running = None /\ syncer'.running = FreeProc /\ k \in 1..n
            /\ Changed(FreeProc, Thread("waiting", Flushed(from, to), FALSE, <<>>, {}, <<>>))
  BY SyncerFetched DEF Sound
<1>3. \A i \in 1..n : LET b == Batches(syncer.start, syncer.end)[i] IN b[1] \in 1..b[2] /\ b[2] \in 1..tip
  BY <1>2, RoundShape DEF Sound
<1>4. CASE syncer.running # None
  BY <1>1, <1>2, <1>4, SoundSyncer
<1>5. CASE syncer.running = None
  <2> DEFINE q == FreeProc
             live == FALSE
  <2>1. q \in ProcIds /\ procs[q].status = "idle"
    BY <1>5, FreeProcIdle DEF Sound
  <2>2. from \in 1..to /\ to \in 1..tip
    BY <1>2, <1>3, <1>5
  <2>3. syncer'.running = q /\ Changed(q, Thread("waiting", Flushed(from, to), live, <<>>, {}, <<>>))
    BY <1>2, <1>5
  <2> HIDE DEF q, live, from, to
  <2> QED
    BY <1>1, <1>2, <1>5, <2>1, <2>2, <2>3, SoundSpawn
<1> QED
  BY <1>4, <1>5

LEMMA SoundBatchProcessed ==
    ASSUME Sound, BatchProcessed
    PROVE  Sound' /\ Unseen
<1> DEFINE n == BatchCount(syncer.start, syncer.end)
           k == StartedBatches(syncer) + 1
           batch == Batches(syncer.start, syncer.end)[k]
           from == batch[1]
           to == batch[2]
           q == syncer.running
           live == FALSE
<1>1. UNCHANGED <<chain, tip, disk, mem, slashing, conn, errors>>
  BY DEF BatchProcessed
<1>2. /\ SyncerOK' /\ syncer.pc = "batches" /\ q \in ProcIds /\ procs[q].status = "done"
      /\ \/ syncer'.running = None /\ Changed(q, Idle)
         \/ /\ syncer'.running = q /\ k \in 1..n
            /\ Changed(q, Thread("waiting", Flushed(from, to), live, <<>>, {}, <<>>))
  BY SyncerProcessed DEF Sound
<1>3. \A i \in 1..n : LET b == Batches(syncer.start, syncer.end)[i] IN b[1] \in 1..b[2] /\ b[2] \in 1..tip
  BY <1>2, RoundShape DEF Sound
<1>q. q = syncer.running
  OBVIOUS
<1>f. k \in 1..n => from \in 1..to /\ to \in 1..tip
  BY <1>3
<1> HIDE DEF q, live, from, to, k, n
<1>4. CASE syncer'.running = None /\ Changed(q, Idle)
  BY <1>1, <1>2, <1>4, <1>q, SoundJoin
<1>5. CASE syncer'.running = q /\ k \in 1..n /\ Changed(q, Thread("waiting", Flushed(from, to), live, <<>>, {}, <<>>))
  BY <1>1, <1>2, <1>5, <1>q, <1>f, SoundSpawn
<1> QED
  BY <1>2, <1>4, <1>5

LEMMA SoundLiveFetched ==
    ASSUME Sound, LiveLogsFetched
    PROVE  Sound' /\ Unseen
<1> DEFINE from == syncer.fetching[1][1]
           to == syncer.fetching[1][2]
           q == FreeProc
           live == TRUE
<1>1. UNCHANGED <<chain, tip, disk, mem, slashing, conn, errors>>
  BY DEF LiveLogsFetched
<1>2. /\ SyncerOK' /\ syncer.running = None /\ syncer'.running = q
      /\ from \in 1..to /\ to \in 1..tip
      /\ Changed(q, Thread("waiting", Flushed(from, to), live, <<>>, {}, <<>>))
  BY SyncerLiveFetched DEF Sound
<1>3. q \in ProcIds /\ procs[q].status = "idle"
  BY <1>2, FreeProcIdle DEF Sound
<1> HIDE DEF q, live, from, to
<1> QED
  BY <1>1, <1>2, <1>3, SoundSpawn

LEMMA SoundLiveProcessed ==
    ASSUME Sound, LiveLogsProcessed
    PROVE  Sound' /\ Unseen
<1>1. UNCHANGED <<chain, tip, disk, mem, slashing, conn, errors>>
  BY DEF LiveLogsProcessed
<1>2. SyncerOK' /\ syncer.running \in ProcIds /\ procs[syncer.running].status = "done" /\ Changed(syncer.running, Idle)
  BY SyncerLiveProcessed DEF Sound
<1> QED
  BY <1>1, <1>2, SoundJoin

LEMMA SoundProcessorFailed ==
    ASSUME Sound, ProcessorFailed
    PROVE  Sound' /\ Unseen
<1>1. /\ UNCHANGED <<chain, tip, disk, mem, slashing, conn, errors>>
      /\ syncer' = Started /\ syncer.running # None /\ procs[syncer.running].status = "failed"
      /\ procs' = [procs EXCEPT ![syncer.running] = Idle]
  BY DEF ProcessorFailed
<1>2. SyncerOK'
  BY <1>1, SyncerStarted
<1>3. syncer.running \in ProcIds
  BY <1>1 DEF Sound, SyncerOK
<1>4. Changed(syncer.running, Idle)
  BY <1>1, <1>3, ThreadSet DEF Sound
<1> QED
  BY <1>1, <1>2, <1>3, <1>4, SoundJoin

\* The thread that was running is left alone when it has not ended yet.
LEMMA SoundConnectionFails ==
    ASSUME Sound, ConnectionFails
    PROVE  Sound' /\ Unseen
<1> DEFINE q == syncer.running
           e == q # None /\ procs[q].status \in {"done", "failed"}
<1>1. /\ UNCHANGED <<chain, tip, disk, mem, slashing, conn>>
      /\ syncer' = Started /\ errors < MaxErrors /\ errors' = errors + 1
      /\ procs' = (IF e THEN [procs EXCEPT ![q] = Idle] ELSE procs)
  BY DEF ConnectionFails
<1>2. SyncerOK' /\ syncer'.running = None
  BY <1>1, SyncerStarted, StartedFields DEF SyncerIs
<1>3. q \in ProcIds \union {None} /\ None \notin ProcIds /\ ProcIds' = ProcIds
  BY SyncAssumption DEF Sound, SyncerOK, ProcIds
<1>4. errors' \in 0..MaxErrors /\ errors' \in Nat
  BY <1>1, SyncAssumption DEF Sound, ChainOK
<1>o. /\ Orphans' = {x \in ProcIds : procs'[x].status # "idle" /\ x # syncer'.running}
      /\ Orphans = {x \in ProcIds : procs[x].status # "idle" /\ x # q}
  BY <1>3 DEF Orphans
<1> HIDE DEF q
<1>5. CASE e
  <2>1. q \in ProcIds
    BY <1>3, <1>5
  <2>2. Changed(q, Idle)
    BY <1>1, <1>5, <2>1, ThreadSet DEF Sound
  <2>3. procs'[q] = Idle /\ \A x \in ProcIds : x # q => procs'[x] = procs[x]
    BY <2>1, <2>2, ChangedFacts
  <2>4. Orphans' \subseteq Orphans \union {q}
    BY <1>o, <2>3
  <2>5. OrphansOK'
    BY <1>1, <2>4, OrphansOneMore DEF Sound
  <2>6. q # conn /\ IsProc(Idle) /\ Idle.status \in {"idle", "waiting", "done", "failed"} /\ Idle.blocks \subseteq 1..tip
    BY <1>5, <2>1, NotConnected, IdleFields DEF Sound
  <2> QED
    BY <1>1, <1>2, <1>4, <2>1, <2>2, <2>5, <2>6, QuietStep
<1>6. CASE ~e
  <2>1. procs' = procs
    BY <1>1, <1>6
  <2>2. Orphans' \subseteq Orphans \union {q}
    BY <1>o, <2>1
  <2>3. OrphansOK'
    BY <1>1, <2>2, OrphansOneMore DEF Sound
  <2>4. Unseen
    BY <1>1, <2>1 DEF Unseen, Visible, Publishing
  <2>5. ThreadsOK'
    <3>1. ThreadsOK /\ Statuses' = Statuses
      BY DEF Sound, Statuses
    <3> QED
      BY <1>1, <1>3, <2>1, <3>1 DEF ThreadsOK, IsProc
  <2>6. ChainOK' /\ StoreOK' /\ Protected'
    BY <1>1, <1>4, <2>4 DEF Unseen, Sound, ChainOK, StoreOK, Protected
  <2>7. PreparedOK'
    BY <1>1, <2>1, StillPrepared DEF Sound
  <2> QED
    BY <1>2, <2>3, <2>4, <2>5, <2>6, <2>7 DEF Sound
<1> QED
  BY <1>5, <1>6

---------------------------------------------------------------------------
(* The steps of a processor.                                               *)

LEMMA SetStatus ==
    ASSUME NEW r, IsProc(r), NEW status, NEW t, t = [r EXCEPT !.status = status]
    PROVE  t = Thread(status, r.blocks, r.live, r.updates, r.index_sync, r.exits)
BY DEF IsProc, Thread

\* Who is in a transaction has the connection, and memory is up to date with the tables.
LEMMA InTransaction ==
    ASSUME Sound, NEW p \in ProcIds, procs[p].status \in {"block", "commit"}
    PROVE  conn = p /\ conn # None /\ ~Publishing /\ Visible = mem /\ Consistent(mem, disk)
<1>1. conn = p
  BY DEF Sound, ThreadsOK
<1>2. ~Publishing /\ Visible = mem
  BY <1>1 DEF Publishing, Visible
<1>3. Consistent(mem, disk)
  BY <1>2 DEF Sound, StoreOK
<1>4. p # None
  BY SyncAssumption DEF ProcIds
<1> QED
  BY <1>1, <1>2, <1>3, <1>4

LEMMA ConnectFacts ==
    ASSUME Sound, NEW p \in ProcIds, Connect(p)
    PROVE  LET r == procs[p]
           IN  /\ r.status = "waiting" /\ conn = None /\ conn' = p
               /\ UNCHANGED <<chain, tip, disk, mem, slashing, syncer, exits, errors, orphaned>>
               /\ Changed(p, Thread("block", r.blocks, r.live, r.updates, r.index_sync, r.exits))
<1> DEFINE r == procs[p]
           t == [r EXCEPT !.status = "block"]
<1>1. /\ r.status = "waiting" /\ conn = None /\ conn' = p
      /\ UNCHANGED <<chain, tip, disk, mem, slashing, syncer, exits, errors, orphaned>>
      /\ procs' = [procs EXCEPT ![p] = t]
  BY DEF Connect
<1>2. IsProc(r) /\ ThreadsOK
  BY DEF Sound, ThreadsOK
<1> HIDE DEF r
<1>3. t = Thread("block", r.blocks, r.live, r.updates, r.index_sync, r.exits)
  BY <1>2, SetStatus
<1> HIDE DEF t
<1>4. Changed(p, t)
  BY <1>1, <1>2, ThreadSet
<1> QED
  BY <1>1, <1>3, <1>4 DEF r

LEMMA SoundConnect ==
    ASSUME Sound, NEW p \in ProcIds, Connect(p)
    PROVE  Sound' /\ Unseen /\ ~Publishing
<1> DEFINE r == procs[p]
           t == Thread("block", r.blocks, r.live, r.updates, r.index_sync, r.exits)
<1>1. /\ r.status = "waiting" /\ conn = None /\ conn' = p
      /\ UNCHANGED <<chain, tip, disk, mem, slashing, syncer, errors>>
      /\ Changed(p, t)
  BY ConnectFacts
<1>2. IsProc(t) /\ t.status = "block" /\ t.blocks = r.blocks
  BY ThreadFields
<1>3. r.blocks \subseteq 1..tip /\ None \notin ProcIds
  BY SyncAssumption DEF Sound, ThreadsOK, ProcIds
<1>4. procs'[p] = t
  BY <1>1, ChangedFacts
<1> HIDE DEF t
<1>5. ThreadsOK'
  <2>1. t.status \in Statuses /\ t.status \in {"block", "commit", "publish"} /\ ThreadsOK
    BY <1>2 DEF Statuses, Sound
  <2>2. \A q \in ProcIds : q # p => (conn' = q <=> conn = q)
    BY <1>1, <1>3
  <2>3. conn' \in ProcIds \union {None} /\ t.blocks \subseteq 1..tip' /\ 1..tip \subseteq 1..tip' /\ conn' = p
    BY <1>1, <1>2, <1>3
  <2> QED
    BY <1>1, <1>2, <2>1, <2>2, <2>3, ThreadsKept
<1>6. ~Publishing /\ Unseen
  BY <1>1, <1>2, <1>4 DEF Unseen, Publishing, Visible
<1>7. OrphansOK'
  <2>1. p = syncer'.running \/ p \in Orphans
    BY <1>1 DEF Orphans
  <2>2. errors' = errors /\ syncer.running \in {syncer'.running, None, p} /\ OrphansOK /\ ChainOK
    BY <1>1 DEF Sound
  <2> QED
    BY <1>1, <2>1, <2>2, OrphansChanged
<1>8. SyncerOK'
  BY <1>1, SyncerUnchanged DEF Sound, Widened
<1>9. ChainOK' /\ StoreOK' /\ Protected'
  BY <1>1, <1>6 DEF Unseen, Sound, ChainOK, StoreOK, Protected
<1>10. PreparedOK'
  BY <1>1, <1>2, <1>4, <1>5, NoneCommits
<1> QED
  BY <1>5, <1>6, <1>7, <1>8, <1>9, <1>10 DEF Sound

LEMMA TimeoutFacts ==
    ASSUME Sound, NEW p \in ProcIds, ConnectTimeout(p)
    PROVE  /\ procs[p].status = "waiting" /\ Changed(p, ended(p, "failed"))
           /\ UNCHANGED <<chain, tip, disk, mem, slashing, conn, syncer, exits, errors, orphaned>>
<1>1. procs' = [procs EXCEPT ![p] = ended(p, "failed")]
  BY DEF ConnectTimeout
<1>2. Changed(p, ended(p, "failed"))
  BY <1>1, ThreadSet DEF Sound
<1> QED
  BY <1>2 DEF ConnectTimeout

LEMMA SoundTimeout ==
    ASSUME Sound, NEW p \in ProcIds, ConnectTimeout(p)
    PROVE  Sound' /\ Unseen
<1> DEFINE r == ended(p, "failed")
<1>1. /\ procs[p].status = "waiting" /\ Changed(p, r)
      /\ UNCHANGED <<chain, tip, disk, mem, slashing, conn, syncer, errors>>
  BY TimeoutFacts
<1>2. /\ IsProc(r) /\ r.blocks = {} /\ r.status \in {"failed", "idle"}
      /\ r.status = "idle" \/ p = syncer.running
  BY EndedFields
<1> HIDE DEF r
<1>3. OrphansOK'
  BY <1>1, <1>2, OrphansChanged DEF Sound
<1>4. SyncerOK'
  BY <1>1, SyncerUnchanged DEF Sound, Widened
<1>5. p # conn /\ errors' \in 0..MaxErrors
  BY <1>1, NotConnected DEF Sound, ChainOK
<1> QED
  BY <1>1, <1>2, <1>3, <1>4, <1>5, QuietStep

\* The commit of a block.
Committed(p, block) ==
    /\ ~Done(p, block).abort /\ conn' = conn /\ disk' = Done(p, block).tx.disk
    /\ Changed(p, Thread("publish", procs[p].blocks \ {block}, procs[p].live, Done(p, block).tx.updates,
                         Done(p, block).index_sync, Done(p, block).exits))

LEMMA CommitFacts ==
    ASSUME Sound, NEW p \in ProcIds, CommitBlock(p)
    PROVE  /\ procs[p].status = "commit"
           /\ UNCHANGED <<chain, tip, mem, slashing, syncer, exits, errors, orphaned>>
           /\ \E block \in procs[p].blocks :
                 /\ \A b \in procs[p].blocks : block <= b
                 /\ block \in 1..tip /\ Logs(chain[block])
                 /\ Done(p, block).registered \subseteq slashing
                 /\ Committed(p, block)
<1>1. PICK block \in procs[p].blocks :
          /\ \A b \in procs[p].blocks : block <= b
          /\ \E done \in {Done(p, block)} :
                /\ disk' = done.tx.disk
                /\ procs' = [procs EXCEPT ![p] = [procs[p] EXCEPT
                               !.status = "publish", !.blocks = @ \ {block}, !.updates = done.tx.updates,
                               !.index_sync = done.index_sync, !.exits = done.exits]]
  BY Zenon DEF CommitBlock, Done
<1> DEFINE r == procs[p]
           bl == r.blocks \ {block}
<1>2. IsProc(r) /\ ThreadsOK /\ block \in 1..tip
  BY DEF Sound, ThreadsOK
<1>3. Logs(chain[block])
  BY <1>2, LogsOfBlock DEF Sound
<1>4. PICK done \in {Done(p, block)} :
          /\ disk' = done.tx.disk
          /\ procs' = [procs EXCEPT ![p] = [procs[p] EXCEPT
                         !.status = "publish", !.blocks = @ \ {block}, !.updates = done.tx.updates,
                         !.index_sync = done.index_sync, !.exits = done.exits]]
  BY <1>1, Zenon
<1>5. done = Done(p, block)
  BY <1>4
<1>6. procs[p].status = "commit" /\ conn' = conn
  BY DEF CommitBlock
<1>7. ~done.abort /\ done.registered \subseteq slashing
  BY <1>1, <1>5, <1>6 DEF Sound, PreparedOK
<1> DEFINE u == done.tx.updates
           i == done.index_sync
           x == done.exits
           t == [r EXCEPT !.status = "publish", !.blocks = bl, !.updates = u, !.index_sync = i, !.exits = x]
<1>8. procs' = [procs EXCEPT ![p] = t]
  BY <1>4, Zenon
<1> HIDE DEF r, bl, u, i, x
<1>9. t = Thread("publish", bl, r.live, u, i, x)
  <2>1. IsProc(r)
    BY <1>2
  <2>2. ASSUME NEW y, y = t PROVE y = Thread("publish", bl, r.live, u, i, x)
    BY <2>1, <2>2 DEF IsProc, Thread
  <2> QED
    BY <2>2
<1> HIDE DEF t
<1>10. Changed(p, t)
  BY <1>2, <1>8, ThreadSet
<1>11. Committed(p, block)
  BY <1>4, <1>5, <1>6, <1>7, <1>9, <1>10 DEF Committed, r, bl, u, i, x
<1> QED
  BY <1>1, <1>2, <1>3, <1>5, <1>7, <1>11 DEF CommitBlock

\* What a step before the commit leaves: the thread has failed, or is about to commit.
LEMMA LogsFacts ==
    ASSUME Sound, NEW p \in ProcIds, ProcessLogs(p) \/ DatabaseFails(p)
    PROVE  /\ procs[p].status \in {"block", "commit"}
           /\ UNCHANGED <<chain, tip, disk, mem, syncer, exits, orphaned>>
           /\ slashing \subseteq slashing'
           /\ errors' = errors \/ (errors < MaxErrors /\ errors' = errors + 1)
           /\ \/ conn' = None /\ Changed(p, ended(p, "failed"))
              \/ /\ conn' = conn /\ procs[p].status = "block"
                 /\ Changed(p, Thread("commit", procs[p].blocks, procs[p].live, procs[p].updates,
                                      procs[p].index_sync, procs[p].exits))
                 /\ \A block \in procs[p].blocks : (\A b \in procs[p].blocks : block <= b) =>
                       ~Done(p, block).abort /\ Done(p, block).registered \subseteq slashing'
<1> DEFINE r == procs[p]
           t == [r EXCEPT !.status = "commit"]
<1>1. IsProc(r) /\ ThreadsOK /\ r.blocks \subseteq 1..tip /\ tip \in Nat
  BY DEF Sound, ThreadsOK, ChainOK
<1>2. CASE DatabaseFails(p)
  <2>1. procs' = [procs EXCEPT ![p] = ended(p, "failed")]
    BY <1>2 DEF DatabaseFails
  <2>2. Changed(p, ended(p, "failed"))
    BY <1>1, <2>1, ThreadSet
  <2>3. /\ procs[p].status \in {"block", "commit"} /\ conn' = None
        /\ UNCHANGED <<chain, tip, disk, mem, syncer, exits, orphaned>>
        /\ errors < MaxErrors /\ errors' = errors + 1
    BY <1>2 DEF DatabaseFails
  <2>4. slashing \subseteq slashing'
    <3>1. (slashing' = slashing) \/ \E more : slashing' = slashing \union more
      BY <1>2, Zenon DEF DatabaseFails
    <3> QED
      BY <3>1
  <2> QED
    BY <2>2, <2>3, <2>4
<1>3. CASE ProcessLogs(p)
  <2>1. /\ r.status = "block" /\ errors' = errors
        /\ UNCHANGED <<chain, tip, disk, mem, syncer, exits, orphaned>>
    BY <1>3 DEF ProcessLogs
  <2>2. PICK block \in r.blocks :
            /\ \A b \in r.blocks : block <= b
            /\ \E done \in {Done(p, block)} :
                  /\ slashing' = slashing \union done.registered
                  /\ IF done.abort
                     THEN conn' = None /\ procs' = [procs EXCEPT ![p] = ended(p, "failed")]
                     ELSE UNCHANGED conn /\ procs' = [procs EXCEPT ![p].status = "commit"]
    BY <1>3, Zenon DEF ProcessLogs, Done
  <2> DEFINE d == Done(p, block)
  <2>3. /\ slashing' = slashing \union d.registered
        /\ IF d.abort
           THEN conn' = None /\ procs' = [procs EXCEPT ![p] = ended(p, "failed")]
           ELSE UNCHANGED conn /\ procs' = [procs EXCEPT ![p].status = "commit"]
    BY <2>2, Zenon
  <2>4. \A other \in r.blocks : (\A b \in r.blocks : other <= b) => other = block
    BY <1>1, <2>2
  <2> HIDE DEF d
  <2>5. CASE d.abort
    <3>1. Changed(p, ended(p, "failed"))
      BY <1>1, <2>3, <2>5, ThreadSet
    <3> QED
      BY <2>1, <2>3, <2>5, <3>1
  <2>6. CASE ~d.abort
    <3>1. procs' = [procs EXCEPT ![p] = t] /\ conn' = conn
      BY <2>3, <2>6
    <3>2. \A block2 \in r.blocks : (\A b \in r.blocks : block2 <= b) =>
              ~Done(p, block2).abort /\ Done(p, block2).registered \subseteq slashing'
      BY <2>3, <2>4, <2>6 DEF d
    <3> HIDE DEF r
    <3>3. t = Thread("commit", r.blocks, r.live, r.updates, r.index_sync, r.exits)
      BY <1>1, SetStatus
    <3> HIDE DEF t
    <3>4. Changed(p, t)
      BY <1>1, <3>1, ThreadSet
    <3> QED
      BY <2>1, <2>3, <3>1, <3>2, <3>3, <3>4 DEF r
  <2> QED
    BY <2>5, <2>6
<1> QED
  BY <1>2, <1>3

\* What a commit leaves for publication.
LEMMA CommitVisible ==
    ASSUME Sound, NEW p \in ProcIds, procs[p].status = "commit", NEW block, Committed(p, block), mem' = mem
    PROVE  /\ Publishing' /\ Visible' = Published(mem, Done(p, block).tx)
           /\ procs'[p].exits = Done(p, block).exits /\ conn' = p
<1> DEFINE done == Done(p, block)
           t == Thread("publish", procs[p].blocks \ {block}, procs[p].live, done.tx.updates, done.index_sync, done.exits)
<1>1. conn = p /\ conn # None
  BY InTransaction
<1>2. conn' = conn /\ Changed(p, t)
  BY DEF Committed
<1>3. t.status = "publish" /\ t.updates = done.tx.updates /\ t.exits = done.exits
  BY ThreadFields
<1>4. procs'[p] = t
  BY <1>2, ChangedFacts
<1> HIDE DEF t
<1>5. Publishing' /\ Visible' = publish_pending_state_updates(mem', procs'[p].updates)
  BY <1>1, <1>2, <1>3, <1>4 DEF Publishing, Visible
<1> QED
  BY <1>1, <1>2, <1>3, <1>4, <1>5 DEF Published

\* The thread failed, or it is about to commit.
LEMMA SoundLogs ==
    ASSUME Sound, NEW p \in ProcIds, ProcessLogs(p) \/ DatabaseFails(p)
    PROVE  Sound' /\ Unseen
<1> DEFINE a == ended(p, "failed")
           c == Thread("commit", procs[p].blocks, procs[p].live, procs[p].updates, procs[p].index_sync, procs[p].exits)
<1>1. /\ procs[p].status \in {"block", "commit"} /\ slashing \subseteq slashing'
      /\ UNCHANGED <<chain, tip, disk, mem, syncer>>
      /\ errors' = errors \/ (errors < MaxErrors /\ errors' = errors + 1)
  BY LogsFacts
<1>2. conn = p /\ conn # None /\ ~Publishing /\ Visible = mem /\ None \notin ProcIds
  BY <1>1, InTransaction, SyncAssumption DEF ProcIds
<1>3. /\ IsProc(a) /\ a.blocks = {} /\ a.status \in {"failed", "idle"} /\ (a.status = "idle" \/ p = syncer'.running)
      /\ IsProc(c) /\ c.blocks = procs[p].blocks /\ c.live = procs[p].live /\ c.status = "commit"
  BY <1>1, EndedFields, ThreadFields
<1>4. \/ conn' = None /\ Changed(p, a)
      \/ /\ conn' = conn /\ Changed(p, c)
         /\ \A block \in procs[p].blocks : (\A b \in procs[p].blocks : block <= b) =>
               ~Done(p, block).abort /\ Done(p, block).registered \subseteq slashing'
  BY LogsFacts
<1> HIDE DEF a, c
<1>5. PICK r : /\ Changed(p, r) /\ IsProc(r) /\ r.blocks \subseteq procs[p].blocks
               /\ \/ r.status \in {"failed", "idle"} /\ conn' = None
                  \/ r = c /\ conn' = p
               /\ r.status = "idle" \/ p = syncer'.running \/ p \in Orphans
  BY <1>1, <1>2, <1>3, <1>4 DEF Orphans
<1>6. procs'[p] = r /\ \A x \in ProcIds : x # p => procs'[x] = procs[x]
  BY <1>5, ChangedFacts
<1>7. /\ ThreadsOK /\ OrphansOK /\ ChainOK /\ procs[p].blocks \subseteq 1..tip /\ 1..tip \subseteq 1..tip'
      /\ syncer.running = syncer'.running
  BY <1>1 DEF Sound, ThreadsOK
<1>8. ThreadsOK'
  <2>1. r.status \in Statuses /\ (r.status \in {"block", "commit", "publish"} <=> conn' = p) /\ r.blocks \subseteq 1..tip'
    BY <1>2, <1>3, <1>5, <1>7 DEF Statuses
  <2>2. (\A q \in ProcIds : q # p => (conn' = q <=> conn = q)) /\ conn' \in ProcIds \union {None}
    BY <1>2, <1>5
  <2> QED
    BY <1>5, <1>7, <2>1, <2>2, ThreadsKept
<1>9. OrphansOK'
  <2>1. Orphans' \subseteq Orphans
    <3>1. Orphans' = {x \in ProcIds : procs'[x].status # "idle" /\ x # syncer'.running}
      BY DEF Orphans, ProcIds
    <3> QED
      BY <1>5, <1>6, <1>7, <3>1 DEF Orphans
  <2>2. errors' \in Nat /\ errors <= errors'
    BY <1>1, <1>7, SyncAssumption DEF ChainOK
  <2> QED
    BY <1>7, <2>1, <2>2, OrphansKept
<1>10. SyncerOK'
  BY <1>1, SyncerUnchanged DEF Sound, Widened
<1>11. Unseen
  <2>1. ~Publishing'
    BY <1>3, <1>5, <1>6 DEF Publishing
  <2> QED
    BY <1>1, <1>2, <2>1 DEF Unseen, Visible
<1>12. ChainOK' /\ StoreOK' /\ Protected'
  <2>1. errors' \in 0..MaxErrors
    BY <1>1, <1>7, SyncAssumption DEF ChainOK
  <2> QED
    BY <1>1, <1>11, <2>1 DEF Unseen, Sound, ChainOK, StoreOK, Protected
<1>13. PreparedOK'
  <2>1. CASE conn' = None
    BY <1>8, <2>1, NoneCommits
  <2>2. CASE conn' # None
    <3>1. /\ r = c /\ conn' = p
          /\ \A block \in procs[p].blocks : (\A b \in procs[p].blocks : block <= b) =>
                ~Done(p, block).abort /\ Done(p, block).registered \subseteq slashing'
      BY <1>4, <1>5, <2>2
    <3>2. \A q \in ProcIds : procs'[q].status = "commit" => q = p
      BY <1>8, <3>1 DEF ThreadsOK, ProcIds
    <3>3. procs'[p].blocks = procs[p].blocks /\ procs'[p].live = procs[p].live
      BY <1>3, <1>6, <3>1
    <3>4. \A block : Done(p, block)' = Done(p, block)
      BY <1>1, <3>3 DEF Done
    <3> SUFFICES ASSUME NEW q \in ProcIds, procs'[q].status = "commit", NEW block \in procs'[q].blocks,
                        \A b \in procs'[q].blocks : block <= b
                 PROVE  ~Done(q, block)'.abort /\ Done(q, block)'.registered \subseteq slashing'
      BY DEF PreparedOK, ProcIds
    <3> QED
      BY <3>1, <3>2, <3>3, <3>4
  <2> QED
    BY <2>1, <2>2
<1> QED
  BY <1>8, <1>9, <1>10, <1>11, <1>12, <1>13 DEF Sound

LEMMA SoundCommit ==
    ASSUME Sound, NEW p \in ProcIds, CommitBlock(p)
    PROVE  Sound'
<1>1. procs[p].status = "commit" /\ UNCHANGED <<chain, tip, mem, slashing, syncer, errors>>
  BY CommitFacts
<1>2. PICK block \in procs[p].blocks :
          /\ block \in 1..tip /\ Logs(chain[block])
          /\ Done(p, block).registered \subseteq slashing
          /\ Committed(p, block)
  BY CommitFacts
<1>3. conn = p /\ conn # None /\ ~Publishing /\ Visible = mem /\ Consistent(mem, disk) /\ None \notin ProcIds
  BY <1>1, InTransaction, SyncAssumption DEF ProcIds
<1> DEFINE done == Done(p, block)
<1>4. /\ Consistent(Published(mem, done.tx), done.tx.disk)
      /\ done.tx.disk.block_number = block
      /\ DOMAIN done.tx.disk.validators \subseteq DOMAIN disk.validators \union done.registered
  BY <1>2, <1>3, ProcessBlock DEF Done
<1> HIDE DEF done
<1>5. SyncerOK'
  BY <1>1, SyncerUnchanged DEF Sound, Widened
<1>6. ChainOK' /\ tip \in Nat
  BY <1>1 DEF Sound, ChainOK
<1>7. p = syncer'.running \/ p \in Orphans
  BY <1>1 DEF Orphans
<1>8. /\ ThreadsOK /\ OrphansOK /\ ChainOK /\ procs[p].blocks \subseteq 1..tip /\ 1..tip \subseteq 1..tip' /\ errors' = errors
      /\ syncer.running \in {syncer'.running, None, p}
  BY <1>1 DEF Sound, ThreadsOK
<1> DEFINE r == Thread("publish", procs[p].blocks \ {block}, procs[p].live, done.tx.updates, done.index_sync, done.exits)
<1>9. conn' = p /\ disk' = done.tx.disk /\ Changed(p, r)
  BY <1>2, <1>3 DEF Committed, done
<1>10. IsProc(r) /\ r.blocks = procs[p].blocks \ {block} /\ r.status = "publish"
  BY ThreadFields
<1> HIDE DEF r
<1>11. ThreadsOK'
  <2>1. r.status \in Statuses /\ r.status \in {"block", "commit", "publish"} /\ r.blocks \subseteq 1..tip'
    BY <1>8, <1>10 DEF Statuses
  <2>2. \A q \in ProcIds : q # p => (conn' = q <=> conn = q)
    BY <1>3, <1>9
  <2> QED
    BY <1>8, <1>9, <1>10, <2>1, <2>2, ThreadsKept
<1>12. OrphansOK'
  BY <1>7, <1>8, <1>9, OrphansChanged
<1>13. Visible' = Published(mem, done.tx)
  BY <1>1, <1>2, CommitVisible DEF done
<1>14. StoreOK' /\ Protected'
  <2>1. disk'.block_number \in 0..tip' /\ mem'.last_processed_block \in 0..tip'
    BY <1>1, <1>2, <1>4, <1>6, <1>9 DEF Sound, StoreOK
  <2> QED
    BY <1>1, <1>2, <1>4, <1>9, <1>13, <2>1 DEF Sound, StoreOK, Protected, done
<1>15. PreparedOK'
  <2>1. procs'[p] = r
    BY <1>9, ChangedFacts
  <2> QED
    BY <1>9, <1>10, <1>11, <2>1, NoneCommits
<1> QED
  BY <1>5, <1>6, <1>11, <1>12, <1>14, <1>15 DEF Sound

LEMMA PublishFacts ==
    ASSUME Sound, NEW p \in ProcIds, PublishBlock(p)
    PROVE  /\ procs[p].status = "publish" /\ conn = p /\ Publishing /\ mem' = Visible /\ exits' = exits \o procs[p].exits
           /\ UNCHANGED <<chain, tip, disk, slashing, syncer, errors, orphaned>>
           /\ \/ procs[p].blocks = {} /\ conn' = None /\ Changed(p, ended(p, "done"))
              \/ /\ procs[p].blocks # {} /\ conn' = conn
                 /\ Changed(p, Thread("block", procs[p].blocks, procs[p].live, <<>>, {}, <<>>))
<1> DEFINE r == procs[p]
           t == [Idle EXCEPT !.status = "block", !.blocks = r.blocks, !.live = r.live]
<1>1. /\ r.status = "publish" /\ mem' = publish_pending_state_updates(mem, r.updates) /\ exits' = exits \o r.exits
      /\ UNCHANGED <<chain, tip, disk, slashing, syncer, errors, orphaned>>
      /\ \/ r.blocks = {} /\ conn' = None /\ procs' = [procs EXCEPT ![p] = ended(p, "done")]
         \/ r.blocks # {} /\ conn' = conn /\ procs' = [procs EXCEPT ![p] = t]
  BY DEF PublishBlock
<1>2. ThreadsOK /\ conn = p /\ p # None
  BY <1>1, SyncAssumption DEF Sound, ThreadsOK, ProcIds
<1>3. Publishing /\ mem' = Visible
  BY <1>1, <1>2 DEF Publishing, Visible
<1>4. t = Thread("block", r.blocks, r.live, <<>>, {}, <<>>)
  <2>1. \A blocks, live : [Idle EXCEPT !.status = "block", !.blocks = blocks, !.live = live]
                              = Thread("block", blocks, live, <<>>, {}, <<>>)
    BY IdleExcept, ZenonT(60)
  <2> QED
    BY <2>1, Zenon
<1> HIDE DEF r, t
<1>5. CASE r.blocks = {} /\ conn' = None /\ procs' = [procs EXCEPT ![p] = ended(p, "done")]
  BY <1>1, <1>2, <1>3, <1>5, ThreadSet DEF r
<1>6. CASE r.blocks # {} /\ conn' = conn /\ procs' = [procs EXCEPT ![p] = t]
  <2>1. Changed(p, Thread("block", r.blocks, r.live, <<>>, {}, <<>>))
    BY <1>2, <1>4, <1>6, ThreadSet
  <2> QED
    BY <1>1, <1>2, <1>3, <1>6, <2>1 DEF r
<1> QED
  BY <1>1, <1>5, <1>6

LEMMA SoundPublish ==
    ASSUME Sound, NEW p \in ProcIds, PublishBlock(p)
    PROVE  Sound' /\ ~Publishing' /\ Visible' = Visible
<1> DEFINE a == ended(p, "done")
           b == Thread("block", procs[p].blocks, procs[p].live, <<>>, {}, <<>>)
<1>1. /\ procs[p].status = "publish" /\ conn = p /\ mem' = Visible
      /\ UNCHANGED <<chain, tip, disk, slashing, syncer, errors>>
      /\ (conn' = None /\ Changed(p, a)) \/ (conn' = conn /\ Changed(p, b))
  BY PublishFacts
<1>2. /\ IsProc(a) /\ a.blocks = {} /\ a.status \in {"done", "idle"} /\ (a.status = "idle" \/ p = syncer'.running)
      /\ IsProc(b) /\ b.blocks = procs[p].blocks /\ b.status = "block"
  BY <1>1, EndedFields, ThreadFields
<1> HIDE DEF a, b
<1>3. PICK r : /\ Changed(p, r) /\ IsProc(r) /\ r.blocks \subseteq procs[p].blocks
               /\ \/ r.status \in {"done", "idle"} /\ (r.status = "idle" \/ p = syncer'.running) /\ conn' = None
                  \/ r.status = "block" /\ conn' = p
  BY <1>1, <1>2
<1>4. /\ ThreadsOK /\ OrphansOK /\ ChainOK /\ procs[p].blocks \subseteq 1..tip /\ 1..tip \subseteq 1..tip' /\ errors' = errors
      /\ syncer.running \in {syncer'.running, None, p} /\ None \notin ProcIds
  BY <1>1, SyncAssumption DEF Sound, ThreadsOK, ProcIds
<1>5. ThreadsOK'
  <2>1. r.status \in Statuses /\ (r.status \in {"block", "commit", "publish"} <=> conn' = p) /\ r.blocks \subseteq 1..tip'
    BY <1>3, <1>4 DEF Statuses
  <2>2. (\A q \in ProcIds : q # p => (conn' = q <=> conn = q)) /\ conn' \in ProcIds \union {None}
    BY <1>1, <1>3, <1>4
  <2> QED
    BY <1>3, <1>4, <2>1, <2>2, ThreadsKept
<1>6. OrphansOK'
  <2>1. r.status = "idle" \/ p = syncer'.running \/ p \in Orphans
    BY <1>1 DEF Orphans
  <2> QED
    BY <1>3, <1>4, <2>1, OrphansChanged
<1>7. ~Publishing' /\ Visible' = Visible
  <2>1. procs'[p] = r
    BY <1>3, ChangedFacts
  <2> QED
    BY <1>1, <1>3, <2>1 DEF Publishing, Visible
<1>8. SyncerOK'
  BY <1>1, SyncerUnchanged DEF Sound, Widened
<1>9. ChainOK' /\ StoreOK' /\ Protected'
  <2>1. Consistent(mem', disk) /\ disk.block_number \in 0..tip
    BY <1>1 DEF Sound, StoreOK
  <2>2. mem'.last_processed_block = disk.block_number /\ mem'.metadata = disk.validators
    BY <2>1 DEF Consistent, Mirrors
  <2> QED
    BY <1>1, <1>7, <2>1, <2>2 DEF Sound, ChainOK, StoreOK, Protected
<1>10. PreparedOK'
  <2>1. procs'[p] = r
    BY <1>3, ChangedFacts
  <2> QED
    BY <1>1, <1>3, <1>5, <2>1, NoneCommits
<1> QED
  BY <1>5, <1>6, <1>7, <1>8, <1>9, <1>10 DEF Sound

LEMMA SoundRequests ==
    ASSUME Sound, RequestIndices \/ RequestFails
    PROVE  Sound' /\ Unseen
<1>1. /\ UNCHANGED <<chain, tip, disk, mem, slashing, conn, procs, syncer>>
      /\ errors' = errors \/ (errors < MaxErrors /\ errors' = errors + 1)
  BY DEF RequestIndices, RequestFails
<1>2. SyncerOK'
  BY <1>1, SyncerUnchanged DEF Sound, Widened
<1>3. errors' \in 0..MaxErrors /\ errors <= errors'
  BY <1>1, SyncAssumption DEF Sound, ChainOK
<1> QED
  BY <1>1, <1>2, <1>3, StillStep

LEMMA StoreFacts ==
    ASSUME Sound, StoreIndices
    PROVE  /\ UNCHANGED <<chain, tip, slashing, conn, procs, syncer, exits, errors, orphaned>>
           /\ ~Publishing /\ ~Publishing' /\ Visible = mem /\ Visible' = mem'
           /\ Consistent(mem, disk) /\ Consistent(mem', disk')
           /\ FlagsMirror(mem, disk) => FlagsMirror(mem', disk')
           /\ \A own : OwnMirrors(mem, disk, own) => OwnMirrors(mem', disk', own)
           /\ SameRegistry(disk', disk) /\ disk'.block_number = disk.block_number
           /\ mem'.last_processed_block = mem.last_processed_block
           /\ DOMAIN mem'.metadata = DOMAIN mem.metadata
<1>1. /\ UNCHANGED <<chain, tip, slashing, conn, procs, syncer, exits, errors, orphaned>> /\ conn = None
      /\ disk' = set_index_on_disk(disk, index_batch, BeaconIndex)
      /\ mem' = set_index_in_memory(mem, index_batch, BeaconIndex)
  BY DEF StoreIndices
<1>2. ~Publishing /\ ~Publishing' /\ Visible = mem /\ Visible' = mem'
  BY <1>1 DEF Publishing, Visible
<1>3. Consistent(mem, disk)
  BY <1>2 DEF Sound, StoreOK
<1> QED
  BY <1>1, <1>2, <1>3, SetIndices

LEMMA SoundStore ==
    ASSUME Sound, StoreIndices
    PROVE  Sound'
<1>1. /\ UNCHANGED <<chain, tip, slashing, conn, procs, syncer, errors>>
      /\ Visible' = mem' /\ Consistent(mem', disk')
      /\ SameRegistry(disk', disk) /\ disk'.block_number = disk.block_number
      /\ mem'.last_processed_block = mem.last_processed_block
      /\ DOMAIN mem'.metadata = DOMAIN mem.metadata
  BY StoreFacts
<1>2. SyncerOK'
  BY <1>1, SyncerUnchanged DEF Sound, Widened
<1>3. ThreadsOK'
  <2>1. ThreadsOK /\ Statuses' = Statuses /\ ProcIds' = ProcIds
    BY DEF Sound, Statuses, ProcIds
  <2> QED
    BY <1>1, <2>1 DEF ThreadsOK, IsProc
<1>4. OrphansOK' /\ ChainOK'
  BY <1>1 DEF Sound, OrphansOK, Orphans, ProcIds, ChainOK
<1>5. StoreOK' /\ Protected'
  BY <1>1 DEF Sound, StoreOK, Protected, SameRegistry
<1>6. PreparedOK'
  <2>1. conn' = None
    BY DEF StoreIndices
  <2> QED
    BY <1>3, <2>1, NoneCommits
<1> QED
  BY <1>2, <1>3, <1>4, <1>5, <1>6 DEF Sound

\* Threads and syncer of a process that has just started.
LEMMA FreshThreads ==
    ASSUME procs = [p \in ProcIds |-> Idle], syncer = Started, conn = None, ChainOK
    PROVE  ThreadsOK /\ OrphansOK /\ ~Publishing /\ Visible = mem
<1>1. \A p \in ProcIds : procs[p] = Idle
  OBVIOUS
<1>2. IsProc(Idle) /\ Idle.status = "idle" /\ Idle.blocks = {} /\ None \notin ProcIds
  BY IdleFields, SyncAssumption DEF ProcIds
<1>3. ThreadsOK
  <2>1. procs = [p \in ProcIds |-> procs[p]]
    OBVIOUS
  <2>2. ASSUME NEW p \in ProcIds
        PROVE  IsProc(procs[p]) /\ procs[p].status \in Statuses /\ procs[p].blocks \subseteq 1..tip /\ procs[p].status = "idle" /\ conn # p
    BY <1>1, <1>2 DEF Statuses
  <2> QED
    BY <2>1, <2>2 DEF ThreadsOK
<1>4. OrphansOK
  <2>1. Orphans = {}
    BY <1>1, <1>2 DEF Orphans
  <2>2. Cardinality(Orphans) = 0 /\ errors \in Nat
    BY <2>1, FS_EmptySet, SyncAssumption DEF ChainOK
  <2> QED
    BY <2>2 DEF OrphansOK
<1> QED
  BY <1>3, <1>4 DEF Publishing, Visible

LEMMA RestartFacts ==
    ASSUME Sound, Restart
    PROVE  /\ UNCHANGED <<chain, tip, disk, slashing, exits, errors, orphaned>>
           /\ mem' = new_with_state(disk) /\ syncer' = Started /\ conn' = None
           /\ \A p \in ProcIds : procs'[p].status = "idle"
           /\ ThreadsOK' /\ OrphansOK' /\ ~Publishing' /\ Visible' = mem' /\ ChainOK'
<1>1. /\ UNCHANGED <<chain, tip, disk, slashing, exits, errors, orphaned>>
      /\ mem' = new_with_state(disk) /\ syncer' = Started /\ conn' = None /\ procs' = [p \in ProcIds |-> Idle]
  BY DEF Restart
<1>2. ChainOK'
  BY <1>1 DEF Sound, ChainOK
<1>3. \A p \in ProcIds : procs'[p] = Idle
  BY <1>1
<1>4. IsProc(Idle) /\ Idle.status = "idle" /\ Idle.blocks = {} /\ None \notin ProcIds
      /\ ProcIds' = ProcIds /\ Statuses' = Statuses
  BY IdleFields, SyncAssumption DEF ProcIds, Statuses
<1>5. ThreadsOK'
  <2>1. procs' = [p \in ProcIds |-> procs'[p]]
    BY <1>1
  <2>2. ASSUME NEW p \in ProcIds
        PROVE  IsProc(procs'[p]) /\ procs'[p].status \in Statuses /\ procs'[p].blocks \subseteq 1..tip' /\ procs'[p].status = "idle" /\ conn' # p
    BY <1>1, <1>3, <1>4 DEF Statuses
  <2> QED
    BY <1>1, <1>4, <2>1, <2>2 DEF ThreadsOK, IsProc
<1>6. OrphansOK'
  <2>1. Orphans' = {}
    BY <1>3, <1>4 DEF Orphans
  <2>2. Cardinality(Orphans') = 0 /\ errors' \in Nat
    BY <1>2, <2>1, FS_EmptySet, SyncAssumption DEF ChainOK
  <2> QED
    BY <2>2 DEF OrphansOK
<1> QED
  BY <1>1, <1>2, <1>3, <1>4, <1>5, <1>6 DEF Publishing, Visible

LEMMA SoundRestart ==
    ASSUME Sound, Restart
    PROVE  Sound'
<1>1. /\ UNCHANGED <<chain, tip, disk, slashing, errors>>
      /\ mem' = new_with_state(disk) /\ syncer' = Started
      /\ ThreadsOK' /\ OrphansOK' /\ Visible' = mem' /\ ChainOK'
  BY RestartFacts
<1>2. SyncerOK'
  BY <1>1, SyncerStarted
<1>3. Consistent(mem', disk)
  BY <1>1, NewWithState DEF Sound, StoreOK, Consistent
<1>4. mem'.last_processed_block = disk.block_number /\ mem'.metadata = disk.validators
  BY <1>3 DEF Consistent, Mirrors
<1>5. StoreOK' /\ Protected'
  BY <1>1, <1>3, <1>4 DEF Sound, StoreOK, Protected
<1>6. PreparedOK'
  BY <1>1, RestartFacts, NoneCommits
<1> QED
  BY <1>1, <1>2, <1>5, <1>6 DEF Sound

LEMMA SoundInit == Init => Sound
<1> SUFFICES ASSUME Init PROVE Sound
  OBVIOUS
<1>1. /\ chain \in Chains /\ tip = 0 /\ disk = EmptyDisk /\ mem = new_with_state(EmptyDisk) /\ slashing = {}
      /\ conn = None /\ procs = [p \in ProcIds |-> Idle] /\ syncer = Started /\ errors = 0
  BY DEF Init
<1>2. chain \in Seq(Range(chain))
  BY <1>1, ChainAssumption
<1>3. ChainOK
  BY <1>1, <1>2, SyncAssumption DEF ChainOK
<1>4. ThreadsOK /\ OrphansOK /\ Visible = mem
  BY <1>1, <1>3, FreshThreads
<1>5. SyncerOK
  <2>1. SyncerIs(syncer, "start", 0, 0, <<>>, <<>>, <<>>, None)
    BY <1>1, StartedFields
  <2>2. <<>> \in Seq(Nat \X Nat)
    OBVIOUS
  <2> QED
    BY <2>1, <2>2 DEF SyncerOK, SyncerIs
<1>6. Consistent(mem, disk) /\ disk.block_number = 0 /\ DOMAIN disk.validators = {}
  BY <1>1, EmptyTables, NewWithState
<1>7. mem.last_processed_block = 0 /\ DOMAIN mem.metadata = {}
  BY <1>6 DEF Consistent, Mirrors
<1>8. StoreOK /\ Protected
  BY <1>1, <1>4, <1>6, <1>7 DEF StoreOK, Protected
<1>9. PreparedOK
  BY <1>1, IdleFields DEF PreparedOK
<1> QED
  BY <1>3, <1>4, <1>5, <1>8, <1>9 DEF Sound

LEMMA SoundStutter ==
    ASSUME Sound, UNCHANGED vars
    PROVE  Sound' /\ Unseen
<1>1. UNCHANGED <<chain, tip, disk, mem, slashing, conn, procs, syncer, errors>>
  BY DEF vars
<1>2. SyncerOK'
  BY <1>1, SyncerUnchanged DEF Sound, Widened
<1> QED
  BY <1>1, <1>2, SoundSyncer

LEMMA SoundNext == Sound /\ [Next]_vars => Sound'
<1> SUFFICES ASSUME Sound, [Next]_vars PROVE Sound'
  OBVIOUS
<1>1. CASE Mine
  BY <1>1, SoundMine
<1>2. CASE historical_sync \/ FinishHistoricalSync \/ StartBatches \/ BatchesDone \/ HeaderReceived
  BY <1>2, SoundHistorical
<1>3. CASE BatchFetched
  BY <1>3, SoundBatchFetched
<1>4. CASE BatchProcessed
  BY <1>4, SoundBatchProcessed
<1>5. CASE LiveLogsFetched
  BY <1>5, SoundLiveFetched
<1>6. CASE LiveLogsProcessed
  BY <1>6, SoundLiveProcessed
<1>7. CASE ProcessorFailed
  BY <1>7, SoundProcessorFailed
<1>8. CASE ConnectionFails
  BY <1>8, SoundConnectionFails
<1>9. CASE \E p \in ProcIds : Process(p) \/ ConnectTimeout(p) \/ DatabaseFails(p)
  BY <1>9, SoundConnect, SoundLogs, SoundCommit, SoundPublish, SoundTimeout DEF Process
<1>10. CASE RequestIndices \/ RequestFails
  BY <1>10, SoundRequests
<1>11. CASE StoreIndices
  BY <1>11, SoundStore
<1>12. CASE Restart
  BY <1>12, SoundRestart
<1>13. CASE UNCHANGED vars
  BY <1>13, SoundStutter
<1> QED
  BY <1>1, <1>2, <1>3, <1>4, <1>5, <1>6, <1>7, <1>8, <1>9, <1>10, <1>11, <1>12, <1>13 DEF Next, Sync

(***************************************************************************)
(* The inductive invariant of the sync: whoever fails, restarts or is left *)
(* running, the threads and the connection of the pool fit together, the   *)
(* batches left are the last ones of the round, and NetworkState is what   *)
(* the committed transactions made of it once the last one is published    *)
(* (sync_batches, process_logs, end_transaction).                          *)
(***************************************************************************)
THEOREM SpecSound == Spec => []Sound
BY SoundInit, SoundNext, PTL DEF Spec

(***************************************************************************)
(* Whatever fails, restarts or is left running between the writes of the   *)
(* two databases, every validator of the tables and of NetworkState is     *)
(* registered in the slashing protection database: process_validator_added *)
(* registers before the transaction it is part of commits.                 *)
(***************************************************************************)
THEOREM SpecProtectedBeforeServed == Spec => []ProtectedBeforeServed
<1>1. Sound => ProtectedBeforeServed
  BY DEF Sound, Protected, ProtectedBeforeServed
<1> QED
  BY <1>1, SpecSound, PTL

---------------------------------------------------------------------------
(* As long as no processor is left running, the blocks are processed in    *)
(* the order of the chain, and each of them once.                          *)

LEMMA BatchEnds ==
    ASSUME NEW s, s.start \in Nat \ {0}, s.end \in Nat, s.start <= s.end
    PROVE  LET n == BatchCount(s.start, s.end)
               B == Batches(s.start, s.end)
           IN  /\ n \in Nat \ {0} /\ BatchEnd(s, 0) = s.start - 1 /\ BatchEnd(s, n) = s.end
               /\ \A k \in 0..(n - 1) : B[k + 1][1] = BatchEnd(s, k) + 1 /\ BatchEnd(s, k + 1) = B[k + 1][2]
<1> DEFINE n == BatchCount(s.start, s.end)
           B == Batches(s.start, s.end)
<1>1. /\ n \in Nat \ {0} /\ B[1][1] = s.start /\ B[n][2] = s.end
      /\ \A k \in 1..(n - 1) : B[k + 1][1] = B[k][2] + 1
  <2> DEFINE from == s.start
             to == s.end
  <2>1. from \in Nat \ {0} /\ to \in Nat /\ from <= to
    OBVIOUS
  <2> HIDE DEF from, to
  <2>2. LET m == BatchCount(from, to)
            A == Batches(from, to)
        IN  /\ m \in Nat \ {0} /\ A[1][1] = from /\ A[m][2] = to
            /\ \A k \in 1..(m - 1) : A[k + 1][1] = A[k][2] + 1
    BY <2>1, BatchesShape
  <2> QED
    BY <2>2 DEF from, to
<1>2. \A k : BatchEnd(s, k) = IF k = 0 THEN s.start - 1 ELSE B[k][2]
  BY DEF BatchEnd
<1> HIDE DEF n, B
<1>3. ASSUME NEW k \in 0..(n - 1) PROVE B[k + 1][1] = BatchEnd(s, k) + 1 /\ BatchEnd(s, k + 1) = B[k + 1][2]
  <2>1. k + 1 # 0
    BY <1>1
  <2>2. CASE k = 0
    <3>1. k + 1 = 1 /\ (s.start - 1) + 1 = s.start
      BY <2>2
    <3> QED
      BY <1>1, <1>2, <2>1, <2>2, <3>1
  <2>3. CASE k # 0
    <3>1. k \in 1..(n - 1)
      BY <1>1, <2>3
    <3> QED
      BY <1>1, <1>2, <2>1, <2>3, <3>1
  <2> QED
    BY <2>2, <2>3
<1> QED
  BY <1>1, <1>2, <1>3 DEF n, B

LEMMA CoversFlushed ==
    ASSUME tip \in Nat, NEW from, NEW to, from \in 1..to, to \in 1..tip, NEW L, L \in Nat, from = L + 1
    PROVE  Covers(chain, tip, Flushed(from, to), L, to)
BY DEF Covers, Flushed

LEMMA CoversNext ==
    ASSUME tip \in Nat, NEW blocks, NEW L, NEW last, L \in Nat, Covers(chain, tip, blocks, L, last),
           NEW block \in blocks, \A b \in blocks : block <= b
    PROVE  /\ Covers(chain, tip, blocks \ {block}, block, last) /\ block \in 1..tip /\ L < block
           /\ \A b \in (L + 1)..(block - 1) : chain[b] = <<>>
<1>1. /\ L \in 0..last /\ last \in 1..tip /\ blocks \subseteq (L + 1)..last
      /\ \A b \in (L + 1)..last : chain[b] # <<>> => b \in blocks
      /\ last \in blocks
  BY DEF Covers
<1>2. block \in (L + 1)..last /\ block \in Nat /\ last \in Nat
  BY <1>1
<1>3. block \in 0..last
  BY <1>1, <1>2
<1>4. \A b \in blocks \ {block} : b \in (block + 1)..last
  BY <1>1, <1>2
<1>5. \A b \in (block + 1)..last : b \in (L + 1)..last /\ b # block
  BY <1>1, <1>2
<1>6. block # last => last \in blocks \ {block}
  BY <1>1
<1>7. block = last => blocks \ {block} = {}
  BY <1>2, <1>4
<1>8. Covers(chain, tip, blocks \ {block}, block, last)
  BY <1>1, <1>3, <1>4, <1>5, <1>6, <1>7 DEF Covers
<1>9. ASSUME NEW b \in (L + 1)..(block - 1) PROVE chain[b] = <<>>
  <2>1. b \in (L + 1)..last /\ ~(block <= b)
    BY <1>1, <1>2
  <2> QED
    BY <1>1, <2>1
<1> QED
  BY <1>1, <1>2, <1>8, <1>9

\* No processor runs.
LEMMA InStepIdle ==
    ASSUME \A p \in ProcIds : procs'[p].status = "idle", syncer'.running = None,
           syncer'.pc = "check" => syncer'.start = disk'.block_number + 1,
           syncer'.pc = "live_fetch" => syncer'.fetching[1][1] = disk'.block_number + 1,
           syncer'.pc = "batches" => disk'.block_number = BatchEnd(syncer', StartedBatches(syncer'))
    PROVE  InStep'
<1>1. ProcIds' = ProcIds
  BY DEF ProcIds
<1> QED
  BY <1>1 DEF InStep

\* One processor runs.
LEMMA InStepRunning ==
    ASSUME NEW r \in ProcIds, r = syncer'.running, \A p \in ProcIds : p # r => procs'[p].status = "idle",
           syncer'.pc \in {"batches", "live_process"},
           syncer'.pc = "batches" /\ procs'[r].status = "done" => disk'.block_number = BatchEnd(syncer', StartedBatches(syncer')),
           procs'[r].status \in {"waiting", "block", "commit", "publish"} =>
               \E last \in 1..tip' : /\ Covers(chain', tip', procs'[r].blocks, disk'.block_number, last)
                                     /\ syncer'.pc = "batches" => last = BatchEnd(syncer', StartedBatches(syncer'))
    PROVE  InStep'
<1>1. ProcIds' = ProcIds /\ r # None
  BY SyncAssumption DEF ProcIds
<1> QED
  BY <1>1 DEF InStep

LEMMA AllIdle ==
    ASSUME Sound, InStep, syncer.running = None
    PROVE  (\A p \in ProcIds : procs[p].status = "idle") /\ mem.last_processed_block = disk.block_number
<1>1. None \notin ProcIds
  BY SyncAssumption DEF ProcIds
<1>2. \A p \in ProcIds : procs[p].status = "idle"
  BY <1>1 DEF InStep
<1>3. conn = None
  BY <1>2 DEF Sound, ThreadsOK
<1>4. Visible = mem
  BY <1>3 DEF Visible, Publishing
<1> QED
  BY <1>2, <1>4 DEF Sound, StoreOK, Consistent, Mirrors

LEMMA CoversKept ==
    ASSUME tip \in Nat, tip' \in Nat, tip <= tip', chain' = chain, NEW blocks, NEW L, NEW last, Covers(chain, tip, blocks, L, last)
    PROVE  Covers(chain', tip', blocks, L, last)
BY DEF Covers

\* The steps that concern neither syncer nor processors.
LEMMA InStepSame ==
    ASSUME Sound, InStep, UNCHANGED <<chain, syncer, procs>>, disk'.block_number = disk.block_number,
           tip' = tip \/ tip' = tip + 1
    PROVE  InStep'
<1>1. tip \in Nat /\ tip' \in Nat /\ tip <= tip' /\ ProcIds' = ProcIds /\ 1..tip \subseteq 1..tip'
  BY DEF Sound, ChainOK, ProcIds
<1>2. syncer.running \in ProcIds \union {None} /\ syncer.pc \in {"start", "check", "batches", "live", "live_fetch", "live_process"}
      /\ (syncer.running # None => syncer.pc \in {"batches", "live_process"})
  BY DEF Sound, SyncerOK
<1>3. CASE syncer.running = None
  <2>1. \A p \in ProcIds : procs[p].status = "idle"
    BY <1>3, AllIdle
  <2>2. /\ syncer.pc = "check" => syncer.start = disk.block_number + 1
        /\ syncer.pc = "live_fetch" => syncer.fetching[1][1] = disk.block_number + 1
        /\ syncer.pc = "batches" => disk.block_number = BatchEnd(syncer, StartedBatches(syncer))
    BY <1>3 DEF InStep
  <2> QED
    BY <1>3, <2>1, <2>2, InStepIdle
<1>4. CASE syncer.running # None
  <2> DEFINE r == syncer.running
             L == disk.block_number
             e == BatchEnd(syncer, StartedBatches(syncer))
  <2>1. r \in ProcIds /\ r # None
    BY <1>2, <1>4
  <2>2. /\ \A p \in ProcIds : procs[p].status # "idle" => p = r
        /\ syncer.pc = "batches" /\ procs[r].status = "done" => L = e
        /\ procs[r].status \in {"waiting", "block", "commit", "publish"} =>
              \E last \in 1..tip : Covers(chain, tip, procs[r].blocks, L, last) /\ (syncer.pc = "batches" => last = e)
    BY <2>1 DEF InStep
  <2>3. procs'[r].status \in {"waiting", "block", "commit", "publish"} =>
              \E last \in 1..tip' : Covers(chain', tip', procs'[r].blocks, disk'.block_number, last) /\ (syncer'.pc = "batches" => last = e)
    <3> HAVE procs'[r].status \in {"waiting", "block", "commit", "publish"}
    <3>1. PICK last \in 1..tip : Covers(chain, tip, procs[r].blocks, L, last) /\ (syncer.pc = "batches" => last = e)
      BY <2>2
    <3>2. Covers(chain', tip', procs[r].blocks, L, last)
      BY <1>1, <3>1, CoversKept
    <3> QED
      BY <1>1, <3>1, <3>2
  <2>4. r = syncer'.running /\ e = BatchEnd(syncer', StartedBatches(syncer')) /\ L = disk'.block_number /\ syncer'.pc = syncer.pc
    OBVIOUS
  <2> HIDE DEF r, e, L
  <2> QED
    BY <1>2, <1>4, <2>1, <2>2, <2>3, <2>4, InStepRunning
<1> QED
  BY <1>3, <1>4

\* A thread is idle but the one the syncer waits for.
LEMMA OthersIdle ==
    ASSUME InStep, NEW q \in ProcIds, syncer.running \in {None, q}, NEW r, Changed(q, r)
    PROVE  (\A p \in ProcIds : p # q => procs'[p].status = "idle") /\ procs'[q] = r
<1>1. procs'[q] = r /\ \A x \in ProcIds : x # q => procs'[x] = procs[x]
  BY ChangedFacts
<1>2. \A p \in ProcIds : p # q => procs[p].status = "idle"
  BY SyncAssumption DEF InStep, ProcIds
<1> QED
  BY <1>1, <1>2

LEMMA InStepHistorical ==
    ASSUME Sound, InStep, historical_sync \/ FinishHistoricalSync \/ StartBatches \/ BatchesDone \/ HeaderReceived
    PROVE  InStep'
<1> DEFINE L == disk.block_number
<1>1. /\ ChainOK /\ SyncerOK /\ mem.last_processed_block \in Nat /\ L \in Nat
  BY DEF Sound, StoreOK
<1>2. UNCHANGED <<chain, tip, disk, mem, procs>>
  BY DEF historical_sync, FinishHistoricalSync, StartBatches, BatchesDone, HeaderReceived
<1>3. syncer.running = None
  BY <1>1 DEF historical_sync, FinishHistoricalSync, StartBatches, BatchesDone, HeaderReceived, SyncerOK
<1>4. (\A p \in ProcIds : procs'[p].status = "idle") /\ mem.last_processed_block = L
  BY <1>2, <1>3, AllIdle
<1>5. CASE historical_sync
  <2>1. syncer'.pc = "check" /\ syncer'.start = mem.last_processed_block + 1 /\ syncer'.running = None
    BY <1>1, <1>5, SyncerHistorical DEF SyncerIs
  <2> QED
    BY <1>2, <1>4, <2>1, InStepIdle
<1>6. CASE FinishHistoricalSync
  <2>1. syncer'.pc = "live" /\ syncer'.running = None
    BY <1>1, <1>6, SyncerFinish DEF SyncerIs
  <2> QED
    BY <1>2, <1>4, <2>1, InStepIdle
<1>7. CASE StartBatches
  <2>1. /\ syncer.pc = "check" /\ syncer'.pc = "batches" /\ syncer'.running = None
        /\ syncer'.start = syncer.start /\ StartedBatches(syncer') = 0
    BY <1>1, <1>7, SyncerBatches
  <2>2. syncer.start = L + 1
    BY <2>1 DEF InStep
  <2>3. BatchEnd(syncer', 0) = L
    BY <1>1, <2>1, <2>2 DEF BatchEnd
  <2> QED
    BY <1>2, <1>4, <2>1, <2>3, InStepIdle
<1>8. CASE BatchesDone
  <2>1. /\ syncer.pc = "batches" /\ syncer'.running = None /\ syncer'.pc = "check" /\ syncer'.start = syncer.end + 1
        /\ StartedBatches(syncer) = BatchCount(syncer.start, syncer.end)
    BY <1>1, <1>8, SyncerRoundDone DEF SyncerIs
  <2>2. L = BatchEnd(syncer, StartedBatches(syncer))
    BY <1>3, <2>1 DEF InStep
  <2>3. syncer.start \in Nat \ {0} /\ syncer.end \in Nat /\ syncer.start <= syncer.end
    BY <1>1, <2>1, RoundShape
  <2>4. BatchEnd(syncer, BatchCount(syncer.start, syncer.end)) = syncer.end
    BY <2>3, BatchEnds
  <2> QED
    BY <1>2, <1>4, <2>1, <2>2, <2>4, InStepIdle
<1>9. CASE HeaderReceived
  <2>1. syncer'.pc = "live_fetch" /\ syncer'.running = None /\ syncer'.fetching[1][1] = mem.last_processed_block + 1
    BY <1>1, <1>9, SyncerHeader
  <2> QED
    BY <1>2, <1>4, <2>1, InStepIdle
<1> QED
  BY <1>5, <1>6, <1>7, <1>8, <1>9

\* The syncer starts a processor for the blocks that come next.
LEMMA InStepSpawn ==
    ASSUME Sound, InStep, UNCHANGED <<chain, tip, disk>>,
           NEW q \in ProcIds, q = syncer'.running, syncer.running \in {None, q}, syncer'.pc \in {"batches", "live_process"},
           NEW from, NEW to, from \in 1..to, to \in 1..tip, NEW live, from = disk.block_number + 1,
           syncer'.pc = "batches" => to = BatchEnd(syncer', StartedBatches(syncer')),
           Changed(q, Thread("waiting", Flushed(from, to), live, <<>>, {}, <<>>))
    PROVE  InStep'
<1> DEFINE r == Thread("waiting", Flushed(from, to), live, <<>>, {}, <<>>)
<1>1. r.status = "waiting" /\ r.blocks = Flushed(from, to)
  BY ThreadFields
<1>2. tip \in Nat /\ disk.block_number \in Nat
  BY DEF Sound, ChainOK, StoreOK
<1>3. Covers(chain, tip, Flushed(from, to), disk.block_number, to)
  BY <1>2, CoversFlushed
<1> HIDE DEF r
<1>4. (\A p \in ProcIds : p # q => procs'[p].status = "idle") /\ procs'[q] = r
  BY OthersIdle DEF r
<1>5. Covers(chain', tip', procs'[q].blocks, disk'.block_number, to) /\ to \in 1..tip'
  BY <1>1, <1>3, <1>4
<1>6. procs'[q].status # "done"
  BY <1>1, <1>4
<1> QED
  BY <1>4, <1>5, <1>6, InStepRunning

LEMMA InStepBatchFetched ==
    ASSUME Sound, InStep, BatchFetched
    PROVE  InStep'
<1> DEFINE n == BatchCount(syncer.start, syncer.end)
           B == Batches(syncer.start, syncer.end)
           k == StartedBatches(syncer)
           from == B[k + 1][1]
           to == B[k + 1][2]
<1>1. UNCHANGED <<chain, tip, disk>>
  BY DEF BatchFetched
<1>2. /\ syncer.pc = "batches" /\ syncer'.pc = "batches" /\ syncer'.start = syncer.start /\ syncer'.end = syncer.end
      /\ \/ syncer.running # None /\ UNCHANGED procs /\ syncer'.running = syncer.running /\ StartedBatches(syncer') = k
         \/ /\ syncer.running = None /\ syncer'.running = FreeProc /\ k + 1 \in 1..n /\ StartedBatches(syncer') = k + 1
            /\ Changed(FreeProc, Thread("waiting", Flushed(from, to), FALSE, <<>>, {}, <<>>))
  BY SyncerFetched DEF Sound
<1>3. /\ \A i \in 1..n : B[i][1] \in 1..B[i][2] /\ B[i][2] \in 1..tip
      /\ n \in Nat /\ k \in 0..n /\ syncer.start \in Nat \ {0} /\ syncer.end \in Nat /\ syncer.start <= syncer.end
  BY <1>2, RoundShape DEF Sound
<1>4. \A i : BatchEnd(syncer', i) = BatchEnd(syncer, i)
  BY <1>2 DEF BatchEnd
<1>5. CASE syncer.running # None
  <2> DEFINE r == syncer.running
             e == BatchEnd(syncer, k)
  <2>1. r \in ProcIds
    BY <1>5 DEF Sound, SyncerOK
  <2>2. /\ \A p \in ProcIds : procs[p].status # "idle" => p = r
        /\ procs[r].status = "done" => disk.block_number = e
        /\ procs[r].status \in {"waiting", "block", "commit", "publish"} =>
              \E last \in 1..tip : Covers(chain, tip, procs[r].blocks, disk.block_number, last) /\ last = e
    BY <1>2, <1>5 DEF InStep
  <2>3. r = syncer'.running /\ procs' = procs /\ BatchEnd(syncer', StartedBatches(syncer')) = e
    BY <1>2, <1>4, <1>5
  <2> HIDE DEF r, e
  <2> QED
    BY <1>1, <1>2, <2>1, <2>2, <2>3, InStepRunning
<1>6. CASE syncer.running = None
  <2> DEFINE q == FreeProc
             live == FALSE
             L == disk.block_number
  <2>1. q \in ProcIds
    BY <1>6, FreeProcIdle DEF Sound
  <2>2. k + 1 \in 1..n /\ StartedBatches(syncer') = k + 1
    BY <1>2, <1>6
  <2>3. from \in 1..to /\ to \in 1..tip
    BY <1>3, <2>2
  <2>4. L = BatchEnd(syncer, k)
    BY <1>2, <1>6 DEF InStep
  <2>5. from = L + 1 /\ to = BatchEnd(syncer', StartedBatches(syncer'))
    <3>1. k \in 0..(n - 1)
      <4> HIDE DEF n, k
      <4> QED
        BY <1>3, <2>2
    <3>2. \A i \in 0..(n - 1) : B[i + 1][1] = BatchEnd(syncer, i) + 1 /\ BatchEnd(syncer, i + 1) = B[i + 1][2]
      BY <1>3, BatchEnds
    <3>3. B[k + 1][1] = BatchEnd(syncer, k) + 1 /\ BatchEnd(syncer, k + 1) = B[k + 1][2]
      BY <3>1, <3>2
    <3> QED
      BY <1>4, <2>2, <2>4, <3>3
  <2>6. syncer'.running = q /\ Changed(q, Thread("waiting", Flushed(from, to), live, <<>>, {}, <<>>))
    BY <1>2, <1>6
  <2> HIDE DEF q, live, from, to
  <2> QED
    BY <1>1, <1>2, <1>6, <2>1, <2>3, <2>5, <2>6, InStepSpawn
<1> QED
  BY <1>5, <1>6

LEMMA InStepBatchProcessed ==
    ASSUME Sound, InStep, BatchProcessed
    PROVE  InStep'
<1> DEFINE n == BatchCount(syncer.start, syncer.end)
           B == Batches(syncer.start, syncer.end)
           k == StartedBatches(syncer)
           from == B[k + 1][1]
           to == B[k + 1][2]
           q == syncer.running
           live == FALSE
           L == disk.block_number
<1>1. UNCHANGED <<chain, tip, disk>>
  BY DEF BatchProcessed
<1>2. /\ syncer.pc = "batches" /\ syncer'.pc = "batches" /\ syncer'.start = syncer.start /\ syncer'.end = syncer.end
      /\ q \in ProcIds /\ procs[q].status = "done"
      /\ \/ syncer'.running = None /\ StartedBatches(syncer') = k /\ Changed(q, Idle)
         \/ /\ syncer'.running = q /\ k + 1 \in 1..n /\ StartedBatches(syncer') = k + 1
            /\ Changed(q, Thread("waiting", Flushed(from, to), live, <<>>, {}, <<>>))
  BY SyncerProcessed DEF Sound
<1>3. /\ \A i \in 1..n : B[i][1] \in 1..B[i][2] /\ B[i][2] \in 1..tip
      /\ n \in Nat /\ k \in 0..n /\ syncer.start \in Nat \ {0} /\ syncer.end \in Nat /\ syncer.start <= syncer.end
  BY <1>2, RoundShape DEF Sound
<1>4. \A i : BatchEnd(syncer', i) = BatchEnd(syncer, i)
  BY <1>2 DEF BatchEnd
<1>5. L = BatchEnd(syncer, k)
  <2>1. q # None
    BY <1>2, SyncAssumption DEF ProcIds
  <2> QED
    BY <1>2, <2>1 DEF InStep
<1>6. CASE syncer'.running = None /\ StartedBatches(syncer') = k /\ Changed(q, Idle)
  <2>1. \A p \in ProcIds : procs'[p].status = "idle"
    BY <1>2, <1>6, OthersIdle, IdleFields
  <2>2. L = BatchEnd(syncer', StartedBatches(syncer'))
    BY <1>4, <1>5, <1>6
  <2> QED
    BY <1>1, <1>2, <1>6, <2>1, <2>2, InStepIdle
<1>7. CASE /\ syncer'.running = q /\ k + 1 \in 1..n /\ StartedBatches(syncer') = k + 1
           /\ Changed(q, Thread("waiting", Flushed(from, to), live, <<>>, {}, <<>>))
  <2>3. from \in 1..to /\ to \in 1..tip
    BY <1>3, <1>7
  <2>5. from = L + 1 /\ to = BatchEnd(syncer', StartedBatches(syncer'))
    <3>1. k \in 0..(n - 1)
      <4> HIDE DEF n, k
      <4> QED
        BY <1>3, <1>7
    <3>2. \A i \in 0..(n - 1) : B[i + 1][1] = BatchEnd(syncer, i) + 1 /\ BatchEnd(syncer, i + 1) = B[i + 1][2]
      BY <1>3, BatchEnds
    <3>3. B[k + 1][1] = BatchEnd(syncer, k) + 1 /\ BatchEnd(syncer, k + 1) = B[k + 1][2]
      BY <3>1, <3>2
    <3> QED
      BY <1>4, <1>5, <1>7, <3>3
  <2>6. syncer.running \in {None, q}
    OBVIOUS
  <2> HIDE DEF q, live, from, to
  <2> QED
    BY <1>1, <1>2, <1>7, <2>3, <2>5, <2>6, InStepSpawn
<1> QED
  BY <1>2, <1>6, <1>7

LEMMA InStepLiveFetched ==
    ASSUME Sound, InStep, LiveLogsFetched
    PROVE  InStep'
<1> DEFINE from == syncer.fetching[1][1]
           to == syncer.fetching[1][2]
           q == FreeProc
           live == TRUE
<1>1. UNCHANGED <<chain, tip, disk>>
  BY DEF LiveLogsFetched
<1>2. /\ syncer.pc = "live_fetch" /\ syncer'.pc = "live_process" /\ syncer.running = None /\ syncer'.running = q
      /\ from \in 1..to /\ to \in 1..tip
      /\ Changed(q, Thread("waiting", Flushed(from, to), live, <<>>, {}, <<>>))
  BY SyncerLiveFetched DEF Sound
<1>3. q \in ProcIds
  BY <1>2, FreeProcIdle DEF Sound
<1>4. from = disk.block_number + 1
  BY <1>2 DEF InStep
<1> HIDE DEF q, live, from, to
<1> QED
  BY <1>1, <1>2, <1>3, <1>4, InStepSpawn

LEMMA InStepLiveProcessed ==
    ASSUME Sound, InStep, LiveLogsProcessed
    PROVE  InStep'
<1>1. /\ syncer.running \in ProcIds /\ syncer'.pc = "live" /\ syncer'.running = None /\ Changed(syncer.running, Idle)
  BY SyncerLiveProcessed DEF Sound
<1>2. \A p \in ProcIds : procs'[p].status = "idle"
  BY <1>1, OthersIdle, IdleFields
<1> QED
  BY <1>1, <1>2, InStepIdle

LEMMA InStepRestarted ==
    ASSUME \A p \in ProcIds : procs'[p].status = "idle", syncer' = Started
    PROVE  InStep'
<1>1. syncer'.pc = "start" /\ syncer'.running = None
  BY StartedFields DEF SyncerIs
<1> QED
  BY <1>1, InStepIdle

LEMMA InStepProcessorFailed ==
    ASSUME Sound, InStep, ProcessorFailed
    PROVE  InStep'
<1>1. /\ syncer' = Started /\ syncer.running # None /\ procs' = [procs EXCEPT ![syncer.running] = Idle]
  BY DEF ProcessorFailed
<1>2. syncer.running \in ProcIds
  BY <1>1 DEF Sound, SyncerOK
<1>3. Changed(syncer.running, Idle)
  BY <1>1, <1>2, ThreadSet DEF Sound
<1>4. \A p \in ProcIds : procs'[p].status = "idle"
  BY <1>2, <1>3, OthersIdle, IdleFields
<1> QED
  BY <1>1, <1>4, InStepRestarted

LEMMA InStepConnectionFails ==
    ASSUME Sound, InStep, ConnectionFails, ~orphaned'
    PROVE  InStep'
<1> DEFINE q == syncer.running
           e == q # None /\ procs[q].status \in {"done", "failed"}
<1>1. /\ syncer' = Started
      /\ procs' = (IF e THEN [procs EXCEPT ![q] = Idle] ELSE procs)
      /\ q = None \/ e
  BY DEF ConnectionFails
<1>2. q \in ProcIds \union {None}
  BY DEF Sound, SyncerOK
<1>3. CASE q = None
  BY <1>1, <1>3, AllIdle, InStepRestarted
<1>4. CASE e
  <2>1. q \in ProcIds
    BY <1>2, <1>4
  <2>2. Changed(q, Idle)
    BY <1>1, <1>4, <2>1, ThreadSet DEF Sound
  <2>3. \A p \in ProcIds : procs'[p].status = "idle"
    BY <2>1, <2>2, OthersIdle, IdleFields
  <2> QED
    BY <1>1, <2>3, InStepRestarted
<1> QED
  BY <1>1, <1>3, <1>4

\* What is known of the processor that runs.
LEMMA RunningFacts ==
    ASSUME Sound, InStep, NEW p \in ProcIds, procs[p].status # "idle"
    PROVE  /\ p = syncer.running /\ syncer.pc \in {"batches", "live_process"}
           /\ syncer.pc = "batches" /\ procs[p].status = "done" => disk.block_number = BatchEnd(syncer, StartedBatches(syncer))
           /\ procs[p].status \in {"waiting", "block", "commit", "publish"} =>
                 \E last \in 1..tip : /\ Covers(chain, tip, procs[p].blocks, disk.block_number, last)
                                      /\ syncer.pc = "batches" => last = BatchEnd(syncer, StartedBatches(syncer))
           /\ tip \in Nat /\ disk.block_number \in Nat
<1>1. p = syncer.running /\ p # None
  BY SyncAssumption DEF InStep, ProcIds
<1>2. syncer.pc \in {"batches", "live_process"}
  BY <1>1 DEF Sound, SyncerOK
<1>3. tip \in Nat /\ disk.block_number \in Nat
  BY DEF Sound, ChainOK, StoreOK
<1> QED
  BY <1>1, <1>2, <1>3 DEF InStep

LEMMA InStepConnect ==
    ASSUME Sound, InStep, NEW p \in ProcIds, Connect(p)
    PROVE  InStep'
<1> DEFINE r == procs[p]
           t == Thread("block", r.blocks, r.live, r.updates, r.index_sync, r.exits)
           e == BatchEnd(syncer, StartedBatches(syncer))
<1>1. /\ r.status = "waiting" /\ UNCHANGED <<chain, tip, disk, syncer>> /\ Changed(p, t)
  BY ConnectFacts
<1>2. t.status = "block" /\ t.blocks = r.blocks
  BY ThreadFields
<1>3. p = syncer.running /\ syncer.pc \in {"batches", "live_process"}
  BY <1>1, RunningFacts
<1>4. PICK last \in 1..tip : Covers(chain, tip, r.blocks, disk.block_number, last) /\ (syncer.pc = "batches" => last = e)
  BY <1>1, RunningFacts
<1> HIDE DEF t
<1>5. (\A q \in ProcIds : q # p => procs'[q].status = "idle") /\ procs'[p] = t
  BY <1>1, <1>3, OthersIdle
<1>6. e = BatchEnd(syncer', StartedBatches(syncer'))
  BY <1>1
<1> HIDE DEF e, r
<1>7. Covers(chain', tip', procs'[p].blocks, disk'.block_number, last) /\ procs'[p].status # "done"
  BY <1>1, <1>2, <1>4, <1>5
<1> QED
  BY <1>1, <1>3, <1>4, <1>5, <1>6, <1>7, InStepRunning

\* A processor ends without a result.
LEMMA InStepFailed ==
    ASSUME Sound, InStep, NEW p \in ProcIds, procs[p].status # "idle", Changed(p, ended(p, "failed")),
           UNCHANGED syncer
    PROVE  InStep'
<1> DEFINE r == ended(p, "failed")
<1>1. p = syncer.running /\ syncer.pc \in {"batches", "live_process"}
  BY RunningFacts
<1>2. r.status = "failed"
  BY <1>1, EndedFields
<1> HIDE DEF r
<1>3. (\A q \in ProcIds : q # p => procs'[q].status = "idle") /\ procs'[p] = r
  BY <1>1, OthersIdle DEF r
<1> QED
  BY <1>1, <1>2, <1>3, InStepRunning

\* The block that is committed is the first one that is not, of those with logs or at the end.
LEMMA CommitInOrder ==
    ASSUME Sound, InStep, NEW p \in ProcIds, procs[p].status = "commit",
           NEW block \in procs[p].blocks, \A b \in procs[p].blocks : block <= b
    PROVE  /\ block \in 1..tip /\ disk.block_number < block /\ disk.block_number \in Nat
           /\ \A b \in (disk.block_number + 1)..(block - 1) : chain[b] = <<>>
           /\ \E last \in 1..tip : /\ Covers(chain, tip, procs[p].blocks \ {block}, block, last)
                                   /\ syncer.pc = "batches" => last = BatchEnd(syncer, StartedBatches(syncer))
<1> DEFINE bl == procs[p].blocks
           L == disk.block_number
<1>1. tip \in Nat /\ L \in Nat
  BY RunningFacts
<1>2. PICK last \in 1..tip : Covers(chain, tip, bl, L, last) /\ (syncer.pc = "batches" => last = BatchEnd(syncer, StartedBatches(syncer)))
  BY RunningFacts
<1>3. block \in bl /\ \A b \in bl : block <= b
  OBVIOUS
<1> HIDE DEF bl, L
<1>4. /\ Covers(chain, tip, bl \ {block}, block, last) /\ block \in 1..tip /\ L < block
      /\ \A b \in (L + 1)..(block - 1) : chain[b] = <<>>
  BY <1>1, <1>2, <1>3, CoversNext
<1> QED
  BY <1>1, <1>2, <1>4 DEF bl, L

LEMMA InStepCommit ==
    ASSUME Sound, InStep, NEW p \in ProcIds, CommitBlock(p)
    PROVE  InStep'
<1>1. procs[p].status = "commit" /\ UNCHANGED <<chain, tip, mem, syncer>>
  BY CommitFacts
<1>2. PICK block \in procs[p].blocks :
          /\ \A b \in procs[p].blocks : block <= b
          /\ block \in 1..tip /\ Logs(chain[block])
          /\ Committed(p, block)
  BY CommitFacts
<1>4. CASE Committed(p, block)
  <2> DEFINE done == Done(p, block)
             bl == procs[p].blocks \ {block}
             r == Thread("publish", bl, procs[p].live, done.tx.updates, done.index_sync, done.exits)
             e == BatchEnd(syncer, StartedBatches(syncer))
  <2>1. p = syncer.running /\ syncer.pc \in {"batches", "live_process"}
    BY <1>1, RunningFacts
  <2>2. PICK last \in 1..tip : Covers(chain, tip, bl, block, last) /\ (syncer.pc = "batches" => last = e)
    BY <1>1, <1>2, CommitInOrder
  <2>3. disk'.block_number = block
    <3>1. Consistent(mem, disk)
      BY <1>1, InTransaction
    <3> QED
      BY <1>2, <1>4, <3>1, ProcessBlock DEF Committed, Done
  <2>4. r.status = "publish" /\ r.blocks = bl
    BY ThreadFields
  <2>5. Changed(p, r)
    BY <1>4 DEF Committed
  <2> HIDE DEF r, bl
  <2>6. (\A q \in ProcIds : q # p => procs'[q].status = "idle") /\ procs'[p] = r
    BY <2>1, <2>5, OthersIdle
  <2>7. e = BatchEnd(syncer', StartedBatches(syncer'))
    BY <1>1
  <2> HIDE DEF e
  <2>8. Covers(chain', tip', procs'[p].blocks, disk'.block_number, last) /\ procs'[p].status # "done"
    BY <1>1, <2>2, <2>3, <2>4, <2>6
  <2> QED
    BY <1>1, <2>1, <2>2, <2>6, <2>7, <2>8, InStepRunning
<1> QED
  BY <1>2, <1>4

LEMMA InStepLogs ==
    ASSUME Sound, InStep, NEW p \in ProcIds, ProcessLogs(p) \/ DatabaseFails(p)
    PROVE  InStep'
<1> DEFINE r == procs[p]
           t == Thread("commit", r.blocks, r.live, r.updates, r.index_sync, r.exits)
           e == BatchEnd(syncer, StartedBatches(syncer))
<1>1. r.status \in {"block", "commit"} /\ UNCHANGED <<chain, tip, disk, syncer>>
  BY LogsFacts
<1>2. CASE Changed(p, ended(p, "failed"))
  BY <1>1, <1>2, InStepFailed
<1>3. CASE Changed(p, t)
  <2>1. t.status = "commit" /\ t.blocks = r.blocks
    BY ThreadFields
  <2>2. p = syncer.running /\ syncer.pc \in {"batches", "live_process"}
    BY <1>1, RunningFacts
  <2>3. PICK last \in 1..tip : Covers(chain, tip, r.blocks, disk.block_number, last) /\ (syncer.pc = "batches" => last = e)
    BY <1>1, RunningFacts
  <2> HIDE DEF t
  <2>4. (\A q \in ProcIds : q # p => procs'[q].status = "idle") /\ procs'[p] = t
    BY <1>3, <2>2, OthersIdle
  <2>5. e = BatchEnd(syncer', StartedBatches(syncer'))
    BY <1>1
  <2> HIDE DEF e, r
  <2>6. Covers(chain', tip', procs'[p].blocks, disk'.block_number, last) /\ procs'[p].status # "done"
    BY <1>1, <2>1, <2>3, <2>4
  <2> QED
    BY <1>1, <2>2, <2>3, <2>4, <2>5, <2>6, InStepRunning
<1> QED
  BY <1>2, <1>3, LogsFacts

LEMMA InStepPublish ==
    ASSUME Sound, InStep, NEW p \in ProcIds, PublishBlock(p)
    PROVE  InStep'
<1> DEFINE a == ended(p, "done")
           b == Thread("block", procs[p].blocks, procs[p].live, <<>>, {}, <<>>)
           bl == procs[p].blocks
           L == disk.block_number
           e == BatchEnd(syncer, StartedBatches(syncer))
<1>1. /\ procs[p].status = "publish" /\ UNCHANGED <<chain, tip, disk, syncer>>
      /\ (bl = {} /\ Changed(p, a)) \/ (bl # {} /\ Changed(p, b))
  BY PublishFacts
<1>2. p = syncer.running /\ syncer.pc \in {"batches", "live_process"}
  BY <1>1, RunningFacts
<1>3. PICK last \in 1..tip : Covers(chain, tip, bl, L, last) /\ (syncer.pc = "batches" => last = e)
  BY <1>1, RunningFacts
<1>4. a.status = "done" /\ b.blocks = bl /\ b.status = "block"
  BY <1>2, EndedFields, ThreadFields
<1>5. e = BatchEnd(syncer', StartedBatches(syncer')) /\ L = disk'.block_number
  BY <1>1
<1> HIDE DEF a, b, bl, e, L
<1>6. CASE bl = {} /\ Changed(p, a)
  <2>1. (\A q \in ProcIds : q # p => procs'[q].status = "idle") /\ procs'[p] = a
    BY <1>2, <1>6, OthersIdle
  <2>2. L = last
    BY <1>3, <1>6 DEF Covers
  <2> QED
    BY <1>1, <1>2, <1>3, <1>4, <1>5, <2>1, <2>2, InStepRunning
<1>7. CASE bl # {} /\ Changed(p, b)
  <2>1. (\A q \in ProcIds : q # p => procs'[q].status = "idle") /\ procs'[p] = b
    BY <1>2, <1>7, OthersIdle
  <2>2. Covers(chain', tip', procs'[p].blocks, disk'.block_number, last) /\ procs'[p].status # "done"
    BY <1>1, <1>3, <1>4, <1>5, <2>1
  <2> QED
    BY <1>1, <1>2, <1>3, <1>5, <2>1, <2>2, InStepRunning
<1> QED
  BY <1>1, <1>6, <1>7

LEMMA InStepInit == Init => InStep
<1> SUFFICES ASSUME Init PROVE InStep
  OBVIOUS
<1>1. procs = [p \in ProcIds |-> Idle] /\ syncer = Started
  BY DEF Init
<1>2. \A p \in ProcIds : procs[p].status = "idle"
  BY <1>1, IdleFields
<1>3. syncer.pc = "start" /\ syncer.running = None
  BY <1>1, StartedFields DEF SyncerIs
<1> QED
  BY <1>2, <1>3 DEF InStep

LEMMA InStepNext ==
    ASSUME Sound, InStep, [Next]_vars, ~orphaned'
    PROVE  InStep'
<1>1. CASE Mine
  BY <1>1, InStepSame DEF Mine
<1>2. CASE historical_sync \/ FinishHistoricalSync \/ StartBatches \/ BatchesDone \/ HeaderReceived
  BY <1>2, InStepHistorical
<1>3. CASE BatchFetched
  BY <1>3, InStepBatchFetched
<1>4. CASE BatchProcessed
  BY <1>4, InStepBatchProcessed
<1>5. CASE LiveLogsFetched
  BY <1>5, InStepLiveFetched
<1>6. CASE LiveLogsProcessed
  BY <1>6, InStepLiveProcessed
<1>7. CASE ProcessorFailed
  BY <1>7, InStepProcessorFailed
<1>8. CASE ConnectionFails
  BY <1>8, InStepConnectionFails
<1>9. ASSUME NEW p \in ProcIds, Process(p) \/ ConnectTimeout(p) \/ DatabaseFails(p) PROVE InStep'
  <2>1. CASE ConnectTimeout(p)
    <3>1. procs[p].status # "idle" /\ Changed(p, ended(p, "failed")) /\ UNCHANGED syncer
      BY <2>1, TimeoutFacts
    <3> QED
      BY <3>1, InStepFailed
  <2> QED
    BY <1>9, <2>1, InStepConnect, InStepLogs, InStepCommit, InStepPublish DEF Process
<1>10. CASE RequestIndices \/ RequestFails
  BY <1>10, InStepSame DEF RequestIndices, RequestFails
<1>11. CASE StoreIndices
  BY <1>11, StoreFacts, InStepSame
<1>12. CASE Restart
  BY <1>12, RestartFacts, InStepRestarted
<1>13. CASE UNCHANGED vars
  BY <1>13, InStepSame DEF vars
<1> QED
  BY <1>1, <1>2, <1>3, <1>4, <1>5, <1>6, <1>7, <1>8, <1>9, <1>10, <1>11, <1>12, <1>13 DEF Next, Sync

---------------------------------------------------------------------------
(* Two databases that hold the same registry hold the same after the same  *)
(* log, whatever they know of the validators' indices, whichever operator  *)
(* they belong to, in historical and in live sync.                         *)

LEMMA TablesFields ==
    ASSUME NEW e, NEW block, NEW max, NEW operators, NEW skipped, NEW owners, NEW clusters, NEW validators,
           e = Tables(block, max, operators, skipped, owners, clusters, validators)
    PROVE  /\ e.block_number = block /\ e.max_operator_id_seen = max /\ e.operators = operators
           /\ e.skipped_operator_adds = skipped /\ e.owners = owners /\ e.clusters = clusters /\ e.validators = validators
BY DEF Tables

\* The tables a transaction leaves, field by field.
Fields(e, max, operators, skipped, owners, clusters, validators) ==
    /\ e.max_operator_id_seen = max /\ e.operators = operators /\ e.skipped_operator_adds = skipped
    /\ e.owners = owners /\ e.clusters = clusters /\ e.validators = validators

LEMMA FieldSet ==
    ASSUME NEW d, TablesOK(d), NEW x, NEW e
    PROVE  /\ e = [d EXCEPT !.block_number = x] =>
                Fields(e, d.max_operator_id_seen, d.operators, d.skipped_operator_adds, d.owners, d.clusters, d.validators)
           /\ e = [d EXCEPT !.max_operator_id_seen = x] =>
                Fields(e, x, d.operators, d.skipped_operator_adds, d.owners, d.clusters, d.validators)
           /\ e = [d EXCEPT !.operators = x] =>
                Fields(e, d.max_operator_id_seen, x, d.skipped_operator_adds, d.owners, d.clusters, d.validators)
           /\ e = [d EXCEPT !.skipped_operator_adds = x] =>
                Fields(e, d.max_operator_id_seen, d.operators, x, d.owners, d.clusters, d.validators)
           /\ e = [d EXCEPT !.owners = x] =>
                Fields(e, d.max_operator_id_seen, d.operators, d.skipped_operator_adds, x, d.clusters, d.validators)
           /\ e = [d EXCEPT !.clusters = x] =>
                Fields(e, d.max_operator_id_seen, d.operators, d.skipped_operator_adds, d.owners, x, d.validators)
           /\ \A y, z : e = [d EXCEPT !.clusters = x, !.validators = y, !.owners = z] =>
                Fields(e, d.max_operator_id_seen, d.operators, d.skipped_operator_adds, z, x, y)
           /\ \A y, z : e = [d EXCEPT !.validators = x, !.clusters = y, !.operators = z] =>
                Fields(e, d.max_operator_id_seen, z, d.skipped_operator_adds, d.owners, y, x)
<1>1. d = Tables(d.block_number, d.max_operator_id_seen, d.operators, d.skipped_operator_adds, d.owners,
                 d.clusters, d.validators)
  BY DEF TablesOK
<1>2. ASSUME e = [d EXCEPT !.block_number = x]
      PROVE  Fields(e, d.max_operator_id_seen, d.operators, d.skipped_operator_adds, d.owners, d.clusters, d.validators)
  BY <1>1, <1>2 DEF Tables, Fields
<1>3. ASSUME e = [d EXCEPT !.max_operator_id_seen = x]
      PROVE  Fields(e, x, d.operators, d.skipped_operator_adds, d.owners, d.clusters, d.validators)
  BY <1>1, <1>3 DEF Tables, Fields
<1>4. ASSUME e = [d EXCEPT !.operators = x]
      PROVE  Fields(e, d.max_operator_id_seen, x, d.skipped_operator_adds, d.owners, d.clusters, d.validators)
  BY <1>1, <1>4 DEF Tables, Fields
<1>5. ASSUME e = [d EXCEPT !.skipped_operator_adds = x]
      PROVE  Fields(e, d.max_operator_id_seen, d.operators, x, d.owners, d.clusters, d.validators)
  BY <1>1, <1>5 DEF Tables, Fields
<1>6. ASSUME e = [d EXCEPT !.owners = x]
      PROVE  Fields(e, d.max_operator_id_seen, d.operators, d.skipped_operator_adds, x, d.clusters, d.validators)
  BY <1>1, <1>6 DEF Tables, Fields
<1>7. ASSUME e = [d EXCEPT !.clusters = x]
      PROVE  Fields(e, d.max_operator_id_seen, d.operators, d.skipped_operator_adds, d.owners, x, d.validators)
  BY <1>1, <1>7 DEF Tables, Fields
<1>8. ASSUME NEW y, NEW z, e = [d EXCEPT !.clusters = x, !.validators = y, !.owners = z]
      PROVE  Fields(e, d.max_operator_id_seen, d.operators, d.skipped_operator_adds, z, x, y)
  BY <1>1, <1>8 DEF Tables, Fields
<1>9. ASSUME NEW y, NEW z, e = [d EXCEPT !.validators = x, !.clusters = y, !.operators = z]
      PROVE  Fields(e, d.max_operator_id_seen, z, d.skipped_operator_adds, d.owners, y, x)
  BY <1>1, <1>9 DEF Tables, Fields
<1> QED
  BY <1>2, <1>3, <1>4, <1>5, <1>6, <1>7, <1>8, <1>9

Same(c, k) == SameRegistry(c.tx.disk, k.tx.disk) /\ c.abort = k.abort

\* The contexts of a log, and of the same log in another database.
Twins(c, k) == ContextOK(c) /\ ContextOK(k) /\ TablesOK(c.tx.disk) /\ TablesOK(k.tx.disk) /\ Same(c, k)

LEMMA SameTx ==
    ASSUME NEW c, NEW k, Twins(c, k), NEW s, NEW t, SameRegistry(s.disk, t.disk)
    PROVE  Same([c EXCEPT !.tx = s], [k EXCEPT !.tx = t])
<1>1. \A x, y : ContextOK(x) => [x EXCEPT !.tx = y].tx = y /\ [x EXCEPT !.tx = y].abort = x.abort
  BY DEF ContextOK, IsContext
<1> QED
  BY <1>1 DEF Twins, Same

LEMMA SameOperatorAdded ==
    ASSUME NEW c, NEW k, Twins(c, k), NEW e
    PROVE  Same(process_operator_added(c, e), process_operator_added(k, e))
<1> DEFINE Refused(d) == \/ operator_exists_tx(d, e.id)
                         \/ d.max_operator_id_seen # None /\ d.max_operator_id_seen # e.id - 1
           Seen(tx) == set_max_operator_id_seen_tx(tx, e.id)
           Taken(d) == e.valid /\ ~key_in_use_tx(d, e.key)
           After(tx) == IF Taken(tx.disk) THEN insert_operator_tx(Seen(tx), e.id, e.key)
                        ELSE insert_skipped_operator_add_tx(Seen(tx), e.id)
           row == [key |-> e.key, removed |-> FALSE]
<1>1. \A x : process_operator_added(x, e) = IF Refused(x.tx.disk) THEN x ELSE [x EXCEPT !.tx = After(x.tx)]
  BY DEF process_operator_added
<1>2. SameRegistry(c.tx.disk, k.tx.disk) /\ TablesOK(c.tx.disk) /\ TablesOK(k.tx.disk)
  BY DEF Twins, Same
<1>3. (Refused(c.tx.disk) <=> Refused(k.tx.disk)) /\ (Taken(c.tx.disk) <=> Taken(k.tx.disk))
  BY <1>2 DEF SameRegistry, operator_exists_tx, key_in_use_tx
<1>4. ASSUME NEW tx, TablesOK(tx.disk)
      PROVE  /\ Seen(tx).disk = [tx.disk EXCEPT !.max_operator_id_seen = e.id] /\ IsTx(Seen(tx))
             /\ insert_operator_tx(Seen(tx), e.id, e.key).disk = [Seen(tx).disk EXCEPT !.operators = insert_or_ignore(Seen(tx).disk.operators, e.id, row)]
             /\ insert_skipped_operator_add_tx(Seen(tx), e.id).disk
                   = [Seen(tx).disk EXCEPT !.skipped_operator_adds = Seen(tx).disk.skipped_operator_adds \union {e.id}]
  <2>1. Seen(tx).disk = [tx.disk EXCEPT !.max_operator_id_seen = e.id] /\ IsTx(Seen(tx))
    BY DEF set_max_operator_id_seen_tx, IsTx
  <2> DEFINE s == Seen(tx)
  <2> HIDE DEF s, row
  <2>2. insert_operator_tx(s, e.id, e.key).disk = [s.disk EXCEPT !.operators = insert_or_ignore(s.disk.operators, e.id, row)]
    BY DEF insert_operator_tx, row
  <2>3. IsTx(s)
    BY <2>1 DEF s
  <2>4. insert_skipped_operator_add_tx(s, e.id).disk
           = [s.disk EXCEPT !.skipped_operator_adds = s.disk.skipped_operator_adds \union {e.id}]
    BY <2>3, SkippedTx DEF insert_skipped_operator_add_tx
  <2> QED
    BY <2>1, <2>2, <2>4 DEF s
<1> HIDE DEF row
<1>5. ASSUME NEW tx, TablesOK(tx.disk)
      PROVE  LET d == tx.disk
             IN  Fields(After(tx).disk, e.id,
                     IF Taken(d) THEN insert_or_ignore(d.operators, e.id, row) ELSE d.operators,
                     IF Taken(d) THEN d.skipped_operator_adds ELSE d.skipped_operator_adds \union {e.id},
                     d.owners, d.clusters, d.validators)
  <2> DEFINE d == tx.disk
             s == Seen(tx).disk
             a == insert_operator_tx(Seen(tx), e.id, e.key)
             b == insert_skipped_operator_add_tx(Seen(tx), e.id)
             ops == insert_or_ignore(s.operators, e.id, row)
             skip == s.skipped_operator_adds \union {e.id}
  <2>1. /\ s = [d EXCEPT !.max_operator_id_seen = e.id] /\ a.disk = [s EXCEPT !.operators = ops]
        /\ b.disk = [s EXCEPT !.skipped_operator_adds = skip] /\ After(tx) = (IF Taken(d) THEN a ELSE b) /\ TablesOK(d)
    BY <1>4, <1>5
  <2> HIDE DEF d, s, a, b, Seen, After, Taken, ops, skip
  <2>2. s = Tables(d.block_number, e.id, d.operators, d.skipped_operator_adds, d.owners, d.clusters, d.validators)
    <3>1. d = Tables(d.block_number, d.max_operator_id_seen, d.operators, d.skipped_operator_adds, d.owners,
                     d.clusters, d.validators)
      BY <2>1 DEF TablesOK
    <3> QED
      BY <2>1, <3>1 DEF Tables
  <2>3. a.disk = Tables(d.block_number, e.id, ops, d.skipped_operator_adds, d.owners, d.clusters, d.validators)
    BY <2>1, <2>2 DEF Tables
  <2>4. b.disk = Tables(d.block_number, e.id, d.operators, skip, d.owners, d.clusters, d.validators)
    BY ZenonT(60), <2>1, <2>2 DEF Tables
  <2>5. s.operators = d.operators /\ s.skipped_operator_adds = d.skipped_operator_adds
    BY <2>2, TablesFields
  <2>6. Fields(a.disk, e.id, ops, d.skipped_operator_adds, d.owners, d.clusters, d.validators)
    BY <2>3, TablesFields DEF Fields
  <2>7. Fields(b.disk, e.id, d.operators, skip, d.owners, d.clusters, d.validators)
    BY <2>4, TablesFields DEF Fields
  <2> QED
    BY <2>1, <2>5, <2>6, <2>7 DEF ops, skip, d
<1>6. SameRegistry(After(c.tx).disk, After(k.tx).disk)
  <2> HIDE DEF Taken, After
  <2>1. /\ Fields(After(c.tx).disk, e.id,
                     IF Taken(c.tx.disk) THEN insert_or_ignore(c.tx.disk.operators, e.id, row) ELSE c.tx.disk.operators,
                     IF Taken(c.tx.disk) THEN c.tx.disk.skipped_operator_adds ELSE c.tx.disk.skipped_operator_adds \union {e.id},
                     c.tx.disk.owners, c.tx.disk.clusters, c.tx.disk.validators)
        /\ Fields(After(k.tx).disk, e.id,
                     IF Taken(k.tx.disk) THEN insert_or_ignore(k.tx.disk.operators, e.id, row) ELSE k.tx.disk.operators,
                     IF Taken(k.tx.disk) THEN k.tx.disk.skipped_operator_adds ELSE k.tx.disk.skipped_operator_adds \union {e.id},
                     k.tx.disk.owners, k.tx.disk.clusters, k.tx.disk.validators)
    BY <1>2, <1>5
  <2> QED
    BY <1>2, <1>3, <2>1 DEF SameRegistry, Fields
<1> HIDE DEF After, Refused
<1> QED
  BY <1>1, <1>3, <1>6, SameTx DEF Twins

LEMMA SameOperatorRemoved ==
    ASSUME NEW c, NEW k, Twins(c, k), NEW e
    PROVE  Same(process_operator_removed(c, e), process_operator_removed(k, e))
<1> DEFINE Skipped(x) == e.id \in x.tx.disk.skipped_operator_adds
           Exists(x) == operator_exists_tx(x.tx.disk, e.id)
           Left(d) == IF \E cluster \in DOMAIN d.clusters : e.id \in cluster_members(cluster)
                      THEN [d.operators EXCEPT ![e.id].removed = TRUE] ELSE Without(d.operators, {e.id})
           yes == TRUE
<1> HIDE DEF yes
<1>1. \A x : process_operator_removed(x, e) =
                IF Skipped(x) THEN [x EXCEPT !.tx = delete_skipped_operator_add_tx(x.tx, e.id)]
                ELSE IF Exists(x) THEN [x EXCEPT !.tx = delete_operator_tx(x.tx, e.id)] ELSE [x EXCEPT !.abort = yes]
  BY DEF process_operator_removed, yes
<1>2. SameRegistry(c.tx.disk, k.tx.disk) /\ TablesOK(c.tx.disk) /\ TablesOK(k.tx.disk) /\ IsTx(c.tx) /\ IsTx(k.tx)
  BY DEF Twins, Same, ContextOK
<1>3. /\ Skipped(c) <=> Skipped(k)
      /\ Exists(c) <=> Exists(k)
      /\ Left(c.tx.disk) = Left(k.tx.disk)
  BY <1>2 DEF SameRegistry, operator_exists_tx
<1>4. ASSUME NEW tx, TablesOK(tx.disk), IsTx(tx)
      PROVE  /\ delete_skipped_operator_add_tx(tx, e.id).disk
                  = [tx.disk EXCEPT !.skipped_operator_adds = tx.disk.skipped_operator_adds \ {e.id}]
             /\ delete_operator_tx(tx, e.id).disk = [tx.disk EXCEPT !.operators = Left(tx.disk)]
  <2>1. delete_operator_tx(tx, e.id).disk = [tx.disk EXCEPT !.operators = Left(tx.disk)]
    BY DEF delete_operator_tx
  <2>2. delete_skipped_operator_add_tx(tx, e.id) = [tx EXCEPT !.disk.skipped_operator_adds = tx.disk.skipped_operator_adds \ {e.id}]
    BY <1>4 DEF delete_skipped_operator_add_tx, IsTx
  <2>3. delete_skipped_operator_add_tx(tx, e.id).disk
                  = [tx.disk EXCEPT !.skipped_operator_adds = tx.disk.skipped_operator_adds \ {e.id}]
    BY <1>4, <2>2, SkippedTx
  <2> QED
    BY <2>1, <2>3
<1> HIDE DEF Skipped, Exists, Left
<1>5. ASSUME Skipped(c), Skipped(k) PROVE Same(process_operator_removed(c, e), process_operator_removed(k, e))
  <2> DEFINE s == delete_skipped_operator_add_tx(c.tx, e.id)
             t == delete_skipped_operator_add_tx(k.tx, e.id)
  <2>1. /\ s.disk = [c.tx.disk EXCEPT !.skipped_operator_adds = c.tx.disk.skipped_operator_adds \ {e.id}]
        /\ t.disk = [k.tx.disk EXCEPT !.skipped_operator_adds = k.tx.disk.skipped_operator_adds \ {e.id}]
    BY <1>2, <1>4
  <2> DEFINE x == c.tx.disk.skipped_operator_adds \ {e.id}
             y == k.tx.disk.skipped_operator_adds \ {e.id}
             d == c.tx.disk
             f == k.tx.disk
  <2> HIDE DEF s, t, x, y, d, f
  <2>2. /\ Fields(s.disk, d.max_operator_id_seen, d.operators, x, d.owners, d.clusters, d.validators)
        /\ Fields(t.disk, f.max_operator_id_seen, f.operators, y, f.owners, f.clusters, f.validators)
    BY <1>2, <2>1, FieldSet DEF x, y, d, f
  <2>3. x = y
    BY <1>2 DEF x, y, SameRegistry
  <2>4. SameRegistry(s.disk, t.disk)
    BY <1>2, <2>2, <2>3 DEF Fields, SameRegistry, d, f
  <2> QED
    BY <1>1, <1>5, <2>4, SameTx DEF s, t
<1>6. ASSUME ~Skipped(c), ~Skipped(k), Exists(c), Exists(k)
      PROVE  Same(process_operator_removed(c, e), process_operator_removed(k, e))
  <2> DEFINE s == delete_operator_tx(c.tx, e.id)
             t == delete_operator_tx(k.tx, e.id)
  <2>1. s.disk = [c.tx.disk EXCEPT !.operators = Left(c.tx.disk)] /\ t.disk = [k.tx.disk EXCEPT !.operators = Left(k.tx.disk)]
    BY <1>2, <1>4
  <2> DEFINE d == c.tx.disk
             f == k.tx.disk
  <2> HIDE DEF s, t, d, f
  <2>2. /\ Fields(s.disk, d.max_operator_id_seen, Left(d), d.skipped_operator_adds, d.owners, d.clusters, d.validators)
        /\ Fields(t.disk, f.max_operator_id_seen, Left(f), f.skipped_operator_adds, f.owners, f.clusters, f.validators)
    BY <1>2, <2>1, FieldSet DEF d, f
  <2>3. SameRegistry(s.disk, t.disk)
    BY <1>2, <1>3, <2>2 DEF Fields, SameRegistry, d, f
  <2> QED
    BY <1>1, <1>6, <2>3, SameTx DEF s, t
<1>7. ASSUME ~Skipped(c), ~Skipped(k), ~Exists(c), ~Exists(k)
      PROVE  Same(process_operator_removed(c, e), process_operator_removed(k, e))
  <2>1. \A x : ContextOK(x) => [x EXCEPT !.abort = yes].tx = x.tx /\ [x EXCEPT !.abort = yes].abort = yes
    BY DEF ContextOK, IsContext
  <2>2. process_operator_removed(c, e) = [c EXCEPT !.abort = yes] /\ process_operator_removed(k, e) = [k EXCEPT !.abort = yes]
    BY <1>1, <1>7
  <2> QED
    BY <1>2, <2>1, <2>2 DEF Twins, Same
<1> QED
  BY <1>3, <1>5, <1>6, <1>7

LEMMA SameBumped ==
    ASSUME NEW s, NEW t, TablesOK(s.disk), TablesOK(t.disk), SameRegistry(s.disk, t.disk), NEW owner
    PROVE  LET a == bump_and_get_nonce_tx(s, owner).disk
               b == bump_and_get_nonce_tx(t, owner).disk
           IN  SameRegistry(a, b) /\ a.owners = b.owners
<1> DEFINE Row(d) == IF owner \in DOMAIN d.owners THEN d.owners[owner] ELSE [fee_recipient |-> None, nonce |-> None]
           Next1(d) == IF Row(d).nonce = None THEN 0 ELSE Row(d).nonce + 1
           Owners(d) == insert_or_update(d.owners, owner, [Row(d) EXCEPT !.nonce = Next1(d)])
           a == bump_and_get_nonce_tx(s, owner).disk
           b == bump_and_get_nonce_tx(t, owner).disk
<1>1. a = [s.disk EXCEPT !.owners = Owners(s.disk)] /\ b = [t.disk EXCEPT !.owners = Owners(t.disk)]
  BY DEF bump_and_get_nonce_tx
<1>2. Owners(s.disk) = Owners(t.disk)
  BY DEF SameRegistry
<1> HIDE DEF a, b, Owners
<1>3. /\ Fields(a, s.disk.max_operator_id_seen, s.disk.operators, s.disk.skipped_operator_adds, Owners(s.disk), s.disk.clusters, s.disk.validators)
      /\ Fields(b, t.disk.max_operator_id_seen, t.disk.operators, t.disk.skipped_operator_adds, Owners(t.disk), t.disk.clusters, t.disk.validators)
  BY <1>1, FieldSet
<1>4. SameRegistry(a, b) /\ a.owners = b.owners
  BY <1>2, <1>3 DEF Fields, SameRegistry
<1> QED
  BY <1>4 DEF a, b

LEMMA SameValidatorInserted ==
    ASSUME NEW s, NEW t, TablesOK(s.disk), TablesOK(t.disk), SameRegistry(s.disk, t.disk), NEW cluster, NEW pubkey,
           pubkey \notin DOMAIN s.disk.validators, NEW r1, NEW r2, NEW known1, NEW known2
    PROVE  SameRegistry(insert_validator_tx(s, cluster, pubkey, r1, known1).disk,
                        insert_validator_tx(t, cluster, pubkey, r2, known2).disk)
<1> DEFINE owner == cluster_owner(cluster)
           row == [fee_recipient |-> owner, nonce |-> None]
           flag == [liquidated |-> FALSE]
           new == [cluster |-> cluster, index |-> None]
           C(d) == insert_or_ignore(d.clusters, cluster, flag)
           V(d) == insert_or_ignore(d.validators, pubkey, new)
           O(d) == insert_or_ignore(d.owners, owner, row)
           a == insert_validator_tx(s, cluster, pubkey, r1, known1).disk
           b == insert_validator_tx(t, cluster, pubkey, r2, known2).disk
<1>1. /\ a = [s.disk EXCEPT !.clusters = C(s.disk), !.validators = V(s.disk), !.owners = O(s.disk)]
      /\ b = [t.disk EXCEPT !.clusters = C(t.disk), !.validators = V(t.disk), !.owners = O(t.disk)]
  BY DEF insert_validator_tx
<1> HIDE DEF row, flag, new, owner
<1>2. C(s.disk) = C(t.disk) /\ O(s.disk) = O(t.disk)
  BY DEF SameRegistry
<1>3. /\ DOMAIN V(s.disk) = DOMAIN V(t.disk)
      /\ \A v \in DOMAIN V(s.disk) : V(s.disk)[v].cluster = V(t.disk)[v].cluster
  BY DEF SameRegistry, insert_or_ignore
<1> HIDE DEF a, b, C, V, O
<1>4. /\ Fields(a, s.disk.max_operator_id_seen, s.disk.operators, s.disk.skipped_operator_adds, O(s.disk), C(s.disk), V(s.disk))
      /\ Fields(b, t.disk.max_operator_id_seen, t.disk.operators, t.disk.skipped_operator_adds, O(t.disk), C(t.disk), V(t.disk))
  BY <1>1, FieldSet
<1>5. SameRegistry(a, b)
  BY <1>2, <1>3, <1>4 DEF Fields, SameRegistry
<1> QED
  BY <1>5 DEF a, b

LEMMA SameValidatorAdded ==
    ASSUME NEW c, NEW k, Twins(c, k), NEW e, NEW known1, NEW known2
    PROVE  Same(process_validator_added(c, e, known1), process_validator_added(k, e, known2))
<1> DEFINE Bumped(x) == bump_and_get_nonce_tx(x.tx, e.owner)
           Accepted(d) == /\ parse_shares(e)
                          /\ validate_operators(d, e.operators)
                          /\ verify_signature(d, e)
                          /\ ~validate_validator_added_conflict(d, e)
           Added(x, known) == insert_validator_tx(Bumped(x), compute_cluster_id(e), e.validator,
                                  fee_recipient_for_owner(Bumped(x).disk, e.owner), known)
           Next1(x, known) == [x EXCEPT !.tx = Added(x, known), !.registered = x.registered \union {e.validator},
                                        !.index_sync = x.index_sync \union {e.validator}]
<1>1. \A x, known : process_validator_added(x, e, known) =
                IF Accepted(Bumped(x).disk) THEN Next1(x, known) ELSE [x EXCEPT !.tx = Bumped(x)]
  BY DEF process_validator_added
<1>2. SameRegistry(c.tx.disk, k.tx.disk) /\ TablesOK(c.tx.disk) /\ TablesOK(k.tx.disk)
  BY DEF Twins, Same
<1>3. SameRegistry(Bumped(c).disk, Bumped(k).disk)
  BY <1>2, SameBumped
<1>4. TablesOK(Bumped(c).disk) /\ TablesOK(Bumped(k).disk)
  BY <1>2, NewWithState, SetOwnerNonce DEF Consistent
<1> HIDE DEF Bumped
<1>5. Accepted(Bumped(c).disk) <=> Accepted(Bumped(k).disk)
  BY <1>3 DEF SameRegistry, validate_operators, verify_signature, validate_validator_added_conflict, operator_exists_tx
<1>6. Accepted(Bumped(c).disk) => SameRegistry(Added(c, known1).disk, Added(k, known2).disk)
  BY <1>3, <1>4, SameValidatorInserted DEF validate_validator_added_conflict
<1> HIDE DEF Accepted, Added
<1>7. \A x, known : ContextOK(x) => Next1(x, known).tx = Added(x, known) /\ Next1(x, known).abort = x.abort
  BY DEF ContextOK, IsContext
<1> HIDE DEF Next1
<1>8. CASE Accepted(Bumped(c).disk)
  BY <1>1, <1>5, <1>6, <1>7, <1>8 DEF Twins, Same
<1>9. CASE ~Accepted(Bumped(c).disk)
  BY <1>1, <1>3, <1>5, <1>9, SameTx
<1> QED
  BY <1>8, <1>9

LEMMA SameValidatorDeleted ==
    ASSUME NEW s, NEW t, TablesOK(s.disk), TablesOK(t.disk), SameRegistry(s.disk, t.disk), NEW pubkey \in DOMAIN s.disk.validators
    PROVE  SameRegistry(delete_validator_tx(s, pubkey).disk, delete_validator_tx(t, pubkey).disk)
<1> DEFINE Of(d) == d.validators[pubkey].cluster
           Left(d) == Without(d.validators, {pubkey})
           Last(d) == \A v \in DOMAIN Left(d) : Left(d)[v].cluster # Of(d)
           C(d) == IF Last(d) THEN Without(d.clusters, {Of(d)}) ELSE d.clusters
           Gone(d) == {id \in DOMAIN d.operators :
                          /\ Last(d) /\ id \in cluster_members(Of(d))
                          /\ d.operators[id].removed
                          /\ \A q \in DOMAIN C(d) : id \notin cluster_members(q)}
           O(d) == Without(d.operators, Gone(d))
           a == delete_validator_tx(s, pubkey).disk
           b == delete_validator_tx(t, pubkey).disk
<1>1. /\ a = [s.disk EXCEPT !.validators = Left(s.disk), !.clusters = C(s.disk), !.operators = O(s.disk)]
      /\ b = [t.disk EXCEPT !.validators = Left(t.disk), !.clusters = C(t.disk), !.operators = O(t.disk)]
  BY DEF delete_validator_tx
<1> DEFINE d == s.disk
           f == t.disk
<1>2. SameRegistry(d, f) /\ pubkey \in DOMAIN d.validators
  OBVIOUS
<1> HIDE DEF a, b, d, f
<1>3. /\ DOMAIN Left(d) = DOMAIN Left(f)
      /\ \A v \in DOMAIN Left(d) : Left(d)[v].cluster = Left(f)[v].cluster
      /\ Of(d) = Of(f)
  BY <1>2 DEF SameRegistry, Without, Restrict
<1> HIDE DEF Left, Of
<1>4. Last(d) <=> Last(f)
  BY <1>3
<1> HIDE DEF Last
<1>5. C(d) = C(f)
  BY <1>2, <1>3, <1>4 DEF SameRegistry
<1> HIDE DEF C
<1>6. Gone(d) = Gone(f)
  BY <1>2, <1>3, <1>4, <1>5 DEF SameRegistry
<1> HIDE DEF Gone
<1>7. O(d) = O(f)
  BY <1>2, <1>6 DEF SameRegistry
<1> HIDE DEF O
<1>8. /\ Fields(a, d.max_operator_id_seen, O(d), d.skipped_operator_adds, d.owners, C(d), Left(d))
      /\ Fields(b, f.max_operator_id_seen, O(f), f.skipped_operator_adds, f.owners, C(f), Left(f))
  BY <1>1, FieldSet DEF d, f
<1>9. SameRegistry(a, b)
  BY <1>2, <1>3, <1>5, <1>7, <1>8 DEF Fields, SameRegistry
<1> QED
  BY <1>9 DEF a, b

LEMMA SameValidatorRemoved ==
    ASSUME NEW c, NEW k, Twins(c, k), NEW e
    PROVE  Same(process_validator_removed(c, e), process_validator_removed(k, e))
<1> DEFINE Known(d) == e.validator \in DOMAIN d.validators /\ cluster_owner(d.validators[e.validator].cluster) = e.owner
<1>1. \A x : process_validator_removed(x, e) =
                IF Known(x.tx.disk) THEN [x EXCEPT !.tx = delete_validator_tx(x.tx, e.validator)] ELSE x
  BY DEF process_validator_removed
<1>2. SameRegistry(c.tx.disk, k.tx.disk) /\ TablesOK(c.tx.disk) /\ TablesOK(k.tx.disk)
  BY DEF Twins, Same
<1>3. Known(c.tx.disk) <=> Known(k.tx.disk)
  BY <1>2 DEF SameRegistry
<1>4. Known(c.tx.disk) => SameRegistry(delete_validator_tx(c.tx, e.validator).disk, delete_validator_tx(k.tx, e.validator).disk)
  BY <1>2, SameValidatorDeleted
<1> HIDE DEF Known
<1> QED
  BY <1>1, <1>3, <1>4, SameTx DEF Twins

LEMMA SameClusterStatus ==
    ASSUME NEW c, NEW k, Twins(c, k), NEW cluster, NEW liquidated
    PROVE  Same([c EXCEPT !.tx = update_status_tx(c.tx, cluster, liquidated)],
                [k EXCEPT !.tx = update_status_tx(k.tx, cluster, liquidated)])
<1> DEFINE C(d) == IF cluster \in DOMAIN d.clusters THEN [d.clusters EXCEPT ![cluster].liquidated = liquidated] ELSE d.clusters
           s == update_status_tx(c.tx, cluster, liquidated)
           t == update_status_tx(k.tx, cluster, liquidated)
           d == c.tx.disk
           f == k.tx.disk
<1>1. s.disk = [d EXCEPT !.clusters = C(d)] /\ t.disk = [f EXCEPT !.clusters = C(f)]
  BY DEF update_status_tx
<1>2. SameRegistry(d, f) /\ TablesOK(d) /\ TablesOK(f)
  BY DEF Twins, Same
<1> HIDE DEF s, t, d, f
<1>3. C(d) = C(f)
  BY <1>2 DEF SameRegistry
<1> HIDE DEF C
<1>4. /\ Fields(s.disk, d.max_operator_id_seen, d.operators, d.skipped_operator_adds, d.owners, C(d), d.validators)
      /\ Fields(t.disk, f.max_operator_id_seen, f.operators, f.skipped_operator_adds, f.owners, C(f), f.validators)
  BY <1>1, <1>2, FieldSet
<1>5. SameRegistry(s.disk, t.disk)
  BY <1>2, <1>3, <1>4 DEF Fields, SameRegistry
<1> QED
  BY <1>5, SameTx DEF s, t

LEMMA SameFeeRecipient ==
    ASSUME NEW c, NEW k, Twins(c, k), NEW e
    PROVE  Same(process_fee_recipient_updated(c, e), process_fee_recipient_updated(k, e))
<1> DEFINE Row(d) == IF e.owner \in DOMAIN d.owners THEN d.owners[e.owner] ELSE [fee_recipient |-> None, nonce |-> None]
           O(d) == insert_or_update(d.owners, e.owner, [Row(d) EXCEPT !.fee_recipient = e.recipient])
           s == update_fee_recipient_tx(c.tx, e.owner, e.recipient)
           t == update_fee_recipient_tx(k.tx, e.owner, e.recipient)
           d == c.tx.disk
           f == k.tx.disk
<1>1. s.disk = [d EXCEPT !.owners = O(d)] /\ t.disk = [f EXCEPT !.owners = O(f)]
  BY DEF update_fee_recipient_tx
<1>2. SameRegistry(d, f) /\ TablesOK(d) /\ TablesOK(f)
  BY DEF Twins, Same
<1> HIDE DEF s, t, d, f
<1>3. O(d) = O(f)
  BY <1>2 DEF SameRegistry
<1> HIDE DEF O
<1>4. /\ Fields(s.disk, d.max_operator_id_seen, d.operators, d.skipped_operator_adds, O(d), d.clusters, d.validators)
      /\ Fields(t.disk, f.max_operator_id_seen, f.operators, f.skipped_operator_adds, O(f), f.clusters, f.validators)
  BY <1>1, <1>2, FieldSet
<1>5. SameRegistry(s.disk, t.disk)
  BY <1>2, <1>3, <1>4 DEF Fields, SameRegistry
<1>6. process_fee_recipient_updated(c, e) = [c EXCEPT !.tx = s] /\ process_fee_recipient_updated(k, e) = [k EXCEPT !.tx = t]
  BY DEF process_fee_recipient_updated, s, t
<1> QED
  BY <1>5, <1>6, SameTx

LEMMA ExitKeepsTx ==
    ASSUME NEW x, ContextOK(x), NEW e, NEW live
    PROVE  process_validator_exited(x, e, live).tx = x.tx /\ process_validator_exited(x, e, live).abort = x.abort
<1>1. \A y : [x EXCEPT !.exits = y].tx = x.tx /\ [x EXCEPT !.exits = y].abort = x.abort
  BY DEF ContextOK, IsContext
<1> DEFINE q == Append(x.exits, e.validator)
<1>2. process_validator_exited(x, e, live) = x \/ process_validator_exited(x, e, live) = [x EXCEPT !.exits = q]
  BY DEF process_validator_exited
<1> HIDE DEF q
<1> QED
  BY <1>1, <1>2

LEMMA SameProcessLog ==
    ASSUME NEW c, NEW k, Twins(c, k), NEW e, Decoded(e), NEW known1, NEW known2, NEW live1, NEW live2
    PROVE  Same(process_log(c, e, known1, live1), process_log(k, e, known2, live2))
<1>0. Same(c, k) /\ c.abort = k.abort /\ ContextOK(c) /\ ContextOK(k)
  BY DEF Twins, Same
<1>1. CASE c.abort
  BY <1>0, <1>1 DEF process_log
<1>2. CASE ~c.abort
  <2>0. ~k.abort
    BY <1>0, <1>2
  <2>1. CASE e.type = "OperatorAdded"
    BY <1>2, <2>0, <2>1, SameOperatorAdded DEF process_log
  <2>2. CASE e.type = "OperatorRemoved"
    BY <1>2, <2>0, <2>2, SameOperatorRemoved DEF process_log
  <2>3. CASE e.type = "ValidatorAdded"
    BY <1>2, <2>0, <2>3, SameValidatorAdded DEF process_log
  <2>4. CASE e.type = "ValidatorRemoved"
    BY <1>2, <2>0, <2>4, SameValidatorRemoved DEF process_log
  <2>5. CASE e.type = "ClusterLiquidated"
    BY <1>2, <2>0, <2>5, SameClusterStatus DEF process_log, process_cluster_liquidated
  <2>6. CASE e.type = "ClusterReactivated"
    BY <1>2, <2>0, <2>6, SameClusterStatus DEF process_log, process_cluster_reactivated
  <2>7. CASE e.type = "FeeRecipientAddressUpdated"
    BY <1>2, <2>0, <2>7, SameFeeRecipient DEF process_log
  <2>8. CASE e.type = "ValidatorExited"
    <3>1. /\ process_log(c, e, known1, live1) = process_validator_exited(c, e, live1)
          /\ process_log(k, e, known2, live2) = process_validator_exited(k, e, live2)
      BY <1>2, <2>0, <2>8 DEF process_log
    <3> QED
      BY <1>0, <3>1, ExitKeepsTx DEF Same
  <2> QED
    BY <2>1, <2>2, <2>3, <2>4, <2>5, <2>6, <2>7, <2>8 DEF Decoded, EventTypes
<1> QED
  BY <1>1, <1>2

---------------------------------------------------------------------------
(* One pass over the contract's logs.                                      *)

LEMMA SameFacts ==
    /\ \A d : SameRegistry(d, d)
    /\ \A d, f : SameRegistry(d, f) => SameRegistry(f, d)
    /\ \A d, f, g : SameRegistry(d, f) /\ SameRegistry(f, g) => SameRegistry(d, g)
BY DEF SameRegistry

LEMMA SameBlock ==
    ASSUME NEW d, NEW f, TablesOK(d), TablesOK(f), SameRegistry(d, f), NEW logs, Logs(logs),
           NEW block, NEW known1, NEW known2, NEW live1, NEW live2
    PROVE  SameRegistry(process_block_logs(d, logs, block, known1, live1).tx.disk,
                        process_block_logs(f, logs, block, known2, live2).tx.disk)
<1> DEFINE C == LogContexts(d, logs, known1, live1)
           K == LogContexts(f, logs, known2, live2)
           n == Len(logs)
           S == {i \in 0..n : Same(C[i], K[i])}
           a == process_block_logs(d, logs, block, known1, live1).tx.disk
           b == process_block_logs(f, logs, block, known2, live2).tx.disk
<1>1. Consistent(new_with_state(d), d) /\ Consistent(new_with_state(f), f)
  BY NewWithState
<1>2. /\ n \in Nat
      /\ C[0] = Begun(d) /\ K[0] = Begun(f)
      /\ \A i \in 1..n : /\ C[i] = process_log(C[i - 1], logs[i], known1, live1)
                         /\ K[i] = process_log(K[i - 1], logs[i], known2, live2)
                         /\ Decoded(logs[i])
  BY LogsShape, ContextsUnfold
<1>3. \A i \in 0..n : ContextOK(C[i]) /\ ContextOK(K[i]) /\ TablesOK(C[i].tx.disk) /\ TablesOK(K[i].tx.disk)
  BY <1>1, BlockContexts DEF Consistent
<1>4. a = [C[n].tx.disk EXCEPT !.block_number = block] /\ b = [K[n].tx.disk EXCEPT !.block_number = block]
  BY <1>1, LastContext
<1> HIDE DEF C, K, n, a, b
<1>5. Same(C[0], K[0])
  <2>1. Begun(d).tx.disk = d /\ Begun(f).tx.disk = f /\ Begun(d).abort = Begun(f).abort
    BY DEF Begun
  <2> QED
    BY <1>2, <2>1 DEF Same
<1>6. ASSUME NEW i \in 1..n, Same(C[i - 1], K[i - 1]) PROVE Same(C[i], K[i])
  <2>1. i - 1 \in 0..n
    BY <1>2
  <2>2. Twins(C[i - 1], K[i - 1]) /\ Decoded(logs[i])
    BY <1>2, <1>3, <1>6, <2>1 DEF Twins
  <2> QED
    BY <1>2, <2>2, SameProcessLog
<1>7. \A i \in 0..n : i \in S
  <2>1. 0 \in S /\ \A i \in 1..n : i - 1 \in S => i \in S
    BY <1>2, <1>5, <1>6
  <2> HIDE DEF S
  <2> QED
    BY <1>2, <2>1, BlockInduction
<1>8. SameRegistry(C[n].tx.disk, K[n].tx.disk) /\ TablesOK(C[n].tx.disk) /\ TablesOK(K[n].tx.disk)
  BY SMTT(60), <1>2, <1>3, <1>7 DEF Same
<1> DEFINE x == C[n].tx.disk
           y == K[n].tx.disk
<1> HIDE DEF x, y
<1>9. /\ Fields(a, x.max_operator_id_seen, x.operators, x.skipped_operator_adds, x.owners, x.clusters, x.validators)
      /\ Fields(b, y.max_operator_id_seen, y.operators, y.skipped_operator_adds, y.owners, y.clusters, y.validators)
  BY <1>4, <1>8, FieldSet DEF x, y
<1>10. SameRegistry(a, b)
  BY <1>8, <1>9 DEF SameRegistry, Fields, x, y
<1> QED
  BY <1>10 DEF a, b

\* A block without logs only moves the block number.
LEMMA EmptyBlock ==
    ASSUME NEW d, TablesOK(d), NEW block, NEW known, NEW live
    PROVE  SameRegistry(process_block_logs(d, <<>>, block, known, live).tx.disk, d)
<1> DEFINE C == LogContexts(d, <<>>, known, live)
           a == process_block_logs(d, <<>>, block, known, live).tx.disk
<1>1. Len(<<>>) = 0 /\ Logs(<<>>)
  BY EmptySeq DEF Logs
<1>2. C[0] = Begun(d)
  BY <1>1, ContextsUnfold
<1>3. a = [C[0].tx.disk EXCEPT !.block_number = block]
  BY <1>1, NewWithState, LastContext
<1>4. Begun(d).tx.disk = d
  BY DEF Begun
<1> HIDE DEF C, a
<1>5. Fields(a, d.max_operator_id_seen, d.operators, d.skipped_operator_adds, d.owners, d.clusters, d.validators)
  BY <1>2, <1>3, <1>4, FieldSet
<1>6. SameRegistry(a, d)
  BY <1>5 DEF SameRegistry, Fields
<1> QED
  BY <1>6 DEF a

LEMMA ReplayEquation ==
    ASSUME NEW logs, Len(logs) \in Nat
    PROVE  LET after == Replay(logs)
           IN  after = [n \in 0..Len(logs) |->
                            IF n = 0 THEN EmptyDisk ELSE process_block_logs(after[n - 1], logs[n], n, None, FALSE).tx.disk]
<1> DEFINE move(d, n) == process_block_logs(d, logs[n], n, None, FALSE).tx.disk
           Solves(f, n) == f = [i \in 0..n |-> IF i = 0 THEN EmptyDisk ELSE move(f[i - 1], i)]
           S == {n \in Nat : \E f : Solves(f, n)}
<1>1. 0 \in S
  <2> DEFINE f == [i \in 0..0 |-> EmptyDisk]
  <2>1. Solves(f, 0)
    <3> HIDE DEF move
    <3> QED
      OBVIOUS
  <2> HIDE DEF f, Solves
  <2> QED
    BY <2>1
<1>2. ASSUME NEW n \in Nat, n \in S PROVE n + 1 \in S
  <2> HIDE DEF move
  <2>1. PICK f : Solves(f, n)
    BY <1>2
  <2> DEFINE g == [i \in 0..(n + 1) |-> IF i <= n THEN f[i] ELSE move(f[n], n + 1)]
  <2>2. \A i \in 0..(n + 1) : g[i] = IF i <= n THEN f[i] ELSE move(f[n], n + 1)
    OBVIOUS
  <2>3. \A i \in 0..n : f[i] = IF i = 0 THEN EmptyDisk ELSE move(f[i - 1], i)
    BY <2>1
  <2>4. g = [i \in 0..(n + 1) |-> g[i]]
    BY <2>2
  <2> HIDE DEF g
  <2>5. \A i \in 0..(n + 1) : g[i] = IF i = 0 THEN EmptyDisk ELSE move(g[i - 1], i)
    <3> TAKE i \in 0..(n + 1)
    <3>1. CASE i <= n
      BY <3>1, <2>2, <2>3
    <3>2. CASE i = n + 1
      BY <3>2, <2>2
    <3> QED
      BY <3>1, <3>2
  <2>6. [i \in 0..(n + 1) |-> g[i]] = [i \in 0..(n + 1) |-> IF i = 0 THEN EmptyDisk ELSE move(g[i - 1], i)]
    BY <2>5, Zenon
  <2>7. Solves(g, n + 1)
    BY <2>4, <2>6, Zenon
  <2> HIDE DEF Solves
  <2> QED
    BY <2>7
<1> DEFINE A == CHOOSE f : Solves(f, Len(logs))
<1>3. Solves(A, Len(logs))
  <2> HIDE DEF Solves
  <2>1. Len(logs) \in S
    <3> HIDE DEF S
    <3> QED
      BY <1>1, <1>2, NatInductionOnSet
  <2> QED
    BY <2>1
<1>4. Replay(logs) = A
  BY DEF Replay
<1> HIDE DEF A
<1> QED
  BY <1>3, <1>4

LEMMA ReplayFacts ==
    ASSUME NEW logs \in Chains
    PROVE  LET R == Replay(logs)
           IN  /\ Len(logs) \in Nat
               /\ R[0] = EmptyDisk
               /\ \A n \in 1..Len(logs) : R[n] = process_block_logs(R[n - 1], logs[n], n, None, FALSE).tx.disk /\ Logs(logs[n])
               /\ \A n \in 0..Len(logs) : TablesOK(R[n]) /\ R[n].block_number = n
<1> DEFINE R == Replay(logs)
           len == Len(logs)
           Good(n) == TablesOK(R[n]) /\ R[n].block_number = n
           S == {n \in 0..len : Good(n)}
<1>1. /\ len \in Nat /\ DOMAIN logs = 1..len
      /\ \A b \in 1..len : Logs(logs[b])
  BY ChainAssumption DEF Logs, IsSeq
<1>2. R = [n \in 0..len |-> IF n = 0 THEN EmptyDisk ELSE process_block_logs(R[n - 1], logs[n], n, None, FALSE).tx.disk]
  BY <1>1, ReplayEquation
<1> DEFINE no == FALSE
<1>3. /\ R[0] = EmptyDisk
      /\ \A n \in 1..len : R[n] = process_block_logs(R[n - 1], logs[n], n, None, no).tx.disk
  <2> DEFINE move(d, n) == process_block_logs(d, logs[n], n, None, FALSE).tx.disk
  <2>1. R = [n \in 0..len |-> IF n = 0 THEN EmptyDisk ELSE move(R[n - 1], n)]
    BY <1>2
  <2> HIDE DEF R, move, len
  <2>2. R[0] = EmptyDisk /\ \A n \in 1..len : R[n] = move(R[n - 1], n)
    BY <1>1, <2>1
  <2> QED
    BY <2>2 DEF move
<1> HIDE DEF R, len, no
<1>4. Good(0)
  BY <1>3, EmptyTables
<1>5. ASSUME NEW n \in 1..len, Good(n - 1) PROVE Good(n)
  <2> DEFINE d == R[n - 1]
             m == new_with_state(d)
             done == process_block_logs(d, logs[n], n, None, no)
  <2>1. Consistent(m, d) /\ Logs(logs[n])
    BY <1>1, <1>5, NewWithState
  <2> HIDE DEF d, m
  <2>2. Consistent(Published(m, done.tx), done.tx.disk) /\ done.tx.disk.block_number = n
    BY <2>1, ProcessBlock
  <2>3. R[n] = done.tx.disk
    BY <1>3 DEF d
  <2> HIDE DEF done
  <2> QED
    BY <2>2, <2>3 DEF Consistent
<1> HIDE DEF Good
<1>6. 0 \in S /\ \A n \in 1..len : n - 1 \in S => n \in S
  BY <1>1, <1>4, <1>5
<1>7. \A n \in 0..len : n \in S
  <2> HIDE DEF S
  <2> QED
    BY <1>1, <1>6, BlockInduction
<1>8. \A n \in 0..len : Good(n)
  BY <1>7
<1> QED
  BY <1>1, <1>3, <1>8 DEF R, len, Good, no

\* Blocks without logs between two others change nothing.
LEMMA ReplayGap ==
    ASSUME NEW logs \in Chains, NEW from \in Nat, NEW to \in 0..Len(logs), from <= to,
           \A b \in (from + 1)..to : logs[b] = <<>>
    PROVE  SameRegistry(Replay(logs)[from], Replay(logs)[to])
<1> DEFINE R == Replay(logs)
           n == to - from
           S == {i \in 0..n : SameRegistry(R[from], R[from + i])}
           no == FALSE
<1> HIDE DEF no
<1>1. /\ Len(logs) \in Nat
      /\ \A i \in 1..Len(logs) : R[i] = process_block_logs(R[i - 1], logs[i], i, None, no).tx.disk
      /\ \A i \in 0..Len(logs) : TablesOK(R[i])
  BY ReplayFacts DEF no
<1>2. n \in Nat /\ from + 0 = from /\ from + n = to
  BY <1>1
<1> HIDE DEF R, n
<1>3. 0 \in S
  BY <1>2, SameFacts
<1>4. ASSUME NEW i \in 1..n, i - 1 \in S PROVE i \in S
  <2> DEFINE b == from + i
  <2>1. b \in 1..Len(logs) /\ b - 1 = from + (i - 1) /\ b \in (from + 1)..to /\ b - 1 \in 0..Len(logs)
    BY <1>1, <1>2
  <2>2. SameRegistry(R[from], R[b - 1])
    BY <1>4, <2>1
  <2> HIDE DEF b
  <2>3. logs[b] = <<>> /\ R[b] = process_block_logs(R[b - 1], <<>>, b, None, no).tx.disk /\ TablesOK(R[b - 1])
    <3>1. logs[b] = <<>>
      BY <2>1
    <3> QED
      BY <1>1, <2>1, <3>1
  <2>4. SameRegistry(R[b], R[b - 1])
    BY <2>3, EmptyBlock
  <2>5. SameRegistry(R[from], R[b])
    BY <2>2, <2>4, SameFacts
  <2> QED
    BY <2>5 DEF b
<1>5. \A i \in 0..n : i \in S
  <2> HIDE DEF S
  <2> QED
    BY <1>2, <1>3, <1>4, BlockInduction
<1>6. SameRegistry(R[from], R[from + n])
  BY <1>2, <1>5
<1> QED
  BY <1>2, <1>6 DEF R

---------------------------------------------------------------------------
(* The tables and one pass over the chain.                                 *)

LEMMA DiskSteps ==
    ASSUME [Next]_vars
    PROVE  /\ chain' = chain
           /\ orphaned => orphaned'
           /\ \/ disk' = disk
              \/ StoreIndices
              \/ \E p \in ProcIds : CommitBlock(p)
<1>1. CASE Mine
  BY <1>1 DEF Mine
<1>2. CASE ConnectionFails
  <2>1. chain' = chain /\ disk' = disk
    BY <1>2 DEF ConnectionFails
  <2>2. orphaned => orphaned'
    BY <1>2, Zenon DEF ConnectionFails
  <2> QED
    BY <2>1, <2>2
<1>3. CASE RequestIndices
  BY <1>3 DEF RequestIndices
<1>4. CASE RequestFails
  BY <1>4 DEF RequestFails
<1>5. CASE StoreIndices
  BY <1>5 DEF StoreIndices
<1>6. CASE Restart
  BY <1>6 DEF Restart
<1>7. CASE Sync
  <2>1. CASE historical_sync
    BY <2>1 DEF historical_sync
  <2>2. CASE FinishHistoricalSync
    BY <2>2 DEF FinishHistoricalSync
  <2>3. CASE StartBatches
    BY <2>3 DEF StartBatches
  <2>4. CASE BatchFetched
    BY <2>4 DEF BatchFetched
  <2>5. CASE BatchProcessed
    BY <2>5 DEF BatchProcessed
  <2>6. CASE BatchesDone
    BY <2>6 DEF BatchesDone
  <2>7. CASE HeaderReceived
    BY <2>7 DEF HeaderReceived
  <2>8. CASE LiveLogsFetched
    BY <2>8 DEF LiveLogsFetched
  <2>9. CASE LiveLogsProcessed
    BY <2>9 DEF LiveLogsProcessed
  <2>10. CASE ProcessorFailed
    BY <2>10 DEF ProcessorFailed
  <2> QED
    BY <1>7, <2>1, <2>2, <2>3, <2>4, <2>5, <2>6, <2>7, <2>8, <2>9, <2>10 DEF Sync
<1>8. ASSUME NEW p \in ProcIds, Process(p) \/ ConnectTimeout(p) \/ DatabaseFails(p)
      PROVE  chain' = chain /\ orphaned' = orphaned /\ (disk' = disk \/ CommitBlock(p))
  <2>1. CASE Connect(p) \/ PublishBlock(p) \/ ConnectTimeout(p)
    BY SMTT(60), <2>1 DEF Connect, PublishBlock, ConnectTimeout
  <2>2. CASE CommitBlock(p)
    BY <2>2 DEF CommitBlock
  <2>3. CASE ProcessLogs(p)
    BY <2>3 DEF ProcessLogs
  <2>4. CASE DatabaseFails(p)
    BY <2>4 DEF DatabaseFails
  <2> QED
    BY <1>8, <2>1, <2>2, <2>3, <2>4 DEF Process
<1>9. CASE UNCHANGED vars
  BY <1>9 DEF vars
<1> QED
  BY <1>1, <1>2, <1>3, <1>4, <1>5, <1>6, <1>7, <1>8, <1>9 DEF Next

LEMMA InReplayCommit ==
    ASSUME Sound, InStep, InReplay, NEW p \in ProcIds, CommitBlock(p)
    PROVE  InReplay'
<1>1. procs[p].status = "commit" /\ chain' = chain
  BY CommitFacts
<1>2. PICK block \in procs[p].blocks :
          /\ \A b \in procs[p].blocks : block <= b
          /\ block \in 1..tip /\ Logs(chain[block])
          /\ Committed(p, block)
  BY CommitFacts
<1>4. CASE Committed(p, block)
  <2> DEFINE L == disk.block_number
             R == Replay(chain)
             done == Done(p, block)
             no == FALSE
  <2> HIDE DEF no
  <2>1. /\ L < block /\ L \in Nat
        /\ \A b \in (L + 1)..(block - 1) : chain[b] = <<>>
    BY <1>1, <1>2, CommitInOrder
  <2>2. block \in 1..Len(chain) /\ Len(chain) \in Nat /\ chain \in Chains
    BY <1>2, LogsOfBlock DEF Sound, ChainOK
  <2>3. block - 1 \in 0..Len(chain) /\ L <= block - 1
    BY <2>1, <2>2
  <2>4. SameRegistry(R[L], R[block - 1])
    <3> DEFINE to == block - 1
    <3>1. to \in 0..Len(chain) /\ L <= to /\ L \in Nat /\ chain \in Chains /\ \A b \in (L + 1)..to : chain[b] = <<>>
      BY <2>1, <2>2, <2>3
    <3> HIDE DEF to, L
    <3>2. SameRegistry(R[L], R[to])
      BY <3>1, ReplayGap
    <3> QED
      BY <3>2 DEF to
  <2>5. SameRegistry(disk, R[block - 1])
    BY <2>4, SameFacts DEF InReplay
  <2>6. TablesOK(R[block - 1]) /\ R[block] = process_block_logs(R[block - 1], chain[block], block, None, no).tx.disk
    BY <2>2, <2>3, ReplayFacts DEF no
  <2>7. Consistent(mem, disk)
    BY <1>1, InTransaction
  <2> DEFINE f == R[block - 1]
             live == procs[p].live
             known == mem.id
  <2> HIDE DEF f, R, live, known
  <2>8. SameRegistry(process_block_logs(disk, chain[block], block, known, live).tx.disk,
                     process_block_logs(f, chain[block], block, None, no).tx.disk)
    <3>1. TablesOK(disk) /\ TablesOK(f) /\ SameRegistry(disk, f) /\ Logs(chain[block])
      BY <1>2, <2>5, <2>6, <2>7 DEF f, Consistent
    <3> QED
      BY <3>1, SameBlock
  <2>9. disk' = Done(p, block).tx.disk
    BY <1>4 DEF Committed
  <2>10. disk'.block_number = block
    <3>1. process_block_logs(disk, chain[block], block, known, live).tx.disk.block_number = block
      BY <1>2, <2>7, ProcessBlock
    <3> QED
      BY <2>9, <3>1 DEF Done, known, live
  <2>11. SameRegistry(disk', R[block])
    BY <2>6, <2>8, <2>9 DEF Done, known, live, f
  <2> QED
    BY <1>1, <2>10, <2>11 DEF InReplay, R
<1> QED
  BY <1>2, <1>4

LEMMA InReplayNext ==
    ASSUME Sound, InStep, InReplay, [Next]_vars
    PROVE  InReplay'
<1>1. /\ chain' = chain
      /\ disk' = disk \/ StoreIndices \/ \E p \in ProcIds : CommitBlock(p)
  BY DiskSteps
<1>2. CASE disk' = disk
  BY <1>1, <1>2 DEF InReplay
<1>3. CASE StoreIndices
  BY <1>1, <1>3, StoreFacts, SameFacts DEF InReplay
<1>4. CASE \E p \in ProcIds : CommitBlock(p)
  BY <1>4, InReplayCommit
<1> QED
  BY <1>1, <1>2, <1>3, <1>4

LEMMA InReplayInit == Init => InReplay
<1> SUFFICES ASSUME Init PROVE InReplay
  OBVIOUS
<1>1. disk = EmptyDisk /\ chain \in Chains
  BY DEF Init
<1>2. Replay(chain)[0] = EmptyDisk
  BY <1>1, ReplayFacts
<1>3. EmptyDisk.block_number = 0
  BY EmptyTables
<1> QED
  BY <1>1, <1>2, <1>3, SameFacts DEF InReplay

\* As long as no processor was left running, the syncer, its processor and the
\* tables agree on what is next.
Followed == orphaned \/ (InStep /\ InReplay)

LEMMA FollowedNext == Sound /\ Followed /\ [Next]_vars => Followed'
<1> SUFFICES ASSUME Sound, Followed, [Next]_vars, ~orphaned' PROVE InStep' /\ InReplay'
  BY DEF Followed
<1>1. InStep /\ InReplay
  BY DiskSteps DEF Followed
<1> QED
  BY <1>1, InStepNext, InReplayNext

\* Two databases with the same registry and the same last block differ in indices only.
LEMMA SameWithoutIndices ==
    ASSUME NEW d, NEW f, TablesOK(d), TablesOK(f), SameRegistry(d, f), d.block_number = f.block_number
    PROVE  WithoutIndices(d) = WithoutIndices(f)
<1> DEFINE V(x) == [v \in DOMAIN x.validators |-> x.validators[v].cluster]
<1>1. ASSUME NEW x, TablesOK(x)
      PROVE  WithoutIndices(x) = Tables(x.block_number, x.max_operator_id_seen, x.operators, x.skipped_operator_adds,
                                        x.owners, x.clusters, V(x))
  <2> DEFINE val == V(x)
  <2>1. WithoutIndices(x) = [x EXCEPT !.validators = val]
    BY DEF WithoutIndices
  <2>2. x = Tables(x.block_number, x.max_operator_id_seen, x.operators, x.skipped_operator_adds, x.owners, x.clusters, x.validators)
    BY <1>1 DEF TablesOK
  <2> HIDE DEF val
  <2>3. WithoutIndices(x) = Tables(x.block_number, x.max_operator_id_seen, x.operators, x.skipped_operator_adds,
                                        x.owners, x.clusters, val)
    BY <2>1, <2>2 DEF Tables
  <2> QED
    BY <2>3 DEF val
<1>2. V(d) = V(f)
  BY DEF SameRegistry
<1> HIDE DEF V
<1> QED
  BY <1>1, <1>2 DEF SameRegistry

(***************************************************************************)
(* The tables are what one pass over the contract's logs up to the last    *)
(* processed block gives, for every chain, batch size and fetch window:    *)
(* historical_sync and live_sync hand each block with logs to a processor  *)
(* once and in order, whatever connections fail and wherever the process   *)
(* stops between the commit of a block and its publication.                *)
(***************************************************************************)
THEOREM SpecRegistryMatchesChain == Spec => []RegistryMatchesChain
<1>1. Init => Followed
  BY InStepInit, InReplayInit DEF Followed
<1>2. Sound /\ Followed => RegistryMatchesChain
  <2> SUFFICES ASSUME Sound, InReplay PROVE DiskMatchesChain
    BY DEF Followed, RegistryMatchesChain
  <2> DEFINE L == disk.block_number
             R == Replay(chain)
  <2>1. chain \in Chains /\ L \in 0..tip /\ tip \in 0..Len(chain) /\ TablesOK(disk)
    BY DEF Sound, ChainOK, StoreOK, Consistent
  <2>2. Len(chain) \in Nat
    BY <2>1, ReplayFacts
  <2>3. L \in 0..Len(chain)
    BY <2>1, <2>2
  <2>4. TablesOK(R[L]) /\ R[L].block_number = L /\ SameRegistry(disk, R[L])
    BY <2>1, <2>3, ReplayFacts DEF InReplay
  <2>5. Replayed[chain] = R
    BY <2>1 DEF Replayed
  <2> HIDE DEF R
  <2>6. WithoutIndices(disk) = WithoutIndices(R[L])
    BY <2>1, <2>4, SameWithoutIndices
  <2> QED
    BY <2>5, <2>6 DEF DiskMatchesChain
<1> QED
  BY <1>1, <1>2, SpecSound, FollowedNext, PTL DEF Spec

---------------------------------------------------------------------------
(* Exit requests.                                                          *)

LEMMA ConcatFacts ==
    ASSUME NEW s, NEW t, IsSeq(s), IsSeq(t)
    PROVE  /\ IsSeq(s \o t) /\ Len(s) \in Nat /\ Len(t) \in Nat /\ Len(s \o t) = Len(s) + Len(t)
           /\ \A i \in 1..Len(s) : (s \o t)[i] = s[i]
           /\ \A i \in 1..Len(t) : (s \o t)[Len(s) + i] = t[i]
<1> DEFINE T == Range(s) \union Range(t)
<1>1. s \in Seq(T) /\ t \in Seq(T)
  BY DEF IsSeq, Range
<1> HIDE DEF T
<1>2. /\ s \o t \in Seq(T) /\ Len(s) \in Nat /\ Len(t) \in Nat /\ Len(s \o t) = Len(s) + Len(t)
  BY <1>1
<1>3. /\ \A i \in 1..Len(s) : (s \o t)[i] = s[i]
      /\ \A i \in 1..Len(t) : (s \o t)[Len(s) + i] = t[i]
  BY <1>1
<1>4. IsSeq(s \o t)
  <2> DEFINE u == s \o t
  <2>1. u \in Seq(T)
    BY <1>2
  <2> HIDE DEF u
  <2>2. IsSeq(u)
    BY <2>1 DEF IsSeq, Range
  <2> QED
    BY <2>2 DEF u
<1> QED
  BY <1>2, <1>3, <1>4

LEMMA RequestedLater ==
    ASSUME NEW logs, NEW requests, NEW a \in Int, NEW b \in Int, a <= b, Requested(logs, requests, a)
    PROVE  Requested(logs, requests, b)
<1>1. PICK f \in [1..Len(requests) -> Nat \X Nat] :
          /\ \A j, k \in 1..Len(requests) : f[j] = f[k] => j = k
          /\ \A k \in 1..Len(requests) : ExitAt(logs, f[k], requests[k]) /\ f[k][1] <= a
  BY DEF Requested
<1>2. \A k \in 1..Len(requests) : f[k][1] \in Nat
  OBVIOUS
<1>3. \A k \in 1..Len(requests) : f[k][1] <= b
  BY <1>1, <1>2
<1> QED
  BY <1>1, <1>3 DEF Requested

LEMMA RequestedMore ==
    ASSUME NEW logs, NEW s, NEW t, IsSeq(s), IsSeq(t), NEW L \in 1..Len(logs), Len(logs) \in Nat, Len(logs[L]) \in Nat,
           Requested(logs, s, L - 1), ExitsFrom(logs[L], t, Len(logs[L]))
    PROVE  Requested(logs, s \o t, L)
<1> DEFINE all == s \o t
           a == Len(s)
           b == Len(t)
<1>1. /\ a \in Nat /\ b \in Nat /\ Len(all) = a + b
      /\ \A i \in 1..a : all[i] = s[i]
      /\ \A i \in 1..b : all[a + i] = t[i]
  BY ConcatFacts
<1>2. PICK f \in [1..a -> Nat \X Nat] :
          /\ \A j, k \in 1..a : f[j] = f[k] => j = k
          /\ \A k \in 1..a : ExitAt(logs, f[k], s[k]) /\ f[k][1] <= L - 1
  BY DEF Requested
<1>3. PICK g \in [1..b -> 1..Len(logs[L])] :
          /\ \A j, k \in 1..b : g[j] = g[k] => j = k
          /\ \A k \in 1..b : logs[L][g[k]].type = "ValidatorExited" /\ logs[L][g[k]].validator = t[k]
  BY DEF ExitsFrom
<1> HIDE DEF all, a, b
<1> DEFINE h == [k \in 1..(a + b) |-> IF k <= a THEN f[k] ELSE <<L, g[k - a]>>]
<1>4. \A k \in 1..a : k \in 1..(a + b) /\ h[k] = f[k] /\ h[k][1] < L /\ h[k] \in Nat \X Nat
  <2> TAKE k \in 1..a
  <2>1. k \in 1..(a + b) /\ k <= a
    BY <1>1
  <2>2. h[k] = f[k]
    BY <2>1
  <2>3. f[k][1] \in Nat /\ f[k] \in Nat \X Nat /\ f[k][1] <= L - 1
    BY <1>2
  <2> HIDE DEF h
  <2> QED
    BY <2>1, <2>2, <2>3
<1>5. \A k \in 1..b : a + k \in 1..(a + b) /\ h[a + k] = <<L, g[k]>> /\ h[a + k][1] = L /\ h[a + k][2] = g[k]
                      /\ h[a + k] \in Nat \X Nat
  <2> TAKE k \in 1..b
  <2>1. a + k \in 1..(a + b) /\ ~(a + k <= a) /\ (a + k) - a = k
    BY <1>1
  <2>2. h[a + k] = <<L, g[k]>>
    BY <2>1
  <2>3. L \in Nat /\ g[k] \in Nat
    BY <1>3
  <2> HIDE DEF h
  <2> QED
    BY <2>1, <2>2, <2>3
<1>6. \A k \in 1..(a + b) : k \in 1..a \/ \E i \in 1..b : k = a + i
  <2> TAKE k \in 1..(a + b)
  <2>1. CASE k <= a
    BY <1>1, <2>1
  <2>2. CASE k > a
    <3>1. k - a \in 1..b /\ k = a + (k - a)
      BY <1>1, <2>2
    <3> QED
      BY <3>1
  <2> QED
    BY <1>1, <2>1, <2>2
<1>7. h = [k \in 1..(a + b) |-> h[k]]
  OBVIOUS
<1> HIDE DEF h
<1>8. h \in [1..(a + b) -> Nat \X Nat]
  <2>1. \A k \in 1..(a + b) : h[k] \in Nat \X Nat
    BY <1>4, <1>5, <1>6
  <2> DEFINE D == 1..(a + b)
             N == Nat \X Nat
  <2>2. h = [k \in D |-> h[k]] /\ \A k \in D : h[k] \in N
    BY <1>7, <2>1
  <2> HIDE DEF D, N
  <2>3. h \in [D -> N]
    BY <2>2
  <2> QED
    BY <2>3 DEF D, N
<1>9. ASSUME NEW j \in 1..(a + b), NEW k \in 1..(a + b), h[j] = h[k] PROVE j = k
  <2>1. CASE j \in 1..a /\ k \in 1..a
    BY <1>2, <1>4, <1>9, <2>1
  <2>2. ASSUME NEW x \in 1..b, j = a + x, NEW y \in 1..b, k = a + y PROVE j = k
    BY <1>3, <1>5, <1>9, <2>2
  <2>3. ASSUME NEW x \in 1..a, NEW y \in 1..b, h[x] = h[a + y] PROVE FALSE
    BY <1>4, <1>5, <2>3
  <2> QED
    BY <1>6, <1>9, <2>1, <2>2, <2>3
<1>10. ASSUME NEW k \in 1..(a + b) PROVE ExitAt(logs, h[k], all[k]) /\ h[k][1] <= L
  <2>1. CASE k \in 1..a
    <3>1. ExitAt(logs, f[k], s[k]) /\ h[k] = f[k] /\ all[k] = s[k] /\ h[k][1] < L /\ h[k][1] \in Nat
      BY <1>1, <1>2, <1>4, <2>1
    <3> QED
      BY <3>1
  <2>2. ASSUME NEW i \in 1..b, k = a + i PROVE ExitAt(logs, h[k], all[k]) /\ h[k][1] <= L
    <3>1. h[k][1] = L /\ h[k][2] = g[i] /\ all[k] = t[i] /\ g[i] \in 1..Len(logs[L])
      BY <1>1, <1>3, <1>5, <2>2
    <3> QED
      BY <1>3, <3>1 DEF ExitAt
  <2> QED
    BY <1>6, <2>1, <2>2
<1>11. Requested(logs, all, L)
  BY <1>1, <1>8, <1>9, <1>10 DEF Requested
<1> QED
  BY <1>11 DEF all

LEMMA ImageFinite ==
    ASSUME NEW S, IsFiniteSet(S), NEW f, f = [x \in S |-> f[x]]
    PROVE  IsFiniteSet({f[x] : x \in S})
<1> DEFINE T == {f[x] : x \in S}
<1>1. f \in Surjection(S, T)
  BY DEF Surjection
<1> QED
  BY <1>1, FS_Surjection

LEMMA ExitLogsFinite ==
    ASSUME ChainOK, NEW v
    PROVE  IsFiniteSet(ExitLogs(v))
<1> DEFINE K(b) == {j \in DOMAIN chain[b] : chain[b][j].type = "ValidatorExited" /\ chain[b][j].validator = v}
           P(b) == {<<b, k>> : k \in K(b)}
           n == Len(chain)
<1>1. /\ n \in Nat
      /\ \A b \in 1..n : Len(chain[b]) \in Nat /\ DOMAIN chain[b] = 1..Len(chain[b])
  <2>1. chain \in Seq(Range(chain)) /\ \A b \in DOMAIN chain : chain[b] \in Seq(Range(chain[b]))
    BY ChainAssumption DEF ChainOK
  <2> QED
    BY <2>1
<1>2. ASSUME NEW b \in 1..n PROVE IsFiniteSet(P(b))
  <2> DEFINE len == Len(chain[b])
  <2>0. len \in Nat /\ K(b) \in SUBSET (1..len)
    BY <1>1
  <2> HIDE DEF len
  <2>1. IsFiniteSet(1..len) /\ K(b) \in SUBSET (1..len)
    BY <2>0, FS_Interval
  <2>2. IsFiniteSet(K(b))
    BY <2>1, FS_Subset
  <2> DEFINE f == [k \in K(b) |-> <<b, k>>]
             A == K(b)
  <2>3. P(b) = {f[k] : k \in A} /\ f = [k \in A |-> f[k]]
    OBVIOUS
  <2>4. IsFiniteSet(A)
    BY <2>2
  <2> HIDE DEF f, A
  <2>5. IsFiniteSet({f[k] : k \in A})
    BY <2>3, <2>4, ImageFinite
  <2> QED
    BY <2>3, <2>5
<1> DEFINE g == [b \in 1..n |-> P(b)]
           F == {P(b) : b \in 1..n}
<1>3. F = {g[b] : b \in 1..n} /\ g = [b \in 1..n |-> g[b]]
  OBVIOUS
<1>4. \A T \in F : IsFiniteSet(T)
  BY <1>2
<1>5. ExitLogs(v) = UNION F
  BY DEF ExitLogs, MaxBlock
<1> HIDE DEF g, F, P, n
<1>6. IsFiniteSet(F)
  BY <1>1, <1>3, FS_Interval, ImageFinite
<1> QED
  BY <1>4, <1>5, <1>6, FS_UNION

LEMMA RequestsBounded ==
    ASSUME ChainOK, NEW upto, IsSeq(exits), Requested(chain, exits, upto), NEW v
    PROVE  Cardinality({k \in DOMAIN exits : exits[k] = v}) <= Cardinality(ExitLogs(v))
<1> DEFINE A == {k \in DOMAIN exits : exits[k] = v}
           n == Len(exits)
<1>1. n \in Nat /\ DOMAIN exits = 1..n
  BY DEF IsSeq
<1>2. PICK f \in [1..n -> Nat \X Nat] :
          /\ \A j, k \in 1..n : f[j] = f[k] => j = k
          /\ \A k \in 1..n : ExitAt(chain, f[k], exits[k])
  BY DEF Requested
<1>3. \A b \in 1..Len(chain) : DOMAIN chain[b] = 1..Len(chain[b])
  <2>1. chain \in Seq(Range(chain)) /\ \A b \in DOMAIN chain : chain[b] \in Seq(Range(chain[b]))
    BY ChainAssumption DEF ChainOK
  <2> QED
    BY <2>1
<1> DEFINE g == [k \in A |-> f[k]]
<1>4. ASSUME NEW k \in A PROVE f[k] \in ExitLogs(v)
  <2>1. k \in 1..n /\ ExitAt(chain, f[k], v) /\ f[k] \in Nat \X Nat
    BY <1>1, <1>2
  <2>2. PICK b, j : f[k] = <<b, j>>
    BY <2>1
  <2>3. b \in 1..Len(chain) /\ j \in DOMAIN chain[b] /\ chain[b][j].type = "ValidatorExited" /\ chain[b][j].validator = v
    BY <1>3, <2>1, <2>2 DEF ExitAt
  <2> QED
    BY <2>2, <2>3 DEF ExitLogs, MaxBlock
<1>5. g \in Injection(A, ExitLogs(v))
  <2>1. g \in [A -> ExitLogs(v)]
    BY <1>4
  <2>2. \A a, b \in A : g[a] = g[b] => a = b
    BY <1>1, <1>2
  <2>3. DOMAIN g = A
    OBVIOUS
  <2> HIDE DEF g, A
  <2> QED
    BY <2>1, <2>2, <2>3 DEF Injection, IsInjective
<1> HIDE DEF A, g
<1>6. Cardinality(A) <= Cardinality(ExitLogs(v))
  BY <1>5, ExitLogsFinite, FS_Injection
<1> QED
  BY <1>6 DEF A

\* The steps that neither write tables nor publish.
LEMMA QuietNext ==
    ASSUME Sound, [Next]_vars
    PROVE  \/ Unseen /\ disk' = disk /\ exits' = exits
           \/ StoreIndices
           \/ Restart
           \/ \E p \in ProcIds : CommitBlock(p) \/ PublishBlock(p)
<1>1. CASE Mine
  BY <1>1, SoundMine DEF Mine
<1>2. CASE historical_sync \/ FinishHistoricalSync \/ StartBatches \/ BatchesDone \/ HeaderReceived
  BY <1>2, SoundHistorical DEF historical_sync, FinishHistoricalSync, StartBatches, BatchesDone, HeaderReceived
<1>3. CASE BatchFetched
  BY <1>3, SoundBatchFetched DEF BatchFetched
<1>4. CASE BatchProcessed
  BY <1>4, SoundBatchProcessed DEF BatchProcessed
<1>5. CASE LiveLogsFetched
  BY <1>5, SoundLiveFetched DEF LiveLogsFetched
<1>6. CASE LiveLogsProcessed
  BY <1>6, SoundLiveProcessed DEF LiveLogsProcessed
<1>7. CASE ProcessorFailed
  BY <1>7, SoundProcessorFailed DEF ProcessorFailed
<1>8. CASE ConnectionFails
  BY <1>8, SoundConnectionFails DEF ConnectionFails
<1>9. ASSUME NEW p \in ProcIds, Process(p) \/ ConnectTimeout(p) \/ DatabaseFails(p)
      PROVE  (Unseen /\ disk' = disk /\ exits' = exits) \/ CommitBlock(p) \/ PublishBlock(p)
  <2>1. CASE Connect(p)
    BY <2>1, SoundConnect, ConnectFacts
  <2>2. CASE ConnectTimeout(p)
    BY <2>2, SoundTimeout, TimeoutFacts
  <2>3. CASE ProcessLogs(p) \/ DatabaseFails(p)
    BY <2>3, SoundLogs, LogsFacts
  <2> QED
    BY <1>9, <2>1, <2>2, <2>3 DEF Process
<1>10. CASE RequestIndices \/ RequestFails
  BY <1>10, SoundRequests DEF RequestIndices, RequestFails
<1>11. CASE UNCHANGED vars
  BY <1>11, SoundStutter DEF vars
<1> QED
  BY <1>1, <1>2, <1>3, <1>4, <1>5, <1>6, <1>7, <1>8, <1>9, <1>10, <1>11 DEF Next, Sync

LEMMA ExitsInit == Init => ExitsOK
<1> SUFFICES ASSUME Init PROVE ExitsOK
  OBVIOUS
<1>1. exits = <<>> /\ conn = None /\ disk = EmptyDisk
  BY DEF Init
<1>2. disk.block_number = 0 /\ ~Publishing /\ IsSeq(exits) /\ Len(exits) = 0
  BY <1>1, EmptyTables, EmptySeq DEF Publishing
<1>3. Requested(chain, exits, 0)
  <2> DEFINE f == [k \in 1..0 |-> <<0, 0>>]
  <2>1. f \in [1..0 -> Nat \X Nat] /\ 1..0 = {}
    OBVIOUS
  <2>2. f \in [1..Len(exits) -> Nat \X Nat] /\ 1..Len(exits) = {}
    BY <1>2, <2>1
  <2> HIDE DEF f
  <2> QED
    BY <2>2, Zenon DEF Requested
<1> QED
  BY <1>2, <1>3 DEF ExitsOK

LEMMA ExitsCommit ==
    ASSUME Sound, InStep, ExitsOK, NEW p \in ProcIds, CommitBlock(p)
    PROVE  ExitsOK'
<1>1. procs[p].status = "commit" /\ chain' = chain /\ exits' = exits /\ mem' = mem
  BY CommitFacts
<1>2. PICK block \in procs[p].blocks :
          /\ \A b \in procs[p].blocks : block <= b
          /\ block \in 1..tip /\ Logs(chain[block])
          /\ Committed(p, block)
  BY CommitFacts
<1>3. ~Publishing /\ Consistent(mem, disk)
  BY <1>1, InTransaction
<1> DEFINE L == disk.block_number
<1>4. IsSeq(exits) /\ Requested(chain, exits, L)
  BY <1>3 DEF ExitsOK
<1>6. CASE Committed(p, block)
  <2> DEFINE done == Done(p, block)
  <2>1. Publishing' /\ procs'[conn'].exits = done.exits
    BY <1>1, <1>6, CommitVisible
  <2>2. /\ ContextOK(done) /\ done.tx.disk.block_number = block
        /\ ExitsFrom(chain[block], done.exits, Len(chain[block]))
    BY <1>2, <1>3, ProcessBlock DEF Done
  <2>3. disk' = done.tx.disk
    BY <1>6 DEF Committed
  <2> HIDE DEF done
  <2>4. IsSeq(done.exits) /\ disk'.block_number = block
    BY <2>2, <2>3 DEF ContextOK
  <2>5. L < block /\ L \in Nat
    BY <1>1, <1>2, CommitInOrder
  <2>6. block \in 1..Len(chain) /\ Len(chain) \in Nat
    BY <1>2, LogsOfBlock DEF Sound
  <2>7. Requested(chain, exits, block - 1)
    <3>1. block - 1 \in Int /\ L \in Int /\ L <= block - 1
      BY <2>5, <2>6
    <3> DEFINE b == block - 1
    <3> HIDE DEF b, L
    <3>2. b \in Int /\ L \in Int /\ L <= b /\ Requested(chain, exits, L)
      BY <1>4, <3>1 DEF b
    <3>3. Requested(chain, exits, b)
      BY <3>2, RequestedLater
    <3> QED
      BY <3>3 DEF b
  <2> QED
    BY <1>1, <1>4, <2>1, <2>2, <2>4, <2>6, <2>7 DEF ExitsOK
<1> QED
  BY <1>2, <1>6

LEMMA ExitsPublish ==
    ASSUME Sound, ExitsOK, NEW p \in ProcIds, PublishBlock(p)
    PROVE  ExitsOK'
<1> DEFINE L == disk.block_number
           new == procs[p].exits
<1>1. conn = p /\ Publishing /\ exits' = exits \o new /\ chain' = chain /\ disk' = disk
  BY PublishFacts
<1>2. ~Publishing'
  BY SoundPublish
<1>3. /\ IsSeq(exits) /\ IsSeq(new) /\ Requested(chain, exits, L - 1) /\ L \in 1..Len(chain)
      /\ ExitsFrom(chain[L], new, Len(chain[L]))
  BY <1>1 DEF ExitsOK
<1>4. Len(chain) \in Nat /\ Len(chain[L]) \in Nat
  <2>1. chain \in Chains
    BY DEF Sound, ChainOK
  <2>2. Logs(chain[L]) /\ Len(chain) \in Nat
    BY <1>3, <2>1, ReplayFacts
  <2> QED
    BY <2>2, LogsShape
<1> HIDE DEF L, new
<1>5. Requested(chain, exits \o new, L) /\ IsSeq(exits \o new)
  BY <1>3, <1>4, RequestedMore, ConcatFacts
<1> QED
  BY <1>1, <1>2, <1>5 DEF ExitsOK, L

LEMMA ExitsNext ==
    ASSUME Sound, InStep, ExitsOK, [Next]_vars
    PROVE  ExitsOK'
<1>1. chain' = chain
  BY DiskSteps
<1>2. CASE Unseen /\ disk' = disk /\ exits' = exits
  BY <1>1, <1>2 DEF Unseen, ExitsOK
<1>3. CASE StoreIndices
  BY <1>1, <1>3, StoreFacts DEF ExitsOK
<1>4. CASE Restart
  <2> DEFINE L == disk.block_number
  <2>1. ~Publishing' /\ disk' = disk /\ exits' = exits
    BY <1>4, RestartFacts
  <2>2. L \in 0..tip /\ tip \in 0..Len(chain) /\ Len(chain) \in Nat
    <3>1. L \in 0..tip /\ tip \in 0..Len(chain) /\ chain \in Chains
      BY DEF Sound, StoreOK, ChainOK
    <3> QED
      BY <3>1, ReplayFacts
  <2>3. L \in Int /\ L - 1 \in Int /\ L - 1 <= L
    BY <2>2
  <2>4. Requested(chain, exits, L)
    <3> DEFINE b == L - 1
    <3>1. b \in Int /\ b <= L /\ L \in Int
      BY <2>3
    <3>2. Requested(chain, exits, b) \/ Requested(chain, exits, L)
      BY DEF ExitsOK
    <3> HIDE DEF b, L
    <3> QED
      BY <3>1, <3>2, RequestedLater
  <2> QED
    BY <1>1, <2>1, <2>4 DEF ExitsOK
<1>5. ASSUME NEW p \in ProcIds, CommitBlock(p) \/ PublishBlock(p) PROVE ExitsOK'
  BY <1>5, ExitsCommit, ExitsPublish
<1> QED
  BY <1>2, <1>3, <1>4, <1>5, QuietNext

(***************************************************************************)
(* No ValidatorExited log leads to two exit requests, for every chain: a   *)
(* block's exits are sent when it is published, after the transaction that *)
(* moves the last processed block past it, so that neither an error of the *)
(* syncer nor a restart brings the block back.                             *)
(***************************************************************************)
THEOREM SpecExitsRequestedOnce == Spec => []ExitsRequestedOnce
<1> DEFINE Inv == Followed /\ (orphaned \/ ExitsOK)
<1>1. Init => Inv
  BY InStepInit, InReplayInit, ExitsInit DEF Followed
<1>2. Sound /\ Inv /\ [Next]_vars => Inv'
  <2> SUFFICES ASSUME Sound, Inv, [Next]_vars PROVE Inv'
    OBVIOUS
  <2>1. Followed'
    BY FollowedNext
  <2>2. ASSUME ~orphaned' PROVE ExitsOK'
    <3>1. ~orphaned
      BY <2>2, DiskSteps
    <3> QED
      BY <3>1, ExitsNext DEF Followed
  <2> QED
    BY <2>1, <2>2
<1>3. Sound /\ Inv => ExitsRequestedOnce
  <2> SUFFICES ASSUME Sound, ExitsOK, NEW v
               PROVE  Cardinality({k \in DOMAIN exits : exits[k] = v}) <= Cardinality(ExitLogs(v))
    BY DEF ExitsRequestedOnce
  <2> DEFINE upto == IF Publishing THEN disk.block_number - 1 ELSE disk.block_number
  <2>1. ChainOK /\ IsSeq(exits) /\ Requested(chain, exits, upto)
    BY DEF Sound, ExitsOK
  <2> HIDE DEF upto
  <2> QED
    BY <2>1, RequestsBounded
<1> QED
  BY <1>1, <1>2, <1>3, SpecSound, PTL DEF Spec

---------------------------------------------------------------------------
(* What a restart would rebuild.                                           *)

LEMMA OwnRebuilt ==
    ASSUME NEW m, NEW d, Consistent(m, d), NEW own, OwnMirrors(m, d, own)
    PROVE  LET r == new_with_state(d)
           IN  OwnMirrors(r, d, own) /\ (r.id # None => r.id = m.id)
<1> DEFINE r == new_with_state(d)
<1>1. TablesOK(d)
  BY DEF Consistent
<1>2. r.id = own_operator(d) /\ r.shares = fetch_shares(d, r.id) /\ r.own_clusters = {d.validators[v].cluster : v \in r.shares}
  BY <1>1, NewWithState
<1> HIDE DEF r
<1>3. r.id = IF OwnIds(d) = {} THEN None ELSE CHOOSE id \in OwnIds(d) : TRUE
  BY <1>2 DEF own_operator, OwnIds
<1>4. None \notin OwnIds(d) /\ None \notin DOMAIN d.operators
  BY <1>1, OperatorIds, SyncAssumption DEF OwnIds
<1>5. OwnIds(d) \subseteq {m.id}
  BY DEF OwnMirrors
<1>6. CASE OwnIds(d) = {}
  <2>1. r.id = None
    BY <1>3, <1>6
  <2> QED
    BY <1>2, <1>4, <1>6, <2>1 DEF OwnMirrors, fetch_shares, r
<1>7. CASE OwnIds(d) # {}
  <2>1. r.id = m.id /\ r.id # None
    BY <1>3, <1>4, <1>5, <1>7
  <2> QED
    BY <1>2, <2>1 DEF OwnMirrors, fetch_shares, r
<1> QED
  BY <1>6, <1>7

LEMMA OwnRegistered ==
    ASSUME NEW logs, NEW b \in DOMAIN logs, NEW k \in DOMAIN logs[b], logs[b][k].type = "OperatorAdded", logs[b][k].key = OwnKey
    PROVE  logs[b][k].id \in OwnRegistrations(logs)
BY DEF OwnRegistrations

\* The operator's own part of memory, once a block is published.
LEMMA OwnCommit ==
    ASSUME Sound, OwnOK, \A a, b \in OwnRegistrations(chain) : a = b, NEW p \in ProcIds, CommitBlock(p)
    PROVE  OwnOK'
<1>1. procs[p].status = "commit" /\ chain' = chain /\ mem' = mem
  BY CommitFacts
<1>2. PICK block \in procs[p].blocks :
          block \in 1..tip /\ Logs(chain[block]) /\ Committed(p, block)
  BY CommitFacts
<1>3. ~Publishing /\ Visible = mem /\ Consistent(mem, disk)
  BY <1>1, InTransaction
<1> DEFINE own == OwnRegistrations(chain)
           live == procs[p].live
           known == mem.id
           logs == chain[block]
           last == LogContexts(disk, logs, known, live)[Len(logs)]
           done == process_block_logs(disk, logs, block, known, live)
<1>4. OwnMirrors(mem, disk, own)
  BY <1>3 DEF OwnOK
<1>6. CASE Committed(p, block)
  <2>1. \A k \in DOMAIN logs : logs[k].type = "OperatorAdded" /\ logs[k].key = OwnKey => logs[k].id \in own
    BY <1>2, LogsOfBlock, OwnRegistered DEF Sound
  <2>2. /\ Consistent(mem, disk) /\ Logs(logs) /\ OwnMirrors(mem, disk, own) /\ \A a, b \in own : a = b
        /\ known # None => mem.id = known
    BY <1>2, <1>3, <1>4
  <2>3. Visible' = Published(mem, done.tx) /\ disk' = done.tx.disk
    BY <1>1, <1>6, CommitVisible DEF Committed, Done
  <2> HIDE DEF own, known, logs, live
  <2>4. \A i \in 0..Len(logs) : OwnMirrors(Published(mem, LogContexts(disk, logs, known, live)[i].tx),
                                           LogContexts(disk, logs, known, live)[i].tx.disk, own)
    BY <2>1, <2>2, BlockOwn
  <2>5. Len(logs) \in 0..Len(logs)
    BY <2>2, LogsShape
  <2>6. OwnMirrors(Published(mem, last.tx), last.tx.disk, own)
    BY <2>4, <2>5
  <2>7. OwnMirrors(Published(mem, done.tx), done.tx.disk, own)
    BY <2>2, <2>6, LastContext
  <2> HIDE DEF done
  <2> QED
    BY <1>1, <2>3, <2>7 DEF OwnOK, own
<1> QED
  BY <1>2, <1>6

LEMMA OwnNext ==
    ASSUME Sound, OwnOK, \A a, b \in OwnRegistrations(chain) : a = b, [Next]_vars
    PROVE  OwnOK'
<1>1. chain' = chain
  BY DiskSteps
<1>2. CASE Unseen /\ disk' = disk /\ exits' = exits
  BY <1>1, <1>2 DEF Unseen, OwnOK
<1>3. CASE StoreIndices
  BY <1>1, <1>3, StoreFacts DEF OwnOK
<1>4. CASE Restart
  <2>1. disk' = disk /\ Visible' = new_with_state(disk) /\ Consistent(Visible, disk)
    BY <1>4, RestartFacts DEF Sound, StoreOK
  <2> DEFINE own == OwnRegistrations(chain)
  <2>2. OwnMirrors(Visible, disk, own)
    BY DEF OwnOK
  <2> HIDE DEF own
  <2>3. OwnMirrors(new_with_state(disk), disk, own)
    BY <2>1, <2>2, OwnRebuilt
  <2> QED
    BY <1>1, <2>1, <2>3 DEF OwnOK, own
<1>5. ASSUME NEW p \in ProcIds, CommitBlock(p) \/ PublishBlock(p) PROVE OwnOK'
  <2>1. CASE CommitBlock(p)
    BY <2>1, OwnCommit
  <2>2. CASE PublishBlock(p)
    <3>1. Visible' = Visible /\ disk' = disk
      BY <2>2, SoundPublish, PublishFacts
    <3> QED
      BY <1>1, <3>1 DEF OwnOK
  <2> QED
    BY <1>5, <2>1, <2>2
<1> QED
  BY <1>2, <1>3, <1>4, <1>5, QuietNext

LEMMA OwnInit == Init => OwnOK
<1> SUFFICES ASSUME Init PROVE OwnOK
  OBVIOUS
<1>1. disk = EmptyDisk /\ mem = new_with_state(EmptyDisk) /\ conn = None
  BY DEF Init
<1>2. Visible = mem
  BY <1>1 DEF Visible, Publishing
<1>3. TablesOK(EmptyDisk) /\ DOMAIN EmptyDisk.validators = {} /\ DOMAIN EmptyDisk.operators = {}
  BY EmptyTables DEF EmptyDisk
<1> DEFINE d == EmptyDisk
           m == new_with_state(EmptyDisk)
           own == OwnRegistrations(chain)
<1>4. m.id = own_operator(d) /\ m.shares = fetch_shares(d, m.id) /\ m.own_clusters = {d.validators[v].cluster : v \in m.shares}
  BY <1>3, NewWithState
<1> HIDE DEF m, d, own
<1>5. m.id = None /\ OwnIds(d) = {}
  BY <1>3, <1>4 DEF own_operator, OwnIds, d
<1>6. OwnMirrors(m, d, own)
  BY <1>3, <1>4, <1>5 DEF OwnMirrors, fetch_shares, d
<1> QED
  BY <1>1, <1>2, <1>6 DEF OwnOK, own, m, d

---------------------------------------------------------------------------
(* The liquidated flags.                                                   *)

IsTables(d) == d = Tables(d.block_number, d.max_operator_id_seen, d.operators, d.skipped_operator_adds, d.owners,
                          d.clusters, d.validators)

\* The tables' updates, by the fields they replace.
SetMax(d, x) == [d EXCEPT !.max_operator_id_seen = x]
SetOperators(d, x) == [d EXCEPT !.operators = x]
SetSkipped(d, x) == [d EXCEPT !.skipped_operator_adds = x]
SetOwners(d, x) == [d EXCEPT !.owners = x]
SetClusters(d, x) == [d EXCEPT !.clusters = x]
SetAdded(d, x, y, z) == [d EXCEPT !.clusters = x, !.validators = y, !.owners = z]
SetDeleted(d, x, y, z) == [d EXCEPT !.validators = y, !.clusters = x, !.operators = z]

LEMMA ClustersSet ==
    ASSUME NEW d, IsTables(d)
    PROVE  /\ \A x : IsTables(SetMax(d, x)) /\ SetMax(d, x).clusters = d.clusters
           /\ \A x : IsTables(SetOwners(d, x)) /\ SetOwners(d, x).clusters = d.clusters
           /\ \A x : SetOperators(d, x).clusters = d.clusters
           /\ \A x : SetSkipped(d, x).clusters = d.clusters
           /\ \A x : SetClusters(d, x).clusters = x
           /\ \A x, y, z : SetAdded(d, x, y, z).clusters = x
           /\ \A x, y, z : SetDeleted(d, x, y, z).clusters = x
<1>1. ASSUME NEW x PROVE IsTables(SetMax(d, x)) /\ SetMax(d, x).clusters = d.clusters
  <2> DEFINE e == SetMax(d, x)
  <2>1. e = Tables(d.block_number, x, d.operators, d.skipped_operator_adds, d.owners, d.clusters, d.validators)
    BY DEF IsTables, Tables, SetMax
  <2> HIDE DEF e
  <2>2. IsTables(e) /\ e.clusters = d.clusters
    BY <2>1, TablesFields DEF IsTables
  <2> QED
    BY <2>2 DEF e
<1>2. ASSUME NEW x PROVE IsTables(SetOwners(d, x)) /\ SetOwners(d, x).clusters = d.clusters
  <2> DEFINE e == SetOwners(d, x)
  <2>1. e = Tables(d.block_number, d.max_operator_id_seen, d.operators, d.skipped_operator_adds, x, d.clusters, d.validators)
    BY DEF IsTables, Tables, SetOwners
  <2> HIDE DEF e
  <2>2. IsTables(e) /\ e.clusters = d.clusters
    BY <2>1, TablesFields DEF IsTables
  <2> QED
    BY <2>2 DEF e
<1>3. \A x : SetOperators(d, x).clusters = d.clusters /\ SetSkipped(d, x).clusters = d.clusters /\ SetClusters(d, x).clusters = x
  BY DEF IsTables, Tables, SetOperators, SetSkipped, SetClusters
<1>4. \A x, y, z : SetAdded(d, x, y, z).clusters = x /\ SetDeleted(d, x, y, z).clusters = x
  BY DEF IsTables, Tables, SetAdded, SetDeleted
<1> QED
  BY <1>1, <1>2, <1>3, <1>4

\* Every liquidated cluster of f is one of d.
NoNewFlags(d, f) == \A c \in DOMAIN f.clusters : f.clusters[c].liquidated => c \in DOMAIN d.clusters /\ d.clusters[c].liquidated

LEMMA FlagsOfTx ==
    ASSUME NEW x, ContextOK(x), NEW t, NoNewFlags(x.tx.disk, t.disk)
    PROVE  NoNewFlags(x.tx.disk, [x EXCEPT !.tx = t].tx.disk)
<1>1. [x EXCEPT !.tx = t].tx = t
  BY DEF ContextOK, IsContext
<1> QED
  BY <1>1

LEMMA FlagsOperatorAdded ==
    ASSUME NEW x, ContextOK(x), IsTables(x.tx.disk), NEW e
    PROVE  NoNewFlags(x.tx.disk, process_operator_added(x, e).tx.disk)
<1> DEFINE d == x.tx.disk
           seen == set_max_operator_id_seen_tx(x.tx, e.id)
           a == insert_operator_tx(seen, e.id, e.key)
           b == insert_skipped_operator_add_tx(seen, e.id)
           ops == insert_or_ignore(seen.disk.operators, e.id, [key |-> e.key, removed |-> FALSE])
           skip == seen.disk.skipped_operator_adds \union {e.id}
<1>1. process_operator_added(x, e) \in {x, [x EXCEPT !.tx = a], [x EXCEPT !.tx = b]}
  BY DEF process_operator_added
<1>2. seen.disk = SetMax(d, e.id) /\ IsTx(seen)
  BY DEF set_max_operator_id_seen_tx, IsTx, SetMax
<1> HIDE DEF seen
<1>3. a.disk = SetOperators(seen.disk, ops)
  BY DEF insert_operator_tx, SetOperators
<1>4. b.disk = SetSkipped(seen.disk, skip)
  BY <1>2, SkippedTx DEF insert_skipped_operator_add_tx, SetSkipped
<1> HIDE DEF d, a, b, ops, skip
<1>5. IsTables(seen.disk) /\ seen.disk.clusters = d.clusters
  BY <1>2, ClustersSet DEF d
<1>6. a.disk.clusters = d.clusters /\ b.disk.clusters = d.clusters
  BY <1>3, <1>4, <1>5, ClustersSet
<1>7. NoNewFlags(d, d) /\ NoNewFlags(d, a.disk) /\ NoNewFlags(d, b.disk)
  BY <1>6 DEF NoNewFlags
<1>8. NoNewFlags(d, [x EXCEPT !.tx = a].tx.disk) /\ NoNewFlags(d, [x EXCEPT !.tx = b].tx.disk)
  BY <1>7, FlagsOfTx DEF d
<1> QED
  BY <1>1, <1>7, <1>8 DEF d

LEMMA FlagsOperatorRemoved ==
    ASSUME NEW x, ContextOK(x), IsTables(x.tx.disk), NEW e
    PROVE  NoNewFlags(x.tx.disk, process_operator_removed(x, e).tx.disk)
<1> DEFINE d == x.tx.disk
           a == delete_skipped_operator_add_tx(x.tx, e.id)
           b == delete_operator_tx(x.tx, e.id)
           yes == TRUE
           skip == d.skipped_operator_adds \ {e.id}
           left == IF \E cluster \in DOMAIN d.clusters : e.id \in cluster_members(cluster)
                   THEN [d.operators EXCEPT ![e.id].removed = TRUE] ELSE Without(d.operators, {e.id})
<1> HIDE DEF yes
<1>1. process_operator_removed(x, e) \in {[x EXCEPT !.tx = a], [x EXCEPT !.tx = b], [x EXCEPT !.abort = yes]}
  BY DEF process_operator_removed, yes
<1>2. IsTx(x.tx)
  BY DEF ContextOK
<1>3. a.disk = SetSkipped(d, skip)
  <2>1. a = [x.tx EXCEPT !.disk.skipped_operator_adds = skip]
    BY <1>2 DEF delete_skipped_operator_add_tx, IsTx
  <2> HIDE DEF a, skip
  <2> QED
    BY <1>2, <2>1, SkippedTx DEF SetSkipped
<1>4. b.disk = SetOperators(d, left)
  BY DEF delete_operator_tx, SetOperators
<1> HIDE DEF a, b, skip, left
<1>5. a.disk.clusters = d.clusters /\ b.disk.clusters = d.clusters
  BY <1>3, <1>4, ClustersSet
<1>6. [x EXCEPT !.abort = yes].tx = x.tx
  BY DEF ContextOK, IsContext
<1>7. NoNewFlags(d, d) /\ NoNewFlags(d, a.disk) /\ NoNewFlags(d, b.disk)
  BY <1>5 DEF NoNewFlags
<1>8. NoNewFlags(d, [x EXCEPT !.tx = a].tx.disk) /\ NoNewFlags(d, [x EXCEPT !.tx = b].tx.disk)
  BY <1>7, FlagsOfTx
<1> QED
  BY <1>1, <1>6, <1>7, <1>8

LEMMA FlagsValidatorAdded ==
    ASSUME NEW x, ContextOK(x), IsTables(x.tx.disk), NEW e, NEW known
    PROVE  NoNewFlags(x.tx.disk, process_validator_added(x, e, known).tx.disk)
<1> DEFINE d == x.tx.disk
           cluster == compute_cluster_id(e)
           bumped == bump_and_get_nonce_tx(x.tx, e.owner)
           a == insert_validator_tx(bumped, cluster, e.validator, fee_recipient_for_owner(bumped.disk, e.owner), known)
           next == [x EXCEPT !.tx = a, !.registered = x.registered \union {e.validator},
                             !.index_sync = x.index_sync \union {e.validator}]
           no == [liquidated |-> FALSE]
           cl == insert_or_ignore(bumped.disk.clusters, cluster, no)
           va == insert_or_ignore(bumped.disk.validators, e.validator, [cluster |-> cluster, index |-> None])
           ow == insert_or_ignore(bumped.disk.owners, cluster_owner(cluster), [fee_recipient |-> cluster_owner(cluster), nonce |-> None])
<1>1. process_validator_added(x, e, known) \in {next, [x EXCEPT !.tx = bumped]}
  BY DEF process_validator_added
<1>2. \E o : bumped.disk = SetOwners(d, o)
  BY DEF bump_and_get_nonce_tx, SetOwners
<1> HIDE DEF bumped
<1>3. a.disk = SetAdded(bumped.disk, cl, va, ow)
  BY DEF insert_validator_tx, SetAdded
<1> HIDE DEF a, va, ow
<1>4. next.tx = a
  BY DEF ContextOK, IsContext
<1> HIDE DEF next, cl
<1>5. IsTables(bumped.disk) /\ bumped.disk.clusters = d.clusters
  BY <1>2, ClustersSet
<1>6. a.disk.clusters = cl
  BY <1>3, <1>5, ClustersSet
<1>7. ~no.liquidated
  OBVIOUS
<1> HIDE DEF no, cluster
<1>8. \A c \in DOMAIN cl : cl[c].liquidated => c \in DOMAIN d.clusters /\ cl[c] = d.clusters[c]
  BY <1>5, <1>7 DEF cl, insert_or_ignore
<1>9. NoNewFlags(d, a.disk) /\ NoNewFlags(d, bumped.disk)
  BY <1>5, <1>6, <1>8 DEF NoNewFlags
<1>10. NoNewFlags(d, next.tx.disk) /\ NoNewFlags(d, [x EXCEPT !.tx = bumped].tx.disk)
  BY <1>4, <1>9, FlagsOfTx
<1> QED
  BY <1>1, <1>10

LEMMA FlagsValidatorRemoved ==
    ASSUME NEW x, ContextOK(x), IsTables(x.tx.disk), NEW e
    PROVE  NoNewFlags(x.tx.disk, process_validator_removed(x, e).tx.disk)
<1> DEFINE d == x.tx.disk
           a == delete_validator_tx(x.tx, e.validator)
<1>1. process_validator_removed(x, e) \in {x, [x EXCEPT !.tx = a]}
  BY DEF process_validator_removed
<1>2. \E cl, va, op, S : /\ a.disk = SetDeleted(d, cl, va, op)
                         /\ cl = d.clusters \/ cl = Without(d.clusters, S)
  <2> DEFINE cluster == d.validators[e.validator].cluster
             left == Without(d.validators, {e.validator})
             last == \A v \in DOMAIN left : left[v].cluster # cluster
             cl == IF last THEN Without(d.clusters, {cluster}) ELSE d.clusters
             orphans == {id \in DOMAIN d.operators :
                          /\ last /\ id \in cluster_members(cluster)
                          /\ d.operators[id].removed
                          /\ \A c \in DOMAIN cl : id \notin cluster_members(c)}
             op == Without(d.operators, orphans)
             S == {cluster}
  <2>1. a.disk = SetDeleted(d, cl, left, op)
    BY DEF delete_validator_tx, SetDeleted
  <2>2. cl = d.clusters \/ cl = Without(d.clusters, S)
    OBVIOUS
  <2> HIDE DEF a, left, cl, op, S
  <2> QED
    BY <2>1, <2>2
<1> HIDE DEF a
<1>3. a.disk.clusters = d.clusters \/ \E S : a.disk.clusters = Without(d.clusters, S)
  BY <1>2, ClustersSet
<1>4. NoNewFlags(d, a.disk) /\ NoNewFlags(d, d)
  BY <1>3 DEF NoNewFlags, Without, Restrict
<1>5. NoNewFlags(d, [x EXCEPT !.tx = a].tx.disk)
  BY <1>4, FlagsOfTx
<1> QED
  BY <1>1, <1>4, <1>5

LEMMA FlagsFeeRecipient ==
    ASSUME NEW x, ContextOK(x), IsTables(x.tx.disk), NEW e
    PROVE  NoNewFlags(x.tx.disk, process_fee_recipient_updated(x, e).tx.disk)
<1> DEFINE d == x.tx.disk
           a == update_fee_recipient_tx(x.tx, e.owner, e.recipient)
<1>1. process_fee_recipient_updated(x, e) = [x EXCEPT !.tx = a]
  BY DEF process_fee_recipient_updated
<1>2. \E o : a.disk = SetOwners(d, o)
  BY DEF update_fee_recipient_tx, SetOwners
<1> HIDE DEF a
<1>3. NoNewFlags(d, a.disk)
  BY <1>2, ClustersSet DEF NoNewFlags
<1> QED
  BY <1>1, <1>3, FlagsOfTx

LEMMA FlagsStatus ==
    ASSUME NEW x, ContextOK(x), TablesOK(x.tx.disk), NEW cluster, NEW liquidated \in BOOLEAN
    PROVE  LET f == [x EXCEPT !.tx = update_status_tx(x.tx, cluster, liquidated)].tx.disk
           IN  \A c \in DOMAIN f.clusters : f.clusters[c].liquidated =>
                  \/ c = cluster /\ liquidated
                  \/ c # cluster /\ c \in DOMAIN x.tx.disk.clusters /\ x.tx.disk.clusters[c].liquidated
<1> DEFINE d == x.tx.disk
           a == update_status_tx(x.tx, cluster, liquidated)
           cl == IF cluster \in DOMAIN d.clusters THEN [d.clusters EXCEPT ![cluster].liquidated = liquidated] ELSE d.clusters
<1>1. a.disk = SetClusters(d, cl)
  BY DEF update_status_tx, SetClusters
<1>2. [x EXCEPT !.tx = a].tx = a
  BY DEF ContextOK, IsContext
<1>3. IsTables(d) /\ ClustersOK(d)
  BY DEF TablesOK, IsTables
<1> HIDE DEF a, cl, d
<1>4. a.disk.clusters = cl
  BY <1>1, <1>3, ClustersSet
<1>5. ASSUME NEW c \in DOMAIN cl, cl[c].liquidated
      PROVE  \/ c = cluster /\ liquidated
             \/ c # cluster /\ c \in DOMAIN d.clusters /\ d.clusters[c].liquidated
  <2>1. c \in DOMAIN d.clusters
    BY <1>5 DEF cl
  <2>2. CASE c # cluster
    BY <1>5, <2>1, <2>2 DEF cl
  <2>3. CASE c = cluster
    <3> DEFINE row == d.clusters[c]
    <3>1. cl[c] = [row EXCEPT !.liquidated = liquidated]
      BY <2>1, <2>3 DEF cl
    <3>2. row = [liquidated |-> row.liquidated]
      BY <1>3, <2>1 DEF ClustersOK
    <3> HIDE DEF row
    <3>3. cl[c].liquidated = liquidated
      BY <3>1, <3>2
    <3> QED
      BY <1>5, <2>3, <3>3
  <2> QED
    BY <2>2, <2>3
<1> QED
  BY <1>2, <1>4, <1>5 DEF a, d

\* A liquidated flag after a log: the log set it, or it was there and the log does not clear it.
LEMMA FlagsProcessLog ==
    ASSUME NEW x, ContextOK(x), TablesOK(x.tx.disk), ~x.abort, NEW e, Decoded(e), NEW known, NEW live,
           NEW c \in DOMAIN process_log(x, e, known, live).tx.disk.clusters,
           process_log(x, e, known, live).tx.disk.clusters[c].liquidated
    PROVE  \/ e.type = "ClusterLiquidated" /\ compute_cluster_id(e) = c
           \/ /\ ~(e.type = "ClusterReactivated" /\ compute_cluster_id(e) = c)
              /\ c \in DOMAIN x.tx.disk.clusters /\ x.tx.disk.clusters[c].liquidated
<1> DEFINE d == x.tx.disk
           n == process_log(x, e, known, live)
           f == n.tx.disk
           yes == TRUE
           no == FALSE
<1>1. IsTables(d)
  BY DEF TablesOK, IsTables
<1>2. yes \in BOOLEAN /\ no \in BOOLEAN /\ yes /\ ~no
  OBVIOUS
<1>3. /\ c \in DOMAIN f.clusters /\ f.clusters[c].liquidated
  OBVIOUS
<1> HIDE DEF yes, no
<1>4. CASE e.type \notin {"ClusterLiquidated", "ClusterReactivated"}
  <2>1. CASE e.type = "OperatorAdded"
    <3>1. n = process_operator_added(x, e)
      BY <2>1 DEF process_log
    <3> QED
      BY <1>1, <1>3, <1>4, <3>1, FlagsOperatorAdded DEF NoNewFlags
  <2>2. CASE e.type = "OperatorRemoved"
    <3>1. n = process_operator_removed(x, e)
      BY <2>2 DEF process_log
    <3> QED
      BY <1>1, <1>3, <1>4, <3>1, FlagsOperatorRemoved DEF NoNewFlags
  <2>3. CASE e.type = "ValidatorAdded"
    <3>1. n = process_validator_added(x, e, known)
      BY <2>3 DEF process_log
    <3> QED
      BY <1>1, <1>3, <1>4, <3>1, FlagsValidatorAdded DEF NoNewFlags
  <2>4. CASE e.type = "ValidatorRemoved"
    <3>1. n = process_validator_removed(x, e)
      BY <2>4 DEF process_log
    <3> QED
      BY <1>1, <1>3, <1>4, <3>1, FlagsValidatorRemoved DEF NoNewFlags
  <2>5. CASE e.type = "FeeRecipientAddressUpdated"
    <3>1. n = process_fee_recipient_updated(x, e)
      BY <2>5 DEF process_log
    <3> QED
      BY <1>1, <1>3, <1>4, <3>1, FlagsFeeRecipient DEF NoNewFlags
  <2>6. CASE e.type = "ValidatorExited"
    <3>1. n = process_validator_exited(x, e, live)
      BY <2>6 DEF process_log
    <3>2. n.tx = x.tx
      BY <3>1, ExitKeepsTx
    <3> HIDE DEF n
    <3> QED
      BY <1>3, <1>4, <3>2
  <2> QED
    BY <1>4, <2>1, <2>2, <2>3, <2>4, <2>5, <2>6 DEF Decoded, EventTypes
<1>5. CASE e.type = "ClusterLiquidated"
  <2> DEFINE id == compute_cluster_id(e)
  <2>1. n = [x EXCEPT !.tx = update_status_tx(x.tx, id, yes)]
    BY <1>5 DEF process_log, process_cluster_liquidated, yes
  <2> HIDE DEF n, id
  <2>2. \/ c = id /\ yes
        \/ c # id /\ c \in DOMAIN d.clusters /\ d.clusters[c].liquidated
    BY <1>2, <1>3, <2>1, FlagsStatus
  <2> QED
    BY <1>5, <2>2 DEF id
<1>6. CASE e.type = "ClusterReactivated"
  <2> DEFINE id == compute_cluster_id(e)
  <2>1. n = [x EXCEPT !.tx = update_status_tx(x.tx, id, no)]
    BY <1>6 DEF process_log, process_cluster_reactivated, no
  <2> HIDE DEF n, id
  <2>2. \/ c = id /\ no
        \/ c # id /\ c \in DOMAIN d.clusters /\ d.clusters[c].liquidated
    BY <1>2, <1>3, <2>1, FlagsStatus
  <2> QED
    BY <1>2, <1>6, <2>2 DEF id
<1> QED
  BY <1>4, <1>5, <1>6

\* Liquidations and the position up to which they count.
LEMMA LiquidatedHere ==
    ASSUME NEW logs, NEW b \in Nat, NEW k \in Nat, b \in DOMAIN logs, k \in DOMAIN logs[b], NEW c,
           logs[b][k].type = "ClusterLiquidated", compute_cluster_id(logs[b][k]) = c
    PROVE  LiquidatedBy(logs, c, b, k)
<1>1. NotAfter(b, k, b, k) /\ IsStatusLog(logs, b, k, "ClusterLiquidated", c)
  BY DEF NotAfter, IsStatusLog
<1> QED
  BY <1>1 DEF LiquidatedBy

LEMMA LiquidatedNext ==
    ASSUME NEW logs, NEW b \in Nat, NEW k \in Nat, k >= 1, b \in DOMAIN logs, k \in DOMAIN logs[b], NEW c,
           \A a \in DOMAIN logs : a \in Nat /\ \A j \in DOMAIN logs[a] : j \in Nat,
           LiquidatedBy(logs, c, b, k - 1),
           ~(logs[b][k].type = "ClusterReactivated" /\ compute_cluster_id(logs[b][k]) = c)
    PROVE  LiquidatedBy(logs, c, b, k)
<1>1. PICK b1 \in DOMAIN logs : \E k1 \in DOMAIN logs[b1] :
         /\ NotAfter(b1, k1, b, k - 1)
         /\ IsStatusLog(logs, b1, k1, "ClusterLiquidated", c)
         /\ \A b2 \in DOMAIN logs : \A k2 \in DOMAIN logs[b2] :
              IsStatusLog(logs, b2, k2, "ClusterReactivated", c) /\ NotAfter(b2, k2, b, k - 1) => NotAfter(b2, k2, b1, k1)
  BY DEF LiquidatedBy
<1>2. PICK k1 \in DOMAIN logs[b1] :
         /\ NotAfter(b1, k1, b, k - 1)
         /\ IsStatusLog(logs, b1, k1, "ClusterLiquidated", c)
         /\ \A b2 \in DOMAIN logs : \A k2 \in DOMAIN logs[b2] :
              IsStatusLog(logs, b2, k2, "ClusterReactivated", c) /\ NotAfter(b2, k2, b, k - 1) => NotAfter(b2, k2, b1, k1)
  BY <1>1
<1>3. NotAfter(b1, k1, b, k)
  BY <1>2 DEF NotAfter
<1>4. ASSUME NEW b2 \in DOMAIN logs, NEW k2 \in DOMAIN logs[b2],
             IsStatusLog(logs, b2, k2, "ClusterReactivated", c), NotAfter(b2, k2, b, k)
      PROVE  NotAfter(b2, k2, b1, k1)
  <2>1. ~(b2 = b /\ k2 = k)
    BY <1>4 DEF IsStatusLog
  <2>2. NotAfter(b2, k2, b, k - 1)
    BY <1>4, <2>1 DEF NotAfter
  <2> QED
    BY <1>2, <1>4, <2>2
<1> QED
  BY <1>2, <1>3, <1>4 DEF LiquidatedBy

LEMMA LiquidatedLater ==
    ASSUME NEW logs, NEW from \in Nat, NEW b \in Nat, from < b, NEW c,
           \A a \in DOMAIN logs : a \in Nat \ {0} /\ \A j \in DOMAIN logs[a] : j \in 1..Len(logs[a]),
           \A a \in DOMAIN logs : Len(logs[a]) \in Nat,
           \A a \in (from + 1)..(b - 1) : DOMAIN logs[a] = {},
           LiquidatedBy(logs, c, from, LastLog(logs, from))
    PROVE  LiquidatedBy(logs, c, b, 0)
<1> DEFINE k == LastLog(logs, from)
<1>1. PICK b1 \in DOMAIN logs : \E k1 \in DOMAIN logs[b1] :
         /\ NotAfter(b1, k1, from, k)
         /\ IsStatusLog(logs, b1, k1, "ClusterLiquidated", c)
         /\ \A b2 \in DOMAIN logs : \A k2 \in DOMAIN logs[b2] :
              IsStatusLog(logs, b2, k2, "ClusterReactivated", c) /\ NotAfter(b2, k2, from, k) => NotAfter(b2, k2, b1, k1)
  BY DEF LiquidatedBy
<1>2. PICK k1 \in DOMAIN logs[b1] :
         /\ NotAfter(b1, k1, from, k)
         /\ IsStatusLog(logs, b1, k1, "ClusterLiquidated", c)
         /\ \A b2 \in DOMAIN logs : \A k2 \in DOMAIN logs[b2] :
              IsStatusLog(logs, b2, k2, "ClusterReactivated", c) /\ NotAfter(b2, k2, from, k) => NotAfter(b2, k2, b1, k1)
  BY <1>1
<1>3. NotAfter(b1, k1, b, 0)
  BY <1>2 DEF NotAfter
<1>4. ASSUME NEW b2 \in DOMAIN logs, NEW k2 \in DOMAIN logs[b2],
             IsStatusLog(logs, b2, k2, "ClusterReactivated", c), NotAfter(b2, k2, b, 0)
      PROVE  NotAfter(b2, k2, b1, k1)
  <2>1. b2 \in Nat \ {0} /\ Len(logs[b2]) \in Nat /\ k2 \in 1..Len(logs[b2]) /\ DOMAIN logs[b2] # {}
    OBVIOUS
  <2>2. b2 < b
    BY <1>4, <2>1 DEF NotAfter
  <2>3. b2 <= from
    BY <2>1, <2>2
  <2>4. NotAfter(b2, k2, from, k)
    BY <2>1, <2>3 DEF NotAfter, LastLog
  <2> QED
    BY <1>2, <1>4, <2>4
<1> QED
  BY <1>2, <1>3, <1>4 DEF LiquidatedBy

\* An abort ends the processing of the block.
LEMMA AbortLasts ==
    ASSUME NEW d, NEW logs, Logs(logs), NEW known, NEW live, ~LogContexts(d, logs, known, live)[Len(logs)].abort
    PROVE  \A i \in 0..Len(logs) : ~LogContexts(d, logs, known, live)[i].abort
<1> DEFINE C == LogContexts(d, logs, known, live)
           n == Len(logs)
           S == {i \in 0..n : \A j \in 0..i : C[j].abort => C[i].abort}
<1>1. n \in Nat /\ C[0] = Begun(d) /\ \A i \in 1..n : C[i] = process_log(C[i - 1], logs[i], known, live)
  BY LogsShape, ContextsUnfold
<1>2. ~C[n].abort
  OBVIOUS
<1> HIDE DEF C, n
<1>3. ASSUME NEW i \in 1..n, C[i - 1].abort PROVE C[i].abort
  BY <1>1, <1>3 DEF process_log
<1>4. 0 \in S
  <2>1. \A j \in 0..0 : j = 0
    OBVIOUS
  <2> QED
    BY <1>1, <2>1
<1>5. \A i \in 1..n : i - 1 \in S => i \in S
  <2> SUFFICES ASSUME NEW i \in 1..n, i - 1 \in S, NEW j \in 0..i, C[j].abort PROVE C[i].abort
    BY <1>1
  <2>1. CASE j = i
    BY <2>1
  <2>2. CASE j # i
    <3>1. j \in 0..(i - 1)
      BY <1>1, <2>2
    <3>2. C[i - 1].abort
      BY <3>1
    <3> QED
      BY <1>3, <3>2
  <2> QED
    BY <2>1, <2>2
<1>6. n \in S
  <2> HIDE DEF S
  <2>1. n \in 0..n
    BY <1>1
  <2> QED
    BY <1>1, <1>4, <1>5, <2>1, BlockInduction
<1>7. \A i \in 0..n : ~C[i].abort
  BY <1>2, <1>6
<1> QED
  BY <1>7 DEF C, n

\* The flags of the tables along the logs of a block that is committed.
LEMMA BlockLiquidated ==
    ASSUME NEW m, NEW d, Consistent(m, d), NEW logs \in Chains, NEW block \in 1..Len(logs), NEW known, NEW live,
           ~LogContexts(d, logs[block], known, live)[Len(logs[block])].abort,
           LiquidatedOK(d, logs, block, 0)
    PROVE  \A i \in 0..Len(logs[block]) :
              LiquidatedOK(LogContexts(d, logs[block], known, live)[i].tx.disk, logs, block, i)
<1> DEFINE ls == logs[block]
           C == LogContexts(d, ls, known, live)
           n == Len(ls)
           Good(i) == LiquidatedOK(C[i].tx.disk, logs, block, i)
           S == {i \in 0..n : Good(i)}
<1>1. /\ Len(logs) \in Nat /\ DOMAIN logs = 1..Len(logs) /\ \A b \in 1..Len(logs) : Logs(logs[b])
  BY ChainAssumption DEF Logs, IsSeq
<1>2. Logs(ls) /\ \A a \in DOMAIN logs : a \in Nat /\ \A j \in DOMAIN logs[a] : j \in Nat
  BY <1>1, LogsShape
<1>3. /\ n \in Nat /\ DOMAIN ls = 1..n
      /\ \A i \in 1..n : Decoded(ls[i])
  BY <1>2, LogsShape
<1>4. ~C[n].abort
  OBVIOUS
<1> HIDE DEF ls
<1>5. /\ C[0] = Begun(d) /\ \A i \in 1..n : C[i] = process_log(C[i - 1], ls[i], known, live)
  BY <1>2, ContextsUnfold
<1>6. \A i \in 0..n : ~C[i].abort
  BY <1>2, <1>4, AbortLasts
<1>7. \A i \in 0..n : ContextOK(C[i]) /\ TablesOK(C[i].tx.disk)
  BY <1>2, BlockContexts DEF Consistent
<1> HIDE DEF C, n
<1>8. Good(0)
  <2>1. Begun(d).tx.disk = d
    BY DEF Begun
  <2> QED
    BY <1>5, <2>1
<1>9. ASSUME NEW i \in 1..n, Good(i - 1) PROVE Good(i)
  <2> SUFFICES ASSUME NEW c \in DOMAIN C[i].tx.disk.clusters, C[i].tx.disk.clusters[c].liquidated
               PROVE  LiquidatedBy(logs, c, block, i)
    BY DEF LiquidatedOK
  <2> DEFINE x == C[i - 1]
             e == ls[i]
  <2>1. i - 1 \in 0..n /\ i \in Nat /\ i >= 1 /\ block \in Nat
    BY <1>1, <1>3
  <2>2. ContextOK(x) /\ TablesOK(x.tx.disk) /\ ~x.abort /\ Decoded(e)
    BY <1>3, <1>6, <1>7, <2>1
  <2>3. C[i] = process_log(x, e, known, live)
    BY <1>5
  <2>4. block \in DOMAIN logs /\ i \in DOMAIN logs[block] /\ logs[block][i] = e
    BY <1>1, <1>3 DEF ls
  <2> HIDE DEF x, e
  <2>5. \/ e.type = "ClusterLiquidated" /\ compute_cluster_id(e) = c
        \/ /\ ~(e.type = "ClusterReactivated" /\ compute_cluster_id(e) = c)
           /\ c \in DOMAIN x.tx.disk.clusters /\ x.tx.disk.clusters[c].liquidated
    <3>1. /\ c \in DOMAIN process_log(x, e, known, live).tx.disk.clusters
          /\ process_log(x, e, known, live).tx.disk.clusters[c].liquidated
      BY <2>3
    <3> QED
      BY <2>2, <3>1, FlagsProcessLog
  <2>6. CASE e.type = "ClusterLiquidated" /\ compute_cluster_id(e) = c
    BY <2>1, <2>4, <2>6, LiquidatedHere
  <2>7. CASE /\ ~(e.type = "ClusterReactivated" /\ compute_cluster_id(e) = c)
             /\ c \in DOMAIN x.tx.disk.clusters /\ x.tx.disk.clusters[c].liquidated
    <3>1. LiquidatedBy(logs, c, block, i - 1)
      BY <1>9, <2>7 DEF x, LiquidatedOK
    <3> QED
      BY <1>2, <2>1, <2>4, <2>7, <3>1, LiquidatedNext
  <2> QED
    BY <2>5, <2>6, <2>7
<1> HIDE DEF Good
<1>10. 0 \in S /\ \A i \in 1..n : i - 1 \in S => i \in S
  BY <1>3, <1>8, <1>9
<1>11. \A i \in 0..n : i \in S
  <2> HIDE DEF S
  <2> QED
    BY <1>3, <1>10, BlockInduction
<1> QED
  BY <1>11 DEF C, n, ls, Good

\* By the contract's rules no validator is added to a cluster the tables have as liquidated.
LEMMA BlockAdds ==
    ASSUME NEW m, NEW d, Consistent(m, d), NEW logs \in Chains, ContractRules(logs), NEW block \in 1..Len(logs),
           NEW known, NEW live,
           ~LogContexts(d, logs[block], known, live)[Len(logs[block])].abort,
           LiquidatedOK(d, logs, block, 0)
    PROVE  \A i \in 1..Len(logs[block]) : logs[block][i].type = "ValidatorAdded" =>
              NotLiquidated(LogContexts(d, logs[block], known, live)[i - 1].tx.disk, compute_cluster_id(logs[block][i]))
<1> DEFINE ls == logs[block]
           n == Len(ls)
<1>1. /\ Len(logs) \in Nat /\ DOMAIN logs = 1..Len(logs) /\ \A b \in 1..Len(logs) : Logs(logs[b])
  BY ChainAssumption DEF Logs, IsSeq
<1>2. /\ Logs(ls) /\ n \in Nat /\ DOMAIN ls = 1..n
      /\ \A a \in DOMAIN logs : a \in Nat /\ \A j \in DOMAIN logs[a] : j \in Nat
  BY <1>1, LogsShape
<1> SUFFICES ASSUME NEW i \in 1..n, ls[i].type = "ValidatorAdded"
             PROVE  NotLiquidated(LogContexts(d, ls, known, live)[i - 1].tx.disk, compute_cluster_id(ls[i]))
  OBVIOUS
<1> DEFINE x == LogContexts(d, ls, known, live)[i - 1].tx.disk
           c == compute_cluster_id(ls[i])
<1>3. i - 1 \in 0..n /\ i \in Nat /\ i >= 1 /\ block \in Nat /\ block \in DOMAIN logs /\ i \in DOMAIN logs[block]
  BY <1>1, <1>2
<1>4. LiquidatedOK(x, logs, block, i - 1)
  BY <1>3, BlockLiquidated
<1>5. \A j \in 0..n : TablesOK(LogContexts(d, ls, known, live)[j].tx.disk)
  <2> HIDE DEF ls
  <2> QED
    BY <1>2, BlockContexts DEF Consistent
<1>6. ~LiquidatedBy(logs, c, block, i)
  BY <1>3 DEF ContractRules
<1>7. ClustersOK(x)
  BY <1>3, <1>5 DEF TablesOK
<1>8. ~(logs[block][i].type = "ClusterReactivated")
  OBVIOUS
<1> HIDE DEF x, c
<1>9. ~LiquidatedBy(logs, c, block, i - 1)
  BY <1>2, <1>3, <1>6, <1>8, LiquidatedNext
<1>10. c \in DOMAIN x.clusters => ~x.clusters[c].liquidated
  BY <1>4, <1>9 DEF LiquidatedOK
<1>11. c \in DOMAIN x.clusters => x.clusters[c].liquidated \in BOOLEAN
  BY <1>7 DEF ClustersOK
<1>12. NotLiquidated(x, c)
  BY <1>10, <1>11, Zenon DEF NotLiquidated
<1> QED
  BY <1>12 DEF x, c

LEMMA FlagsCommit ==
    ASSUME Sound, InStep, FlagsOK, ContractRules(chain), NEW p \in ProcIds, CommitBlock(p)
    PROVE  FlagsOK'
<1>1. procs[p].status = "commit" /\ chain' = chain /\ mem' = mem
  BY CommitFacts
<1>2. PICK block \in procs[p].blocks :
          /\ \A b \in procs[p].blocks : block <= b
          /\ block \in 1..tip /\ Logs(chain[block])
          /\ Committed(p, block)
  BY CommitFacts
<1>3. ~Publishing /\ Visible = mem /\ Consistent(mem, disk)
  BY <1>1, InTransaction
<1> DEFINE L == disk.block_number
           live == procs[p].live
           known == mem.id
           logs == chain[block]
           last == LogContexts(disk, logs, known, live)[Len(logs)]
           done == process_block_logs(disk, logs, block, known, live)
<1>4. FlagsMirror(mem, disk) /\ LiquidatedOK(disk, chain, L, LastLog(chain, L))
  BY <1>3 DEF FlagsOK
<1>6. CASE Committed(p, block)
  <2>1. /\ L < block /\ L \in Nat
        /\ \A b \in (L + 1)..(block - 1) : chain[b] = <<>>
    BY <1>1, <1>2, CommitInOrder
  <2>2. block \in 1..Len(chain) /\ Len(chain) \in Nat /\ chain \in Chains
    BY <1>2, LogsOfBlock DEF Sound, ChainOK
  <2>3. DOMAIN chain = 1..Len(chain) /\ \A b \in 1..Len(chain) : Logs(chain[b])
    BY <2>2, ChainAssumption DEF Logs, IsSeq
  <2>4. LiquidatedOK(disk, chain, block, 0)
    <3>1. \A a \in DOMAIN chain : /\ a \in Nat \ {0} /\ Len(chain[a]) \in Nat
                                  /\ \A j \in DOMAIN chain[a] : j \in 1..Len(chain[a])
      BY <2>2, <2>3, LogsShape
    <3>2. \A a \in (L + 1)..(block - 1) : DOMAIN chain[a] = {}
      <4>1. DOMAIN <<>> = {}
        OBVIOUS
      <4> QED
        BY <2>1, <4>1
    <3>3. block \in Nat
      BY <2>2
    <3> HIDE DEF L
    <3>4. ASSUME NEW c, LiquidatedBy(chain, c, L, LastLog(chain, L)) PROVE LiquidatedBy(chain, c, block, 0)
      BY <2>1, <3>1, <3>2, <3>3, <3>4, LiquidatedLater
    <3> QED
      BY <1>4, <3>4 DEF LiquidatedOK
  <2>5. /\ Visible' = Published(mem, done.tx) /\ disk' = done.tx.disk /\ ~done.abort
    BY <1>1, <1>6, CommitVisible DEF Committed, Done
  <2>6. Logs(logs) /\ Len(logs) \in 0..Len(logs)
    BY <1>2, LogsShape
  <2>7. /\ disk' = [last.tx.disk EXCEPT !.block_number = block] /\ ~last.abort
        /\ FlagsMirror(Published(mem, last.tx), last.tx.disk) => FlagsMirror(Visible', disk')
    <3> HIDE DEF logs, known, live
    <3>1. /\ done.tx.disk = [last.tx.disk EXCEPT !.block_number = block] /\ done.abort = last.abort
          /\ FlagsMirror(Published(mem, last.tx), last.tx.disk) => FlagsMirror(Published(mem, done.tx), done.tx.disk)
      BY <1>3, <2>6, LastContext
    <3> HIDE DEF last, done
    <3> QED
      BY <2>5, <3>1
  <2>8. LiquidatedOK(last.tx.disk, chain, block, Len(logs)) /\ TablesOK(last.tx.disk)
    <3>1. \A i \in 0..Len(logs) : LiquidatedOK(LogContexts(disk, logs, known, live)[i].tx.disk, chain, block, i)
      <4> HIDE DEF known, live
      <4> QED
        BY <1>3, <2>2, <2>4, <2>7, BlockLiquidated
    <3>2. \A i \in 0..Len(logs) : TablesOK(LogContexts(disk, logs, known, live)[i].tx.disk)
      <4> HIDE DEF known, live, logs
      <4> QED
        BY <1>3, <2>6, BlockContexts DEF Consistent
    <3> QED
      BY <2>6, <3>1, <3>2
  <2>9. FlagsMirror(Published(mem, last.tx), last.tx.disk)
    <3>1. \A i \in 1..Len(logs) : logs[i].type = "ValidatorAdded" =>
             NotLiquidated(LogContexts(disk, logs, known, live)[i - 1].tx.disk, compute_cluster_id(logs[i]))
      <4> HIDE DEF known, live
      <4> QED
        BY <1>3, <2>2, <2>4, <2>7, BlockAdds
    <3> HIDE DEF known, live, logs
    <3>2. \A i \in 0..Len(logs) : FlagsMirror(Published(mem, LogContexts(disk, logs, known, live)[i].tx),
                                              LogContexts(disk, logs, known, live)[i].tx.disk)
      BY <1>3, <1>4, <2>6, <3>1, BlockFlags
    <3> QED
      BY <2>6, <3>2
  <2> HIDE DEF last
  <2>10. disk'.block_number = block /\ disk'.clusters = last.tx.disk.clusters
    <3>1. IsTables(last.tx.disk)
      BY <2>8 DEF TablesOK, IsTables
    <3>2. \A d : IsTables(d) => [d EXCEPT !.block_number = block].block_number = block
                                /\ [d EXCEPT !.block_number = block].clusters = d.clusters
      BY DEF IsTables, Tables
    <3> QED
      BY <2>7, <3>1, <3>2
  <2>11. LastLog(chain', disk'.block_number) = Len(logs)
    <3>1. block # 0
      BY <2>2
    <3> QED
      BY <1>1, <2>10, <3>1 DEF LastLog
  <2>12. LiquidatedOK(disk', chain', disk'.block_number, LastLog(chain', disk'.block_number))
    BY <1>1, <2>8, <2>10, <2>11 DEF LiquidatedOK
  <2> QED
    BY <2>7, <2>9, <2>12 DEF FlagsOK
<1> QED
  BY <1>2, <1>6

LEMMA FlagsNext ==
    ASSUME Sound, InStep, FlagsOK, ContractRules(chain), [Next]_vars
    PROVE  FlagsOK'
<1>1. chain' = chain
  BY DiskSteps
<1>2. CASE Unseen /\ disk' = disk /\ exits' = exits
  BY <1>1, <1>2 DEF Unseen, FlagsOK
<1>3. CASE StoreIndices
  <2>1. /\ Visible = mem /\ Visible' = mem'
        /\ FlagsMirror(mem, disk) => FlagsMirror(mem', disk')
        /\ disk'.clusters = disk.clusters /\ disk'.block_number = disk.block_number
    BY <1>3, StoreFacts DEF SameRegistry
  <2> QED
    BY <1>1, <2>1 DEF FlagsOK, LiquidatedOK
<1>4. CASE Restart
  <2>1. disk' = disk /\ Visible' = new_with_state(disk) /\ TablesOK(disk)
    BY <1>4, RestartFacts DEF Sound, StoreOK, Consistent
  <2>2. FlagsMirror(new_with_state(disk), disk)
    BY <2>1, NewWithState
  <2> QED
    BY <1>1, <2>1, <2>2 DEF FlagsOK
<1>5. ASSUME NEW p \in ProcIds, CommitBlock(p) \/ PublishBlock(p) PROVE FlagsOK'
  <2>1. CASE CommitBlock(p)
    BY <2>1, FlagsCommit
  <2>2. CASE PublishBlock(p)
    <3>1. Visible' = Visible /\ disk' = disk
      BY <2>2, SoundPublish, PublishFacts
    <3> QED
      BY <1>1, <3>1 DEF FlagsOK
  <2> QED
    BY <1>5, <2>1, <2>2
<1> QED
  BY <1>2, <1>3, <1>4, <1>5, QuietNext

LEMMA FlagsInit == Init => FlagsOK
<1> SUFFICES ASSUME Init PROVE FlagsOK
  OBVIOUS
<1>1. disk = EmptyDisk
  BY DEF Init
<1>2. DOMAIN EmptyDisk.clusters = {}
  BY DEF EmptyDisk
<1> QED
  BY <1>1, <1>2 DEF FlagsOK, FlagsMirror, LiquidatedOK

\* Memory that mirrors the tables in every part is the memory a restart rebuilds.
LEMMA SharedRebuilt ==
    ASSUME NEW m, NEW d, Consistent(m, d), FlagsMirror(m, d)
    PROVE  SharedView(m) = SharedView(new_with_state(d))
<1> DEFINE r == new_with_state(d)
<1>1. Consistent(r, d) /\ FlagsMirror(r, d)
  BY NewWithState DEF Consistent
<1> HIDE DEF r
<1>2. /\ m.last_processed_block = r.last_processed_block /\ m.max_operator_id_seen = r.max_operator_id_seen
      /\ m.operators = r.operators /\ m.nonces = r.nonces /\ m.metadata = r.metadata
  BY <1>1 DEF Consistent, Mirrors
<1>3. m.clusters = r.clusters
  <2> DEFINE a == m.clusters
             b == r.clusters
  <2>1. IsMap(a) /\ IsMap(b) /\ DOMAIN a = DOMAIN b
    BY <1>1 DEF Consistent, MemoryOK, Mirrors, RecipientsMirror
  <2>2. ASSUME NEW c \in DOMAIN a PROVE a[c] = b[c]
    <3>1. c \in DOMAIN d.clusters /\ c \in DOMAIN b
      BY <1>1, <2>1, <2>2 DEF Consistent, Mirrors, RecipientsMirror
    <3>2. /\ a[c].fee_recipient = b[c].fee_recipient
          /\ a[c].liquidated = b[c].liquidated
      BY <1>1, <3>1 DEF Consistent, Mirrors, RecipientsMirror, FlagsMirror
    <3>3. /\ a[c] = [fee_recipient |-> a[c].fee_recipient, liquidated |-> a[c].liquidated]
          /\ b[c] = [fee_recipient |-> b[c].fee_recipient, liquidated |-> b[c].liquidated]
      BY <1>1, <2>2, <3>1 DEF Consistent, MemoryOK
    <3> QED
      BY <3>2, <3>3, Zenon
  <2> HIDE DEF a, b
  <2>3. a = [c \in DOMAIN a |-> a[c]] /\ b = [c \in DOMAIN a |-> b[c]]
    BY <2>1 DEF IsMap
  <2>4. [c \in DOMAIN a |-> a[c]] = [c \in DOMAIN a |-> b[c]]
    BY <2>2
  <2>5. a = b
    BY <2>3, <2>4
  <2> QED
    BY <2>5 DEF a, b
<1>4. \A x : MemoryOK(x) => SharedView(x) = Memory(None, x.last_processed_block, x.max_operator_id_seen, x.operators,
                                                  {}, {}, x.nonces, x.clusters, x.metadata)
  <2> SUFFICES ASSUME NEW x, MemoryOK(x)
               PROVE  SharedView(x) = Memory(None, x.last_processed_block, x.max_operator_id_seen, x.operators,
                                             {}, {}, x.nonces, x.clusters, x.metadata)
    OBVIOUS
  <2>1. x = Memory(x.id, x.last_processed_block, x.max_operator_id_seen, x.operators, x.own_clusters, x.shares,
                   x.nonces, x.clusters, x.metadata)
    BY DEF MemoryOK
  <2>2. ASSUME NEW i, NEW bn, NEW mx, NEW op, NEW oc, NEW sh, NEW no, NEW cl, NEW me,
               x = Memory(i, bn, mx, op, oc, sh, no, cl, me)
        PROVE  SharedView(x) = Memory(None, bn, mx, op, {}, {}, no, cl, me)
    <3> DEFINE y == SharedView(x)
               empty == {}
    <3>1. y = [x EXCEPT !.id = None, !.shares = empty, !.own_clusters = empty]
      BY DEF SharedView
    <3> HIDE DEF y, empty
    <3>2. y = Memory(None, bn, mx, op, empty, empty, no, cl, me)
      BY <2>2, <3>1 DEF Memory
    <3> QED
      BY <3>2 DEF y, empty
  <2>3. \A i, bn, mx, op, oc, sh, no, cl, me : x = Memory(i, bn, mx, op, oc, sh, no, cl, me) =>
           SharedView(x) = Memory(None, bn, mx, op, {}, {}, no, cl, me)
    BY <2>2
  <2> QED
    BY <2>1, <2>3, Zenon
<1>5. MemoryOK(m) /\ MemoryOK(r)
  BY <1>1 DEF Consistent
<1>6. SharedView(m) = SharedView(r)
  BY <1>2, <1>3, <1>4, <1>5
<1> QED
  BY <1>6 DEF r

\* What holds of the registry of a chain that follows the contract's rules.
Mirrored == /\ Followed
            /\ ContractRules(chain) => OwnOK
            /\ ContractRules(chain) /\ ~orphaned => FlagsOK

LEMMA MirroredNext == Sound /\ Mirrored /\ [Next]_vars => Mirrored'
<1> SUFFICES ASSUME Sound, Mirrored, [Next]_vars PROVE Mirrored'
  OBVIOUS
<1>1. chain' = chain /\ (orphaned => orphaned')
  BY DiskSteps
<1>2. Followed'
  BY FollowedNext DEF Mirrored
<1>3. ASSUME ContractRules(chain') PROVE OwnOK'
  <2>1. ContractRules(chain)
    BY <1>1, <1>3
  <2>2. \A a, b \in OwnRegistrations(chain) : a = b
    BY <2>1 DEF ContractRules
  <2> QED
    BY <2>1, <2>2, OwnNext DEF Mirrored
<1>4. ASSUME ContractRules(chain'), ~orphaned' PROVE FlagsOK'
  <2>1. ContractRules(chain) /\ ~orphaned
    BY <1>1, <1>4
  <2> QED
    BY <2>1, FlagsNext DEF Mirrored, Followed
<1> QED
  BY <1>2, <1>3, <1>4 DEF Mirrored

(***************************************************************************)
(* NetworkState is what a restart rebuilds from the tables, for every      *)
(* history of the contract that follows the contract's own rules: the      *)
(* updates that end_transaction publishes do in memory what the            *)
(* statements, cascades and triggers of the same transactions did on disk. *)
(* Only the liquidated flags need that no processor was left running.      *)
(***************************************************************************)
THEOREM SpecRecoveryRestoresState ==
    Spec => [](ContractRules(chain) /\ ~orphaned => RecoveryRestoresState)
<1>1. Init => Mirrored
  BY InStepInit, InReplayInit, OwnInit, FlagsInit DEF Mirrored, Followed
<1>2. Sound /\ Mirrored /\ [Next]_vars => Mirrored'
  BY MirroredNext
<1>3. Sound /\ Mirrored => (ContractRules(chain) /\ ~orphaned => RecoveryRestoresState)
  <2> SUFFICES ASSUME Sound, OwnOK, FlagsOK, \A p \in ProcIds : procs[p].status # "publish"
               PROVE  LET rebuilt == new_with_state(disk)
                      IN /\ SharedView(mem) = SharedView(rebuilt)
                         /\ rebuilt.id # None => OwnView(mem) = OwnView(rebuilt)
    BY DEF Mirrored, RecoveryRestoresState
  <2>1. Visible = mem
    BY DEF Sound, ThreadsOK, Visible, Publishing
  <2> DEFINE r == new_with_state(disk)
             own == OwnRegistrations(chain)
  <2>2. Consistent(mem, disk) /\ FlagsMirror(mem, disk) /\ OwnMirrors(mem, disk, own)
    BY <2>1 DEF Sound, StoreOK, OwnOK, FlagsOK
  <2>3. SharedView(mem) = SharedView(r)
    BY <2>2, SharedRebuilt
  <2>4. OwnMirrors(r, disk, own) /\ (r.id # None => r.id = mem.id)
    <3> HIDE DEF own
    <3> QED
      BY <2>2, OwnRebuilt
  <2> HIDE DEF r, own
  <2>5. ASSUME r.id # None PROVE OwnView(mem) = OwnView(r)
    <3>1. mem.id = r.id
      BY <2>4, <2>5
    <3>2. mem.shares = r.shares
      BY <2>2, <2>4, <3>1 DEF OwnMirrors
    <3>3. mem.own_clusters = r.own_clusters
      BY <2>2, <2>4, <3>2 DEF OwnMirrors
    <3> QED
      BY <3>1, <3>2, <3>3 DEF OwnView
  <2> QED
    BY <2>3, <2>5 DEF r
<1> QED
  BY <1>1, <1>2, <1>3, SpecSound, PTL DEF Spec

(***************************************************************************)
(* Operators, nonces, validators with their indices, the clusters with     *)
(* their fee recipients and the last processed block are the tables'       *)
(* whenever no committed block waits to be published: for every history    *)
(* of the contract, and also when a processor that was left running works  *)
(* beside the syncer's (publish_pending_state_updates, new_with_state).    *)
(***************************************************************************)
THEOREM SpecRegistryMirrored ==
    Spec => []((\A p \in ProcIds : procs[p].status # "publish") => Mirrors(mem, disk))
<1>1. Sound => ((\A p \in ProcIds : procs[p].status # "publish") => Mirrors(mem, disk))
  <2> SUFFICES ASSUME Sound, \A p \in ProcIds : procs[p].status # "publish" PROVE Mirrors(mem, disk)
    OBVIOUS
  <2>1. Visible = mem
    BY DEF Sound, ThreadsOK, Visible, Publishing
  <2> QED
    BY <2>1 DEF Sound, StoreOK, Consistent
<1> QED
  BY <1>1, SpecSound, PTL
=============================================================================
