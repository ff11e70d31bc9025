---------------------------- MODULE EventSync ----------------------------
(***************************************************************************)
(* How an operator follows the SSV contract: the syncer, which fetches the *)
(* logs of the blocks it has not processed yet in batches and has them     *)
(* processed one batch at a time on a blocking thread, and then, block by  *)
(* block, the ones the node announces; the processors, which commit one    *)
(* transaction per block and then publish it in memory; the syncer of the  *)
(* validators' indices; the restarts of the process.                       *)
(*                                                                         *)
(* Blocks are counted from the contract's deployment, and tip is the       *)
(* newest one that is FOLLOW_DISTANCE below the head of the chain.  The    *)
(* follow distance is what keeps reorganisations away from the contract's  *)
(* logs: here the logs of a block never change, though an announced block  *)
(* may have any number up to the tip.                                      *)
(***************************************************************************)
EXTENDS EventProcessor

CONSTANTS Chains,           \* the contract's logs: a set of sequences (one per block) of sequences of events
          BeaconIndex,      \* the validators' indices on the beacon chain
          BATCH_SIZE, FETCH_CONCURRENT,
          MaxErrors,        \* bound: failures of the connections to the two nodes and of the databases
          MaxCrashes        \* bound: restarts of the process

VARIABLES chain,        \* the logs of this behaviour, a member of Chains
          tip,          \* the newest block of the contract the syncer may see
          disk, mem,    \* the tables and NetworkState
          slashing,     \* the validators registered in the slashing protection database
          conn,         \* who holds the one connection of the pool
          procs,        \* the threads that run process_logs
          syncer,       \* the task that runs sync
          index_queue,  \* validators sent to the index syncer
          index_batch,  \* the ones it is asking the beacon node for
          exits,        \* exit requests sent, since the beginning of time
          errors, crashes,
          orphaned      \* a processor was left running by an error of its syncer

vars == <<chain, tip, disk, mem, slashing, conn, procs, syncer, index_queue, index_batch, exits,
          errors, crashes, orphaned>>

MaxBlock == Len(chain)
ProcIds == 1..(MaxErrors + 1)
Statuses == {"idle", "waiting", "block", "commit", "publish", "done", "failed"}

ASSUME SyncAssumption ==
    /\ BATCH_SIZE \in Nat \ {0} /\ FETCH_CONCURRENT \in Nat \ {0}
    /\ MaxErrors \in Nat /\ MaxCrashes \in Nat
    /\ None \notin Nat

(***************************************************************************)
(* What decoding a log leaves open: the events' fields have their types.   *)
(***************************************************************************)
EventTypes == {"OperatorAdded", "OperatorRemoved", "ValidatorAdded", "ValidatorRemoved", "ClusterLiquidated",
               "ClusterReactivated", "FeeRecipientAddressUpdated", "ValidatorExited"}

Decoded(e) ==
    /\ e.type \in EventTypes
    /\ e.type = "OperatorAdded" => e.id \in Nat /\ e.valid \in BOOLEAN
    /\ e.type = "OperatorRemoved" => e.id \in Nat
    /\ e.type = "ValidatorAdded" => e.operators \subseteq Nat /\ e.valid \in BOOLEAN
    /\ e.type = "FeeRecipientAddressUpdated" => e.recipient # None

ASSUME ChainAssumption ==
    \A logs \in Chains :
        /\ logs \in Seq(Range(logs))
        /\ \A b \in DOMAIN logs : logs[b] \in Seq(Range(logs[b])) /\ \A k \in DOMAIN logs[b] : Decoded(logs[b][k])

(***************************************************************************)
(* The blocks process_logs makes a transaction for: the ones with logs,    *)
(* and the last one of the range.                                          *)
(***************************************************************************)
Flushed(from, to) == {b \in from..to : chain[b] # <<>>} \union {to}

Idle == [status |-> "idle", blocks |-> {}, live |-> FALSE, updates |-> <<>>,
         index_sync |-> {}, exits |-> <<>>]

\* The syncer's threads that are taken: p stands for the JoinHandle.
FreeProc == CHOOSE p \in ProcIds : procs[p].status = "idle"

\* spawn_blocking(process_logs), or the call of live_sync.
spawn_processor(batch, live) ==
    [procs EXCEPT ![FreeProc] = [Idle EXCEPT !.status = "waiting", !.live = live,
                                             !.blocks = Flushed(batch[1], batch[2])]]

Started == [pc |-> "start", last |-> 0, start |-> 0, end |-> 0, pending |-> <<>>, fetching |-> <<>>,
            fetched |-> <<>>, running |-> None, synced |-> FALSE]

Init == /\ chain \in Chains
        /\ tip = 0
        /\ disk = EmptyDisk /\ mem = new_with_state(EmptyDisk)
        /\ slashing = {}
        /\ conn = None
        /\ procs = [p \in ProcIds |-> Idle]
        /\ syncer = Started
        /\ index_queue = {} /\ index_batch = {} /\ exits = <<>>
        /\ errors = 0 /\ crashes = 0 /\ orphaned = FALSE

\* A block passes the follow distance.
Mine == /\ tip < MaxBlock
        /\ tip' = tip + 1
        /\ UNCHANGED <<chain, disk, mem, slashing, conn, procs, syncer, index_queue, index_batch, exits,
                       errors, crashes, orphaned>>

(***************************************************************************)
(* historical_sync.                                                        *)
(***************************************************************************)
\* Mutant: the last processed block is fetched again.
historical_sync_from_last ==
    /\ syncer.pc = "start"
    /\ syncer' = [Started EXCEPT !.pc = "check", !.last = mem.last_processed_block,
                                 !.start = IF mem.last_processed_block = 0 THEN 1 ELSE mem.last_processed_block]
    /\ UNCHANGED <<chain, tip, disk, mem, slashing, conn, procs, index_queue, index_batch, exits,
                   errors, crashes, orphaned>>

historical_sync ==
    /\ syncer.pc = "start"
    /\ syncer' = [Started EXCEPT !.pc = "check", !.last = mem.last_processed_block,
                                 !.start = mem.last_processed_block + 1]
    /\ UNCHANGED <<chain, tip, disk, mem, slashing, conn, procs, index_queue, index_batch, exits,
                   errors, crashes, orphaned>>

Batches(from, to) ==
    LET count == (to - from + BATCH_SIZE) \div BATCH_SIZE
        first(k) == from + (k - 1) * BATCH_SIZE
    IN [k \in 1..count |-> <<first(k), IF first(k) + BATCH_SIZE - 1 < to THEN first(k) + BATCH_SIZE - 1 ELSE to>>]

\* The last block read when historical_sync was called is compared, also in
\* the rounds that come after the first.
NothingToSync == \/ tip < syncer.start
                 \/ syncer.start = tip /\ syncer.start - 1 # syncer.last

FinishHistoricalSync ==
    /\ syncer.pc = "check" /\ NothingToSync
    /\ syncer' = [syncer EXCEPT !.pc = "live", !.synced = TRUE]
    /\ UNCHANGED <<chain, tip, disk, mem, slashing, conn, procs, index_queue, index_batch, exits,
                   errors, crashes, orphaned>>

StartBatches ==
    /\ syncer.pc = "check" /\ ~NothingToSync
    /\ LET batches == Batches(syncer.start, tip)
           first == IF Len(batches) < FETCH_CONCURRENT THEN Len(batches) ELSE FETCH_CONCURRENT
       IN syncer' = [syncer EXCEPT !.pc = "batches", !.end = tip,
                                   !.fetching = SubSeq(batches, 1, first),
                                   !.pending = SubSeq(batches, first + 1, Len(batches))]
    /\ UNCHANGED <<chain, tip, disk, mem, slashing, conn, procs, index_queue, index_batch, exits,
                   errors, crashes, orphaned>>

\* Start the batch, and fetch another one.
start_batch(s, p) ==
    [s EXCEPT !.running = p,
              !.fetching = IF s.pending = <<>> THEN @ ELSE Append(@, Head(s.pending)),
              !.pending = IF @ = <<>> THEN @ ELSE Tail(@)]

BatchFetched ==
    /\ syncer.pc = "batches" /\ syncer.fetching # <<>>
    /\ LET batch == Head(syncer.fetching)
           rest == [syncer EXCEPT !.fetching = Tail(@)]
       IN IF syncer.running = None
          THEN syncer' = start_batch(rest, FreeProc) /\ procs' = spawn_processor(batch, FALSE)
          ELSE syncer' = [rest EXCEPT !.fetched = Append(@, batch)] /\ UNCHANGED procs
    /\ UNCHANGED <<chain, tip, disk, mem, slashing, conn, index_queue, index_batch, exits,
                   errors, crashes, orphaned>>

BatchProcessed ==
    /\ syncer.pc = "batches" /\ syncer.running # None
    /\ procs[syncer.running].status = "done"
    /\ IF syncer.fetched = <<>>
       THEN /\ syncer' = [syncer EXCEPT !.running = None]
            /\ procs' = [procs EXCEPT ![syncer.running] = Idle]
       ELSE LET batch == Head(syncer.fetched)
            IN /\ syncer' = start_batch([syncer EXCEPT !.fetched = Tail(@)], syncer.running)
               /\ procs' = [procs EXCEPT ![syncer.running] =
                               [Idle EXCEPT !.status = "waiting", !.blocks = Flushed(batch[1], batch[2])]]
    /\ UNCHANGED <<chain, tip, disk, mem, slashing, conn, index_queue, index_batch, exits,
                   errors, crashes, orphaned>>

BatchesDone ==
    /\ syncer.pc = "batches" /\ syncer.running = None /\ syncer.fetching = <<>>
    /\ syncer' = [syncer EXCEPT !.pc = "check", !.start = syncer.end + 1]
    /\ UNCHANGED <<chain, tip, disk, mem, slashing, conn, procs, index_queue, index_batch, exits,
                   errors, crashes, orphaned>>

(***************************************************************************)
(* live_sync.                                                              *)
(***************************************************************************)
\* Mutant: the logs are fetched from the last processed block on.
HeaderReceivedAgain ==
    /\ syncer.pc = "live" /\ mem.last_processed_block > 0
    /\ \E block \in (mem.last_processed_block + 1)..tip :
          syncer' = [syncer EXCEPT !.pc = "live_fetch",
                                   !.fetching = <<<<mem.last_processed_block, block>>>>]
    /\ UNCHANGED <<chain, tip, disk, mem, slashing, conn, procs, index_queue, index_batch, exits,
                   errors, crashes, orphaned>>

\* Mutant: the block after the last processed one is skipped as well.
HeaderReceivedLate ==
    /\ syncer.pc = "live"
    /\ \E block \in (mem.last_processed_block + 2)..tip :
          syncer' = [syncer EXCEPT !.pc = "live_fetch",
                                   !.fetching = <<<<mem.last_processed_block + 1, block>>>>]
    /\ UNCHANGED <<chain, tip, disk, mem, slashing, conn, procs, index_queue, index_batch, exits,
                   errors, crashes, orphaned>>

HeaderReceived ==
    /\ syncer.pc = "live"
    /\ \E block \in (mem.last_processed_block + 1)..tip :
          syncer' = [syncer EXCEPT !.pc = "live_fetch",
                                   !.fetching = <<<<mem.last_processed_block + 1, block>>>>]
    /\ UNCHANGED <<chain, tip, disk, mem, slashing, conn, procs, index_queue, index_batch, exits,
                   errors, crashes, orphaned>>

LiveLogsFetched ==
    /\ syncer.pc = "live_fetch"
    /\ syncer' = [syncer EXCEPT !.pc = "live_process", !.fetching = <<>>, !.running = FreeProc]
    /\ procs' = spawn_processor(Head(syncer.fetching), TRUE)
    /\ UNCHANGED <<chain, tip, disk, mem, slashing, conn, index_queue, index_batch, exits,
                   errors, crashes, orphaned>>

LiveLogsProcessed ==
    /\ syncer.pc = "live_process" /\ procs[syncer.running].status = "done"
    /\ syncer' = [syncer EXCEPT !.pc = "live", !.running = None]
    /\ procs' = [procs EXCEPT ![syncer.running] = Idle]
    /\ UNCHANGED <<chain, tip, disk, mem, slashing, conn, index_queue, index_batch, exits,
                   errors, crashes, orphaned>>

(***************************************************************************)
(* sync: an error ends try_sync; once the connection is back it is called  *)
(* again.  The JoinHandle of a processor is dropped with the future that   *)
(* held it, which does not stop the blocking thread.                       *)
(***************************************************************************)
ConnectionFails ==
    /\ syncer.pc \in {"check", "batches", "live", "live_fetch"}
    /\ syncer.pc = "batches" => syncer.fetching # <<>>
    /\ errors < MaxErrors
    /\ errors' = errors + 1
    /\ LET ended == syncer.running # None /\ procs[syncer.running].status \in {"done", "failed"}
       IN /\ orphaned' = (orphaned \/ (syncer.running # None /\ ~ended))
          /\ procs' = IF ended THEN [procs EXCEPT ![syncer.running] = Idle] ELSE procs
    /\ syncer' = Started
    /\ UNCHANGED <<chain, tip, disk, mem, slashing, conn, index_queue, index_batch, exits, crashes>>

ProcessorFailed ==
    /\ syncer.running # None /\ procs[syncer.running].status = "failed"
    /\ syncer' = Started
    /\ procs' = [procs EXCEPT ![syncer.running] = Idle]
    /\ UNCHANGED <<chain, tip, disk, mem, slashing, conn, index_queue, index_batch, exits,
                   errors, crashes, orphaned>>

(***************************************************************************)
(* process_logs.                                                           *)
(***************************************************************************)
\* The result of a thread nobody waits for any more is dropped.
ended(p, status) == IF syncer.running = p THEN [Idle EXCEPT !.status = status] ELSE Idle

Connect(p) ==
    /\ procs[p].status = "waiting" /\ conn = None
    /\ conn' = p
    /\ procs' = [procs EXCEPT ![p].status = "block"]
    /\ UNCHANGED <<chain, tip, disk, mem, slashing, syncer, index_queue, index_batch, exits,
                   errors, crashes, orphaned>>

\* CONNECTION_TIMEOUT passes while another thread has the connection.
ConnectTimeout(p) ==
    /\ procs[p].status = "waiting" /\ conn # None
    /\ procs' = [procs EXCEPT ![p] = ended(p, "failed")]
    /\ UNCHANGED <<chain, tip, disk, mem, slashing, conn, syncer, index_queue, index_batch, exits,
                   errors, crashes, orphaned>>

\* Mutant: the tables are written first, and a validator is registered in the
\* slashing protection database when the next block is processed.
ProcessLogsRegisteredLate(p) ==
    /\ procs[p].status = "block"
    /\ \E block \in procs[p].blocks :
          /\ \A b \in procs[p].blocks : block <= b
          /\ IF process_block_logs(disk, chain[block], block, mem.id, procs[p].live).abort
             THEN conn' = None /\ procs' = [procs EXCEPT ![p] = ended(p, "failed")]
             ELSE UNCHANGED conn /\ procs' = [procs EXCEPT ![p].status = "commit"]
    /\ slashing' = slashing \union DOMAIN disk.validators
    /\ UNCHANGED <<chain, tip, disk, mem, syncer, index_queue, index_batch, exits, errors, crashes, orphaned>>

\* The logs of the next block, in a transaction of the tables' database; the
\* slashing protection database is another one, written log by log.
ProcessLogs(p) ==
    /\ procs[p].status = "block"
    /\ \E block \in procs[p].blocks :
          /\ \A b \in procs[p].blocks : block <= b
          /\ \E done \in {process_block_logs(disk, chain[block], block, mem.id, procs[p].live)} :
                /\ slashing' = slashing \union done.registered
                /\ IF done.abort
                   THEN conn' = None /\ procs' = [procs EXCEPT ![p] = ended(p, "failed")]
                   ELSE UNCHANGED conn /\ procs' = [procs EXCEPT ![p].status = "commit"]
    /\ UNCHANGED <<chain, tip, disk, mem, syncer, index_queue, index_batch, exits, errors, crashes, orphaned>>

\* A registration, a statement or the commit fails: AbortBatch.  The transaction
\* is rolled back; what the logs before it registered stays registered.
DatabaseFails(p) ==
    /\ errors < MaxErrors
    /\ errors' = errors + 1
    /\ \/ procs[p].status = "commit" /\ UNCHANGED slashing
       \/ /\ procs[p].status = "block"
          /\ \E block \in procs[p].blocks :
                /\ \A b \in procs[p].blocks : block <= b
                /\ \E k \in 0..Len(chain[block]) :
                      slashing' = slashing \union
                          LogContexts(disk, chain[block], mem.id, procs[p].live)[k].registered
    /\ conn' = None
    /\ procs' = [procs EXCEPT ![p] = ended(p, "failed")]
    /\ UNCHANGED <<chain, tip, disk, mem, syncer, index_queue, index_batch, exits, crashes, orphaned>>

\* The commit writes what the logs made of the tables, which nobody else writes
\* while this thread holds the connection.
CommitBlock(p) ==
    /\ procs[p].status = "commit"
    /\ \E block \in procs[p].blocks :
          /\ \A b \in procs[p].blocks : block <= b
          /\ \E done \in {process_block_logs(disk, chain[block], block, mem.id, procs[p].live)} :
                /\ disk' = done.tx.disk
                /\ procs' = [procs EXCEPT ![p] = [procs[p] EXCEPT
                                !.status = "publish", !.blocks = @ \ {block}, !.updates = done.tx.updates,
                                !.index_sync = done.index_sync, !.exits = done.exits]]
    /\ UNCHANGED <<chain, tip, mem, slashing, conn, syncer, index_queue, index_batch, exits, errors, crashes, orphaned>>

\* publish_pending_state_updates, execute_post_commit_actions, and on to the next block.
PublishBlock(p) ==
    /\ procs[p].status = "publish"
    /\ mem' = publish_pending_state_updates(mem, procs[p].updates)
    /\ index_queue' = index_queue \union procs[p].index_sync
    /\ exits' = exits \o procs[p].exits
    /\ IF procs[p].blocks = {}
       THEN conn' = None /\ procs' = [procs EXCEPT ![p] = ended(p, "done")]
       ELSE /\ UNCHANGED conn
            /\ procs' = [procs EXCEPT ![p] = [Idle EXCEPT !.status = "block", !.blocks = procs[p].blocks,
                                                          !.live = procs[p].live]]
    /\ UNCHANGED <<chain, tip, disk, slashing, syncer, index_batch, errors, crashes, orphaned>>

(***************************************************************************)
(* validator_index_syncer: the queue and, in the room left in the batch,   *)
(* the validators of NetworkState that have no index.  All of them fit.    *)
(***************************************************************************)
needs_index == {v \in DOMAIN mem.metadata : /\ mem.metadata[v].index = None
                                            /\ mem.metadata[v].cluster \in DOMAIN mem.clusters
                                            /\ ~mem.clusters[mem.metadata[v].cluster].liquidated}

\* Mutant: only the queue is read.
RequestIndicesQueued ==
    /\ index_batch = {} /\ index_queue # {}
    /\ index_batch' = index_queue
    /\ index_queue' = {}
    /\ UNCHANGED <<chain, tip, disk, mem, slashing, conn, procs, syncer, exits, errors, crashes, orphaned>>

RequestIndices ==
    /\ index_batch = {} /\ index_queue \union needs_index # {}
    /\ index_batch' = index_queue \union needs_index
    /\ index_queue' = {}
    /\ UNCHANGED <<chain, tip, disk, mem, slashing, conn, procs, syncer, exits, errors, crashes, orphaned>>

\* The beacon node fails or does not know the validators, or the store fails.
RequestFails ==
    /\ index_batch # {}
    /\ errors < MaxErrors
    /\ errors' = errors + 1
    /\ index_batch' = {}
    /\ UNCHANGED <<chain, tip, disk, mem, slashing, conn, procs, syncer, index_queue, exits, crashes, orphaned>>

StoreIndices ==
    /\ index_batch # {} /\ conn = None
    /\ disk' = set_index_on_disk(disk, index_batch, BeaconIndex)
    /\ mem' = set_index_in_memory(mem, index_batch, BeaconIndex)
    /\ index_batch' = {}
    /\ UNCHANGED <<chain, tip, slashing, conn, procs, syncer, index_queue, exits, errors, crashes, orphaned>>

(***************************************************************************)
(* The process stops and starts again on its database.                     *)
(***************************************************************************)
Restart ==
    /\ crashes < MaxCrashes
    /\ crashes' = crashes + 1
    /\ mem' = new_with_state(disk)
    /\ conn' = None
    /\ procs' = [p \in ProcIds |-> Idle]
    /\ syncer' = Started
    /\ index_queue' = {} /\ index_batch' = {}
    /\ UNCHANGED <<chain, tip, disk, slashing, exits, errors, orphaned>>

Sync == \/ historical_sync \/ FinishHistoricalSync \/ StartBatches \/ BatchFetched \/ BatchProcessed
        \/ BatchesDone \/ HeaderReceived \/ LiveLogsFetched \/ LiveLogsProcessed \/ ProcessorFailed

Process(p) == Connect(p) \/ ProcessLogs(p) \/ CommitBlock(p) \/ PublishBlock(p)

Next == \/ Mine \/ Sync \/ ConnectionFails
        \/ \E p \in ProcIds : Process(p) \/ ConnectTimeout(p) \/ DatabaseFails(p)
        \/ RequestIndices \/ RequestFails \/ StoreIndices
        \/ Restart

(***************************************************************************)
(* The chain grows, and everything that runs goes on; the index syncer has *)
(* to share the connection, which it gets in the end.                      *)
(***************************************************************************)
Fairness == /\ WF_vars(Mine) /\ WF_vars(Sync) /\ \A p \in 1..(MaxErrors + 1) : WF_vars(Process(p))
            /\ WF_vars(RequestIndices) /\ SF_vars(StoreIndices)

Spec == Init /\ [][Next]_vars /\ Fairness

-----------------------------------------------------------------------------
\* The types of tables, memory, processors and requests.
TypeOK ==
    /\ tip \in 0..MaxBlock
    /\ disk.block_number \in 0..MaxBlock /\ mem.last_processed_block \in 0..MaxBlock
    /\ DOMAIN mem.metadata \subseteq DOMAIN BeaconIndex
    /\ conn \in ProcIds \union {None}
    /\ \A p \in ProcIds : procs[p].status \in Statuses /\ procs[p].blocks \subseteq 1..MaxBlock
    /\ syncer.running \in ProcIds \union {None}
    /\ syncer.pc \in {"start", "check", "batches", "live", "live_fetch", "live_process"}

\* The tables after the first n blocks, each processed once and in order.
Replay(logs) ==
    LET after[n \in 0..Len(logs)] ==
            IF n = 0 THEN EmptyDisk ELSE process_block_logs(after[n - 1], logs[n], n, None, FALSE).tx.disk
    IN after

\* One pass over each history.
Replayed == [logs \in Chains |-> Replay(logs)]

WithoutIndices(d) == [d EXCEPT !.validators = [v \in DOMAIN @ |-> @[v].cluster]]

(***************************************************************************)
(* The tables are what one pass over the contract's logs up to the last    *)
(* processed block gives: batches, errors, restarts and the change from    *)
(* historical to live sync process every log once.                         *)
(***************************************************************************)
DiskMatchesChain == WithoutIndices(disk) = WithoutIndices(Replayed[chain][disk.block_number])
RegistryMatchesChain == orphaned \/ DiskMatchesChain

(***************************************************************************)
(* NetworkState is what a restart would rebuild from the tables, when no   *)
(* committed block waits to be published: the queued updates do in memory  *)
(* what the statements, cascades and triggers do in the tables.  What      *)
(* follows from the operator's own id is compared as long as the tables    *)
(* have one.                                                               *)
(***************************************************************************)
OwnView(m) == <<m.id, m.shares, m.own_clusters>>
SharedView(m) == [m EXCEPT !.id = None, !.shares = {}, !.own_clusters = {}]

RecoveryRestoresState ==
    (\A p \in ProcIds : procs[p].status # "publish") =>
        LET rebuilt == new_with_state(disk)
        IN /\ SharedView(mem) = SharedView(rebuilt)
           /\ rebuilt.id # None => OwnView(mem) = OwnView(rebuilt)

(***************************************************************************)
(* What the contract promises of its logs and NetworkState relies on: a    *)
(* key is registered for one operator at most, and no validator is added   *)
(* to a cluster that is liquidated.                                        *)
(***************************************************************************)
OwnRegistrations(logs) ==
    UNION {{logs[b][k].id : k \in {j \in DOMAIN logs[b] : /\ logs[b][j].type = "OperatorAdded"
                                                          /\ logs[b][j].key = OwnKey}} : b \in DOMAIN logs}

\* Positions of logs: the block and the place in it.
NotAfter(b1, k1, b2, k2) == b1 < b2 \/ (b1 = b2 /\ k1 <= k2)

IsStatusLog(logs, b, k, type, cluster) ==
    /\ b \in DOMAIN logs /\ k \in DOMAIN logs[b]
    /\ logs[b][k].type = type /\ compute_cluster_id(logs[b][k]) = cluster

\* The last status log of the cluster up to position k of block b liquidates it.
LiquidatedBy(logs, cluster, b, k) ==
    \E b1 \in DOMAIN logs : \E k1 \in DOMAIN logs[b1] :
       /\ NotAfter(b1, k1, b, k)
       /\ IsStatusLog(logs, b1, k1, "ClusterLiquidated", cluster)
       /\ \A b2 \in DOMAIN logs : \A k2 \in DOMAIN logs[b2] :
             IsStatusLog(logs, b2, k2, "ClusterReactivated", cluster) /\ NotAfter(b2, k2, b, k) => NotAfter(b2, k2, b1, k1)

ContractRules(logs) ==
    /\ \A id, other \in OwnRegistrations(logs) : id = other
    /\ \A b \in DOMAIN logs : \A k \in DOMAIN logs[b] :
          logs[b][k].type = "ValidatorAdded" => ~LiquidatedBy(logs, compute_cluster_id(logs[b][k]), b, k)

(***************************************************************************)
(* A validator that duties can be done for is in the slashing protection   *)
(* database, also when a registration or a commit fails, or the process    *)
(* restarts, between the two databases' writes.                            *)
(***************************************************************************)
ProtectedBeforeServed == DOMAIN mem.metadata \union DOMAIN disk.validators \subseteq slashing

(***************************************************************************)
(* No ValidatorExited log leads to two exit requests, whatever is fetched  *)
(* again after an error or a restart.                                      *)
(***************************************************************************)
ExitLogs(v) == UNION {{<<b, k>> : k \in {j \in DOMAIN chain[b] : /\ chain[b][j].type = "ValidatorExited"
                                                                 /\ chain[b][j].validator = v}} : b \in 1..MaxBlock}
ExitsRequestedOnce ==
    orphaned \/ \A v \in DOMAIN BeaconIndex : Cardinality({k \in DOMAIN exits : exits[k] = v}) <= Cardinality(ExitLogs(v))

(***************************************************************************)
(* The operator gets to the end of the chain, however often the            *)
(* connections fail and the process restarts.                              *)
(***************************************************************************)
CatchesUp == <>(orphaned \/ mem.last_processed_block = MaxBlock)

(***************************************************************************)
(* Every validator of a cluster that is not liquidated gets its index,     *)
(* also when the request for it was lost in a restart.                     *)
(***************************************************************************)
EveryValidatorIndexed == \A v \in DOMAIN BeaconIndex : v \in needs_index ~> v \notin needs_index
=============================================================================
