# TLA+ models of Anchor

Anchor is an SSV operator: a process that, together with the other operators of
a committee, performs the duties of Ethereum validators whose key none of them
holds alone. The operators agree on what to sign with QBFT, each signs with its
share of the key, and any 2f + 1 of N = 3f + 1 shares make the signature. Which
validators an operator serves, and with whom, it reads from the events of a
contract. This directory models the parts of the program that decide whether
that is done correctly: the consensus, the tasks that drive it, the collection of
signatures, the following of the contract, the duties from their schedule to what
is published, the rules for messages of other operators, and the subscriptions and
peers over which the messages travel.

Paths below are relative to `anchor/` in the repository. `PROJECT.json` gives for
every definition the lines of the source it models, for every run its properties,
and for every property a mutation of a definition that breaks it.

## 1. Inventory

### Components and what they keep

| component | source | state | operations |
|---|---|---|---|
| QBFT instance | `common/qbft` | round, instance state, accepted proposal, lock (last prepared round and value), four message containers, completion | `start_round`, the handlers of proposal, prepare, commit, round change and decided message, `end_round` |
| QBFT manager | `qbft_manager` | maps from instance id to the sender of its task; in the task a buffer, a timer, the callers to answer | `decide_instance`, `receive_data`, `qbft_instance`, `cleaner` |
| Processor | `processor` | two bounded queues, a semaphore of worker permits | `send_async`, `send_blocking`, `send_immediate`, `receive` loop |
| Message receiver, sender | `message_receiver`, `message_sender` | none of their own; their work runs as blocking items of the processor | validate and pass on; sign and publish |
| Signature collector | `signature_collector` | map from signing root to the sender of its task; in the task the registration, the shares, the companion of an envelope, the result; batches of outgoing shares | `sign_and_collect`, `sign_proposer_packet`, `wait_for_registered_signature`, `receive_partial_signatures`, the collector, the cleaner |
| Database | `database` | SQLite tables behind a pool of one connection; `NetworkState` in a watch channel | the transactions of contract events, `publish_pending_state_updates`, `new_with_state`, index updates |
| Contract event sync | `eth` | position in the chain (in the database), batches being fetched, processor threads, the index syncer's queue | `historical_sync`, `live_sync`, `process_logs`, one handler per event, `index_sync` |
| Voluntary exits | `eth`, `duties_tracker` | exits by target slot, in memory only | receive a request, process the exits that are ready one by one, remove, prune |
| Duties tracker | `duties_tracker` | sync committees by period, proposers and PTC members by epoch | three polls; the verdicts of `DutiesProvider` |
| Message validator | `message_validator` | per duty executor and operator a ring of slots: round, message counts, proposal, roots seen | `validate` with the rules of both kinds of messages, the cleaner |
| Operator doppelganger | `operator_doppelganger` | monitoring or not, the slot of the start | `check_message`, `monitor_blocking` |
| Fork schedule and monitor | `common/fork` | the published lifecycle, the highest slot seen | the monitor's loop |
| Subnet service | `subnet_service` | subscribed subnets by fork | follow a change of the lifecycle or of the clusters, event by event |
| Network | `network` | topics with a count per subnet, ENR, connections, blocked peers, queries, handshakes | the event loop: lifecycle, topic events, discovery, handshakes, heartbeat |
| Validator store | `validator_store` | voting assignments and contexts of slots, decided blocks, the slashing protection database | publish assignments; one flow per duty: check, decide, sign, collect, publish |
| Client, command line, key tools, observability, documentation and spec tests | `client`, `cli`, `keygen`, `keysplit`, `logging`, `http_api`, `http_metrics`, ... | configuration | start the others, offline tools |

### How they interact

    beacon node --duties--> metadata service --assignments, contexts--> validator store
    contract --logs--> event sync --transactions--> database --watch--> validator store, subnets
                            |  \--validator added--> index sync --indices--> database
                            \-----exit seen live--> voluntary exits
    slot clock --> fork monitor --lifecycle--> subnet service --topics--> network
    network --gossip--> message receiver --(processor)--> message validator --> QBFT manager --> instance
                                                     \--> signature collector
    validator store --decide_instance--> QBFT manager ; --sign_and_collect--> signature collector
    instance, collector --(processor, sign)--> message sender --> network

The instance tasks and the collectors have unbounded channels; what bounds the
work in flight is the processor, whose items carry a worker permit until they are
dropped, also while they lie in such a channel.

### What is hard

- **Messages in any order.** Gossip loses, delays, reorders and repeats. A
  proposal may come after the prepares, commits and round changes that belong to
  it; shares come before anybody asked for their signature; envelope shares come
  before it is known which block was decided.
- **Nothing of consensus is persisted.** A process that restarts within a slot
  runs the instance again, from round 1, perhaps with other data.
- **Time.** Round timers fire while quorums are on their way; the cleaners drop
  map entries by slot while work for them is queued; a caller may come late and
  find the entry gone or its channel closed.
- **Bounded resources.** Full queues refuse work whose map entry already exists;
  permits are held by messages for tasks that wait in the other queue; the
  database pool has one connection.
- **Two copies of the registry,** tables and memory, updated by different code
  and rebuilt by a third piece of code after a restart; and a third database for
  slashing protection.
- **State read before an await.** The metadata service publishes what the duties
  were at the start of the slot, the polls of the duties tracker ask for the
  validators there were before the request, and both are used after the registry
  or the chain has moved.
- **Two who could do it.** Aggregates are published by Lighthouse before the Boole
  fork and by the node from it on; several callbacks fill one batch of
  partial signatures; an instance decides again after a restart.
- **Counting others' messages.** The validator keeps a few slots of each operator
  and must neither be talked out of its counts nor into refusing an honest operator.
- **Forks.** For some epochs two forks' topics are subscribed, over subnets they
  may share; the lifecycle, the clusters, a bounded channel and a clock that may
  step back decide together what the node ends up with.
- **Threads that outlive their owner.** A blocking processor of contract logs
  goes on when the task that waits for it gives up.

The list with one entry per line of code where such a thing can bite is under
`hazards` in `PROJECT.json`.

## 2. Modules

| module | models | form |
|---|---|---|
| `Qbft` | one instance at every operator of the committee | state machine; message handlers as actions |
| `Consensus` | what an instance promises | abstract specification |
| `QbftDelivery` | the instance over a network that hands every message over once | `Qbft` with fairness |
| `Processor` | queues and permits | actions extended by `QbftManager` |
| `QbftManager` | receiver, manager, instance tasks and cleaner, on the processor | state machine with fairness |
| `SignatureCollector` | callers, collectors and cleaner for one validator and slot | state machine with fairness |
| `NetworkDatabase` | tables, transactions, `NetworkState`, recovery | operators on records |
| `EventProcessor` | the handlers of contract events | operators, extends `NetworkDatabase` |
| `EventSync` | syncer, processors, index syncer, restarts | state machine, extends `EventProcessor` |
| `DutyState`, `MessageValidator` | the state kept of other operators; the rules, the cleaner, the clock and the registry as the validator sees it | operators; state machine |
| `ForkMonitor` <- `SubnetService` <- `PeerManager` <- `Discovery` <- `Handshake` <- `Network` | each extends the one before; `Network` composes them to a node with its restarts | state machine with fairness |
| `NodeClock` <- `ValidatorStore` <- `AggregatorDuties`, `BlockProposal`, `SingleDuties`, `VoluntaryExits`, `Doppelganger`, `DutiesTracker` | the duty services, each with its variables and actions over the clock, the registry and the store | actions |
| `Client` | `Client::run`: composes the duty services, their start and the restart | state machine |
| `QbftProofs`, `QbftManagerProofs`, `SignatureCollectorProofs`, `MessageValidatorProofs`, `EventSyncProofs`, `NetworkProofs`, `ClientProofs`, `StoreProofs` | theorems about the modules before them | proofs, see section 4 |
| `MC*` | instances for TLC | constants, views, constraints |

Definitions have the source's names where TLA+ allows it: a function of the code
is an operator with its name in snake case, and what the code does as one step is
an action in CamelCase. A definition whose comment begins with "Mutant" is the one
after it with a plausible mistake (a dropped guard, a forgotten reset); nothing
refers to it, and it breaks a property when it takes the correct one's place.

### Qbft

One action per outcome of a handler: `AcceptProposal` and `RefuseProposal` are
`received_propose` (with the justification checks
`validate_proposal_justifications`), `StorePrepare` and `PrepareQuorum` are
`received_prepare`, `StoreCommit` and `CommitQuorum` are `received_commit`,
`ReceiveDecided` is the aggregated commit, `StoreRoundChange`,
`RoundChangeQuorum` and `RoundChangePartialQuorum` are `received_round_change`,
`EndRound` and `EndLastRound` are `end_round`. `Restart` is a process that lost
its instance and was called again. What a handler sends is part of its action. A
message that a handler turns down changes nothing and is no action of its own.

The network is the set of all messages ever sent. An operator may take any of
them at any time, again or never; so loss, delay, reordering, duplication and a
crash for good are all behaviours. Values are identified with their hashes;
`data` says whose full data an operator has seen, and `full` whether a message carries it. The leader function has the
code's arithmetic, with the epoch shift. Operators follow the code: there are no
Byzantine ones. Signatures are therefore abstract (no one signs for another).

### QbftManager and Processor

The state of an instance that its driver can tell apart is abstract here: a
message has no visible effect, raises the round, or completes the instance
(`Effect`), and the driver `qbft_instance` does the rest: buffering before
initialization, the sleep until the start, the replay of the buffer, the timer in
both timeout modes, the callers that join, the answers, the closing by the
cleaner. Tasks are numbered generations, since a message that comes after the
cleaner spawns the instance again. The processor's `Take*` actions keep the
code's priorities, urgent work first while there is a permit for it and permitless
work otherwise, and the permit that an item holds until it is dropped (`held`). Validation of a message is a nondeterministic verdict.

### SignatureCollector

A collector is a record per signing root, with the channel of messages it has not
taken as a set. The three calls of the API are sequences of actions of a caller,
since between spawning the collector, registering, signing and waiting anything
else may happen. Shares are good or bad; `combines` is the Lagrange combination
by what it does, and `fallback` the search for bad shares
after a failed one, with the key lookup that may find nothing.

### NetworkDatabase, EventProcessor and EventSync

`disk` is the record of tables and `mem` is `NetworkState`. A transaction is a
composition of operators on `disk` that may end in an error; what the code queues
for memory (`PendingStateUpdates`) is a sequence of updates that
`publish_pending_state_updates` applies to `mem` one by one. Cascades and triggers of the schema are in the
operators that fire them. `new_with_state` is the recovery. `EventProcessor` has
one operator per handler, with the order of its checks: which error aborts the
block and which only skips the event decides what later events find. `EventSync`
steps through a batch block by block: `Connect` takes the connection from the
pool; `ProcessLogs` runs the logs of a block in an open transaction and registers
its own new validators in the slashing protection database; `DatabaseFails` is a
registration, a statement or a commit that fails and ends the batch, with whatever
was registered until then; `CommitBlock` is the commit; `PublishBlock` the publication
and the requests after it. A restart falls between any two of them. The syncer
fetches batches ahead while one is processed (`BatchFetched`, `BatchProcessed`),
switches to live blocks, and starts over when a connection fails. `LogContexts`
and `UpdatesApplied` are recursive functions on the numbers of logs and updates, so that they
can be proved about; there and in `ProcessLogs` the choice from a set of one element
only makes TLC evaluate its value once. `ContractRules` is what the SSV contract promises
of its logs: the histories of the run satisfy it (`HistoriesFollowRules`), and one proof needs it.

### DutyState and MessageValidator

A message is a record of what the rules read: its kind, type, signers, slot, round,
roots, entries, topic and domain, and a set of `flaws`, the checks on its encoding,
justifications and signatures it does not pass. A rule yields its
failure when its condition holds (`When`), and a validation is the sequence of rules in the order
of the code; the first failure decides (`First`), and `acceptance` says whether
it means ignore or reject. `Validate` is the handler, with the duty state changed
only after all rules have passed, the signature last. Time has three ticks a slot
and margins of one tick; the round estimate keeps the code's arithmetic. What the
registry and the duties tracker know grows in steps (`LearnRegistry`, `PollDuties`);
the indices of a committee's validators become known one by one, and `validator_count`,
from which the size of a packet is limited, counts those that are known.

### Network and the modules below it

`Observe` is one turn of the monitor's loop, with the shutdown it requests.
The subnet service is a task with a program counter: a change of the lifecycle or of
the clusters becomes a sequence of topic events, sent one by one (`Send`) through a
channel that may be full or closed, and the set of a fork's subnets is recorded
only when all of its events are out (`EndFork`). The network task takes one event of
its `select!` at a time. It keeps, per subnet, how many topics are subscribed,
advertises the subnet in ENR and metadata, raises the number of peers it wants,
dials, and disconnects peers it does not need (`Heartbeat`). Connection limits are
those of `connection.rs` with its arithmetic in tenths; `connected` is what the
manager believes and `connections` what the swarm has, which are not the same when
a peer has two. Active queries are a set; the addresses, ports, sequence number and
disk copy of the ENR and the number of peers a query looks for are left out; the
predicate on the domain is applied when the query ends; queries of a service that
was not started are never polled. In `Handshake` requests and answers may fail in
either direction, and a failure may be handled when its connection is gone; peers'
node infos are a constant.

### Client and the duty services

`NodeClock` counts thirds of a slot. `ValidatorStore` has the metadata service's
publishers (`update_voting_assignments`, `update_voting_context`) with the snapshots
they take, the two callbacks of a committee (`sign_attestations`,
`sign_sync_committee_signatures`) as calls that walk through grouping, the wait for the
context, the check of a proposed vote, the decision, the shares and the
reconstruction, and the batches of shares with the cleaner. A decision is any vote
that this operator's validator admits, or none; a reconstruction comes or does
not. `AggregatorDuties` has selection proofs, the aggregation publisher and
both regimes of publication. `BlockProposal` has the RANDAO reveal, up to two calls of
`sign_block` in a slot with different local blocks, the slashing check, the decided
context (`Recorded`), the proposer packet, which registers the envelope's share with the
block it must come with, the publication, and the callback for the envelope with its
checks (`envelope_admitted`), its refusal and its end in time or too late. `SingleDuties` has the duties of one validator: payload
attestations, proposer preferences, request authorisations, registrations. Its
abstractions: the bound of one second is rounded up to a third of a slot; the clock
moves after the timers that are due have fired (`TimersFired`); the loops of
Lighthouse that call one proposal after the other are external; the shares
of these duties are not tracked. The number of times a root occurs in a batch is left
out. The slashing protection database is a set of attestations and blocks with
Lighthouse's conditions, and all that a restart keeps.

## 3. Runs

`tlc -config <cfg> <module>` for each; the mutation of each property is in
`PROJECT.json`.

| run | what it checks | instance |
|---|---|---|
| `two_rounds` | `TypeOK`, `Agreement`, `RoundChangeKeepsLock`, `LockIsJustified`, `ImplementsConsensus` | 4 operators, 3 of them running in full, 2 rounds, 2 values |
| `refused_value` | `DecidedIsValid` | 4 running operators, 2 rounds, 2 values; operator 3 may restart and refuses the first leader's value |
| `leader_down` | `EveryoneDecides` | the leader of round 1 is down, timers fire in round 1 |
| `signature_collection` | `QuorumNeverIdle`, `EnvelopeFollowsBlock`, `HonestSharesKept`, `EveryCallAnswered` | 3 duties, 4 operators, 2 callers |
| `instances` | `NoPermitLeaks`, `MessagesInOrder`, `RoundsGetTheirTime`, `EveryDecisionAnswered`, `InstancesEnd` | 1 worker, 2 callers, 2 messages, 2 generations |
| `event_sync` | `RegistryMatchesChain`, `RecoveryRestoresState`, `ProtectedBeforeServed`, `ExitsRequestedOnce`, `CatchesUp`, `EveryValidatorIndexed` | 2 histories of 4 blocks, 1 connection or database error, 1 restart |
| `message_validation` | `DutyLimit`, `HeardOnce`, `HonestNotRejected`, `HonestAccepted`, `CleanerForgetsNothing` | 7 roles, a committee of 4 operators with up to 2 validators, epochs of 4 slots, up to 13 messages |
| `subscriptions` | `SettledIsConsistent`, `LifecycleOnlyAdvances`, `Converges`, `UnwelcomePeersLeave` | 2 forks, 2 clusters, 2 subnets, 1 peer; 3 scenarios |
| `duties` | `NothingSlashable`, `OneMessagePerDuty`, `CompleteBatchSent`, `AggregatesOnce`, `EnvelopeServed`, `NoHeadOfLineBlocking`, `ExitsAttempted`, `NoFalseAlarm`, `VerdictsAreTrue` | 2 validators, 3 slots in 2 epochs, 22 scenarios |
| `prepare_quorum` | `PrepareQuorumSendsCommit`: violated | see findings |
| `event_replay` | `DiskMatchesChain`: violated | see findings |
| `slashing_record` | `EmittedRecorded`: violated | see findings |

### What they show

**Consensus.** No two completions differ, whatever the network does and whenever
timers fire; an operator that committed never asks to change the round without
its lock, and each lock that goes out carries the quorum of prepares that
justifies it, so a later leader can use it. `ImplementsConsensus` says more than
agreement: a value is chosen by one step, once, before anybody completes with it.
An operator whose validator refuses a value does not complete with it although the
others decide it and send it the decision, or lock it and propose it again.
A restart in the middle of a round costs nothing of this while at most f operators
do it (by the theorems). With the first leader down, the timers bring all
running operators to a decision in round 2.

**Instances and the processor.** A permit that was handed out is held by an item
in a queue, at work or in a task's channel, never by nothing; a processor whose
only permit is held by a message for a task not yet started starts it all the same. Messages
reach the instance in the order they came, those from before the start
included, except that a full buffer drops. A round entered by a
message gets its full time although the timer of the round before it was
running (Relative mode). Every caller is answered, with an error when the queue was
full or the cleaner came first, and every task ends.

**Signatures.** No collector sits on a good quorum with its registration done;
the envelope's collector uses only shares that came with the decided block; a bad share
costs no honest operator its share; every caller is answered.

**Registry.** After any sequence of batches, live blocks, errors and restarts the
tables are what one pass over the logs makes of them, and memory is what a restart
would rebuild. No validator is served that slashing protection does not know, whatever
fails and wherever a restart falls between the registrations and the commit. An
exit is requested at most once for each exit log. The operator reaches the end of
the chain, and every validator the beacon chain knows gets its index.
What follows from the operator's own id is compared only while the tables hold an
active operator with the own key: a running process keeps the id of its removed
operator, a restarted one has none.

**Messages of others.** Over any order, repetition and delay the time window admits,
and any run of the cleaner, an operator is heard for no more slots of an epoch than
the validator has duties in it, and at most once per type and round, although the
ring of slots forgets and a higher round replaces the counts. The first copy of a
message the protocol sends is never rejected and, in time, is accepted, whatever
others forge or repeat and whatever part of the committee is known. Two messages are
excepted: a leader's round change that arrives after its proposal of another value, and
a packet with more entries than the indices known so far allow (see the observations).

**Subscriptions and peers.** Whenever nothing is on its way, the topics the node has
subscribed, the subnets it advertises and counts peers for, and the domain of its
ENR are what the clusters and the lifecycle ask for; and it gets there. A lifecycle
once published is not taken back by a clock that steps back. Peers that are blocked
or whose handshake failed lose their connection.

**Duties.** No two attestations that reach Lighthouse and no two signed blocks are
slashable together, over restarts, reorganisations of the duties and pruning. A
batch of shares goes out once, and it does go out while nothing is changed under it.
Aggregates have one publisher on both sides of the Boole fork. The envelope of
a block that was published, self-built and brought by one of the calls is not
refused while its payload is not due, also when another call came with another block;
and Lighthouse gets an envelope only of a block it got. One proposal holds up the next by a bounded
time. No exit scheduled in time is dropped before it was tried. A restarted
client is not stopped by its own old messages. The duties tracker never says that a
validator has no duty because it did not ask.

### Bounds, and why they are enough

- *Two rounds and two values* are the least in which a lock can be lost or two
  rounds decide differently. *Three running of four* is exactly a quorum. More rounds
  and operators are the business of the theorems.
- `VIEW View` in `MCQbft` drops stored messages that cannot influence their
  operator any more: those of one that completed, and those of lower rounds except the
  prepares behind its lock. States that agree on the view have the same futures,
  and no property checked under it reads what it drops.
- `two_rounds` lets operator 4 only send its RoundChange, and only in operator
  3's place after the first proposal was lost (`FourthStandsIn`): with it an
  operator jumps into round 2 by the proposal and sees the RoundChange quorum
  afterwards. The proofs have no such bound.
- `refused_value` has all four running, so that the value operator 3 refuses gets its
  quorums from the others in either round. To keep two rounds small, `ThirdRefuses`
  leaves out timers of operator 4 and of round 2, round changes to operators 3 and 4,
  commits to all but one of operators 1 and 3, and the prepares of the refused value
  to operator 3; what is left has the decision sent to the one that refuses it, the
  second leader's proposal of the locked value, and the restart.
- `prepare_quorum` uses `FirstProposalLost` to find its
  counterexample sooner.
- *One worker, queues of 2 and 1, a buffer of 1* make every queue full in some
  state; two generations of tasks let the cleaner come between them; `MaxTime` 4
  goes past the end of the slot.
- *Slots 2 to 4* let the collectors' cleaner find the duty stale. The three
  duties are a Gloas proposal with a repeated envelope share and a bad one, a proposal
  without envelope, and a reveal two callers ask for.
- *Two histories* have every kind of event, an unparsable operator key, a wrong
  nonce, a removed member, a registration repeated after removal, an empty block.
  Batches of two blocks give two batches in four blocks, the second fetched while the first is processed.
- *Message validation* gives each role the fewest messages that fill its limits:
  eight slots for a ring of an epoch and the late window, two rounds for the counts, three
  roots for budgets of two. The committee has two validators and a packet of three entries,
which is over the limit when one index is known and within it when both are. Gloas and Boole start in the second epoch, so that
  messages of both sides of the forks occur. `MaxAccepted` 2 is what `HeardOnce`
  needs; the clock goes on until all messages are late.
- *Subscriptions*: one cluster keeps its subnet at the fork and one moves onto the
  other's, so that two forks' topics share a subnet. A channel of one event is full
  while the service goes on. One scenario lets clusters change over the fork's warm-up and
  activation, one has a clock that is unreadable or steps back with a restart, one
  has a peer, with limits so small that one connection too many is refused.
- *Duties*: the slots lie on both sides of the Boole and Gloas forks, which start
  together in slot 6, and of an epoch. A scenario switches on the services whose
  interplay it is about (`parts`), one change of the registry or one reorganisation
  and one restart at most, and the points in time at which something can happen
  (`times`). The services share the clock, the registry, the batches and the slashing
  protection database; the ones that share nothing more are not run together.
- Deadlock is not checked except in `subscriptions`: an instance, a slot, a chain of
  four blocks and the last slot end.

### Fairness

- `QbftDelivery`: weak fairness of delivery and of the timers of the rounds below
  `GoodRound`, for each operator. From `GoodRound` on timers do not fire: this is the
  usual assumption that a round is once long enough. An operator gets a
  proposal, prepare or commit of a later round after the quorum of round changes
  behind it: the other order is the one of the finding `prepare_quorum`, where an
  operator may sit out the round.
- `QbftManager`, `SignatureCollector`: weak fairness of every task that is ready, of
  the processor, the cleaner and the clock. Tokio polls every woken task, and timers fire. None on what
  comes from the network.
- `EventSync`: weak fairness of new blocks, of the syncer, of each processor and
  of the requests of indices; strong fairness of `StoreIndices`, which competes with the processors
  for the one connection: r2d2 wakes a waiter whenever it comes back. None on
  errors, timeouts and restarts. The timeout of a wait for the connection may
  happen any number of times.
- `Network`: weak fairness of the monitor, the service's steps, the network's
  handling of events it has, the closing of connections and the results of handshakes;
  strong fairness of the two arms of the service's `select!`, which takes its ready arms in
  random order. None on peers, discovery, the clock, clusters, errors and restarts.
- `MessageValidator`, `Client`: none; their properties are safety properties.

### Findings

- `prepare_quorum` (code). `received_round_change` starts the round again when a
  quorum of round changes completes for the round the operator is already in. If
  it had entered by a justified proposal, it goes back to `AwaitingProposal` with
  the proposal accepted: the quorum of prepares then sends no commit, and the
  proposal delivered again is refused. Safety is kept, the operator sits out the round.
- `event_replay` (code). A batch that cannot be fetched ends `historical_sync`
  with `batch?` while the processor of the batch before still runs on its blocking
  thread. The retry starts at the same block, and both process it: an owner's nonce
  goes up twice and later registrations are turned down. In
  `event_sync` the states after that are marked `orphaned` and excluded.

- `slashing_record` (documentation and code). The comment of
  `slashing_protection_attestations` says that every attestation is recorded so that
  the slashing database reflects the partial signatures that were emitted.
  `sign_attestations` records after the emission, and only the attestations whose
  signature was reconstructed. What is published stays safe (`NothingSlashable`).

Observations made while modelling, which no run is about:

- `received_commit` turns down commits that come before the proposal, where its
  comment says they are allowed; the decided message makes up for it.
- `validate_qbft_logic` holds every message with full data, round changes included, against
  the hash of the signer's proposal of the round, where its comment speaks of two
  proposals. A leader whose round change carried one prepared value and who then had to
  propose another, by a higher lock in the quorum, gets that round change rejected at
  nodes where it arrives after the proposal. `HonestNotRejected` and `HonestAccepted`
  leave this round change out (`Contradicted`); `message_validation` has such a leader,
  and TLC refutes `HonestNotRejected` at once without the exception.
- The limit on the entries of a packet (`entry_limit`) follows from the number of validator indices this node knows
  of the committee. While some are known and some are not, an honest packet may have more
  entries than that allows, and it is rejected (`TooManyPartialSignatureMessages`), where a comment
  of the same file does not assume the operators to be in step on the validators of a
  committee. `HonestNotRejected` leaves exactly this packet out (`PartlyIndexed`); TLC
  refutes the property without the exception.
- A second connection of a connected peer passes the limits, and when either closes
  `on_connection_closed` forgets the peer. `set_target_peers` makes new limits
  that do not know the connections there are. The heartbeat disconnects peers whose
  subscriptions were not observed yet.
- An inbound peer that never sends a handshake request is never verified, and there
  is no new handshake at a fork. With discovery disabled each heartbeat adds queries
  that nothing polls.
- An exit that is added while the last exit of its slot is removed goes with it;
  exits are removed also when their submission failed; a restart forgets all.
- The exit processor is started before the doppelganger check ends and the sender
  has no check of its own, where the service's documentation speaks of all outgoing
  messages. A twin found just when the period ends may be passed over by `select!`.
- A cluster liquidated within a slot leaves the committee's batch short: nothing is
  sent for the others. A validator whose duty a reorganisation brings into the slot
  after its snapshot is signed for without the preliminary slashing check; the check
  before publication still holds.
- Queued signing work of a collection that timed out still emits its share.

## 4. Proofs

Eight modules hold theorems, each beside the module it is about. A theorem holds
for every value of the constants that meets the assumptions named below; TLC
evaluates these on the instance of every run.

| module | theorems | about |
|---|---|---|
| `QbftProofs` | `TypeCorrect`, `LocksJustified`, `OnePrepareHolds`, `KeepsLockHolds`, `AgreementHolds`, `AtMostOneChosenHolds`, `ValidityHolds`, `RefinesConsensus` | every committee of 3f + 1, any values, validators and rounds |
| `QbftManagerProofs` | `ManagerTypesHold`, `NoPermitLeaksHolds`, `RoundsGetTheirTimeHolds`, `MessagesInOrderHolds` | any number of workers, callers, messages and generations, queues and buffer of any size |
| `SignatureCollectorProofs` | `CollectorTypesHold`, `QuorumNeverIdleHolds`, `EnvelopeFollowsBlockHolds`, `HonestSharesKeptHolds` | every cluster and threshold, any duties and traffic |
| `MessageValidatorProofs` | `ValidatorTypesHold`, `HeardOnceHolds`, `DutyLimitHolds`, `CleanerForgetsNothingHolds`, `OriginInvariant`, `HonestNotRejectedHolds`, `HonestAcceptedHolds` | every role, committee and traffic, forged messages included |
| `EventSyncProofs` | `SpecSound`, `SpecProtectedBeforeServed`, `SpecRegistryMatchesChain`, `SpecExitsRequestedOnce`, `SpecRecoveryRestoresState`, `SpecRegistryMirrored` | every history of the contract, batch size, number of concurrent fetches, of errors and of restarts |
| `NetworkProofs` | `LifecycleOnlyAdvancesHolds`, `SettledIsConsistentHolds` | every valid schedule, any clusters, subnets, peers and capacity of the channel |
| `ClientProofs` | `NoFalseAlarmHolds`, `VerdictsHold`, `ExitsAttemptedHolds`, `NoBlockingHolds` | any validators, slots, exits and number of restarts |
| `StoreProofs` | `NothingSlashableHolds`, `EnvelopeServedHolds`, `AggregatesOnceHolds`, `OneMessagePerDutyHolds`, `CompleteBatchSentHolds` | likewise, any votes and blocks |

Each states the property of the same name that a run checks, except the type
invariants of `QbftManager`, `SignatureCollector` and `MessageValidator`, `OriginInvariant`,
`SpecSound` and `SpecRegistryMirrored` of `EventSync`, and
`OnePreparePerRound` and `AtMostOneChosen` of `Qbft`, which no run lists. They are about
`Spec` and do not use its fairness. `SpecRecoveryRestoresState` has two hypotheses that
the run does not need: the history follows `ContractRules`, and no processor was left
running. Without the first it is false: `INSERT OR IGNORE` keeps the row of a liquidated
cluster to which a validator is added, and the update queued with it makes the cluster active in memory.

### Assumptions

They say what the code or its configuration guarantees.

- `Qbft`: `CommitteeAssumption` (N = 3f + 1, f >= 1, at most f operators restart),
  `ValuesAssumption`, `ConfigAssumption`.
- `Processor`, `QbftManager`: queues of at least one place (`ProcessorAssumption`); the effect of a message, the
  bounds and the clock are typed (`ManagerAssumption`).
- `SignatureCollector`: a finite cluster this operator belongs to, with a threshold
  no larger than it (`ClusterAssumption`); the callers' jobs and the traffic are typed, and the
  duty is not ahead of the clock (`JobAssumption`).
- `DutyState`, `MessageValidator`: the late window is at most an epoch
  (`LATE_SLOT_ALLOWANCE <= SLOTS_PER_EPOCH`, 2 and 32 in the code), an epoch has an even number of slots, and the two margins
  together at most a slot (1 s and 3 s, each with a clock tolerance of 50 ms, of 12 s); a finite committee with finitely many validators; kinds, slots and rounds as decoding gives them
  (`TrafficAssumption`).
- `MessageValidator`, for the two theorems about honest messages: what a message marked
  honest is (`HonestAssumption`). Its content is that of the protocol and its encoding
  sound; the role is active and the duty assigned; its signers have signed for no more
  slots of the epoch than they have duties; and a single signer has signed, in the slot,
  one message of a type and round, one packet of a counted kind of partial signatures
  and few signing roots of the others. "Signed" means that the signature verifies, so the
  assumption also says that nobody forges one; of all other traffic it says nothing.
  `OnePreparePerRound` and `OneMessagePerDuty` show the like of this implementation.
- `EventSync`: batches and concurrent fetches of at least one (`SyncAssumption`); the chain is a
  sequence of blocks, a block a sequence of logs, and a log's fields have the types decoding
  gives them (`ChainAssumption`). Nothing is assumed of which logs follow which.
- `ForkMonitor`, `SubnetService`, `Network`: the schedule is one the code accepts
  (`ScheduleAssumption`); a subnet id is in range (`SubnetAssumption`); a process starts with a
  readable clock (`ScenarioAssumption`): `spawn` of the monitor fails otherwise.
- `Client` and its services: types of slots, duties, votes, blocks and exits, and of
  the age a decision is kept for (`BlocksAssumption`); an exit is
  known by its validator and block (`ExitAssumption`); the slashing history of a scenario
  is one the database let through (`StoreAssumption`). A validator is in at
  most two sync subnets, as in the model.

### Arguments

None of the invariants is inductive as it stands; these are the strengthenings.

**Qbft.** Three layers.

1. `TypeInv`: types; what is in a container was sent; the lock of an operator is
   held with its prepares in the container and its data, so the round change it sends is
   justified.
2. `LockInv`: what an operator that kept its state has sent lies behind its round;
   a commit was preceded by the lock; justifications consist of
   messages that were sent; one prepare per round; no round change below a commit.
3. `SafeInv`: in `PreparesSafe`, if a value could still be chosen in a round
   (`CouldBeChosen`: a quorum whose state-keeping members committed it there or may
   still do so), no prepare of a later round is for another value. A proposal of a later round is
   justified by a quorum of round changes; it meets that quorum in an operator that
   kept its state, because two quorums share f + 1 operators and at most f
   restart; that operator's round change claims a lock at least as high as its commit, and the
   highest lock is what the leader must propose. The step is a case analysis over
   the round of that highest lock.

Completions then follow: `DecidedCommitted`, `CompletedChosen`, and the
refinement from the fact that `chosen` never shrinks and never has two members.

**QbftManager** (`ManagerInv`). `Queues`: the processor starts a task once, and no
message is on its way to a task that was not spawned, so no permit is counted at
two places. `TaskInv` says per phase where the messages sent to a task are: handed on,
in the buffer, or in the channel; `InOrder` relates these to the order of sending and
to how many the full buffer dropped, and is kept by a lemma for each of sending, taking,
buffering, dropping and replaying.

**SignatureCollector** (`CollectorInv`). `Sound` holds at any point of the
collector's loop, `Idle` only where it waits. A lemma for each operator of the loop says
that it keeps `Sound` and which shares it keeps (`Keeps`); the actions compose them.

**MessageValidator** (`ValidatorInv`). What was accepted is remembered in a ring of
signer states that overwrites, so "remembered" cannot be invariant. The proof is about
time: an entry is overwritten only by a slot at least `stored_slot_count` above it,
and when the window of that slot opens, every slot of the old entry's epoch is late
(`OverwrittenIsLate`; `LeftBehindIsLate` for the cleaner). So an accepted message is kept
or late (`HeardInv`), and the accepted slots of an epoch are in the ring, which
the rules hold to the limit, or the epoch is over (`DutyInv`). For a message in time an
operator the cleaner drops reads like a fresh one, hence `CleanerForgetsNothing`.

For the honest messages `ValidatorInv` does not say enough: a counter could be full for a
reason other than the signer's own messages. `OriginInv` says where everything in the
ring comes from (`Sourced`): a slot from a message with the operator's verified signature, a
round above the first, counters, proposals, sets of signers and signing roots from
accepted messages of that slot and round, the highest slot from an accepted message, except
that preferences that only failed the root budget leave an entry as well. It
is inductive together with `ValidatorInv`, and a committee has entries only once its
validators are known. A rule that reads the duty state can then fail only on account of
another message of the same signer, which `HonestAssumption` excludes, or for a reason that
is ignored and not rejected. The two exceptions are in the properties themselves
(`Contradicted` and `PartlyIndexed`, see the observations in section 3). The rules are composed in their order (`HarmlessConcat`):
the limits on the size of a packet would reject one of a committee none of whose
indices is known yet, but the duty count before them ignores it; with some known, the
packet fits (`EntriesFit`) or is the excepted one.

**EventSync.** What a block does is a recursive function over its logs and what memory
becomes one over the queued updates. Neither needs an induction theorem with an operator
parameter: `NatInductionOnSet` says that a set of numbers with 0 and every successor holds
all of them (from the well-foundedness of `<`), and each use gives it the set of numbers
for which the claim holds. `LogContextsEquation`, `UpdatesAppliedEquation` and
`ReplayEquation` show in this way that the recursive definitions satisfy their equations. Then:

1. One lemma per statement of the database (`InsertOperator`, `DeleteValidator`, ...)
   and one per handler: if memory mirrors the tables (`Consistent`), it does so after the
   statement and the update queued with it (`LogStep`). `BlockContexts` carries this over
   the logs of a block, aborted or not.
2. `Sound`, kept by every step: `Visible`, memory once the committed transaction is
   published, mirrors the tables; the thread with the connection is the one in a
   transaction or publishing it; the batches fetched, being fetched and pending are the last
   ones of the round, in order (`Pieces`); the threads no syncer waits for are no more than the errors,
   so there is a free one; and a processor about to commit has registered the validators of
   the block it has in its transaction (`PreparedOK`), so what a commit adds is protected
   whichever step fails or is cut off before it. It needs no bound on what an orphaned processor does.
3. `InStep`, while nothing is orphaned: the one processor's blocks begin after the last
   committed block and leave out only blocks without logs (`Covers`), and the next batch begins where it
   ends, also across restarts and the switch to live sync. So a commit is of the next block with logs (`CommitInOrder`).
4. `InReplay`: the tables hold the registry of `Replay(chain)` at the last processed block.
   It rests on `SameBlock`: from tables that differ only in the validators' indices and the block number, a block
   leads to such tables, whatever own id is known and whether the sync is live.
5. `ExitsOK`: the requests sent so far can be mapped one-to-one to `ValidatorExited` logs of blocks already
   published; a count of both sides (`RequestsBounded`) gives the bound.
6. `OwnOK`: shares and own clusters in memory follow from an own id that is the only one registered
   for the key. `FlagsOK`: memory's liquidated flags are the tables', and each flag set is
   the work of the last status log of its cluster up to this point of the chain
   (`LiquidatedOK`), so by `ContractRules` no validator is being added to that cluster.

**Network** (`NetworkSafe`). `MonitorInv`: the published lifecycle is that of the
highest slot seen, and `lifecycle_at` is monotone. `ServiceInv`: the topics told are
what the service has recorded and its remaining events; the events in the channel lead, one
by one, from the topics joined to the topics told (`Chain`). `NetworkInv`: the counts per
subnet are those of the topics joined, and ENR, metadata and wanted peers are the
subnets with a count. With an empty channel and an idle service the three give `Consistent`.

**Client.** Each service has an invariant over its own variables and the clock, and a
step lemma saying that a step of the client is one of the service, a restart, or leaves
it alone. The doppelganger check: a process takes its start for the end of the one before
it. The tracker: verdicts in the schedules are those the beacon node would give, and polls
hold what they asked for. Exits: during a round the processor holds every exit in
time up to its slot, or attempted it. Passes: a call under way ends within its pass's bound.
`SlashingInv`: everything published or signed is in the database or lies below a record that the prune kept,
so a later check still refuses it (`VotesOK`, `BlocksOK`). `EnvelopeInv`: what is on record for a slot is the decision of its
instance; a call that has a decision finds it on record while the slot is recent, with
`built_locally` if its own block was decided (`CallOK`), whatever a second call records;
once it signs, the envelope is registered with its block, and only then can the block
be published; so a callback that is refused lacks something `EnvelopeExpected` names. `CommitteeInv`,
`ValidatorInv`, `AggregatesInv`: a process has sent once, and has not sent while the record
says so and the cleaner has not come; the two paths of an aggregate
are separated by the fork its slot is in. `SteadyInv`, while the registry and the duties of a
slot have not changed: the assignments and the contexts are snapshots of the slot's duties, a call
holds the items wanted of it, its size is the number of shares to expect, and a batch not
yet sent holds exactly what the two calls have signed, which is not everything. When both have
signed everything the batch is therefore out, or the change excuses it. `CompleteBatchSentHolds`
has the hypothesis `DutiesServed`: no validator with a duty is in a liquidated cluster, which
`voting_pubkeys` sees to; without it such a validator would be counted and not signed for.

### Model-checked only

Liveness, everywhere: the proof system has no reasoning about fairness and `ENABLED`
that would do. Every invariant and every action property of a passing run is stated by a
theorem.

## 5. Not modelled

Byzantine operators in consensus (the message validator does see forged and
superfluous messages); the content of blocks and votes beyond what a check reads,
and the beacon node; BLS and RSA arithmetic, encodings; libp2p, discv5, gossip
scores, message rates, addresses and ports; graffiti, builder boosts and gas limits;
key splitting mode and schema migrations; the width of the nonce of an owner (a `u16`
that the database increases with each registration); reorganisations of the execution chain (the
follow distance keeps them away from the logs); configuration, metrics, logs and the HTTP
API. `components` in `PROJECT.json` says for each part what is in and what is out.

## 6. Plan

1. *Done:* `Qbft` with `Consensus` and proofs; `QbftManager` on `Processor`;
   `SignatureCollector`; `NetworkDatabase`, `EventProcessor`, `EventSync`;
   `MessageValidator`; `Network` with the fork monitor, the subnet service, peers,
   discovery and handshakes; `Client` with the duty services.
   Proofs: the safety of `QbftManager` on `Processor`, `SignatureCollector`,
   `EventSync`, `MessageValidator`, `Network` and `Client`.
2. A second peer in `subscriptions` and the registry of `EventSync` under
   `Client`, where larger instances allow it.
