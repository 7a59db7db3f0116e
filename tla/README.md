# stellflow-go-sdk: specification

TLA+ modules, TLC configurations and TLAPS proofs beside the Go client of
StellFlow. Every module is translated from the source at this commit; the names
of variables and actions follow the names in the code, and `PROJECT.json`
(`map`) gives the lines of each definition.

Contents: [the system](#the-system) ·
[hard behaviours](#what-is-hard-in-this-code) · [modules](#the-modules) ·
[runs](#what-the-runs-check) · [bounds](#bounds) · [fairness](#fairness) ·
[proofs](#what-is-proved) · [disagreements](#where-the-code-and-its-documentation-disagree) ·
[not modelled](#what-is-not-modelled) · [plan](#plan)

## The system

The SDK is a library. A `stellflow.Client` (factory) owns a connection pool, a
protocol client on top of it and a metadata manager, and hands out producers,
consumers, transactions and an admin client that share all three. Every
exported method may be called from any goroutine; the SDK starts goroutines of
its own for each connection (`readLoop`), each asynchronous producer
(`asyncWorker`) and each group member (heartbeat and commit loops).

| Component | State | Operations | Talks to |
|---|---|---|---|
| Connection (`internal/transport/connection.go`) | `pending` map under `pendingMu`, `closed` channel, `writeMu`, one result channel per call | `Dial`, `Send`, `Close`, `readLoop` | the socket; callers through their result channels |
| Pool (`internal/transport/pool.go`) | `connections`, `dialing` under `mu` | `Get`, `Invalidate`, `Close` | dials connections |
| Protocol client (`internal/protocolclient/client.go`) | correlation counter, cached version ranges per endpoint | `Send`, `APIVersions`, `Metadata`; the attempt loop | `Pool.Get`, `Connection.Send`, `Pool.Invalidate` |
| Metadata manager (`internal/metadata/manager.go`) | `response`, `brokers`, `routes` under `mu` | `Refresh`, `Route`, `RefreshRoute`, `PartitionIDs`, `Invalidate` | protocol client; read by producer, consumer, admin |
| Producer, one batch (`producer/producer.go`) | `orderLocks`, `inFlight`, `initMu`, `producerID`, `epoch`, `sequences` | `Send`, `produceRecords` | routes, protocol client |
| Producer, asynchronous (`producer/async.go`, `future.go`) | `asyncCh`, `flushCh`, `stopCh`, `closed`, the worker's batches, futures | `SendAsync`, `Flush`, `Close`, worker | `selectPartition`, `produceRecords` |
| Producer, topics (`producer/producer.go`, `partitioner.go`) | round-robin counter | `selectPartition`, `ensureTopic`, `createTopic` | route cache, protocol client |
| Transactions (`producer/transaction.go`) | none beyond the producer's identity | `InitProducerID`, `BeginTransaction`, `CommitTransaction`, `AbortTransaction`, `EndTransaction` | protocol client |
| Consumer (`consumer/consumer.go`) | subscription, assignments and positions, paused set, group session, time of the last poll, all under `mu`; two loops | `Subscribe`, `Assign`, `Poll`, `Seek`, `Pause`, `Resume`, `Commit`, `Close` | routes, the group coordinator |
| Admin (`admin/admin.go`) | none | `ListOffsets`, `CreateTopic`, `CreateTopicIfAbsent`, `Metadata` | route cache, protocol client |
| Codec and messages (`protocol/…`) | none | encoding and decoding | – |
| Observability | none that steers the client | logging, spans | – |

What makes each component correct:

- **Connection**: an answer reaches the call that asked and no other; nobody
  blocks on a result channel (a block in `failPending` would hold `pendingMu`
  for ever); a call that gave up leaves nothing behind; after `Close` everything
  that waits is released, the reader included.
- **Pool**: one dial at a time per endpoint, its waiters always woken; no open
  connection is lost from sight; a late `Invalidate` does not tear down the
  successor of the connection that failed; after `Close` nothing is open.
- **Metadata manager**: a refreshed route is as new as the overlapping refreshes
  allow; a retry is refused only if the leader changed; a topic that exists is
  not created again; a key keeps its partition.
- **One batch**: batches of a partition do not overlap; tokens are returned on
  every way out; one producer id; acknowledged batches use consecutive sequence
  numbers; no gap; no batch appended twice; the metadata returned is that of
  the caller's own batch; a call waits without a limit only for its requests.
- **Asynchronous producer**: no record lost, repeated or completed twice; order
  of the queue kept per partition; `Flush` is a barrier; `Close` leaves no
  future open of a record that was taken before it; everything ends but what
  came too late for the worker.
- **Protocol client**: requests that may still be answered have different
  correlation ids; one call's failure does not take down a connection that
  works for others; a cached version range that is out of date fails nobody.
- **Consumer**: a commit covers only what `Poll` has taken; the offsets it
  commits do not go back; the loops of one session
  run, and none after `Close` or `Assign`; the listener is told of every change;
  a coordinator that moves costs a call one attempt at most.

## What is hard in this code

The list with lines is in `PROJECT.json` (`hazards`). The kinds that matter:

- *Interleavings between a check and a use*: `isClosed` and the enqueue in
  `SendAsync`; the registration of a call and `failPending`; the dial outside
  `mu` and its installation; `producerID` read, then initialised under `initMu`.
- *Requests that outlive their caller*: a broken connection or a passed deadline
  says nothing about whether the broker executed the request, and both the
  protocol client and `produceRecords` send again.
- *Answers applied in another order*: two refreshes whose responses are
  installed in the order they return; the whole map is replaced each time; two
  goroutines that commit snapshots taken at different times.
- *Goroutines that outlive what started them*: a heartbeat loop that joins the
  group again while `Close` or `Assign` stops it; loops are canceled and never
  awaited.
- *A cache or a copy of what changes elsewhere*: the coordinator in the session,
  in the heartbeat loop and in a join; the versions of a broker.
- *A counter at its end*: correlation ids wrap in two steps.
- *Selects over several ready channels*: the worker chooses at random between
  records, flushes, the ticker and stop.
- *Cleanup on every exit*: locks, in-flight tokens, pending entries and wait
  channels must be released on success, error, cancellation and close.

## The modules

A step of a module is what the code does between two points where another
goroutine can see it: one hold of a mutex, one channel operation, one system
call, one request on its way.

| Module | Models | Composes |
|---|---|---|
| `ProduceRecords` | concurrent `produceRecords` calls, with `acquireOrdering`, `acquireInFlight`, `initProducerID`, `batchIdentity`, the attempt loop and `commitSequence`, over a broker and requests that outlive their attempts | refines `Delivery` when nothing is lost |
| `Delivery` | abstract: acknowledged batches are in the log, failed ones are not, once each | – |
| `Connection` | `Send`, `readLoop`, `removePending`, `failPending`, `Close` on one connection, with a peer that answers in any order or never | refines `Rpc` |
| `Rpc` | abstract: a remote call returns the answer to its own request, one the peer received, or an error | – |
| `Pool` | `Get`, `Invalidate`, `Close` with the attempt loop of `sendWithVersion` as the caller | – |
| `AsyncProducer` | `SendAsync`, `Flush`, `Close`, the worker, the futures; `produceRecords` is one step with any outcome | stands above `ProduceRecords` |
| `MetadataManager` | the route cache with the calls that share it: `ListOffsets`, `selectPartition` with `ensureTopic` and `createTopic`, `CreateTopic`, `CreateTopicIfAbsent`, `Refresh` | – |
| `ProtocolClient` | `Send`, `resolveAPIVersion`, `sendWithVersion`, `nextCorrelationID`, the version cache and the fallback, over one shared connection | takes a dial from `Pool` and a request from `Connection` as single steps |
| `ConsumerGroup` | `Subscribe`, `Assign`, `Close`, the joins of `Poll` and of the heartbeat loop, both loops, the listener | – |
| `ConsumerPositions` | `Poll`, `Seek`, `Pause`, `Resume`, `Commit`, the offsets of a rejoin or an `Assign` | one join at a time, which `ConsumerGroup` looks into |
| `CoordinatorClient` | `findCoordinator`, `refreshCoordinator`, `coordinator` and the two attempts of commits, heartbeats and offset fetches | – |
| `MC…` | small instances: functions that a cfg cannot write | |
| `…Proofs` | inductive invariants and theorems | |

How state and actions correspond:

- **`ProduceRecords`**. `pc[c]` names where a call stands: `ordering` (waiting
  for the token of its partition), `ensureID`, `initMu`, `initRequest`,
  `identity`, then the loop `route`, `inFlight`, `send`, `backoff`, then
  `commit` and `unlock` (the deferred release). `lock` and `inFlight` count the
  tokens in the channels the code uses as locks. `net` holds written requests;
  one attempt may be written up to `MaxCopies` times because `protocol.Send`
  retries under it. `expired` is a context that is done; every wait looks at it
  as the code's `select` does. The broker is external: it appends a batch whose
  base sequence is expected, acknowledges an exact repeat, or answers any error.
- **`Connection`**. `pending` maps ids to calls, `ch` is the one-place result
  channel, `writeMu` the call inside `conn.Write`. `closing` follows the body
  of `closeOnce`: `open`, `chan` (the channel `closed` is closed), `conn` (the
  socket too), `done` (`failPending` ran). `reader` follows `readLoop`.
  `received`, `answered` and `inbound` are the peer and the wire.
- **`Pool`**. A connection, and the wait channel of the dial that makes it, are
  named by call and attempt. `dialing[e]` and `connections[e]` are the two maps;
  `woken` are closed wait channels. `Install` and `GetFails` are the two ends of
  a dial, both of which delete the dial and close its channel.
- **`AsyncProducer`**. `asyncCh` is the buffered channel; `worker` is where
  `asyncWorker` stands (`select`, `drain`, `flush`, `produce`, `stopped`), `task`
  is what made it drain. `Add` collects a record in the batch of its partition
  and hands a full batch to `produceRecords`; `Tick`, `TakeFlush` and `TakeStop`
  drain and flush. `SendAsync` and `Flush` look at `closed` in one step and go to the
  worker in a later one, also when `Close` runs between the two. `enqueued` and
  `covers` are history for `KeyOrder`, `FlushBarrier` and `CloseFlushes`.
- **`MetadataManager`**. A partition gets a new leader with every epoch, so the
  epoch stands for the whole `PartitionRoute`, and 0 for no route. A refresh is
  `asking` (the broker has not looked yet), `answered` (the response is on its
  way back) and `Update`, which replaces every route. `Cached` is the look at
  the map that `Route` and `PartitionIDs` make before and after the refresh, in
  steps of their own. The leader accepts a request only if the route is that of
  its epoch and the epoch sent is: that of the route, or the caller's own
  (`leaderEpoch`, which `ListOffsets` keeps in both attempts). `autoCreate` is the
  producer's option: without it `ensureTopic` stops at the first look. `began`,
  `overlap` and `replaced` are history: the epochs when a call's refresh began,
  those at which the refreshes then under way had begun, and the calls of which
  the routes they had brought were taken away before they looked.
- **`ProtocolClient`**. `pc[k]` is where a call of `Send` stands and `phase[k]` which
  of its requests it makes: for the `versions`, the `request`, the `fallback`.
  `nextID` is the atomic counter; `DrawID` adds one and may overflow to the least
  int32, `StoreID` is the `Store(1)` that follows. `connection` numbers the
  connections the pool has had; `Pending` requests are in the map of the current
  one, `orphans` are those whose caller timed out and that may be answered. Such an
  answer is dropped (`LateAnswer`), unless a call waits under the same id, after a
  wrap or a race at one: `readLoop` gives it that answer, with the code it carries or
  a body that is decoded as another one (`CrossedAnswer`), and its own request is an
  orphan then. The width of the ids is `MaxID`. `draws`, `drawn` and `raced` are history: which
  draw gave an id, and whether somebody drew between the two steps of a wrap.
- **`ConsumerGroup`**. A join and its loops have the name of the generation the
  coordinator gave it. `pc[c]` of a caller and `pc[n]` of a heartbeat loop follow
  `joinSubscription`: two requests, `diff`, `revoke`, `install`, `notify`, the
  session, and the four holds of `mu` that stop and start the loops. A loop that
  is in `stopHeartbeat` or `stopCommit` has had its context canceled and ends at
  its next `select`. History: `closed` and `manual` (`Close` or `Assign` was the
  last word of the application), `assignUsed`, and `overlapped`, set when a join,
  an `Assign` or a `Close` begins while another is under way, or when a loop that
  was told to stop joins again after its last heartbeat. The code does not
  serialise these, and what it promises fails when they overlap; the properties
  say what holds for every other interleaving: of heartbeats, commits, ticks,
  failures and stops.
- **`ConsumerPositions`**. `nextOffsets`, `consumedOffsets` and `paused` are the maps
  under `mu`, with -1 where there is no key. One `Poll` is under way (`pollPc`), its
  fetch in flight between the hold of `mu` that read the position and those of
  `toRecords` that advance it record by record. `snapshot[k]` is what a `Commit`
  has still to commit, and `late` the OffsetCommits that timed out, or whose
  connection broke, after they were written: the coordinator may carry them out at
  any time, also after newer ones, for a request names neither a member nor a
  generation. Every member of the group is assigned every partition
  (`assignmentFromMetadata`), so another one commits any offset of any partition at
  any time (`OtherMemberCommits`). `superseded` are the Commits under way that began
  before the newest, and `old` marks their requests. History: `accounted` (offsets
  returned, dropped by a `Poll` that failed, or skipped on purpose), `polled` records
  of the `Poll` under way, `ours`, the offset last carried out for this client, and
  `movedBack`, the partitions whose commits may go back: because a position was
  installed (by `Seek`, `Assign` or a rejoin) that a commit had overtaken, or
  because a fetch outlived the assignment it was begun for, or found none.
- **`CoordinatorClient`**. A session's endpoint is a host and a port: a read that is
  torn by a write may take them from two endpoints. `reading` is the session a
  `Commit` got under `mu` and reads afterwards; `heartbeatSession` is the loop's
  copy; a join hands its endpoint on to its offset fetches. `moved` is history:
  the calls during which the coordinator moved.

## What the runs check

| Run | Instance | Shows |
|---|---|---|
| `produce_lossy` | 3 calls (2 of one partition), 2 producer ids, 2 attempts, 1 in flight; deadlines pass, sends fail | `TokensMatchHolders`: no lock or in-flight token lost on any exit; `AckedBatchesTileSequences`; `NoSequenceGap` |
| `produce_live` | 2 calls of one partition, 2 attempts, each written twice | `AppendedAtMostOnce` under retries at both levels; `StuckOnlyInRequests` |
| `produce_reliable` | as lossy, without deadlines and broken connections | `DeliveryKept`: `ProduceRecords` implements `Delivery`; `MetadataNamesOwnBatch` |
| `connection` | 3 calls, any order of answers, cancellation, failing writes, `Close` | `ChannelsEmpty`, `NothingPendingAfterClose`, `PendingCallsInSend`, `RemoteCall` (implements `Rpc`), `ClosedEndsAll` |
| `pool` | 3 calls × 2 attempts, 1 endpoint, failing dials, broken connections, `Close` | `SingleFlight`, `OpenConnectionsOwned`, `EvictedByUser`, `EveryGetReturns` |
| `async` | 3 records for 2 partitions, queue of 2, batches of 2, a `Flush` and a `Close` that may be canceled and race each other and every `SendAsync` | `TypeOK`, `RecordsAccounted`, `KeyOrder`, `FlushBarrier`, `CloseFlushes`, `EverythingEnds` |
| `metadata` | 2 calls of any kind, also with an epoch of the caller's or without creating topics, 2 topics × 2 partitions, one partition changes leader, 2 bootstrap endpoints | `RefreshedRoute`, `RefusedOnlyOnChange`, `CreatesOnlyMissing`, `KeysStayWhileLed`, `CallsReturn` |
| `protocol_client` | 2 calls, 2 versions, 2 attempts, 3 ids, a broker that changes its versions and breaks a connection once | `LiveIdsApart`: no answer matches another request; `HealthyStays`: no call takes down a connection that works; `FallsBack` |
| `consumer_group` | 1 goroutine with 3 calls, 2 generations, 2 partitions, auto-commit on | `CloseStopsWork`, `LoopsServeSession`, `ManualStays`, `ListenerFollows`, `StoppedLoopsEnd` |
| `consumer_positions` | 2 partitions, logs of 2 records, 2 committers, 4 calls in any overlap and one event: a rejoin, a request that times out, or a commit of another member | `CommittedWasTaken`: at least once; `CommitsForward` |
| `coordinator_client` | 2 brokers, 2 committers with up to 2 partitions, the heartbeat loop, a join, a coordinator that moves once, a second session | `SecondAttemptReaches`, `CallsEnd` |
| `produce_reuse` | as lossy | finds the promise of `Send` broken: see [below](#where-the-code-and-its-documentation-disagree) |

The type invariants are not among the properties of the runs, except that of
`AsyncProducer`: `TypeCorrect` (in `CoordinatorClient`'s case `CoordTypeCorrect`) proves
each of them for every instance.
`PROJECT.json` (`mutants`) names, for every property of a passing run, a variant
of a definition with a plausible bug under which TLC finds the property
violated; the variants stand in the modules beside the definitions.

## Bounds

- `Calls`, `Records`, `Flushers`: one call per element, each called at most
  once. Two calls of a partition are the least that can collide on a lock or a
  sequence, a third adds a competitor for the shared limits (one in-flight
  place, one producer id, one pending map). A connection with three calls can
  have one answer late, one given up and one pending at a time.
- `MaxAttempts = 2`: the default of `RetryMaxAttempts`; the first failure and
  the last one differ only in whether an attempt is left.
- `MaxCopies`: how often one attempt is written by the retries of the protocol
  client. One copy is enough for lost and late requests of different attempts;
  only `produce_live` takes two, for a repeat within an attempt.
- `MaxInFlight = 1`, `QueueSize = 2`, `BatchSize = 2`, `BatchBytes = 3`: small
  enough that calls wait, that the queue is full and that both limits of a batch
  are met (`big` fills one alone).
- `Pids`: two, so that a second `InitProducerId` would be seen.
- `Movable`, `MaxEpoch = 2`: one partition loses its leader and elects another,
  which makes cached routes stale, and partitions without a leader.
- `Lossy = FALSE` (`produce_reliable`): no deadline passes and no connection
  breaks. The refinement needs it: a batch that is given up may be in the log.
- `MaxID = 3` (`protocol_client`): the counter wraps within the calls' attempts, so
  that both steps of a wrap interleave with draws of others. `MaxChanges` and
  `MaxBreaks` of 1 make the cached versions old and the connection broken at any
  time; a second change would only restore a case seen before.
- `MaxJoins = 2`, `MaxCalls = 3` (`consumer_group`): a second generation replaces the
  first, by a call, by `Poll` or by the heartbeat loop, and is stopped by the third
  call. The two offers have no partition in common, so that a rejoin may revoke
  and assign. One goroutine suffices to interleave with four loops; overlapping
  joins come from the heartbeat loop.
- `MaxOffset = 2`, `MaxCalls = 4`, `MaxEvents = 1` (`consumer_positions`): a `Poll`, a
  move of the position, two commits and one event can overlap in any order, and a
  commit can lie before, at and behind each of them. Both ways in which offsets go
  back (`movedBack` and an old request) occur: `CommitsForward` fails without either.
  `OffsetReset` is `earliest`, the one under which a rejoin of a group without
  offsets puts a position back behind what was polled. Two events at once, a request
  that times out during a rejoin, are left to the proofs.
- `MaxMoves = 1`, `MaxSessions = 2`, `MaxCalls = 3` (`coordinator_client`): every copy
  of the address can be old, from this session or the one before, and is
  refreshed by two calls at once.

`protocol_client` and `consumer_positions` are symmetric in calls, partitions and
committers; they check no liveness, where symmetry would be unsound.

A call, record or Close that is over leaves the system with nothing to do, so
the runs do not check deadlock; that everything ends is a liveness property.

## Fairness

- `ProduceRecords`: weak fairness of each call's steps (Go runs every goroutine)
  and of `Expire`: `produceRecords` sets `DeliveryTimeout`, which
  `normalizeOptions` never leaves at zero. A request owes no end: `conn.Write` and
  the lock before it do not look at the context (`connection.go:93`), so
  `protocol.Send` may never return, and neither may those who queue at `initMu` behind
  such a call (`transaction.go:83`). `StuckOnlyInRequests` says that a call is stuck
  nowhere else, also when others are stuck there for ever: not for its partition's
  token, nor for a place in flight. The broker owes no answer.
- `Connection`: what a goroutine can do it does; a system call on a socket that
  this side has closed returns. The peer owes nothing, no context has to end,
  nobody has to call `Close`: `ClosedEndsAll` speaks of connections that are
  closed, and its calls get out by `Receive` or by seeing `closed`, never by a
  `Cancel` that has to come.
- `Pool`: steps inside `Get`, the end of a dial included (`Dial` has the
  context's or the system's limit). Requests need not end.
- `AsyncProducer`: weak fairness for callers that can go on and for the worker's
  own steps; strong fairness for what its `select` can take, since Go picks at
  random among ready channels and the ticker is ready again and again.
  `produceRecords` is taken to return: `StuckOnlyInRequests` of `ProduceRecords` says
  that only a request which never ends keeps it. `EverythingEnds` is about the rest:
  channels, futures and the order in which the worker serves them.
- `MetadataManager`: weak fairness of each call; its requests are taken to end, by
  an answer or by `RequestTimeout`. The cluster need not elect anybody.
- `ConsumerGroup`: weak fairness of what a caller, a join or a heartbeat does once
  begun (requests are taken to end, listeners to return), strong fairness of a stopped heartbeat
  loop leaving its `select`: the tick may be ready as often, and Go picks at
  random. No tick has to come and nobody has to call anything.
- `CoordinatorClient`: weak fairness of each call and join, whose requests are taken
  to end. The coordinator moves when it likes.

Where requests are taken to end, that is an assumption: `RequestTimeout` ends every
wait of `Connection.Send` but the one for `writeMu` and in `conn.Write`, which lasts
until the peer reads or the connection is closed. `CallsReturn`, `StoppedLoopsEnd`,
`CallsEnd` and `EverythingEnds` hold for a peer that reads.

## What is proved

TLAPS checks every theorem for all values of the constants that satisfy the
modules' assumptions: sets of calls, partitions or endpoints of any size, and
any limits. The assumptions only type the constants and record what
`normalizeOptions` guarantees; `Connection` also assumes that ids in use do not
repeat, of which `IdsApart` of `ProtocolClientProofs` says how far it is true.

**`ProduceRecordsProofs`**: `TypeCorrect`, `Serialized`, `SinglePid`, `AckedTile`,
`NoGap`, `AtMostOnce`, `TokensKept`, `OffsetsNameOwnBatch`, `DeliveryRefined`. The
properties are not inductive by themselves, because what the broker does with a
request depends on when it was written. The invariant adds, in this order:

- `TypeInv`, `LockInv`: the token of a partition is in its channel exactly while
  a call holds it, so two calls of one partition never both hold it;
- `InitInv`: only the holder of `initMu` takes a producer id, and an identity is
  stamped after it is set;
- `IdentInv`: the call that holds a partition stamps its current sequence;
- `TileInv`: acknowledged batches tile the sequence numbers below
  `sequences[key]`;
- `NetInv`: a request carries the identity of its call, and its sequence is at
  most the one the broker expects next, which is never behind `sequences[key]`; a
  confirmed batch lies below what the broker expects;
- `LogInv`: a batch in the log carries the identity of its call and ends at or
  below the sequence the broker expects. It is therefore never the expected one
  again, and a repeat of it is not appended.

`TokensKept` compares the channels' tokens with the number of their holders; every
step moves at most one call in or out of the holders, and `CallsAssumption`
(finitely many calls) lets the count follow. `SinglePid` is not the property of a
run: `NoSequenceGap` fails in the same mutant.

The last two theorems have the hypothesis `~Lossy`: no deadline passes and no
connection breaks, as in the run `produce_reliable` (`produce_reuse` shows how the first
fails otherwise). `ReliableInv` says what that gives. A request on its way is the one its
call waits for and has no answer yet (`AwaitedInv`), so no answer goes to nobody; a
call has a result exactly when it has left the loop (`ResultInv`); what is in the log
is what the caller was, or is about to be, told, at the same offset (`ToldInv`); and
without idempotence nothing carries a producer id (`PlainInv`). `OffsetsNameOwnBatch`
is a case of `ToldInv`. For `DeliveryRefined` every step is shown to be `Send`,
`Append`, `Ack` or `Fail` of `Delivery`, or to change neither the log nor a status.

**`AsyncProducerProofs`**: `TypeCorrect`, `OrderKept`, `Accounted`, `FlushIsBarrier`,
`CoveredByClose`. Everything follows from where the records stand in
`enqueued`, the order in which they entered the queue. The last of them are still in the
queue (`QueueInv`); each of the others is in the batch of its own partition, in
that order and behind what the partition's log has (`BatchInv`, `LogInv`), or has its
outcome (`FutureInv`). `Accounted` counts the places of a record from this: two of them
would be two positions in `enqueued`. `TypeCorrect` needs `SizeInv`, that a full batch
is sent before anything is added to it. For `Flush`, `PhaseInv` relates what the
worker is at to what it does it for, `produceRecords` in between being a part of either,
and `BarrierInv` says that once the queue was drained for a `Flush` no record it covers
is in it; the batches are then emptied one by one. `CloseInv` says the same of the
worker's stop and of what `Close` covers, through the flush that `Close` asks for
first, which its context may cut short. A record that comes later is not covered
([below](#where-the-code-and-its-documentation-disagree)).

**`ConnectionProofs`**: `TypeCorrect`, `NoSendBlocks`, `CloseLeavesNothing`,
`NoEntryLeaks`, `ImplementsRpc`. The invariant: a call is registered under its own
id only (`OwnIds`); a result channel holds an answer to its own call
(`OwnAnswers`), so a step of `Receive` maps to `Return` of `Rpc`; the channel of a
registered call is empty, and so is the one the reader is about to deliver to
(`EmptyInv`), which is why no send on it blocks; once `failPending` is done
nothing is registered, since a registration looks at `closed` under `pendingMu`
(`ClosedInv`).

**`PoolProofs`**: `TypeCorrect`, `OneDial`, `NeverSpare`, `NoneForgotten`,
`EvictedOnlyByUser`. The invariant adds that the wait channel of a dial is open
until the dial ends (`FreshDials`) and that a call holds the connection it dialed
(`HoldsDialed`). `NeverSpare` says that the branch of `Get` that closes its own
connection because another one is cached cannot be reached.

**`RoutingProofs`** is about `MetadataManager` and `CoordinatorClient`, the two copies of
where things are in the cluster. (The names of `CoordinatorClient`, `CoordInit`,
`callPc` and so on, are its own, so that one module can extend both.)

For the route cache: `TypeCorrect`, `RefreshedIsFresh`, `RefusalMeansChange`,
`TopicsCreatedWhenMissing`, `KeysStayTogether`. The routes a call reads after its
refresh may be those of another response. `SeekInv` says that every refresh still under
way began no earlier than one of the epochs in `overlap`; `AnswerInv` that its response is no
older than its beginning; so whatever is installed before the call looks again
keeps `ReadInv`, and the route it takes keeps `RefreshedRoute`. `PublishedInv`
(nothing in the client is ahead of the cluster) turns a refusal into a strictly
newer epoch. The proof sorts all steps into five kinds (`StepKinds`).
`TopicsCreatedWhenMissing` rests on two facts about a partition that was there when a
refresh began and whose leader was kept: the response names it (`AnsweredInv`), and so
does the cache when the call looks (`ReadingInv`), unless another call has replaced the
routes, or dropped them, between the update of the refresh and that look
(`replaced`). `KeysStayTogether` rests on `UniformInv`: while no
leader is lost, the cache, and each response that may replace it, knows all partitions of
a topic or none, so that every key is hashed over the same list (`KeyInv`).

For the coordinator: `CoordTypeCorrect`, `SecondAttemptIsEnough`. `AttemptInv`: a second
attempt starts at the coordinator's endpoint or during a move; nothing a call does
later brings an older endpoint back to it.

**`ProtocolClientProofs`**: `TypeCorrect`, `DefaultIsTried`, `IdsApart`,
`HealthyStaysUp`. `FallbackInv` says that a fallback asks for the default version, so
that only the answer to another request can refuse it for its version; that one has
the same id, and `IdInv` says what this takes.
For the ids, `WrapInv` says that the counter is negative exactly while a call
wraps it; `NearInv` that an id is as far behind the counter as its draw is behind
the last one, counted round a circle of `MaxID` values, so that equal ids are
`MaxID` draws apart; `ApartInv` keeps this for any two requests, those whose
callers gave up included. All of it holds until a draw races a wrap.

**`ConsumerGroupProofs`**: `TypeCorrect`, `CloseIsQuiet`, `OneSession`, `ManualHolds`,
`ListenerAddsUp`. `CloseIsQuiet`, `OneSession` and `ManualHolds` have the hypothesis
`~overlapped`, `ListenerAddsUp` also that `Assign` was not used: they say nothing about
a join that is under way when another, an `Assign` or a `Close` begins, which the code
lets through ([below](#where-the-code-and-its-documentation-disagree)). Without overlaps one goroutine at most is inside a join, an
`Assign` or a `Close` (`OneBusy`); the loops it will start are not there yet
(`FreshInv`); the two cancel functions reach every loop that goes on (`LoopInv`);
`ProgressInv` and `SessionInv` say what the busy goroutine has already stopped,
installed and started; `HeldInv` what the listener knows at each point of it.

**`ConsumerPositionsProofs`**: `TypeCorrect`, `CommitsFollowPolls`, `ForwardOnly`.
`TakenInv`: every offset that can become a committed one (positions, the fetch in
flight, snapshots, requests left behind, offsets a rejoin has loaded) has only taken
records below it. `ForwardInv`: for a partition outside `movedBack`, every position,
and every offset that a Commit no newer one has followed still asks for, is at least
what was carried out for this client and what any of its requests asks.

Every safety and action property that a passing run checks has a theorem. Only
model-checked are the liveness properties (`StuckOnlyInRequests`, `ClosedEndsAll`, `EveryGetReturns`,
`EverythingEnds`, `CallsReturn`, `StoppedLoopsEnd`, `CallsEnd`), since fairness and
`ENABLED` are beyond the prover. The bounds
of the models (`MaxEpoch`, `MaxOffset`, `MaxCalls` and so on) are constants of any size
in the theorems.

## Where the code and its documentation disagree

One has a run whose property TLC violates, and an entry in `PROJECT.json`
(`findings`) with the quoted line:

- `produce_reuse`: a batch given up after the broker appended it leaves its base
  sequence to the next batch. The broker takes that one for a repeat, and its
  caller gets metadata for a record that is not in the log (`producer.go:436`).

The others are behaviours of the models that the properties name as exceptions or
that no property forbids:

- *A closed pool is filled again.* `Close` is documented to close the shared
  transport (`factory.go:82`, `pool.go:88`); a request between two attempts dials
  again, and a dial under way installs its connection (`pool.go:70`).
- *A future that nobody completes.* `SendAsync` looks at `closed` (`producer.go:147`)
  and enqueues later (`:159`); `Close` "flushes buffered records" (`:204`), but a
  record put behind the worker's last look stays in the queue, and its future open.
  A `Flush` in the same place, or a `SendAsync` before a full queue, waits until its
  context ends. `CloseFlushes` says what is kept: the records whose `SendAsync` had
  returned when `Close` began; `EverythingEnds` names the rest (`TooLate`).
- *A key that moves.* `KeyHashPartitioner` "maps records with keys to stable
  partitions" (`partitioner.go:8`), but indexes the partitions that have a leader
  now (`manager.go:151`). `KeysStayWhileLed` is what holds.
- *Older routes.* `RefreshRoute` may return an older leader than its own response
  named, and `ensureTopic` may ask to create a topic that exists, when refreshes
  race (`RefreshedRoute`, `CreatesOnlyMissing`).
- *A consumer that stays refused.* `ErrMaxPollIntervalExceeded` is returned "when
  Poll is not called within MaxPollInterval" (`consumer.go:31`); since the refused
  `Poll` does not renew `lastPoll` (`:266`, `:275`) nor does joining again, every
  later `Poll` is refused, too, until `Subscribe`.
- *Work after `Close`.* "Close stops background group work" (`consumer.go:400`): a
  heartbeat loop that is joining again, or whose last heartbeat was answered with
  a code that asks for it, installs a session and starts loops nobody stops
  (`CloseStopsWork` excepts `overlapped`). The same join undoes an `Assign`
  (`ManualStays`), leaves loops of two sessions (`LoopsServeSession`), and tells the
  listener what does not add up (`ListenerFollows`).
- *Commits that go back.* A Commit that times out leaves a request behind that may be
  carried out after a newer one, and another member, which is assigned the same
  partitions, commits from positions of its own: the group's offset may go back
  either way. `CommitsForward` is about the offsets carried out for this client.
- *Records dropped and committed.* `Poll` returns no records when the fetch of a
  later partition fails, but the positions of those before it have advanced and
  the next commit covers them (`CommittedWasTaken` counts them as taken).
- *A fetch for a partition that was taken away* starts at offset 0 and leaves a
  position behind that a commit covers (`CommitsForward` excepts it).
- *A `Seek` during a fetch.* "Seek changes the next fetch offset for an assigned
  partition" (`consumer.go:229`): a fetch of it that is under way overwrites the
  offset when it returns, and a rejoin that has loaded its offsets already when it
  installs them. What is consumed and committed follows the position that won
  (`CommittedWasTaken`); no property says that `Seek` does.
- *Ids at the wrap.* A draw between `Add` and `Store(1)` of another call can leave two
  requests with one id (`LiveIdsApart` excepts `raced`): the second one is refused
  and takes the connection with it, or gets the late answer to the first. That may
  be a refusal of a version the second one does not use, which `FallsBack` excepts.

## What is not modelled

- Encoding and decoding of frames, headers, messages and record batches: pure
  functions of bytes, tested with golden bytes in the repository. A model would
  repeat them.
- Transactions beyond the producer's identity: `BeginTransaction` and
  `EndTransaction` ask for an identity, as `ProduceRecords` models it, and then
  send one request to a bootstrap endpoint and return its answer. They keep no
  state, neither locally nor between calls: what order of them is legal is the
  broker's business.
- In the consumer, the protocol of the coordinator: it gives generations and moves,
  and its answers are any the client handles. Assignments come from the metadata
  (`assignmentFromMetadata`), not from the coordinator, and so does the model's.
- `APIVersions` and `DescribeCluster` of the admin client, which read one response.
- Logging and tracing: nothing in the client depends on them.
- What a broker does beyond what the client's correctness is measured by. It is
  an environment that may answer anything the client handles.
- In `MetadataManager` the number of partitions of a topic is fixed, and a broker
  without a host is a partition without a leader; brokers do not lag behind one
  another.
- Time: deadlines, linger, backoff and timeouts are events that may happen.

## Plan

Written: the modules above, with proofs of all their safety properties. Left, in this
order:

1. `ConsumerPositions` as an implementation of a cursor for each partition, for the
   interleavings in which `movedBack` stays empty.
2. A FIFO per partition that `AsyncProducer` over `ProduceRecords` implements when
   nothing is lost: `OrderKept` gives the order within the log of outcomes,
   `DeliveryRefined` what an outcome means.
3. Safety halves of the liveness properties: that a call in a state without a timeout
   always has somebody who is about to wake it.
