# Dragonfly2 in TLA+

Dragonfly distributes files in a peer-to-peer network. This directory holds a
formal model of the parts of it that are hard to get right and hard to test,
the TLC configurations that check them on small instances, and proofs, checked
by TLAPS, of the results that hold for every instance.

## 1. The system

| Component | State | Operations | Interacts with |
|---|---|---|---|
| scheduler, `scheduler/core`, `scheduler/supervisor` | peers (status, parent, children, stream), tasks (status, back-to-source weight, list of peers), hosts (upload load), delaying queue of waiting peers | register, piece stream, peer result, leave; worker events; reschedule loop; collectors | clients over a bidirectional stream and unary calls; CDN over `ObtainSeeds` |
| CDN, `cdn/supervisor` | seed tasks with their pieces, subscribers per task, files and metadata on disk | register seed task, trigger download, publish pieces and result, watch, collect | source over HTTP; schedulers |
| client, `client/daemon` | running peer tasks, bitmap of pieces, local storage | download file or stream, synchronise pieces, switch parent, back to source, upload, reload | scheduler; other clients; source |
| manager, `manager` | database of clusters, keep-alive state | REST, gRPC, jobs | everyone |
| `pkg/synclock`, `pkg/sync` | lockers per key, with user counts or in a `sync.Map` | lock and unlock per key | scheduler, CDN |
| `pkg/rpc`, `pkg/gc`, `internal/dynconfig`, containers | hash ring and connections, tickers, cached configuration | retries, migration, expiry | everyone |

What is hard, in order of what depends on it:

1. *Scheduler.* The events of a task are applied by one worker goroutine, but
   the reschedule loop, two collectors, the goroutine fed by the CDN and the
   RPC handlers change the same peers. What a packet promised was true when it
   was sent, and is used when the first piece comes back. It is correct when
   nobody who waits is forgotten, the tree is a tree of started peers, and a
   client that finished stays finished.
2. *Seed progress of the CDN.* A publisher and one goroutine per watcher share
   maps, a condition variable and a bounded channel; watchers come and go,
   rounds of downloading fail and are started again, and the task is collected
   by its access time. It is correct when no watcher misses a piece, all are
   answered, and one goroutine downloads.
3. *Locks per key.* Recycled lockers and map entries that are deleted while
   somebody waits. They are correct when they exclude and nobody starves.
4. *Client.* Workers, the receiver of packets, the pull loop, the consumer and
   the writer of the stream share one task and end it through one `Once`. It is
   correct when success means the whole file, when the end is reported, and when
   a cancelled task ends. Its storage is shared by all tasks, collected while
   stores are reused, and reloaded after a crash.
5. *CDN storage.* Three files per task are written by several goroutines, and
   read again after a crash to decide what to reuse. It is correct when what is
   published, or taken for complete, is whole.
6. *Connections.* Calls of many tasks share connections and the table of keys;
   servers fail and are replaced, idle connections are collected.
7. *Discovery.* Whether a scheduler lives is known from its stream to the
   manager, and reaches a daemon through two caches and a file.

`PROJECT.json` lists the hazards, each at its line, with the properties that
would catch it.

## 2. Modules

| Module | Models | Uses |
|---|---|---|
| `GoRWMutex` | `sync.RWMutex` of Go: readers wait behind an announced writer | - |
| `LockerPool` | `pkg/synclock`: `Lock` and `UnLock` split where the pool's mutex is released | `GoRWMutex`, `KeyedRWLock` |
| `KeyedRWLock` | the abstract specification: a reader/writer lock per key | - |
| `LockerPoolProofs` | theorems on `LockerPool` | `LockerPool` |
| `Krwmutex` | `pkg/sync`: the four operations, split at every access to the map and the mutex | `GoRWMutex` |
| `SchedulerCore` | one task of the scheduler with all its actors | - |
| `SchedulerCoreProofs` | theorems on `SchedulerCore` | `SchedulerCore` |
| `SeedProgress` | `cdn/supervisor/progress`, and the service, task manager, trigger goroutine and RPC handler around it | - |
| `SeedProgressProofs` | theorems on `SeedProgress` | `SeedProgress` |
| `CDNStore` | the files of one CDN task: cache detector, downloader, cache writer, metadata manager, disk and hybrid storage, collector | - |
| `CDNStoreProofs` | theorems on `CDNStore` | `CDNStore` |
| `PeerTask` | one download of the client: `peertask_*.go`, `piece_manager.go`, its consumer | - |
| `PeerTaskProofs` | theorems on `PeerTask` | `PeerTask` |
| `ClientStorage` | `client/daemon/storage` and the reuse of finished tasks | - |
| `ClientStorageProofs` | theorems on `ClientStorage` | `ClientStorage` |
| `RpcConn` | `pkg/rpc.Connection` and the scheduler, CDN and daemon clients on top of it | - |
| `RpcConnProofs` | theorems on `RpcConn` | `RpcConn` |
| `Discovery` | keep-alive and scheduler list: scheduler, manager, `internal/dynconfig`, daemon | - |
| `MC...` | instances for TLC: symmetry, and a budget of disturbances | |

Definitions whose name carries a suffix (`LastUser_always`) and that are
commented as slips are plausible mistakes; replacing the definition of the same
name by one of them makes TLC find a violation. They are not part of any
specification.

### SchedulerCore

`sup` holds the supervisor's records of all peers (status, parent, left,
registered in the peer manager, listed in the task, finished pieces, outlier
cost, a handler about to store Running, and, as history, that the final report
was applied). `conn`, `main`, `offered` are what the clients' streams carry; `task`,
`weight`, `b2s`, `told` the task and its back-to-source accounts; `starting` and
`pending` events on their way to the worker; `waitQ` and `inHand` the delaying
queue and the entry the loop hands over; `seed` the goroutine of
`StartSeedTask`; `gc` the collector and how far it is with a peer.

One action is one uninterrupted piece of one goroutine:

- handlers: `Register`, `Awaken`, `StoreRunning`, `Connect`, `Disconnect`,
  `Report`;
- the worker: `StartReport`, `ReScheduleParent`, `PieceSuccess`, `PieceFail`,
  `ApplyReport` (success, failure, leaving), `SeedSuccessEvent`,
  `TaskSeedFailEvent`;
- the loop: `ReScheduleLoop`, `LoopBackToSource`;
- seeding: `InitCDNPeer`, `SeedPiece`, `SeedDone`, `SeedFail`;
- collectors: `PeerGCVisit`, `PeerGCLeave`, `PeerGCMark`, `PeerGCSweep`, `TaskGC`.

A peer's status has no lock. The handlers read Waiting or Zombie (`Awaken`) and
store Running later (`StoreRunning`); the collector asks whether a peer is done
(`PeerGCVisit`), whether it is connected and a zombie (`PeerGCLeave`), and writes
Zombie (`PeerGCMark`); the worker writes final statuses in between.
`AddBackToSourcePeer` looks at list and weight before it takes the lock: the
loop's call is split there, and the worker's may be refused for what the loop did
in between (`Refused`). Splitting the worker's call too would add nothing: of two
callers past the looks it does not matter which is called late.

The filters of `selectCandidateParents` and `selectCandidateChildren` are
translated clause by clause. The evaluator only orders what they let through,
so the choice is "any". Abstractions: sizes other than NORMAL are left out; one
seeding goroutine runs at a time; a piece result is handed over and applied in
one step; the loop has one entry in hand; the costs behind `IsBadNode` are an
outlier flag; times are nondeterministic, and the TTL of tasks is not modelled.
The accesses inside `ReplaceParent` are one step, and so is `Touch` where the
worker and the seeding goroutine call it. That a dfdaemon opens no stream after
its final report is how dfdaemons use the stream; other late messages are a fault.
A behaviour stops when the process would crash (`crashed`) or when the tree has
a cycle, on which the descendant test does not return.

Bounds: `MaxPieces`, `MaxQueue`, `MaxInFlight`, `Faults` (which disturbances a
run plays) and `MaxDisturbances` (how many in one behaviour).

### LockerPool and Krwmutex

A call is at one of the points where the goroutine can be interrupted: counted
but not locked, announced as a writer, holding. `LockerPool` is shown to
implement `KeyedRWLock` under the mapping that forgets lockers and counts.
`Krwmutex` splits `Unlock` into load, delete and unlock, which is where it
breaks.

### SeedProgress

`obj` and `cur` are the `SeedTask` objects made for one task ID and the one in
the store; `call` the `ObtainSeeds` calls; `sub` and `subs` the subscribers and
the publisher's list; `trig` the trigger goroutines with the pieces their
writers hold; `mu` who is inside `pm.mu` of the task. `Select`, `Wait`, `Wake`
and `SendPiece` are `readLoop`; between the test of the closed flag and
`cond.Wait` a signal is not heard. `Notify` needs the lock `SendPiece` holds.
`Lacked` is the early return that keeps a read lock. `Expire` is the collector.

Abstractions: one task ID, no conflicting registrations, no piece sizes; a
piece is handed from the channel to the stream in one step; where Go's mutex
lets no reader in behind a waiting writer, readers of a leaked lock are let in
(more behaviours than the code); the channel holds `Capacity` = 1 piece instead
of 100, so that it is full in small instances.

### PeerTask

One file or stream task of one peer. `pc` has the pull goroutine (`Pull`) and
the workers; the labels are the places where they wait or are interrupted.
`got` is what the task knows of its pieces, `reqs` and `failed` the two bounded
channels, `rx` the receiver of peer packets, `store` the local store, `out` the
`Once` with the verdict of its first caller and what was reported, `sig` the
context and the channels that are closed at the end, `cons` the RPC handler that
reads the progress of a file task, `wr` the goroutine that writes a stream into
its pipe.

- start: `Init` takes each answer to the registration (`FetchSingle`, the
  parents' pieces, straight to the source);
- receiver: `ReceivePacket`, `ReceiveNeedBackSource`, `ReceiveExit`;
- pull loop: `WaitPacket`, `Top`, `GetPieces`, `Dispatch`, `NextPiece`,
  `WaitFailedPiece`, and their failures;
- workers: `Take`, `Fetch`, `FetchFails`, `LimiterFails`;
- source: `OpenSource`, `SourcePiece`, `SourceDone`, `SourceFails`;
- report of a piece: `Mark`, `TellFile` or `TellStream`, `Check`, `Finish`;
- end: `Claim`, `CallbackDone` or `CallbackFail`, `Notify`, `CloseDone`, `Return`;
- consumer and writer: `ConsumerDone`, `ConsumerStops`, `HandlerReturns`,
  `WriteOnePiece`, `WriterSelect`, `Drain`, `StreamCloses`.

A packet is abstracted to "there are peers", a piece to its number and length.
The context of the RPC handler and that of the task are one (`ConsumerStops`), and
a known length comes with a known number of pieces (`GetPieces`), although the code
sets the two separately.
Tiny tasks do not come here. `BufferSize` stands for `DefaultPieceChanSize`.

### ClientStorage

`mem` and `index` are the manager's two maps, `disk` the directories, `lru` the
order of last access, `aged` the stores past their expiry, `task` the peer
tasks that use the storage, `gc` the collector, `left` the peers for which
`gcCallback` was called (an error of `LeaveTask` is only logged, so the scheduler
may still not know), `leaked` directories whose creation or removal failed.
Creating, publishing, marking and removing are separate steps, as the code holds
no lock over them. A file is validated and then stored. A stream has a `reader`:
`finish` closes `streamDone` before it calls `Done`, so `writeToPipe` validates and
ends the pipe (`StreamCloses`) before, between or after the steps of `Store`, and
whether or not `Store` succeeds; only a `Store` that succeeded is reported to the
scheduler (stage `ok`). `Crash` loses `mem`; `Reload` reads the directories back.
The high and the low threshold are merged: over the quota, or too full by at most
one store (`Shed`). The ADVANCE strategy, which links the data file to
the destination, is not modelled.

### CDNStore

`meta`, `recs`, `data` are the three files of one task, `ended` whether the last
line of the records ends in a newline (`WritePieceMetaRecords` leaves it open,
and the next append is then glued to it), `trig` the trigger goroutine with its
reader, `jobs` the pieces in the hands of writers, `gc` the collector. The source
has versions, and announces its length or does not (`known`); a digest asked for
is that of one version. The content of a piece is a version, nothing (not, or not
all, there) or torn. `CheckPieceContent` takes a piece beyond the end of the data
file for good, as the code wraps the nil error of a short read; digests are taken
of what was read, not of what the records say. `Crash` may tear the pieces that
are being written; `PowerFails` cuts off the end of the data file, which nobody
syncs, and leaves metadata and records (losing those too is not modelled).
`durable` is a history variable: no power failure has cut anything off. `tidy` is
another: no writer has outlived its trigger (`doWrite` does not wait after a
read error), and the table has not forgotten the task in the middle of its
download. Without it the properties do not hold; see below.

### RpcConn

`ring` is the list of servers, `key2Node`, `client` and `access` the three maps
of the connection, `call` one call per caller with its kind and the server it
asked last, which a migration excludes even if the collector has closed the
connection. A kind says what
the clients in `pkg/rpc/*/client` do around the connection: whether the key must
be bound (`Stick`), whether they migrate, what they pass as the cause, and
whether a stream stays open. Times are two ages, fresh and expired.

### Discovery

`up` are the running schedulers, `stream` and `old` their keep-alive streams and
the handlers of abandoned ones, `active` the state in the manager's database,
`mlist` the manager's cached list, `dlist` and `fresh` the daemon's, `fetch` a
request under way, `seen` the list the daemon acted on, `ring` the addresses it
gave to its connection. One cluster; the searcher only refuses clusters without
active schedulers. The updates of the manager's database succeed: the handler that
returns on an error of the database, on a stream's first message
(service_grpc.go:449-456) or at its end (492-499), is left out.

## 3. What is checked

| Run | Shows |
|---|---|
| `locker_pool` | three goroutines, two keys, three lockers: mutual exclusion, exact counts, clean recycling, refinement of `KeyedRWLock`, and every `Lock` returns |
| `scheduler_peers` | two clients, a CDN, failures of clients, pieces and CDN, and departures: `NoForgottenPeer`, `TreeShape`, `DoneStaysDone` |
| `scheduler_nocdn` | the same without CDN, with broken streams, busy channels, outliers, late reports, idle and expired peers, idle task |
| `scheduler_live` | a client in the queue is answered |
| `seed_progress` | two schedulers, two pieces, two rounds, two objects: `CaughtUp`, `ClosedIsDrained`, `NoneLeftBehind`, `OneDownload` |
| `peer_task` | two workers, files of one and two pieces, buffers of one: `SuccessIsWhole`, `FinishedStreamIsWhole`, `OverIsReported`, `ToldOnce` |
| `peer_task_live` | one worker: `BackSourceEnds`, `CancelEnds` |
| `client_storage` | two peer tasks, two pieces, room for one store: `ReusedIsWhole`, `CompletedSurvives`, `NoStrayDirectory`, `MarkedIsListed`, `LeaveBeforeRemoval` |
| `cdn_store` | two pieces, two versions of the source, two writers, two triggers: `PublishedIsWhole`, `AcceptedIsWhole`, `CollectorSparesTasks` |
| `rpc_conn` | two callers, two keys, two servers, two attempts: `CallEnds`, `GivesUpAfterAsking`, `StickyKeys`, `StreamKept` |
| `discovery` | two schedulers: `ListConverges` |
| `krwmutex_waiter` | violated: a waiter stays on a mutex nobody will unlock |

The violated run states what a test of the repository expects; `findings` in
`PROJECT.json` quotes it.

**Bounds.** Two clients and a CDN are the least number with a parent, a child
and a competitor for its slot; one slot per host makes every attachment
contended; two pieces separate the first piece, which makes the edge, from
later ones. One disturbance per behaviour is enough for each fault to meet every
interleaving of routine steps; the crash needs two. Three goroutines are enough
for a holder, a waiter and one who recycles the locker. For the seed progress,
one disturbance with two rounds covers late writers meeting the next round.
For the peer task, two pieces and buffers of one make both channels full, and two
workers fetch the same piece; one disturbance meets every interleaving of routine
steps. Two disturbances let the storage of the client lose a store and restart;
three let the CDN crash, find a changed source and lose a writer in two triggers.
These two are the largest runs, with 3.2 and 4.3 million distinct states.
Two servers and two attempts let a call exhaust both; six disturbances let both
schedulers, the manager and the daemon each fail and come back. A bound on
disturbances is a counter in the MC module; routine steps are not bounded except
by the calls a caller makes and the triggers of a task.
Clients and watchers are interchangeable, so symmetry is sound for the safety
properties; no liveness run uses it.

**Deadlock** is checked for the lock pool, whose callers go on for ever. In the
other runs clients finish, and the system may stop.

**Fairness.** Locks: a goroutine that can take a step takes it, a holder
releases, and Go hands its mutex to waiters in turn. Scheduler: the worker and
the reschedule loop never stop while the service runs, and the delaying queue is
first in, first out. Nothing is assumed of clients, CDN and clocks. The `busy`
fault is left out of the liveness run: a client that never reads its channel is
put back into the queue for ever with its attempts reset, and nothing can be
promised to it. Peer task: its goroutines run, the scheduler's answers, the
source and the storage return or fail, which the code ensures by time-outs, and
the consumer of a file task reads while its call lasts. Nothing makes a parent
deliver. Connections: a caller proceeds, since dialling and calls have time-outs;
the clock and the servers owe nothing. Discovery: `KeepAlive` retries for ever,
the transport reports a dead stream, `watch` ticks, requests end and caches
expire. The seed progress and the two storages state safety only.

**Observed, without a run.** The models reproduce the following; TLC finds each
as a counterexample to the property one would like to state.

*Scheduler.* `parentPeer` is overwritten with the nil result of `ScheduleParent`
and dereferenced (events.go:187-191). `removePeerFromCurrentTree` tells the new
children of a parent to download from the peer that just finished, failed or
left (events.go:423). A client past `maxRescheduleTimes` is sent to the source
whatever `backSourceCount` says (service.go:177). The edge a first piece makes is
not checked against the tree: two clients become each other's parent, and
`isDescendant` does not return (events.go:199, peer.go:291). The failure event
queues the failed peer instead of its orphaned child (events.go:308-309). A piece
result applied after the final report takes an upload slot again until the peer
is collected; two clients take the last slot of a host (events.go:199). A
collector that asked `IsDone` before the worker applied the final report turns a
finished client into a zombie afterwards (peer.go:139-146), and a handler that
read Zombie or Waiting makes it Running (peer.go:361-362, 454-455); the next
message or visit starts from there. The loop and the worker both pass the looks of
`AddBackToSourcePeer` for the last of the weight, which then is -1: one client
more than `backSourceCount` goes to the source (task.go:324-336).
`ScheduleChildren` gives children to a parent that has left
(basic_scheduler.go:69).

*Seed progress.* `Close` signals without `cond.L`, so a reader between its test
and `cond.Wait` sleeps for ever (progress.go:121-122). A watcher of a task that
is then collected is not closed by `PublishTask` (progress/manager.go:137).

*Peer task.* A failed piece taken from `failedPieceCh` whose request fails too is
lost: every piece counts as requested, and the task waits for ever
(peertask_base.go:912-929). A stream whose task failed can end with EOF before
all pieces were written (peertask_stream.go:449). A source of unknown length that
is a multiple of the piece size adds an empty last piece that counts as full
(piece_manager.go:481). A failure is reported after a success or twice. A worker
of a stream blocks for ever on `successPieceCh` once the writer has gone
(peertask_stream.go:221). If `Store` fails in `Done`, the task stays in
`runningPeerTasks` and nothing is reported (peertask_file_callback.go:81).

*Client storage.* The reader of a stream can see EOF before `Store` has saved the
metadata, or although `Store` fails, which is only logged (peertask_stream.go:305-313,
447-458): what it read is whole, but the store may not survive a restart. A stream
task can be marked done before its digest is validated, and `invalid` is not
persisted, so the store is reused after a restart. A `CreateTask` that fails after
`MkdirAll` leaves a directory that belongs to no store until the next start
(storage_manager.go:324-346). A done
store whose data is gone hides good ones from `FindCompletedTask`. A failed
`Reclaim` leaves files until the next start (storage_manager.go:678 says so).

*CDN storage.* Writers that outlive their trigger, and the collector meeting a
task the table forgot while it was downloaded, can publish or accept broken
files; `tidy` excludes both. After a resumed download the first new record is
glued to the last old line, and `PieceMd5Sign` misses a piece (disk.go:158-167).
`checkPieceContent` wraps the nil error of a short read, so that a record whose
data is missing at the end of the file is taken for a good piece
(cache_detector.go:271-272): after a power failure a download is resumed behind
data that is not there and published; only a digest the client asked for notices.
A source of unknown length that breaks off cannot be resumed at all: the range of
the break point is refused (downloader.go:62-80).
Hybrid storage looks for the task before it takes its lock (hybrid.go:412-438),
and its `WritePieceMetaRecords` does not truncate. A crash after the last record
and before the metadata makes every later trigger ask for an empty range, which
is refused (downloader.go:62-80, the commented branch in cache_detector.go:196).
The reader waits for ever when all writers left (cache_writer.go:143). A source
that changes between the expiry check and the download mixes versions.

*Connections.* `ResourceLacked` from a CDN never reaches another CDN, because
`ExecuteWithRetry` returns at once on a `DfError` (client_util.go:222). Two calls
of one key that fail at the same time can migrate it back and forth, or give up
though a server was never asked; once another call has migrated the key, a
stream no longer refreshes its own connection, which is collected under it. Two
calls of `GetClientConnByTarget` dial twice and lose a client (client.go:289).
`Close` leaves the connections of servers that were replaced.

*Discovery.* `OnNotify` drops schedulers it cannot reach but remembers the whole
list, so they are not added when they come back (daemon.go:522-537). When the
end of an old keep-alive stream is noticed after the first message of the new
one, a live scheduler stays inactive. A manager that crashes leaves schedulers
active that died meanwhile. Between its two queries `ListSchedulers` can lose the
last active scheduler and cache an empty list.

## 4. What is proved

Every safety property of the passing runs, invariants and action properties
alike, is a theorem for every number of peers, hosts, goroutines, keys, lockers,
pieces, servers and watchers, for every limit and without a bound on
disturbances. The proofs rest on the named assumptions of each module only:
sets of peers or goroutines are finite, limits are naturals (sizes, buffers and
attempts positive), null values are distinct from the real ones,
and the hash ring of `RpcConn` gives every key all servers in some order.

None of the properties is inductive as it stands. What each proof adds:

- **LockerPool** (`LockerPoolInvariant`). A locker excludes only while the map
  sends everyone of a key to the same locker and nobody else to it. The invariant
  adds the shape of calls (`CallShape`), that the map is one-to-one and misses the
  pooled lockers (`MapShape`), that the count of a locker is the number of its
  users (`CountIsUsers`), which is what keeps it out of the pool under a user, and
  that the mutex knows its readers and writer (`ReadersCounted`, `WriterKnown`).
  From it follow `LockerPoolTypeOK`, `LockerPoolExcludes`, `LockerPoolCounts`,
  `LockerPoolRecyclesClean` and the refinement `LockerPoolRefines`: each step is
  one of `KeyedRWLock` or a stutter.
- **SchedulerCore** (`SchedulerInvariant`). The edge a first piece makes goes to a
  peer that was offered long before, so the invariant records that every offered
  peer has started (`OutOK`), that whoever has pieces (`PiecesStarted`) or had a
  stream (`StreamsStarted`) has started, that registered peers exist
  (`RegisteredKnown`), that a client is done only by a report of its own
  (`DoneEnded`), that the collector marks clients only, and the shape of a seeding
  round (`SeedShape`). Beside it stands `WeightOK`: while the reschedule loop is
  between its look at the weight and its decrement the weight is at least zero, so
  the decrement leaves -1 at worst. Most actions
  only move statuses forward (`Later`), and all of these conjuncts survive such a
  move, which is proved once. That leaving re-queues only clients is where "CDNs
  are roots" is needed for type correctness. From it: `SchedulerTypeOK`,
  `SchedulerTreeShape`, `SchedulerDoneStaysDone`.
- **SchedulerCore, nobody is forgotten** (`SchedulerForgetsNobody`).
  `NoForgottenPeer` is inductive relative to the invariant above. Most steps make
  no new client look for a parent (`Calm`) and lose neither a packet nor an entry
  of the queue (`NewsKept`); opening a stream, starting to report and the two
  halves of rescheduling each look after the client they are about. The collector
  turns an idle client with an open stream into a zombie, and a stale handler turns
  whatever it is into a running one; the property does not look at the status, so
  neither strands anybody.
- **RpcConn** (`RpcInvariant`): a bound key has a connection, and what a call
  remembers between two locks is still true as long as it is the only one of its
  key: it holds the node its key is bound to (`HoldsBound`), an open stream has
  used that node no longer ago than itself (`NodeFresh`), and what it excludes it
  has asked (`ExcludesAsked`).
  From it: `RpcKeysSticky`, `RpcGivesUpAfterAsking`, `RpcStreamKept`.
- **SeedProgress** (`SeedInvariant`): who is in the publisher's list has heard of
  every piece of the current object, and of the one being published unless the
  publisher has it still to tell (`WatcherInv`, `PublisherInv`); an object
  begins without pieces (`ObjectsInv`); while one object exists, a trigger means that
  it is RUNNING and is the only one (`TriggersInv`). From it: `SeedTypeOK`,
  `SeedCaughtUp`, `SeedClosedIsDrained`, `SeedNoneLeftBehind`, `SeedOneDownload`.
- **CDNStore** (`StoreInvariant`): while tidy, a task is RUNNING exactly as long as
  it has its one trigger (`OneTrigger`), every piece before the break point is on
  disk or in the hands of a writer (`Progress`), a record has its data, unless a
  power failure took it (`Recorded`: this is what makes the short read that the
  detector accepts harmless in all other histories), the digest has seen what is or
  will be on disk, or something no file has (`Digested`), and metadata that says
  success and has the size of the data file describes good files (`MetaTrue`). From it: `StoreTypeOK`, `StorePublishedIsWhole`,
  `StoreAcceptedIsWhole`, `StoreCollectorSpares`.
- **PeerTask** (`PeerInvariant`): a piece is in the store before it is marked
  (`Hands`), the source delivers in order (`FromSource`), `completedLength` is the
  sum of the marked pieces (`Counted`), whence enough bytes are all pieces
  (`IsCompletedIsAll`, where the empty piece on top of a source of unknown length is
  the difficult case); whoever enters `finish` has all pieces, and whoever enters
  the `Once` from there the digest too (`Finished`); only its first caller acts
  (`OnceLife`); the writer of a stream drains after the verdict (`StreamEnd`). From
  it: `PeerTypeOK`, `PeerSuccessIsWhole`, `PeerFinishedStreamIsWhole`,
  `PeerOverIsReported`, `PeerToldOnce`.
- **ClientStorage** (`StorageInvariant`): nobody knows a store before it is
  published (`UnknownOf`), a done store is whole unless its data was removed, and so
  is what the reader of a stream will get (`ContentOf`), a store whose success was
  reported is there until `gcCallback` was called for its peer (`SurvivesOf`), every
  directory has an owner or its creation or removal failed (`DirOf`), every marked store is
  listed for this round or the next (`ListedOf`), and whatever the collector may
  remove has left (`Collector`). From it: `StorageTypeOK`, `StorageReusedIsWhole`,
  `StorageCompletedSurvives`, `StorageNoStrayDirectory`, `StorageMarkedIsListed`,
  `StorageLeavesFirst`.

Where an operator takes the first of a sequence or the least number of a set, the
proofs use that the naturals are well-founded.

**Only model-checked**: liveness (`EventuallyLocked`, `WaiterAnswered`,
`BackSourceEnds`, `CancelEnds`, `CallEnds`, `ListConverges`), which is out of
the prover's reach, and with it `Discovery`, whose one property is of this kind.
`Krwmutex` has no theorem: its run is a violated one.

## 5. Plan

Type correctness of `Discovery` with what its caches may hold, and what `Krwmutex`
does guarantee. Then a module of the manager's preheat jobs, with its theorems
beside it.

## 6. Not modelled

- Inside modelled components: tasks of size TINY and SMALL on the scheduler; the
  channels inside `Peer.Channel`; several tasks on one worker; the single
  accesses inside `ReplaceParent`; the ADVANCE storage strategy; the shared-memory
  quota of hybrid storage; a power failure that loses metadata or records of the
  CDN; `AddServerNodes` of the connection, which only the elastic clients use, and
  `CorrectKey2NodeRelation`, which they and `RegisterPeerTask` of the scheduler
  client (client.go:103-106, 141-144) call when the scheduler's task ID is not the
  key: both are computed from the same request, so the key stays as it is; CDN
  lists and scores, and errors of the database, in the manager.
- REST handlers and services, users and roles of the manager: one SQL statement
  or a few without a transaction per request, whose isolation the database
  decides.
- Preheat jobs (`manager/service/job.go`, `manager/job`, `internal/job`,
  `scheduler/job`): a group of tasks in an external queue, and a goroutine that
  copies its state into the job's record. The next module to write. By reading:
  the goroutine dies with the manager and the record stays PENDING (job.go:95);
  a request that names no cluster skips those without an active scheduler and
  lists them in the record all the same (job.go:58-67), where
  docs/en/preheat/api.md:6-7 says "it means to preheat all scheduler clusters".
- Proxy, transport, upload server and `dfget`: HTTP plumbing per request; what
  they share is the peer task and the storage.
- `pkg/source` and its protocols, containers, rate limiter, digest and range
  helpers: sequential code with unit tests of its own, over third-party clients.
- Generated code (protobuf, validators, API documentation, mocks: almost a third
  of the Go code), command lines, configuration structures, logging, metrics,
  tracing.
