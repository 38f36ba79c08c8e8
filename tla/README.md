# Verification of codebase-index-mcp

TLA+ modules, TLC configurations and TLAPS proofs for the service in `src/src`: a Node process that
watches source trees, parses and embeds what changed, and keeps a vector database (Qdrant) and a
graph database (NebulaGraph) in step. Paths below are relative to `src/src`. The code is
single-threaded JavaScript: what makes it hard is not parallelism but **everything that can run at
an `await`**, timers, and operations that fail half-way. One action of a model is therefore always
the code between two awaits.

Contents: [1 The system](#1-the-system) · [2 Modules](#2-modules) · [3 Runs](#3-runs) ·
[4 Proofs](#4-proofs) · [5 Disagreements found](#5-disagreements-found) ·
[6 What is not modelled](#6-what-is-not-modelled) · [7 Plan](#7-plan)

## 1 The system

### 1.1 Inventory

| Component | State it keeps | Operations | Hard because | Correct when |
|---|---|---|---|---|
| `TransactionCoordinator`, immediate interface (`services/sync`) | `activeTransactions`, `transactionHistory`, the steps' `executed` and `compensated` flags | `executeTransaction`, `cancelTransaction`, `compensateTransaction` | steps and compensations fail; a cancel runs beside the call it cancels | an undone saga is undone in reverse, nothing is lost between map and history, results are truthful |
| the same, queued interface, with `StorageCoordinator` (`services/storage`) | one `currentTransaction`; the chunks in both databases | `store`, `deleteFiles`, `deleteProject` over `beginTransaction`, `add…Operation`, `commitTransaction`, `rollbackTransaction` | the one transaction is shared by all callers and touched after awaits; rollback is called twice | each call ends its own transaction; every error path frees it; success means that both operations were answered with success |
| `EventQueueService` | a map, priority queues, an interval, retry timers, two directories of files | enqueue, batches, retries, overflow, load at start, `retryFailedEvents`, `clear`, `shutdown` | crash and restart, overlapping batches, retry timers against everything else | no accepted event is lost, none is forgotten in the map, priorities hold |
| `BaseEmbedder` (`embedders`) | `activeRequests`, `requestQueue`, the embedding cache | `embedWithCache` | slots handed over by a timer, timeouts, errors after the slot was given back | slots are neither leaked nor idle; every call returns |
| project isolation (`VectorStorageService`, `GraphPersistenceService`) | `currentCollection`, `currentSpace`, the session's space | `initialize`, `initializeProjectSpace`, `storeChunks` | fields set before an await and read after it, shared by all projects | a project's chunks go to its own collection and space |
| `NebulaConnectionManager` | pool, counters, health check interval | acquire, release, health check, replenish, cleanup | check-then-await; iteration over the pool across awaits | at most `maxPoolSize` connections, none closed while in use |
| `LSPClient`, `LSPClientPool` (`services/lsp`) | clients by workspace, pending requests | acquire, release, idle cleanup, preload; request, timeout | check-then-await; a late answer | limit kept, clients not leaked, a request settles once |
| `ChangeDetectionService`, `FileWatcherService` (`services/filesystem`) | file hashes, debounce timers, an event queue | add, change, delete; batch of events | hash read before a timer and compared after it; queue cleared after awaits | the last event of a file wins; no event is dropped |
| `services/infrastructure`, `processing`, `recovery` | pipelines, pools, retry loops | execute with retry and timeout; acquire and release | what timed out keeps running while it is retried | a task is counted once |
| `EntityMappingService`, `ConsistencyChecker`, `EntityIdManager` (`services/sync`) | mappings, pending operations | sync and repair through `executeTransaction` | pending flags across awaits | mappings and databases agree |
| `IndexCoordinator` (`services/indexing`) | index state per project | index, incremental update, events | long operations beside file events | one indexing per project, state restored on error |
| `ProjectIdManager`, `ProjectLookupService` (`database`) | path/hash/id maps and their file | load, save, update | save beside update | identifiers are stable and unique |
| caches (`services/cache`, `parser/LRUCache`, `query/QueryCache`) | entries, order, TTL | get, set, evict | stale entries, two levels | no expired entry is returned, capacity kept |
| DI and start-up (`core`) | loaded modules | lazy loading | a rejected import stays cached | each module is loaded once |

Parsing, static analysis, search and ranking, monitoring, the HTTP and MCP interfaces and the
`frontend/` package complete the list in `PROJECT.json`, with the reason each is left out.

### 1.2 How they interact

File changes enter through the watcher and the change detector, whose callbacks call the
`handleFile…` methods of the **event queue**; the queue's `eventProcessed` listeners index the file:
parse, **embed** (`EmbeddingService` → `BaseEmbedder.embedWithCache`), and **store**
(`StorageCoordinator.store`). The storage coordinator begins the coordinator's one transaction,
writes the vector and the graph database through the storages of the current project, queues the
same two operations and commits. The entity mapping and the consistency checker go through the
**immediate** interface of the same `TransactionCoordinator` instead. Everything shares one event
loop; the coordinator, the storages and the queue are singletons of the DI container, so what looks
like a private field is state shared by all requests. Below the storages a query of the graph takes a
connection of the **Nebula pool** and gives it back, while ticks of a health check drop and replace what
does not answer; and the fourth step of an indexing **pipeline** takes clients of the **LSP pool**, whose
language servers may exit on their own.

## 2 Modules

| Module | Models | Code |
|---|---|---|
| `Saga` | abstract: what a compensated transaction promises | specification only |
| `ResourcePool` | abstract: what a pool promises to those who take from it | specification only |
| `TransactionCoordinator` | `executeTransaction`, `cancelTransaction`, `compensateTransaction` | `TransactionCoordinator.ts` 60–215, 370–401 |
| `StorageTransaction` | the queued interface and its three callers | `TransactionCoordinator.ts` 217–358, 407–end; `StorageCoordinator.ts` 80–440 |
| `EventQueueService` | the event queue with its files | `EventQueueService.ts` |
| `BaseEmbedder` | slots and caching of embedding requests | `BaseEmbedder.ts`, `EmbeddingCacheService.ts` 67–83 |
| `NebulaConnectionManager` | the connection pool, its health check and its counters | `NebulaConnectionManager.ts` |
| `ProjectIsolation` | which collection and which space a call reaches | `StorageCoordinator.ts`, `VectorStorageService.ts`, `GraphPersistenceService.ts`, `NebulaSpaceManager.ts`, `NebulaConnectionManager.ts` (sessions) |
| `LSPClientPool` | language servers, the pool of them, the operations that use it | `LSPClientPool.ts`, `LSPClient.ts`, `LSPManager.ts` |
| `ChangeDetection` | the watcher's queue, the detector's hashes and debounce timers | `FileWatcherService.ts`, `ChangeDetectionService.ts` |
| `IndexPipeline` | one `createIndex` with its timeouts and retries | `IndexCoordinator.ts`, `AsyncPipeline.ts`, `BatchProcessor.ts`, `LSPEnhancementPhase.ts` |
| `…Proofs` | the theorems about the module of that name (those about `Saga` and `ResourcePool` are with the modules that implement them) | |
| `IndexingProofs` | the theorems about `IndexPipeline` and `ChangeDetection` | |
| `MC…` | constants for TLC | |

The modules stand on their own: where one component calls another, the model of the caller has the
outcomes the other can produce (an answer, a refusal, a timeout). Two are compositions:
`StorageTransaction` (storage coordinator and transaction coordinator) and `ProjectIsolation` (storage
coordinator, both storages and the sessions of the connection pool).

Definitions with a `Fault:` comment are plausible bugs; a run is repeated with each in place of the real
definition to show that the property it belongs to can fail. *History* variables, marked in the
declarations, remember what happened; no action's guard reads them. They are how a property names the
race in which the code does break it: the property then says that this race is the only way.

### 2.1 TransactionCoordinator and Saga

`Tx` are calls of `executeTransaction`, `Cancels` calls of `cancelTransaction`; a call is a process
whose `pc` says which await it is in: `step` (`executeStep`), `undo` (`executeCompensatingOperation`),
`settle` (the await of `compensateTransaction` itself). `plan[t][i]` says whether step *i* has a
compensating operation — the only thing about an operation the code looks at. `active` is the key set
of `activeTransactions`, `history` the list `transactionHistory`, both with the transaction's identity.
`Submit` is the code up to the first await; `StepDone` and `StepFailed` continue the loop;
`Compensate` continues the reverse loop whether the compensation threw or not (the error is
swallowed); `Settle` sets the final status, pushes to the history and removes from the map.
The actions of `cancelTransaction` follow its branches: unknown, not executing, executing.

`Saga` states the promise without the bookkeeping: a phase per transaction, the steps in effect, the
steps owed. `ImplementsSaga` instantiates it with `SagaPhase`, `SagaInEffect`, `SagaOwed`: a step is in
effect when it was executed and not compensated. It shows of each transaction that **nobody cancels**
(`Uncancelled`), also while others are cancelled beside it; of a cancelled one it shows nothing, and so do
`Custody` and `UndoInReverse`: the code records such a transaction twice and compensates it twice.

`ResultIsHonest` is about all calls. The history `tried` holds the steps whose compensation was called,
whether it threw or not. A success means that every operation was executed and that none was
undone unless a cancel got through (`CancelCame`); a failure that of every executed operation the
compensating one was tried, cancels and throwing compensations or not. What a call answers about steps
that a cancel has undone is *not* honest: that is the violated run `tc_cancelled`.

### 2.2 StorageTransaction

A transaction is named after the call that began it, so that "whose" transaction is touched can be
said. `pc` walks through `store`: the two direct writes, the two `add…Operation`s, the commit with its
loop over the steps, its own rollback, and the caller's rollback in the catch. Each of them reads
`current` **when it runs**: the model never remembers which transaction a call began. Databases are the
sets of stores *all* of whose chunks they hold. A write leaves all, a part or none of them there,
**whatever it answers** (`Written`): `storeChunks` drops the chunks that cannot be embedded or have no query
and answers success even when none is left (`EmbeddingService.ts` 173–186, `VectorStorageService.ts`
179–191). A success therefore says that both operations were *executed and answered* with success
(`accepted`, a history; `SuccessIsAccepted`), not that the chunks are in the databases, and nothing here
claims the latter.

Awaits are of two kinds. Database answers and timers come from outside, and before the next of those
the event loop runs every continuation that is ready. Awaits on already settled promises
(`add…Operation`, the rollbacks) are such continuations. `sharedTurns`, chosen in `Init`, says whether
the continuations of several calls may interleave. If not, one outside event resumes one call, and its
ready continuations finish before the next outside event. `OwnEnd`, `OwnSteps` and `SuccessIsAccepted` are
claimed for that case only: that a transaction is filled and ended by its owner rests on the *timing* of
the two databases answering in different turns. `Released` and `EveryCallReturns` hold in both.

### 2.3 EventQueueService

`queue` is the map (to which event object, so that an entry and a copy read back from a file differ),
`waiting` the priority queues read from the highest level down, `batch` the batches in flight (the
interval has no guard against overlap), `retrying` and `parking` the `setTimeout`s and overflow writes
in flight, `disk` and `overflow` the two directories. The actions are the code between awaits of
`enqueueInternal`, `persistEvent`, `handleQueueOverflow`, `processNextBatch`, `processBatch`,
`loadPersistedEvents`, `retryFailedEvents`, `clear` and `shutdown`; `Crash` keeps only the files.
`CalculatePriority` is computed from the change as the code does.

`StartBatch` takes from the
levels as `createBatch` does (`Live`, `Shifts`, `InOrder`): up to the batch size, skipping what is no
longer in the map. `Budgets` is a set of bounds on crashes and on calls of `clear`, `shutdown` and
`retryFailedEvents`, of which `Init` chooses one, so that one run covers alternatives.

Histories: `exposed`, events that had failed for good when the process died, whose file was gone and not
yet written to the overflow directory; `doubled`, events of which another copy was made (a file written
after the delivery or after the last failure, or together with an overflow copy; a file read while the
event was scheduled or being parked; or one that outlived its delivery in a crash or an error); `cleared`,
what only waited when `clear` was called. That a file written after the last failure is a second copy was
found by the proof of `AtMostOnce`: no bounded run had needed it.

With `DiskMayFail` every file operation may: `mkdir` of the directory, which turns `persistenceEnabled` off
until the next start (what is in flight on the missing directory fails as well), `readdir` and `readFile` of
the start-up load, of `retryFailedEvents` and of `clear`, and the writes and unlinks.

Abstractions: a file operation takes effect at the instant it settles, so a crash leaves a whole file
or none (the loader skips unreadable files, which equals none); the options are the defaults
(persistence on, overflow strategy `persist`); statistics and the callbacks' own errors are left out;
listener failure is `RetryLater`/`GiveUp`.

### 2.4 BaseEmbedder

A call looks its inputs up one by one, then takes a slot or queues (`WaitForAvailableSlot`), sends the
misses, gives the slot back (`ReleaseSlot`, which shifts one waiter to `timers`) and caches the answers.
`TimerFires` is the shifted waiter's `setTimeout`. Providers answer exactly, fail, time out, or answer too
little (`AnswerNothing`, the last branch of `Store`; the set `short`) or too much (`surplus`): nothing in
the code compares the lengths. A surplus answer makes the caching loop throw after the slot went back,
and the `catch` gives it back once more; `ResultIsComplete` excuses exactly the calls in `short`. A
cache miss is always possible (eviction, expiry and errors look the same to the caller).

### 2.5 NebulaConnectionManager

Connections are numbered in the order in which they became ready, so a fresh one is new to everybody.
`pool` is the array `connectionPool`, used as a stack; `pc` says where a query (`creating`, `executing`),
a `connect` or `disconnect` (`creating`, `closing`, `cleaned`, `initialized`) or a tick of the health
check (`checking`, `closing`, `creating`) waits. The counters are read and written exactly where the code
does: the limit is compared before the await of a creation and the count raised after it. A cleanup takes
the whole pool out, closes it, and then resets the counters, whoever still holds a connection. A tick
iterates over the array across its awaits; once a cleanup has replaced `connectionPool`, the tick goes on
with the old array (`array`, `detached`). `Replenish` is part of the step that ends a tick. A connection
that becomes ready after its creator's timeout is in `lost`: nobody has it and nobody closes it.

A `close` may fail, and each of the three places that close swallows it. A tick and a cleanup forget the
connection all the same, and the tick lowers the counter (`Close`, with the session in `lost`). A query that
gives its connection back to a full pool (`ReleaseFull`) skips both decrements when `close` throws: the
connection is gone and counted until the next reset. `stuck` counts these since the last reset.

`disturbed` becomes true when two creations overlap or one starts at the limit, when counters are reset
although a connection is in use, idle again or being created, when a tick drops a connection that is
no longer in the pool, or when `close` throws at a full pool. `OvercountIsStuck` needs no such excuse but
`stuck`: all other errors are on the side of too many connections. The closes that throw are the only way in
which the pool comes to refuse for connections it no longer has.
`Accounted` excepts `lost`: those sessions the code does leak; the claim is that it leaks no others.

`ResourcePool` is the promise without the machinery: what is free, what each user holds, what was ever
made. A resource is made at most once, is taken from what is free or made for its user, is given back or
is gone, and what leaves the pool otherwise (`Retire`) was free and never comes back. `ImplementsPool`
instantiates it with `Idle`, with the connection each executing query uses, and with `1..made`. It says
more than `SoleUse`: no tick brings back, from an array that is no longer `connectionPool`, a connection
that a cleanup took out.

### 2.6 ProjectIsolation

The vector storage has one `currentCollection`, set by `Start` before the awaits that create the
collection and read by `ChunksEmbedded` after the embedder answered. `projectResources` remembers which
projects were prepared; a prepared project is never initialised again. The graph storage sends one `USE`
statement, which reaches one session of the pool (a stack, so alone it is the session the next query
gets). A write that times out keeps its connection (`late`) and gives it back some time later; a health
check replaces idle sessions by fresh ones in the configured space.

`crossed` holds the calls for which another collection was initialised between their own preparation and
their use; `settled` is the project whose `USE` the next query is sure to find, and `unsettled` the calls
that wrote when it was another. `InOwnCollection` and `InOwnSpace` say that these overlaps are the only
ways to a foreign project. They are real: two interleaved stores, or a return to an earlier project,
suffice. `points` and `nodes` record where a call sent its requests.

### 2.7 LSPClientPool

A client is named after the call that created it and the round of its loop. `stage` is the life of its
server; `Exit` may come at any time, rejects what is pending and tells the pool nothing. `acquire` reuses
an idle client of the workspace, creates one below the limit, or, at the limit, recycles: it releases an
idle client of another workspace once more, which frees nothing, and creates one all the same. Without an
idle client it refuses. `eased` notes that an acquire recycled at the limit or ran beside another creation. `preload`
acquires and never releases (`preloaded`). `CleanupIdle` is any timer of `scheduleCleanup`: which of the
idle clients have been idle long enough is left open. `shutdown` closes what it listed and then clears
the map, with what joined it meanwhile (`forgotten`).

`ImplementsPool` relates it to `ResourcePool` as in 2.5: free is `Idle`, held what each operation uses, made
every client that is past `starting`. A client that preload acquires is retired, since nobody ever releases
it; one whose server exited is still free, because the pool is not told.

### 2.8 ChangeDetection

`Notice` is chokidar telling of a change; the event joins the queue of its watch path and rearms
`eventProcessingTimer`. `Sweep` and `Process` are `processEventQueue`: the map of queues is iterated
across the awaits of `getFileInfo` and cleared as a whole at the end, with what joined the paths already
done. An event
that was read becomes a call of `handleFileAdded`, `handleFileChanged` or `handleFileDeleted`, which
compare hashes and arm a debounce timer; `Settle` takes a callback through its timer, its read and its
report. The deletion looks the file up by its path relative to the working directory while the others use
the path relative to the watch path (`Key`, `CwdKey`): they agree only for the working directory itself.
A hash is its file's content, and what `hashes` holds is what the listeners were last told.
`excused` holds the files whose changes crossed a callback that was reading, were cleared with the queue,
could not be read, or came before the watcher was ready, the `Namesakes`, whose path is also that of a file in
another watch path (they share an entry and a timer), and those a deletion was amiss for (`Amiss`): the
file deleted, when it is tracked under another path, and the file that is tracked under the path looked for.
A timer's identity is any number that no other callback has. `Init`, `Next` and `Spec` of this module are called
`DetectionInit` and so on, because `IndexingProofs` extends `IndexPipeline` as well.

### 2.9 IndexPipeline

`step`, `attempts` and `waiting` are the pipeline; `running` the attempts that have not settled, those
given up included; `loops[n]` the loop over the batches that attempt *n* of batch parsing runs, and
`requests` its calls of the parser. A timeout (`StepTimer`) abandons an attempt without stopping it: its
loop goes on, retries its batches and makes requests beside the attempt that replaced it, and may outlive
the call. `LateAnswer` and `ParsedLate` are its answers. The batch timer and the step timer have the same
length and the step's is set first, so a batch is retried only in an abandoned attempt. Storing is at once:
the coordinator hands the files over without chunks.

## 3 Runs

| Run | Instance | Shows |
|---|---|---|
| `tc_saga` | two `executeTransaction`s of at most three steps, two cancels of one of them; steps and compensations fail | `Custody`, `UndoInReverse` and `ImplementsSaga` (with its fairness) of the one nobody cancels; `Kept`, `ResultIsHonest`, `CancelTakesOut` of both |
| `tc_cancelled` | one transaction, one cancel | *violated*: `CancelledStaysFailed`, what a cancel has failed stays failed |
| `st_turns` | two stores and a delete, turns shared or not | `Released`, `OwnSteps`, `SuccessIsAccepted`, `OwnEnd`, `EveryCallReturns` |
| `st_crossdb` | one store | *violated*: `CrossDatabaseConsistency`, both databases or neither |
| `eq_crash` | two events of two priorities, queue and batch of two; throwing listeners; one crash with restart anywhere, or one `retryFailedEvents` | `Kept`, `AtMostOnce`, `EntryHasFuture`, `PriorityRespected`, `EventuallyHandled` |
| `eq_clear` | two events, queue and batch of one, two batches in flight, a disk on which every operation may fail, one `clear`, one `shutdown` | `NeverIdle`, `Bounded`, `ClearTakesOut` |
| `em_slots` | three calls, one slot, two texts, up to two inputs | `SlotsCounted`, `NoIdleSlot`, `ResultIsComplete`, `EveryCallReturns` |
| `nb_pool` | two queries, two connects, a disconnect, a tick; pool of two; any close may fail | `SoleUse`, `Accounted`, `OvercountIsStuck`, `ExactUntilDisturbed` |
| `pi_projects` | two stores of two projects, a search, two connections | `InOwnCollection`, `InOwnSpace` |
| `lsp_pool` | two operations, two preloads, a shutdown; limit three, two initial clients | `SoleUse`, `Accounted`, `LimitUntilEased`, `EveryCallReturns` |
| `cd_watch` | two files in two watch paths, one of them not the working directory; three changes | `Agreement`, `OneTimer`, `ComesToRest` |
| `ip_index` | at most three files in batches of two; one retry per step, three tries of a batch | `NoFileLeftOut`, `OnlyTheLiveIsHeard`, `EveryCallReturns`, `LoopsEnd` |

Deadlock is not checked: calls are finite and the systems come to rest. That they do not come to rest
too early is what the liveness properties and `NeverIdle`, `NoIdleSlot` and `EntryHasFuture` are for.

**Bounds, and why they are enough.** `MaxSteps` (operations of a transaction): the loops only compare
neighbouring steps, so three steps show order, partial failure and both ends. Two cancels cover
"cancel of a cancel". `MCTransactionCoordinator` directs both cancels at one transaction, so that the other
is one nobody cancels. Three callers of the one `currentTransaction` are an owner, an intruder and a
refused call. In the event queue `MaxQueueSize` and `BatchSize` of one or two make the queue full and, in
`eq_clear`, batches overlap (`Batches`); `Copies` = 2 is the queued object and one read back;
`Budgets` bounds crashes and calls. Three calls and one
slot give one holder, one waiter and one newcomer, the case that matters, and a slot released twice lets
two waiters be shifted at once. A pool of two with two queries, two fills and a tick reaches its limit,
its minimum and every overlap of two creations; `pc` keeps a call from being made twice, so the number of
calls is the bound. The queries and the connects of `nb_pool` and the connections of `pi_projects` are
interchangeable (symmetry; only invariants are checked there). The `VIEW` of `nb_pool` leaves out which of the
lost sessions no list names are still open: no action and no property looks at them.
The LSP pool of three with four callers is full while one
more asks. Three changes are a change, a change back and a deletion; the numbers of the timers are bounded
by them. Three files in batches of two give a full and a partial batch, and `BatchAttempts` = 3 lets an
abandoned loop retry more than once. All bounds are in the `.cfg` files or in guards that name them.

**Fairness.** Weak fairness of the continuation of each call and of timers, nowhere of success.
*Transactions, stores, embedder:* databases and providers answer or reject, or the timeout fires.
*Event queue:* the listener answers (fairness is on the disjunction of delivering, retrying and giving
up), the timers fire, file operations settle, a crashed service is restarted. `SlowDisk = FALSE` in `eq_crash`
states a timing assumption: an `unlink` of `retryFailedEvents` settles before a retry timer of one second
or a tick fires; without it the file that a re-failed event has just written could be removed. `eq_clear`
does without. *LSP pool:* every request has a timeout, those of `initialize` and `shutdown` included.
*Change detection:* the watcher tells of what it has not told, timers fire, reads end. *Pipeline:* only the
first hash, which is computed outside of every timer, and the timers need to end; traversal, parser
and language servers may never answer. Nobody is obliged to submit, cancel, clear or shut down.

**What the properties leave open.** Each excuse is a history variable and is what the code gets wrong or
leaves to timing. `Kept` of the event queue excepts `exposed`: an event that fails for good loses its file
*before* its overflow file is written (`EventQueueService.ts` 568 and 583–586). It is claimed where `clear` is
not called and either crashes or `retryFailedEvents` happen, not both. `AtMostOnce` excepts `doubled`: after
a restart delivery is at-least-once by design, but an event may also be doubled without a crash, when
`removePersistedEvent` runs before the `persistEvent` it should undo has ended. `ClearTakesOut` is about what
only waited: what was in a batch, in a retry timer or in the start-up load when `clear` was called does come
back. `Custody` and `UndoInReverse` of the coordinator are about transactions nobody cancels (2.1). `NoIdleSlot`
and `SlotsCounted` do not bound the requests by `maxConcurrent`: a newcomer and a shifted waiter may exceed it.
`SuccessIsAccepted` is about answers (2.2), `Accounted` and `OvercountIsStuck` of the pool except the creations
that timed out and the closes that failed (2.5), `Accounted` of the LSP clients those a shutdown cleared away.
`ResultIsComplete` excuses calls whose provider answered too little; `ExactUntilDisturbed`,
`LimitUntilEased`, `Agreement`, `OneTimer`, `InOwnCollection` and `InOwnSpace` name theirs in section 2.

## 4 Proofs

TLAPS proves the following for **every** value of the constants; TLC evaluates the constants'
assumptions in the runs, and checks the inductive invariants on small instances before they are proved.
All of them have the same shape: an invariant that is inductive, one lemma per action, and the property
as a consequence. What differs is what had to be added to the property to make it inductive.

*`TransactionCoordinatorProofs`* — any sets of calls and cancels, any `MaxSteps`, compensations that may
or may not throw. `IndInv` = `TypeOK` and, per call, `CallInv` (where the call stands
determines what is in flight, how far its steps are, what is compensated and where it is recorded);
for a call nobody cancels also `AloneInv` (status and custody agree with `pc`) and `RecordedOnce`; per cancel
`CancelInv`. That behind a failure everything was compensated, or tried, needs
to know, in the middle of the reverse loop, that everything above the current step was.
From it: `TypeCorrect`, `NothingLost` (`Kept`), `Honest` (`ResultIsHonest`), `InOrder` (steps are executed in
order), `CancelFinal` (`CancelTakesOut`), and, of the transactions that no cancel is about, `SingleCustody`
(`Custody`), `ReverseOrder` (`UndoInReverse`), `StatusStaysFinal`. `Refinement`: `Spec => S!SagaSpec`, with any
cancels, by one lemma per action: which saga step it is, or that it stutters, as all steps about cancelled
transactions do.

*`StorageTransactionProofs`* — any sets of stores and deletes. `IndInv` = `Typed`, `Released` and, where turns
are not shared, `Serial`: only one call is between the begin and the end of its transaction, it owns the
current one (or none, when it rolls back a second time), and what it has queued, executed and had accepted is
determined by where it stands. From it `TypeCorrect`, `TransactionsAreReleased`,
`OperationsAreOwn` (`OwnSteps`), `SuccessMeansAccepted` (`SuccessIsAccepted`), `TransactionsEndByOwner` (`OwnEnd`).

*`EventQueueServiceProofs`* — any events, priorities, sizes and bounds. `MainInv` = `Typed`, `Bounded`,
`NeverIdle` gives `TypeCorrect`, `MapStaysBounded`, `NothingWaitsWithoutTimer` and `HigherPrioritiesFirst`
(`PriorityRespected`, an action property: `createBatch` never prefers a lower level, wherever overlapping
batches left holes). The other four theorems have hypotheses on the constants, each satisfied by the run
that checks the property.

- `CrashesLoseNothing` (`Kept`) and `NoEntryForgotten` (`EntryHasFuture`), under `Calm`: the disk does not
  fail, `clear` is not called, and a behaviour has either crashes or calls of `retryFailedEvents`, the latter
  with unlinks faster than timers. The invariant is `Safe \/ Reread`, one for each kind of behaviour. With
  crashes only the files can be relied on (`Safe`): each accepted event was delivered, is in a file or has
  just been given up (`Filed`), what a batch removes was delivered (`RemovedIsDelivered`), and each entry of
  the map waits, is with a batch or a timer, or has its copy in the overflow directory (`HasFuture`). With
  `retryFailedEvents` the overflow files go away too, so memory has to be relied on instead (`Reread`):
  every event that was accepted or is being written is delivered, in or on its way to the overflow
  directory, or `Carried` (it waits *with its entry*, or is at work), and so is the event whose overflow file
  is being removed. `Effect` says what any step does about one event.
- `ClearedNeverDelivered` (`ClearTakesOut`), under `Unread`: no crash and no `retryFailedEvents`, but the disk
  may fail. The invariant `Clean`: what was cleared is in no map, batch or timer (`TakenOut`), and nothing
  the service was never told of has a file or is at work (`Known`), so that no start-up load and no late
  write brings it back. With a crash the files that `clear` has yet to remove are read again, and the claim
  would be false.
- `DeliveredOnce` (`AtMostOnce`), under `Orderly`: any crashes, failing disks and `clear`; where
  `retryFailedEvents` is called, a reliable disk and no `clear`. The invariant `Single`: an event without a
  second copy has at most one place in memory from which it can be delivered (`Lone`, `Apart`), a file only
  where no place and no delivery makes it a second copy (`Stored`), and an event nobody reported has neither
  (`Absent`). It is what the history `doubled` had to be strengthened for.

*`BaseEmbedderProofs`* — any finite set of calls, any texts, any limit. `IndInv` = types,
`WaitersInv` (queue and timers hold each waiter once, in the right stage), `CallInv` (a call in `request`
has something to ask, one in `store` something left to cache), `SlotsCounted`, `NoIdleSlot`. From it
`TypeCorrect`, `SlotsNeverLeak`, `SlotsNeverIdle`, `ResultsAreComplete` (`ResultIsComplete`, from
`AnswersInv`: what a call has looked up, counted with repetitions, it has found or asks for). The slots are the requests that run minus those given
back twice (`ReleasedTwice`), so the count says exactly by how much a surplus answer lets the service
exceed itself.

*`NebulaConnectionManagerProofs`* — any numbers of calls and ticks, any sizes. `IndInv` = `TypeOK`, `SoleUse`,
`Accounted`, `Known` (every connection anybody names was made, so a fresh one is in nobody's hands) and
`Examining` (so is the one a tick looks at), `Counts`. From it `TypeCorrect`, `ConnectionsHaveOneUser`
(`SoleUse`), `NothingIsLostTrackOf` (`Accounted`), `OvercountsAreStuck` (`OvercountIsStuck`), `CountersAreExact`
(`ExactUntilDisturbed`). `Counts` adds to the two properties that nobody else creates while an undisturbed
creation is under way (`CreatesAlone`); what the closers still have to close is counted as the cardinality of
one set (`Dropped`), which a step changes by one connection or by a whole pool, so that no sum is needed.
`PoolOfConnections`: `Spec => P!PoolSpec`. A query's step is `Take`, `Make`, `GiveBack` or a stutter, the others
fill (`Make`), retire or stutter.
`Known` makes a new connection new to the abstract pool, `SoleUse` makes what is popped leave it. Both `ImplementsPool` are
proved, and no run checks them: `Resources` is `Nat` here.

*`ProjectIsolationProofs`* — any projects, calls and connections. The invariant is `Typed`, `Sessions` =
`Sole` (a connection is with one holder), `Told` (the session the next query finds, on top of the pool or
the only one in use, was told of the settled project) and `NodesOwn`, and `OnCollection` (a call that was
not crossed stands on its collection). From it `TypeCorrect`, `OwnCollection`, `OwnSpace`.

*`LSPClientPoolProofs`* — any callers and limits. The invariant is `Typed`, `Opening` and `Fresh` (what is being
created is nobody's yet), `SoleUse`, `KeptActive`, `Accounted`, `LimitUntilEased`. From it `TypeCorrect`,
`ClientsAreNotShared`, `NothingIsLostTrackOf`, `LimitHoldsUntilEased`. The counts go up and down by one element
of a finite set. `PoolOfClients`: `Spec => P!PoolSpec`, by one lemma for each kind of call, one for the end of a
server and one for cleanups and shutdowns; `Opening` and `Fresh` say that a client is made once.

*`IndexingProofs`, the pipeline* — any number of files, batch size, retries. `IInv` = `TypeOK`, `Placed` (the data agrees
with the step), `AtABatch`, `LiveLoop` (the loop of the attempt that is awaited has looked at exactly the
batches before its own) and `Collected`. From it `TypeCorrect`, `EveryFileAccountedFor` (`NoFileLeftOut`),
`GivenUpAttemptsAreSilent` (`OnlyTheLiveIsHeard`).

*`IndexingProofs`, change detection* — any files, watch paths, contents and changes, whatever paths collide: nothing
is assumed of `Key` and `CwdKey`. `Agreement` speaks of quiet states only, so everything that leads to one is in the
invariant. `Queueing`: the watch paths with events are in `order`, each once, those from the sweep's place on have
events, and all of their own files; a lemma follows the places of a file's events through `Append`, `Tail`
and the clearing of the queue. `Timers`: numbers of callbacks are unique, and `pendingChanges` has the number of the
one callback of each file not excused. `Reported`, for each file not excused: its events alternate so that an addition finds it
untracked, its last event says whether the watcher knows it (`Tracked`), and when the watcher has told everything and
no event is left, `fileHashes` is the disk's content or a callback that will compare the two is under way (`UpToDate`).
`OneTimer` needs nothing of `Reported`. Two disturbances came to light in the proof and
are named since: a deletion outside the working directory may take the entry of another file, and namesakes of two
watch paths overwrite each other's. From it `DetectionTypeCorrect`,
`OneTimerEach`, `ReportsAgree`.

*Only model-checked.* All liveness (`EveryCallReturns`, `EventuallyHandled`, `ComesToRest`, `LoopsEnd`, the
fairness half of `ImplementsSaga`) and whatever needs `ENABLED`, which are beyond the prover. Every invariant and every action property of a
passing run is a theorem; outside of the hypotheses named above (`Calm`, `Unread`, `Orderly`, transactions nobody
cancels, turns that are not shared) nothing is claimed.

## 5 Disagreements found

Two runs show one each.

- `tc_cancelled`: the test "should cancel executing transaction" expects a cancelled transaction to stay
  `failed` (`TransactionCoordinator.test.ts` 738–757; it puts the transaction into the map by hand). When its
  call is running, the loop never looks at the status: it goes on, sets `completed`, records the transaction
  again and reports success, of steps that the cancel has compensated as well.
- `st_crossdb`: a store is promised "cross-database consistency"; when the graph refuses, the vector database
  keeps the chunks, because compensations only log.

The others were met while modelling. They are part of the models, most as the history variable that
excuses a property, and no run states the promise they break:

- *Event queue.* `shutdown` relies on "Events are already persisted"; what `retryFailedEvents` has put back
  in the queue is in no file.
- *Embedder.* Slots are granted "based on concurrency limits"; a newcomer and a shifted waiter can both take
  the slot that was released once, and a surplus answer releases one twice.
- *Project isolation.* The coordinator ignores that `initialize` answered false and records the project as
  prepared; returning to an earlier project writes to the later one's collection, because a prepared
  project is not initialised again. `deleteFiles` and `deleteProject` look chunk identifiers up in the
  configured default collection (`StorageCoordinator.ts` 363, 724); `ChunkProcessingUtils` passes an empty
  collection name (27, 39).
- *Storages.* `storeChunks` in which no chunk can be embedded reports success with nothing stored
  (`EmbeddingService.ts` 173, `VectorStorageService.ts` 179). `processWithTimeout` abandons a graph write that
  keeps its connection (`GraphPersistenceService.ts` 433).
- *Connection pool.* A `close` that throws at a full pool keeps both counters raised until the next reset, so
  that the pool reports "Connection pool exhausted" with fewer connections than `maxPoolSize`
  (`NebulaConnectionManager.ts` 621–632). A close that fails in a tick or a cleanup leaves a session that may be
  open and that nobody knows (763–769, 862–868), and so does the timeout of a creation (675).
- *Indexing.* The coordinator hands files over with empty chunks (`IndexCoordinator.ts` 203, 327), so
  `createIndex` reports success with nothing stored. The pipeline's `continueOnError` is false
  (`AsyncPipeline.ts` 65), so that of the steps (`IndexCoordinator.ts` 156, 171, 195) has no effect. The retry of a
  batch only ever happens in an abandoned attempt. A project's identifier is a hash of the directory's
  contents, so `deleteIndex` after a change addresses another project. The first `calculateDirectoryHash` is
  outside of `createIndex`'s `try` and of every timer.

## 6 What is not modelled

Within the modelled files: the searches by similarity and the statistics of `StorageCoordinator`; the drop
and block strategies of the event queue; queries that only read (`getTransaction…`, `getIndexStatus`, the
session monitor); memory checks and batch sizes of the storages; the history, statistics and error callbacks
of the change detector; the wire format of the language server protocol; `updateIndex`,
`processIncrementalChanges` and `deleteIndex`, straight sequences of one parse and one storage call each.
Timestamps, identifiers and logging never matter to control. What a provider still does after the
embedder's timeout has fired is outside of the model. The order of the results of an array of inputs is not
a property: the code puts cached results first (`BaseEmbedder.ts` 115), no doc promises an order and no
caller in `src/` passes more than one input.

Whole components, each with its note in `PROJECT.json`:

- *Programs and services behind an interface* — the Qdrant client, the embedding providers, the tree-sitter
  grammars and rules, semgrep: the code builds a request and reshapes an answer. Most of the source is of
  this kind (languages, rules, query builders, result formatters), with no state that outlives a call.
- *Search, ranking, fusion, graph services* — floating-point scores over the results of one query.
- *Monitoring* — counters and alerts that no other component reads.
- *HTTP and MCP interfaces, configuration, utilities, `frontend/`* — stateless apart from the services they
  call.
- *Entity mapping and consistency repair, project identifiers, caches, lazy loading* — have state; planned
  below.

## 7 Plan

Done of the first plan: project isolation, the connection pool, the LSP pool, change detection, the
pipelines as indexing uses them, and the proofs of every invariant and action property, with three
refinements. Left, in this order:

1. `EntityMapping` — `EntityMappingService` and `ConsistencyChecker` over the immediate interface of the
   coordinator: pending flags and repairs across awaits; the abstract specification is a relation between
   the two databases. It would reuse `Saga`.
2. `ProjectIds` — `ProjectIdManager` and `ProjectLookupService` with their file: save beside update, restart.
3. `Caches` — LRU and TTL eviction as recursive functions against a reference, and the two-level write paths.
4. `ChangeDetection` composed with `EventQueueService`: a deletion overtakes the creation of the same path
   (`EventQueueService.ts` 211).
5. The drop and block strategies of the queue; `ConcurrentProcessingService` and `ObjectPool`.
6. Proofs: an abstract queue (a bag of accepted events, each delivered or parked) implemented by
   `EventQueueService` between crashes.
