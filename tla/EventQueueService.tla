------------------------- MODULE EventQueueService -------------------------
(***************************************************************************)
(* src/services/EventQueueService.ts: file change events are queued by     *)
(* priority, each with a file on disk, and taken in batches by an interval *)
(* timer.  A listener that throws has its event queued again after a       *)
(* delay, and after maxRetries its event parked in the overflow directory, *)
(* where events that find the queue full go too.                           *)
(*                                                                         *)
(* One action is the code between two awaits.  A file operation takes      *)
(* effect in one instant, when it settles; a crash loses all memory and    *)
(* the operations in flight.                                               *)
(***************************************************************************)
EXTENDS Integers, Sequences, FiniteSetsExt, SequencesExt

CONSTANTS
    Events,         \* event identifiers
    Change,         \* Change[e]: the FileChangeEvent behind e
    PriorityLevels, MaxQueueSize, BatchSize, MaxRetries,    \* the options
    Batches,        \* bound on the batches in flight together
    Copies,         \* bound on the objects alive for one identifier
    ListenersThrow, \* whether an eventProcessed listener may throw
    DiskMayFail,    \* whether file operations may fail
    SlowDisk,       \* whether timers may fire while retryFailedEvents unlinks
    Budgets         \* bounds on crashes and on calls of the other methods, one chosen at first

ASSUME OptionsAssumption ==
    /\ PriorityLevels \in Nat \ {0} /\ MaxQueueSize \in Nat \ {0}
    /\ BatchSize \in Nat \ {0} /\ MaxRetries \in Nat
ASSUME EventsAssumption ==
    /\ IsFiniteSet(Events)
    /\ Change \in [Events -> [type : {"created", "modified", "deleted"},
                             size : {"none", "small", "medium", "large"}, critical : BOOLEAN]]
ASSUME BoundsAssumption ==
    /\ SlowDisk \in BOOLEAN
    /\ Batches \in Nat \ {0} /\ Copies \in Nat \ {0}
    /\ Budgets \subseteq [{"crash", "shutdown", "clear", "retry"} -> Nat]

VARIABLES
    queue,          \* queue[e]: which object the map holds for e, 0 for none
    waiting,        \* priorityQueues read from the highest level down
    retries,        \* retryCount of each event object
    isProcessing,
    processingTimer,\* whether the field holds an interval
    leaked,         \* intervals nobody can clear any more
    batch,          \* the batches in flight
    retrying,       \* retrying[o]: setTimeouts that will queue o again
    persisting,     \* events whose enqueue awaits its persistEvent
    parking,        \* parking[e]: writes to overflow in flight, outside batches
    disk,           \* files in persistencePath
    overflow,       \* files in persistencePath/overflow
    boot,           \* initializePersistence, and the files it has yet to read
    retryCall,      \* retryFailedEvents
    clearCall,      \* clear
    budget,
    shut,           \* whether shutdown was called since the start
    arrived, accepted, delivered,           \* history, for the properties:
    doubled,        \* events that have or had another copy, which may be delivered too
    exposed,        \* events that had failed for good when the process died
    cleared         \* events that only waited when clear was called

memory == <<queue, waiting, retries, isProcessing, processingTimer, leaked, batch, retrying>>
scheduler == <<isProcessing, processingTimer, leaked, waiting, batch>>
files == <<persisting, parking, disk, overflow>>
calls == <<boot, retryCall, clearCall, budget, shut>>
outcome == <<doubled, exposed, cleared>>
past == <<arrived, accepted, delivered, outcome>>
vars == <<memory, files, calls, past>>

Objects == Events \X (1..Copies)
Slots == 1..Batches

NoBatch == [at |-> "idle", todo |-> <<>>, failed |-> <<>>]
NoCall == [at |-> "idle", left |-> {}]

\* calculatePriority: deletions first, then small files and certain languages.
CalculatePriority(change) ==
    LET type == CASE change.type = "deleted" -> 4
                  [] change.type = "modified" -> 2
                  [] change.type = "created" -> 1
        size == CASE change.size = "small" -> 1
                  [] change.size = "large" -> -1
                  [] change.size \in {"medium", "none"} -> 0
        language == IF change.critical THEN 1 ELSE 0
    IN Max({0, Min({type + size + language, PriorityLevels - 1})})

Priority(e) == CalculatePriority(Change[e])

TypeOK ==
    /\ queue \in [Events -> 0..Copies]
    /\ waiting \in Seq(Events)
    /\ \A j, k \in DOMAIN waiting : j < k => Priority(waiting[j]) >= Priority(waiting[k])
    /\ retries \in [Objects -> 0..MaxRetries]
    /\ isProcessing \in BOOLEAN /\ processingTimer \in BOOLEAN /\ leaked \in Nat
    /\ \A s \in Slots :
          /\ batch[s].at \in {"idle", "process", "remove", "drop", "park"}
          /\ batch[s].todo \in Seq(Objects) /\ batch[s].failed \in Seq(Objects)
          /\ Len(batch[s].todo) + Len(batch[s].failed) <= BatchSize + 1
          /\ batch[s].at = "idle" <=> batch[s] = NoBatch
    /\ retrying \in [Objects -> Nat] /\ parking \in [Events -> Nat]
    /\ persisting \subseteq Events /\ disk \subseteq Events /\ overflow \subseteq Events
    /\ doubled \cup exposed \cup cleared \subseteq Events
    /\ boot.at \in {"down", "mkdir", "load", "ready", "off"} /\ boot.left \subseteq Events
    /\ retryCall.at \in {"idle", "list", "read", "unlink", "park"} /\ retryCall.left \subseteq Events
    /\ clearCall.at \in {"idle", "list", "unlink", "listOverflow", "unlinkOverflow"}
    /\ clearCall.left \subseteq Events

\* What a process starts with.
Blank(q, w, r, processing, timer, leak, b, later, writing, park, retry, clear, down) ==
    /\ q = [e \in Events |-> 0] /\ w = <<>> /\ r = [o \in Objects |-> 0]
    /\ processing = FALSE /\ timer = FALSE /\ leak = 0
    /\ b = [s \in Slots |-> NoBatch] /\ later = [o \in Objects |-> 0]
    /\ writing = {} /\ park = [e \in Events |-> 0]
    /\ retry = NoCall /\ clear = NoCall /\ down = FALSE

Init ==
    /\ Blank(queue, waiting, retries, isProcessing, processingTimer, leaked, batch, retrying,
             persisting, parking, retryCall, clearCall, shut)
    /\ disk = {} /\ overflow = {}
    /\ boot = [at |-> "mkdir", left |-> {}]
    /\ budget \in Budgets
    /\ arrived = {} /\ accepted = {} /\ doubled = {} /\ exposed = {} /\ cleared = {}
    /\ delivered = [e \in Events |-> 0]

Up == boot.at # "down"
persistenceEnabled == boot.at # "off"
TimersFire == SlowDisk \/ retryCall.at # "unlink"
Size(q) == Cardinality({e \in Events : q[e] # 0})
Spend(what) == budget[what] > 0 /\ budget' = [budget EXCEPT ![what] = @ - 1]

-----------------------------------------------------------------------------
(* Taking batches *)

\* createBatch shifts the first n identifiers: until the batch is full or none is
\* left; those that are no longer in the map are dropped on the way.
Live(q, w, n) == {k \in 1..n : q[w[k]] # 0}

Shifts(q, w, n) ==
    LET Enough(m) == m = Len(w) \/ Cardinality(Live(q, w, m)) >= BatchSize
    IN Enough(n) /\ \A m \in 0..(n - 1) : ~Enough(m)

\* The positions of S in ascending order.
InOrder(S) ==
    {p \in Bijection(1..Cardinality(S), S) : \A i, j \in DOMAIN p : i < j => p[i] < p[j]}

\* The batch is made of what is at these positions, and processBatch begins.
StartBatch(q, w, positions) ==
    \/ positions = {} /\ UNCHANGED batch
    \/ /\ positions # {}
       /\ \E p \in InOrder(positions), s \in Slots :
             /\ batch[s] = NoBatch /\ \A r \in 1..(s - 1) : batch[r] # NoBatch
             /\ batch' = [batch EXCEPT ![s] =
                    [at |-> "process", todo |-> [k \in DOMAIN p |-> <<w[p[k]], q[w[p[k]]]>>], failed |-> <<>>]]

\* Fault: the identifiers stay in the priority queue.
TakeBatchUnshifted(q, w) ==
    \E n \in 0..Len(w) :
        Shifts(q, w, n) /\ waiting' = w /\ StartBatch(q, w, Live(q, w, n))

\* Fault: the identifiers are taken from the other end.
TakeBatchLowest(q, w) ==
    /\ w # <<>>
    /\ \E s \in Slots :
          /\ batch[s] = NoBatch /\ \A r \in 1..(s - 1) : batch[r] # NoBatch
          /\ LET e == Last(w) IN
             /\ waiting' = Front(w)
             /\ batch' = [batch EXCEPT ![s] = IF q[e] = 0 THEN @ ELSE
                    [at |-> "process", todo |-> <<<<e, q[e]>>>>, failed |-> <<>>]]

\* The rest of processNextBatch up to its first await.
TakeBatch(q, w) ==
    \E n \in 0..Len(w) :
        /\ Shifts(q, w, n)
        /\ waiting' = SubSeq(w, n + 1, Len(w))
        /\ StartBatch(q, w, Live(q, w, n))

StopProcessing ==
    /\ isProcessing' = FALSE
    /\ processingTimer' = (processingTimer /\ ~isProcessing)
    /\ UNCHANGED leaked

\* startProcessing on queue q and waiting list w: the first batch is taken at
\* once; on an empty queue processNextBatch stops again and the interval is
\* set all the same.
StartProcessing(q, w) ==
    \/ /\ isProcessing
       /\ waiting' = w
       /\ UNCHANGED <<isProcessing, processingTimer, leaked, batch>>
    \/ /\ ~isProcessing /\ Size(q) > 0
       /\ isProcessing' = TRUE /\ processingTimer' = TRUE
       /\ leaked' = leaked + (IF processingTimer THEN 1 ELSE 0)
       /\ TakeBatch(q, w)
    \/ /\ ~isProcessing /\ Size(q) = 0
       /\ processingTimer' = TRUE
       /\ waiting' = w
       /\ UNCHANGED <<isProcessing, leaked, batch>>

\* An interval fires: nothing keeps it from starting a second batch while one
\* is in flight.
Tick ==
    /\ TimersFire
    /\ processingTimer \/ leaked > 0
    /\ \/ Size(queue) = 0 /\ StopProcessing /\ UNCHANGED <<waiting, batch>>
       \/ /\ isProcessing /\ Size(queue) > 0
          /\ TakeBatch(queue, waiting)
          /\ UNCHANGED <<isProcessing, processingTimer, leaked>>
    /\ UNCHANGED <<queue, retries, retrying, files, calls, past>>

-----------------------------------------------------------------------------
(* Queueing *)

\* The identifier goes behind those of its level.
Push(w, e) ==
    LET n == Cardinality({k \in DOMAIN w : Priority(w[k]) >= Priority(e)})
    IN InsertAt(w, n + 1, e)

Full == Size(queue) >= MaxQueueSize

Current(s) == Head(batch[s].todo)

\* The file of e is being removed after a delivery.
Removing(e) == \E s \in Slots : batch[s].at = "remove" /\ Current(s)[1] = e

\* It is being removed after a failure for good.
Dropping(e) == \E s \in Slots : batch[s].at = "drop" /\ Current(s)[1] = e

\* e failed for good, and has yet to be written to the overflow directory.
GivenUp(e) == \E s \in Slots, n \in 1..Copies : <<e, n>> \in ToSet(batch[s].failed)

\* Something in memory will still handle e: its object is in a batch, a retry
\* timer will queue it again, or its identifier waits.
InFlight(e) ==
    \/ \E s \in Slots, n \in 1..Copies : <<e, n>> \in ToSet(batch[s].todo)
    \/ \E n \in 1..Copies : retrying[<<e, n>>] > 0

Scheduled(e) == e \in ToSet(waiting) \/ InFlight(e)

\* handleQueueOverflow with the default strategy: the write starts.
Park(e) == parking' = [parking EXCEPT ![e] = @ + 1]

\* enqueueInternal(o, false), up to its first await.
Requeue(o) ==
    \/ Full /\ Park(o[1]) /\ UNCHANGED <<queue, scheduler>>
    \/ /\ ~Full
       /\ queue' = [queue EXCEPT ![o[1]] = o[2]]
       /\ StartProcessing(queue', Push(waiting, o[1]))
       /\ UNCHANGED parking

\* Fault: the size is checked before the event waits, not when it enters.
EnqueueUnchecked(e) ==
    /\ Up /\ e \notin arrived
    /\ arrived' = arrived \cup {e}
    /\ queue' = [queue EXCEPT ![e] = 1]
    /\ waiting' = Push(waiting, e)
    /\ persisting' = persisting \cup {e}
    /\ UNCHANGED <<retries, isProcessing, processingTimer, leaked, batch, retrying,
                   parking, disk, overflow, calls, accepted, delivered, outcome>>

\* handleFileCreated, -Modified and -Deleted up to the await in enqueueInternal.
Enqueue(e) ==
    /\ Up /\ e \notin arrived
    /\ arrived' = arrived \cup {e}
    /\ \/ Full /\ Park(e) /\ UNCHANGED <<queue, waiting, persisting>>
       \/ /\ ~Full
          /\ queue' = [queue EXCEPT ![e] = 1]
          /\ waiting' = Push(waiting, e)
          /\ persisting' = persisting \cup {e}
          /\ UNCHANGED parking
    /\ UNCHANGED <<retries, isProcessing, processingTimer, leaked, batch, retrying,
                   disk, overflow, calls, accepted, delivered, outcome>>

\* Fault: processing is started only by enqueues that find it stopped at first.
PersistedIdle(e) ==
    /\ e \in persisting
    /\ persisting' = persisting \ {e}
    /\ disk' = disk \cup {e} /\ accepted' = accepted \cup {e}
    /\ UNCHANGED <<memory, parking, overflow, calls, arrived, delivered, outcome>>

\* Fault: enqueueInternal resolves before the file is written.
PersistedUnwritten(e) ==
    /\ e \in persisting
    /\ persisting' = persisting \ {e}
    /\ accepted' = accepted \cup {e}
    /\ StartProcessing(queue, waiting)
    /\ UNCHANGED <<queue, retries, retrying, parking, disk, overflow, calls, arrived, delivered, outcome>>

\* persistEvent settled: enqueueInternal goes on and resolves.
Persisted(e) ==
    /\ e \in persisting
    /\ persisting' = persisting \ {e}
    /\ \/ /\ persistenceEnabled
          /\ disk' = disk \cup {e} /\ accepted' = accepted \cup {e}
          /\ doubled' = IF \/ e \in overflow
                           \/ delivered[e] > 0 /\ ~Removing(e)
                           \/ GivenUp(e) /\ ~Dropping(e)
                        THEN doubled \cup {e} ELSE doubled
       \/ DiskMayFail /\ UNCHANGED <<disk, accepted, doubled>>
    /\ StartProcessing(queue, waiting)
    /\ UNCHANGED <<queue, retries, retrying, parking, overflow, calls, arrived, delivered, exposed, cleared>>

\* handleQueueOverflow settled, for a new event, a retry or a loaded file.
Parked(e) ==
    /\ parking[e] > 0
    /\ parking' = [parking EXCEPT ![e] = @ - 1]
    /\ \/ /\ overflow' = overflow \cup {e} /\ accepted' = accepted \cup {e}
          /\ doubled' = IF e \in disk THEN doubled \cup {e} ELSE doubled
       \/ DiskMayFail /\ UNCHANGED <<overflow, accepted, doubled>>
    /\ UNCHANGED <<memory, persisting, disk, calls, arrived, delivered, exposed, cleared>>

-----------------------------------------------------------------------------
(* Processing a batch *)

\* The event of slot s is dealt with: on to the next one, or to the failed.
NextEvent(s, failed) ==
    LET rest == Tail(batch[s].todo) IN
    batch' = [batch EXCEPT ![s] =
        IF rest # <<>> THEN [at |-> "process", todo |-> rest, failed |-> failed]
        ELSE IF failed # <<>> THEN [at |-> "park", todo |-> <<>>, failed |-> failed]
        ELSE NoBatch]

\* processEvent emitted eventProcessed and no listener threw.
Deliver(s) ==
    /\ TimersFire /\ batch[s].at = "process"
    /\ LET e == Current(s)[1] IN
       /\ delivered' = [delivered EXCEPT ![e] = @ + 1]
       /\ queue' = [queue EXCEPT ![e] = 0]
    /\ batch' = [batch EXCEPT ![s].at = "remove"]
    /\ UNCHANGED <<waiting, retries, isProcessing, processingTimer, leaked, retrying,
                   files, calls, arrived, accepted, outcome>>

\* Fault: no timer is set for the retry.
RetryNever(s) ==
    LET o == Current(s) IN
    /\ ListenersThrow /\ TimersFire /\ batch[s].at = "process" /\ retries[o] < MaxRetries
    /\ retries' = [retries EXCEPT ![o] = @ + 1]
    /\ NextEvent(s, batch[s].failed)
    /\ UNCHANGED <<queue, waiting, isProcessing, processingTimer, leaked, retrying, files, calls, past>>

\* A listener threw and retries are left: the event keeps its entry and file.
RetryLater(s) ==
    LET o == Current(s) IN
    /\ ListenersThrow /\ TimersFire /\ batch[s].at = "process" /\ retries[o] < MaxRetries
    /\ retries' = [retries EXCEPT ![o] = @ + 1]
    /\ retrying' = [retrying EXCEPT ![o] = @ + 1]
    /\ NextEvent(s, batch[s].failed)
    /\ UNCHANGED <<queue, waiting, isProcessing, processingTimer, leaked, files, calls, past>>

\* A listener threw once too often.
GiveUp(s) ==
    LET o == Current(s) IN
    /\ ListenersThrow /\ TimersFire /\ batch[s].at = "process" /\ retries[o] >= MaxRetries
    /\ queue' = [queue EXCEPT ![o[1]] = 0]
    /\ batch' = [batch EXCEPT ![s] = [at |-> "drop", todo |-> @.todo, failed |-> Append(@.failed, o)]]
    /\ UNCHANGED <<waiting, retries, isProcessing, processingTimer, leaked, retrying, files, calls, past>>

\* removePersistedEvent settled, after a delivery or a failure.
Removed(s) ==
    /\ batch[s].at \in {"remove", "drop"}
    /\ \/ /\ persistenceEnabled
          /\ disk' = disk \ {Current(s)[1]}
          /\ UNCHANGED doubled
       \/ /\ DiskMayFail /\ doubled' = doubled \cup {Current(s)[1]}
          /\ UNCHANGED disk
    /\ NextEvent(s, batch[s].failed)
    /\ UNCHANGED <<queue, waiting, retries, isProcessing, processingTimer, leaked, retrying,
                   persisting, parking, overflow, calls, arrived, accepted, delivered, exposed, cleared>>

\* One failed event is in the overflow directory; an error ends the loop.
BatchParked(s) ==
    /\ batch[s].at = "park"
    /\ LET e == Head(batch[s].failed)[1]
           rest == Tail(batch[s].failed) IN
       \/ /\ overflow' = overflow \cup {e}
          /\ batch' = [batch EXCEPT ![s] = IF rest = <<>> THEN NoBatch ELSE [@ EXCEPT !.failed = rest]]
          /\ doubled' = IF e \in disk THEN doubled \cup {e} ELSE doubled
       \/ /\ DiskMayFail
          /\ batch' = [batch EXCEPT ![s] = NoBatch]
          /\ UNCHANGED <<overflow, doubled>>
    /\ UNCHANGED <<queue, waiting, retries, isProcessing, processingTimer, leaked, retrying,
                   persisting, parking, disk, calls, arrived, accepted, delivered, exposed, cleared>>

\* The setTimeout of a retry fires.
RetryFires(o) ==
    /\ retrying[o] > 0
    /\ TimersFire
    /\ retrying' = [retrying EXCEPT ![o] = @ - 1]
    /\ Requeue(o)
    /\ UNCHANGED <<retries, persisting, disk, overflow, calls, past>>

-----------------------------------------------------------------------------
(* Files read back: at the start, and by retryFailedEvents *)

\* An object JSON.parse has just made for e; its retryCount is 0.
Parsed(e, o) ==
    /\ o \in {<<e, n>> : n \in 1..Copies}
    /\ queue[e] # o[2] /\ retrying[o] = 0
    /\ \A s \in Slots : o \notin ToSet(batch[s].todo) \cup ToSet(batch[s].failed)
    /\ retries' = [retries EXCEPT ![o] = 0]
    /\ doubled' = IF Scheduled(e) \/ parking[e] > 0 THEN doubled \cup {e} ELSE doubled

\* mkdir in initializePersistence and readdir in loadPersistedEvents.  Where mkdir
\* fails there is no directory: what is in flight on it fails too, and
\* persistence is off.  Where readdir fails nothing is loaded.
ListFiles ==
    /\ boot.at = "mkdir"
    /\ \/ boot' = [at |-> IF disk = {} THEN "ready" ELSE "load", left |-> disk]
       \/ DiskMayFail /\ \E at \in {"ready", "off"} : boot' = [at |-> at, left |-> {}]
    /\ UNCHANGED <<memory, files, retryCall, clearCall, budget, shut, past>>

BootGoesOn(e) ==
    LET rest == boot.left \ {e} IN
    boot' = [at |-> IF rest = {} THEN "ready" ELSE "load", left |-> rest]

\* Fault: the loop stops at the first file.
LoadOnlyOne(e) ==
    /\ boot.at = "load" /\ e \in boot.left
    /\ boot' = [at |-> "ready", left |-> {}]
    /\ \/ e \notin disk /\ UNCHANGED <<memory, files, doubled>>
       \/ /\ e \in disk
          /\ \E n \in 1..Copies : Parsed(e, <<e, n>>) /\ Requeue(<<e, n>>)
          /\ UNCHANGED <<retrying, persisting, disk, overflow>>
    /\ UNCHANGED <<retryCall, clearCall, budget, shut, arrived, accepted, delivered, exposed, cleared>>

\* readFile settled; a file that is gone or cannot be read is logged and skipped.
Load(e) ==
    /\ boot.at = "load" /\ e \in boot.left
    /\ BootGoesOn(e)
    /\ \/ /\ e \notin disk \/ DiskMayFail
          /\ UNCHANGED <<memory, files, doubled>>
       \/ /\ e \in disk
          /\ \E n \in 1..Copies : Parsed(e, <<e, n>>) /\ Requeue(<<e, n>>)
          /\ UNCHANGED <<retrying, persisting, disk, overflow>>
    /\ UNCHANGED <<retryCall, clearCall, budget, shut, arrived, accepted, delivered, exposed, cleared>>

RetryFailedEvents ==
    /\ Up /\ persistenceEnabled /\ retryCall.at = "idle" /\ Spend("retry")
    /\ retryCall' = [at |-> "list", left |-> {}]
    /\ UNCHANGED <<memory, files, boot, clearCall, shut, past>>

RetryList ==
    /\ retryCall.at = "list"
    /\ \/ retryCall' = IF overflow = {} THEN NoCall ELSE [at |-> "read", left |-> overflow]
       \/ DiskMayFail /\ retryCall' = NoCall
    /\ UNCHANGED <<memory, files, boot, clearCall, budget, shut, past>>

\* On to the next file, when the one for e is dealt with.
RetryGoesOn(e) ==
    LET rest == retryCall.left \ {e} IN
    retryCall' = IF rest = {} THEN NoCall ELSE [at |-> "read", left |-> rest]

\* Await `at` for file e; the files still to come stay in left.
RetryWaits(at, e) ==
    retryCall' = [at |-> at, left |-> retryCall.left, file |-> e]

RetryRead(e) ==
    /\ retryCall.at = "read" /\ e \in retryCall.left
    /\ \/ /\ e \notin overflow \/ DiskMayFail
          /\ RetryGoesOn(e)
          /\ UNCHANGED <<memory, files, doubled>>
       \/ /\ e \in overflow /\ ~Full
          /\ RetryWaits("unlink", e)
          /\ \E n \in 1..Copies : Parsed(e, <<e, n>>) /\ Requeue(<<e, n>>)
          /\ UNCHANGED <<retrying, persisting, disk, overflow>>
       \/ /\ e \in overflow /\ Full
          /\ RetryWaits("park", e)
          /\ UNCHANGED <<memory, files, doubled>>
    /\ UNCHANGED <<boot, clearCall, budget, shut, arrived, accepted, delivered, exposed, cleared>>

\* Still full: handleQueueOverflow has written the file again.
RetryParked ==
    /\ retryCall.at = "park"
    /\ \/ overflow' = overflow \cup {retryCall.file}
       \/ DiskMayFail /\ UNCHANGED overflow
    /\ RetryGoesOn(retryCall.file)
    /\ UNCHANGED <<memory, persisting, parking, disk, boot, clearCall, budget, shut, past>>

\* The event is queued again and its file removed from overflow.
RetryUnlinked ==
    /\ retryCall.at = "unlink"
    /\ \/ overflow' = overflow \ {retryCall.file}
       \/ DiskMayFail /\ UNCHANGED overflow
    /\ RetryGoesOn(retryCall.file)
    /\ UNCHANGED <<memory, persisting, parking, disk, boot, clearCall, budget, shut, past>>

-----------------------------------------------------------------------------
(* clear, shutdown, crash and restart *)

JustCleared ==
    cleared' = cleared \cup {e \in Events :
        boot.at \in {"ready", "off"} /\ queue[e] # 0 /\ delivered[e] = 0 /\ ~InFlight(e)}

\* Fault: memory is left for later.
ClearFilesFirst ==
    /\ Up /\ clearCall.at = "idle" /\ Spend("clear")
    /\ StopProcessing
    /\ clearCall' = IF persistenceEnabled THEN [at |-> "list", left |-> {}] ELSE NoCall
    /\ JustCleared
    /\ UNCHANGED <<queue, waiting, retries, batch, retrying, files, boot, retryCall, shut>>
    /\ UNCHANGED <<arrived, accepted, delivered, doubled, exposed>>

\* Memory is emptied at once; retry timers and batches in flight go on.
Clear ==
    /\ Up /\ clearCall.at = "idle" /\ Spend("clear")
    /\ StopProcessing
    /\ queue' = [e \in Events |-> 0]
    /\ waiting' = <<>>
    /\ clearCall' = IF persistenceEnabled THEN [at |-> "list", left |-> {}] ELSE NoCall
    /\ JustCleared
    /\ UNCHANGED <<retries, batch, retrying, files, boot, retryCall, shut>>
    /\ UNCHANGED <<arrived, accepted, delivered, doubled, exposed>>

ClearList ==
    /\ \/ /\ clearCall.at = "list"
          /\ clearCall' = [at |-> IF disk = {} THEN "listOverflow" ELSE "unlink", left |-> disk]
       \/ /\ clearCall.at = "listOverflow"
          /\ clearCall' = IF overflow = {} THEN NoCall ELSE [at |-> "unlinkOverflow", left |-> overflow]
       \/ /\ clearCall.at \in {"list", "listOverflow"} /\ DiskMayFail
          /\ clearCall' = NoCall
    /\ UNCHANGED <<memory, files, boot, retryCall, budget, shut, past>>

\* A file that is already gone makes unlink throw, which ends the clearing.
ClearUnlink(e) ==
    /\ e \in clearCall.left
    /\ LET rest == clearCall.left \ {e} IN
       \/ /\ clearCall.at = "unlink" /\ e \in disk
          /\ disk' = disk \ {e}
          /\ clearCall' = [at |-> IF rest = {} THEN "listOverflow" ELSE "unlink", left |-> rest]
          /\ UNCHANGED overflow
       \/ /\ clearCall.at = "unlinkOverflow" /\ e \in overflow
          /\ overflow' = overflow \ {e}
          /\ clearCall' = IF rest = {} THEN NoCall ELSE [clearCall EXCEPT !.left = rest]
          /\ UNCHANGED disk
       \/ /\ DiskMayFail \/ e \notin (IF clearCall.at = "unlink" THEN disk ELSE overflow)
          /\ clearCall' = NoCall
          /\ UNCHANGED <<disk, overflow>>
    /\ UNCHANGED <<memory, persisting, parking, boot, retryCall, budget, shut, past>>

Shutdown ==
    /\ Up /\ Spend("shutdown")
    /\ StopProcessing
    /\ shut' = TRUE
    /\ UNCHANGED <<queue, waiting, retries, batch, retrying, files, boot, retryCall, clearCall, past>>

\* The process dies: only the files are left.
Crash ==
    /\ Up /\ Spend("crash")
    /\ Blank(queue', waiting', retries', isProcessing', processingTimer', leaked', batch', retrying',
             persisting', parking', retryCall', clearCall', shut')
    /\ boot' = [at |-> "down", left |-> {}]
    /\ doubled' = doubled \cup {e \in disk : Removing(e)}
    /\ exposed' = exposed \cup {e \in Events \ (disk \cup overflow) : GivenUp(e)}
    /\ UNCHANGED <<disk, overflow, arrived, accepted, delivered, cleared>>

\* The constructor of the next process.
Restart ==
    /\ boot.at = "down"
    /\ boot' = [at |-> "mkdir", left |-> {}]
    /\ UNCHANGED <<memory, files, retryCall, clearCall, budget, shut, past>>

-----------------------------------------------------------------------------
Next ==
    \/ Tick \/ ListFiles \/ Clear \/ ClearList \/ Shutdown \/ Crash \/ Restart
    \/ RetryFailedEvents \/ RetryList \/ RetryParked \/ RetryUnlinked
    \/ \E e \in Events :
          Enqueue(e) \/ Persisted(e) \/ Parked(e) \/ Load(e) \/ RetryRead(e) \/ ClearUnlink(e)
    \/ \E s \in Slots :
          Deliver(s) \/ RetryLater(s) \/ GiveUp(s) \/ Removed(s) \/ BatchParked(s)
    \/ \E o \in Objects : RetryFires(o)

Spec == Init /\ [][Next]_vars

\* Timers fire, file operations settle, and a crashed service is restarted.
\* Nobody is obliged to report a change or to call a method.
Fairness ==
    /\ WF_vars(Tick) /\ WF_vars(ListFiles) /\ WF_vars(Restart)
    /\ WF_vars(RetryList) /\ WF_vars(RetryParked) /\ WF_vars(RetryUnlinked)
    /\ WF_vars(ClearList)
    /\ \A e \in Events : /\ WF_vars(Persisted(e)) /\ WF_vars(Parked(e))
                         /\ WF_vars(Load(e)) /\ WF_vars(RetryRead(e)) /\ WF_vars(ClearUnlink(e))
    /\ \A s \in Slots : /\ WF_vars(Deliver(s) \/ RetryLater(s) \/ GiveUp(s))
                        /\ WF_vars(Removed(s)) /\ WF_vars(BatchParked(s))
    /\ \A o \in Objects : WF_vars(RetryFires(o))

FairSpec == Spec /\ Fairness
-----------------------------------------------------------------------------
(* What must be true. *)

\* e is in a file, or on its way to the overflow directory.
InFile(e) ==
    e \in disk \cup overflow \/ parking[e] > 0 \/ GivenUp(e)

\* No event is lost: an accepted event that was never delivered is in a file,
\* on its way to one, or scheduled in memory.  A crash loses only what has failed
\* for good, whose file is gone before the batch is over and it is written to the
\* overflow directory.  (For configurations without clear, and with either crashes
\* or retryFailedEvents.)
Kept ==
    \A e \in accepted \ exposed : delivered[e] > 0 \/ InFile(e) \/ Scheduled(e)

\* No entry of the map is forgotten: it is scheduled, or it could not enter
\* the priority queue again and a copy is in the overflow directory.
EntryHasFuture ==
    \A e \in Events :
        queue[e] # 0 => Scheduled(e) \/ e \in overflow \/ parking[e] > 0

\* A waiting event is never left without a timer: processing is on, or the
\* enqueue that will start it is still waiting for its file, or someone
\* stopped the queue on purpose.
NeverIdle ==
    \A e \in ToSet(waiting) :
        queue[e] # 0 => isProcessing \/ shut \/ ToSet(waiting) \cap persisting # {}

\* The map never exceeds maxQueueSize, whatever timers queue again.
Bounded == Size(queue) <= MaxQueueSize

\* An event is delivered at most once, although batches overlap, retries race
\* them and files are read back, unless another copy of it was made: its file was
\* written after its delivery or its last failure or together with an overflow copy,
\* or read while the event was scheduled or being parked, or outlived a delivery in
\* a crash or an error.
AtMostOnce == \A e \in Events \ doubled : delivered[e] <= 1

\* What only waited for its first delivery when clear was called is never
\* delivered: only batches, retry timers and a start-up load in flight carry
\* events past it.
ClearTakesOut == \A e \in cleared : delivered[e] = 0

\* A batch never takes an event while one of higher priority stays behind.
PriorityRespected ==
    [][boot'.at # "down" =>
        \A e \in ToSet(waiting) \ ToSet(waiting'), f \in ToSet(waiting') :
            queue[e] # 0 /\ queue'[e] # 0 => Priority(f) <= Priority(e)]_vars

\* Every accepted event is delivered or ends up in the overflow directory, even
\* after a crash, unless that crash found it given up.
EventuallyHandled ==
    \A e \in Events : e \in accepted ~> delivered[e] > 0 \/ e \in overflow \cup exposed

=============================================================================
