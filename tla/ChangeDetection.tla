--------------------------- MODULE ChangeDetection ---------------------------
(***************************************************************************)
(* How a change on the disk becomes a report: the queue of                 *)
(* src/services/filesystem/FileWatcherService.ts, which is swept after a   *)
(* short silence, and the hashes and debounce timers of                    *)
(* ChangeDetectionService.ts, which decide what is reported.               *)
(*                                                                         *)
(* The hash of a file is its content.  fileHashes is also what the         *)
(* listeners were last told, for each assignment to it is reported in the  *)
(* same step.                                                              *)
(***************************************************************************)
EXTENDS Naturals, Sequences, FiniteSets, SequencesExt

CONSTANTS
    Files, Roots,   \* the files and the watch paths
    RootOf,         \* the watch path of each file
    Key,            \* relativePath: relative to the watch path
    CwdKey,         \* the path relative to process.cwd()
    Contents,       \* what a file may hold
    Absent,         \* no file, no hash, or a file that could not be read
    Unread,         \* getFileInfo has not read the file yet
    MaxChanges      \* bound: how often the disk changes

ASSUME FilesAssumption ==
    /\ IsFiniteSet(Files) /\ RootOf \in [Files -> Roots]
    /\ Absent \notin Contents /\ Unread \notin Contents \cup {Absent}

Hashes == Contents \cup {Absent}
Keys == {Key[f] : f \in Files} \cup {CwdKey[f] : f \in Files}

\* The files whose path is also that of a file in another watch path.
Namesakes == {f \in Files : \E g \in Files \ {f} : Key[g] = Key[f]}

VARIABLES
    disk,           \* the content of each file
    changes,        \* how often the disk has changed
    watching,       \* "no", "traversed", "yes", "stopped"
    known, dirty,   \* the watcher: files it reported, files written since then
    order,          \* the keys of eventQueue in the order they were added
    events,         \* the events of each watch path that are still to be processed
    timer,          \* eventProcessingTimer is running
    sweep,          \* the place in order of the event being processed; 0 if processingQueue is false
    info,           \* getFileInfo of that event: Unread, or the content it read
    hashes,         \* fileHashes
    callbacks,      \* the debounce timers and their callbacks
    pending,        \* pendingChanges: the number of a timer, 0 for none
    excused         \* history: namesakes, and files whose changes raced, were dropped or unreadable

diskVars == <<disk, changes, known, dirty>>
queueVars == <<order, events, timer, sweep, info>>
hashVars == <<hashes, callbacks, pending>>
detectionVars == <<diskVars, watching, queueVars, hashVars, excused>>

Event == [type : {"add", "change", "unlink"}, file : Files]

\* at is "armed" while the timer runs, then "reading", then "read".
Callback == [id : Nat, file : Files, previousHash : Contents,
             at : {"armed", "reading", "read"}, hash : Hashes]

DetectionTypeOK ==
    /\ disk \in [Files -> Hashes] /\ changes \in Nat
    /\ watching \in {"no", "traversed", "yes", "stopped"}
    /\ known \subseteq Files /\ dirty \subseteq Files
    /\ order \in Seq(Roots) /\ events \in [Roots -> Seq(Event)]
    /\ timer \in BOOLEAN /\ sweep \in Nat
    /\ info \in {Unread} \cup Hashes
    /\ hashes \in [Keys -> Hashes]
    /\ callbacks \subseteq Callback
    /\ pending \in [Keys -> Nat]
    /\ excused \subseteq Files

DetectionInit ==
    /\ disk \in [Files -> Hashes] /\ changes = 0
    /\ watching = "no"
    /\ known = {} /\ dirty = {}
    /\ order = <<>> /\ events = [r \in Roots |-> <<>>]
    /\ timer = FALSE /\ sweep = 0 /\ info = Unread
    /\ hashes = [k \in Keys |-> Absent]
    /\ callbacks = {} /\ pending = [k \in Keys |-> 0]
    /\ excused = {}

-----------------------------------------------------------------------------
(* The disk, and initialize *)

\* A file is written or deleted.
Change(f) ==
    /\ changes < MaxChanges /\ changes' = changes + 1
    /\ \/ \E c \in Contents : disk' = [disk EXCEPT ![f] = c]
       \/ disk[f] # Absent /\ disk' = [disk EXCEPT ![f] = Absent]
    /\ dirty' = dirty \cup {f}
    /\ UNCHANGED <<known, watching, queueVars, hashVars, excused>>

\* What is found under a path, in any watch path.
Found(k) == {disk[f] : f \in {g \in Files : Key[g] = k}} \ {Absent}

\* initializeFileHashes: of namesakes the one traversed last is kept.
Traverse ==
    /\ watching = "no" /\ watching' = "traversed"
    /\ hashes' \in [Keys -> Hashes]
    /\ \A k \in Keys : hashes'[k] \in IF Found(k) = {} THEN {Absent} ELSE Found(k)
    /\ UNCHANGED <<diskVars, queueVars, callbacks, pending, excused>>

\* The watcher is ready; with ignoreInitial it does not tell what it finds.
Watch ==
    /\ watching = "traversed" /\ watching' = "yes"
    /\ known' = {f \in Files : disk[f] # Absent} /\ dirty' = {}
    /\ excused' = Namesakes \cup {f \in Files : hashes[Key[f]] # disk[f]}
    /\ UNCHANGED <<disk, changes, queueVars, hashVars>>

-----------------------------------------------------------------------------
(* The watcher's events and their queue *)

\* queueFileEvent: events that come during a sweep join the queue it goes through.
Queue(e) ==
    LET r == RootOf[e.file] IN
    /\ order' = IF \E i \in DOMAIN order : order[i] = r THEN order ELSE Append(order, r)
    /\ events' = [events EXCEPT ![r] = Append(@, e)]
    /\ timer' = TRUE

\* The watcher tells what has become of a file since it told last.
Notice(f) ==
    /\ watching = "yes"
    /\ \/ /\ f \notin known /\ disk[f] # Absent
          /\ Queue([type |-> "add", file |-> f])
          /\ known' = known \cup {f}
       \/ /\ f \in known /\ f \in dirty /\ disk[f] # Absent
          /\ Queue([type |-> "change", file |-> f])
          /\ UNCHANGED known
       \/ /\ f \in known /\ disk[f] = Absent
          /\ Queue([type |-> "unlink", file |-> f])
          /\ known' = known \ {f}
    /\ dirty' = dirty \ {f}
    /\ UNCHANGED <<disk, changes, watching, sweep, info, hashVars, excused>>

\* eventProcessingTimer fires; a sweep under way goes on alone.
Sweep ==
    /\ timer /\ timer' = FALSE
    /\ sweep' = IF sweep = 0 /\ order # <<>> THEN 1 ELSE sweep
    /\ UNCHANGED <<diskVars, watching, order, events, info, hashVars, excused>>

Current == Head(events[order[sweep]])

\* Fault: the queue is cleared after each watch path.
AdvanceOnce(others) ==
    LET r == order[sweep] IN
    /\ info' = Unread
    /\ excused' = excused \cup others
    /\ \/ /\ Len(events[r]) > 1
          /\ events' = [events EXCEPT ![r] = Tail(@)]
          /\ UNCHANGED <<order, sweep>>
       \/ /\ Len(events[r]) = 1
          /\ events' = [s \in Roots |-> <<>>] /\ order' = <<>> /\ sweep' = 0

\* The event is processed: on to the next one of its watch path, to the next
\* path, or clear the queue with whatever joined the paths already done.
Advance(others) ==
    LET r == order[sweep] IN
    /\ info' = Unread
    /\ \/ /\ Len(events[r]) > 1
          /\ events' = [events EXCEPT ![r] = Tail(@)]
          /\ excused' = excused \cup others
          /\ UNCHANGED <<order, sweep>>
       \/ /\ Len(events[r]) = 1 /\ sweep < Len(order)
          /\ events' = [events EXCEPT ![r] = <<>>] /\ sweep' = sweep + 1
          /\ excused' = excused \cup others
          /\ UNCHANGED order
       \/ /\ Len(events[r]) = 1 /\ sweep = Len(order)
          /\ events' = [s \in Roots |-> <<>>] /\ order' = <<>> /\ sweep' = 0
          /\ excused' = excused \cup others \cup
                 {e.file : e \in UNION {ToSet(events[s]) : s \in Roots \ {r}}}

\* Fault: a file of the first watch path that cannot be read ends the sweep.
ReadInfoThrows ==
    /\ sweep > 0 /\ info = Unread /\ Current.type # "unlink"
    /\ \/ info' = disk[Current.file] /\ UNCHANGED <<excused, sweep>>
       \/ sweep = 1 /\ sweep' = 0 /\ excused' = excused \cup {Current.file} /\ UNCHANGED info
    /\ UNCHANGED <<diskVars, watching, order, events, timer, hashVars>>

\* getFileInfo has read the file: null when it is not there or unreadable.
ReadInfo ==
    /\ sweep > 0 /\ info = Unread /\ Current.type # "unlink"
    /\ \/ info' = disk[Current.file] /\ UNCHANGED excused
       \/ info' = Absent /\ disk[Current.file] # Absent /\ excused' = excused \cup {Current.file}
    /\ UNCHANGED <<diskVars, watching, order, events, timer, sweep, hashVars>>

-----------------------------------------------------------------------------
(* What the change detector makes of an event *)

\* The callbacks of the file that are past their timer.
Flying(f) == {c \in callbacks : c.file = f /\ c.at # "armed"}
Crossing(f) == IF Flying(f) # {} THEN {f} ELSE {}

Numbers == {c.id : c \in callbacks}
NextNumber == CHOOSE n \in 1..(Cardinality(callbacks) + 1) : n \notin Numbers

\* handleFileAdded: a file that is tracked already is not reported.
HandleAdded(f) ==
    /\ hashes' = IF hashes[Key[f]] = Absent THEN [hashes EXCEPT ![Key[f]] = info] ELSE hashes
    /\ UNCHANGED <<callbacks, pending>>

\* Fault: the timer of the last change is not cleared.
HandleChangedAgain(f) ==
    LET k == Key[f]  n == NextNumber IN
    /\ callbacks' = callbacks \cup
           {[id |-> n, file |-> f, previousHash |-> hashes[k], at |-> "armed", hash |-> Absent]}
    /\ pending' = [pending EXCEPT ![k] = n]
    /\ UNCHANGED hashes

\* handleFileChanged, for a file that is tracked: the timer of the last change
\* is replaced, and the hash to compare with is taken now.
HandleChanged(f) ==
    LET k == Key[f]  n == NextNumber IN
    /\ callbacks' = {c \in callbacks : ~(c.id = pending[k] /\ c.at = "armed")} \cup
           {[id |-> n, file |-> f, previousHash |-> hashes[k], at |-> "armed", hash |-> Absent]}
    /\ pending' = [pending EXCEPT ![k] = n]
    /\ UNCHANGED hashes

Added ==
    /\ sweep > 0 /\ info # Unread
    /\ Current.type = "add" \/ info = Absent \/ hashes[Key[Current.file]] = Absent
    /\ IF info = Absent THEN UNCHANGED hashVars ELSE HandleAdded(Current.file)
    /\ Advance(Crossing(Current.file))
    /\ UNCHANGED <<diskVars, watching, timer>>

Changed ==
    /\ sweep > 0 /\ info \notin {Unread, Absent} /\ Current.type = "change"
    /\ hashes[Key[Current.file]] # Absent
    /\ HandleChanged(Current.file)
    /\ Advance(Crossing(Current.file))
    /\ UNCHANGED <<diskVars, watching, timer>>

\* The files a deletion of f is amiss for: f when it is tracked under another
\* path than the one looked for, and the file that is tracked under that path.
Amiss(f) == {g \in Files : (Key[g] = Key[f]) # (Key[g] = CwdKey[f])}

\* handleFileDeleted looks for the path relative to the working directory.
Deleted ==
    /\ sweep > 0 /\ Current.type = "unlink"
    /\ hashes' = [hashes EXCEPT ![CwdKey[Current.file]] = Absent]
    /\ Advance(Crossing(Current.file) \cup Amiss(Current.file))
    /\ UNCHANGED <<diskVars, watching, timer, callbacks, pending>>

Replace(c, d) == callbacks' = (callbacks \ {c}) \cup {d}

\* A debounce timer fires and its callback starts to read the file.
Fire(c) ==
    /\ c.at = "armed"
    /\ Replace(c, [c EXCEPT !.at = "reading"])
    /\ UNCHANGED <<diskVars, watching, queueVars, hashes, pending, excused>>

\* The file is read, or an error caught.
ReadHash(c) ==
    /\ c.at = "reading"
    /\ \/ Replace(c, [c EXCEPT !.at = "read", !.hash = disk[c.file]]) /\ UNCHANGED excused
       \/ /\ disk[c.file] # Absent
          /\ Replace(c, [c EXCEPT !.at = "read"]) /\ excused' = excused \cup {c.file}
    /\ UNCHANGED <<diskVars, watching, queueVars, hashes, pending>>

\* The continuation compares with the hash from before the timer, and forgets
\* whatever timer the file has now.
Compare(c) ==
    /\ c.at = "read"
    /\ callbacks' = callbacks \ {c}
    /\ pending' = [pending EXCEPT ![Key[c.file]] = 0]
    /\ hashes' = IF c.hash \notin {Absent, c.previousHash} THEN [hashes EXCEPT ![Key[c.file]] = c.hash] ELSE hashes
    /\ excused' = IF hashes[Key[c.file]] = Absent /\ hashes' # hashes THEN excused \cup {c.file} ELSE excused
    /\ UNCHANGED <<diskVars, watching, queueVars>>

\* stop: the timers it knows of are cleared, the watcher is closed.
Stop ==
    /\ watching = "yes" /\ watching' = "stopped"
    /\ callbacks' = {c \in callbacks : ~(c.at = "armed" /\ c.id = pending[Key[c.file]])}
    /\ pending' = [k \in Keys |-> 0]
    /\ UNCHANGED <<diskVars, queueVars, hashes, excused>>

-----------------------------------------------------------------------------
Process == ReadInfo \/ Added \/ Changed \/ Deleted

Settle(c) == Fire(c) \/ ReadHash(c) \/ Compare(c)

DetectionNext ==
    \/ \E f \in Files : Change(f) \/ Notice(f)
    \/ Traverse \/ Watch \/ Stop
    \/ Sweep \/ Process
    \/ \E c \in callbacks : Settle(c)

DetectionSpec == DetectionInit /\ [][DetectionNext]_detectionVars

\* The watcher tells what changed, timers fire and reads end.
DetectionFairness ==
    /\ \A f \in Files : WF_detectionVars(Notice(f))
    /\ WF_detectionVars(Traverse) /\ WF_detectionVars(Watch) /\ WF_detectionVars(Sweep) /\ WF_detectionVars(Process)
    /\ WF_detectionVars(\E c \in callbacks : Settle(c))

DetectionFairSpec == DetectionSpec /\ DetectionFairness

-----------------------------------------------------------------------------
(* What must be true. *)

\* Nothing is under way: no change to tell, no event, no callback.
Quiet ==
    /\ order = <<>> /\ callbacks = {}
    /\ \A f \in Files : ~(f \in known /\ f \in dirty) /\ (f \in known <=> disk[f] # Absent)

\* Once it is quiet, what was reported of a file is what the disk holds, unless
\* a change of the file crossed a callback, armed or reading, was dropped with
\* the queue, could not be read or was made before the watcher was ready, or the
\* file shares its path with another: nothing but these makes them disagree.
Agreement ==
    watching = "yes" /\ Quiet => \A f \in Files \ excused : hashes[Key[f]] = disk[f]

\* Rapid changes of a file share one timer, of which stop knows, unless one of
\* them crossed a callback or the file shares its path with another: no orphan
\* reads and reports beside it.
OneTimer ==
    \A c, d \in callbacks : c.file = d.file /\ c.file \notin excused =>
        c = d /\ (watching = "yes" => pending[Key[c.file]] = c.id)

\* The queue is drained and the detector comes to rest: events that join a sweep
\* are not left behind without a timer, whoever holds processingQueue.
ComesToRest ==
    <>[](order = <<>> /\ callbacks = {} /\ (watching = "stopped" \/ Quiet))
=============================================================================
