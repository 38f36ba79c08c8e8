--------------------------- MODULE IndexPipeline ---------------------------
(***************************************************************************)
(* One call of IndexCoordinator.createIndex: AsyncPipeline runs five steps *)
(* with a timeout and retries each, and the batch-parsing step runs        *)
(* BatchProcessor.processInBatches, with timeouts and retries of its own.  *)
(* A timeout abandons an attempt but does not stop it: its loop over the   *)
(* batches goes on beside the attempt that replaces it, and may outlive    *)
(* the call.                                                               *)
(*                                                                         *)
(* Calls share no state, so one is enough.  Files are numbered in the      *)
(* order in which the traversal found them.  parseFiles settles a file     *)
(* that cannot be parsed by leaving it out and never rejects.  The files   *)
(* reach StorageCoordinator.store without chunks, which answers at once.   *)
(***************************************************************************)
EXTENDS Integers, FiniteSets

CONSTANTS
    MaxFiles,       \* bound on the files a traversal finds
    BatchSize,      \* indexing.batchSize
    Retries,        \* Retries[s]: retryAttempts of step s
    BatchAttempts   \* retryAttempts of processInBatches

memoryCheck == 1
fileTraversal == 2
batchParsing == 3
lspEnhancement == 4
storageCoordination == 5
Steps == memoryCheck..storageCoordination

ASSUME OptionsAssumption ==
    /\ MaxFiles \in Nat /\ BatchSize \in Nat \ {0}
    /\ Retries \in [Steps -> Nat] /\ BatchAttempts \in Nat \ {0}

VARIABLES
    enableLSP,      \* the option of the call
    step,           \* the step the pipeline is at; 0 before the first
    attempts,       \* attempts of this step that failed
    waiting,        \* what the pipeline awaits: hash, answer, delay or nothing
    running,        \* <<s, n>>: attempt n of step s has not settled
    loops,          \* loops[n]: processInBatches of attempt n
    requests,       \* <<n, b, t>>: try t at batch b by loop n is at the parser
    data,           \* what the steps have put together
    rejected,       \* history: files the answered attempts could not parse
    result

vars == <<enableLSP, step, attempts, waiting, running, loops, requests, data, rejected, result>>
pipeline == <<step, attempts, waiting, data, rejected, result>>

FileNumbers == 1..MaxFiles
Tries == 0..Retries[batchParsing]
NoLoop == [at |-> "idle"]
Loop(b, t, at, results, left) ==
    [at |-> at, batch |-> b, tries |-> t, results |-> results, unparsed |-> left]

TypeOK ==
    /\ enableLSP \in BOOLEAN
    /\ step \in Steps \cup {0} /\ attempts \in Nat
    /\ waiting \in {"hash", "answer", "delay", "nothing"}
    /\ running \subseteq Steps \X Nat
    /\ loops \in [Tries -> [at : {"idle"}] \cup
                           [at : {"parse", "delay"}, batch : FileNumbers, tries : Nat,
                            results : SUBSET FileNumbers, unparsed : SUBSET FileNumbers]]
    /\ requests \subseteq Tries \X FileNumbers \X Nat
    /\ data \in [found : 0..MaxFiles, parseResults : SUBSET FileNumbers, enhancedResults : SUBSET FileNumbers]
    /\ rejected \subseteq FileNumbers
    /\ result \in {"none", "success", "failure", "thrown"}

Init ==
    /\ enableLSP \in BOOLEAN
    /\ step = 0 /\ attempts = 0 /\ waiting = "hash"
    /\ running = {} /\ requests = {}
    /\ loops = [n \in Tries |-> NoLoop]
    /\ data = [found |-> 0, parseResults |-> {}, enhancedResults |-> {}]
    /\ rejected = {} /\ result = "none"

\* The attempt whose promise the pipeline awaits.
Live(s, n) == waiting = "answer" /\ step = s /\ attempts = n

Batch(b) == {f \in 1..data.found : (b - 1) * BatchSize < f /\ f <= b * BatchSize}
More(b) == b * BatchSize < data.found

-----------------------------------------------------------------------------
(* executeStepWithRetry *)

\* Attempt n of step s starts, after `done` has settled.
Start(s, n, done) ==
    /\ waiting' = "answer"
    /\ running' = (running \ done) \cup {<<s, n>>}

\* processInBatches of attempt n takes its first batch.
StartLoop(n) ==
    IF data.found = 0 THEN UNCHANGED <<loops, requests>>
    ELSE /\ loops' = [loops EXCEPT ![n] = Loop(1, 0, "parse", {}, {})]
         /\ requests' = requests \cup {<<n, 1, 0>>}

Return(what, done) ==
    /\ result' = what /\ waiting' = "nothing"
    /\ running' = running \ done

\* The live attempt resolved: d is the data of the next step, which starts.
Answered(d) ==
    LET this == {<<step, attempts>>} IN
    /\ data' = d
    /\ \/ /\ step < storageCoordination
          /\ step' = step + 1 /\ attempts' = 0
          /\ Start(step + 1, 0, this)
          /\ UNCHANGED result
       \/ /\ step = storageCoordination
          /\ Return("success", this)
          /\ UNCHANGED <<step, attempts>>

\* Fault: failed attempts are not counted.
FailedUncounted(done) ==
    /\ waiting' = "delay" /\ running' = running \ done
    /\ UNCHANGED <<step, attempts, data, rejected, result>>

\* The live attempt rejected, or its timer did; `done` says whether it settled.
Failed(done) ==
    /\ attempts' = attempts + 1
    /\ \/ /\ attempts < Retries[step]
          /\ waiting' = "delay" /\ running' = running \ done
          /\ UNCHANGED result
       \/ /\ attempts >= Retries[step]
          /\ Return("failure", done)
    /\ UNCHANGED <<step, data, rejected>>

\* Steps that settle before any timer can fire.
AtOnce ==
    \/ step = memoryCheck
    \/ step = batchParsing /\ data.found = 0
    \/ step = lspEnhancement /\ ~enableLSP

StepTimer ==
    /\ waiting = "answer" /\ ~AtOnce
    /\ Failed({})
    /\ UNCHANGED <<enableLSP, loops, requests>>

DelayOver ==
    /\ waiting = "delay"
    /\ Start(step, attempts, {})
    /\ IF step = batchParsing THEN StartLoop(attempts) ELSE UNCHANGED <<loops, requests>>
    /\ UNCHANGED <<enableLSP, step, attempts, data, rejected, result>>

-----------------------------------------------------------------------------
(* The steps *)

\* calculateDirectoryHash, outside the try of createIndex.
Hashed ==
    /\ waiting = "hash"
    /\ \/ /\ step' = memoryCheck /\ Start(memoryCheck, 0, {})
          /\ UNCHANGED result
       \/ /\ Return("thrown", {})
          /\ UNCHANGED step
    /\ UNCHANGED <<enableLSP, attempts, loops, requests, data, rejected>>

MemoryChecked ==
    /\ Live(memoryCheck, attempts)
    /\ \/ Answered(data) /\ UNCHANGED rejected
       \/ Failed({<<step, attempts>>})
    /\ UNCHANGED <<enableLSP, loops, requests>>

\* traverseDirectory; the first batch goes to the parser.
Traversed ==
    /\ Live(fileTraversal, attempts)
    /\ \E n \in 0..MaxFiles :
        /\ Answered([data EXCEPT !.found = n])
        /\ IF n = 0 THEN UNCHANGED <<loops, requests>>
           ELSE /\ loops' = [loops EXCEPT ![0] = Loop(1, 0, "parse", {}, {})]
                /\ requests' = requests \cup {<<0, 1, 0>>}
    /\ UNCHANGED <<enableLSP, rejected>>

ParsedNothing ==
    /\ Live(batchParsing, attempts) /\ data.found = 0
    /\ Answered(data)
    /\ UNCHANGED <<enableLSP, loops, requests, rejected>>

\* LSPEnhancementPhase.execute parses again, and leaves out what fails twice.
Enhanced ==
    /\ Live(lspEnhancement, attempts)
    /\ \E kept \in SUBSET data.parseResults :
        /\ enableLSP \/ kept = data.parseResults
        /\ Answered([data EXCEPT !.enhancedResults = kept])
        /\ rejected' = rejected \cup (data.parseResults \ kept)
    /\ UNCHANGED <<enableLSP, loops, requests>>

\* The second calculateDirectoryHash may reject; store has nothing to store.
Stored ==
    /\ Live(storageCoordination, attempts)
    /\ \/ Answered(data) /\ UNCHANGED rejected
       \/ Failed({<<step, attempts>>})
    /\ UNCHANGED <<enableLSP, loops, requests>>

\* An attempt nobody waits for settles.
LateAnswer(s, n) ==
    /\ <<s, n>> \in running /\ ~Live(s, n) /\ s # batchParsing
    /\ running' = running \ {<<s, n>>}
    /\ UNCHANGED <<enableLSP, pipeline, loops, requests>>

-----------------------------------------------------------------------------
(* processInBatches in attempt n of batch-parsing *)

\* Fault: attempts share the array of results.
NextBatchShared(n, b, results, left, pending) ==
    \/ /\ More(b)
       /\ loops' = [loops EXCEPT ![n] = Loop(b + 1, 0, "parse", results, left)]
       /\ requests' = pending \cup {<<n, b + 1, 0>>}
       /\ UNCHANGED <<pipeline, running>>
    \/ /\ ~More(b)
       /\ loops' = [loops EXCEPT ![n] = NoLoop]
       /\ requests' = pending
       /\ \/ /\ Live(batchParsing, n)
             /\ Answered([data EXCEPT !.parseResults = results])
             /\ rejected' = left
          \/ /\ ~Live(batchParsing, n)
             /\ running' = running \ {<<batchParsing, n>>}
             /\ data' = [data EXCEPT !.parseResults = results]
             /\ UNCHANGED <<step, attempts, waiting, rejected, result>>

\* Batch b is dealt with: on to the next one, or the loop resolves.  What the
\* parser still works on is `pending`.
NextBatch(n, b, results, left, pending) ==
    \/ /\ More(b)
       /\ loops' = [loops EXCEPT ![n] = Loop(b + 1, 0, "parse", results, left)]
       /\ requests' = pending \cup {<<n, b + 1, 0>>}
       /\ UNCHANGED <<pipeline, running>>
    \/ /\ ~More(b)
       /\ loops' = [loops EXCEPT ![n] = NoLoop]
       /\ requests' = pending
       /\ \/ /\ Live(batchParsing, n)
             /\ Answered([data EXCEPT !.parseResults = results])
             /\ rejected' = left
          \/ /\ ~Live(batchParsing, n)
             /\ running' = running \ {<<batchParsing, n>>}
             /\ UNCHANGED pipeline

\* Whether loop n awaits try t at batch b.
Awaits(n, b, t) == loops[n].at = "parse" /\ loops[n].batch = b /\ loops[n].tries = t

\* parseFiles settled for the loop that awaits it.
Parsed(n, b, t) ==
    /\ <<n, b, t>> \in requests /\ Awaits(n, b, t)
    /\ \E got \in SUBSET Batch(b) :
        NextBatch(n, b, loops[n].results \cup got, loops[n].unparsed \cup (Batch(b) \ got),
                  requests \ {<<n, b, t>>})
    /\ UNCHANGED enableLSP

\* parseFiles settled after its timer.
ParsedLate(n, b, t) ==
    /\ <<n, b, t>> \in requests /\ ~Awaits(n, b, t)
    /\ requests' = requests \ {<<n, b, t>>}
    /\ UNCHANGED <<enableLSP, pipeline, running, loops>>

\* Fault: the timer of a batch is shorter than the timer of the step.
BatchTimerFirst(n) ==
    /\ loops[n].at = "parse"
    /\ LET b == loops[n].batch
           t == loops[n].tries IN
       \/ /\ t + 1 < BatchAttempts
          /\ loops' = [loops EXCEPT ![n].at = "delay", ![n].tries = t + 1]
          /\ UNCHANGED <<pipeline, running, requests>>
       \/ /\ t + 1 >= BatchAttempts
          /\ NextBatch(n, b, loops[n].results, loops[n].unparsed, requests)
    /\ UNCHANGED enableLSP

\* Fault: a batch that times out is tried again for ever.
BatchTimerForever(n) ==
    /\ loops[n].at = "parse" /\ ~Live(batchParsing, n)
    /\ loops' = [loops EXCEPT ![n].at = "delay"]
    /\ UNCHANGED <<enableLSP, pipeline, running, requests>>

\* The timer of a batch.  It is as long as the timer of the step, which was set
\* before it: by the time it fires the attempt is abandoned.
BatchTimer(n) ==
    /\ loops[n].at = "parse" /\ ~Live(batchParsing, n)
    /\ LET b == loops[n].batch
           t == loops[n].tries IN
       \/ /\ t + 1 < BatchAttempts
          /\ loops' = [loops EXCEPT ![n].at = "delay", ![n].tries = t + 1]
          /\ UNCHANGED <<pipeline, running, requests>>
       \/ /\ t + 1 >= BatchAttempts
          /\ NextBatch(n, b, loops[n].results, loops[n].unparsed, requests)
    /\ UNCHANGED enableLSP

BatchDelayOver(n) ==
    /\ loops[n].at = "delay"
    /\ loops' = [loops EXCEPT ![n].at = "parse"]
    /\ requests' = requests \cup {<<n, loops[n].batch, loops[n].tries>>}
    /\ UNCHANGED <<enableLSP, pipeline, running>>

-----------------------------------------------------------------------------
Next ==
    \/ Hashed \/ MemoryChecked \/ Traversed \/ ParsedNothing \/ Enhanced \/ Stored
    \/ StepTimer \/ DelayOver
    \/ \E r \in running : LateAnswer(r[1], r[2])
    \/ \E r \in requests : Parsed(r[1], r[2], r[3]) \/ ParsedLate(r[1], r[2], r[3])
    \/ \E n \in Tries : BatchTimer(n) \/ BatchDelayOver(n)

Spec == Init /\ [][Next]_vars

\* The first hash ends and timers fire; nothing else needs to answer.
Fairness ==
    /\ WF_vars(Hashed) /\ WF_vars(MemoryChecked) /\ WF_vars(ParsedNothing)
    /\ WF_vars(AtOnce /\ Enhanced)
    /\ WF_vars(StepTimer) /\ WF_vars(DelayOver)
    /\ \A n \in Tries : WF_vars(BatchTimer(n)) /\ WF_vars(BatchDelayOver(n))

FairSpec == Spec /\ Fairness

-----------------------------------------------------------------------------
(* Properties *)

\* A call that reports success has handed every file that the traversal found
\* to storage, save those the parser and the language server phase refused in
\* the attempts that were answered: no file is missing because a timer or a
\* retry left its batch out, and none comes from an attempt that was given up.
NoFileLeftOut ==
    result = "success" => data.enhancedResults = (1..data.found) \ rejected

\* Only the attempt that the pipeline awaits moves it on: attempts given up,
\* which keep parsing, change neither the data nor the result when they end.
OnlyTheLiveIsHeard ==
    [][(data' # data \/ (result = "none" /\ result' = "success")) =>
        /\ waiting = "answer"
        /\ <<step, attempts>> \in running /\ <<step, attempts>> \notin running']_vars

\* Every call returns, even when the traversal, the parser or a language server
\* never answers.
EveryCallReturns == <>(result # "none")

\* The loops over the batches end too, those given up included, although their
\* retries go on after the call has returned.
LoopsEnd == <>[](\A n \in Tries : loops[n] = NoLoop)
=============================================================================
