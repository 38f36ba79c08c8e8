---------------------------- MODULE IndexingProofs ----------------------------
(***************************************************************************)
(* Theorems about the two components that keep the index up to date: the   *)
(* pipeline that builds it (IndexPipeline) and the detection of what       *)
(* changes afterwards (ChangeDetection).  The components share no state    *)
(* and no lemma; each has a part of its own.                               *)
(*                                                                         *)
(* IndexPipeline, for any number of files, any batch size and any number   *)
(* of retries.  NoFileLeftOut is not inductive: that the loop of the live  *)
(* attempt has dealt with every batch before its current one has to be     *)
(* carried along, and so has what the answered steps left in data.         *)
(*                                                                         *)
(* ChangeDetection, for any files, watch paths and contents.  Agreement    *)
(* speaks of quiet states only.  What leads to it is carried along: where  *)
(* the events of a file are in the queue that the sweep goes through       *)
(* (Queueing), which timer a file has (Timers), and how what was reported  *)
(* of a file follows from its events and callbacks still to come           *)
(* (Reported).                                                             *)
(***************************************************************************)
EXTENDS IndexPipeline, ChangeDetection, FiniteSetTheorems, TLAPS

Active(n) == loops[n].at # "idle"
Before(b) == {f \in 1..data.found : f <= (b - 1) * BatchSize}

\* Where the call is, as far as the counters tell.
Placed ==
    /\ waiting = "hash" => step = 0 /\ attempts = 0
    /\ waiting \in {"answer", "delay"} => step \in Steps /\ attempts <= Retries[step]
    /\ waiting = "answer" => <<step, attempts>> \in running
    /\ result = "none" <=> waiting # "nothing"
    /\ result = "success" => step = storageCoordination

\* Every loop is at a batch of the files that the traversal found.
AtABatch ==
    \A n \in Tries : Active(n) =>
        /\ step >= batchParsing
        /\ (loops[n].batch - 1) * BatchSize < data.found

\* The live loop awaits the parser and has dealt with all earlier batches.
LiveLoop ==
    (step = batchParsing /\ waiting = "answer" /\ data.found > 0) =>
        /\ loops[attempts].at = "parse"
        /\ loops[attempts].unparsed \subseteq Before(loops[attempts].batch)
        /\ loops[attempts].results = Before(loops[attempts].batch) \ loops[attempts].unparsed

\* What the answered steps left.
Collected ==
    /\ step <= batchParsing => rejected = {} /\ data.parseResults = {}
    /\ step = lspEnhancement => data.parseResults = (1..data.found) \ rejected
    /\ step = storageCoordination => data.enhancedResults = (1..data.found) \ rejected

IInv == TypeOK /\ Placed /\ AtABatch /\ LiveLoop /\ Collected

LEMMA StepNumbers ==
    /\ memoryCheck = 1 /\ fileTraversal = 2 /\ batchParsing = 3
    /\ lspEnhancement = 4 /\ storageCoordination = 5 /\ Steps = 1..5
    /\ Tries = 0..Retries[3] /\ Retries \in [1..5 -> Nat]
    /\ MaxFiles \in Nat /\ BatchSize \in Nat /\ BatchSize > 0
  BY OptionsAssumption DEF memoryCheck, fileTraversal, batchParsing, lspEnhancement,
     storageCoordination, Steps, Tries

\* A batch that starts before the last file has a number among the files.
LEMMA BatchNumber ==
    ASSUME NEW b \in Nat \ {0}, NEW n \in 0..MaxFiles, (b - 1) * BatchSize < n
    PROVE  b \in FileNumbers
<1>1. BatchSize \in Nat /\ BatchSize >= 1 /\ MaxFiles \in Nat
  BY StepNumbers
<1>2. (b - 1) * (BatchSize - 1) >= 0
  BY <1>1
<1>3. b - 1 <= (b - 1) * BatchSize
  BY <1>1, <1>2
<1>4. b <= MaxFiles
  BY <1>1, <1>3
<1> QED
  BY <1>4 DEF FileNumbers

LEMMA Initially == Init => IInv
<1> SUFFICES ASSUME Init PROVE IInv
  OBVIOUS
<1> USE StepNumbers DEF Init
<1>1. TypeOK
  BY DEF TypeOK, NoLoop
<1>2. Placed
  BY DEF Placed
<1>3. AtABatch
  BY DEF AtABatch, Active, NoLoop
<1>4. LiveLoop
  BY DEF LiveLoop
<1>5. Collected
  BY DEF Collected
<1> QED
  BY <1>1, <1>2, <1>3, <1>4, <1>5 DEF IInv

-----------------------------------------------------------------------------
(* Types, in three parts *)

LoopRecords ==
    [at : {"idle"}] \cup [at : {"parse", "delay"}, batch : FileNumbers, tries : Nat,
                          results : SUBSET FileNumbers, unparsed : SUBSET FileNumbers]

CallTyped ==
    /\ enableLSP \in BOOLEAN
    /\ step \in Steps \cup {0} /\ attempts \in Nat
    /\ waiting \in {"hash", "answer", "delay", "nothing"}
    /\ running \subseteq Steps \X Nat
    /\ result \in {"none", "success", "failure", "thrown"}
LoopsTyped ==
    /\ loops \in [Tries -> LoopRecords]
    /\ requests \subseteq Tries \X FileNumbers \X Nat
DataTyped ==
    /\ data \in [found : 0..MaxFiles, parseResults : SUBSET FileNumbers, enhancedResults : SUBSET FileNumbers]
    /\ rejected \subseteq FileNumbers

LEMMA TypeParts ==
    /\ TypeOK <=> CallTyped /\ LoopsTyped /\ DataTyped
    /\ TypeOK' <=> CallTyped' /\ LoopsTyped' /\ DataTyped'
  BY DEF TypeOK, CallTyped, LoopsTyped, DataTyped, LoopRecords

LEMMA LoopMade ==
    ASSUME NEW b \in FileNumbers, NEW t \in Nat, NEW at \in {"parse", "delay"},
           NEW r \in SUBSET FileNumbers, NEW left \in SUBSET FileNumbers
    PROVE  /\ Loop(b, t, at, r, left) \in LoopRecords
           /\ Loop(b, t, at, r, left).at = at /\ Loop(b, t, at, r, left).batch = b
           /\ Loop(b, t, at, r, left).tries = t
           /\ Loop(b, t, at, r, left).results = r /\ Loop(b, t, at, r, left).unparsed = left
  BY DEF Loop, LoopRecords

LEMMA ActiveTyped ==
    ASSUME LoopsTyped, NEW n \in Tries, Active(n)
    PROVE  /\ loops[n].batch \in FileNumbers /\ loops[n].tries \in Nat
           /\ loops[n].at \in {"parse", "delay"}
           /\ loops[n].results \subseteq FileNumbers /\ loops[n].unparsed \subseteq FileNumbers
  BY DEF LoopsTyped, LoopRecords, Active

-----------------------------------------------------------------------------
(* What answers and failures do to the counters *)

LEMMA AnsweredMoves ==
    ASSUME CallTyped, Placed, waiting = "answer", NEW d, Answered(d), enableLSP' = enableLSP
    PROVE  /\ CallTyped' /\ Placed' /\ data' = d
           /\ \/ step \in 1..4 /\ step' = step + 1 /\ attempts' = 0 /\ waiting' = "answer"
              \/ step = 5 /\ step' = 5 /\ waiting' = "nothing"
           /\ <<step, attempts>> \in running /\ <<step, attempts>> \notin running'
<1> USE StepNumbers
<1>1. step \in 1..5 /\ result = "none" /\ <<step, attempts>> \in running
  BY DEF Placed
<1>2. data' = d
  BY DEF Answered
<1>3. CASE step \in 1..4
  <2>1. /\ step' = step + 1 /\ attempts' = 0 /\ waiting' = "answer" /\ result' = result
        /\ running' = (running \ {<<step, attempts>>}) \cup {<<step + 1, 0>>}
    BY <1>3 DEF Answered, Start
  <2>2. CallTyped'
    BY <1>3, <2>1 DEF CallTyped
  <2>3. Placed'
    BY <1>1, <1>3, <2>1 DEF Placed
  <2>4. <<step, attempts>> # <<step + 1, 0>>
    BY <1>3
  <2> QED
    BY <1>1, <1>2, <1>3, <2>1, <2>2, <2>3, <2>4
<1>4. CASE step = 5
  <2>1. /\ step' = step /\ attempts' = attempts /\ waiting' = "nothing" /\ result' = "success"
        /\ running' = running \ {<<step, attempts>>}
    BY <1>4 DEF Answered, Return
  <2>2. CallTyped'
    BY <2>1 DEF CallTyped
  <2>3. Placed'
    BY <1>4, <2>1 DEF Placed
  <2> QED
    BY <1>1, <1>2, <1>4, <2>1, <2>2, <2>3
<1> QED
  BY <1>1, <1>3, <1>4

LEMMA FailedMoves ==
    ASSUME CallTyped, Placed, waiting = "answer", NEW done, Failed(done), enableLSP' = enableLSP
    PROVE  /\ CallTyped' /\ Placed' /\ waiting' # "answer"
           /\ step' = step /\ data' = data /\ rejected' = rejected
           /\ result' # "success"
<1> USE StepNumbers
<1>1. /\ step \in 1..5 /\ result = "none" /\ attempts \in Nat
      /\ Retries[step] \in Nat
  BY DEF Placed, CallTyped
<1>2. /\ attempts' = attempts + 1 /\ step' = step /\ data' = data /\ rejected' = rejected
      /\ running' \subseteq running
      /\ \/ waiting' = "delay" /\ result' = result /\ attempts + 1 <= Retries[step]
         \/ waiting' = "nothing" /\ result' = "failure"
  BY <1>1 DEF Failed, Return
<1>3. CallTyped'
  BY <1>1, <1>2 DEF CallTyped
<1>4. Placed'
  BY <1>1, <1>2 DEF Placed
<1> QED
  BY <1>1, <1>2, <1>3, <1>4

LEMMA CallStays ==
    ASSUME CallTyped, Placed, enableLSP' = enableLSP,
           UNCHANGED <<step, attempts, waiting, result>>, running' \subseteq running,
           waiting = "answer" => <<step, attempts>> \in running'
    PROVE  CallTyped' /\ Placed'
<1>1. CallTyped'
  BY DEF CallTyped
<1>2. Placed'
  BY DEF Placed
<1> QED
  BY <1>1, <1>2

-----------------------------------------------------------------------------
(* The actions that leave the loops alone *)

\* What OnlyTheLiveIsHeard says of a step.
Heard ==
    (data' # data \/ (result = "none" /\ result' = "success")) =>
        /\ waiting = "answer"
        /\ <<step, attempts>> \in running /\ <<step, attempts>> \notin running'

LEMMA LoopsStay ==
    ASSUME LoopsTyped, AtABatch, UNCHANGED <<loops, requests>>, data'.found = data.found,
           step \in 0..5, step' \in 0..5, step' >= step
    PROVE  LoopsTyped' /\ AtABatch'
<1> USE StepNumbers
<1>1. LoopsTyped'
  BY DEF LoopsTyped
<1>2. AtABatch'
  BY DEF AtABatch, Active
<1> QED
  BY <1>1, <1>2

LEMMA HashedKeeps == ASSUME IInv, Hashed PROVE IInv' /\ Heard
<1> USE StepNumbers
<1>1. CallTyped /\ LoopsTyped /\ DataTyped /\ step = 0 /\ attempts = 0 /\ result = "none"
  BY TypeParts DEF IInv, Placed, Hashed
<1>2. /\ UNCHANGED <<enableLSP, attempts, loops, requests, data, rejected>>
      /\ \/ /\ step' = 1 /\ waiting' = "answer" /\ result' = "none"
            /\ running' = running \cup {<<1, 0>>}
         \/ step' = 0 /\ waiting' = "nothing" /\ result' = "thrown" /\ running' \subseteq running
  BY <1>1 DEF Hashed, Start, Return
<1>3. CallTyped' /\ DataTyped'
  BY <1>1, <1>2 DEF CallTyped, DataTyped
<1>4. Placed'
  BY <1>1, <1>2 DEF Placed
<1>5. LoopsTyped' /\ AtABatch'
  BY <1>1, <1>2, LoopsStay DEF IInv
<1>6. LiveLoop' /\ Collected'
  BY <1>1, <1>2 DEF IInv, LiveLoop, Collected
<1> QED
  BY <1>2, <1>1, <1>3, <1>4, <1>5, <1>6, TypeParts DEF IInv, Heard

LEMMA FailureKeeps ==
    ASSUME IInv, waiting = "answer", NEW done, Failed(done),
           UNCHANGED <<enableLSP, loops, requests>>
    PROVE  IInv' /\ Heard
<1> USE StepNumbers
<1>1. CallTyped /\ LoopsTyped /\ DataTyped /\ Placed /\ step \in 1..5
  BY TypeParts DEF IInv, Placed
<1>2. /\ CallTyped' /\ Placed' /\ waiting' # "answer" /\ result' # "success"
      /\ step' = step /\ data' = data /\ rejected' = rejected
  BY <1>1, FailedMoves
<1>3. DataTyped'
  BY <1>1, <1>2 DEF DataTyped
<1>4. LoopsTyped' /\ AtABatch'
  BY <1>1, <1>2, LoopsStay DEF IInv
<1>5. LiveLoop' /\ Collected'
  BY <1>1, <1>2 DEF IInv, LiveLoop, Collected
<1> QED
  BY <1>2, <1>3, <1>4, <1>5, TypeParts DEF IInv, Heard

\* An answer of a step other than the traversal, when no loop runs for it.
LEMMA AnswerKeeps ==
    ASSUME IInv, waiting = "answer", step # 2, NEW d, Answered(d), d.found = data.found,
           DataTyped', Collected', UNCHANGED <<enableLSP, loops, requests>>
    PROVE  IInv' /\ Heard
<1> USE StepNumbers
<1>1. CallTyped /\ LoopsTyped /\ DataTyped /\ Placed /\ step \in 1..5
  BY TypeParts DEF IInv, Placed
<1>2. /\ CallTyped' /\ Placed' /\ data' = d
      /\ \/ step \in 1..4 /\ step' = step + 1 /\ attempts' = 0 /\ waiting' = "answer"
         \/ step = 5 /\ step' = 5 /\ waiting' = "nothing"
      /\ <<step, attempts>> \in running /\ <<step, attempts>> \notin running'
  BY <1>1, AnsweredMoves
<1>3. LoopsTyped' /\ AtABatch'
  BY <1>1, <1>2, LoopsStay DEF IInv
<1>4. LiveLoop'
  BY <1>2 DEF LiveLoop
<1> QED
  BY <1>2, <1>3, <1>4, TypeParts DEF IInv, Heard

LEMMA MemoryCheckedKeeps == ASSUME IInv, MemoryChecked PROVE IInv' /\ Heard
<1> USE StepNumbers
<1>1. waiting = "answer" /\ step = 1 /\ UNCHANGED <<enableLSP, loops, requests>>
  BY DEF MemoryChecked, Live
<1>2. CASE Answered(data) /\ UNCHANGED rejected
  <2>1. CallTyped /\ DataTyped /\ Placed
    BY TypeParts DEF IInv
  <2>2. data' = data /\ step' = 2
    BY <1>1, <1>2, <2>1, AnsweredMoves
  <2>3. DataTyped' /\ Collected'
    BY <1>1, <1>2, <2>1, <2>2 DEF DataTyped, Collected, IInv
  <2> QED
    BY <1>1, <1>2, <2>3, AnswerKeeps
<1>3. CASE Failed({<<step, attempts>>})
  BY <1>1, <1>3, FailureKeeps
<1> QED
  BY <1>2, <1>3 DEF MemoryChecked

LEMMA StoredKeeps == ASSUME IInv, Stored PROVE IInv' /\ Heard
<1> USE StepNumbers
<1>1. waiting = "answer" /\ step = 5 /\ UNCHANGED <<enableLSP, loops, requests>>
  BY DEF Stored, Live
<1>2. CASE Answered(data) /\ UNCHANGED rejected
  <2>1. CallTyped /\ DataTyped /\ Placed
    BY TypeParts DEF IInv
  <2>2. data' = data /\ step' = 5
    BY <1>1, <1>2, <2>1, AnsweredMoves
  <2>3. DataTyped' /\ Collected'
    BY <1>1, <1>2, <2>1, <2>2 DEF DataTyped, Collected, IInv
  <2> QED
    BY <1>1, <1>2, <2>3, AnswerKeeps
<1>3. CASE Failed({<<step, attempts>>})
  BY <1>1, <1>3, FailureKeeps
<1> QED
  BY <1>2, <1>3 DEF Stored

LEMMA ParsedNothingKeeps == ASSUME IInv, ParsedNothing PROVE IInv' /\ Heard
<1> USE StepNumbers
<1>1. /\ waiting = "answer" /\ step = 3 /\ data.found = 0 /\ Answered(data)
      /\ UNCHANGED <<enableLSP, loops, requests, rejected>>
  BY DEF ParsedNothing, Live
<1>2. CallTyped /\ DataTyped /\ Placed
  BY TypeParts DEF IInv
<1>3. data' = data /\ step' = 4
  BY <1>1, <1>2, AnsweredMoves
<1>4. data.parseResults = {}
  BY <1>1 DEF IInv, Collected
<1>5. DataTyped' /\ Collected'
  BY <1>1, <1>2, <1>3, <1>4 DEF DataTyped, Collected
<1> QED
  BY <1>1, <1>5, AnswerKeeps

LEMMA EnhancedKeeps == ASSUME IInv, Enhanced PROVE IInv' /\ Heard
<1> USE StepNumbers
<1>1. waiting = "answer" /\ step = 4 /\ UNCHANGED <<enableLSP, loops, requests>>
  BY DEF Enhanced, Live
<1>2. PICK kept \in SUBSET data.parseResults :
        /\ Answered([data EXCEPT !.enhancedResults = kept])
        /\ rejected' = rejected \cup (data.parseResults \ kept)
  BY DEF Enhanced
<1>3. CallTyped /\ DataTyped /\ Placed
  BY TypeParts DEF IInv
<1>4. data' = [data EXCEPT !.enhancedResults = kept] /\ step' = 5
  BY <1>1, <1>2, <1>3, AnsweredMoves
<1>5. data.parseResults = (1..data.found) \ rejected
  BY <1>1 DEF IInv, Collected
<1>6. data'.found = data.found /\ data'.enhancedResults = kept
  BY <1>3, <1>4 DEF DataTyped
<1>7. DataTyped'
  BY <1>2, <1>3, <1>4 DEF DataTyped
<1>8. Collected'
  BY <1>2, <1>4, <1>5, <1>6 DEF Collected
<1> DEFINE d == [data EXCEPT !.enhancedResults = kept]
<1>9. Answered(d) /\ d.found = data.found
  BY <1>2, <1>4, <1>6
<1> HIDE DEF d
<1> QED
  BY <1>1, <1>7, <1>8, <1>9, AnswerKeeps

LEMMA StepTimerKeeps == ASSUME IInv, StepTimer PROVE IInv' /\ Heard
  BY FailureKeeps DEF StepTimer

LEMMA LateAnswerKeeps ==
    ASSUME IInv, NEW s \in Steps, NEW n \in Nat, LateAnswer(s, n) PROVE IInv' /\ Heard
<1> USE StepNumbers
<1>1. CallTyped /\ LoopsTyped /\ DataTyped /\ Placed /\ step \in 0..5
  BY TypeParts DEF IInv, CallTyped
<1>2. /\ UNCHANGED <<enableLSP, step, attempts, waiting, data, rejected, result, loops, requests>>
      /\ running' = running \ {<<s, n>>}
      /\ waiting = "answer" => <<s, n>> # <<step, attempts>>
  BY DEF LateAnswer, pipeline, Live
<1>3. waiting = "answer" => <<step, attempts>> \in running'
  BY <1>1, <1>2 DEF Placed
<1>4. CallTyped' /\ Placed'
  BY <1>1, <1>2, <1>3, CallStays
<1>5. LoopsTyped' /\ AtABatch'
  BY <1>1, <1>2, LoopsStay DEF IInv
<1>6. DataTyped' /\ LiveLoop' /\ Collected'
  BY <1>1, <1>2 DEF IInv, DataTyped, LiveLoop, Collected, Before
<1> QED
  BY <1>2, <1>4, <1>5, <1>6, TypeParts DEF IInv, Heard

-----------------------------------------------------------------------------
(* The actions that start a loop *)

LEMMA TraversedKeeps == ASSUME IInv, Traversed PROVE IInv' /\ Heard
<1> USE StepNumbers
<1>1. waiting = "answer" /\ step = 2 /\ UNCHANGED <<enableLSP, rejected>>
  BY DEF Traversed, Live
<1>2. PICK n \in 0..MaxFiles :
        /\ Answered([data EXCEPT !.found = n])
        /\ IF n = 0 THEN UNCHANGED <<loops, requests>>
           ELSE /\ loops' = [loops EXCEPT ![0] = Loop(1, 0, "parse", {}, {})]
                /\ requests' = requests \cup {<<0, 1, 0>>}
  BY DEF Traversed
<1>3. CallTyped /\ LoopsTyped /\ DataTyped /\ Placed
  BY TypeParts DEF IInv
<1>4. /\ CallTyped' /\ Placed' /\ data' = [data EXCEPT !.found = n]
      /\ step' = 3 /\ attempts' = 0 /\ waiting' = "answer"
      /\ <<step, attempts>> \in running /\ <<step, attempts>> \notin running'
  BY <1>1, <1>2, <1>3, AnsweredMoves
<1>5. DataTyped' /\ data'.found = n /\ data'.parseResults = data.parseResults
  BY <1>1, <1>3, <1>4 DEF DataTyped
<1>6. Collected'
  BY <1>1, <1>4, <1>5 DEF IInv, Collected
<1>7. (\A m \in Tries : ~Active(m)) /\ Heard
  BY <1>1, <1>4 DEF IInv, AtABatch, Heard
<1>8. CASE n = 0
  <2>1. UNCHANGED <<loops, requests>>
    BY <1>2, <1>8
  <2>2. LoopsTyped' /\ AtABatch' /\ LiveLoop'
    BY <1>3, <1>5, <1>7, <1>8, <2>1 DEF LoopsTyped, AtABatch, Active, LiveLoop
  <2> QED
    BY <1>4, <1>5, <1>6, <1>7, <2>2, TypeParts DEF IInv
<1>9. CASE n # 0
  <2>1. /\ loops' = [loops EXCEPT ![0] = Loop(1, 0, "parse", {}, {})]
        /\ requests' = requests \cup {<<0, 1, 0>>}
    BY <1>2, <1>9
  <2>2. 1 \in FileNumbers /\ 0 \in Tries
    BY <1>9 DEF FileNumbers
  <2>3. /\ Loop(1, 0, "parse", {}, {}) \in LoopRecords
        /\ Loop(1, 0, "parse", {}, {}).at = "parse" /\ Loop(1, 0, "parse", {}, {}).batch = 1
        /\ Loop(1, 0, "parse", {}, {}).results = {} /\ Loop(1, 0, "parse", {}, {}).unparsed = {}
    BY <2>2, LoopMade
  <2>4. LoopsTyped'
    BY <1>3, <2>1, <2>2, <2>3 DEF LoopsTyped
  <2>5. loops'[0] = Loop(1, 0, "parse", {}, {}) /\ \A m \in Tries \ {0} : loops'[m] = loops[m]
    BY <1>3, <2>1, <2>2 DEF LoopsTyped
  <2>6. AtABatch'
    BY <1>4, <1>5, <1>7, <1>9, <2>3, <2>5 DEF AtABatch, Active
  <2>7. Before(1)' = {}
    BY <1>5 DEF Before
  <2>8. LiveLoop'
    BY <1>4, <2>3, <2>5, <2>7 DEF LiveLoop
  <2> QED
    BY <1>4, <1>5, <1>6, <1>7, <2>4, <2>6, <2>8, TypeParts DEF IInv
<1> QED
  BY <1>8, <1>9

LEMMA DelayOverKeeps == ASSUME IInv, DelayOver PROVE IInv' /\ Heard
<1> USE StepNumbers
<1>1. /\ waiting = "delay" /\ waiting' = "answer" /\ running' = running \cup {<<step, attempts>>}
      /\ UNCHANGED <<enableLSP, step, attempts, data, rejected, result>>
  BY DEF DelayOver, Start
<1>2. CallTyped /\ LoopsTyped /\ DataTyped /\ Placed
  BY TypeParts DEF IInv
<1>3. step \in 1..5 /\ attempts \in Nat /\ attempts <= Retries[step]
  BY <1>1, <1>2 DEF Placed, CallTyped
<1>4. CallTyped'
  BY <1>1, <1>2, <1>3 DEF CallTyped
<1>5. Placed'
  BY <1>1, <1>2, <1>3 DEF Placed
<1>6. DataTyped' /\ Collected'
  BY <1>1, <1>2 DEF DataTyped, IInv, Collected
<1>7. CASE step # 3 \/ data.found = 0
  <2>1. UNCHANGED <<loops, requests>>
    BY <1>7 DEF DelayOver, StartLoop
  <2>2. LoopsTyped' /\ AtABatch'
    BY <1>1, <1>2, <1>3, <2>1, LoopsStay DEF IInv
  <2>3. LiveLoop'
    BY <1>1, <1>2, <1>7 DEF LiveLoop, DataTyped
  <2> QED
    BY <1>1, <1>4, <1>5, <1>6, <2>2, <2>3, TypeParts DEF IInv, Heard
<1>8. CASE step = 3 /\ data.found # 0
  <2>1. /\ loops' = [loops EXCEPT ![attempts] = Loop(1, 0, "parse", {}, {})]
        /\ requests' = requests \cup {<<attempts, 1, 0>>}
    BY <1>8 DEF DelayOver, StartLoop
  <2>2. 1 \in FileNumbers /\ attempts \in Tries /\ data.found \in Nat
    BY <1>2, <1>3, <1>8 DEF FileNumbers, DataTyped
  <2>3. /\ Loop(1, 0, "parse", {}, {}) \in LoopRecords
        /\ Loop(1, 0, "parse", {}, {}).at = "parse" /\ Loop(1, 0, "parse", {}, {}).batch = 1
        /\ Loop(1, 0, "parse", {}, {}).results = {} /\ Loop(1, 0, "parse", {}, {}).unparsed = {}
    BY <2>2, LoopMade
  <2>4. LoopsTyped'
    BY <1>2, <2>1, <2>2, <2>3 DEF LoopsTyped
  <2>5. /\ loops'[attempts] = Loop(1, 0, "parse", {}, {})
        /\ \A m \in Tries \ {attempts} : loops'[m] = loops[m]
    BY <1>2, <2>1, <2>2 DEF LoopsTyped
  <2>6. AtABatch'
    BY <1>1, <1>8, <2>2, <2>3, <2>5 DEF AtABatch, Active, IInv
  <2>7. Before(1)' = {}
    BY DEF Before
  <2>8. LiveLoop'
    BY <1>1, <2>3, <2>5, <2>7 DEF LiveLoop
  <2> QED
    BY <1>1, <1>4, <1>5, <1>6, <2>4, <2>6, <2>8, TypeParts DEF IInv, Heard
<1> QED
  BY <1>7, <1>8

-----------------------------------------------------------------------------
(* The loops over the batches *)

LEMMA ParsedLateKeeps ==
    ASSUME IInv, NEW n \in Tries, NEW b \in FileNumbers, NEW t \in Nat, ParsedLate(n, b, t)
    PROVE  IInv' /\ Heard
<1>1. CallTyped /\ LoopsTyped /\ DataTyped /\ Placed
  BY TypeParts DEF IInv
<1>2. /\ UNCHANGED <<enableLSP, step, attempts, waiting, data, rejected, result, running, loops>>
      /\ requests' \subseteq requests
  BY DEF ParsedLate, pipeline
<1>3. CallTyped' /\ LoopsTyped' /\ DataTyped'
  BY <1>1, <1>2 DEF CallTyped, LoopsTyped, DataTyped
<1>4. Placed' /\ AtABatch' /\ LiveLoop' /\ Collected'
  BY <1>1, <1>2 DEF IInv, Placed, AtABatch, Active, LiveLoop, Before, Collected
<1> QED
  BY <1>2, <1>3, <1>4, TypeParts DEF IInv, Heard

\* A change of loop n that is not the live one, and leaves the call alone.
LEMMA OtherLoop ==
    ASSUME IInv, NEW n \in Tries, NEW r \in LoopRecords,
           waiting = "answer" /\ step = 3 => n # attempts,
           loops' = [loops EXCEPT ![n] = r],
           requests' \subseteq Tries \X FileNumbers \X Nat,
           r.at # "idle" => step >= 3 /\ (r.batch - 1) * BatchSize < data.found,
           UNCHANGED <<enableLSP, pipeline>>, running' \subseteq running,
           waiting = "answer" => <<step, attempts>> \in running'
    PROVE  IInv' /\ Heard
<1> USE StepNumbers
<1>1. CallTyped /\ LoopsTyped /\ DataTyped /\ Placed
  BY TypeParts DEF IInv
<1>2. UNCHANGED <<enableLSP, step, attempts, waiting, data, rejected, result>>
  BY DEF pipeline
<1>3. CallTyped' /\ Placed'
  BY <1>1, <1>2, CallStays
<1>4. LoopsTyped' /\ loops'[n] = r /\ \A m \in Tries \ {n} : loops'[m] = loops[m]
  BY <1>1 DEF LoopsTyped
<1>5. AtABatch'
  BY <1>2, <1>4 DEF AtABatch, Active, IInv
<1>6. LiveLoop'
  <2> SUFFICES ASSUME step = 3, waiting = "answer", data.found > 0
               PROVE  /\ loops'[attempts].at = "parse"
                      /\ loops'[attempts].unparsed \subseteq Before(loops'[attempts].batch)
                      /\ loops'[attempts].results
                            = Before(loops'[attempts].batch) \ loops'[attempts].unparsed
    BY <1>2 DEF LiveLoop, Before
  <2>1. attempts \in Tries \ {n}
    BY <1>1 DEF Placed, CallTyped
  <2> QED
    BY <1>4, <2>1 DEF IInv, LiveLoop
<1>7. DataTyped' /\ Collected'
  BY <1>1, <1>2 DEF DataTyped, Collected, IInv
<1> QED
  BY <1>2, <1>3, <1>4, <1>5, <1>6, <1>7, TypeParts DEF IInv, Heard

LEMMA NextBatchElsewhere ==
    ASSUME IInv, NEW n \in Tries, Active(n), ~Live(3, n),
           NEW results \in SUBSET FileNumbers, NEW left \in SUBSET FileNumbers,
           NEW asked \in SUBSET (Tries \X FileNumbers \X Nat),
           NextBatch(n, loops[n].batch, results, left, asked), enableLSP' = enableLSP
    PROVE  IInv' /\ Heard
<1> USE StepNumbers
<1> DEFINE b == loops[n].batch
<1>1. CallTyped /\ LoopsTyped /\ DataTyped /\ Placed
  BY TypeParts DEF IInv
<1>2. b \in FileNumbers /\ b \in Nat \ {0} /\ data.found \in 0..MaxFiles /\ step >= 3
  BY <1>1, ActiveTyped DEF FileNumbers, DataTyped, AtABatch, IInv
<1>3. waiting = "answer" /\ step = 3 => n # attempts
  BY DEF Live
<1>4. CASE /\ More(b)
           /\ loops' = [loops EXCEPT ![n] = Loop(b + 1, 0, "parse", results, left)]
           /\ requests' = asked \cup {<<n, b + 1, 0>>}
           /\ UNCHANGED <<pipeline, running>>
  <2>1. b + 1 \in Nat \ {0} /\ ((b + 1) - 1) * BatchSize < data.found
    <3> HIDE DEF b
    <3>1. (b + 1) - 1 = b
      BY <1>2
    <3> QED
      BY <1>2, <1>4, <3>1 DEF More
  <2>2. b + 1 \in FileNumbers
    BY <1>2, <2>1, BatchNumber
  <2>3. /\ Loop(b + 1, 0, "parse", results, left) \in LoopRecords
        /\ Loop(b + 1, 0, "parse", results, left).batch = b + 1
    BY <2>2, LoopMade
  <2>4. requests' \subseteq Tries \X FileNumbers \X Nat
    BY <1>4, <2>2
  <2>5. UNCHANGED <<enableLSP, pipeline>> /\ running' \subseteq running
    BY <1>4
  <2>6. waiting = "answer" => <<step, attempts>> \in running'
    BY <1>1, <1>4 DEF Placed
  <2>7. Loop(b + 1, 0, "parse", results, left).at # "idle" =>
            step >= 3 /\ (Loop(b + 1, 0, "parse", results, left).batch - 1) * BatchSize < data.found
    BY <1>2, <2>1, <2>3
  <2> HIDE DEF b
  <2> QED
    BY <1>3, <1>4, <2>3, <2>4, <2>5, <2>6, <2>7, OtherLoop
<1>5. CASE /\ loops' = [loops EXCEPT ![n] = NoLoop]
           /\ requests' = asked
           /\ running' = running \ {<<3, n>>}
           /\ UNCHANGED pipeline
  <2>1. NoLoop \in LoopRecords /\ NoLoop.at = "idle"
    BY DEF NoLoop, LoopRecords
  <2>2. waiting = "answer" => <<step, attempts>> \in running'
    BY <1>1, <1>3, <1>5 DEF Placed
  <2> QED
    BY <1>3, <1>5, <2>1, <2>2, OtherLoop
<1> QED
  BY <1>4, <1>5 DEF NextBatch

LEMMA BatchTimerKeeps ==
    ASSUME IInv, NEW n \in Tries, BatchTimer(n) PROVE IInv' /\ Heard
<1> USE StepNumbers
<1>1. CallTyped /\ LoopsTyped /\ DataTyped /\ Placed
  BY TypeParts DEF IInv
<1>2. Active(n) /\ ~Live(3, n) /\ enableLSP' = enableLSP
  BY DEF BatchTimer, Active
<1>3. /\ loops[n].batch \in FileNumbers /\ loops[n].tries \in Nat
      /\ loops[n].results \in SUBSET FileNumbers /\ loops[n].unparsed \in SUBSET FileNumbers
  BY <1>1, <1>2, ActiveTyped
<1>4. CASE /\ loops' = [loops EXCEPT ![n].at = "delay", ![n].tries = loops[n].tries + 1]
           /\ UNCHANGED <<pipeline, running, requests>>
  <2> DEFINE r == [loops[n] EXCEPT !.at = "delay", !.tries = loops[n].tries + 1]
  <2>1. loops' = [loops EXCEPT ![n] = r]
    BY <1>1, <1>4 DEF LoopsTyped
  <2>2. loops[n] \in [at : {"parse", "delay"}, batch : FileNumbers, tries : Nat,
                      results : SUBSET FileNumbers, unparsed : SUBSET FileNumbers]
    BY <1>1, <1>2 DEF LoopsTyped, LoopRecords, Active
  <2>3. r \in LoopRecords /\ r.batch = loops[n].batch
    <3>1. loops[n].tries + 1 \in Nat
      BY <1>3
    <3> QED
      BY <2>2, <3>1 DEF LoopRecords
  <2>4. step >= 3 /\ (loops[n].batch - 1) * BatchSize < data.found
    BY <1>2 DEF AtABatch, IInv
  <2>5. waiting = "answer" /\ step = 3 => n # attempts
    BY <1>2 DEF Live
  <2>6. requests' \subseteq Tries \X FileNumbers \X Nat
    BY <1>1, <1>4 DEF LoopsTyped
  <2>7. waiting = "answer" => <<step, attempts>> \in running'
    BY <1>1, <1>4 DEF Placed
  <2>8. r.at # "idle" => step >= 3 /\ (r.batch - 1) * BatchSize < data.found
    BY <2>3, <2>4
  <2> HIDE DEF r
  <2> QED
    BY <1>2, <1>4, <2>1, <2>3, <2>5, <2>6, <2>7, <2>8, OtherLoop
<1>5. CASE NextBatch(n, loops[n].batch, loops[n].results, loops[n].unparsed, requests)
  BY <1>1, <1>2, <1>3, <1>5, NextBatchElsewhere DEF LoopsTyped
<1> QED
  BY <1>4, <1>5 DEF BatchTimer

LEMMA BatchDelayOverKeeps ==
    ASSUME IInv, NEW n \in Tries, BatchDelayOver(n) PROVE IInv' /\ Heard
<1> USE StepNumbers
<1>1. CallTyped /\ LoopsTyped /\ DataTyped /\ Placed
  BY TypeParts DEF IInv
<1>2. /\ loops[n].at = "delay" /\ Active(n)
      /\ loops' = [loops EXCEPT ![n].at = "parse"]
      /\ requests' = requests \cup {<<n, loops[n].batch, loops[n].tries>>}
      /\ UNCHANGED <<enableLSP, pipeline, running>>
  BY DEF BatchDelayOver, Active
<1> DEFINE r == [loops[n] EXCEPT !.at = "parse"]
<1>3. loops' = [loops EXCEPT ![n] = r]
  BY <1>1, <1>2 DEF LoopsTyped
<1>4. loops[n] \in [at : {"parse", "delay"}, batch : FileNumbers, tries : Nat,
                    results : SUBSET FileNumbers, unparsed : SUBSET FileNumbers]
  BY <1>1, <1>2 DEF LoopsTyped, LoopRecords, Active
<1>5. r \in LoopRecords /\ r.batch = loops[n].batch
  BY <1>4 DEF LoopRecords
<1>6. step >= 3 /\ (loops[n].batch - 1) * BatchSize < data.found
  BY <1>2 DEF AtABatch, IInv
<1>7. data.found > 0
  <2>1. loops[n].batch - 1 \in Nat /\ data.found \in Nat
    BY <1>1, <1>4 DEF FileNumbers, DataTyped
  <2>2. (loops[n].batch - 1) * BatchSize >= 0
    BY <2>1
  <2> QED
    BY <1>6, <2>1, <2>2
<1>8. waiting = "answer" /\ step = 3 => n # attempts
  BY <1>2, <1>7 DEF IInv, LiveLoop
<1>9. requests' \subseteq Tries \X FileNumbers \X Nat
  BY <1>1, <1>2, <1>4 DEF LoopsTyped
<1>10. waiting = "answer" => <<step, attempts>> \in running'
  BY <1>1, <1>2 DEF Placed
<1>11. r.at # "idle" => step >= 3 /\ (r.batch - 1) * BatchSize < data.found
  BY <1>5, <1>6
<1> HIDE DEF r
<1> QED
  BY <1>2, <1>3, <1>5, <1>8, <1>9, <1>10, <1>11, OtherLoop

\* The live loop takes an answer of the parser and goes on.
LEMMA NextBatchLive ==
    ASSUME IInv, NEW n \in Tries, Active(n), Live(3, n), NEW got \in SUBSET Batch(loops[n].batch),
           NEW asked \in SUBSET (Tries \X FileNumbers \X Nat), enableLSP' = enableLSP,
           NextBatch(n, loops[n].batch, loops[n].results \cup got,
                     loops[n].unparsed \cup (Batch(loops[n].batch) \ got), asked)
    PROVE  IInv' /\ Heard
<1> USE StepNumbers
<1> DEFINE b == loops[n].batch
           results == loops[n].results \cup got
           left == loops[n].unparsed \cup (Batch(b) \ got)
<1>1. CallTyped /\ LoopsTyped /\ DataTyped /\ Placed
  BY TypeParts DEF IInv
<1>2. b \in FileNumbers /\ b \in Nat \ {0} /\ data.found \in 0..MaxFiles
  BY <1>1, ActiveTyped DEF FileNumbers, DataTyped
<1>3. waiting = "answer" /\ step = 3 /\ n = attempts
  BY DEF Live
<1>4. data.found > 0
  <2>1. (b - 1) * BatchSize < data.found
    BY DEF IInv, AtABatch
  <2>2. (b - 1) * BatchSize >= 0
    <3>1. b - 1 \in Nat /\ BatchSize \in Nat
      BY <1>2
    <3>2. \A x, y \in Nat : x * y \in Nat
      BY SMTT(30)
    <3>3. (b - 1) * BatchSize \in Nat
      BY <3>1, <3>2
    <3> QED BY <3>3
  <2> QED
    BY <1>2, <2>1, <2>2
<1>5. /\ loops[n].unparsed \subseteq Before(b)
      /\ loops[n].results = Before(b) \ loops[n].unparsed
  BY <1>3, <1>4 DEF IInv, LiveLoop
<1>6. Before(b) \cup Batch(b) = Before(b + 1) /\ Before(b) \cap Batch(b) = {}
  <2>1. (b + 1) - 1 = b /\ b * BatchSize = (b - 1) * BatchSize + BatchSize
    BY <1>2
  <2>2. (b - 1) * BatchSize \in Int
    BY <1>2
  <2> HIDE DEF b
  <2> QED
    BY <1>2, <2>1, <2>2 DEF Before, Batch
<1>7. left \subseteq Before(b + 1) /\ results = Before(b + 1) \ left
  BY <1>5, <1>6
<1>8. results \in SUBSET FileNumbers /\ left \in SUBSET FileNumbers
  <2>1. Before(b + 1) \subseteq FileNumbers
    BY <1>2 DEF Before, FileNumbers
  <2> QED
    BY <1>7, <2>1
<1>9. CASE /\ More(b)
           /\ loops' = [loops EXCEPT ![n] = Loop(b + 1, 0, "parse", results, left)]
           /\ requests' = asked \cup {<<n, b + 1, 0>>}
           /\ UNCHANGED <<pipeline, running>>
  <2>1. b + 1 \in Nat \ {0} /\ ((b + 1) - 1) * BatchSize < data.found
    <3> HIDE DEF b
    <3>1. (b + 1) - 1 = b
      BY <1>2
    <3> QED
      BY <1>2, <1>9, <3>1 DEF More
  <2>2. b + 1 \in FileNumbers
    BY <1>2, <2>1, BatchNumber
  <2> HIDE DEF results, left, b
  <2> DEFINE r == Loop(b + 1, 0, "parse", results, left)
  <2>3. /\ r \in LoopRecords /\ r.at = "parse" /\ r.batch = b + 1
        /\ r.results = results /\ r.unparsed = left
    BY <1>8, <2>2, LoopMade
  <2>4. UNCHANGED <<enableLSP, step, attempts, waiting, data, rejected, result, running>>
    BY <1>9 DEF pipeline
  <2>5. CallTyped' /\ Placed' /\ DataTyped' /\ Collected'
    BY <1>1, <2>4 DEF CallTyped, Placed, DataTyped, Collected, IInv
  <2> HIDE DEF r
  <2>6. loops' = [loops EXCEPT ![n] = r]
    BY <1>9 DEF r
  <2>7. LoopsTyped' /\ loops'[n] = r /\ \A m \in Tries \ {n} : loops'[m] = loops[m]
    BY <1>1, <1>9, <2>2, <2>3, <2>6 DEF LoopsTyped
  <2>8. AtABatch'
    BY <1>3, <2>1, <2>3, <2>4, <2>7 DEF AtABatch, Active, IInv
  <2>9. loops'[attempts] = r /\ attempts' = attempts
    BY <1>3, <2>4, <2>7
  <2>10. {f \in 1..data'.found : f <= (r.batch - 1) * BatchSize} = Before(b + 1)
    BY <2>3, <2>4 DEF Before
  <2>11. LiveLoop'
    BY <1>7, <2>3, <2>4, <2>9, <2>10 DEF LiveLoop, Before
  <2> QED
    BY <2>4, <2>5, <2>7, <2>8, <2>11, TypeParts DEF IInv, Heard
<1>10. CASE /\ ~More(b)
            /\ loops' = [loops EXCEPT ![n] = NoLoop]
            /\ requests' = asked
            /\ Answered([data EXCEPT !.parseResults = results])
            /\ rejected' = left
  <2>1. Before(b + 1) = 1..data.found
    <3>1. data.found <= b * BatchSize /\ (b + 1) - 1 = b
      BY <1>2, <1>10 DEF More
    <3> HIDE DEF b
    <3> QED
      BY <1>2, <3>1 DEF Before
  <2> HIDE DEF results, left, b
  <2>2. /\ CallTyped' /\ Placed' /\ data' = [data EXCEPT !.parseResults = results]
        /\ step' = 4 /\ waiting' = "answer"
        /\ <<step, attempts>> \in running /\ <<step, attempts>> \notin running'
    BY <1>1, <1>3, <1>10, AnsweredMoves
  <2>3. DataTyped' /\ data'.found = data.found /\ data'.parseResults = results
    BY <1>1, <1>8, <1>10, <2>2 DEF DataTyped
  <2>4. Collected'
    <3>1. data'.parseResults = (1..data'.found) \ rejected'
      BY <1>7, <1>10, <2>1, <2>3
    <3> QED
      BY <2>2, <3>1 DEF Collected
  <2>5. NoLoop \in LoopRecords /\ NoLoop.at = "idle"
    BY DEF NoLoop, LoopRecords
  <2>6. LoopsTyped' /\ loops'[n] = NoLoop /\ \A m \in Tries \ {n} : loops'[m] = loops[m]
    BY <1>1, <1>10, <2>5 DEF LoopsTyped
  <2>7. AtABatch'
    BY <2>2, <2>3, <2>5, <2>6 DEF AtABatch, Active, IInv
  <2>8. LiveLoop'
    BY <2>2 DEF LiveLoop
  <2>9. Heard
    BY <1>3, <2>2 DEF Heard
  <2> QED
    BY <2>2, <2>3, <2>4, <2>6, <2>7, <2>8, <2>9, TypeParts DEF IInv
<1> QED
  BY <1>9, <1>10 DEF NextBatch

LEMMA ParsedKeeps ==
    ASSUME IInv, NEW n \in Tries, NEW b \in FileNumbers, NEW t \in Nat, Parsed(n, b, t)
    PROVE  IInv' /\ Heard
<1> USE StepNumbers
<1>1. CallTyped /\ LoopsTyped /\ DataTyped /\ Placed
  BY TypeParts DEF IInv
<1>2. Active(n) /\ loops[n].batch = b /\ enableLSP' = enableLSP
  BY DEF Parsed, Awaits, Active
<1>3. PICK got \in SUBSET Batch(b) :
        NextBatch(n, b, loops[n].results \cup got, loops[n].unparsed \cup (Batch(b) \ got),
                  requests \ {<<n, b, t>>})
  BY DEF Parsed
<1>4. requests \ {<<n, b, t>>} \in SUBSET (Tries \X FileNumbers \X Nat)
  BY <1>1 DEF LoopsTyped
<1>5. CASE Live(3, n)
  BY <1>2, <1>3, <1>4, <1>5, NextBatchLive
<1>6. CASE ~Live(3, n)
  <2>1. Batch(b) \subseteq FileNumbers
    BY <1>1 DEF Batch, FileNumbers, DataTyped
  <2>2. /\ loops[n].results \cup got \in SUBSET FileNumbers
        /\ loops[n].unparsed \cup (Batch(b) \ got) \in SUBSET FileNumbers
    BY <1>1, <1>2, <2>1, ActiveTyped
  <2> QED
    BY <1>2, <1>3, <1>4, <1>6, <2>2, NextBatchElsewhere
<1> QED
  BY <1>5, <1>6

-----------------------------------------------------------------------------
LEMMA StepKeeps == IInv /\ [Next]_vars => IInv' /\ [Heard]_vars
<1> SUFFICES ASSUME IInv, [Next]_vars PROVE IInv' /\ [Heard]_vars
  OBVIOUS
<1> USE StepNumbers
<1>1. CallTyped /\ LoopsTyped
  BY TypeParts DEF IInv
<1>2. CASE Hashed \/ MemoryChecked \/ Traversed \/ ParsedNothing \/ Enhanced \/ Stored
  BY <1>2, HashedKeeps, MemoryCheckedKeeps, TraversedKeeps, ParsedNothingKeeps,
     EnhancedKeeps, StoredKeeps
<1>3. CASE StepTimer \/ DelayOver
  BY <1>3, StepTimerKeeps, DelayOverKeeps
<1>4. ASSUME NEW r \in running, LateAnswer(r[1], r[2]) PROVE IInv' /\ Heard
  <2>1. r[1] \in Steps /\ r[2] \in Nat
    BY <1>1 DEF CallTyped
  <2> QED
    BY <1>4, <2>1, LateAnswerKeeps
<1>5. ASSUME NEW r \in requests, Parsed(r[1], r[2], r[3]) \/ ParsedLate(r[1], r[2], r[3])
      PROVE  IInv' /\ Heard
  <2>1. r[1] \in Tries /\ r[2] \in FileNumbers /\ r[3] \in Nat
    BY <1>1 DEF LoopsTyped
  <2> QED
    BY <1>5, <2>1, ParsedKeeps, ParsedLateKeeps
<1>6. ASSUME NEW n \in Tries, BatchTimer(n) \/ BatchDelayOver(n) PROVE IInv' /\ Heard
  BY <1>6, BatchTimerKeeps, BatchDelayOverKeeps
<1>7. CASE UNCHANGED vars
  BY <1>7 DEF vars, IInv, TypeOK, Placed, AtABatch, Active, LiveLoop, Before, Collected
<1> QED
  BY <1>2, <1>3, <1>4, <1>5, <1>6, <1>7 DEF Next

\* The variables of createIndex, of its pipeline and of the loops over the
\* batches keep their types, whatever times out and however late it ends.
THEOREM TypeCorrect == Spec => []TypeOK
<1>1. IInv => TypeOK
  BY DEF IInv
<1> QED
  BY Initially, StepKeeps, <1>1, PTL DEF Spec

\* A createIndex that reports success handed every file it found to storage,
\* save those that the answered attempts could not parse.
THEOREM EveryFileAccountedFor == Spec => []NoFileLeftOut
<1>1. IInv => NoFileLeftOut
  BY StepNumbers DEF IInv, Placed, Collected, NoFileLeftOut
<1> QED
  BY Initially, StepKeeps, <1>1, PTL DEF Spec

\* Attempts that timed out change neither the data nor the result.
THEOREM GivenUpAttemptsAreSilent == Spec => OnlyTheLiveIsHeard
<1>1. IInv /\ [Next]_vars => [Heard]_vars
  BY StepKeeps
<1>2. Spec => [][Heard]_vars
  BY Initially, StepKeeps, <1>1, PTL DEF Spec
<1>3. [Heard]_vars =>
        [(data' # data \/ (result = "none" /\ result' = "success")) =>
            /\ waiting = "answer"
            /\ <<step, attempts>> \in running /\ <<step, attempts>> \notin running']_vars
  BY DEF Heard
<1> QED
  BY <1>2, <1>3, PTL DEF OnlyTheLiveIsHeard

-----------------------------------------------------------------------------
(* ChangeDetection: the places of a file's events in a queue *)

\* The places of f's events in a queue.
Places(q, f) == {i \in DOMAIN q : q[i].file = f}

\* Place i holds the first event of f; the one before it is a deletion.
FirstOf(q, f, i) == \A j \in Places(q, f) : j >= i
AfterUnlink(q, f, i) ==
    \E j \in Places(q, f) :
        j < i /\ q[j].type = "unlink" /\ \A m \in Places(q, f) : m <= j \/ m >= i

\* Place i holds the last event of f.
LastOf(q, f, i) == \A j \in Places(q, f) : j <= i

LEMMA EventFacts ==
    ASSUME NEW e \in Event
    PROVE  e.file \in Files /\ e.type \in {"add", "change", "unlink"}
BY DEF Event

\* What Append and Tail do to the places of a file's events.
LEMMA AppendPlaces ==
    ASSUME NEW q \in Seq(Event), NEW e \in Event, NEW f
    PROVE  /\ Append(q, e) \in Seq(Event) /\ Append(q, e) # <<>>
           /\ DOMAIN Append(q, e) = 1..(Len(q) + 1)
           /\ \A i \in 1..Len(q) : Append(q, e)[i] = q[i]
           /\ Append(q, e)[Len(q) + 1] = e
           /\ Places(q, f) \subseteq 1..Len(q)
           /\ Places(Append(q, e), f) =
                  IF e.file = f THEN Places(q, f) \cup {Len(q) + 1} ELSE Places(q, f)
<1>1. /\ Append(q, e) \in Seq(Event) /\ Append(q, e) # <<>>
      /\ DOMAIN Append(q, e) = 1..(Len(q) + 1) /\ DOMAIN q = 1..Len(q) /\ Len(q) \in Nat
      /\ \A i \in 1..Len(q) : Append(q, e)[i] = q[i]
      /\ Append(q, e)[Len(q) + 1] = e
  OBVIOUS
<1>2. Places(q, f) \subseteq 1..Len(q)
  BY <1>1 DEF Places
<1>3. ASSUME NEW i PROVE i \in Places(Append(q, e), f) <=>
          i \in (IF e.file = f THEN Places(q, f) \cup {Len(q) + 1} ELSE Places(q, f))
  BY <1>1 DEF Places
<1> QED
  BY <1>1, <1>2, <1>3

LEMMA TailPlaces ==
    ASSUME NEW q \in Seq(Event), q # <<>>, NEW f
    PROVE  /\ Head(q) = q[1] /\ Head(q) \in Event /\ 1 \in DOMAIN q
           /\ Tail(q) \in Seq(Event) /\ Len(Tail(q)) = Len(q) - 1 /\ Len(q) \in Nat /\ Len(q) >= 1
           /\ \A i \in DOMAIN Tail(q) : i \in Nat /\ i >= 1 /\ i + 1 \in DOMAIN q /\ Tail(q)[i] = q[i + 1]
           /\ \A i \in Nat : i \in Places(Tail(q), f) <=> i >= 1 /\ i + 1 \in Places(q, f)
           /\ Places(q, f) \subseteq Nat \ {0} /\ Places(Tail(q), f) \subseteq Nat \ {0}
<1>1. /\ Head(q) = q[1] /\ Head(q) \in Event /\ 1 \in DOMAIN q
      /\ Tail(q) \in Seq(Event) /\ Len(Tail(q)) = Len(q) - 1 /\ Len(q) \in Nat /\ Len(q) >= 1
      /\ DOMAIN q = 1..Len(q) /\ DOMAIN Tail(q) = 1..(Len(q) - 1)
      /\ \A i \in 1..(Len(q) - 1) : Tail(q)[i] = q[i + 1]
  OBVIOUS
<1>2. \A i \in Nat : i \in Places(Tail(q), f) <=> i >= 1 /\ i + 1 \in Places(q, f)
  BY <1>1 DEF Places
<1> QED
  BY <1>1, <1>2 DEF Places

\* When another file's event leaves the queue, f's keep their order.
LEMMA ShiftOther ==
    ASSUME NEW q \in Seq(Event), q # <<>>, NEW f, Head(q).file # f
    PROVE  /\ \A i \in Places(Tail(q), f) :
                  /\ i + 1 \in Places(q, f) /\ Tail(q)[i] = q[i + 1]
                  /\ FirstOf(q, f, i + 1) => FirstOf(Tail(q), f, i)
                  /\ AfterUnlink(q, f, i + 1) => AfterUnlink(Tail(q), f, i)
           /\ \A i \in Places(q, f) :
                  /\ i - 1 \in Places(Tail(q), f) /\ Tail(q)[i - 1] = q[i]
                  /\ LastOf(q, f, i) => LastOf(Tail(q), f, i - 1)
           /\ Places(Tail(q), f) = {} <=> Places(q, f) = {}
           /\ Places(q, f) # {1}
<1>1. \A i \in Nat : i \in Places(Tail(q), f) <=> i >= 1 /\ i + 1 \in Places(q, f)
  BY TailPlaces
<1>2. 1 \notin Places(q, f) /\ Places(q, f) \subseteq Nat \ {0} /\ Places(Tail(q), f) \subseteq Nat \ {0}
  BY TailPlaces DEF Places
<1>3. ASSUME NEW j \in Places(q, f) PROVE j - 1 \in Places(Tail(q), f) /\ j - 1 \in Nat /\ j = (j - 1) + 1
  <2>1. j \in Nat /\ j > 1 /\ j - 1 \in Nat
    BY <1>2
  <2> QED
    BY <1>1, <2>1
<1>4. ASSUME NEW i \in Places(Tail(q), f) PROVE i \in Nat /\ i + 1 \in Places(q, f) /\ Tail(q)[i] = q[i + 1]
  BY <1>1, <1>2, TailPlaces DEF Places
<1>5. ASSUME NEW i \in Places(Tail(q), f), FirstOf(q, f, i + 1) PROVE FirstOf(Tail(q), f, i)
  BY <1>4, <1>5 DEF FirstOf
<1>6. ASSUME NEW i \in Places(Tail(q), f), AfterUnlink(q, f, i + 1) PROVE AfterUnlink(Tail(q), f, i)
  <2>1. PICK j \in Places(q, f) :
            j < i + 1 /\ q[j].type = "unlink" /\ \A m \in Places(q, f) : m <= j \/ m >= i + 1
    BY <1>6 DEF AfterUnlink
  <2>2. j - 1 \in Places(Tail(q), f) /\ j - 1 \in Nat /\ Tail(q)[j - 1] = q[j]
    BY <1>3, <1>4
  <2>3. j \in Nat /\ i \in Nat
    BY <1>2, <1>4
  <2>4. \A m \in Places(Tail(q), f) : m \in Nat /\ (m + 1 <= j \/ m + 1 >= i + 1)
    BY <2>1, <1>4
  <2>5. j - 1 < i /\ \A m \in Places(Tail(q), f) : m <= j - 1 \/ m >= i
    BY <2>1, <2>3, <2>4
  <2> QED
    BY <2>1, <2>2, <2>5 DEF AfterUnlink
<1>7. ASSUME NEW i \in Places(q, f), LastOf(q, f, i) PROVE LastOf(Tail(q), f, i - 1)
  <2>1. \A j \in Places(Tail(q), f) : j \in Nat /\ j + 1 <= i /\ i \in Nat
    BY <1>2, <1>4, <1>7 DEF LastOf
  <2> QED
    BY <2>1 DEF LastOf
<1>8. \A i \in Places(q, f) : i - 1 \in Places(Tail(q), f) /\ Tail(q)[i - 1] = q[i]
  BY <1>3, <1>4
<1> QED
  BY <1>2, <1>4, <1>5, <1>6, <1>7, <1>8

\* When f's event leaves the queue, the next one follows it.
LEMMA ShiftOwn ==
    ASSUME NEW q \in Seq(Event), q # <<>>, NEW f, Head(q).file = f
    PROVE  /\ \A i \in Places(Tail(q), f) :
                  /\ i + 1 \in Places(q, f) /\ Tail(q)[i] = q[i + 1]
                  /\ ~FirstOf(q, f, i + 1)
                  /\ AfterUnlink(q, f, i + 1) =>
                         \/ AfterUnlink(Tail(q), f, i)
                         \/ Head(q).type = "unlink" /\ FirstOf(Tail(q), f, i)
           /\ \A i \in Places(q, f) :
                  /\ LastOf(q, f, i) /\ i = 1 => Places(Tail(q), f) = {}
                  /\ LastOf(q, f, i) /\ i # 1 =>
                         i - 1 \in Places(Tail(q), f) /\ Tail(q)[i - 1] = q[i] /\ LastOf(Tail(q), f, i - 1)
           /\ Places(Tail(q), f) = {} => Places(q, f) = {1}
           /\ 1 \in Places(q, f) /\ Head(q) = q[1]
<1>1. \A i \in Nat : i \in Places(Tail(q), f) <=> i >= 1 /\ i + 1 \in Places(q, f)
  BY TailPlaces
<1>2. 1 \in Places(q, f) /\ Places(q, f) \subseteq Nat \ {0} /\ Places(Tail(q), f) \subseteq Nat \ {0}
  BY TailPlaces DEF Places
<1>3. ASSUME NEW j \in Places(q, f), j # 1
      PROVE  j - 1 \in Places(Tail(q), f) /\ j - 1 \in Nat /\ j = (j - 1) + 1
  <2>1. j \in Nat /\ j > 1 /\ j - 1 \in Nat
    BY <1>2, <1>3
  <2> QED
    BY <1>1, <2>1
<1>4. ASSUME NEW i \in Places(Tail(q), f) PROVE i \in Nat /\ i >= 1 /\ i + 1 \in Places(q, f) /\ Tail(q)[i] = q[i + 1]
  BY <1>1, <1>2, TailPlaces DEF Places
<1>5. ASSUME NEW i \in Places(Tail(q), f) PROVE ~FirstOf(q, f, i + 1)
  BY <1>2, <1>4 DEF FirstOf
<1>6. ASSUME NEW i \in Places(Tail(q), f), AfterUnlink(q, f, i + 1)
      PROVE  AfterUnlink(Tail(q), f, i) \/ (Head(q).type = "unlink" /\ FirstOf(Tail(q), f, i))
  <2>1. PICK j \in Places(q, f) :
            j < i + 1 /\ q[j].type = "unlink" /\ \A m \in Places(q, f) : m <= j \/ m >= i + 1
    BY <1>6 DEF AfterUnlink
  <2>2. CASE j = 1
    <3>1. \A m \in Places(Tail(q), f) : m >= i
      BY <2>1, <2>2, <1>4
    <3> QED
      BY <2>1, <2>2, <3>1, TailPlaces DEF FirstOf
  <2>3. CASE j # 1
    <3>1. j - 1 \in Places(Tail(q), f) /\ j - 1 \in Nat /\ Tail(q)[j - 1] = q[j]
      BY <1>3, <1>4, <2>3
    <3>2. j \in Nat /\ i \in Nat
      BY <1>2, <1>4
    <3>3. \A m \in Places(Tail(q), f) : m \in Nat /\ (m + 1 <= j \/ m + 1 >= i + 1)
      BY <2>1, <1>4
    <3>4. j - 1 < i /\ \A m \in Places(Tail(q), f) : m <= j - 1 \/ m >= i
      BY <2>1, <3>2, <3>3
    <3> QED
      BY <2>1, <3>1, <3>4 DEF AfterUnlink
  <2> QED
    BY <2>2, <2>3
<1>7. ASSUME NEW i \in Places(q, f), LastOf(q, f, i), i # 1
      PROVE  i - 1 \in Places(Tail(q), f) /\ Tail(q)[i - 1] = q[i] /\ LastOf(Tail(q), f, i - 1)
  <2>1. \A j \in Places(Tail(q), f) : j \in Nat /\ j + 1 <= i /\ i \in Nat
    BY <1>2, <1>4, <1>7 DEF LastOf
  <2>2. LastOf(Tail(q), f, i - 1)
    BY <2>1 DEF LastOf
  <2> QED
    BY <1>3, <1>4, <1>7, <2>2
<1>8. ASSUME LastOf(q, f, 1), NEW j \in Places(Tail(q), f) PROVE FALSE
  BY <1>4, <1>8 DEF LastOf
<1>9. Places(Tail(q), f) = {} => Places(q, f) = {1}
  BY <1>2, <1>3
<1> QED
  BY <1>2, <1>4, <1>5, <1>6, <1>7, <1>8, <1>9, TailPlaces

-----------------------------------------------------------------------------
(* The watcher's queue *)

DiskTyped ==
    /\ disk \in [Files -> Hashes] /\ changes \in Nat
    /\ watching \in {"no", "traversed", "yes", "stopped"}
    /\ known \subseteq Files /\ dirty \subseteq Files /\ excused \subseteq Files

QueueTyped ==
    /\ order \in Seq(Roots) /\ events \in [Roots -> Seq(Event)]
    /\ timer \in BOOLEAN /\ sweep \in Nat
    /\ info \in {Unread} \cup Hashes

\* The paths still to be swept have events, each of its own files; whatever has
\* events is in the order, once.
Swept ==
    /\ sweep <= Len(order)
    /\ \A i, j \in DOMAIN order : order[i] = order[j] => i = j
    /\ \A r \in Roots : events[r] # <<>> => \E i \in DOMAIN order : order[i] = r
    /\ \A i \in DOMAIN order : i >= sweep => events[order[i]] # <<>>
    /\ \A r \in Roots : \A i \in DOMAIN events[r] : RootOf[events[r][i].file] = r

\* getFileInfo is called for the event being processed, unless it is a deletion.
InfoOfCurrent == info # Unread => sweep > 0 /\ Current.type # "unlink"

\* Nothing happens before the watcher is ready.
BeforeReady == watching \in {"no", "traversed"} => order = <<>> /\ callbacks = {} /\ excused = {}

\* Files that share a path share its entries from then on.
AfterReady == watching \notin {"no", "traversed"} => Namesakes \subseteq excused

Queueing == QueueTyped /\ Swept /\ InfoOfCurrent

LEMMA CurrentFacts ==
    ASSUME QueueTyped, Swept, sweep > 0
    PROVE  /\ sweep \in DOMAIN order /\ order[sweep] \in Roots
           /\ events[order[sweep]] \in Seq(Event) /\ events[order[sweep]] # <<>>
           /\ Current = events[order[sweep]][1] /\ Current \in Event
           /\ Current.file \in Files /\ RootOf[Current.file] = order[sweep]
           /\ Current.type \in {"add", "change", "unlink"}
<1>1. sweep \in DOMAIN order /\ order[sweep] \in Roots
  BY DEF QueueTyped, Swept
<1>2. events[order[sweep]] \in Seq(Event) /\ events[order[sweep]] # <<>>
  BY <1>1 DEF QueueTyped, Swept
<1>3. /\ Current = events[order[sweep]][1] /\ Current \in Event
      /\ 1 \in DOMAIN events[order[sweep]]
  BY <1>2, TailPlaces DEF Current
<1>4. RootOf[Current.file] = order[sweep]
  BY <1>1, <1>3 DEF Swept
<1> QED
  BY <1>1, <1>2, <1>3, <1>4, EventFacts

\* queueFileEvent.
LEMMA QueueKeeps ==
    ASSUME Queueing, NEW e \in Event, Queue(e), UNCHANGED <<sweep, info>>
    PROVE  /\ Queueing'
           /\ events' = [events EXCEPT ![RootOf[e.file]] = Append(@, e)]
           /\ sweep > 0 => order'[sweep'] = order[sweep] /\ Current' = Current
<1> DEFINE r == RootOf[e.file]
<1>1. r \in Roots /\ events[r] \in Seq(Event)
  BY EventFacts, FilesAssumption DEF Queueing, QueueTyped
<1>2. /\ events' = [events EXCEPT ![r] = Append(@, e)]
      /\ order' = IF \E i \in DOMAIN order : order[i] = r THEN order ELSE Append(order, r)
      /\ timer' = TRUE
  BY DEF Queue
<1>3. /\ Append(events[r], e) \in Seq(Event) /\ Append(events[r], e) # <<>>
      /\ DOMAIN Append(events[r], e) = 1..(Len(events[r]) + 1)
      /\ \A i \in 1..Len(events[r]) : Append(events[r], e)[i] = events[r][i]
      /\ Append(events[r], e)[Len(events[r]) + 1] = e
  BY <1>1, AppendPlaces
<1>4. /\ order \in Seq(Roots) /\ order' \in Seq(Roots) /\ events' \in [Roots -> Seq(Event)]
      /\ Len(order') >= Len(order) /\ Len(order) \in Nat /\ Len(order') \in Nat
      /\ DOMAIN order = 1..Len(order) /\ DOMAIN order' = 1..Len(order')
      /\ \A i \in DOMAIN order : order'[i] = order[i]
      /\ \A i \in DOMAIN order' : i \in DOMAIN order \/ order'[i] = r
      /\ \E i \in DOMAIN order' : order'[i] = r
  <2>1. order \in Seq(Roots) /\ events' \in [Roots -> Seq(Event)]
    BY <1>1, <1>2, <1>3 DEF Queueing, QueueTyped
  <2>2. CASE \E i \in DOMAIN order : order[i] = r
    BY <1>2, <2>1, <2>2
  <2>3. CASE ~\E i \in DOMAIN order : order[i] = r
    <3>1. order' = Append(order, r)
      BY <1>2, <2>3
    <3>2. /\ order' \in Seq(Roots) /\ Len(order') = Len(order) + 1 /\ Len(order) \in Nat
          /\ \A i \in 1..Len(order) : order'[i] = order[i]
          /\ order'[Len(order) + 1] = r
      BY <1>1, <2>1, <3>1
    <3>3. DOMAIN order = 1..Len(order) /\ DOMAIN order' = 1..(Len(order) + 1)
      BY <2>1, <3>2
    <3>4. \E i \in DOMAIN order' : order'[i] = r
      BY <3>2, <3>3
    <3>5. \A i \in DOMAIN order' : i \in DOMAIN order \/ order'[i] = r
      BY <3>2, <3>3
    <3>6. Len(order') >= Len(order) /\ Len(order') \in Nat
      BY <3>2
    <3> QED
      BY <2>1, <3>2, <3>3, <3>4, <3>5, <3>6
  <2> QED
    BY <2>2, <2>3
<1>5. QueueTyped'
  BY <1>2, <1>4 DEF Queueing, QueueTyped
<1>6. Swept'
  <2>1. sweep' <= Len(order')
    BY <1>4 DEF Queueing, Swept, QueueTyped
  <2>2. ASSUME NEW i \in DOMAIN order', NEW j \in DOMAIN order', order'[i] = order'[j] PROVE i = j
    <3>1. CASE \E k \in DOMAIN order : order[k] = r
      BY <1>2, <2>2, <3>1 DEF Queueing, Swept
    <3>2. CASE ~\E k \in DOMAIN order : order[k] = r
      <4>1. /\ DOMAIN order' = 1..(Len(order) + 1)
            /\ order'[Len(order) + 1] = r /\ \A k \in DOMAIN order : order'[k] = order[k]
        BY <1>1, <1>2, <1>4, <3>2
      <4>2. i \in DOMAIN order \/ i = Len(order) + 1
        BY <1>4, <4>1
      <4>3. j \in DOMAIN order \/ j = Len(order) + 1
        BY <1>4, <4>1
      <4> QED
        BY <2>2, <3>2, <4>1, <4>2, <4>3 DEF Queueing, Swept
    <3> QED
      BY <3>1, <3>2
  <2>3. ASSUME NEW s \in Roots, events'[s] # <<>> PROVE \E i \in DOMAIN order' : order'[i] = s
    <3>1. CASE s = r
      BY <1>4, <3>1
    <3>2. CASE s # r
      <4>1. events[s] # <<>>
        BY <1>2, <2>3, <3>2 DEF Queueing, QueueTyped
      <4>2. PICK i \in DOMAIN order : order[i] = s
        BY <4>1 DEF Queueing, Swept
      <4>3. i \in DOMAIN order'
        BY <1>4
      <4> QED
        BY <1>4, <4>2, <4>3
    <3> QED
      BY <3>1, <3>2
  <2>4. ASSUME NEW i \in DOMAIN order', i >= sweep' PROVE events'[order'[i]] # <<>>
    <3>1. CASE order'[i] = r
      BY <1>1, <1>2, <1>3, <3>1 DEF Queueing, QueueTyped
    <3>2. CASE order'[i] # r
      <4>1. i \in DOMAIN order /\ order'[i] = order[i] /\ order[i] \in Roots
        BY <1>4, <3>2
      <4>2. events[order[i]] # <<>>
        BY <2>4, <4>1 DEF Queueing, Swept
      <4> QED
        BY <1>2, <3>2, <4>1, <4>2 DEF Queueing, QueueTyped
    <3> QED
      BY <3>1, <3>2
  <2>5. ASSUME NEW s \in Roots, NEW i \in DOMAIN events'[s] PROVE RootOf[events'[s][i].file] = s
    <3>1. CASE s = r
      <4>1. events'[s] = Append(events[r], e)
        BY <1>1, <1>2, <3>1 DEF Queueing, QueueTyped
      <4>2. i \in 1..(Len(events[r]) + 1) /\ Len(events[r]) \in Nat /\ DOMAIN events[r] = 1..Len(events[r])
        BY <1>1, <1>3, <4>1
      <4>3. CASE i = Len(events[r]) + 1
        BY <1>3, <3>1, <4>1, <4>3
      <4>4. CASE i \in 1..Len(events[r])
        BY <1>1, <1>3, <3>1, <4>1, <4>2, <4>4 DEF Queueing, Swept
      <4> QED
        BY <4>2, <4>3, <4>4
    <3>2. CASE s # r
      <4>1. events'[s] = events[s]
        BY <1>2, <3>2 DEF Queueing, QueueTyped
      <4> QED
        BY <4>1 DEF Queueing, Swept
    <3> QED
      BY <3>1, <3>2
  <2> QED
    BY <2>1, <2>2, <2>3, <2>4, <2>5 DEF Swept
<1>7. sweep > 0 => order'[sweep'] = order[sweep] /\ Current' = Current
  <2> SUFFICES ASSUME sweep > 0 PROVE order'[sweep'] = order[sweep] /\ Current' = Current
    OBVIOUS
  <2>1. /\ sweep \in DOMAIN order /\ order[sweep] \in Roots
        /\ events[order[sweep]] \in Seq(Event) /\ events[order[sweep]] # <<>>
        /\ Current = events[order[sweep]][1]
    BY CurrentFacts DEF Queueing
  <2>2. order'[sweep'] = order[sweep]
    BY <1>4, <2>1
  <2>3. Current' = Head(events'[order[sweep]])
    BY <2>2 DEF Current
  <2>4. CASE order[sweep] = r
    <3>1. events'[r] = Append(events[r], e) /\ 1 \in 1..Len(events[r])
      BY <1>1, <1>2, <2>1, <2>4 DEF Queueing, QueueTyped
    <3>2. Head(Append(events[r], e)) = Append(events[r], e)[1]
      BY <1>3
    <3> QED
      BY <1>3, <2>1, <2>2, <2>3, <2>4, <3>1, <3>2
  <2>5. CASE order[sweep] # r
    BY <1>2, <2>1, <2>2, <2>3, <2>5 DEF Queueing, QueueTyped, Current
  <2> QED
    BY <2>4, <2>5
<1>8. InfoOfCurrent'
  BY <1>7 DEF Queueing, QueueTyped, InfoOfCurrent
<1> QED
  BY <1>2, <1>5, <1>6, <1>7, <1>8 DEF Queueing

\* The step to the next event, path or the end.
LEMMA AdvanceKeeps ==
    ASSUME Queueing, sweep > 0, excused \subseteq Files, NEW others \in SUBSET Files,
           Advance(others), timer' = timer
    PROVE  /\ Queueing' /\ info' = Unread
           /\ excused \subseteq excused' /\ others \subseteq excused' /\ excused' \subseteq Files
           /\ \A f \in Files : RootOf[f] = order[sweep] =>
                  events'[RootOf[f]] = Tail(events[RootOf[f]])
           /\ \A f \in Files \ excused' : RootOf[f] # order[sweep] =>
                  \/ events'[RootOf[f]] = events[RootOf[f]]
                  \/ Places(events[RootOf[f]], f) = {} /\ events'[RootOf[f]] = <<>>
<1> DEFINE r == order[sweep]
<1>1. /\ sweep \in DOMAIN order /\ r \in Roots
      /\ events[r] \in Seq(Event) /\ events[r] # <<>>
  BY CurrentFacts DEF Queueing
<1>2. /\ Tail(events[r]) \in Seq(Event) /\ Len(Tail(events[r])) = Len(events[r]) - 1
      /\ Len(events[r]) \in Nat /\ Len(events[r]) >= 1
      /\ \A i \in DOMAIN Tail(events[r]) :
             i + 1 \in DOMAIN events[r] /\ Tail(events[r])[i] = events[r][i + 1]
  BY <1>1, TailPlaces
<1>3. Len(events[r]) = 1 => Tail(events[r]) = <<>>
  BY <1>2
<1>4. info' = Unread
  BY DEF Advance
<1>5. /\ order \in Seq(Roots) /\ DOMAIN order = 1..Len(order) /\ Len(order) \in Nat /\ sweep \in Nat
      /\ events \in [Roots -> Seq(Event)]
  BY DEF Queueing, QueueTyped
<1>6. CASE Len(events[r]) > 1 /\ events' = [events EXCEPT ![r] = Tail(@)]
           /\ excused' = excused \cup others /\ UNCHANGED <<order, sweep>>
  <2>1. events' \in [Roots -> Seq(Event)] /\ events'[r] = Tail(events[r])
        /\ \A s \in Roots : s # r => events'[s] = events[s]
    BY <1>1, <1>2, <1>5, <1>6
  <2>2. Tail(events[r]) # <<>>
    <3>1. Len(Tail(events[r])) >= 1 /\ Len(<<>>) = 0
      BY <1>2, <1>6
    <3> QED
      BY <3>1
  <2>3. QueueTyped'
    BY <1>4, <1>6, <2>1 DEF Queueing, QueueTyped
  <2>4. ASSUME NEW s \in Roots, NEW i \in DOMAIN events'[s] PROVE RootOf[events'[s][i].file] = s
    <3>1. CASE s = r
      <4>1. i + 1 \in DOMAIN events[r] /\ events'[s][i] = events[r][i + 1]
        BY <1>2, <2>1, <2>4, <3>1
      <4> QED
        BY <1>1, <3>1, <4>1 DEF Queueing, Swept
    <3>2. CASE s # r
      BY <2>1, <2>4, <3>2 DEF Queueing, Swept
    <3> QED
      BY <3>1, <3>2
  <2>5. \A i \in DOMAIN order : order[i] \in Roots
    BY <1>5
  <2>6. \A s \in Roots : events'[s] # <<>> => \E i \in DOMAIN order : order[i] = s
    BY <1>1, <2>1 DEF Queueing, Swept
  <2>7. \A i \in DOMAIN order : i >= sweep => events'[order[i]] # <<>>
    BY <2>1, <2>2, <2>5 DEF Queueing, Swept
  <2>8. Swept'
    BY <1>6, <2>4, <2>6, <2>7 DEF Queueing, Swept
  <2> QED
    BY <1>4, <1>6, <2>1, <2>3, <2>8, FilesAssumption DEF Queueing, InfoOfCurrent
<1>7. CASE Len(events[r]) = 1 /\ sweep < Len(order)
           /\ events' = [events EXCEPT ![r] = <<>>] /\ sweep' = sweep + 1
           /\ excused' = excused \cup others /\ order' = order
  <2>1. events' \in [Roots -> Seq(Event)] /\ events'[r] = Tail(events[r])
        /\ \A s \in Roots : s # r => events'[s] = events[s]
    BY <1>1, <1>2, <1>3, <1>5, <1>7
  <2>2. \A i \in DOMAIN order : order[i] \in Roots
    BY <1>5
  <2>3. QueueTyped'
    BY <1>4, <1>5, <1>7, <2>1 DEF Queueing, QueueTyped
  <2>4. ASSUME NEW s \in Roots, NEW i \in DOMAIN events'[s] PROVE RootOf[events'[s][i].file] = s
    <3>1. CASE s = r
      <4>1. i + 1 \in DOMAIN events[r] /\ events'[s][i] = events[r][i + 1]
        BY <1>2, <2>1, <2>4, <3>1
      <4> QED
        BY <1>1, <3>1, <4>1 DEF Queueing, Swept
    <3>2. CASE s # r
      BY <2>1, <2>4, <3>2 DEF Queueing, Swept
    <3> QED
      BY <3>1, <3>2
  <2>5. \A s \in Roots : events'[s] # <<>> => \E i \in DOMAIN order : order[i] = s
    BY <1>1, <2>1 DEF Queueing, Swept
  <2>6. ASSUME NEW i \in DOMAIN order, i >= sweep + 1 PROVE events'[order[i]] # <<>>
    <3>1. i >= sweep /\ i # sweep
      BY <1>5, <2>6
    <3>2. order[i] # r
      BY <1>1, <3>1 DEF Queueing, Swept
    <3> QED
      BY <2>1, <2>2, <3>1, <3>2 DEF Queueing, Swept
  <2>7. Swept'
    BY <1>5, <1>7, <2>4, <2>5, <2>6 DEF Queueing, Swept
  <2> QED
    BY <1>4, <1>7, <2>1, <2>3, <2>7, FilesAssumption DEF Queueing, InfoOfCurrent
<1>8. CASE Len(events[r]) = 1 /\ sweep = Len(order)
           /\ events' = [s \in Roots |-> <<>>] /\ order' = <<>> /\ sweep' = 0
           /\ excused' = excused \cup others \cup
                 {e.file : e \in UNION {ToSet(events[s]) : s \in Roots \ {r}}}
  <2>1. <<>> \in Seq(Event) /\ <<>> \in Seq(Roots) /\ Len(<<>>) = 0 /\ DOMAIN <<>> = {}
    OBVIOUS
  <2>2. Queueing'
    BY <1>4, <1>8, <2>1 DEF Queueing, QueueTyped, Swept, InfoOfCurrent
  <2>3. ASSUME NEW s \in Roots, NEW i \in DOMAIN events[s] PROVE events[s][i] \in Event
    BY <1>5
  <2>4. \A s \in Roots : ToSet(events[s]) = {events[s][i] : i \in DOMAIN events[s]}
    BY DEF ToSet
  <2>5. {e.file : e \in UNION {ToSet(events[s]) : s \in Roots \ {r}}} \subseteq Files
    BY <2>3, <2>4, EventFacts
  <2>6. ASSUME NEW f \in Files \ excused', RootOf[f] # r
        PROVE  Places(events[RootOf[f]], f) = {} /\ events'[RootOf[f]] = <<>>
    <3>1. RootOf[f] \in Roots \ {r}
      BY <2>6, FilesAssumption
    <3>2. ASSUME NEW i \in Places(events[RootOf[f]], f) PROVE FALSE
      <4>1. i \in DOMAIN events[RootOf[f]] /\ events[RootOf[f]][i].file = f
        BY <3>2 DEF Places
      <4>2. events[RootOf[f]][i] \in UNION {ToSet(events[s]) : s \in Roots \ {r}}
        BY <2>4, <3>1, <4>1
      <4>3. f \in {e.file : e \in UNION {ToSet(events[s]) : s \in Roots \ {r}}}
        BY <4>1, <4>2
      <4> QED
        BY <1>8, <4>3
    <3> QED
      BY <1>8, <3>1, <3>2
  <2>7. \A f \in Files : RootOf[f] = r => events'[RootOf[f]] = Tail(events[RootOf[f]])
    BY <1>1, <1>3, <1>8
  <2> QED
    BY <1>4, <1>8, <2>2, <2>5, <2>6, <2>7
<1> QED
  BY <1>6, <1>7, <1>8 DEF Advance

-----------------------------------------------------------------------------
(* Types, and which timer a file has *)

HashesTyped ==
    /\ hashes \in [Keys -> Hashes]
    /\ callbacks \subseteq Callback /\ IsFiniteSet(callbacks)
    /\ pending \in [Keys -> Nat]

DetectionTyped == DiskTyped /\ Queueing /\ HashesTyped /\ BeforeReady /\ AfterReady

LEMMA DetectionTypes == DetectionTyped => DetectionTypeOK
BY DEF DetectionTyped, DiskTyped, Queueing, QueueTyped, HashesTyped, DetectionTypeOK

\* Each number belongs to one callback, and pendingChanges only has numbers of
\* callbacks of that path: clearing a timer clears that of no other path.
Numbered ==
    /\ \A c, d \in callbacks : c.id = d.id => c = d
    /\ \A c \in callbacks : c.id # 0
    /\ \A f \in Files : pending[Key[f]] # 0 =>
           \E c \in callbacks : Key[c.file] = Key[f] /\ c.id = pending[Key[f]]

\* A file whose changes crossed no callback has one, which pendingChanges knows
\* while its timer runs, and until it ends unless the detector was stopped.
Single ==
    /\ \A c, d \in callbacks : c.file = d.file /\ c.file \notin excused => c = d
    /\ \A c \in callbacks : c.file \notin excused /\ (c.at = "armed" \/ watching = "yes") =>
           pending[Key[c.file]] = c.id

Timers == Numbered /\ Single

LEMMA KeyFacts ==
    /\ \A f \in Files : Key[f] \in Keys /\ CwdKey[f] \in Keys /\ RootOf[f] \in Roots
    /\ Absent \notin Contents /\ Unread \notin Contents /\ Unread # Absent
BY FilesAssumption DEF Keys

LEMMA CallbackFacts ==
    ASSUME NEW c \in Callback
    PROVE  /\ c.id \in Nat /\ c.file \in Files /\ c.previousHash \in Contents
           /\ c.at \in {"armed", "reading", "read"} /\ c.hash \in Hashes
BY DEF Callback

\* A free number is left.
LEMMA NextNumberIsFree ==
    ASSUME HashesTyped
    PROVE  NextNumber \in Nat \ {0} /\ NextNumber \notin Numbers
<1> DEFINE n == Cardinality(callbacks)
           id == [c \in callbacks |-> c.id]
<1>1. IsFiniteSet(callbacks) /\ n \in Nat
  BY FS_CardinalityType DEF HashesTyped
<1>2. id \in Surjection(callbacks, Numbers)
  BY DEF Numbers, Surjection
<1>3. IsFiniteSet(Numbers) /\ Cardinality(Numbers) <= n /\ Cardinality(Numbers) \in Nat
  BY <1>1, <1>2, FS_Surjection, FS_CardinalityType
<1>4. ~(1..(n + 1) \subseteq Numbers)
  <2>1. Cardinality(1..(n + 1)) = n + 1
    BY <1>1, FS_Interval
  <2> QED
    BY <1>1, <1>3, <2>1, FS_Subset
<1>5. \E m \in 1..(n + 1) : m \notin Numbers
  BY <1>4
<1>6. NextNumber \in 1..(n + 1) /\ NextNumber \notin Numbers
  BY <1>5 DEF NextNumber
<1> QED
  BY <1>1, <1>6

LEMMA DetectionStarts == DetectionInit => DetectionTyped /\ Timers
<1> SUFFICES ASSUME DetectionInit PROVE DetectionTyped /\ Timers
  OBVIOUS
<1>1. IsFiniteSet({}) /\ <<>> \in Seq(Roots) /\ <<>> \in Seq(Event) /\ Len(<<>>) = 0 /\ DOMAIN <<>> = {}
  BY FS_EmptySet
<1>2. DiskTyped /\ HashesTyped /\ BeforeReady /\ AfterReady
  BY <1>1 DEF DetectionInit, DiskTyped, HashesTyped, BeforeReady, AfterReady, Hashes
<1>3. Queueing
  <2>1. QueueTyped
    BY <1>1 DEF DetectionInit, QueueTyped
  <2>2. Swept
    BY <1>1 DEF DetectionInit, Swept
  <2>3. InfoOfCurrent
    BY DEF DetectionInit, InfoOfCurrent
  <2> QED
    BY <2>1, <2>2, <2>3 DEF Queueing
<1>4. Timers
  BY KeyFacts DEF DetectionInit, Timers, Numbered, Single
<1> QED
  BY <1>2, <1>3, <1>4 DEF DetectionTyped

\* A file that is not excused has its path for itself.
LEMMA OwnKey ==
    ASSUME DetectionTyped, watching \notin {"no", "traversed"},
           NEW f \in Files \ excused, NEW g \in Files, Key[g] = Key[f]
    PROVE  g = f
BY DEF DetectionTyped, AfterReady, Namesakes

LEMMA Ready ==
    ASSUME DetectionTyped, sweep > 0 \/ callbacks # {}
    PROVE  watching \notin {"no", "traversed"}
<1> SUFFICES ASSUME watching \in {"no", "traversed"} PROVE FALSE
  OBVIOUS
<1>1. order = <<>> /\ callbacks = {}
  BY DEF DetectionTyped, BeforeReady
<1>2. sweep \in DOMAIN order
  BY <1>1, CurrentFacts DEF DetectionTyped, Queueing
<1> QED
  BY <1>1, <1>2

LEMMA CrossingFacts ==
    ASSUME DetectionTyped, NEW f \in Files
    PROVE  /\ Crossing(f) \subseteq Files /\ Amiss(f) \subseteq Files
           /\ \A c \in callbacks : c.file = f /\ c.at # "armed" => f \in Crossing(f)
BY DEF Crossing, Flying, Amiss

\* The file whose event leaves the queue, and what becomes of it.
LEMMA HandleTypes ==
    ASSUME DetectionTyped, sweep > 0, NEW others \in SUBSET Files, Advance(others),
           UNCHANGED <<diskVars, watching, timer>>, HashesTyped'
    PROVE  DetectionTyped'
<1>1. Queueing' /\ excused' \subseteq Files /\ excused \subseteq excused'
  BY AdvanceKeeps DEF DetectionTyped, DiskTyped
<1>2. DiskTyped'
  BY <1>1 DEF DetectionTyped, DiskTyped, diskVars
<1>3. watching \notin {"no", "traversed"}
  BY Ready
<1> QED
  BY <1>1, <1>2, <1>3 DEF DetectionTyped, BeforeReady, AfterReady

LEMMA AddedTypes == ASSUME DetectionTyped, Added PROVE DetectionTyped'
<1>1. sweep > 0 /\ Current.file \in Files /\ info \in Hashes
  BY CurrentFacts DEF Added, DetectionTyped, Queueing, QueueTyped
<1>2. Advance(Crossing(Current.file)) /\ UNCHANGED <<diskVars, watching, timer>>
  BY DEF Added
<1>3. HashesTyped'
  BY <1>1, KeyFacts DEF Added, HandleAdded, DetectionTyped, HashesTyped, hashVars
<1> QED
  BY <1>1, <1>2, <1>3, HandleTypes, CrossingFacts

LEMMA ChangedTypes == ASSUME DetectionTyped, Changed PROVE DetectionTyped'
<1> DEFINE f == Current.file
           c == [id |-> NextNumber, file |-> f, previousHash |-> hashes[Key[f]],
                 at |-> "armed", hash |-> Absent]
<1>1. sweep > 0 /\ f \in Files
  BY CurrentFacts DEF Changed, DetectionTyped, Queueing
<1>2. Advance(Crossing(Current.file)) /\ UNCHANGED <<diskVars, watching, timer>>
  BY DEF Changed
<1>3. NextNumber \in Nat
  BY NextNumberIsFree DEF DetectionTyped
<1>4. hashes[Key[f]] \in Contents
  BY <1>1, KeyFacts DEF Changed, DetectionTyped, HashesTyped, Hashes
<1>5. c \in Callback
  BY <1>1, <1>3, <1>4 DEF Callback, Hashes
<1>6. /\ callbacks' = {d \in callbacks : ~(d.id = pending[Key[f]] /\ d.at = "armed")} \cup {c}
      /\ pending' = [pending EXCEPT ![Key[f]] = NextNumber] /\ hashes' = hashes
  BY DEF Changed, HandleChanged
<1>7. IsFiniteSet(callbacks')
  <2>1. IsFiniteSet({d \in callbacks : ~(d.id = pending[Key[f]] /\ d.at = "armed")})
    BY FS_Subset DEF DetectionTyped, HashesTyped
  <2> QED
    BY <1>6, <2>1, FS_AddElement
<1>8. HashesTyped'
  BY <1>1, <1>3, <1>5, <1>6, <1>7, KeyFacts DEF DetectionTyped, HashesTyped
<1> QED
  BY <1>1, <1>2, <1>8, HandleTypes, CrossingFacts

LEMMA DeletedTypes == ASSUME DetectionTyped, Deleted PROVE DetectionTyped'
<1>1. sweep > 0 /\ Current.file \in Files
  BY CurrentFacts DEF Deleted, DetectionTyped, Queueing
<1>2. /\ Advance(Crossing(Current.file) \cup Amiss(Current.file))
      /\ UNCHANGED <<diskVars, watching, timer>>
  BY DEF Deleted
<1>3. HashesTyped'
  BY <1>1, KeyFacts DEF Deleted, DetectionTyped, HashesTyped, Hashes
<1>4. Crossing(Current.file) \cup Amiss(Current.file) \in SUBSET Files
  BY <1>1, CrossingFacts
<1> QED
  BY <1>1, <1>2, <1>3, <1>4, HandleTypes

LEMMA SettleTypes ==
    ASSUME DetectionTyped, NEW c \in callbacks, Settle(c)
    PROVE  DetectionTyped'
<1>1. c \in Callback /\ Key[c.file] \in Keys
  BY CallbackFacts, KeyFacts DEF DetectionTyped, HashesTyped
<1>2. watching \notin {"no", "traversed"} /\ excused \subseteq excused'
  BY Ready DEF Settle, Fire, ReadHash, Compare
<1>3. UNCHANGED <<diskVars, watching, queueVars>>
  BY DEF Settle, Fire, ReadHash, Compare
<1>4. Queueing'
  BY <1>3 DEF DetectionTyped, Queueing, QueueTyped, Swept, InfoOfCurrent, Current, queueVars
<1>5. DiskTyped'
  <2>1. excused' \subseteq excused \cup {c.file}
    BY DEF Settle, Fire, ReadHash, Compare
  <2> QED
    BY <1>1, <1>3, <2>1, CallbackFacts DEF DetectionTyped, DiskTyped, diskVars
<1>6. HashesTyped'
  <2>1. CASE Fire(c) \/ ReadHash(c)
    <3>1. PICK d \in Callback : Replace(c, d)
      <4>1. CASE Fire(c)
        BY <1>1, <4>1 DEF Fire, Callback
      <4>2. CASE ReadHash(c)
        BY <1>1, <4>2 DEF ReadHash, Callback, DetectionTyped, DiskTyped
      <4> QED
        BY <2>1, <4>1, <4>2
    <3>2. callbacks' = (callbacks \ {c}) \cup {d}
      BY <3>1 DEF Replace
    <3>3. IsFiniteSet(callbacks')
      BY <3>2, FS_RemoveElement, FS_AddElement DEF DetectionTyped, HashesTyped
    <3> QED
      BY <2>1, <3>2, <3>3 DEF Fire, ReadHash, DetectionTyped, HashesTyped
  <2>2. CASE Compare(c)
    <3>1. callbacks' = callbacks \ {c} /\ IsFiniteSet(callbacks')
      BY <2>2, FS_RemoveElement DEF Compare, DetectionTyped, HashesTyped
    <3>2. pending' \in [Keys -> Nat] /\ hashes' \in [Keys -> Hashes]
      BY <1>1, <2>2, CallbackFacts DEF Compare, DetectionTyped, HashesTyped
    <3> QED
      BY <3>1, <3>2 DEF DetectionTyped, HashesTyped
  <2> QED
    BY <2>1, <2>2 DEF Settle
<1> QED
  BY <1>2, <1>3, <1>4, <1>5, <1>6 DEF DetectionTyped, BeforeReady, AfterReady

LEMMA WatcherTypes ==
    ASSUME DetectionTyped,
           Traverse \/ Watch \/ Stop \/ Sweep \/ ReadInfo \/ (\E f \in Files : Change(f) \/ Notice(f))
    PROVE  DetectionTyped'
<1>1. CASE Traverse
  <2>1. hashes' \in [Keys -> Hashes]
    BY <1>1 DEF Traverse
  <2>2. DiskTyped'
    BY <1>1 DEF Traverse, DetectionTyped, DiskTyped, diskVars
  <2>3. Queueing'
    BY <1>1 DEF Traverse, DetectionTyped, Queueing, QueueTyped, Swept, InfoOfCurrent, Current, queueVars
  <2> QED
    BY <1>1, <2>1, <2>2, <2>3 DEF Traverse, DetectionTyped, HashesTyped, BeforeReady, AfterReady, queueVars
<1>2. CASE Watch
  <2>1. DiskTyped'
    BY <1>2 DEF Watch, DetectionTyped, DiskTyped, Namesakes
  <2>2. Queueing'
    BY <1>2 DEF Watch, DetectionTyped, Queueing, QueueTyped, Swept, InfoOfCurrent, Current, queueVars
  <2> QED
    BY <1>2, <2>1, <2>2 DEF Watch, DetectionTyped, HashesTyped, BeforeReady, AfterReady, hashVars
<1>3. CASE Stop
  <2>1. DiskTyped'
    BY <1>3 DEF Stop, DetectionTyped, DiskTyped, diskVars
  <2>2. Queueing'
    BY <1>3 DEF Stop, DetectionTyped, Queueing, QueueTyped, Swept, InfoOfCurrent, Current, queueVars
  <2>3. callbacks' \subseteq callbacks /\ IsFiniteSet(callbacks')
    BY <1>3, FS_Subset DEF Stop, DetectionTyped, HashesTyped
  <2> QED
    BY <1>3, <2>1, <2>2, <2>3 DEF Stop, DetectionTyped, HashesTyped, BeforeReady, AfterReady
<1>4. CASE Sweep
  <2>1. DiskTyped' /\ HashesTyped'
    BY <1>4 DEF Sweep, DetectionTyped, DiskTyped, HashesTyped, diskVars, hashVars
  <2>2. order \in Seq(Roots) /\ (order # <<>> => Len(order) >= 1) /\ sweep \in Nat
    BY DEF DetectionTyped, Queueing, QueueTyped
  <2>3. QueueTyped'
    BY <1>4, <2>2 DEF Sweep, DetectionTyped, Queueing, QueueTyped
  <2>4. sweep' <= Len(order) /\ \A i \in DOMAIN order : i >= sweep' => i >= sweep
    BY <1>4, <2>2 DEF Sweep, DetectionTyped, Queueing, Swept
  <2>5. Swept'
    BY <1>4, <2>4 DEF Sweep, DetectionTyped, Queueing, Swept
  <2>6. InfoOfCurrent'
    BY <1>4, <2>2 DEF Sweep, DetectionTyped, Queueing, QueueTyped, InfoOfCurrent, Current
  <2> QED
    BY <1>4, <2>1, <2>3, <2>5, <2>6 DEF Sweep, DetectionTyped, Queueing, BeforeReady, AfterReady, hashVars
<1>5. CASE ReadInfo
  <2>1. sweep > 0 /\ Current.file \in Files
    BY <1>5, CurrentFacts DEF ReadInfo, DetectionTyped, Queueing
  <2>2. DiskTyped'
    BY <1>5, <2>1 DEF ReadInfo, DetectionTyped, DiskTyped, diskVars
  <2>3. Queueing'
    BY <1>5, <2>1 DEF ReadInfo, DetectionTyped, DiskTyped, Queueing, QueueTyped, Swept, InfoOfCurrent, Current, Hashes
  <2>4. watching \notin {"no", "traversed"}
    BY <2>1, Ready
  <2> QED
    BY <1>5, <2>2, <2>3, <2>4 DEF ReadInfo, DetectionTyped, HashesTyped, BeforeReady, AfterReady, hashVars
<1>6. ASSUME NEW f \in Files, Change(f) PROVE DetectionTyped'
  <2>1. DiskTyped'
    BY <1>6 DEF Change, DetectionTyped, DiskTyped, Hashes
  <2>2. Queueing'
    BY <1>6 DEF Change, DetectionTyped, Queueing, QueueTyped, Swept, InfoOfCurrent, Current, queueVars
  <2> QED
    BY <1>6, <2>1, <2>2 DEF Change, DetectionTyped, HashesTyped, BeforeReady, AfterReady, hashVars, queueVars
<1>7. ASSUME NEW f \in Files, Notice(f) PROVE DetectionTyped'
  <2>1. PICK e \in Event : Queue(e)
    BY <1>7 DEF Notice, Event
  <2>2. Queueing'
    BY <1>7, <2>1, QueueKeeps DEF Notice, DetectionTyped
  <2>3. DiskTyped'
    BY <1>7 DEF Notice, DetectionTyped, DiskTyped
  <2> QED
    BY <1>7, <2>2, <2>3 DEF Notice, DetectionTyped, HashesTyped, BeforeReady, AfterReady, hashVars
<1> QED
  BY <1>1, <1>2, <1>3, <1>4, <1>5, <1>6, <1>7

LEMMA DetectionTypesStep == DetectionTyped /\ [DetectionNext]_detectionVars => DetectionTyped'
<1> SUFFICES ASSUME DetectionTyped, [DetectionNext]_detectionVars PROVE DetectionTyped'
  OBVIOUS
<1>1. CASE UNCHANGED detectionVars
  BY <1>1 DEF detectionVars, diskVars, queueVars, hashVars, DetectionTyped, DiskTyped, Queueing, QueueTyped,
              Swept, InfoOfCurrent, Current, HashesTyped, BeforeReady, AfterReady
<1>2. CASE DetectionNext
  BY <1>2, WatcherTypes, AddedTypes, ChangedTypes, DeletedTypes, SettleTypes DEF DetectionNext, Process
<1> QED
  BY <1>1, <1>2

LEMMA TimersKept ==
    ASSUME DetectionTyped, Timers, UNCHANGED <<callbacks, pending>>,
           callbacks = {} \/ (excused \subseteq excused' /\ (watching' = "yes" => watching = "yes"))
    PROVE  Timers'
BY DEF Timers, Numbered, Single

LEMMA ChangedTimers == ASSUME DetectionTyped, Timers, Changed PROVE Timers'
<1> DEFINE f == Current.file
           k == Key[f]
           n == NextNumber
           old == {d \in callbacks : ~(d.id = pending[k] /\ d.at = "armed")}
           c == [id |-> n, file |-> f, previousHash |-> hashes[k], at |-> "armed", hash |-> Absent]
<1>1. sweep > 0 /\ f \in Files /\ k \in Keys
  BY CurrentFacts, KeyFacts DEF Changed, DetectionTyped, Queueing
<1>2. callbacks' = old \cup {c} /\ pending' = [pending EXCEPT ![k] = n] /\ watching' = watching
  BY DEF Changed, HandleChanged
<1>3. excused \subseteq excused' /\ Crossing(f) \subseteq excused'
  <2>1. Advance(Crossing(f)) /\ timer' = timer /\ Crossing(f) \in SUBSET Files
    BY <1>1, CrossingFacts DEF Changed
  <2> QED
    BY <1>1, <2>1, AdvanceKeeps DEF DetectionTyped, DiskTyped
<1>4. n \in Nat \ {0} /\ \A d \in callbacks : d.id # n
  BY NextNumberIsFree DEF DetectionTyped, Numbers
<1>5. pending'[k] = n /\ \A g \in Files : Key[g] # k => pending'[Key[g]] = pending[Key[g]]
  BY <1>1, <1>2, KeyFacts DEF DetectionTyped, HashesTyped
<1>6. Numbered'
  <2>1. (\A d, e \in callbacks' : d.id = e.id => d = e) /\ \A d \in callbacks' : d.id # 0
    BY <1>2, <1>4 DEF Timers, Numbered
  <2>2. ASSUME NEW g \in Files, pending'[Key[g]] # 0
        PROVE  \E d \in callbacks' : Key[d.file] = Key[g] /\ d.id = pending'[Key[g]]
    <3>1. CASE Key[g] = k
      <4>1. c \in callbacks' /\ c.file = f /\ c.id = n
        BY <1>2
      <4> QED
        BY <1>5, <3>1, <4>1
    <3>2. CASE Key[g] # k
      <4>1. PICK d \in callbacks : Key[d.file] = Key[g] /\ d.id = pending[Key[g]] /\ d.id # 0
        BY <1>5, <2>2, <3>2 DEF Timers, Numbered
      <4>2. d.id # pending[k]
        <5> SUFFICES ASSUME d.id = pending[k] PROVE FALSE
          OBVIOUS
        <5>1. PICK e \in callbacks : Key[e.file] = k /\ e.id = pending[k]
          BY <1>1, <4>1 DEF Timers, Numbered
        <5> QED
          BY <3>2, <4>1, <5>1 DEF Timers, Numbered
      <4> QED
        BY <1>2, <1>5, <3>2, <4>1, <4>2
    <3> QED
      BY <3>1, <3>2
  <2> QED
    BY <2>1, <2>2 DEF Numbered
<1>7. ASSUME NEW d \in old, d.file \notin excused' PROVE d.file # f /\ d.file \notin excused
  <2>1. d \in callbacks /\ d.file \notin excused
    BY <1>3, <1>7
  <2>2. CASE d.at = "armed"
    BY <1>7, <2>1, <2>2 DEF Timers, Single
  <2>3. CASE d.at # "armed"
    BY <1>1, <1>3, <1>7, <2>1, <2>3, CrossingFacts
  <2> QED
    BY <2>1, <2>2, <2>3
<1>8. Single'
  <2>1. \A d, e \in callbacks' : d.file = e.file /\ d.file \notin excused' => d = e
    BY <1>2, <1>7 DEF Timers, Single
  <2>2. ASSUME NEW d \in callbacks', d.file \notin excused', d.at = "armed" \/ watching' = "yes"
        PROVE  pending'[Key[d.file]] = d.id
    <3>1. CASE d = c
      BY <1>5, <3>1
    <3>2. CASE d # c
      <4>1. d \in old /\ d.file # f /\ d.file \notin excused /\ d.file \in Files
        BY <1>2, <1>7, <2>2, <3>2, CallbackFacts DEF DetectionTyped, HashesTyped
      <4>2. Key[d.file] # k
        BY <1>1, <4>1, Ready, OwnKey
      <4> QED
        BY <1>2, <1>5, <2>2, <4>1, <4>2 DEF Timers, Single
    <3> QED
      BY <3>1, <3>2
  <2> QED
    BY <2>1, <2>2 DEF Single
<1> QED
  BY <1>6, <1>8 DEF Timers

LEMMA CompareTimers == ASSUME DetectionTyped, Timers, NEW c \in callbacks, Compare(c) PROVE Timers'
<1>1. /\ callbacks' = callbacks \ {c} /\ pending' = [pending EXCEPT ![Key[c.file]] = 0]
      /\ watching' = watching /\ excused \subseteq excused'
  BY DEF Compare
<1>2. \A d \in callbacks : d.file \in Files /\ Key[d.file] \in Keys
  BY CallbackFacts, KeyFacts DEF DetectionTyped, HashesTyped
<1>3. \A f \in Files : pending'[Key[f]] = IF Key[f] = Key[c.file] THEN 0 ELSE pending[Key[f]]
  BY <1>1, <1>2, KeyFacts DEF DetectionTyped, HashesTyped
<1>4. Numbered'
  BY <1>1, <1>3 DEF Timers, Numbered
<1>5. Single'
  <2>1. ASSUME NEW d \in callbacks', d.file \notin excused' PROVE Key[d.file] # Key[c.file]
    <3>1. d \in callbacks /\ d # c /\ d.file \in Files \ excused
      BY <1>1, <1>2, <2>1
    <3>2. Key[d.file] = Key[c.file] => c.file = d.file
      BY <1>2, <3>1, Ready, OwnKey
    <3> QED
      BY <3>1, <3>2 DEF Timers, Single
  <2> QED
    BY <1>1, <1>2, <1>3, <2>1 DEF Timers, Single
<1> QED
  BY <1>4, <1>5 DEF Timers

LEMMA FlyingTimers ==
    ASSUME DetectionTyped, Timers, NEW c \in callbacks, Fire(c) \/ ReadHash(c)
    PROVE  Timers'
<1>1. PICK d : Replace(c, d) /\ d.id = c.id /\ d.file = c.file /\ d.at # "armed"
  <2>1. CASE Fire(c)
    BY <2>1 DEF Fire, DetectionTyped, HashesTyped, Callback
  <2>2. CASE ReadHash(c)
    <3>1. c \in Callback
      BY DEF DetectionTyped, HashesTyped
    <3>2. \A h : LET d == [c EXCEPT !.at = "read", !.hash = h] IN d.id = c.id /\ d.file = c.file /\ d.at = "read"
      BY <3>1 DEF Callback
    <3>3. LET d == [c EXCEPT !.at = "read"] IN d.id = c.id /\ d.file = c.file /\ d.at = "read"
      BY <3>1 DEF Callback
    <3> QED
      BY <2>2, <3>2, <3>3 DEF ReadHash
  <2> QED
    BY <2>1, <2>2
<1>2. /\ callbacks' = (callbacks \ {c}) \cup {d} /\ pending' = pending
      /\ watching' = watching /\ excused \subseteq excused'
  BY <1>1 DEF Fire, ReadHash, Replace
<1>3. Numbered'
  BY <1>1, <1>2 DEF Timers, Numbered
<1>4. Single'
  BY <1>1, <1>2 DEF Timers, Single
<1> QED
  BY <1>3, <1>4 DEF Timers

LEMMA StopTimers == ASSUME DetectionTyped, Timers, Stop PROVE Timers'
<1>1. /\ callbacks' = {c \in callbacks : ~(c.at = "armed" /\ c.id = pending[Key[c.file]])}
      /\ pending' = [k \in Keys |-> 0] /\ watching' = "stopped" /\ excused' = excused
  BY DEF Stop
<1>2. Numbered'
  BY <1>1, KeyFacts DEF Timers, Numbered
<1>3. Single'
  BY <1>1 DEF Timers, Single
<1> QED
  BY <1>2, <1>3 DEF Timers

LEMMA TimersStep == DetectionTyped /\ Timers /\ [DetectionNext]_detectionVars => Timers'
<1> SUFFICES ASSUME DetectionTyped, Timers, [DetectionNext]_detectionVars PROVE Timers'
  OBVIOUS
<1>1. CASE UNCHANGED detectionVars
  BY <1>1, TimersKept DEF detectionVars, hashVars
<1>2. CASE Traverse \/ Sweep \/ ReadInfo \/ (\E f \in Files : Change(f) \/ Notice(f))
  BY <1>2, TimersKept DEF Traverse, Sweep, ReadInfo, Change, Notice, hashVars
<1>3. CASE Watch
  BY <1>3, TimersKept DEF Watch, hashVars, DetectionTyped, BeforeReady
<1>4. CASE Added \/ Deleted
  <2>1. sweep > 0 /\ Current.file \in Files
    BY <1>4, CurrentFacts DEF Added, Deleted, DetectionTyped, Queueing
  <2>2. Crossing(Current.file) \in SUBSET Files /\ Amiss(Current.file) \in SUBSET Files
    BY <2>1, CrossingFacts
  <2>3. PICK others \in SUBSET Files : Advance(others)
    BY <1>4, <2>2 DEF Added, Deleted
  <2>4. UNCHANGED <<callbacks, pending, watching, timer>>
    BY <1>4 DEF Added, Deleted, HandleAdded, hashVars
  <2>5. excused \subseteq excused'
    BY <2>1, <2>3, <2>4, AdvanceKeeps DEF DetectionTyped, DiskTyped
  <2> QED
    BY <2>4, <2>5, TimersKept
<1> QED
  BY <1>1, <1>2, <1>3, <1>4, ChangedTimers, CompareTimers, FlyingTimers, StopTimers
     DEF DetectionNext, Process, Settle

LEMMA TimersInvariant == DetectionSpec => [](DetectionTyped /\ Timers)
<1>1. DetectionTyped /\ Timers /\ [DetectionNext]_detectionVars => (DetectionTyped /\ Timers)'
  BY DetectionTypesStep, TimersStep
<1> QED
  BY <1>1, DetectionStarts, PTL DEF DetectionSpec

\* The variables of the watcher's queue and of the detector keep their types:
\* the sweep never runs off the queue, and NextNumber is always a free number.
THEOREM DetectionTypeCorrect == DetectionSpec => []DetectionTypeOK
BY TimersInvariant, DetectionTypes, PTL

\* handleFileChanged replaces the timer of a file's last change: a file none of
\* whose changes crossed a callback has one timer or callback at most, and stop
\* knows of it.
THEOREM OneTimerEach == DetectionSpec => []OneTimer
<1>1. Timers => OneTimer
  BY DEF Timers, Single, OneTimer
<1> QED
  BY <1>1, TimersInvariant, PTL

-----------------------------------------------------------------------------
(* What is reported and what the disk holds *)

\* The events of f that are still to be processed.
Waiting(f) == Places(events[RootOf[f]], f)
Waits(f, i) == events[RootOf[f]][i]

\* The last of f's events is a deletion if the watcher told of one last, a file
\* that is added is not tracked when its turn comes, and one that the watcher
\* does not know of is not tracked in the end.
Tracked(f) ==
    /\ Waiting(f) # {} => \E i \in Waiting(f) :
           LastOf(events[RootOf[f]], f, i) /\ (Waits(f, i).type = "unlink" <=> f \notin known)
    /\ \A i \in Waiting(f) : Waits(f, i).type = "add" =>
           \/ FirstOf(events[RootOf[f]], f, i) /\ hashes[Key[f]] = Absent
           \/ AfterUnlink(events[RootOf[f]], f, i)
    /\ f \notin known /\ Waiting(f) = {} => hashes[Key[f]] = Absent

\* When the watcher has told all of f, what was read for its last event is on
\* the disk; and when that event is processed, so is what was reported, unless a
\* callback is still to compare what the disk holds with what was reported.
Compared(f) ==
    /\ (\A c \in callbacks : c.file # f) => hashes[Key[f]] = disk[f]
    /\ \A c \in callbacks : c.file = f =>
           /\ hashes[Key[f]] \in {c.previousHash, disk[f]}
           /\ c.at = "read" => c.hash = disk[f]

UpToDate(f) ==
    f \in known \ dirty =>
        /\ Waiting(f) = {} => Compared(f)
        /\ info # Unread /\ order[sweep] = RootOf[f] /\ Waiting(f) = {1} => info = disk[f]

Present == \A f \in known \ dirty : disk[f] # Absent

Reported ==
    /\ Present
    /\ watching = "yes" => \A f \in Files \ excused : Tracked(f) /\ UpToDate(f)

LEMMA Untouched ==
    ASSUME NEW f \in Files, Tracked(f), UpToDate(f),
           events'[RootOf[f]] = events[RootOf[f]], hashes'[Key[f]] = hashes[Key[f]],
           disk'[f] = disk[f], f \in known' <=> f \in known, f \in dirty' <=> f \in dirty,
           \A c : c.file = f => (c \in callbacks' <=> c \in callbacks),
           info' # Unread => info' = info /\ order'[sweep'] = order[sweep]
    PROVE  Tracked(f)' /\ UpToDate(f)'
<1>1. Waiting(f)' = Waiting(f) /\ \A i : Waits(f, i)' = Waits(f, i)
  BY DEF Waiting, Waits, Places
<1>2. \A i : /\ LastOf(events[RootOf[f]], f, i)' <=> LastOf(events[RootOf[f]], f, i)
             /\ FirstOf(events[RootOf[f]], f, i)' <=> FirstOf(events[RootOf[f]], f, i)
             /\ AfterUnlink(events[RootOf[f]], f, i)' <=> AfterUnlink(events[RootOf[f]], f, i)
  BY DEF LastOf, FirstOf, AfterUnlink, Places
<1>3. Tracked(f)'
  BY <1>1, <1>2 DEF Tracked
<1>4. Compared(f) => Compared(f)'
  BY DEF Compared
<1>5. UpToDate(f)'
  BY <1>1, <1>4 DEF UpToDate
<1> QED
  BY <1>3, <1>5

LEMMA ReportedStarts == DetectionInit => Reported
BY DEF DetectionInit, Reported, Present

LEMMA TraverseStopReported ==
    ASSUME Reported, Traverse \/ Stop PROVE Reported'
BY DEF Reported, Present, Traverse, Stop, diskVars

LEMMA WatchReported ==
    ASSUME DetectionTyped, Watch PROVE Reported'
<1>1. /\ watching = "traversed" /\ known' = {f \in Files : disk[f] # Absent} /\ dirty' = {} /\ disk' = disk
      /\ excused' = Namesakes \cup {f \in Files : hashes[Key[f]] # disk[f]} /\ UNCHANGED <<order, events, sweep, info, hashes, callbacks>>
  BY DEF Watch, queueVars, hashVars
<1>2. order = <<>> /\ callbacks = {} /\ sweep = 0 /\ info = Unread
  <2>1. order = <<>> /\ callbacks = {} /\ Len(<<>>) = 0
    BY <1>1 DEF DetectionTyped, BeforeReady
  <2> QED
    BY <2>1 DEF DetectionTyped, Queueing, QueueTyped, Swept, InfoOfCurrent
<1>3. ASSUME NEW f \in Files PROVE Waiting(f)' = {}
  <2>1. events[RootOf[f]] = <<>>
    BY <1>2, KeyFacts DEF DetectionTyped, Queueing, Swept
  <2> QED
    BY <1>1, <2>1 DEF Waiting, Places
<1>4. ASSUME NEW f \in Files \ excused' PROVE Tracked(f)' /\ UpToDate(f)'
  <2>1. hashes[Key[f]] = disk[f] /\ Waiting(f)' = {}
    BY <1>1, <1>3
  <2>2. Tracked(f)'
    BY <1>1, <2>1 DEF Tracked
  <2>3. UpToDate(f)'
    BY <1>1, <1>2, <2>1 DEF UpToDate, Compared
  <2> QED
    BY <2>2, <2>3
<1> QED
  BY <1>1, <1>4 DEF Reported, Present

LEMMA ChangeReported ==
    ASSUME DetectionTyped, Reported, NEW g \in Files, Change(g) PROVE Reported'
<1>1. /\ dirty' = dirty \cup {g} /\ UNCHANGED <<known, watching, order, events, sweep, info, hashes, callbacks, excused>>
      /\ \A f \in Files \ {g} : disk'[f] = disk[f]
  BY DEF Change, queueVars, hashVars, DetectionTyped, DiskTyped
<1>2. Present'
  BY <1>1 DEF Reported, Present, DetectionTyped, DiskTyped
<1>3. ASSUME NEW f \in Files, Tracked(f), UpToDate(f) PROVE Tracked(f)' /\ UpToDate(f)'
  <2>1. CASE f # g
    BY <1>1, <1>3, <2>1, Untouched
  <2>2. CASE f = g
    <3>1. UpToDate(f)'
      BY <1>1, <2>2 DEF UpToDate
    <3>2. Tracked(f)'
      BY <1>1, <1>3 DEF Tracked, Waiting, Waits, LastOf, FirstOf, AfterUnlink, Places
    <3> QED
      BY <3>1, <3>2
  <2> QED
    BY <2>1, <2>2
<1> QED
  BY <1>1, <1>2, <1>3 DEF Reported

LEMMA SweepReported ==
    ASSUME DetectionTyped, Reported, Sweep PROVE Reported'
<1>1. UNCHANGED <<disk, known, dirty, watching, order, events, info, hashes, callbacks, excused>>
  BY DEF Sweep, diskVars, hashVars
<1>2. info # Unread => sweep' = sweep
  BY DEF Sweep, DetectionTyped, Queueing, InfoOfCurrent
<1> QED
  BY <1>1, <1>2, Untouched DEF Reported, Present

LEMMA ReadInfoReported ==
    ASSUME DetectionTyped, Reported, ReadInfo PROVE Reported'
<1>1. UNCHANGED <<disk, known, dirty, watching, order, events, sweep, hashes, callbacks>> /\ info = Unread
  BY DEF ReadInfo, diskVars, hashVars
<1>2. excused \subseteq excused'
  BY DEF ReadInfo
<1>3. info' = disk[Current.file] \/ Current.file \in excused'
  BY DEF ReadInfo
<1>4. ASSUME NEW f \in Files \ excused', Tracked(f), UpToDate(f) PROVE Tracked(f)' /\ UpToDate(f)'
  <2>1. Tracked(f)'
    BY <1>1, <1>4 DEF Tracked, Waiting, Waits, LastOf, FirstOf, AfterUnlink, Places
  <2>2. Waiting(f)' = Waiting(f)
    BY <1>1 DEF Waiting
  <2>3. Compared(f) => Compared(f)'
    BY <1>1 DEF Compared
  <2>4. ASSUME order[sweep] = RootOf[f], Waiting(f) = {1} PROVE info' = disk[f]
    <3>1. Current = events[order[sweep]][1]
      BY CurrentFacts DEF ReadInfo, DetectionTyped, Queueing
    <3>2. Current.file = f
      BY <2>4, <3>1 DEF Waiting, Places
    <3> QED
      BY <1>3, <1>4, <3>2
  <2> QED
    BY <1>1, <1>4, <2>1, <2>2, <2>3, <2>4 DEF UpToDate
<1> QED
  BY <1>1, <1>2, <1>4 DEF Reported, Present

\* A new event is the last of its file, and follows a deletion if it adds.
LEMMA NoticedTracked ==
    ASSUME DetectionTyped, NEW f \in Files, Tracked(f), NEW e \in Event, e.file = f,
           events'[RootOf[f]] = Append(events[RootOf[f]], e), hashes' = hashes,
           e.type = "unlink" <=> f \notin known', e.type = "add" => f \notin known
    PROVE  Tracked(f)' /\ Waiting(f)' # {} /\ (Waiting(f)' = {1} => events[RootOf[f]] = <<>>)
<1> DEFINE q == events[RootOf[f]]
<1>0. q \in Seq(Event) /\ Len(q) \in Nat
  BY KeyFacts DEF DetectionTyped, Queueing, QueueTyped
<1>1. PICK last \in Nat : last = Len(q) + 1
  BY <1>0
<1>2. /\ \A i \in 1..Len(q) : Append(q, e)[i] = q[i]
      /\ Append(q, e)[last] = e
      /\ Places(q, f) \subseteq 1..Len(q)
      /\ Places(Append(q, e), f) = Places(q, f) \cup {last}
  BY <1>0, <1>1, AppendPlaces
<1>3. Waiting(f) = Places(q, f) /\ Waiting(f)' = Places(q, f) \cup {last}
  BY <1>2 DEF Waiting
<1>4. \A i \in Places(q, f) : i \in Nat /\ i < last /\ Waits(f, i)' = Waits(f, i)
  BY <1>0, <1>1, <1>2 DEF Waits
<1>5. Waits(f, last)' = e
  BY <1>2 DEF Waits
<1>6. LastOf(Append(q, e), f, last)
  BY <1>0, <1>1, <1>2, <1>4 DEF LastOf
<1>7. ASSUME NEW i \in Places(q, f)
      PROVE  /\ FirstOf(q, f, i) => FirstOf(Append(q, e), f, i)
             /\ AfterUnlink(q, f, i) => AfterUnlink(Append(q, e), f, i)
  <2>1. FirstOf(q, f, i) => FirstOf(Append(q, e), f, i)
    BY <1>0, <1>1, <1>2, <1>4 DEF FirstOf
  <2>2. ASSUME AfterUnlink(q, f, i) PROVE AfterUnlink(Append(q, e), f, i)
    <3>1. PICK j \in Places(q, f) :
              j < i /\ q[j].type = "unlink" /\ \A m \in Places(q, f) : m <= j \/ m >= i
      BY <2>2 DEF AfterUnlink
    <3>2. \A m \in Places(Append(q, e), f) : m <= j \/ m >= i
      BY <1>0, <1>1, <1>2, <1>4, <3>1
    <3>3. j \in Places(Append(q, e), f) /\ Append(q, e)[j] = q[j]
      BY <1>2
    <3> QED
      BY <3>1, <3>2, <3>3 DEF AfterUnlink
  <2> QED
    BY <2>1, <2>2
<1>8. ASSUME e.type = "add"
      PROVE  \/ FirstOf(Append(q, e), f, last) /\ hashes[Key[f]] = Absent
             \/ AfterUnlink(Append(q, e), f, last)
  <2>1. CASE Places(q, f) = {}
    <3>1. hashes[Key[f]] = Absent
      BY <1>3, <1>8, <2>1 DEF Tracked
    <3>2. FirstOf(Append(q, e), f, last)
      BY <1>0, <1>1, <1>2, <2>1 DEF FirstOf
    <3> QED
      BY <3>1, <3>2
  <2>2. CASE Places(q, f) # {}
    <3>1. PICK i \in Places(q, f) : LastOf(q, f, i) /\ q[i].type = "unlink"
      BY <1>3, <1>8, <2>2 DEF Tracked, Waits
    <3>2. \A m \in Places(Append(q, e), f) : m <= i \/ m >= last
      BY <1>0, <1>1, <1>2, <1>4, <3>1 DEF LastOf
    <3>3. i \in Places(Append(q, e), f) /\ Append(q, e)[i] = q[i] /\ i < last
      BY <1>2, <1>4
    <3> QED
      BY <3>1, <3>2, <3>3 DEF AfterUnlink
  <2> QED
    BY <2>1, <2>2
<1>9. events'[RootOf[f]] = Append(q, e) /\ hashes'[Key[f]] = hashes[Key[f]]
  OBVIOUS
<1>10. LastOf(events[RootOf[f]], f, last)' /\ last \in Waiting(f)'
  BY <1>3, <1>6 DEF LastOf, Places
<1>11. ASSUME NEW i \in Waiting(f)', Waits(f, i)'.type = "add"
       PROVE  \/ FirstOf(events[RootOf[f]], f, i)' /\ hashes'[Key[f]] = Absent
              \/ AfterUnlink(events[RootOf[f]], f, i)'
  <2>1. CASE i = last
    BY <1>5, <1>8, <1>11, <2>1 DEF FirstOf, AfterUnlink, Places
  <2>2. CASE i \in Places(q, f)
    <3>1. \/ FirstOf(q, f, i) /\ hashes[Key[f]] = Absent
          \/ AfterUnlink(q, f, i)
      BY <1>3, <1>4, <1>11, <2>2 DEF Tracked
    <3> QED
      BY <1>7, <2>2, <3>1 DEF FirstOf, AfterUnlink, Places
  <2> QED
    BY <1>3, <2>1, <2>2
<1>12. Tracked(f)'
  BY <1>3, <1>5, <1>10, <1>11 DEF Tracked
<1>13. Waiting(f)' = {1} => q = <<>>
  <2>1. Waiting(f)' = {1} => last = 1
    BY <1>3
  <2>2. Len(q) = 0 => q = <<>>
    BY <1>0
  <2> QED
    BY <1>0, <1>1, <2>1, <2>2
<1> QED
  BY <1>3, <1>12, <1>13

LEMMA NoticeReported ==
    ASSUME DetectionTyped, Reported, NEW g \in Files, Notice(g) PROVE Reported'
<1>1. /\ dirty' = dirty \ {g} /\ UNCHANGED <<disk, watching, sweep, info, hashes, callbacks, excused>>
      /\ known' \in {known, known \cup {g}, known \ {g}}
  BY DEF Notice, hashVars
<1>2. PICK e \in Event :
         /\ Queue(e) /\ e.file = g
         /\ e.type = "unlink" <=> g \notin known'
         /\ e.type = "add" => g \notin known
         /\ g \in known' => disk[g] # Absent
  <2>1. \A t \in {"add", "change", "unlink"} :
            LET e == [type |-> t, file |-> g] IN e \in Event /\ e.type = t /\ e.file = g
    BY DEF Event
  <2>2. CASE g \notin known /\ disk[g] # Absent /\ Queue([type |-> "add", file |-> g]) /\ known' = known \cup {g}
    BY <2>1, <2>2
  <2>3. CASE g \in known /\ disk[g] # Absent /\ Queue([type |-> "change", file |-> g]) /\ known' = known
    BY <2>1, <2>3
  <2>4. CASE disk[g] = Absent /\ Queue([type |-> "unlink", file |-> g]) /\ known' = known \ {g}
    BY <2>1, <2>4
  <2> QED
    BY <2>2, <2>3, <2>4 DEF Notice
<1>3. /\ events' = [events EXCEPT ![RootOf[g]] = Append(@, e)]
      /\ sweep > 0 => order'[sweep'] = order[sweep]
  BY <1>1, <1>2, QueueKeeps DEF DetectionTyped
<1>4. info # Unread => sweep > 0
  BY DEF DetectionTyped, Queueing, InfoOfCurrent
<1>5. events \in [Roots -> Seq(Event)] /\ \A f \in Files : RootOf[f] \in Roots
  BY KeyFacts DEF DetectionTyped, Queueing, QueueTyped
<1>6. ASSUME NEW f \in Files, f # g, Tracked(f), UpToDate(f) PROVE Tracked(f)' /\ UpToDate(f)'
  <2>1. CASE RootOf[f] # RootOf[g]
    <3>1. events'[RootOf[f]] = events[RootOf[f]]
      BY <1>3, <1>5, <2>1
    <3> QED
      BY <1>1, <1>3, <1>4, <1>6, <3>1, Untouched
  <2>2. CASE RootOf[f] = RootOf[g]
    <3> DEFINE q == events[RootOf[f]]
    <3>1. events'[RootOf[f]] = Append(q, e) /\ q \in Seq(Event)
      BY <1>3, <1>5, <2>2
    <3>2. /\ Places(Append(q, e), f) = Places(q, f) /\ Places(q, f) \subseteq 1..Len(q)
          /\ \A i \in Places(q, f) : Append(q, e)[i] = q[i]
      BY <1>2, <1>6, <3>1, AppendPlaces
    <3>3. Waiting(f)' = Waiting(f) /\ \A i \in Waiting(f) : Waits(f, i)' = Waits(f, i)
      BY <3>1, <3>2 DEF Waiting, Waits
    <3>4. \A i : /\ LastOf(events[RootOf[f]], f, i)' <=> LastOf(q, f, i)
                 /\ FirstOf(events[RootOf[f]], f, i)' <=> FirstOf(q, f, i)
                 /\ AfterUnlink(events[RootOf[f]], f, i)' <=> AfterUnlink(q, f, i)
      <4>1. Places(events'[RootOf[f]], f) = Places(q, f) /\ \A i \in Places(q, f) : events'[RootOf[f]][i] = q[i]
        BY <3>1, <3>2
      <4>2. \A i : LastOf(events[RootOf[f]], f, i)' <=> LastOf(q, f, i)
        BY <4>1 DEF LastOf
      <4>3. \A i : FirstOf(events[RootOf[f]], f, i)' <=> FirstOf(q, f, i)
        BY <4>1 DEF FirstOf
      <4>4. \A i : AfterUnlink(events[RootOf[f]], f, i)' <=> AfterUnlink(q, f, i)
        BY <4>1 DEF AfterUnlink
      <4> QED
        BY <4>2, <4>3, <4>4
    <3>5. f \in known' <=> f \in known
      BY <1>1, <1>6
    <3>6. Tracked(f)'
      BY <1>1, <1>6, <3>3, <3>4, <3>5 DEF Tracked
    <3>7. Compared(f) => Compared(f)'
      BY <1>1 DEF Compared
    <3>8. UpToDate(f)'
      BY <1>1, <1>3, <1>4, <1>6, <3>3, <3>5, <3>7 DEF UpToDate
    <3> QED
      BY <3>6, <3>8
  <2> QED
    BY <2>1, <2>2
<1>7. ASSUME Tracked(g), UpToDate(g) PROVE Tracked(g)' /\ UpToDate(g)'
  <2>1. events'[RootOf[g]] = Append(events[RootOf[g]], e)
    BY <1>3, <1>5
  <2>2. Tracked(g)' /\ Waiting(g)' # {} /\ (Waiting(g)' = {1} => events[RootOf[g]] = <<>>)
    BY <1>1, <1>2, <1>7, <2>1, NoticedTracked
  <2>3. info' # Unread /\ order'[sweep'] = RootOf[g] => events[RootOf[g]] # <<>>
    BY <1>1, <1>3, <1>4, CurrentFacts DEF DetectionTyped, Queueing
  <2> QED
    BY <2>2, <2>3 DEF UpToDate
<1>8. Present'
  BY <1>1, <1>2 DEF Reported, Present
<1> QED
  BY <1>1, <1>6, <1>7, <1>8 DEF Reported

-----------------------------------------------------------------------------
(* The callbacks *)

LEMMA FlyingReported ==
    ASSUME DetectionTyped, Timers, Reported, NEW c \in callbacks, Fire(c) \/ ReadHash(c) PROVE Reported'
<1>1. /\ UNCHANGED <<disk, known, dirty, watching, order, events, sweep, info, hashes>>
      /\ excused \subseteq excused'
  BY DEF Fire, ReadHash, diskVars, queueVars
<1>2. PICK d : /\ Replace(c, d) /\ d.file = c.file /\ d.previousHash = c.previousHash
               /\ c.file \notin excused' => (d.at = "read" => d.hash = disk[c.file])
  <2>1. c \in Callback
    BY DEF DetectionTyped, HashesTyped
  <2>2. CASE Fire(c)
    BY <2>1, <2>2 DEF Fire, Callback
  <2>3. CASE ReadHash(c)
    <3>1. LET d == [c EXCEPT !.at = "read", !.hash = disk[c.file]]
          IN  d.file = c.file /\ d.previousHash = c.previousHash /\ d.hash = disk[c.file]
      BY <2>1 DEF Callback
    <3>2. LET d == [c EXCEPT !.at = "read"] IN d.file = c.file /\ d.previousHash = c.previousHash
      BY <2>1 DEF Callback
    <3> QED
      BY <2>3, <3>1, <3>2 DEF ReadHash
  <2> QED
    BY <2>2, <2>3
<1>3. callbacks' = (callbacks \ {c}) \cup {d}
  BY <1>2 DEF Replace
<1>4. ASSUME NEW f \in Files \ excused', Tracked(f), UpToDate(f) PROVE Tracked(f)' /\ UpToDate(f)'
  <2>1. CASE f # c.file
    BY <1>1, <1>2, <1>3, <1>4, <2>1, Untouched
  <2>2. CASE f = c.file
    <3>1. Tracked(f)'
      BY <1>1, <1>4 DEF Tracked, Waiting, Waits, LastOf, FirstOf, AfterUnlink, Places
    <3>2. Compared(f) => Compared(f)'
      BY <1>1, <1>2, <1>3, <1>4, <2>2 DEF Compared
    <3>3. UpToDate(f)'
      BY <1>1, <1>4, <3>2 DEF UpToDate, Waiting
    <3> QED
      BY <3>1, <3>3
  <2> QED
    BY <2>1, <2>2
<1> QED
  BY <1>1, <1>4 DEF Reported, Present

LEMMA CompareReported ==
    ASSUME DetectionTyped, Timers, Reported, NEW c \in callbacks, Compare(c) PROVE Reported'
<1> DEFINE k == Key[c.file]
<1>1. /\ UNCHANGED <<disk, known, dirty, watching, order, events, sweep, info>>
      /\ callbacks' = callbacks \ {c} /\ c.at = "read"
      /\ hashes' = IF c.hash \notin {Absent, c.previousHash} THEN [hashes EXCEPT ![k] = c.hash] ELSE hashes
      /\ excused' = IF hashes[k] = Absent /\ hashes' # hashes THEN excused \cup {c.file} ELSE excused
  BY DEF Compare, diskVars, queueVars
<1>2. c \in Callback /\ c.file \in Files /\ k \in Keys /\ hashes \in [Keys -> Hashes]
  BY CallbackFacts, KeyFacts DEF DetectionTyped, HashesTyped
<1>3. \A f \in Files \ excused : f # c.file => hashes'[Key[f]] = hashes[Key[f]]
  BY <1>1, <1>2, KeyFacts, Ready, OwnKey
<1>4. ASSUME NEW f \in Files \ excused', watching = "yes", f \in Files \ excused => Tracked(f) /\ UpToDate(f)
      PROVE  Tracked(f)' /\ UpToDate(f)'
  <2>1. f \notin excused /\ Tracked(f) /\ UpToDate(f)
    BY <1>1, <1>4
  <2>2. CASE f # c.file
    BY <1>1, <1>3, <2>1, <2>2, Untouched
  <2>3. CASE f = c.file
    <3>1. \A d \in callbacks' : d.file # f
      BY <1>1, <2>1, <2>3 DEF Timers, Single
    <3>2. hashes[Key[f]] = Absent => hashes'[Key[f]] = Absent
      BY <1>1, <1>4, <2>3
    <3>3. Tracked(f)'
      BY <1>1, <2>1, <3>2 DEF Tracked, Waiting, Waits, LastOf, FirstOf, AfterUnlink, Places
    <3>4. ASSUME f \in known \ dirty, Compared(f) PROVE hashes'[Key[f]] = disk[f]
      <4>1. c.hash = disk[f] /\ hashes[Key[f]] \in {c.previousHash, disk[f]}
        BY <1>1, <2>3, <3>4 DEF Compared
      <4>2. disk[f] # Absent
        BY <3>4 DEF Reported, Present
      <4> QED
        BY <1>1, <1>2, <2>3, <4>1, <4>2
    <3>5. UpToDate(f)'
      BY <1>1, <2>1, <3>1, <3>4 DEF UpToDate, Compared, Waiting
    <3> QED
      BY <3>3, <3>5
  <2> QED
    BY <2>2, <2>3
<1> QED
  BY <1>1, <1>4 DEF Reported, Present

-----------------------------------------------------------------------------
(* An event is processed *)

\* A file whose event is not the one being processed.
LEMMA OtherFiles ==
    ASSUME DetectionTyped, sweep > 0, NEW others \in SUBSET Files, Advance(others), timer' = timer,
           NEW f \in Files \ excused', f # Current.file, Tracked(f), UpToDate(f),
           UNCHANGED <<disk, known, dirty>>, hashes'[Key[f]] = hashes[Key[f]],
           \A c : c.file = f => (c \in callbacks' <=> c \in callbacks)
    PROVE  Tracked(f)' /\ UpToDate(f)'
<1> DEFINE q == events[RootOf[f]]
<1>1. /\ info' = Unread
      /\ RootOf[f] = order[sweep] => events'[RootOf[f]] = Tail(q)
      /\ RootOf[f] # order[sweep] =>
             events'[RootOf[f]] = q \/ (Places(q, f) = {} /\ events'[RootOf[f]] = <<>>)
  BY AdvanceKeeps DEF DetectionTyped, DiskTyped
<1>2. CASE events'[RootOf[f]] = q
  BY <1>1, <1>2, Untouched
<1>3. Compared(f) => Compared(f)'
  BY DEF Compared
<1>4. CASE Places(q, f) = {} /\ events'[RootOf[f]] = <<>>
  <2>1. Waiting(f) = {} /\ Waiting(f)' = {}
    BY <1>4 DEF Waiting, Places
  <2> QED
    BY <1>1, <1>3, <2>1 DEF Tracked, UpToDate
<1>5. CASE RootOf[f] = order[sweep]
  <2>1. events'[RootOf[f]] = Tail(q) /\ q \in Seq(Event) /\ q # <<>>
    BY <1>1, <1>5, CurrentFacts DEF DetectionTyped, Queueing
  <2>2. Head(q).file # f
    BY <1>5, <2>1, CurrentFacts, TailPlaces DEF DetectionTyped, Queueing
  <2>3. /\ \A i \in Places(Tail(q), f) :
               /\ i + 1 \in Places(q, f) /\ Tail(q)[i] = q[i + 1]
               /\ FirstOf(q, f, i + 1) => FirstOf(Tail(q), f, i)
               /\ AfterUnlink(q, f, i + 1) => AfterUnlink(Tail(q), f, i)
        /\ \A i \in Places(q, f) :
               /\ i - 1 \in Places(Tail(q), f) /\ Tail(q)[i - 1] = q[i]
               /\ LastOf(q, f, i) => LastOf(Tail(q), f, i - 1)
        /\ Places(Tail(q), f) = {} <=> Places(q, f) = {}
    BY <2>1, <2>2, ShiftOther
  <2>4. /\ Waiting(f) = Places(q, f) /\ Waiting(f)' = Places(Tail(q), f)
        /\ \A i : /\ Waits(f, i) = q[i] /\ Waits(f, i)' = Tail(q)[i]
                  /\ LastOf(events[RootOf[f]], f, i)' <=> LastOf(Tail(q), f, i)
                  /\ FirstOf(events[RootOf[f]], f, i)' <=> FirstOf(Tail(q), f, i)
                  /\ AfterUnlink(events[RootOf[f]], f, i)' <=> AfterUnlink(Tail(q), f, i)
    BY <2>1 DEF Waiting, Waits, LastOf, FirstOf, AfterUnlink, Places
  <2>5. ASSUME Waiting(f)' # {}
        PROVE  \E i \in Waiting(f)' :
                   LastOf(events[RootOf[f]], f, i)' /\ (Waits(f, i)'.type = "unlink" <=> f \notin known')
    <3>1. PICK i \in Places(q, f) : LastOf(q, f, i) /\ (q[i].type = "unlink" <=> f \notin known)
      BY <2>3, <2>4, <2>5 DEF Tracked
    <3>2. PICK j : j = i - 1
      OBVIOUS
    <3>3. j \in Places(Tail(q), f) /\ Tail(q)[j] = q[i] /\ LastOf(Tail(q), f, j)
      BY <2>3, <3>1, <3>2
    <3> QED
      BY <2>4, <3>1, <3>3
  <2>6. ASSUME NEW i \in Waiting(f)', Waits(f, i)'.type = "add"
        PROVE  \/ FirstOf(events[RootOf[f]], f, i)' /\ hashes'[Key[f]] = Absent
               \/ AfterUnlink(events[RootOf[f]], f, i)'
    <3>1. i + 1 \in Places(q, f) /\ q[i + 1].type = "add"
      BY <2>3, <2>4, <2>6
    <3>2. (FirstOf(q, f, i + 1) /\ hashes[Key[f]] = Absent) \/ AfterUnlink(q, f, i + 1)
      BY <2>4, <3>1 DEF Tracked
    <3> QED
      BY <2>3, <2>4, <3>2
  <2>7. Waiting(f)' = {} <=> Waiting(f) = {}
    BY <2>3, <2>4
  <2>8. Tracked(f)'
    BY <2>5, <2>6, <2>7 DEF Tracked
  <2>9. UpToDate(f)'
    BY <1>1, <1>3, <2>7 DEF UpToDate
  <2> QED
    BY <2>8, <2>9
<1> QED
  BY <1>1, <1>2, <1>4, <1>5

\* The file whose event is processed: what is reported if it was the last.
LEMMA OwnFile ==
    ASSUME DetectionTyped, sweep > 0, NEW others \in SUBSET Files, Advance(others), timer' = timer,
           NEW f \in Files, f = Current.file, Tracked(f),
           UNCHANGED <<disk, known, dirty>>,
           Current.type = "unlink" => hashes'[Key[f]] = Absent,
           f \in known \ dirty /\ Waiting(f) = {1} /\ Current.type # "unlink" => Compared(f)'
    PROVE  Tracked(f)' /\ UpToDate(f)'
<1> DEFINE q == events[RootOf[f]]
<1>1. /\ info' = Unread /\ events'[RootOf[f]] = Tail(q)
      /\ q \in Seq(Event) /\ q # <<>> /\ Current = Head(q) /\ Head(q).file = f
  BY AdvanceKeeps, CurrentFacts DEF DetectionTyped, DiskTyped, Queueing, Current
<1> HIDE DEF q
<1>2. /\ \A i \in Places(Tail(q), f) :
             /\ i + 1 \in Places(q, f) /\ Tail(q)[i] = q[i + 1]
             /\ ~FirstOf(q, f, i + 1)
             /\ AfterUnlink(q, f, i + 1) =>
                    \/ AfterUnlink(Tail(q), f, i)
                    \/ Head(q).type = "unlink" /\ FirstOf(Tail(q), f, i)
      /\ \A i \in Places(q, f) :
             /\ LastOf(q, f, i) /\ i = 1 => Places(Tail(q), f) = {}
             /\ LastOf(q, f, i) /\ i # 1 =>
                    i - 1 \in Places(Tail(q), f) /\ Tail(q)[i - 1] = q[i] /\ LastOf(Tail(q), f, i - 1)
      /\ Places(Tail(q), f) = {} => Places(q, f) = {1}
      /\ 1 \in Places(q, f) /\ Head(q) = q[1]
  BY <1>1, ShiftOwn
<1>3. /\ Waiting(f) = Places(q, f) /\ Waiting(f)' = Places(Tail(q), f)
      /\ \A i : /\ Waits(f, i) = q[i] /\ Waits(f, i)' = Tail(q)[i]
                /\ LastOf(events[RootOf[f]], f, i)' <=> LastOf(Tail(q), f, i)
                /\ FirstOf(events[RootOf[f]], f, i)' <=> FirstOf(Tail(q), f, i)
                /\ AfterUnlink(events[RootOf[f]], f, i)' <=> AfterUnlink(Tail(q), f, i)
  BY <1>1 DEF q, Waiting, Waits, LastOf, FirstOf, AfterUnlink, Places
<1>4. PICK last \in Places(q, f) : LastOf(q, f, last) /\ (q[last].type = "unlink" <=> f \notin known)
  BY <1>2, <1>3 DEF Tracked, q
<1>5. ASSUME Waiting(f)' # {}
      PROVE  \E i \in Waiting(f)' :
                 LastOf(events[RootOf[f]], f, i)' /\ (Waits(f, i)'.type = "unlink" <=> f \notin known')
  <2>1. last # 1
    BY <1>2, <1>3, <1>4, <1>5
  <2>2. PICK j : j = last - 1
    OBVIOUS
  <2>3. j \in Places(Tail(q), f) /\ Tail(q)[j] = q[last] /\ LastOf(Tail(q), f, j)
    BY <1>2, <1>4, <2>1, <2>2
  <2> QED
    BY <1>3, <1>4, <2>3
<1>6. ASSUME NEW i \in Waiting(f)', Waits(f, i)'.type = "add"
      PROVE  \/ FirstOf(events[RootOf[f]], f, i)' /\ hashes'[Key[f]] = Absent
             \/ AfterUnlink(events[RootOf[f]], f, i)'
  <2>1. i \in Places(Tail(q), f) /\ Tail(q)[i].type = "add"
    BY <1>3, <1>6
  <2>2. i + 1 \in Places(q, f) /\ q[i + 1].type = "add" /\ ~FirstOf(q, f, i + 1)
    BY <1>2, <2>1
  <2>3. AfterUnlink(q, f, i + 1)
    BY <1>3, <2>2 DEF Tracked, q
  <2> QED
    BY <1>1, <1>2, <1>3, <2>1, <2>3
<1>7. ASSUME Waiting(f)' = {} PROVE Waiting(f) = {1} /\ (Current.type = "unlink" <=> f \notin known)
  <2>1. Places(q, f) = {1}
    BY <1>2, <1>3, <1>7
  <2>2. last = 1
    BY <1>4, <2>1
  <2> QED
    BY <1>1, <1>2, <1>3, <1>4, <2>1, <2>2
<1>8. Tracked(f)'
  BY <1>5, <1>6, <1>7 DEF Tracked
<1>9. UpToDate(f)'
  BY <1>1, <1>7 DEF UpToDate
<1> QED
  BY <1>8, <1>9

LEMMA AddedReported ==
    ASSUME DetectionTyped, Timers, Reported, Added PROVE Reported'
<1> DEFINE g == Current.file
<1>1. sweep > 0 /\ g \in Files /\ Key[g] \in Keys /\ info \in Hashes /\ hashes \in [Keys -> Hashes]
  BY CurrentFacts, KeyFacts DEF Added, DetectionTyped, Queueing, QueueTyped, HashesTyped
<1>2. /\ Advance(Crossing(g)) /\ Crossing(g) \in SUBSET Files /\ timer' = timer
      /\ UNCHANGED <<disk, known, dirty, watching, callbacks>>
  BY <1>1, CrossingFacts DEF Added, HandleAdded, diskVars, hashVars
<1>3. excused \subseteq excused' /\ Crossing(g) \subseteq excused'
  BY <1>1, <1>2, AdvanceKeeps DEF DetectionTyped, DiskTyped
<1>4. \A f \in Files \ excused : f # g => hashes'[Key[f]] = hashes[Key[f]]
  BY <1>1, KeyFacts, Ready, OwnKey DEF Added, HandleAdded, hashVars
<1>5. Current.type # "unlink"
  BY <1>1 DEF Added, DetectionTyped, Queueing, InfoOfCurrent
<1>6. ASSUME NEW f \in Files \ excused', Tracked(f), UpToDate(f) PROVE Tracked(f)' /\ UpToDate(f)'
  <2>1. CASE f # g
    BY <1>1, <1>2, <1>3, <1>4, <1>6, <2>1, OtherFiles
  <2>2. CASE f = g
    <3>1. ASSUME f \in known \ dirty, Waiting(f) = {1} PROVE Compared(f)'
      <4>1. order[sweep] = RootOf[f] /\ Current = Waits(f, 1)
        BY <1>1, <2>2, CurrentFacts DEF DetectionTyped, Queueing, Waits
      <4>2. info = disk[f] /\ disk[f] # Absent
        BY <1>1, <1>6, <3>1, <4>1 DEF UpToDate, Reported, Present, Added
      <4>3. Current.type = "add" => hashes[Key[f]] = Absent
        BY <1>6, <3>1, <4>1 DEF Tracked, AfterUnlink, Waiting
      <4>4. hashes[Key[f]] = Absent
        BY <2>2, <4>2, <4>3 DEF Added
      <4>5. hashes'[Key[f]] = disk[f]
        BY <1>1, <2>2, <4>2, <4>4 DEF Added, HandleAdded
      <4>6. \A c \in callbacks : c.file = f => c.at = "armed"
        BY <1>1, <1>3, <1>6, <2>2, CrossingFacts
      <4> QED
        BY <1>2, <4>5, <4>6 DEF Compared
    <3> QED
      BY <1>1, <1>2, <1>5, <1>6, <2>2, <3>1, OwnFile
  <2> QED
    BY <2>1, <2>2
<1> QED
  BY <1>2, <1>3, <1>6 DEF Reported, Present

LEMMA ChangedReported ==
    ASSUME DetectionTyped, Timers, Reported, Changed PROVE Reported'
<1> DEFINE g == Current.file
           k == Key[g]
           old == {d \in callbacks : ~(d.id = pending[k] /\ d.at = "armed")}
           c == [id |-> NextNumber, file |-> g, previousHash |-> hashes[k], at |-> "armed", hash |-> Absent]
<1>1. sweep > 0 /\ g \in Files
  BY CurrentFacts DEF Changed, DetectionTyped, Queueing
<1>2. /\ Advance(Crossing(g)) /\ Crossing(g) \in SUBSET Files /\ timer' = timer
      /\ UNCHANGED <<disk, known, dirty, watching, hashes>>
      /\ callbacks' = old \cup {c} /\ Current.type = "change"
  BY <1>1, CrossingFacts DEF Changed, HandleChanged, diskVars
<1>3. excused \subseteq excused' /\ Crossing(g) \subseteq excused'
  BY <1>1, <1>2, AdvanceKeeps DEF DetectionTyped, DiskTyped
<1>4. ASSUME NEW d \in callbacks, d.id = pending[k], d.file \notin excused PROVE d.file = g
  <2>1. d.id # 0 /\ d.file \in Files
    BY CallbackFacts DEF Timers, Numbered, DetectionTyped, HashesTyped
  <2>2. PICK e \in callbacks : Key[e.file] = k /\ e.id = pending[k]
    BY <1>1, <1>4, <2>1 DEF Timers, Numbered
  <2>3. Key[g] = Key[d.file]
    BY <1>4, <2>2 DEF Timers, Numbered
  <2> QED
    BY <1>1, <1>4, <2>1, <2>3, Ready, OwnKey
<1>5. ASSUME NEW f \in Files \ excused', Tracked(f), UpToDate(f) PROVE Tracked(f)' /\ UpToDate(f)'
  <2>1. CASE f # g
    <3>1. \A d : d.file = f => (d \in callbacks' <=> d \in callbacks)
      BY <1>2, <1>3, <1>4, <1>5, <2>1
    <3> QED
      BY <1>1, <1>2, <1>5, <2>1, <3>1, OtherFiles
  <2>2. CASE f = g
    <3>1. \A d \in callbacks : d.file = f => d.at = "armed" /\ d.id = pending[k]
      BY <1>1, <1>3, <1>5, <2>2, CrossingFacts DEF Timers, Single
    <3>2. \A d \in callbacks' : d.file = f => d = c
      BY <1>2, <3>1
    <3>3. c \in callbacks' /\ c.file = f /\ c.previousHash = hashes[k] /\ c.at = "armed"
      BY <1>2, <2>2
    <3>4. Compared(f)'
      BY <1>2, <2>2, <3>2, <3>3 DEF Compared
    <3> QED
      BY <1>1, <1>2, <1>5, <2>2, <3>4, OwnFile
  <2> QED
    BY <2>1, <2>2
<1> QED
  BY <1>2, <1>3, <1>5 DEF Reported, Present

LEMMA DeletedReported ==
    ASSUME DetectionTyped, Timers, Reported, Deleted PROVE Reported'
<1> DEFINE g == Current.file
           others == Crossing(g) \cup Amiss(g)
<1>1. sweep > 0 /\ g \in Files /\ CwdKey[g] \in Keys /\ hashes \in [Keys -> Hashes]
  BY CurrentFacts, KeyFacts DEF Deleted, DetectionTyped, Queueing, HashesTyped
<1>2. /\ Advance(others) /\ others \in SUBSET Files /\ timer' = timer
      /\ UNCHANGED <<disk, known, dirty, watching, callbacks>>
      /\ hashes' = [hashes EXCEPT ![CwdKey[g]] = Absent] /\ Current.type = "unlink"
  BY <1>1, CrossingFacts DEF Deleted, diskVars
<1>3. excused \subseteq excused' /\ Amiss(g) \subseteq excused'
  BY <1>1, <1>2, AdvanceKeeps DEF DetectionTyped, DiskTyped
<1>4. ASSUME NEW f \in Files \ excused', Tracked(f), UpToDate(f) PROVE Tracked(f)' /\ UpToDate(f)'
  <2>1. f \notin Amiss(g)
    BY <1>3, <1>4
  <2>2. CASE f # g
    <3>1. Key[f] # CwdKey[g]
      BY <1>1, <1>3, <1>4, <2>1, <2>2, Ready, OwnKey DEF Amiss
    <3>2. hashes'[Key[f]] = hashes[Key[f]]
      BY <1>1, <1>2, <3>1, KeyFacts
    <3> QED
      BY <1>1, <1>2, <1>4, <2>2, <3>2, OtherFiles
  <2>3. CASE f = g
    <3>1. Key[f] = CwdKey[g]
      BY <1>1, <2>1, <2>3 DEF Amiss
    <3>2. hashes'[Key[f]] = Absent
      BY <1>1, <1>2, <3>1
    <3> QED
      BY <1>1, <1>2, <1>4, <2>3, <3>2, OwnFile
  <2> QED
    BY <2>2, <2>3
<1> QED
  BY <1>2, <1>3, <1>4 DEF Reported, Present

LEMMA ReportedStep ==
    DetectionTyped /\ Timers /\ Reported /\ [DetectionNext]_detectionVars => Reported'
<1> SUFFICES ASSUME DetectionTyped, Timers, Reported, [DetectionNext]_detectionVars PROVE Reported'
  OBVIOUS
<1>1. CASE UNCHANGED detectionVars
  BY <1>1, Untouched DEF detectionVars, diskVars, queueVars, hashVars, Reported, Present
<1>2. CASE DetectionNext
  BY <1>2, TraverseStopReported, WatchReported, ChangeReported, SweepReported, ReadInfoReported, NoticeReported,
     FlyingReported, CompareReported, AddedReported, ChangedReported, DeletedReported
     DEF DetectionNext, Process, Settle
<1> QED
  BY <1>1, <1>2

LEMMA QuietAgrees == DetectionTyped /\ Reported => Agreement
<1> SUFFICES ASSUME DetectionTyped, Reported, watching = "yes", Quiet, NEW f \in Files \ excused
             PROVE  hashes[Key[f]] = disk[f]
  BY DEF Agreement
<1>1. Tracked(f) /\ UpToDate(f)
  BY DEF Reported
<1>2. Waiting(f) = {}
  <2>1. events[RootOf[f]] = <<>>
    BY KeyFacts DEF Quiet, DetectionTyped, Queueing, Swept
  <2> QED
    BY <2>1 DEF Waiting, Places
<1>3. CASE f \in known
  BY <1>1, <1>2, <1>3 DEF UpToDate, Compared, Quiet
<1>4. CASE f \notin known
  BY <1>1, <1>2, <1>4 DEF Tracked, Quiet
<1> QED
  BY <1>3, <1>4

\* Once the queue is empty, the callbacks have ended and the watcher has told
\* everything, what the listeners were told of a file is what the disk holds,
\* unless one of the races, drops and failures counted in excused befell it.
THEOREM ReportsAgree == DetectionSpec => []Agreement
<1>1. DetectionInit => DetectionTyped /\ Timers /\ Reported
  BY DetectionStarts, ReportedStarts
<1>2. DetectionTyped /\ Timers /\ Reported /\ [DetectionNext]_detectionVars => (DetectionTyped /\ Timers /\ Reported)'
  BY DetectionTypesStep, TimersStep, ReportedStep
<1> QED
  BY <1>1, <1>2, QuietAgrees, PTL DEF DetectionSpec
=============================================================================
