-------------------- MODULE TransactionCoordinatorProofs --------------------
(***************************************************************************)
(* Proofs about TransactionCoordinator, for any set of calls, any number   *)
(* of steps, with and without cancels and failing compensations.           *)
(***************************************************************************)
EXTENDS TransactionCoordinator, TLAPS

-----------------------------------------------------------------------------
(* Data *)

\* A plan is a sequence of flags no longer than the bound.
LEMMA PlanFacts ==
    ASSUME NEW p \in Plans
    PROVE  /\ DOMAIN p = 1..Len(p)
           /\ Len(p) \in 0..MaxSteps
           /\ p \in Seq(BOOLEAN)
  BY MaxStepsAssumption DEF Plans

\* Pushing to the history records one more transaction.
LEMMA PushRecords ==
    ASSUME history \in Seq(Tx), NEW t \in Tx, history' = Append(history, t)
    PROVE  /\ history' \in Seq(Tx)
           /\ Recorded' = Recorded \cup {t}
  BY DEF Recorded

\* A transaction pushed for the first time is recorded once.
LEMMA PushDistinct ==
    ASSUME history \in Seq(Tx), NEW t \in Tx, history' = Append(history, t), target' = target,
           Uncancelled(t) => t \notin Recorded, RecordedOnce
    PROVE  RecordedOnce'
  <1>1. /\ DOMAIN history = 1..Len(history) /\ Len(history) \in Nat
        /\ DOMAIN history' = 1..(Len(history) + 1)
        /\ history'[Len(history) + 1] = t
        /\ \A j \in DOMAIN history : history'[j] = history[j]
    OBVIOUS
  <1> DEFINE Free(u) == \A c \in Cancels : target[c] # u
  <1>2. \A j, k \in DOMAIN history : history[j] = history[k] /\ Free(history[j]) => j = k
    BY DEF RecordedOnce, Uncancelled
  <1>3. \A j \in DOMAIN history : ~(history[j] = t /\ Free(t))
    BY DEF Recorded, Uncancelled
  <1>4. ASSUME NEW j \in DOMAIN history', NEW k \in DOMAIN history',
               history'[j] = history'[k], Free(history'[j])
        PROVE  j = k
    <2> HIDE DEF Free
    <2>1. CASE j \in DOMAIN history /\ k \in DOMAIN history
      BY <1>1, <1>2, <1>4, <2>1
    <2>2. CASE j \in DOMAIN history /\ k = Len(history) + 1
      BY <1>1, <1>3, <1>4, <2>2
    <2>3. CASE j = Len(history) + 1 /\ k \in DOMAIN history
      BY <1>1, <1>3, <1>4, <2>3
    <2> QED
      BY <1>1, <2>1, <2>2, <2>3
  <1> QED
    BY <1>4 DEF RecordedOnce, Uncancelled

-----------------------------------------------------------------------------
(* Frames *)

\* Call u keeps what is known of it when its own fields stay, whoever
\* compensates its steps or records it.
LEMMA CallFrame ==
    ASSUME NEW u \in Tx, CallInv(u),
           plan'[u] = plan[u], executed'[u] = executed[u], pc'[u] = pc[u],
           at'[u] = at[u], target'[u] = target[u], result'[u] = result[u],
           tried[u] \subseteq tried'[u],
           tried'[u] = tried[u] \/ CancelCame(u)',
           CancelCame(u) => CancelCame(u)',
           pc[u] = "new" => /\ compensated'[u] = {} /\ tried'[u] = {}
                            /\ status'[u] = status[u]
                            /\ u \notin active' \cup Recorded',
           u \in active \cup Recorded => u \in active' \cup Recorded',
           u \in Recorded \ active => u \in Recorded' \ active'
    PROVE  CallInv(u)'
  BY DEF CallInv

LEMMA AloneFrame ==
    ASSUME NEW u \in Tx, AloneInv(u),
           status'[u] = status[u], compensated'[u] = compensated[u],
           u \in active' <=> u \in active, u \in Recorded' <=> u \in Recorded,
           pc'[u] = pc[u], at'[u] = at[u], result'[u] = result[u]
    PROVE  AloneInv(u)'
  BY DEF AloneInv

\* What a waiting or finished cancel relies on in its transaction.
LEMMA CancelFrame ==
    ASSUME NEW c \in Cancels, CancelInv(c),
           pc'[c] = pc[c], at'[c] = at[c], target'[c] = target[c], result'[c] = result[c],
           Known(c) => /\ plan'[target[c]] = plan[target[c]]
                       /\ executed[target[c]] \subseteq executed'[target[c]]
                       /\ pc'[target[c]] # "new"
                       /\ target[c] \in Recorded \ active => target[c] \in Recorded' \ active'
    PROVE  CancelInv(c)'
  BY DEF CancelInv, Known

-----------------------------------------------------------------------------
(* The invariant is inductive. *)

LEMMA InitInv == Init => IndInv
  <1> SUFFICES ASSUME Init PROVE IndInv
    OBVIOUS
  <1>1. <<>> \in Plans
    BY MaxStepsAssumption DEF Plans
  <1>2. TypeOK
    BY <1>1, MaxStepsAssumption DEF Init, TypeOK, Status, Calls
  <1>3. ASSUME NEW t \in Tx PROVE CallInv(t) /\ AloneInv(t)
    <2>1. Recorded = {}
      BY DEF Init, Recorded
    <2>2. /\ plan[t] = <<>> /\ executed[t] = {} /\ compensated[t] = {} /\ tried[t] = {}
          /\ status[t] = "none" /\ active = {}
          /\ pc[t] = "new" /\ target[t] = t /\ result[t] = "none"
      BY DEF Init, Calls
    <2> QED
      BY <2>1, <2>2 DEF CallInv, AloneInv
  <1>4. \A c \in Cancels : CancelInv(c)
    BY DEF Init, CancelInv, Calls, Known
  <1>5. RecordedOnce
    BY DEF Init, RecordedOnce
  <1> QED
    BY <1>2, <1>3, <1>4, <1>5 DEF IndInv

\* A step of call t touches nothing of the other calls.
OnlyCall(t) ==
    /\ \A u \in Tx \ {t} : /\ plan'[u] = plan[u] /\ status'[u] = status[u]
                           /\ executed'[u] = executed[u] /\ compensated'[u] = compensated[u]
                           /\ tried'[u] = tried[u]
    /\ \A c \in Calls \ {t} : pc'[c] = pc[c] /\ at'[c] = at[c] /\ result'[c] = result[c]
    /\ target' = target
    /\ active' \ {t} = active \ {t}
    /\ Recorded' \ {t} = Recorded \ {t}

\* So no cancel comes or goes with it.
LEMMA CameStays ==
    ASSUME NEW t \in Tx, OnlyCall(t), NEW u \in Tx
    PROVE  CancelCame(u)' = CancelCame(u) /\ Uncancelled(u)' = Uncancelled(u)
  <1>1. \A c \in Cancels : c # t /\ c \in Calls
    BY CallsAssumption DEF Calls
  <1>2. target' = target /\ \A c \in Cancels : pc'[c] = pc[c] /\ result'[c] = result[c]
    BY <1>1 DEF OnlyCall
  <1>3. CancelCame(u)' = CancelCame(u)
    BY <1>2 DEF CancelCame
  <1>4. Uncancelled(u)' = Uncancelled(u)
    BY <1>2 DEF Uncancelled
  <1> QED
    BY <1>3, <1>4

LEMMA OthersKept ==
    ASSUME IndInv, NEW t \in Tx, OnlyCall(t),
           pc[t] # "new" => plan'[t] = plan[t] /\ executed[t] \subseteq executed'[t] /\ pc'[t] # "new",
           t \in Recorded \ active => t \in Recorded' \ active',
           TypeOK', CallInv(t)', RecordedOnce',
           Uncancelled(t) => AloneInv(t)'
    PROVE  IndInv'
  <1>1. \A u \in Tx \ {t} : CallInv(u)'
    <2> SUFFICES ASSUME NEW u \in Tx \ {t} PROVE CallInv(u)'
      OBVIOUS
    <2>1. /\ plan'[u] = plan[u] /\ status'[u] = status[u] /\ executed'[u] = executed[u]
          /\ compensated'[u] = compensated[u] /\ pc'[u] = pc[u] /\ at'[u] = at[u]
          /\ target'[u] = target[u] /\ result'[u] = result[u] /\ tried'[u] = tried[u]
      BY DEF OnlyCall, Calls
    <2>2. CallInv(u) /\ (pc[u] = "new" => /\ compensated[u] = {} /\ tried[u] = {}
                                         /\ u \notin active \cup Recorded)
      BY DEF IndInv, CallInv
    <2>3. (u \in active' <=> u \in active) /\ (u \in Recorded' <=> u \in Recorded)
      BY DEF OnlyCall
    <2> QED
      BY <2>1, <2>2, <2>3, CallFrame, CameStays
  <1>2. \A u \in Tx \ {t} : Uncancelled(u) => AloneInv(u)'
    <2> SUFFICES ASSUME NEW u \in Tx \ {t}, Uncancelled(u) PROVE AloneInv(u)'
      OBVIOUS
    <2>1. /\ status'[u] = status[u] /\ compensated'[u] = compensated[u]
          /\ pc'[u] = pc[u] /\ at'[u] = at[u] /\ result'[u] = result[u]
      BY DEF OnlyCall, Calls
    <2>2. AloneInv(u)
      BY DEF IndInv
    <2>3. (u \in active' <=> u \in active) /\ (u \in Recorded' <=> u \in Recorded)
      BY DEF OnlyCall
    <2> QED
      BY <2>1, <2>2, <2>3, AloneFrame
  <1>3. \A c \in Cancels : CancelInv(c)'
    <2> SUFFICES ASSUME NEW c \in Cancels PROVE CancelInv(c)'
      OBVIOUS
    <2>1. c # t /\ c \in Calls /\ target[c] \in Tx
      BY CallsAssumption DEF IndInv, TypeOK, Calls
    <2>2. pc'[c] = pc[c] /\ at'[c] = at[c] /\ target'[c] = target[c] /\ result'[c] = result[c]
      BY <2>1 DEF OnlyCall
    <2>3. Known(c) => /\ plan'[target[c]] = plan[target[c]]
                      /\ executed[target[c]] \subseteq executed'[target[c]]
                      /\ pc'[target[c]] # "new"
                      /\ target[c] \in Recorded \ active => target[c] \in Recorded' \ active'
      <3>1. CASE target[c] = t
        BY <2>1, <3>1 DEF Known
      <3>2. CASE target[c] # t
        BY <2>1, <3>2 DEF OnlyCall, Known, Calls
      <3> QED BY <3>1, <3>2
    <2> QED
      BY <2>2, <2>3, CancelFrame DEF IndInv
  <1> QED
    BY <1>1, <1>2, <1>3, CameStays DEF IndInv
-----------------------------------------------------------------------------
\* What the record of a running call gives the proofs below.
LEMMA RunningFacts ==
    ASSUME IndInv, NEW t \in Tx
    PROVE  /\ t \in Calls /\ target[t] = t /\ CallInv(t)
           /\ plan[t] \in Plans /\ DOMAIN plan[t] = 1..Len(plan[t]) /\ Len(plan[t]) \in 0..MaxSteps
           /\ at[t] \in 0..MaxSteps /\ executed[t] \in SUBSET (1..MaxSteps)
           /\ compensated[t] \in SUBSET (1..MaxSteps)
           /\ tried[t] \in SUBSET (1..MaxSteps)
           /\ history \in Seq(Tx) /\ RecordedOnce
           /\ Uncancelled(t) => AloneInv(t)
  BY PlanFacts DEF IndInv, CallInv, TypeOK, Calls

\* The steps of a call touch only its own fields.
LEMMA TouchesOwn ==
    ASSUME IndInv, NEW t \in Tx,
           \/ SubmitEmpty(t) \/ (\E p \in Plans : Submit(t, p)) \/ StepDone(t)
           \/ StepFailed(t) \/ Compensate(t) \/ Settle(t)
    PROVE  OnlyCall(t)
  <1> USE DEF OnlyCall, IndInv, TypeOK
  <1>0. t \in Calls /\ target[t] = t /\ history \in Seq(Tx)
    BY RunningFacts
  <1>1. CASE SubmitEmpty(t) \/ Settle(t)
    BY <1>0, <1>1, PushRecords DEF SubmitEmpty, Settle, Archive, Return
  <1>2. CASE \E p \in Plans : Submit(t, p)
    BY <1>0, <1>2 DEF Submit, Recorded
  <1>3. CASE StepDone(t)
    <2>1. CASE at[t] < Len(plan[t])
      BY <1>0, <1>3, <2>1 DEF StepDone, Recorded
    <2>2. CASE at[t] = Len(plan[t])
      BY <1>0, <1>3, <2>2, PushRecords DEF StepDone, Archive, Return
    <2> QED
      BY <1>3, <2>1, <2>2 DEF StepDone
  <1>4. CASE StepFailed(t)
    BY <1>0, <1>4 DEF StepFailed, Walk, Recorded
  <1>5. CASE Compensate(t)
    BY <1>0, <1>5 DEF Compensate, Walk, Recorded
  <1> QED
    BY <1>1, <1>2, <1>3, <1>4, <1>5

\* What Walk does: the walk stops at the last owed step, or is over.
LEMMA WalkFacts ==
    ASSUME TypeOK, NEW c \in Calls, NEW k \in Nat, Walk(c, k)
    PROVE  \E i \in 0..MaxSteps :
              /\ at' = [at EXCEPT ![c] = i]
              /\ \/ /\ i \in Owed(target[c], k) /\ \A j \in Owed(target[c], k) : j <= i
                    /\ pc' = [pc EXCEPT ![c] = "undo"]
                 \/ /\ i = 0 /\ Owed(target[c], k) = {}
                    /\ pc' = [pc EXCEPT ![c] = "settle"]
  <1>1. \A j \in Owed(target[c], k) : j # 0
    BY DEF TypeOK, Owed
  <1> QED
    BY <1>1 DEF Walk

LEMMA SubmitEmptyInv == ASSUME IndInv, NEW t \in Tx, SubmitEmpty(t) PROVE IndInv'
  <1>0. /\ pc[t] = "new" /\ t \in Calls /\ CallInv(t) /\ history \in Seq(Tx)
        /\ plan[t] = <<>> /\ executed[t] = {} /\ compensated[t] = {} /\ tried[t] = {}
        /\ t \notin Recorded
        /\ history' \in Seq(Tx) /\ Recorded' = Recorded \cup {t}
        /\ RecordedOnce'
    BY RunningFacts, PushRecords, PushDistinct DEF SubmitEmpty, Archive, CallInv
  <1>1. /\ status'[t] = "completed" /\ active' = active \ {t}
        /\ pc'[t] = "done" /\ at'[t] = 0 /\ executed'[t] = {} /\ compensated'[t] = {}
        /\ tried'[t] = {} /\ target'[t] = t /\ result'[t] = "success" /\ plan'[t] = <<>>
    BY <1>0 DEF SubmitEmpty, Archive, Return, IndInv, TypeOK, CallInv
  <1>2. OnlyCall(t)
    BY TouchesOwn
  <1>3. TypeOK'
    BY <1>0, MaxStepsAssumption DEF SubmitEmpty, Archive, Return, IndInv, TypeOK, Status
  <1>4. CallInv(t)'
    BY <1>0, <1>1 DEF CallInv
  <1>5. AloneInv(t)'
    BY <1>0, <1>1 DEF AloneInv
  <1> QED
    BY <1>0, <1>1, <1>2, <1>3, <1>4, <1>5, OthersKept DEF IndInv

LEMMA SubmitInv == ASSUME IndInv, NEW t \in Tx, NEW p \in Plans, Submit(t, p) PROVE IndInv'
  <1>0. /\ pc[t] = "new" /\ t \in Calls /\ CallInv(t) /\ history \in Seq(Tx)
        /\ p # <<>> /\ DOMAIN p = 1..Len(p) /\ Len(p) \in 1..MaxSteps
        /\ Recorded' = Recorded
    <2>1. Len(p) # 0
      BY PlanFacts DEF Submit
    <2> QED
      BY <2>1, RunningFacts, PlanFacts DEF Submit, Recorded
  <1>1. /\ plan'[t] = p /\ status'[t] = "executing" /\ active' = active \cup {t}
        /\ pc'[t] = "step" /\ at'[t] = 1 /\ executed'[t] = {} /\ compensated'[t] = {}
        /\ tried'[t] = {} /\ target'[t] = t /\ result'[t] = "none" /\ t \notin Recorded
    BY <1>0 DEF Submit, IndInv, TypeOK, CallInv
  <1>2. OnlyCall(t)
    BY TouchesOwn
  <1>3. TypeOK'
    BY <1>0, MaxStepsAssumption DEF Submit, IndInv, TypeOK, Status
  <1>4. CallInv(t)'
    BY <1>0, <1>1 DEF CallInv
  <1>5. AloneInv(t)' /\ RecordedOnce'
    BY <1>0, <1>1 DEF AloneInv, Submit, RecordedOnce, Uncancelled, IndInv
  <1> QED
    BY <1>0, <1>1, <1>2, <1>3, <1>4, <1>5, OthersKept DEF IndInv

LEMMA StepDoneInv == ASSUME IndInv, NEW t \in Tx, StepDone(t) PROVE IndInv'
  <1>0. /\ pc[t] = "step" /\ t \in Calls /\ CallInv(t) /\ history \in Seq(Tx) /\ target'[t] = t
        /\ DOMAIN plan[t] = 1..Len(plan[t]) /\ Len(plan[t]) \in 0..MaxSteps
        /\ at[t] \in 1..Len(plan[t]) /\ executed[t] = 1..(at[t] - 1)
        /\ plan'[t] = plan[t] /\ compensated'[t] = compensated[t] /\ tried' = tried
    BY RunningFacts DEF StepDone, CallInv
  <1>1. /\ executed' = [executed EXCEPT ![t] = @ \cup {at[t]}]
        /\ executed'[t] = 1..at[t] /\ executed[t] \subseteq executed'[t]
    BY <1>0, MaxStepsAssumption DEF StepDone, IndInv, TypeOK
  <1>2. CancelCame(t)' = CancelCame(t)
    <2>1. OnlyCall(t)
      BY TouchesOwn
    <2> QED
      BY <2>1, CameStays
  <1>3. executed' \in [Tx -> SUBSET (1..MaxSteps)]
    BY <1>0, <1>1, MaxStepsAssumption DEF IndInv, TypeOK
  <1>4. CASE at[t] < Len(plan[t])
    <2>1. /\ at' = [at EXCEPT ![t] = @ + 1]
          /\ status' = status /\ active' = active /\ history' = history
          /\ pc' = pc /\ result' = result /\ plan' = plan
          /\ compensated' = compensated /\ target' = target
      BY <1>0, <1>4 DEF StepDone
    <2>2. at'[t] = at[t] + 1 /\ Recorded' = Recorded
      BY <1>0, <2>1 DEF IndInv, TypeOK, Recorded
    <2>3. OnlyCall(t)
      BY TouchesOwn
    <2>4. at' \in [Calls -> 0..MaxSteps]
      BY <1>0, <1>4, <2>1, MaxStepsAssumption DEF IndInv, TypeOK
    <2>5. TypeOK'
      BY <1>0, <1>3, <2>1, <2>4 DEF IndInv, TypeOK
    <2>6. CallInv(t)'
      BY <1>0, <1>1, <1>2, <1>4, <2>1, <2>2, MaxStepsAssumption DEF CallInv
    <2>7. RecordedOnce' /\ (Uncancelled(t) => AloneInv(t)')
      BY <1>0, <2>1, <2>2, RunningFacts DEF AloneInv, RecordedOnce, Uncancelled
    <2> QED
      BY <1>0, <1>1, <2>1, <2>2, <2>3, <2>5, <2>6, <2>7, OthersKept
  <1>5. CASE at[t] = Len(plan[t])
    <2>1. /\ Archive(t, "completed") /\ Return(t, "success") /\ plan' = plan
          /\ compensated' = compensated /\ target' = target
      BY <1>0, <1>5 DEF StepDone
    <2>2. /\ history' \in Seq(Tx) /\ Recorded' = Recorded \cup {t}
          /\ (Uncancelled(t) => t \notin Recorded) => RecordedOnce'
      BY <1>0, <2>1, RunningFacts, PushRecords, PushDistinct DEF Archive
    <2>3. /\ at'[t] = 0 /\ pc'[t] = "done" /\ result'[t] = "success"
          /\ status'[t] = "completed" /\ active' = active \ {t}
      BY <1>0, <2>1 DEF Archive, Return, IndInv, TypeOK
    <2>4. OnlyCall(t)
      BY TouchesOwn
    <2>5. TypeOK'
      BY <1>0, <1>3, <2>1, <2>2, MaxStepsAssumption DEF Archive, Return, IndInv, TypeOK, Status
    <2>6. CallInv(t)'
      BY <1>0, <1>1, <1>2, <1>5, <2>2, <2>3, MaxStepsAssumption DEF CallInv
    <2>7. RecordedOnce' /\ (Uncancelled(t) => AloneInv(t)')
      BY <1>0, <2>2, <2>3, RunningFacts DEF AloneInv
    <2> QED
      BY <1>0, <1>1, <2>2, <2>3, <2>4, <2>5, <2>6, <2>7, OthersKept
  <1> QED
    BY <1>0, <1>4, <1>5

LEMMA StepFailedInv == ASSUME IndInv, NEW t \in Tx, StepFailed(t) PROVE IndInv'
  <1>0. /\ pc[t] = "step" /\ t \in Calls /\ CallInv(t) /\ target[t] = t /\ target' = target
        /\ DOMAIN plan[t] = 1..Len(plan[t]) /\ Len(plan[t]) \in 0..MaxSteps
        /\ at[t] \in 1..Len(plan[t]) /\ executed[t] = 1..(at[t] - 1)
        /\ plan' = plan /\ compensated' = compensated /\ tried' = tried /\ active' = active
        /\ history' = history /\ result' = result
    BY RunningFacts DEF StepFailed, CallInv
  <1>1. executed'[t] = executed[t] /\ executed' = executed
    BY <1>0, MaxStepsAssumption DEF StepFailed, IndInv, TypeOK
  <1>2. status' = [status EXCEPT ![t] = "compensating"] /\ Recorded' = Recorded
    BY <1>0 DEF StepFailed, Recorded
  <1>3. PICK i \in 0..MaxSteps :
              /\ at' = [at EXCEPT ![t] = i]
              /\ \/ /\ i \in Owed(t, Len(plan[t])) /\ \A j \in Owed(t, Len(plan[t])) : j <= i
                    /\ pc' = [pc EXCEPT ![t] = "undo"]
                 \/ /\ i = 0 /\ Owed(t, Len(plan[t])) = {}
                    /\ pc' = [pc EXCEPT ![t] = "settle"]
    <2>1. TypeOK /\ Walk(t, Len(plan[t])) /\ Len(plan[t]) \in Nat
      BY <1>0 DEF StepFailed, IndInv
    <2> QED
      BY <1>0, <2>1, WalkFacts
  <1>4. /\ at'[t] = i /\ status'[t] = "compensating"
        /\ \/ pc'[t] = "undo" /\ i \in executed[t] /\ plan[t][i]
           \/ pc'[t] = "settle" /\ i = 0
        /\ \A j \in executed[t] : ~(plan[t][j] /\ i < j)
    <2>1. at'[t] = i /\ status'[t] = "compensating"
      BY <1>0, <1>2, <1>3 DEF IndInv, TypeOK
    <2>2. \/ pc'[t] = "undo" /\ i \in executed[t] /\ plan[t][i]
          \/ pc'[t] = "settle" /\ i = 0
      BY <1>0, <1>3 DEF IndInv, TypeOK, Owed
    <2>3. \A j \in executed[t] : plan[t][j] => j \in Owed(t, Len(plan[t]))
      BY <1>0 DEF Owed
    <2>4. \A j \in executed[t] : j \in Nat
      BY <1>0
    <2> QED
      BY <1>3, <2>1, <2>2, <2>3, <2>4
  <1>5. OnlyCall(t)
    BY TouchesOwn
  <1>6. TypeOK'
    <2>1. at' \in [Calls -> 0..MaxSteps]
      BY <1>3 DEF IndInv, TypeOK
    <2>2. pc' \in [Calls -> {"new", "step", "undo", "settle", "done"}]
      BY <1>3 DEF IndInv, TypeOK
    <2>3. status' \in [Tx -> Status]
      BY <1>2 DEF IndInv, TypeOK, Status
    <2> QED
      BY <1>0, <1>1, <2>1, <2>2, <2>3 DEF IndInv, TypeOK
  <1>7. CallInv(t)'
    BY <1>0, <1>1, <1>2, <1>4 DEF CallInv
  <1>8. RecordedOnce' /\ (Uncancelled(t) => AloneInv(t)')
    BY <1>0, <1>1, <1>2, <1>4, RunningFacts DEF AloneInv, RecordedOnce, Uncancelled
  <1> QED
    BY <1>0, <1>1, <1>2, <1>4, <1>5, <1>6, <1>7, <1>8, OthersKept

LEMMA CompensateCallInv == ASSUME IndInv, NEW t \in Tx, Compensate(t) PROVE IndInv'
  <1>0. /\ pc[t] = "undo" /\ t \in Calls /\ CallInv(t) /\ target[t] = t /\ target' = target
        /\ at[t] \in executed[t] /\ plan[t][at[t]] /\ executed[t] \in SUBSET (1..MaxSteps)
        /\ plan' = plan /\ active' = active /\ status' = status /\ executed' = executed
        /\ history' = history /\ result' = result /\ Recorded' = Recorded
    BY RunningFacts DEF Compensate, CallInv, Recorded
  <1>1. /\ compensated' \in [Tx -> SUBSET (1..MaxSteps)]
        /\ \A u \in Tx \ {t} : compensated'[u] = compensated[u]
        /\ compensated[t] \subseteq compensated'[t]
        /\ compensated'[t] \subseteq compensated[t] \cup {at[t]}
        /\ tried' \in [Tx -> SUBSET (1..MaxSteps)] /\ tried'[t] = tried[t] \cup {at[t]}
    <2>0. /\ tried' \in [Tx -> SUBSET (1..MaxSteps)] /\ tried'[t] = tried[t] \cup {at[t]}
      BY <1>0 DEF Compensate, IndInv, TypeOK
    <2>1. compensated \in [Tx -> SUBSET (1..MaxSteps)] /\ at[t] \in 1..MaxSteps
      BY <1>0 DEF IndInv, TypeOK
    <2>2. CASE compensated' = [compensated EXCEPT ![t] = @ \cup {at[t]}]
      BY <1>0, <2>0, <2>1, <2>2
    <2>3. CASE CompensationMayFail /\ compensated' = compensated
      BY <1>0, <2>0, <2>1, <2>3
    <2> QED
      BY <1>0, <2>2, <2>3 DEF Compensate
  <1>2. at[t] - 1 \in 0..MaxSteps
    BY <1>0, MaxStepsAssumption
  <1>3. PICK i \in 0..MaxSteps :
              /\ at' = [at EXCEPT ![t] = i]
              /\ \/ /\ i \in Owed(t, at[t] - 1) /\ \A j \in Owed(t, at[t] - 1) : j <= i
                    /\ pc' = [pc EXCEPT ![t] = "undo"]
                 \/ /\ i = 0 /\ Owed(t, at[t] - 1) = {}
                    /\ pc' = [pc EXCEPT ![t] = "settle"]
    BY <1>0, <1>2, WalkFacts, MaxStepsAssumption DEF Compensate, IndInv
  <1>4. /\ at'[t] = i /\ i < at[t]
        /\ \/ pc'[t] = "undo" /\ i \in executed[t] /\ plan[t][i]
           \/ pc'[t] = "settle" /\ i = 0
        /\ \A j \in executed[t] : plan[t][j] /\ i < j => at[t] <= j
    BY <1>0, <1>2, <1>3, MaxStepsAssumption DEF IndInv, TypeOK, Owed
  <1>5. OnlyCall(t)
    BY TouchesOwn
  <1>6. TypeOK'
    <2>1. at' \in [Calls -> 0..MaxSteps]
      BY <1>3 DEF IndInv, TypeOK
    <2>2. pc' \in [Calls -> {"new", "step", "undo", "settle", "done"}]
      BY <1>3 DEF IndInv, TypeOK
    <2> QED
      BY <1>0, <1>1, <2>1, <2>2 DEF IndInv, TypeOK
  <1>7. CallInv(t)'
    <2>1. ASSUME NEW j \in executed[t], plan[t][j], i < j
          PROVE  j \in tried'[t]
      <3>1. CASE j = at[t]
        BY <1>1, <2>1, <3>1
      <3>2. CASE j # at[t]
        <4>1. at[t] < j
          BY <1>0, <1>4, <2>1, <3>2
        <4> QED
          BY <1>0, <1>1, <2>1, <4>1 DEF CallInv
      <3> QED BY <3>1, <3>2
    <2>2. result[t] = "none"
      BY <1>0 DEF CallInv
    <2> QED
      BY <1>0, <1>1, <1>4, <2>1, <2>2 DEF CallInv
  <1>8. RecordedOnce' /\ (Uncancelled(t) => AloneInv(t)')
    <2>1. RecordedOnce'
      BY <1>0, RunningFacts DEF RecordedOnce, Uncancelled
    <2>2. AloneInv(t) => \A j \in compensated'[t] : i < j
      BY <1>0, <1>1, <1>4, RunningFacts DEF AloneInv
    <2> QED
      BY <1>0, <1>4, <2>1, <2>2, RunningFacts DEF AloneInv
  <1> QED
    BY <1>0, <1>4, <1>5, <1>6, <1>7, <1>8, OthersKept

LEMMA SettleInv == ASSUME IndInv, NEW t \in Tx, Settle(t) PROVE IndInv'
  <1>0. /\ pc[t] = "settle" /\ t \in Calls /\ CallInv(t) /\ history \in Seq(Tx)
        /\ executed[t] \in SUBSET (1..MaxSteps) /\ target[t] = t
        /\ Archive(t, "failed") /\ Return(t, "failure")
        /\ plan' = plan /\ executed' = executed /\ compensated' = compensated /\ target' = target
        /\ tried' = tried
    BY RunningFacts DEF Settle
  <1>1. /\ history' \in Seq(Tx) /\ Recorded' = Recorded \cup {t}
        /\ (Uncancelled(t) => t \notin Recorded) => RecordedOnce'
    BY <1>0, RunningFacts, PushRecords, PushDistinct DEF Archive
  <1>2. /\ at'[t] = 0 /\ pc'[t] = "done" /\ result'[t] = "failure"
        /\ status'[t] = "failed" /\ active' = active \ {t}
    BY <1>0 DEF Archive, Return, IndInv, TypeOK
  <1>3. OnlyCall(t)
    BY TouchesOwn
  <1>4. TypeOK'
    BY <1>0, <1>1, MaxStepsAssumption DEF Archive, Return, IndInv, TypeOK, Status
  <1>5. CallInv(t)'
    BY <1>0, <1>1, <1>2 DEF CallInv
  <1>6. RecordedOnce' /\ (Uncancelled(t) => AloneInv(t)')
    BY <1>0, <1>1, <1>2, RunningFacts DEF AloneInv
  <1> QED
    BY <1>0, <1>1, <1>2, <1>3, <1>4, <1>5, <1>6, OthersKept

-----------------------------------------------------------------------------
(* Steps of a cancel *)

\* A step of cancel c may compensate and record its transaction, no more, and
\* not without having come.
OnlyCancel(c) ==
    /\ plan' = plan /\ executed' = executed /\ target' = target
    /\ \A d \in Calls \ {c} : pc'[d] = pc[d] /\ at'[d] = at[d] /\ result'[d] = result[d]
    /\ \A u \in Tx \ {target[c]} : /\ compensated'[u] = compensated[u] /\ tried'[u] = tried[u]
                                   /\ status'[u] = status[u]
                                   /\ u \in active' <=> u \in active
                                   /\ u \in Recorded' <=> u \in Recorded
    /\ tried[target[c]] \subseteq tried'[target[c]]
    /\ active' \subseteq active /\ Recorded \subseteq Recorded'
    /\ active \cup Recorded \subseteq active' \cup Recorded'
    /\ \/ pc[c] # "new" /\ result[c] # "false"
       \/ tried'[target[c]] # tried[target[c]]
       => pc'[c] # "new" /\ result'[c] # "false"

LEMMA CancelKept ==
    ASSUME IndInv, NEW c \in Cancels, OnlyCancel(c), Known(c), TypeOK', CancelInv(c)',
           RecordedOnce'
    PROVE  IndInv'
  <1>0. c \in Calls /\ target[c] \in Tx /\ c \notin Tx /\ pc[target[c]] # "new"
    BY CallsAssumption DEF IndInv, TypeOK, Calls, Known
  <1>1. ASSUME NEW u \in Tx PROVE CallInv(u)' /\ (Uncancelled(u)' => AloneInv(u)')
    <2>1. /\ plan'[u] = plan[u] /\ executed'[u] = executed[u] /\ pc'[u] = pc[u]
          /\ at'[u] = at[u] /\ target'[u] = target[u] /\ result'[u] = result[u]
          /\ tried[u] \subseteq tried'[u]
          /\ u \in active \cup Recorded => u \in active' \cup Recorded'
          /\ u \in Recorded \ active => u \in Recorded' \ active'
      BY <1>0 DEF OnlyCancel, Calls
    <2>2. pc[u] = "new" => /\ compensated'[u] = {} /\ tried'[u] = {} /\ status'[u] = status[u]
                           /\ u \notin active' \cup Recorded'
      BY <1>0 DEF OnlyCancel, IndInv, CallInv
    <2>3. tried'[u] = tried[u] \/ CancelCame(u)'
      BY <1>0 DEF OnlyCancel, CancelCame
    <2>4. CancelCame(u) => CancelCame(u)'
      <3>1. ASSUME NEW d \in Cancels, target[d] = u, pc[d] # "new", result[d] # "false"
            PROVE  target'[d] = u /\ pc'[d] # "new" /\ result'[d] # "false"
        <4>1. d \in Calls
          BY DEF Calls
        <4> QED
          BY <1>0, <3>1, <4>1 DEF OnlyCancel
      <3> QED
        BY <3>1 DEF CancelCame
    <2>5. CallInv(u)'
      BY <2>1, <2>2, <2>3, <2>4, CallFrame DEF IndInv
    <2>6. ASSUME Uncancelled(u)' PROVE AloneInv(u)'
      <3>1. Uncancelled(u) /\ u # target[c]
        BY <2>6 DEF Uncancelled, OnlyCancel
      <3>2. AloneInv(u)
        BY <3>1 DEF IndInv
      <3>3. /\ status'[u] = status[u] /\ compensated'[u] = compensated[u]
            /\ u \in active' <=> u \in active
            /\ u \in Recorded' <=> u \in Recorded
        BY <3>1 DEF OnlyCancel
      <3> QED
        BY <2>1, <3>2, <3>3, AloneFrame
    <2> QED
      BY <2>5, <2>6
  <1>2. ASSUME NEW d \in Cancels PROVE CancelInv(d)'
    <2>1. CASE d = c
      BY <2>1
    <2>2. CASE d # c
      <3>1. d \in Calls /\ target[d] \in Tx /\ CancelInv(d) /\ target[d] # c
        BY <1>0 DEF IndInv, TypeOK, Calls
      <3>2. pc'[d] = pc[d] /\ at'[d] = at[d] /\ target'[d] = target[d] /\ result'[d] = result[d]
        BY <2>2, <3>1 DEF OnlyCancel
      <3>3. Known(d) => /\ plan'[target[d]] = plan[target[d]]
                        /\ executed[target[d]] \subseteq executed'[target[d]]
                        /\ pc'[target[d]] # "new"
                        /\ target[d] \in Recorded \ active => target[d] \in Recorded' \ active'
        BY <3>1 DEF OnlyCancel, Known, Calls
      <3> QED
        BY <3>1, <3>2, <3>3, CancelFrame
    <2> QED
      BY <2>1, <2>2
  <1> QED
    BY <1>1, <1>2 DEF IndInv

LEMMA CancelArchiveInv ==
    ASSUME IndInv, NEW c \in Cancels, Known(c), Archive(target[c], "failed"), Return(c, "true"),
           plan' = plan, executed' = executed, compensated' = compensated, tried' = tried,
           target' = target, result[c] = "none"
    PROVE  IndInv' /\ OnlyCancel(c)
  <1>0. c \in Calls /\ target[c] \in Tx /\ c \notin Tx /\ history \in Seq(Tx)
    BY CallsAssumption DEF IndInv, TypeOK, Calls
  <1>1. /\ history' \in Seq(Tx) /\ Recorded' = Recorded \cup {target[c]}
        /\ active' = active \ {target[c]}
    BY <1>0, PushRecords DEF Archive
  <1>2. pc'[c] = "done" /\ result'[c] = "true" /\ RecordedOnce'
    <2>1. ~Uncancelled(target[c]) /\ RecordedOnce
      BY DEF Uncancelled, IndInv
    <2> QED
      BY <1>0, <2>1, PushDistinct DEF Return, Archive, IndInv, TypeOK
  <1>3. OnlyCancel(c)
    BY <1>0, <1>1, <1>2 DEF OnlyCancel, Archive, Return, IndInv, TypeOK
  <1>4. TypeOK'
    BY <1>0, <1>1, MaxStepsAssumption DEF Archive, Return, IndInv, TypeOK, Status
  <1>5. CancelInv(c)'
    BY <1>0, <1>1, <1>2 DEF CancelInv, Known, IndInv, TypeOK, Calls, Return
  <1> QED
    BY <1>2, <1>3, <1>4, <1>5, CancelKept

LEMMA CancelUnknownInv ==
    ASSUME IndInv, NEW c \in Cancels, CancelUnknown(c) PROVE IndInv' /\ OnlyCancel(c)
  <1>0. c \in Calls /\ target[c] \in Tx /\ c \notin Tx /\ Known(c) /\ Return(c, "false")
    BY CallsAssumption DEF IndInv, TypeOK, Calls, CancelUnknown
  <1>1. /\ plan' = plan /\ executed' = executed /\ compensated' = compensated /\ target' = target
        /\ status' = status /\ active' = active /\ history' = history /\ Recorded' = Recorded
        /\ tried' = tried /\ pc[c] = "new" /\ RecordedOnce'
    BY DEF CancelUnknown, data, Recorded, RecordedOnce, Uncancelled, IndInv
  <1>2. pc'[c] = "done" /\ result'[c] = "false"
    BY <1>0 DEF Return, IndInv, TypeOK
  <1>3. OnlyCancel(c)
    BY <1>0, <1>1 DEF OnlyCancel, Return, IndInv, TypeOK
  <1>4. TypeOK'
    BY <1>0, <1>1, MaxStepsAssumption DEF Return, IndInv, TypeOK
  <1>5. CancelInv(c)'
    BY <1>0, <1>1, <1>2 DEF CancelInv, Known, IndInv, TypeOK, Calls, Return
  <1> QED
    BY <1>0, <1>1, <1>3, <1>4, <1>5, CancelKept

\* A cancel enters or continues the walk through its transaction.
LEMMA CancelWalkInv ==
    ASSUME IndInv, NEW c \in Cancels, Known(c), NEW k \in Nat, Walk(c, k),
           result[c] = "none", plan' = plan, executed' = executed, target' = target,
           active' = active, history' = history, result' = result,
           status' \in [Tx -> Status], compensated' \in [Tx -> SUBSET (1..MaxSteps)],
           tried' \in [Tx -> SUBSET (1..MaxSteps)],
           \A u \in Tx \ {target[c]} : /\ status'[u] = status[u] /\ compensated'[u] = compensated[u]
                                       /\ tried'[u] = tried[u],
           tried[target[c]] \subseteq tried'[target[c]]
    PROVE  IndInv' /\ OnlyCancel(c)
  <1>0. c \in Calls /\ target[c] \in Tx /\ c \notin Tx /\ Recorded' = Recorded /\ TypeOK
    BY CallsAssumption DEF IndInv, TypeOK, Calls, Recorded
  <1>1. PICK i \in 0..MaxSteps :
              /\ at' = [at EXCEPT ![c] = i]
              /\ \/ /\ i \in Owed(target[c], k) /\ \A j \in Owed(target[c], k) : j <= i
                    /\ pc' = [pc EXCEPT ![c] = "undo"]
                 \/ /\ i = 0 /\ Owed(target[c], k) = {}
                    /\ pc' = [pc EXCEPT ![c] = "settle"]
    BY <1>0, WalkFacts
  <1>2. /\ at'[c] = i
        /\ \/ pc'[c] = "undo" /\ i \in executed[target[c]] /\ plan[target[c]][i]
           \/ pc'[c] = "settle"
        /\ RecordedOnce'
    BY <1>0, <1>1 DEF TypeOK, Owed, RecordedOnce, Uncancelled, IndInv
  <1>3. OnlyCancel(c)
    BY <1>0, <1>1, <1>2 DEF OnlyCancel, TypeOK
  <1>4. TypeOK'
    BY <1>0, <1>1 DEF TypeOK
  <1>5. CancelInv(c)'
    BY <1>0, <1>1, <1>2 DEF CancelInv, Known, IndInv, TypeOK, Calls
  <1> QED
    BY <1>2, <1>3, <1>4, <1>5, CancelKept

LEMMA CancelInvs ==
    ASSUME IndInv, NEW c \in Cancels,
           \/ CancelUnknown(c) \/ CancelExecuting(c) \/ CancelCompensating(c)
           \/ CancelSettle(c) \/ Compensate(c)
    PROVE  IndInv' /\ OnlyCancel(c)
  <1>0. c \in Calls /\ target[c] \in Tx /\ CancelInv(c) /\ TypeOK
    BY DEF IndInv, TypeOK, Calls
  <1>1. CASE CancelUnknown(c)
    BY <1>1, CancelUnknownInv
  <1>2. CASE CancelExecuting(c)
    <2>1. Len(plan[target[c]]) \in Nat
      BY <1>0, PlanFacts, MaxStepsAssumption DEF TypeOK
    <2>2. /\ status' \in [Tx -> Status] /\ compensated' \in [Tx -> SUBSET (1..MaxSteps)]
          /\ tried' = tried /\ tried \in [Tx -> SUBSET (1..MaxSteps)]
          /\ \A u \in Tx \ {target[c]} : status'[u] = status[u] /\ compensated'[u] = compensated[u]
          /\ result[c] = "none"
      BY <1>0, <1>2 DEF CancelExecuting, TypeOK, Status, CancelInv
    <2> QED
      BY <1>0, <1>2, <2>1, <2>2, CancelWalkInv DEF CancelExecuting
  <1>3. CASE CancelCompensating(c)
    BY <1>0, <1>3, CancelArchiveInv DEF CancelCompensating, CancelInv
  <1>4. CASE CancelSettle(c)
    BY <1>0, <1>4, CancelArchiveInv DEF CancelSettle, CancelInv
  <1>5. CASE Compensate(c)
    <2>1. pc[c] = "undo" /\ Known(c) /\ at[c] \in executed[target[c]]
      BY <1>0, <1>5 DEF Compensate, CancelInv
    <2>2. at[c] \in 1..MaxSteps /\ at[c] - 1 \in Nat
      BY <1>0, <2>1, MaxStepsAssumption DEF TypeOK
    <2>3. /\ status' \in [Tx -> Status] /\ compensated' \in [Tx -> SUBSET (1..MaxSteps)]
          /\ \A u \in Tx \ {target[c]} : status'[u] = status[u] /\ compensated'[u] = compensated[u]
          /\ result[c] = "none"
      <3>0. result[c] = "none"
        BY <1>0, <2>1 DEF CancelInv
      <3>1. CASE compensated' = [compensated EXCEPT ![target[c]] = @ \cup {at[c]}]
        BY <1>0, <1>5, <2>2, <3>0, <3>1 DEF Compensate, TypeOK
      <3>2. CASE compensated' = compensated
        BY <1>0, <1>5, <3>0, <3>2 DEF Compensate, TypeOK
      <3> QED
        BY <1>5, <3>1, <3>2 DEF Compensate
    <2>4. /\ tried' \in [Tx -> SUBSET (1..MaxSteps)]
          /\ \A u \in Tx \ {target[c]} : tried'[u] = tried[u]
          /\ tried[target[c]] \subseteq tried'[target[c]]
      BY <1>0, <1>5, <2>2 DEF Compensate, TypeOK
    <2> QED
      BY <1>5, <2>1, <2>2, <2>3, <2>4, CancelWalkInv DEF Compensate
  <1> QED
    BY <1>1, <1>2, <1>3, <1>4, <1>5

-----------------------------------------------------------------------------
(* The theorems. *)

LEMMA StutterInv == ASSUME IndInv, UNCHANGED vars PROVE IndInv'
  <1>1. /\ Recorded' = Recorded /\ TypeOK' /\ RecordedOnce'
        /\ \A t \in Tx : /\ CancelCame(t)' <=> CancelCame(t)
                         /\ Uncancelled(t)' <=> Uncancelled(t)
    BY DEF vars, Recorded, IndInv, TypeOK, RecordedOnce, CancelCame, Uncancelled
  <1>2. \A t \in Tx : CallInv(t)' /\ (AloneInv(t) => AloneInv(t)')
    BY <1>1 DEF vars, IndInv, CallInv, AloneInv
  <1>3. \A c \in Cancels : CancelInv(c)'
    BY <1>1 DEF vars, IndInv, CancelInv, Known
  <1> QED
    BY <1>1, <1>2, <1>3 DEF IndInv

LEMMA NextInv == IndInv /\ [Next]_vars => IndInv'
  <1> SUFFICES ASSUME IndInv, [Next]_vars PROVE IndInv'
    OBVIOUS
  <1>1. CASE \E t \in Tx : \/ SubmitEmpty(t) \/ (\E p \in Plans : Submit(t, p))
                           \/ StepDone(t) \/ StepFailed(t) \/ Settle(t)
    BY <1>1, SubmitEmptyInv, SubmitInv, StepDoneInv, StepFailedInv, SettleInv
  <1>2. CASE \E c \in Calls : Compensate(c)
    BY <1>2, CompensateCallInv, CancelInvs DEF Calls
  <1>3. CASE \E c \in Cancels : \/ CancelUnknown(c) \/ CancelExecuting(c)
                                \/ CancelCompensating(c) \/ CancelSettle(c)
    BY <1>3, CancelInvs
  <1>4. CASE UNCHANGED vars
    BY <1>4, StutterInv
  <1> QED
    BY <1>1, <1>2, <1>3, <1>4 DEF Next

\* The strengthened invariant holds of every reachable state of the calls and
\* cancels of TransactionCoordinator.ts.
THEOREM Invariance == Spec => []IndInv
  <1> QED
    BY InitInv, NextInv, PTL DEF Spec

\* The variables of the coordinator always have their types.
THEOREM TypeCorrect == Spec => []TypeOK
  <1>1. IndInv => TypeOK
    BY DEF IndInv
  <1> QED
    BY <1>1, Invariance, PTL

\* No transaction is lost between activeTransactions and transactionHistory,
\* with any number of racing cancels.
THEOREM NothingLost == Spec => []Kept
  <1>1. IndInv => Kept
    BY DEF IndInv, CallInv, Kept
  <1> QED
    BY <1>1, Invariance, PTL

\* What executeTransaction returns is true of the steps, with any number of
\* racing cancels and of compensations that throw: behind a reported success
\* nothing was undone unless a cancel came, behind a reported failure no
\* compensation was left out.
THEOREM Honest == Spec => []ResultIsHonest
  <1>1. IndInv => ResultIsHonest
    BY DEF IndInv, CallInv, ResultIsHonest
  <1> QED
    BY <1>1, Invariance, PTL

\* Steps are executed in order, with any number of racing cancels.
THEOREM InOrder == Spec => []ExecutedPrefix
  <1>1. IndInv => ExecutedPrefix
    BY DEF IndInv, CallInv, ExecutedPrefix
  <1> QED
    BY <1>1, Invariance, PTL

\* A cancelled transaction never comes back to activeTransactions.
THEOREM CancelFinal == Spec => []CancelTakesOut
  <1>1. IndInv => CancelTakesOut
    BY DEF IndInv, CancelInv, CancelTakesOut
  <1> QED
    BY <1>1, Invariance, PTL

\* activeTransactions and transactionHistory partition the submitted
\* transactions that nobody cancels, each recorded once.
THEOREM SingleCustody == Spec => []Custody
  <1>1. IndInv => Custody
    <2> SUFFICES ASSUME IndInv PROVE Custody
      OBVIOUS
    <2>1. RecordedOnce
      BY DEF IndInv
    <2>2. \A t \in Tx : /\ CallInv(t) /\ (Uncancelled(t) => AloneInv(t))
                       /\ pc[t] \in {"new", "step", "undo", "settle", "done"}
      BY DEF IndInv, TypeOK, Calls
    <2> QED
      BY <2>1, <2>2 DEF Custody, CallInv, AloneInv
  <1> QED
    BY <1>1, Invariance, PTL

\* A step of Next belongs to one call or to one cancel, and a cancel's step
\* leaves alone every transaction but the one it is about.
LEMMA WhoseStep ==
    ASSUME IndInv, Next
    PROVE  \/ \E u \in Tx : \/ SubmitEmpty(u) \/ (\E p \in Plans : Submit(u, p))
                            \/ StepDone(u) \/ StepFailed(u) \/ Settle(u) \/ Compensate(u)
           \/ \E c \in Cancels : OnlyCancel(c)
  <1>1. CASE \E c \in Cancels : \/ CancelUnknown(c) \/ CancelExecuting(c) \/ Compensate(c)
                                \/ CancelCompensating(c) \/ CancelSettle(c)
    BY <1>1, CancelInvs
  <1> QED
    BY <1>1 DEF Next, Calls

\* Compensation of a transaction nobody cancels goes in reverse order.
THEOREM ReverseOrder == Spec => UndoInReverse
  <1>1. IndInv /\ [Next]_vars =>
          [\A t \in Tx : Uncancelled(t) =>
              \A i \in compensated'[t] \ compensated[t] : \A j \in compensated[t] : i < j]_vars
    <2> SUFFICES ASSUME IndInv, Next, NEW t \in Tx, Uncancelled(t),
                        NEW i \in compensated'[t] \ compensated[t],
                        NEW j \in compensated[t]
                 PROVE  i < j
      BY DEF vars
    <2>1. CASE \E u \in Tx : Compensate(u)
      <3>1. PICK c \in Tx : Compensate(c)
        BY <2>1
      <3>2. compensated' = [compensated EXCEPT ![c] = @ \cup {at[c]}] \/ compensated' = compensated
        BY <3>1, RunningFacts DEF Compensate
      <3>3. t = c /\ i = at[t]
        BY <3>2 DEF IndInv, TypeOK
      <3> QED
        BY <3>1, <3>3, RunningFacts DEF Compensate, AloneInv
    <2>2. CASE \E c \in Cancels : OnlyCancel(c)
      BY <2>2 DEF OnlyCancel, Uncancelled
    <2>3. CASE \E u \in Tx : \/ SubmitEmpty(u) \/ (\E p \in Plans : Submit(u, p))
                             \/ StepDone(u) \/ StepFailed(u) \/ Settle(u)
      BY <2>3 DEF SubmitEmpty, Submit, StepDone, StepFailed, Settle
    <2> QED
      BY <2>1, <2>2, <2>3, WhoseStep
  <1> QED
    BY <1>1, Invariance, PTL DEF Spec, UndoInReverse

\* No late continuation overwrites a final status of a transaction nobody cancels.
THEOREM StatusStaysFinal == Spec => FinalStatus
  <1>1. IndInv /\ [Next]_vars =>
          [\A t \in Tx : Uncancelled(t) /\ status[t] \in {"completed", "failed"} =>
                            status'[t] = status[t]]_vars
    <2> SUFFICES ASSUME IndInv, Next, NEW t \in Tx, Uncancelled(t),
                        status[t] \in {"completed", "failed"}
                 PROVE  status'[t] = status[t]
      BY DEF vars
    <2>1. pc[t] = "done"
      BY RunningFacts DEF CallInv, AloneInv, IndInv, TypeOK, Calls
    <2>2. CASE \E u \in Tx : \/ SubmitEmpty(u) \/ (\E p \in Plans : Submit(u, p))
                             \/ StepDone(u) \/ StepFailed(u) \/ Settle(u) \/ Compensate(u)
      <3>1. PICK u \in Tx : \/ SubmitEmpty(u) \/ (\E p \in Plans : Submit(u, p))
                            \/ StepDone(u) \/ StepFailed(u) \/ Settle(u) \/ Compensate(u)
        BY <2>2
      <3>2. u # t
        BY <2>1, <3>1 DEF SubmitEmpty, Submit, StepDone, StepFailed, Settle, Compensate
      <3>3. OnlyCall(u)
        BY <3>1, TouchesOwn
      <3> QED
        BY <3>2, <3>3 DEF OnlyCall
    <2>3. CASE \E c \in Cancels : OnlyCancel(c)
      BY <2>3 DEF OnlyCancel, Uncancelled
    <2> QED
      BY <2>2, <2>3, WhoseStep
  <1> QED
    BY <1>1, Invariance, PTL DEF Spec, FinalStatus

-----------------------------------------------------------------------------
(* Refinement *)

LEMMA RefinesInit == ASSUME Init PROVE S!SagaInit
  <1>1. \A t \in Tx : /\ PhaseOf(t) = "idle" /\ pc[t] = "new" /\ plan[t] = <<>>
                     /\ executed[t] \ compensated[t] = {}
    BY DEF Init, PhaseOf, Calls
  <1> QED
    BY <1>1 DEF S!SagaInit, SagaPhase, SagaPlan, SagaInEffect, SagaOwed

\* In the saga's terms, too, a step of call t changes nothing but call t.
LEMMA MapsOwn ==
    ASSUME NEW t \in Tx, OnlyCall(t), Uncancelled(t)
    PROVE  /\ SagaPhase' = [SagaPhase EXCEPT ![t] = PhaseOf(t)']
           /\ SagaPlan' = [SagaPlan EXCEPT ![t] = plan'[t]]
           /\ SagaInEffect' = [SagaInEffect EXCEPT ![t] = executed'[t] \ compensated'[t]]
           /\ SagaOwed' = [SagaOwed EXCEPT ![t] = IF pc'[t] = "undo" THEN Owed(t, at[t])' ELSE {}]
           /\ Uncancelled(t)'
  <1>1. \A u \in Tx \ {t} : /\ plan'[u] = plan[u] /\ status'[u] = status[u]
                            /\ executed'[u] = executed[u] /\ compensated'[u] = compensated[u]
                            /\ pc'[u] = pc[u] /\ at'[u] = at[u]
    BY DEF OnlyCall, Calls
  <1>2. \A u \in Tx : Uncancelled(u)' <=> Uncancelled(u)
    BY CameStays
  <1>3. \A u \in Tx \ {t} : PhaseOf(u)' = PhaseOf(u) /\ Owed(u, at[u])' = Owed(u, at[u])
    BY <1>1, <1>2 DEF PhaseOf, Owed
  <1>4. SagaPhase' = [SagaPhase EXCEPT ![t] = PhaseOf(t)']
    BY <1>3 DEF SagaPhase
  <1>5. SagaInEffect' = [SagaInEffect EXCEPT ![t] = executed'[t] \ compensated'[t]]
    BY <1>1, <1>2 DEF SagaInEffect
  <1>6. SagaOwed' = [SagaOwed EXCEPT ![t] = IF pc'[t] = "undo" THEN Owed(t, at[t])' ELSE {}]
    BY <1>1, <1>2, <1>3 DEF SagaOwed
  <1>7. SagaPlan' = [SagaPlan EXCEPT ![t] = plan'[t]]
    BY <1>1, <1>2 DEF SagaPlan
  <1> QED
    BY <1>2, <1>4, <1>5, <1>6, <1>7

\* A step of a cancel, or of a call somebody tries to cancel, is no step of the saga.
LEMMA MapsNothing ==
    ASSUME target' = target,
           \A u \in Tx : Uncancelled(u) =>
              /\ plan'[u] = plan[u] /\ status'[u] = status[u] /\ executed'[u] = executed[u]
              /\ compensated'[u] = compensated[u] /\ pc'[u] = pc[u] /\ at'[u] = at[u]
    PROVE  UNCHANGED S!sagaVars
  <1>1. \A u \in Tx : Uncancelled(u)' = Uncancelled(u)
    BY DEF Uncancelled
  <1>2. \A u \in Tx : PhaseOf(u)' = PhaseOf(u)
    BY <1>1 DEF PhaseOf
  <1>3. SagaPhase' = SagaPhase
    BY <1>2 DEF SagaPhase
  <1>4. \A u \in Tx : ~Uncancelled(u) => ~Uncancelled(u)'
    BY DEF Uncancelled
  <1>5. SagaPlan' = SagaPlan
    BY <1>1, <1>4 DEF SagaPlan
  <1>6. SagaInEffect' = SagaInEffect
    BY <1>1 DEF SagaInEffect
  <1>7. SagaOwed' = SagaOwed
    <2>1. ASSUME NEW u \in Tx
          PROVE  (IF Uncancelled(u) /\ pc[u] = "undo" THEN Owed(u, at[u]) ELSE {})'
                 = (IF Uncancelled(u) /\ pc[u] = "undo" THEN Owed(u, at[u]) ELSE {})
      <3>1. CASE Uncancelled(u)
        <4>1. Uncancelled(u)'
          BY <1>1, <3>1
        <4>2. Owed(u, at[u])' = Owed(u, at[u])
          BY <3>1 DEF Owed
        <4> QED
          BY <3>1, <4>1, <4>2
      <3>2. CASE ~Uncancelled(u)
        BY <1>4, <3>2
      <3> QED
        BY <3>1, <3>2
    <2> QED
      BY <2>1 DEF SagaOwed
  <1> QED
    BY <1>3, <1>5, <1>6, <1>7 DEF S!sagaVars

\* What the saga shows of a transaction nobody cancels.
LEMMA Shown ==
    ASSUME NEW t \in Tx, Uncancelled(t)
    PROVE  /\ SagaPhase[t] = PhaseOf(t) /\ SagaPlan[t] = plan[t]
           /\ SagaInEffect[t] = executed[t] \ compensated[t]
           /\ SagaOwed[t] = IF pc[t] = "undo" THEN Owed(t, at[t]) ELSE {}
  BY DEF SagaPhase, SagaPlan, SagaInEffect, SagaOwed

LEMMA RefinesBegin ==
    ASSUME IndInv, NEW t \in Tx, Uncancelled(t), NEW p \in Plans, Submit(t, p)
    PROVE  S!Begin(t, p)
  <1>1. DOMAIN p # {}
    <2>1. Len(p) # 0
      BY PlanFacts DEF Submit
    <2>2. 1 \in 1..Len(p)
      BY <2>1, PlanFacts, MaxStepsAssumption
    <2> QED
      BY <2>2, PlanFacts
  <1>2. t \in Calls /\ CallInv(t) /\ pc[t] = "new" /\ plan'[t] = p
    BY RunningFacts DEF Submit, IndInv, TypeOK
  <1>3. pc'[t] = "step" /\ executed' = executed /\ compensated' = compensated
    BY <1>2 DEF Submit, IndInv, TypeOK
  <1>4. /\ SagaPhase' = [SagaPhase EXCEPT ![t] = PhaseOf(t)']
        /\ SagaPlan' = [SagaPlan EXCEPT ![t] = p]
        /\ SagaInEffect' = [SagaInEffect EXCEPT ![t] = SagaInEffect[t]]
        /\ SagaOwed' = [SagaOwed EXCEPT ![t] = {}]
    BY <1>2, <1>3, TouchesOwn, MapsOwn, Shown
  <1>5. PhaseOf(t)' = "forward" /\ SagaPhase[t] = "idle" /\ SagaOwed[t] = {}
    BY <1>2, <1>3, TouchesOwn, MapsOwn, Shown DEF PhaseOf
  <1>6. SagaOwed' = SagaOwed /\ SagaInEffect' = SagaInEffect
    BY <1>4, <1>5 DEF SagaOwed, SagaInEffect
  <1> QED
    BY <1>1, <1>4, <1>5, <1>6 DEF S!Begin

LEMMA RefinesEmpty ==
    ASSUME IndInv, NEW t \in Tx, Uncancelled(t), SubmitEmpty(t) PROVE S!Begin(t, <<>>)
  <1>1. t \in Calls /\ CallInv(t) /\ pc[t] = "new" /\ plan'[t] = <<>>
    BY RunningFacts DEF SubmitEmpty, CallInv
  <1>2. /\ pc'[t] = "done" /\ status'[t] = "completed"
        /\ executed' = executed /\ compensated' = compensated
    BY <1>1 DEF SubmitEmpty, Return, Archive, IndInv, TypeOK
  <1>3. /\ SagaPhase' = [SagaPhase EXCEPT ![t] = "committed"]
        /\ SagaPlan' = [SagaPlan EXCEPT ![t] = <<>>]
        /\ SagaInEffect' = [SagaInEffect EXCEPT ![t] = SagaInEffect[t]]
        /\ SagaOwed' = [SagaOwed EXCEPT ![t] = {}]
    BY <1>1, <1>2, TouchesOwn, MapsOwn, Shown DEF PhaseOf
  <1>4. /\ SagaPhase[t] = "idle" /\ SagaOwed[t] = {} /\ SagaOwed' = SagaOwed
        /\ SagaInEffect' = SagaInEffect
    BY <1>1, <1>3, Shown DEF PhaseOf, SagaOwed, SagaInEffect
  <1>5. DOMAIN <<>> = {}
    OBVIOUS
  <1> QED
    BY <1>3, <1>4, <1>5 DEF S!Begin

LEMMA RefinesPerform ==
    ASSUME IndInv, NEW t \in Tx, Uncancelled(t), StepDone(t) PROVE S!Perform(t)
  <1>1. /\ t \in Calls /\ pc[t] = "step" /\ at[t] \in 1..Len(plan[t]) /\ plan' = plan
        /\ DOMAIN plan[t] = 1..Len(plan[t]) /\ Len(plan[t]) \in Nat
        /\ executed[t] = 1..(at[t] - 1) /\ compensated[t] = {}
    BY RunningFacts, MaxStepsAssumption DEF StepDone, CallInv, AloneInv
  <1>2. executed'[t] = executed[t] \cup {at[t]} /\ compensated'[t] = {}
    BY <1>1 DEF StepDone, IndInv, TypeOK
  <1>3. /\ SagaPhase[t] = "forward" /\ SagaOwed[t] = {} /\ SagaPlan[t] = plan[t]
        /\ SagaInEffect[t] = 1..(at[t] - 1) /\ Uncancelled(t)'
    BY <1>1, TouchesOwn, CameStays, Shown DEF PhaseOf
  <1>4. PhaseOf(t)' = IF at[t] = Len(plan[t]) THEN "committed" ELSE "forward"
    BY <1>1, <1>3 DEF StepDone, Archive, Return, PhaseOf, IndInv, TypeOK
  <1>5. pc'[t] # "undo"
    BY <1>1 DEF StepDone, Return, IndInv, TypeOK
  <1>6. /\ SagaPhase' = [SagaPhase EXCEPT ![t] = PhaseOf(t)']
        /\ SagaInEffect' = [SagaInEffect EXCEPT ![t] = executed'[t] \ compensated'[t]]
        /\ SagaOwed' = [SagaOwed EXCEPT ![t] = {}]
        /\ SagaPlan' = [SagaPlan EXCEPT ![t] = plan[t]]
    BY <1>1, <1>5, TouchesOwn, MapsOwn
  <1>7. /\ SagaOwed' = SagaOwed /\ SagaPlan' = SagaPlan
        /\ SagaInEffect' = [SagaInEffect EXCEPT ![t] = SagaInEffect[t] \cup {at[t]}]
    BY <1>1, <1>2, <1>3, <1>6 DEF SagaOwed, SagaPlan
  <1>8. /\ at[t] \in DOMAIN plan[t] \ SagaInEffect[t]
        /\ \A j \in DOMAIN plan[t] \ SagaInEffect[t] : at[t] <= j
    BY <1>1, <1>3
  <1>9. DOMAIN plan[t] = SagaInEffect[t] \cup {at[t]} <=> at[t] = Len(plan[t])
    <2>1. SagaInEffect[t] \cup {at[t]} = 1..at[t]
      BY <1>1, <1>3
    <2>2. ASSUME 1..Len(plan[t]) = 1..at[t] PROVE at[t] = Len(plan[t])
      <3>1. Len(plan[t]) \in 1..at[t]
        BY <1>1, <2>2
      <3> QED
        BY <1>1, <3>1
    <2> QED
      BY <1>1, <2>1, <2>2
  <1> QED
    BY <1>1, <1>3, <1>4, <1>6, <1>7, <1>8, <1>9 DEF S!Perform

LEMMA RefinesFail ==
    ASSUME IndInv, NEW t \in Tx, Uncancelled(t), StepFailed(t) PROVE S!Fail(t)
  <1>1. /\ t \in Calls /\ pc[t] = "step" /\ target[t] = t /\ TypeOK
        /\ at[t] \in 1..Len(plan[t]) /\ plan' = plan /\ Len(plan[t]) \in Nat
        /\ executed[t] = 1..(at[t] - 1) /\ compensated[t] = {}
    BY RunningFacts, MaxStepsAssumption DEF StepFailed, CallInv, AloneInv, IndInv
  <1>2. executed' = executed /\ compensated' = compensated
    BY <1>1 DEF StepFailed, TypeOK
  <1>3. PICK i \in 0..MaxSteps :
              /\ at' = [at EXCEPT ![t] = i]
              /\ \/ /\ i \in Owed(t, Len(plan[t])) /\ \A j \in Owed(t, Len(plan[t])) : j <= i
                    /\ pc' = [pc EXCEPT ![t] = "undo"]
                 \/ /\ i = 0 /\ Owed(t, Len(plan[t])) = {}
                    /\ pc' = [pc EXCEPT ![t] = "settle"]
    <2>1. Walk(t, Len(plan[t]))
      BY DEF StepFailed
    <2>2. TypeOK /\ t \in Calls /\ target[t] = t /\ Len(plan[t]) \in Nat
      BY <1>1
    <2> QED
      BY <2>1, <2>2, WalkFacts
  <1>4. Owed(t, Len(plan[t])) = {j \in SagaInEffect[t] : plan[t][j]}
    BY <1>1, Shown DEF Owed
  <1>5. (IF pc'[t] = "undo" THEN Owed(t, at[t])' ELSE {}) = Owed(t, Len(plan[t]))
    <2>1. at'[t] = i /\ Owed(t, at[t])' = Owed(t, i)
      BY <1>1, <1>2, <1>3 DEF TypeOK, Owed
    <2>2. CASE i \in Owed(t, Len(plan[t])) /\ pc'[t] = "undo"
      <3>1. Owed(t, i) = Owed(t, Len(plan[t]))
        BY <1>1, <1>3, <2>2 DEF Owed
      <3> QED
        BY <2>1, <2>2, <3>1
    <2>3. CASE Owed(t, Len(plan[t])) = {} /\ pc'[t] = "settle"
      BY <2>3
    <2> QED
      BY <1>1, <1>3, <2>2, <2>3 DEF TypeOK
  <1>6. /\ SagaPhase' = [SagaPhase EXCEPT ![t] = "backward"]
        /\ SagaInEffect' = SagaInEffect
        /\ SagaPlan' = SagaPlan
        /\ SagaOwed' = [SagaOwed EXCEPT ![t] = {j \in SagaInEffect[t] : plan[t][j]}]
    <2>2. OnlyCall(t) /\ Uncancelled(t)'
      BY TouchesOwn, CameStays
    <2>1. PhaseOf(t)' = "backward"
      BY <1>1, <1>3, <2>2 DEF PhaseOf, TypeOK
    <2>3. /\ SagaPhase' = [SagaPhase EXCEPT ![t] = PhaseOf(t)']
          /\ SagaOwed' = [SagaOwed EXCEPT ![t] = IF pc'[t] = "undo" THEN Owed(t, at[t])' ELSE {}]
      BY <2>2, MapsOwn
    <2>4. SagaInEffect' = SagaInEffect /\ SagaPlan' = SagaPlan
      BY <1>1, <1>2, <2>2, CameStays DEF SagaInEffect, SagaPlan
    <2> QED
      BY <1>4, <1>5, <2>1, <2>3, <2>4
  <1>7. SagaPhase[t] = "forward" /\ SagaPlan[t] = plan[t]
    BY <1>1, Shown DEF PhaseOf
  <1> QED
    BY <1>1, <1>6, <1>7 DEF S!Fail

LEMMA RefinesUndo ==
    ASSUME IndInv, NEW t \in Tx, Uncancelled(t), Compensate(t) PROVE S!Undo(t)
  <1>1. /\ t \in Calls /\ pc[t] = "undo" /\ target[t] = t /\ TypeOK /\ plan' = plan
        /\ executed' = executed /\ executed[t] \in SUBSET (1..MaxSteps)
        /\ at[t] \in executed[t] /\ plan[t][at[t]]
        /\ \A j \in compensated[t] : at[t] < j
    BY RunningFacts DEF Compensate, CallInv, AloneInv, IndInv
  <1>2. at[t] \in 1..MaxSteps /\ at[t] - 1 \in Nat
    BY <1>1, MaxStepsAssumption
  <1>3. PICK i \in 0..MaxSteps :
              /\ at' = [at EXCEPT ![t] = i]
              /\ \/ /\ i \in Owed(t, at[t] - 1) /\ \A j \in Owed(t, at[t] - 1) : j <= i
                    /\ pc' = [pc EXCEPT ![t] = "undo"]
                 \/ /\ i = 0 /\ Owed(t, at[t] - 1) = {}
                    /\ pc' = [pc EXCEPT ![t] = "settle"]
    <2>1. Walk(t, at[t] - 1)
      BY <1>1 DEF Compensate
    <2> QED
      BY <1>1, <1>2, <2>1, WalkFacts
  <1>4. /\ SagaPhase[t] = "backward" /\ SagaOwed[t] = Owed(t, at[t])
        /\ SagaInEffect[t] = executed[t] \ compensated[t]
    BY <1>1, Shown DEF PhaseOf
  <1>5. Owed(t, at[t] - 1) = Owed(t, at[t]) \ {at[t]}
    BY <1>1, <1>2, MaxStepsAssumption DEF Owed
  <1>6. (IF pc'[t] = "undo" THEN Owed(t, at[t])' ELSE {}) = Owed(t, at[t] - 1)
    <2>1. at'[t] = i /\ Owed(t, at[t])' = Owed(t, i)
      BY <1>1, <1>3 DEF TypeOK, Owed
    <2>2. CASE i \in Owed(t, at[t] - 1) /\ pc'[t] = "undo"
      <3>1. Owed(t, i) = Owed(t, at[t] - 1)
        BY <1>1, <1>2, <1>3, <2>2 DEF Owed
      <3> QED
        BY <2>1, <2>2, <3>1
    <2>3. CASE Owed(t, at[t] - 1) = {} /\ pc'[t] = "settle"
      BY <2>3
    <2> QED
      BY <1>1, <1>3, <2>2, <2>3 DEF TypeOK
  <1>7. /\ SagaPhase' = [SagaPhase EXCEPT ![t] = "backward"]
        /\ SagaInEffect' = [SagaInEffect EXCEPT ![t] = executed[t] \ compensated'[t]]
        /\ SagaOwed' = [SagaOwed EXCEPT ![t] = SagaOwed[t] \ {at[t]}]
    <2>0. Uncancelled(t)'
      BY TouchesOwn, CameStays
    <2>1. PhaseOf(t)' = "backward"
      BY <1>1, <1>3, <2>0 DEF PhaseOf, TypeOK
    <2>2. /\ SagaPhase' = [SagaPhase EXCEPT ![t] = PhaseOf(t)']
          /\ SagaInEffect' = [SagaInEffect EXCEPT ![t] = executed'[t] \ compensated'[t]]
          /\ SagaOwed' = [SagaOwed EXCEPT ![t] = IF pc'[t] = "undo" THEN Owed(t, at[t])' ELSE {}]
      <3>1. OnlyCall(t)
        BY TouchesOwn
      <3> QED
        BY <3>1, MapsOwn
    <2> QED
      BY <1>1, <1>4, <1>5, <1>6, <2>1, <2>2
  <1>8. SagaPhase' = SagaPhase /\ SagaPlan' = SagaPlan
    BY <1>1, <1>4, <1>7, TouchesOwn, CameStays DEF SagaPhase, SagaPlan
  <1>9. \/ SagaInEffect' = [SagaInEffect EXCEPT ![t] = SagaInEffect[t] \ {at[t]}]
        \/ CompensationMayFail /\ SagaInEffect' = SagaInEffect
    <2>1. CASE compensated' = [compensated EXCEPT ![t] = @ \cup {at[t]}]
      <3>1. compensated'[t] = compensated[t] \cup {at[t]}
        BY <2>1 DEF IndInv, TypeOK
      <3>2. executed[t] \ compensated'[t] = SagaInEffect[t] \ {at[t]}
        BY <1>4, <3>1
      <3> QED
        BY <1>7, <3>2
    <2>2. CASE CompensationMayFail /\ compensated' = compensated
      BY <1>1, <2>2, TouchesOwn, CameStays DEF SagaInEffect
    <2> QED
      BY <1>1, <2>1, <2>2 DEF Compensate
  <1>10. at[t] \in SagaOwed[t] /\ \A j \in SagaOwed[t] : j <= at[t]
    BY <1>1, <1>2, <1>4 DEF Owed
  <1> QED
    BY <1>1, <1>4, <1>7, <1>8, <1>9, <1>10 DEF S!Undo

LEMMA RefinesAbort ==
    ASSUME IndInv, NEW t \in Tx, Uncancelled(t), Settle(t) PROVE S!Abort(t)
  <1>1. t \in Calls /\ pc[t] = "settle" /\ plan' = plan
    BY RunningFacts DEF Settle
  <1>2. /\ pc'[t] = "done" /\ status'[t] = "failed"
        /\ executed' = executed /\ compensated' = compensated
    BY <1>1 DEF Settle, Return, Archive, IndInv, TypeOK
  <1>3. /\ SagaPhase' = [SagaPhase EXCEPT ![t] = "aborted"]
        /\ SagaPlan' = [SagaPlan EXCEPT ![t] = SagaPlan[t]]
        /\ SagaInEffect' = [SagaInEffect EXCEPT ![t] = SagaInEffect[t]]
        /\ SagaOwed' = [SagaOwed EXCEPT ![t] = {}]
    BY <1>1, <1>2, TouchesOwn, MapsOwn, Shown DEF PhaseOf
  <1>4. /\ SagaPhase[t] = "backward" /\ SagaOwed[t] = {} /\ SagaOwed' = SagaOwed
        /\ SagaPlan' = SagaPlan /\ SagaInEffect' = SagaInEffect
    BY <1>1, <1>3, Shown DEF PhaseOf, SagaOwed, SagaPlan, SagaInEffect
  <1> QED
    BY <1>1, <1>3, <1>4 DEF S!Abort

\* Every step of a call of executeTransaction that nobody tries to cancel is a
\* step of the saga, and every other step leaves the saga alone: what it
\* promises about order and compensation holds for any number of concurrent
\* transactions of any length, with any number of cancels of others beside.
THEOREM Refinement == Spec => S!SagaSpec
  <1>1. Init => S!SagaInit
    BY RefinesInit
  <1>2. IndInv /\ [Next]_vars => [S!SagaNext]_S!sagaVars
    <2> SUFFICES ASSUME IndInv, [Next]_vars PROVE [S!SagaNext]_S!sagaVars
      OBVIOUS
    <2>1. CASE \E u \in Tx : \/ SubmitEmpty(u) \/ (\E p \in Plans : Submit(u, p))
                            \/ StepDone(u) \/ StepFailed(u) \/ Settle(u) \/ Compensate(u)
      <3>1. PICK t \in Tx : \/ SubmitEmpty(t) \/ (\E p \in Plans : Submit(t, p)) \/ StepDone(t)
                            \/ StepFailed(t) \/ Settle(t) \/ Compensate(t)
        BY <2>1
      <3>2. S!Plans = Plans /\ <<>> \in Plans
        BY MaxStepsAssumption DEF S!Plans, Plans
      <3>3. CASE Uncancelled(t)
        BY <3>1, <3>2, <3>3, RefinesEmpty, RefinesBegin, RefinesPerform, RefinesFail,
           RefinesUndo, RefinesAbort DEF S!SagaNext
      <3>4. CASE ~Uncancelled(t)
        <4>1. OnlyCall(t)
          BY <3>1, TouchesOwn
        <4> QED
          BY <3>4, <4>1, MapsNothing DEF OnlyCall, Calls
      <3> QED
        BY <3>3, <3>4
    <2>2. CASE \E c \in Cancels : OnlyCancel(c)
      <3>1. PICK c \in Cancels : OnlyCancel(c)
        BY <2>2
      <3>2. \A u \in Tx : u # c /\ u \in Calls
        BY CallsAssumption DEF Calls
      <3> QED
        BY <3>1, <3>2, MapsNothing DEF OnlyCancel, Uncancelled
    <2>3. CASE UNCHANGED vars
      BY <2>3, MapsNothing DEF vars
    <2> QED
      BY <2>1, <2>2, <2>3, WhoseStep
  <1> QED
    BY <1>1, <1>2, Invariance, PTL DEF Spec, S!SagaSpec
=============================================================================
