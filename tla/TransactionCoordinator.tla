----------------------- MODULE TransactionCoordinator -----------------------
(***************************************************************************)
(* The immediate interface of src/services/sync/TransactionCoordinator.ts: *)
(* executeTransaction runs a list of operations one after the other and,   *)
(* when one throws, compensates the executed ones in reverse order;        *)
(* cancelTransaction may be called on an active transaction meanwhile.     *)
(*                                                                         *)
(* One action is the code between two awaits, which the event loop runs    *)
(* without interruption.  (The queued interface, beginTransaction to       *)
(* rollbackTransaction, is module StorageTransaction.)                     *)
(***************************************************************************)
EXTENDS Naturals, Sequences

CONSTANTS
    Tx,                     \* the calls of executeTransaction
    Cancels,                \* the calls of cancelTransaction
    MaxSteps,               \* bound on the operations of one transaction
    CompensationMayFail     \* whether executeCompensatingOperation can throw

ASSUME MaxStepsAssumption == MaxSteps \in Nat
ASSUME CompensationAssumption == CompensationMayFail \in BOOLEAN
ASSUME CallsAssumption == Tx \cap Cancels = {}

VARIABLES
    plan,           \* plan[t][i]: steps[i] of t has a compensatingOperation
    status,         \* transaction.status; "none" before the call
    executed,       \* the steps of t with executed = true
    compensated,    \* the steps of t with compensated = true
    tried,          \* history: the steps whose compensating operation settled
    active,         \* keys of activeTransactions
    history,        \* transactionHistory
    pc,             \* where each call stands
    at,             \* the step whose operation each call awaits; 0 for none
    target,         \* the transaction a cancel call is about
    result          \* what each call returned; "none" before

data == <<plan, status, executed, compensated, tried, active, history>>
vars == <<plan, status, executed, compensated, tried, active, history, pc, at, target, result>>

Calls == Tx \cup Cancels

Plans == UNION {[1..n -> BOOLEAN] : n \in 0..MaxSteps}

\* "pending" is overwritten before the first await and never seen.
Status == {"none", "executing", "completed", "failed", "compensating"}

Recorded == {history[k] : k \in DOMAIN history}

TypeOK ==
    /\ plan \in [Tx -> Plans]
    /\ status \in [Tx -> Status]
    /\ executed \in [Tx -> SUBSET (1..MaxSteps)]
    /\ compensated \in [Tx -> SUBSET (1..MaxSteps)]
    /\ tried \in [Tx -> SUBSET (1..MaxSteps)]
    /\ active \subseteq Tx
    /\ history \in Seq(Tx)
    /\ pc \in [Calls -> {"new", "step", "undo", "settle", "done"}]
    /\ at \in [Calls -> 0..MaxSteps]
    /\ target \in [Calls -> Tx]
    /\ result \in [Calls -> {"none", "success", "failure", "true", "false"}]

Init ==
    /\ plan = [t \in Tx |-> <<>>]
    /\ status = [t \in Tx |-> "none"]
    /\ executed = [t \in Tx |-> {}]
    /\ compensated = [t \in Tx |-> {}]
    /\ tried = [t \in Tx |-> {}]
    /\ active = {}
    /\ history = <<>>
    /\ pc = [c \in Calls |-> "new"]
    /\ at = [c \in Calls |-> 0]
    /\ target \in {f \in [Calls -> Tx] : \A t \in Tx : f[t] = t}
    /\ result = [c \in Calls |-> "none"]

-----------------------------------------------------------------------------
(* executeTransaction *)

\* Return `answer` from call c, with what its last synchronous part sets.
Return(c, answer) ==
    /\ pc' = [pc EXCEPT ![c] = "done"]
    /\ at' = [at EXCEPT ![c] = 0]
    /\ result' = [result EXCEPT ![c] = answer]

\* Fault: the delete from activeTransactions is forgotten.
ArchiveKeepsActive(t, final) ==
    /\ status' = [status EXCEPT ![t] = final]
    /\ history' = Append(history, t)
    /\ UNCHANGED active

Archive(t, final) ==
    /\ status' = [status EXCEPT ![t] = final]
    /\ history' = Append(history, t)
    /\ active' = active \ {t}

\* A call without operations completes before its first await.
SubmitEmpty(t) ==
    /\ pc[t] = "new"
    /\ Archive(t, "completed")
    /\ Return(t, "success")
    /\ UNCHANGED <<plan, executed, compensated, tried, target>>

Submit(t, p) ==
    /\ pc[t] = "new"
    /\ p # <<>>
    /\ plan' = [plan EXCEPT ![t] = p]
    /\ status' = [status EXCEPT ![t] = "executing"]
    /\ active' = active \cup {t}
    /\ pc' = [pc EXCEPT ![t] = "step"]
    /\ at' = [at EXCEPT ![t] = 1]
    /\ UNCHANGED <<executed, compensated, tried, history, target, result>>

\* executeStep resolved: mark the step, go on to the next one or complete.
StepDone(t) ==
    /\ pc[t] = "step"
    /\ executed' = [executed EXCEPT ![t] = @ \cup {at[t]}]
    /\ \/ /\ at[t] < Len(plan[t])
          /\ at' = [at EXCEPT ![t] = @ + 1]
          /\ UNCHANGED <<status, active, history, pc, result>>
       \/ /\ at[t] = Len(plan[t])
          /\ Archive(t, "completed")
          /\ Return(t, "success")
    /\ UNCHANGED <<plan, compensated, tried, target>>

\* The steps compensateTransaction still has to visit from step k downward.
Owed(t, k) == {i \in executed[t] : i <= k /\ plan[t][i]}

\* Fault: compensation goes through the steps from the first to the last.
WalkForward(c, k) ==
    LET left == Owed(target[c], MaxSteps) \ (compensated[target[c]] \cup {at[c]}) IN
    \E i \in 0..MaxSteps :
        /\ \/ i \in left /\ \A j \in left : i <= j
           \/ i = 0 /\ left = {}
        /\ at' = [at EXCEPT ![c] = i]
        /\ pc' = [pc EXCEPT ![c] = IF i = 0 THEN "settle" ELSE "undo"]

\* The loop of compensateTransaction runs, from step k, to the next await: to
\* the last step it owes, or out of the loop.
Walk(c, k) ==
    \E i \in 0..MaxSteps :
        /\ \/ i \in Owed(target[c], k) /\ \A j \in Owed(target[c], k) : j <= i
           \/ i = 0 /\ Owed(target[c], k) = {}
        /\ at' = [at EXCEPT ![c] = i]
        /\ pc' = [pc EXCEPT ![c] = IF i = 0 THEN "settle" ELSE "undo"]

\* Fault: the step is marked executed before its operation is awaited.
StepFailedMarked(t) ==
    /\ pc[t] = "step"
    /\ executed' = [executed EXCEPT ![t] = @ \cup {at[t]}]
    /\ status' = [status EXCEPT ![t] = "compensating"]
    /\ Walk(t, Len(plan[t]))
    /\ UNCHANGED <<plan, compensated, tried, active, history, target, result>>

\* executeStep threw: compensation starts in the same turn.
StepFailed(t) ==
    /\ pc[t] = "step"
    /\ executed' = [executed EXCEPT ![t] = @ \ {at[t]}]
    /\ status' = [status EXCEPT ![t] = "compensating"]
    /\ Walk(t, Len(plan[t]))
    /\ UNCHANGED <<plan, compensated, tried, active, history, target, result>>

\* Fault: the catch sits around the loop, so that a compensation that throws
\* ends it.
CompensateStops(c) ==
    /\ pc[c] = "undo"
    /\ tried' = [tried EXCEPT ![target[c]] = @ \cup {at[c]}]
    /\ \/ /\ compensated' = [compensated EXCEPT ![target[c]] = @ \cup {at[c]}]
          /\ Walk(c, at[c] - 1)
       \/ /\ CompensationMayFail
          /\ at' = [at EXCEPT ![c] = 0]
          /\ pc' = [pc EXCEPT ![c] = "settle"]
          /\ UNCHANGED compensated
    /\ UNCHANGED <<plan, status, executed, active, history, target, result>>

\* executeCompensatingOperation of step at[c] settled, for executeTransaction
\* or for cancelTransaction; when it throws, the loop just continues.
Compensate(c) ==
    /\ pc[c] = "undo"
    /\ tried' = [tried EXCEPT ![target[c]] = @ \cup {at[c]}]
    /\ \/ compensated' = [compensated EXCEPT ![target[c]] = @ \cup {at[c]}]
       \/ CompensationMayFail /\ UNCHANGED compensated
    /\ Walk(c, at[c] - 1)
    /\ UNCHANGED <<plan, status, executed, active, history, target, result>>

\* compensateTransaction resolved in executeTransaction.
Settle(t) ==
    /\ pc[t] = "settle"
    /\ Archive(t, "failed")
    /\ Return(t, "failure")
    /\ UNCHANGED <<plan, executed, compensated, tried, target>>

-----------------------------------------------------------------------------
(* cancelTransaction *)

\* The identifier is known only once the transaction was submitted.
Known(c) == pc[target[c]] # "new"

CancelUnknown(c) ==
    /\ pc[c] = "new" /\ Known(c)
    /\ target[c] \notin active
    /\ Return(c, "false")
    /\ UNCHANGED <<data, target>>

CancelExecuting(c) ==
    /\ pc[c] = "new" /\ Known(c)
    /\ target[c] \in active
    /\ status[target[c]] = "executing"
    /\ status' = [status EXCEPT ![target[c]] = "compensating"]
    /\ Walk(c, Len(plan[target[c]]))
    /\ UNCHANGED <<plan, executed, compensated, tried, active, history, target, result>>

\* Already compensating: recorded as failed at once.
CancelCompensating(c) ==
    /\ pc[c] = "new" /\ Known(c)
    /\ target[c] \in active
    /\ status[target[c]] # "executing"
    /\ Archive(target[c], "failed")
    /\ Return(c, "true")
    /\ UNCHANGED <<plan, executed, compensated, tried, target>>

\* Fault: the cancelled transaction is not pushed to the history.
CancelSettleUnrecorded(c) ==
    /\ pc[c] = "settle"
    /\ status' = [status EXCEPT ![target[c]] = "failed"]
    /\ active' = active \ {target[c]}
    /\ Return(c, "true")
    /\ UNCHANGED <<plan, executed, compensated, tried, history, target>>

\* Fault: the cancelled transaction is not deleted from activeTransactions.
CancelSettleKeepsActive(c) ==
    /\ pc[c] = "settle"
    /\ ArchiveKeepsActive(target[c], "failed")
    /\ Return(c, "true")
    /\ UNCHANGED <<plan, executed, compensated, tried, target>>

CancelSettle(c) ==
    /\ pc[c] = "settle"
    /\ Archive(target[c], "failed")
    /\ Return(c, "true")
    /\ UNCHANGED <<plan, executed, compensated, tried, target>>

-----------------------------------------------------------------------------
Next ==
    \/ \E t \in Tx :
          \/ SubmitEmpty(t)
          \/ \E p \in Plans : Submit(t, p)
          \/ StepDone(t)
          \/ StepFailed(t)
          \/ Settle(t)
    \/ \E c \in Calls : Compensate(c)
    \/ \E c \in Cancels :
          \/ CancelUnknown(c)
          \/ CancelExecuting(c)
          \/ CancelCompensating(c)
          \/ CancelSettle(c)

Spec == Init /\ [][Next]_vars

\* Storage calls and the timers behind compensations settle, and the event
\* loop runs every continuation; nobody is obliged to make a call.
Fairness ==
    /\ \A t \in Tx : WF_vars(StepDone(t) \/ StepFailed(t)) /\ WF_vars(Settle(t))
    /\ \A c \in Calls : WF_vars(Compensate(c))
    /\ \A c \in Cancels : WF_vars(CancelSettle(c))

FairSpec == Spec /\ Fairness
-----------------------------------------------------------------------------
(* What must be true. *)

\* A submitted transaction is kept: until it returns it is active or a cancel
\* has recorded it, and once its call returned it is recorded and no longer
\* active (getTransaction and getTransactionHistory read these two).
Kept ==
    \A t \in Tx :
        /\ pc[t] # "new" => t \in active \cup Recorded
        /\ pc[t] = "done" => t \in Recorded \ active

\* Nobody tries to cancel t.
Uncancelled(t) == \A c \in Cancels : target[c] # t

\* A transaction nobody cancels is never pushed to the history twice.
RecordedOnce ==
    \A j, k \in DOMAIN history :
        history[j] = history[k] /\ Uncancelled(history[j]) => j = k

\* activeTransactions and transactionHistory split the transactions that nobody
\* cancels, whatever cancels of others do beside them: one is active exactly
\* while its call runs, and recorded exactly once, when the call returns.
Custody ==
    /\ \A t \in Tx : Uncancelled(t) =>
          /\ t \in active <=> pc[t] \in {"step", "undo", "settle"}
          /\ t \in Recorded <=> pc[t] = "done"
    /\ RecordedOnce

\* A cancel of t got through: it found t active and went on.
CancelCame(t) ==
    \E c \in Cancels : target[c] = t /\ pc[c] # "new" /\ result[c] # "false"

\* What executeTransaction answers is what happened.  Success: every operation
\* was executed, and no compensation of any of them was even tried unless a
\* cancel came (the call does not notice one, see CancelledStaysFailed).
\* Failure: of each executed operation the compensating one was tried, though
\* those of later steps may have thrown.
ResultIsHonest ==
    \A t \in Tx :
        /\ result[t] = "success" =>
              /\ executed[t] = DOMAIN plan[t]
              /\ tried[t] # {} => CancelCame(t)
        /\ result[t] = "failure" => {i \in executed[t] : plan[t][i]} \subseteq tried[t]

\* The steps marked executed are a prefix of the list: the loop neither skips
\* nor repeats an operation, even when a cancel runs between two of them.
ExecutedPrefix ==
    \A t \in Tx : \A i \in executed[t] : 1..i \subseteq executed[t]

\* A cancel that answered true has taken the transaction out of the active
\* ones for good and left it in the history.
CancelTakesOut ==
    \A c \in Cancels : result[c] = "true" => target[c] \in Recorded \ active

\* A transaction that a cancel took out is failed and stays so, as the test
\* "should cancel executing transaction" expects of the call it cancels.
CancelledStaysFailed ==
    \A c \in Cancels : result[c] = "true" => status[target[c]] = "failed"

\* Compensations of a transaction nobody cancels happen in reverse order: a step
\* is not compensated after a step before it.
UndoInReverse ==
    [][\A t \in Tx : Uncancelled(t) =>
          \A i \in compensated'[t] \ compensated[t] :
             \A j \in compensated[t] : i < j]_vars

\* The final status of a transaction nobody cancels is final: no late
\* continuation overwrites it.
FinalStatus ==
    [][\A t \in Tx :
          Uncancelled(t) /\ status[t] \in {"completed", "failed"} =>
             status'[t] = status[t]]_vars

-----------------------------------------------------------------------------
(* Each call that nobody tries to cancel is a saga. *)

PhaseOf(t) ==
    IF ~Uncancelled(t) \/ pc[t] = "new" THEN "idle"
    ELSE IF pc[t] = "step" THEN "forward"
    ELSE IF pc[t] \in {"undo", "settle"} THEN "backward"
    ELSE IF status[t] = "completed" THEN "committed" ELSE "aborted"

\* What is shown of a transaction somebody tries to cancel: nothing.
SagaPhase == [t \in Tx |-> PhaseOf(t)]
SagaPlan == [t \in Tx |-> IF Uncancelled(t) THEN plan[t] ELSE <<>>]
SagaInEffect ==
    [t \in Tx |-> IF Uncancelled(t) THEN executed[t] \ compensated[t] ELSE {}]
SagaOwed ==
    [t \in Tx |-> IF Uncancelled(t) /\ pc[t] = "undo" THEN Owed(t, at[t]) ELSE {}]

S == INSTANCE Saga WITH
        UndoMayFail <- CompensationMayFail,
        phase <- SagaPhase, plan <- SagaPlan, inEffect <- SagaInEffect, owed <- SagaOwed

\* executeTransaction implements a saga, step by step and fairly: forward in
\* order, backward in reverse order, never forward again after a failure.
ImplementsSaga == S!SagaFairSpec
-----------------------------------------------------------------------------
(* The inductive invariant behind the properties above. *)

\* Where a call of executeTransaction stands says what is in flight, how far
\* its steps are, what it has tried to undo so far and where it is recorded.
CallInv(t) ==
    /\ target[t] = t
    /\ executed[t] \subseteq DOMAIN plan[t]
    /\ \A i \in executed[t] : 1..i \subseteq executed[t]
    /\ result[t] = "none" <=> pc[t] # "done"
    /\ pc[t] = "new" =>
          /\ plan[t] = <<>> /\ executed[t] = {} /\ compensated[t] = {} /\ tried[t] = {}
          /\ status[t] = "none"
          /\ t \notin active \cup Recorded
    /\ pc[t] = "step" => at[t] \in DOMAIN plan[t] /\ executed[t] = 1..(at[t] - 1)
    /\ pc[t] = "undo" => at[t] \in executed[t] /\ plan[t][at[t]]
    /\ pc[t] \in {"settle", "done"} => at[t] = 0
    /\ pc[t] \in {"undo", "settle"} =>
          \A i \in executed[t] : plan[t][i] /\ at[t] < i => i \in tried[t]
    /\ pc[t] = "step" \/ result[t] = "success" => (tried[t] # {} => CancelCame(t))
    /\ pc[t] # "new" => t \in active \cup Recorded
    /\ pc[t] = "done" => t \in Recorded \ active
    /\ result[t] = "success" => executed[t] = DOMAIN plan[t]
    /\ result[t] = "failure" => \A i \in executed[t] : plan[t][i] => i \in tried[t]

\* The same, with what only holds of a transaction nobody cancels.
AloneInv(t) ==
    /\ pc[t] \in {"step", "undo", "settle"} => t \in active \ Recorded
    /\ pc[t] = "step" => status[t] = "executing" /\ compensated[t] = {}
    /\ pc[t] \in {"undo", "settle"} => status[t] = "compensating"
    /\ pc[t] = "undo" => \A j \in compensated[t] : at[t] < j
    /\ pc[t] = "done" =>
          \/ status[t] = "completed" /\ result[t] = "success"
          \/ status[t] = "failed" /\ result[t] = "failure"

\* A cancel is about a submitted transaction and visits executed steps of it.
CancelInv(c) ==
    /\ pc[c] # "step"
    /\ pc[c] = "new" \/ Known(c)
    /\ pc[c] = "undo" => at[c] \in executed[target[c]] /\ plan[target[c]][at[c]]
    /\ result[c] = "none" <=> pc[c] # "done"
    /\ result[c] = "true" => target[c] \in Recorded \ active

IndInv ==
    /\ TypeOK
    /\ \A t \in Tx : CallInv(t) /\ (Uncancelled(t) => AloneInv(t))
    /\ RecordedOnce
    /\ \A c \in Cancels : CancelInv(c)
=============================================================================
