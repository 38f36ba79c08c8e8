------------------------- MODULE StorageTransaction -------------------------
(***************************************************************************)
(* The queued interface of TransactionCoordinator.ts (beginTransaction,    *)
(* addVectorOperation, addGraphOperation, commitTransaction,               *)
(* rollbackTransaction) as StorageCoordinator.ts uses it: store,           *)
(* deleteFiles and deleteProject each begin the one transaction the        *)
(* coordinator can have, queue a vector and a graph operation, commit,     *)
(* and on any error roll back whatever transaction is then current.        *)
(*                                                                         *)
(* One action is the code between two awaits.  Some awaits wait for a      *)
(* storage service or a timer; the others only yield to the continuations  *)
(* that are already queued ("micro" below).                                *)
(***************************************************************************)
EXTENDS Naturals, Sequences

CONSTANTS
    Stores,         \* the calls of store
    Deletes,        \* the calls of deleteFiles and deleteProject
    None            \* no transaction

Calls == Stores \cup Deletes

ASSUME CallsAssumption == Stores \cap Deletes = {} /\ None \notin Calls

VARIABLES
    current,        \* currentTransaction; a transaction has its beginner's name
    status,         \* transaction.status; "none" before beginTransaction
    steps,          \* steps[t]: the queued operations, by whom and for which database
    executed,       \* the steps of t with executed = true
    compensated,    \* the steps of t with compensated = true
    history,        \* transactionHistory
    pc,             \* where each call stands
    tx,             \* the transaction a call runs or compensates
    at,             \* the step of tx[c] that call c awaits
    inCommit,       \* the rollback of c is the one of commitTransaction
    result,         \* what each call returned
    vector, graph,  \* the stores with all their chunks in each database
    accepted,       \* history: the operations whose execution answered success
    sharedTurns     \* whether several calls may have continuations queued at
                    \* once; if not, a turn of the event loop resumes one call

tcVars == <<current, status, steps, executed, compensated, history>>
dbVars == <<vector, graph, accepted, sharedTurns>>
callVars == <<pc, tx, at, inCommit, result>>
vars == <<current, status, steps, executed, compensated, history,
          pc, tx, at, inCommit, result, vector, graph, accepted, sharedTurns>>

Status == {"none", "pending", "executing", "completed", "failed", "compensating"}

Operation == [by : Calls, db : {"vector", "graph"}]

Recorded == {history[k] : k \in DOMAIN history}

TypeOK ==
    /\ current \in Calls \cup {None}
    /\ status \in [Calls -> Status]
    /\ steps \in [Calls -> Seq(Operation)]
    /\ \A t \in Calls : executed[t] \subseteq DOMAIN steps[t]
    /\ \A t \in Calls : compensated[t] \subseteq executed[t]
    /\ history \in Seq(Calls)
    /\ pc \in [Calls -> {"idle", "vector", "graph", "addVector", "addGraph", "commit", "step",
                         "close", "abort", "rollback", "undo", "settle", "done"}]
    /\ tx \in [Calls -> Calls]
    /\ at \in [Calls -> Nat]
    /\ inCommit \in [Calls -> BOOLEAN]
    /\ result \in [Calls -> {"none", "success", "failure"}]
    /\ vector \subseteq Stores /\ graph \subseteq Stores
    /\ accepted \subseteq Operation
    /\ sharedTurns \in BOOLEAN

Init ==
    /\ current = None
    /\ status = [t \in Calls |-> "none"]
    /\ steps = [t \in Calls |-> <<>>]
    /\ executed = [t \in Calls |-> {}]
    /\ compensated = [t \in Calls |-> {}]
    /\ history = <<>>
    /\ pc = [c \in Calls |-> "idle"]
    /\ tx = [c \in Calls |-> c]
    /\ at = [c \in Calls |-> 0]
    /\ inCommit = [c \in Calls |-> FALSE]
    /\ result = [c \in Calls |-> "none"]
    /\ vector = {} /\ graph = {} /\ accepted = {}
    /\ sharedTurns \in BOOLEAN

-----------------------------------------------------------------------------
(* The event loop *)

\* Deletions are only logged: their step does not wait for a database.
Instant(c) == pc[c] = "step" /\ steps[tx[c]][at[c]].by \in Deletes

Micro(c) ==
    \/ pc[c] \in {"addVector", "addGraph", "commit", "close", "abort", "rollback", "settle"}
    \/ Instant(c)

\* A new call, a database's answer or a timer gets a turn of its own.
NewTurn == sharedTurns \/ \A c \in Calls : ~Micro(c)

Goto(c, label) == pc' = [pc EXCEPT ![c] = label]

Return(c, answer) ==
    /\ Goto(c, "done")
    /\ result' = [result EXCEPT ![c] = answer]

-----------------------------------------------------------------------------
(* store, deleteFiles, deleteProject up to the commit *)

\* Nothing to store or to delete, or the preparation failed.
ReturnEarly(c) ==
    /\ pc[c] = "idle" /\ NewTurn
    /\ \E answer \in {"success", "failure"} : Return(c, answer)
    /\ UNCHANGED <<tcVars, dbVars, tx, at, inCommit>>

\* Fault: beginTransaction does not look for a transaction in progress.
BeginUnguarded(c) ==
    /\ pc[c] = "idle" /\ NewTurn
    /\ current' = c
    /\ status' = [status EXCEPT ![c] = "pending"]
    /\ Goto(c, IF c \in Stores THEN "vector" ELSE "addVector")
    /\ UNCHANGED <<steps, executed, compensated, history, tx, at, inCommit, result, dbVars>>

BeginTransaction(c) ==
    /\ pc[c] = "idle" /\ NewTurn
    /\ current = None
    /\ current' = c
    /\ status' = [status EXCEPT ![c] = "pending"]
    /\ Goto(c, IF c \in Stores THEN "vector" ELSE "addVector")
    /\ UNCHANGED <<steps, executed, compensated, history, tx, at, inCommit, result, dbVars>>

\* Fault: beginTransaction is called inside the try whose catch rolls back.
BeginRefusedInside(c) ==
    /\ pc[c] = "idle" /\ NewTurn
    /\ current # None
    /\ Goto(c, "rollback")
    /\ UNCHANGED <<tcVars, dbVars, tx, at, inCommit, result>>

\* "A transaction is already in progress": thrown outside the inner try.
BeginRefused(c) ==
    /\ pc[c] = "idle" /\ NewTurn
    /\ current # None
    /\ Return(c, "failure")
    /\ UNCHANGED <<tcVars, dbVars, tx, at, inCommit>>

\* store writes to the databases itself, before it queues the operations; a
\* result without success is ignored.
StoreVector(c) ==
    /\ pc[c] = "vector" /\ NewTurn
    /\ vector' \in {vector, vector \cup {c}}
    /\ Goto(c, "graph")
    /\ UNCHANGED <<tcVars, graph, accepted, sharedTurns, tx, at, inCommit, result>>

\* Queue an operation of c in whatever transaction is current, or fail.
AddOperation(c, db, next) ==
    \/ /\ current # None
       /\ steps' = [steps EXCEPT ![current] = Append(@, [by |-> c, db |-> db])]
       /\ Goto(c, next)
    \/ /\ current = None
       /\ Goto(c, "rollback")
       /\ UNCHANGED steps

StoreGraph(c) ==
    /\ pc[c] = "graph" /\ NewTurn
    /\ graph' \in {graph, graph \cup {c}}
    /\ AddOperation(c, "vector", "addGraph")
    /\ UNCHANGED <<current, status, executed, compensated, history, vector, accepted, sharedTurns,
                   tx, at, inCommit, result>>

\* GraphPersistenceService.storeChunks throws when it cannot initialise.
StoreGraphThrows(c) ==
    /\ pc[c] = "graph" /\ NewTurn
    /\ Goto(c, "rollback")
    /\ UNCHANGED <<tcVars, dbVars, tx, at, inCommit, result>>

AddVectorOperation(c) ==
    /\ pc[c] = "addVector"
    /\ AddOperation(c, "vector", "addGraph")
    /\ UNCHANGED <<current, status, executed, compensated, history, dbVars, tx, at, inCommit, result>>

AddGraphOperation(c) ==
    /\ pc[c] = "addGraph"
    /\ AddOperation(c, "graph", "commit")
    /\ UNCHANGED <<current, status, executed, compensated, history, dbVars, tx, at, inCommit, result>>

-----------------------------------------------------------------------------
(* commitTransaction *)

\* Fault: currentTransaction is not cleared.
FinishUncleared(final) ==
    /\ status' = [status EXCEPT ![current] = final]
    /\ history' = Append(history, current)
    /\ UNCHANGED current

\* The current transaction ends: it goes to the history and is current no more.
Finish(final) ==
    /\ status' = [status EXCEPT ![current] = final]
    /\ history' = Append(history, current)
    /\ current' = None

CommitWithoutTransaction(c) ==
    /\ pc[c] = "commit"
    /\ current = None
    /\ Goto(c, "rollback")
    /\ UNCHANGED <<tcVars, dbVars, tx, at, inCommit, result>>

CommitEmpty(c) ==
    /\ pc[c] = "commit"
    /\ current # None
    /\ steps[current] = <<>>
    /\ Finish("completed")
    /\ Return(c, "success")
    /\ UNCHANGED <<steps, executed, compensated, dbVars, tx, at, inCommit>>

CommitStart(c) ==
    /\ pc[c] = "commit"
    /\ current # None
    /\ steps[current] # <<>>
    /\ status' = [status EXCEPT ![current] = "executing"]
    /\ tx' = [tx EXCEPT ![c] = current]
    /\ at' = [at EXCEPT ![c] = 1]
    /\ Goto(c, "step")
    /\ UNCHANGED <<current, steps, executed, compensated, history, inCommit, result, dbVars>>

\* Where the operation that c awaits has its effect.
Operated(c) == steps[tx[c]][at[c]]

\* storeChunks leaves all the chunks in the database, a part or none, whatever
\* it answers: it drops the chunks that cannot be embedded, or have no query,
\* and answers success even when nothing is left to write.
Written(op, before, db) ==
    {before} \cup IF op.db = db /\ op.by \in Stores THEN {before \cup {op.by}} ELSE {}

\* The for-of loop sees the steps that were queued meanwhile.
StepDone(c) ==
    /\ pc[c] = "step" /\ (NewTurn \/ Instant(c))
    /\ executed' = [executed EXCEPT ![tx[c]] = @ \cup {at[c]}]
    /\ accepted' = accepted \cup {Operated(c)}
    /\ vector' \in Written(Operated(c), vector, "vector")
    /\ graph' \in Written(Operated(c), graph, "graph")
    /\ \/ /\ at[c] < Len(steps[tx[c]])
          /\ at' = [at EXCEPT ![c] = @ + 1]
          /\ UNCHANGED <<status, pc>>
       \/ /\ at[c] = Len(steps[tx[c]])
          /\ status' = [status EXCEPT ![tx[c]] = "completed"]
          /\ Goto(c, "close")
          /\ UNCHANGED at
    /\ UNCHANGED <<current, steps, compensated, history, tx, inCommit, result, sharedTurns>>

\* Fault: the success flag of the storage result is not checked.
StepFailedIgnored(c) ==
    /\ pc[c] = "step" /\ NewTurn /\ ~Instant(c)
    /\ executed' = [executed EXCEPT ![tx[c]] = @ \cup {at[c]}]
    /\ \/ /\ at[c] < Len(steps[tx[c]])
          /\ at' = [at EXCEPT ![c] = @ + 1]
          /\ UNCHANGED <<status, pc>>
       \/ /\ at[c] = Len(steps[tx[c]])
          /\ status' = [status EXCEPT ![tx[c]] = "completed"]
          /\ Goto(c, "close")
          /\ UNCHANGED at
    /\ UNCHANGED <<current, steps, compensated, history, tx, inCommit, result, dbVars>>

\* A database refused; it may hold the chunks, or a part of them, all the same.
StepFailed(c) ==
    /\ pc[c] = "step" /\ NewTurn /\ ~Instant(c)
    /\ vector' \in Written(Operated(c), vector, "vector")
    /\ graph' \in Written(Operated(c), graph, "graph")
    /\ status' = [status EXCEPT ![tx[c]] = "failed"]
    /\ Goto(c, "abort")
    /\ UNCHANGED <<current, steps, executed, compensated, history, tx, at, inCommit, result, accepted,
                   sharedTurns>>

\* All steps executed: the transaction that is current now is completed.
CommitClose(c) ==
    /\ pc[c] = "close"
    /\ current # None
    /\ Finish("completed")
    /\ Return(c, "success")
    /\ UNCHANGED <<steps, executed, compensated, dbVars, tx, at, inCommit>>

\* currentTransaction was cleared meanwhile: a TypeError, caught.
CommitCloseNone(c) ==
    /\ pc[c] = "close"
    /\ current = None
    /\ Goto(c, "rollback")
    /\ UNCHANGED <<tcVars, dbVars, tx, at, inCommit, result>>

-----------------------------------------------------------------------------
(* rollbackTransaction, called by commitTransaction and by its callers *)

\* compensateTransaction of tx[c] goes on from step k downward.
Walk(c, t, k) ==
    LET left == {i \in executed[t] : i <= k} IN
    \/ /\ left = {}
       /\ Goto(c, "settle")
       /\ UNCHANGED at
    \/ \E i \in left :
          /\ \A j \in left : j <= i
          /\ at' = [at EXCEPT ![c] = i]
          /\ Goto(c, "undo")

RollbackStart(c) ==
    /\ current # None
    /\ tx' = [tx EXCEPT ![c] = current]
    /\ status' = [status EXCEPT ![current] = "compensating"]
    /\ Walk(c, current, Len(steps[current]))

\* commitTransaction's own rollback, then its caller's.
Abort(c) ==
    /\ pc[c] = "abort"
    /\ \/ /\ RollbackStart(c)
          /\ inCommit' = [inCommit EXCEPT ![c] = TRUE]
       \/ /\ current = None
          /\ Goto(c, "rollback")
          /\ UNCHANGED <<status, tx, at, inCommit>>
    /\ UNCHANGED <<current, steps, executed, compensated, history, result, dbVars>>

Rollback(c) ==
    /\ pc[c] = "rollback"
    /\ \/ RollbackStart(c) /\ UNCHANGED result
       \/ /\ current = None
          /\ Return(c, "failure")
          /\ UNCHANGED <<status, tx, at>>
    /\ UNCHANGED <<current, steps, executed, compensated, history, inCommit, dbVars>>

\* Fault: the loop variable is not decremented.
CompensateAgain(c) ==
    /\ pc[c] = "undo" /\ NewTurn
    /\ compensated' = [compensated EXCEPT ![tx[c]] = @ \cup {at[c]}]
    /\ Walk(c, tx[c], at[c])
    /\ UNCHANGED <<current, status, steps, executed, history, tx, inCommit, result, dbVars>>

\* executeCompensatingOperation only logs and waits: no database changes.
Compensate(c) ==
    /\ pc[c] = "undo" /\ NewTurn
    /\ compensated' = [compensated EXCEPT ![tx[c]] = @ \cup {at[c]}]
    /\ Walk(c, tx[c], at[c] - 1)
    /\ UNCHANGED <<current, status, steps, executed, history, tx, inCommit, result, dbVars>>

\* What is current now is marked failed; when nothing is, a TypeError is caught.
RollbackSettle(c) ==
    /\ pc[c] = "settle"
    /\ \/ current # None /\ Finish("failed")
       \/ current = None /\ UNCHANGED <<current, status, history>>
    /\ \/ inCommit[c] /\ Goto(c, "rollback") /\ UNCHANGED result
       \/ ~inCommit[c] /\ Return(c, "failure")
    /\ inCommit' = [inCommit EXCEPT ![c] = FALSE]
    /\ UNCHANGED <<steps, executed, compensated, tx, at, dbVars>>

-----------------------------------------------------------------------------
Step(c) ==
    \/ StoreVector(c) \/ StoreGraph(c) \/ StoreGraphThrows(c)
    \/ AddVectorOperation(c) \/ AddGraphOperation(c)
    \/ CommitWithoutTransaction(c) \/ CommitEmpty(c) \/ CommitStart(c)
    \/ StepDone(c) \/ StepFailed(c) \/ CommitClose(c) \/ CommitCloseNone(c)
    \/ Abort(c) \/ Rollback(c) \/ Compensate(c) \/ RollbackSettle(c)

Next ==
    \E c \in Calls :
        \/ ReturnEarly(c)
        \/ BeginTransaction(c)
        \/ BeginRefused(c)
        \/ Step(c)

Spec == Init /\ [][Next]_vars

\* Databases answer, timers fire and queued continuations run.
Fairness == \A c \in Calls : WF_vars(Step(c))

FairSpec == Spec /\ Fairness

-----------------------------------------------------------------------------
(* What must be true. *)

\* Every error path of begin, commit and rollback clears currentTransaction:
\* once no call is under way the next beginTransaction is not refused.
Released == (\A c \in Calls : pc[c] \in {"idle", "done"}) => current = None

\* A transaction holds the operations of the call that began it and no others,
\* as long as a turn of the event loop resumes one call.
OwnSteps == ~sharedTurns => \A t \in Calls : \A i \in DOMAIN steps[t] : steps[t][i].by = t

\* Only the call that began a transaction ends it: a rollback does not hit the
\* transaction another call has begun meanwhile, as long as a turn of the event
\* loop resumes one call.
OwnEnd ==
    [][~sharedTurns => \A t \in Calls : current = t /\ current' # t =>
                          pc[t] \in {"commit", "close", "settle"} /\ pc'[t] # pc[t]]_vars

\* A store that began a transaction reports success only when that transaction
\* is completed, holds its two operations and nothing else, and the execution of
\* each answered success, as long as a turn of the event loop resumes one call.
\* That the databases then hold the chunks is not claimed: see Written.
SuccessIsAccepted == ~sharedTurns =>
    \A c \in Stores : result[c] = "success" /\ status[c] # "none" =>
        /\ status[c] = "completed"
        /\ executed[c] = DOMAIN steps[c] /\ Len(steps[c]) = 2
        /\ [by : {c}, db : {"vector", "graph"}] \subseteq accepted

\* Every call returns.
EveryCallReturns == \A c \in Calls : pc[c] \notin {"idle", "done"} ~> pc[c] = "done"

\* "Start transaction for cross-database consistency" (store): once the call
\* has returned, either both databases hold all its chunks or neither does.
CrossDatabaseConsistency ==
    \A c \in Stores : pc[c] = "done" => (c \in vector <=> c \in graph)
=============================================================================
