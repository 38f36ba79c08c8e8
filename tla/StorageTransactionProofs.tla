---------------------- MODULE StorageTransactionProofs ----------------------
(***************************************************************************)
(* Theorems about StorageTransaction, for any sets of calls.  Released     *)
(* holds in both regimes of the event loop; whose operations a transaction *)
(* holds, who ends it and what success means are proved, as they are       *)
(* stated, for the regime in which a turn resumes one call.                *)
(***************************************************************************)
EXTENDS StorageTransaction, TLAPS

Active(c) == pc[c] \notin {"idle", "done"}

(* The parts of the inductive invariant. *)

Transactions ==
    /\ current \in Calls \cup {None}
    /\ status \in [Calls -> Status]
    /\ history \in Seq(Calls)
    /\ vector \subseteq Stores /\ graph \subseteq Stores
    /\ accepted \subseteq Operation
    /\ sharedTurns \in BOOLEAN

CallStates ==
    /\ pc \in [Calls -> {"idle", "vector", "graph", "addVector", "addGraph", "commit", "step",
                         "close", "abort", "rollback", "undo", "settle", "done"}]
    /\ tx \in [Calls -> Calls]
    /\ at \in [Calls -> Nat]
    /\ inCommit \in [Calls -> BOOLEAN]
    /\ result \in [Calls -> {"none", "success", "failure"}]
    /\ \A c \in Calls : pc[c] \in {"vector", "graph"} => c \in Stores

\* The step a call awaits is in the list, the one it undoes was executed.
Flags ==
    /\ steps \in [Calls -> Seq(Operation)]
    /\ executed \in [Calls -> SUBSET Nat]
    /\ compensated \in [Calls -> SUBSET Nat]
    /\ \A t \in Calls : executed[t] \subseteq DOMAIN steps[t]
    /\ \A t \in Calls : compensated[t] \subseteq executed[t]
    /\ \A c \in Calls : pc[c] = "step" => at[c] \in DOMAIN steps[tx[c]]
    /\ \A c \in Calls : pc[c] = "undo" => at[c] \in executed[tx[c]]

Typed == Transactions /\ CallStates /\ Flags

LEMMA TypedMeansTypeOK == Typed => TypeOK
BY DEF Typed, Transactions, CallStates, Flags, TypeOK

\* The call under way owns the transaction; it has none only in its last step,
\* when commitTransaction has rolled back and the caller rolls back again.
Alone ==
    /\ current # None => Active(current)
    /\ \A c \in Calls : Active(c) => current = c \/ (current = None /\ pc[c] = "rollback")
    /\ \A c, d \in Calls : Active(c) /\ Active(d) => c = d
    /\ \A c \in Calls : tx[c] = c

BothQueued(c) ==
    /\ Len(steps[c]) = 2
    /\ steps[c][1].db = "vector"
    /\ steps[c][2].db = "graph"

\* The execution of the call's operation on db answered success.
Accepted(c, db) == [by |-> c, db |-> db] \in accepted

Carried(c) ==
    /\ BothQueued(c)
    /\ executed[c] = 1 .. 2
    /\ status[c] = "completed"
    /\ Accepted(c, "vector") /\ Accepted(c, "graph")

\* What a call has queued, executed and had accepted where it stands.
Progress(c) ==
    /\ pc[c] = "idle" => status[c] = "none"
    /\ status[c] = "none" \/ pc[c] \in {"vector", "graph", "addVector"} =>
          steps[c] = <<>> /\ executed[c] = {}
    /\ pc[c] = "addGraph" =>
          Len(steps[c]) = 1 /\ steps[c][1].db = "vector" /\ executed[c] = {}
    /\ pc[c] = "commit" => BothQueued(c) /\ executed[c] = {}
    /\ pc[c] = "step" =>
          /\ BothQueued(c)
          /\ (at[c] = 1 /\ executed[c] = {}) \/ (at[c] = 2 /\ executed[c] = {1})
          /\ at[c] = 2 => Accepted(c, "vector")
    /\ pc[c] = "close" => Carried(c)
    /\ pc[c] # "done" => result[c] = "none"
    /\ pc[c] = "done" /\ result[c] = "success" /\ status[c] # "none" => Carried(c)
    /\ \A i \in DOMAIN steps[c] : steps[c][i].by = c

\* status is "none" exactly for a call that has not begun a transaction.
Begun(c) == Active(c) => status[c] # "none"

Serial == Alone /\ \A c \in Calls : Progress(c) /\ Begun(c)

IndInv == Typed /\ Released /\ (~sharedTurns => Serial)

-----------------------------------------------------------------------------
(* Types *)

LEMMA InitHolds == Init => IndInv
<1> SUFFICES ASSUME Init PROVE IndInv
  OBVIOUS
<1>1. Transactions /\ CallStates /\ Flags
  BY DEF Init, Transactions, CallStates, Flags, Status
<1>2. Released
  BY DEF Init, Released
<1>3. Alone
  BY DEF Init, Alone, Active
<1>4. ASSUME NEW c \in Calls PROVE Progress(c) /\ Begun(c)
  BY DEF Init, Progress, Begun, Active
<1> QED BY <1>1, <1>2, <1>3, <1>4 DEF IndInv, Typed, Serial

\* Walking down the executed steps finds the highest one or ends.
LEMMA WalkTypes ==
    ASSUME NEW c \in Calls, NEW t \in Calls, NEW k, Typed, Walk(c, t, k)
    PROVE  /\ pc' = [pc EXCEPT ![c] = "settle"] /\ at' = at
           \/ \E i \in executed[t] : /\ pc' = [pc EXCEPT ![c] = "undo"]
                                     /\ at' = [at EXCEPT ![c] = i]
                                     /\ i \in Nat
<1>1. executed[t] \subseteq Nat
  BY DEF Typed, Flags
<1> QED BY <1>1 DEF Walk, Goto

\* An operation is appended to the current transaction, or the call goes to its
\* rollback.
LEMMA AddTypes ==
    ASSUME NEW c \in Calls, NEW db \in {"vector", "graph"}, NEW next, Typed, AddOperation(c, db, next)
    PROVE  /\ steps' \in [Calls -> Seq(Operation)]
           /\ \A t \in Calls : DOMAIN steps[t] \subseteq DOMAIN steps'[t]
           /\ pc' = [pc EXCEPT ![c] = next] \/ pc' = [pc EXCEPT ![c] = "rollback"]
<1>1. steps \in [Calls -> Seq(Operation)] /\ current \in Calls \cup {None}
  BY DEF Typed, Flags, Transactions
<1>2. CASE current = None
  BY <1>1, <1>2 DEF AddOperation, Goto
<1>3. CASE current # None
  <2> DEFINE op == [by |-> c, db |-> db]
  <2>1. op \in Operation /\ current \in Calls
    BY <1>1, <1>3 DEF Operation
  <2>2. steps' = [steps EXCEPT ![current] = Append(@, op)] /\ pc' = [pc EXCEPT ![c] = next]
    BY <1>3 DEF AddOperation, Goto
  <2> HIDE DEF op
  <2>3. \A t \in Calls : steps'[t] = IF t = current THEN Append(steps[t], op) ELSE steps[t]
    BY <1>1, <2>1, <2>2
  <2>4. \A t \in Calls : DOMAIN steps[t] \subseteq DOMAIN steps'[t]
    <3>1. ASSUME NEW s \in Seq(Operation) PROVE DOMAIN s \subseteq DOMAIN Append(s, op)
      BY <2>1
    <3> QED BY <1>1, <2>3, <3>1
  <2>5. steps' \in [Calls -> Seq(Operation)]
    BY <1>1, <2>1, <2>2
  <2> QED BY <2>2, <2>4, <2>5
<1> QED BY <1>2, <1>3

LEMMA StoreTypes ==
    ASSUME NEW c \in Calls, Typed, StoreVector(c) \/ StoreGraph(c) \/ StoreGraphThrows(c)
    PROVE  Typed'
<1> USE DEF Typed
<1>1. CASE StoreVector(c)
  <2>1. c \in Stores
    BY <1>1 DEF StoreVector, CallStates
  <2> QED BY <2>1, <1>1 DEF StoreVector, Goto, tcVars, Transactions, CallStates, Flags
<1>2. CASE StoreGraph(c)
  <2>1. c \in Stores
    BY <1>2 DEF StoreGraph, CallStates
  <2>2. /\ steps' \in [Calls -> Seq(Operation)]
        /\ \A t \in Calls : DOMAIN steps[t] \subseteq DOMAIN steps'[t]
        /\ pc' = [pc EXCEPT ![c] = "addGraph"] \/ pc' = [pc EXCEPT ![c] = "rollback"]
    BY <1>2, AddTypes DEF StoreGraph
  <2> QED BY <2>1, <2>2, <1>2 DEF StoreGraph, Transactions, CallStates, Flags
<1>3. CASE StoreGraphThrows(c)
  BY <1>3 DEF StoreGraphThrows, Goto, tcVars, dbVars, Transactions, CallStates, Flags
<1> QED BY <1>1, <1>2, <1>3

LEMMA AddStepTypes ==
    ASSUME NEW c \in Calls, Typed, AddVectorOperation(c) \/ AddGraphOperation(c)
    PROVE  Typed'
<1>1. /\ steps' \in [Calls -> Seq(Operation)]
      /\ \A t \in Calls : DOMAIN steps[t] \subseteq DOMAIN steps'[t]
      /\ \E label \in {"addGraph", "commit", "rollback"} : pc' = [pc EXCEPT ![c] = label]
  <2>1. CASE AddVectorOperation(c)
    BY <2>1, AddTypes DEF AddVectorOperation
  <2>2. CASE AddGraphOperation(c)
    BY <2>2, AddTypes DEF AddGraphOperation
  <2> QED BY <2>1, <2>2
<1>2. UNCHANGED <<current, status, executed, compensated, history, dbVars, tx, at, inCommit, result>>
  BY DEF AddVectorOperation, AddGraphOperation
<1> QED BY <1>1, <1>2 DEF dbVars, Typed, Transactions, CallStates, Flags

LEMMA CommitTypes ==
    ASSUME NEW c \in Calls, Typed,
           CommitWithoutTransaction(c) \/ CommitEmpty(c) \/ CommitStart(c)
              \/ CommitClose(c) \/ CommitCloseNone(c)
    PROVE  Typed'
<1> USE DEF Typed
<1>1. CASE CommitWithoutTransaction(c) \/ CommitCloseNone(c)
  BY <1>1 DEF CommitWithoutTransaction, CommitCloseNone, Goto, tcVars, dbVars, Transactions,
     CallStates, Flags
<1>2. CASE CommitEmpty(c) \/ CommitClose(c)
  <2>1. current \in Calls
    BY <1>2 DEF CommitEmpty, CommitClose, Transactions
  <2>2. history' \in Seq(Calls)
    BY <1>2, <2>1 DEF CommitEmpty, CommitClose, Finish, Transactions
  <2> QED BY <1>2, <2>1, <2>2 DEF CommitEmpty, CommitClose, Finish, Return, Goto, dbVars, Status,
             Transactions, CallStates, Flags
<1>3. CASE CommitStart(c)
  <2>1. current \in Calls /\ steps[current] # <<>> /\ steps[current] \in Seq(Operation)
    BY <1>3 DEF CommitStart, Transactions, Flags
  <2>2. 1 \in DOMAIN steps[current]
    BY <2>1
  <2>3. Transactions' /\ CallStates'
    BY <1>3, <2>1 DEF CommitStart, Goto, dbVars, Status, Transactions, CallStates
  <2>4. Flags'
    BY <1>3, <2>1, <2>2 DEF CommitStart, Goto, dbVars, CallStates, Flags
  <2> QED BY <2>3, <2>4
<1> QED BY <1>1, <1>2, <1>3

LEMMA WrittenTypes ==
    ASSUME NEW c \in Calls, Typed, pc[c] = "step"
    PROVE  /\ tx[c] \in Calls /\ at[c] \in DOMAIN steps[tx[c]]
           /\ Operated(c) \in Operation
           /\ Written(Operated(c), vector, "vector") \subseteq SUBSET Stores
           /\ Written(Operated(c), graph, "graph") \subseteq SUBSET Stores
<1>1. tx[c] \in Calls /\ at[c] \in DOMAIN steps[tx[c]] /\ steps[tx[c]] \in Seq(Operation)
  BY DEF Typed, CallStates, Flags
<1>2. Operated(c) \in Operation
  BY <1>1 DEF Operated
<1> QED BY <1>1, <1>2 DEF Written, Typed, Transactions

LEMMA StepTypes ==
    ASSUME NEW c \in Calls, Typed, StepDone(c) \/ StepFailed(c)
    PROVE  Typed'
<1> USE DEF Typed
<1>1. pc[c] = "step"
  BY DEF StepDone, StepFailed
<1>2. tx[c] \in Calls /\ at[c] \in DOMAIN steps[tx[c]] /\ steps[tx[c]] \in Seq(Operation)
  BY <1>1 DEF CallStates, Flags
<1>3. vector' \subseteq Stores /\ graph' \subseteq Stores /\ accepted' \subseteq Operation
  BY <1>1, WrittenTypes DEF StepDone, StepFailed, Transactions
<1>4. CASE StepFailed(c)
  BY <1>2, <1>3, <1>4 DEF StepFailed, Goto, Status, Transactions, CallStates, Flags
<1>5. CASE StepDone(c)
  <2>1. at[c] \in Nat /\ at[c] \in 1 .. Len(steps[tx[c]])
    BY <1>2 DEF CallStates
  <2>2. executed' = [executed EXCEPT ![tx[c]] = @ \cup {at[c]}]
    BY <1>5 DEF StepDone
  <2>3. \/ /\ at' = [at EXCEPT ![c] = @ + 1] /\ at[c] + 1 \in DOMAIN steps[tx[c]]
           /\ UNCHANGED <<status, pc>>
        \/ /\ status' = [status EXCEPT ![tx[c]] = "completed"]
           /\ pc' = [pc EXCEPT ![c] = "close"] /\ at' = at
    BY <1>2, <1>5, <2>1 DEF StepDone, Goto
  <2>4. UNCHANGED <<current, steps, compensated, history, tx, inCommit, result, sharedTurns>>
    BY <1>5 DEF StepDone
  <2>5. Transactions'
    BY <1>2, <1>3, <2>3, <2>4 DEF Transactions, Status
  <2>6. CallStates'
    <3>1. at' \in [Calls -> Nat]
      BY <2>1, <2>3 DEF CallStates
    <3>2. \/ pc' = pc
          \/ pc' = [pc EXCEPT ![c] = "close"]
      BY <2>3
    <3> QED BY <2>4, <3>1, <3>2 DEF CallStates
  <2>7. Flags'
    <3>1. executed' \in [Calls -> SUBSET Nat]
      BY <1>2, <2>1, <2>2 DEF Flags
    <3>2. \A t \in Calls : executed'[t] \subseteq DOMAIN steps[t] /\ executed[t] \subseteq executed'[t]
      BY <1>2, <2>2 DEF Flags
    <3>3. \A d \in Calls : pc'[d] = "step" => at'[d] \in DOMAIN steps[tx[d]]
      <4>1. CASE pc' = pc
        BY <4>1, <2>3, <1>1 DEF Flags, CallStates
      <4>2. CASE pc' = [pc EXCEPT ![c] = "close"] /\ at' = at
        BY <4>2 DEF Flags, CallStates
      <4> QED BY <2>3, <4>1, <4>2
    <3>4. \A d \in Calls : pc'[d] = "undo" => pc[d] = "undo" /\ at'[d] = at[d]
      BY <1>1, <2>3 DEF CallStates
    <3> QED BY <3>1, <3>2, <3>3, <3>4, <2>4 DEF Flags, CallStates
  <2> QED BY <2>5, <2>6, <2>7
<1> QED BY <1>4, <1>5

LEMMA RollbackTypes ==
    ASSUME NEW c \in Calls, Typed,
           Abort(c) \/ Rollback(c) \/ Compensate(c) \/ RollbackSettle(c)
    PROVE  Typed'
<1> USE DEF Typed
<1>1. ASSUME RollbackStart(c), Abort(c) \/ Rollback(c)
      PROVE  Typed'
  <2>1. current \in Calls
    BY <1>1 DEF RollbackStart, Transactions
  <2>2. \/ pc' = [pc EXCEPT ![c] = "settle"] /\ at' = at
        \/ \E i \in executed[current] : /\ pc' = [pc EXCEPT ![c] = "undo"]
                                        /\ at' = [at EXCEPT ![c] = i]
                                        /\ i \in Nat
    BY <1>1, <2>1, WalkTypes DEF RollbackStart
  <2>3. /\ tx' = [tx EXCEPT ![c] = current]
        /\ status' = [status EXCEPT ![current] = "compensating"]
        /\ UNCHANGED <<current, steps, executed, compensated, history, result, dbVars>>
        /\ inCommit' = [inCommit EXCEPT ![c] = TRUE] \/ inCommit' = inCommit
    BY <1>1 DEF RollbackStart, Abort, Rollback, Transactions
  <2>4. at' \in [Calls -> Nat]
    BY <2>2 DEF CallStates
  <2>5. Transactions' /\ CallStates'
    BY <2>1, <2>2, <2>3, <2>4 DEF dbVars, Status, Transactions, CallStates
  <2>6. \A d \in Calls : pc'[d] = "step" => pc[d] = "step" /\ at'[d] = at[d] /\ tx'[d] = tx[d]
    BY <2>2, <2>3 DEF CallStates
  <2>7. \A d \in Calls : pc'[d] = "undo" => at'[d] \in executed[tx'[d]]
    BY <2>1, <2>2, <2>3 DEF CallStates, Flags
  <2> QED BY <2>3, <2>5, <2>6, <2>7 DEF Flags
<1>2. CASE Abort(c) /\ ~RollbackStart(c)
  BY <1>2 DEF Abort, Goto, dbVars, Transactions, CallStates, Flags
<1>3. CASE Rollback(c) /\ ~RollbackStart(c)
  BY <1>3 DEF Rollback, Return, Goto, dbVars, Transactions, CallStates, Flags
<1>4. CASE Compensate(c)
  <2>1. tx[c] \in Calls /\ at[c] \in executed[tx[c]] /\ at[c] \in Nat
    BY <1>4 DEF Compensate, CallStates, Flags
  <2>2. \/ pc' = [pc EXCEPT ![c] = "settle"] /\ at' = at
        \/ \E i \in executed[tx[c]] : /\ pc' = [pc EXCEPT ![c] = "undo"]
                                      /\ at' = [at EXCEPT ![c] = i]
                                      /\ i \in Nat
    BY <1>4, <2>1, WalkTypes DEF Compensate
  <2>3. /\ compensated' = [compensated EXCEPT ![tx[c]] = @ \cup {at[c]}]
        /\ UNCHANGED <<current, status, steps, executed, history, tx, inCommit, result, dbVars>>
    BY <1>4 DEF Compensate
  <2>4. at' \in [Calls -> Nat]
    BY <2>2 DEF CallStates
  <2>5. Transactions' /\ CallStates'
    BY <2>2, <2>3, <2>4 DEF dbVars, Transactions, CallStates
  <2>6. \A d \in Calls : pc'[d] = "step" => pc[d] = "step" /\ at'[d] = at[d]
    BY <2>2 DEF CallStates
  <2>7. \A d \in Calls : pc'[d] = "undo" => at'[d] \in executed[tx[d]]
    BY <2>1, <2>2 DEF CallStates, Flags
  <2>8. /\ compensated' \in [Calls -> SUBSET Nat]
        /\ \A t \in Calls : compensated'[t] \subseteq executed[t]
    BY <2>1, <2>3 DEF Flags
  <2> QED BY <2>3, <2>5, <2>6, <2>7, <2>8 DEF Flags
<1>5. CASE RollbackSettle(c)
  <2>1. /\ pc' = [pc EXCEPT ![c] = "rollback"] \/ pc' = [pc EXCEPT ![c] = "done"]
        /\ result' = result \/ result' = [result EXCEPT ![c] = "failure"]
        /\ inCommit' = [inCommit EXCEPT ![c] = FALSE]
        /\ UNCHANGED <<steps, executed, compensated, tx, at, dbVars>>
    BY <1>5 DEF RollbackSettle, Return, Goto
  <2>2. \/ UNCHANGED <<current, status, history>>
        \/ /\ current \in Calls /\ current' = None
           /\ status' = [status EXCEPT ![current] = "failed"]
           /\ history' = Append(history, current)
    BY <1>5 DEF RollbackSettle, Finish, Transactions
  <2>3. Transactions'
    <3>1. CASE UNCHANGED <<current, status, history>>
      BY <2>1, <3>1 DEF dbVars, Transactions
    <3>2. CASE current \in Calls /\ current' = None /\ history' = Append(history, current)
                 /\ status' = [status EXCEPT ![current] = "failed"]
      <4>1. history' \in Seq(Calls)
        BY <3>2 DEF Transactions
      <4> QED BY <2>1, <3>2, <4>1 DEF dbVars, Status, Transactions
    <3> QED BY <2>2, <3>1, <3>2
  <2> QED BY <2>1, <2>3 DEF CallStates, Flags
<1> QED BY <1>1, <1>2, <1>3, <1>4, <1>5

LEMMA TypesStep ==
    ASSUME Typed, [Next]_vars
    PROVE  Typed'
<1>1. CASE UNCHANGED vars
  BY <1>1 DEF vars, Typed, Transactions, CallStates, Flags
<1>2. ASSUME NEW c \in Calls, ReturnEarly(c) \/ BeginTransaction(c) \/ BeginRefused(c)
      PROVE  Typed'
  <2>1. CASE ReturnEarly(c)
    BY <2>1 DEF ReturnEarly, Return, Goto, tcVars, dbVars, Typed, Transactions, CallStates, Flags
  <2>2. CASE BeginTransaction(c)
    BY <2>2 DEF BeginTransaction, Goto, dbVars, Typed, Transactions, CallStates, Flags, Status
  <2>3. CASE BeginRefused(c)
    BY <2>3 DEF BeginRefused, Return, Goto, tcVars, dbVars, Typed, Transactions, CallStates, Flags
  <2> QED BY <1>2, <2>1, <2>2, <2>3
<1> QED BY <1>1, <1>2, StoreTypes, AddStepTypes, CommitTypes, StepTypes, RollbackTypes DEF Next, Step

-----------------------------------------------------------------------------
(* Nothing is current once all calls are at rest *)

LEMMA ReleasedStep ==
    ASSUME Typed, Released, [Next]_vars
    PROVE  Released'
<1>1. CASE UNCHANGED vars
  BY <1>1 DEF vars, Released
<1>2. ASSUME NEW c \in Calls, pc' = [pc EXCEPT ![c] = "done"], current' = None
      PROVE  Released'
  BY <1>2 DEF Released
<1>3. ASSUME NEW c \in Calls, NEW label, pc' = [pc EXCEPT ![c] = label], label \notin {"idle", "done"}
      PROVE  Released'
  <2>1. pc'[c] \notin {"idle", "done"}
    BY <1>3 DEF Typed, CallStates
  <2> QED BY <2>1 DEF Released
<1>4. ASSUME NEW c \in Calls, ReturnEarly(c) \/ BeginRefused(c)
      PROVE  Released'
  <2>1. pc[c] = "idle" /\ pc' = [pc EXCEPT ![c] = "done"] /\ current' = current
    BY <1>4 DEF ReturnEarly, BeginRefused, Return, Goto, tcVars
  <2> QED BY <2>1 DEF Released, Typed, CallStates
<1>5. ASSUME NEW c \in Calls, BeginTransaction(c)
      PROVE  Released'
  <2>1. \E label \in {"vector", "addVector"} : pc' = [pc EXCEPT ![c] = label]
    BY <1>5 DEF BeginTransaction, Goto
  <2> QED BY <2>1, <1>3
<1>6. ASSUME NEW c \in Calls,
             StoreVector(c) \/ StoreGraph(c) \/ StoreGraphThrows(c) \/ AddVectorOperation(c)
                \/ AddGraphOperation(c) \/ CommitWithoutTransaction(c) \/ CommitStart(c)
                \/ StepFailed(c) \/ CommitCloseNone(c)
      PROVE  Released'
  <2>1. \E label \in {"graph", "addGraph", "rollback", "commit", "step", "abort"} :
           pc' = [pc EXCEPT ![c] = label]
    BY <1>6 DEF StoreVector, StoreGraph, StoreGraphThrows, AddVectorOperation, AddGraphOperation,
       CommitWithoutTransaction, CommitStart, StepFailed, CommitCloseNone, AddOperation, Goto
  <2> QED BY <2>1, <1>3
<1>7. ASSUME NEW c \in Calls, CommitEmpty(c) \/ CommitClose(c)
      PROVE  Released'
  BY <1>7, <1>2 DEF CommitEmpty, CommitClose, Finish, Return, Goto
<1>8. ASSUME NEW c \in Calls, StepDone(c)
      PROVE  Released'
  <2>1. (pc' = pc /\ pc[c] = "step") \/ pc' = [pc EXCEPT ![c] = "close"]
    BY <1>8 DEF StepDone, Goto
  <2> QED BY <2>1, <1>3 DEF Released
<1>9. ASSUME NEW c \in Calls, Abort(c) \/ Rollback(c) \/ Compensate(c) \/ RollbackSettle(c)
      PROVE  Released'
  <2>1. \/ \E label \in {"settle", "undo", "rollback"} : pc' = [pc EXCEPT ![c] = label]
        \/ pc' = [pc EXCEPT ![c] = "done"] /\ current' = None
    BY <1>9 DEF Abort, Rollback, Compensate, RollbackSettle, RollbackStart, Walk, Return, Goto, Finish
  <2> QED BY <2>1, <1>2, <1>3
<1> QED BY <1>1, <1>4, <1>5, <1>6, <1>7, <1>8, <1>9 DEF Next, Step

-----------------------------------------------------------------------------
(* One call per turn *)

\* The call under way owns the transaction and is the only one under way.
LEMMA Owner ==
    ASSUME Serial, NEW c \in Calls, Active(c)
    PROVE  /\ tx[c] = c
           /\ \A d \in Calls \ {c} : ~Active(d)
           /\ current \in {c, None}
           /\ pc[c] # "rollback" => current = c
           /\ Progress(c) /\ status[c] # "none"
BY DEF Serial, Alone, Begun

\* A step of the only call under way touches no other call.
LEMMA OwnStep ==
    ASSUME NEW c \in Calls, Serial, CallsAssumption,
           \A d \in Calls \ {c} : ~Active(d),
           \A d \in Calls \ {c} : /\ pc'[d] = pc[d] /\ status'[d] = status[d]
                                  /\ steps'[d] = steps[d] /\ executed'[d] = executed[d]
                                  /\ result'[d] = result[d],
           \A d \in Calls : tx'[d] = d,
           accepted \subseteq accepted',
           IF Active(c)' THEN current' = c \/ (current' = None /\ pc'[c] = "rollback")
                         ELSE current' = None,
           Progress(c)', Begun(c)'
    PROVE  Serial'
<1>1. \A d \in Calls \ {c} : ~Active(d)'
  BY DEF Active
<1>2. Alone'
  BY <1>1, None \notin Calls DEF Alone, CallsAssumption
<1>3. ASSUME NEW d \in Calls \ {c} PROVE Progress(d)' /\ Begun(d)'
  <2>1. Progress(d) /\ ~Active(d)
    BY DEF Serial
  <2>2. pc'[d] = pc[d] /\ status'[d] = status[d] /\ steps'[d] = steps[d] /\ executed'[d] = executed[d]
        /\ result'[d] = result[d]
    OBVIOUS
  <2>3. Carried(d) => Carried(d)'
    BY <2>2 DEF Carried, BothQueued, Accepted
  <2> QED BY <1>1, <2>1, <2>2, <2>3 DEF Progress, Begun, Active
<1> QED BY <1>2, <1>3 DEF Serial

\* A call that is turned away, or has nothing to do, disturbs no one.
LEMMA AtOnce ==
    ASSUME NEW c \in Calls, Typed, Serial, ReturnEarly(c) \/ BeginRefused(c)
    PROVE  Serial'
<1>1. /\ pc[c] = "idle" /\ pc' = [pc EXCEPT ![c] = "done"]
      /\ \E answer : result' = [result EXCEPT ![c] = answer]
      /\ UNCHANGED <<tcVars, dbVars, tx, at>>
  BY DEF ReturnEarly, BeginRefused, Return, Goto
<1>2. \A d \in Calls : Active(d)' <=> Active(d)
  BY <1>1 DEF Active, Typed, CallStates
<1>3. Alone'
  <2>1. \A d \in Calls : Active(d) => pc'[d] = pc[d]
    BY <1>1 DEF Active, Typed, CallStates
  <2> QED BY <1>1, <1>2, <2>1 DEF Serial, Alone, Active, tcVars, Typed, Transactions
<1>4. ASSUME NEW d \in Calls PROVE Progress(d)' /\ Begun(d)'
  <2>1. Progress(d) /\ Begun(d)
    BY DEF Serial
  <2>2. CASE d = c
    BY <1>1, <2>1, <2>2 DEF Progress, Begun, Active, tcVars, Typed, CallStates
  <2>3. CASE d # c
    <3>1. pc'[d] = pc[d] /\ result'[d] = result[d]
      BY <1>1, <2>3 DEF Typed, CallStates
    <3> QED BY <1>1, <2>1, <3>1 DEF Progress, Begun, Active, Carried, BothQueued, Accepted, tcVars, dbVars
  <2> QED BY <2>2, <2>3
<1> QED BY <1>3, <1>4 DEF Serial

LEMMA BeginSerial ==
    ASSUME NEW c \in Calls, Typed, Serial, ~sharedTurns, BeginTransaction(c)
    PROVE  Serial'
<1>1. \A d \in Calls : ~Active(d)
  BY CallsAssumption DEF CallsAssumption, BeginTransaction, NewTurn, Micro, Serial, Alone
<1>2. /\ current' = c /\ status' = [status EXCEPT ![c] = "pending"]
      /\ pc[c] = "idle" /\ pc' = [pc EXCEPT ![c] = IF c \in Stores THEN "vector" ELSE "addVector"]
      /\ UNCHANGED <<steps, executed, result, tx, accepted>>
  BY DEF BeginTransaction, Goto, dbVars
<1>3. status'[c] = "pending" /\ pc'[c] \in {"vector", "addVector"}
  BY <1>2 DEF Typed, Transactions, CallStates
<1>4. Progress(c)' /\ Begun(c)'
  BY <1>2, <1>3 DEF Serial, Progress, Begun
<1> QED BY <1>1, <1>2, <1>3, <1>4, OwnStep, CallsAssumption
        DEF Serial, Alone, Active, Typed, Transactions, CallStates

LEMMA StoreSerial ==
    ASSUME NEW c \in Calls, Typed, Serial, StoreVector(c)
    PROVE  Serial'
<1>1. /\ pc[c] = "vector" /\ pc' = [pc EXCEPT ![c] = "graph"]
      /\ UNCHANGED <<current, status, steps, executed, result, tx, accepted>>
  BY DEF StoreVector, Goto, tcVars
<1>2. Active(c)
  BY <1>1 DEF Active
<1>3. pc'[c] = "graph" /\ \A d \in Calls \ {c} : pc'[d] = pc[d]
  BY <1>1 DEF Typed, CallStates
<1>4. Progress(c)' /\ Begun(c)'
  BY <1>1, <1>2, <1>3, Owner DEF Progress, Begun
<1> QED BY <1>1, <1>2, <1>3, <1>4, Owner, OwnStep, CallsAssumption DEF Serial, Alone, Active

\* The operation goes to the call's own transaction.
LEMMA AddSerial ==
    ASSUME NEW c \in Calls, Typed, Serial,
           StoreGraph(c) \/ AddVectorOperation(c) \/ AddGraphOperation(c)
    PROVE  Serial'
<1>1. /\ pc[c] \in {"graph", "addVector", "addGraph"}
      /\ UNCHANGED <<current, status, executed, result, tx, accepted>>
  BY DEF StoreGraph, AddVectorOperation, AddGraphOperation, dbVars
<1>2. Active(c)
  BY <1>1 DEF Active
<1>3. current = c /\ current # None
  BY <1>1, <1>2, Owner, CallsAssumption DEF CallsAssumption
<1>4. \E db, next : /\ pc[c] \in {"graph", "addVector"} => db = "vector" /\ next = "addGraph"
                    /\ pc[c] = "addGraph" => db = "graph" /\ next = "commit"
                    /\ steps' = [steps EXCEPT ![c] = Append(@, [by |-> c, db |-> db])]
                    /\ pc' = [pc EXCEPT ![c] = next]
  BY <1>3 DEF StoreGraph, AddVectorOperation, AddGraphOperation, AddOperation, Goto
<1>5. PICK db, next : /\ pc[c] \in {"graph", "addVector"} => db = "vector" /\ next = "addGraph"
                      /\ pc[c] = "addGraph" => db = "graph" /\ next = "commit"
                      /\ steps' = [steps EXCEPT ![c] = Append(@, [by |-> c, db |-> db])]
                      /\ pc' = [pc EXCEPT ![c] = next]
  BY <1>4
<1>6. /\ db \in {"vector", "graph"} /\ next \in {"addGraph", "commit"}
      /\ pc'[c] = next /\ \A d \in Calls \ {c} : pc'[d] = pc[d] /\ steps'[d] = steps[d]
      /\ steps'[c] = Append(steps[c], [by |-> c, db |-> db])
      /\ steps[c] \in Seq(Operation)
  BY <1>1, <1>5 DEF Typed, CallStates, Flags
<1>7. Progress(c) /\ status[c] # "none" /\ tx[c] = c
  BY <1>2, Owner
<1>8. Progress(c)' /\ Begun(c)'
  <2>1. CASE pc[c] \in {"graph", "addVector"}
    <3>1. steps[c] = <<>> /\ executed[c] = {} /\ db = "vector" /\ next = "addGraph"
      BY <1>5, <1>7, <2>1 DEF Progress
    <3>2. steps'[c] = <<[by |-> c, db |-> "vector"]>>
      BY <1>6, <3>1
    <3> QED BY <1>1, <1>6, <1>7, <3>1, <3>2 DEF Progress, Begun
  <2>2. CASE pc[c] = "addGraph"
    <3>1. /\ Len(steps[c]) = 1 /\ steps[c][1].db = "vector" /\ steps[c][1].by = c
          /\ executed[c] = {} /\ db = "graph" /\ next = "commit"
      BY <1>5, <1>6, <1>7, <2>2 DEF Progress
    <3>2. /\ Len(steps'[c]) = 2 /\ steps'[c][1] = steps[c][1]
          /\ steps'[c][2] = [by |-> c, db |-> "graph"]
          /\ DOMAIN steps'[c] = {1, 2}
      BY <1>6, <3>1
    <3> QED BY <1>1, <1>6, <1>7, <3>1, <3>2 DEF Progress, Begun, BothQueued
  <2> QED BY <1>1, <2>1, <2>2
<1>9. current' = c /\ Active(c)'
  BY <1>1, <1>3, <1>6 DEF Active
<1> QED BY <1>1, <1>2, <1>6, <1>8, <1>9, Owner, OwnStep, CallsAssumption DEF Serial, Alone

LEMMA CommitStartSerial ==
    ASSUME NEW c \in Calls, Typed, Serial, CommitStart(c)
    PROVE  Serial'
<1>1. pc[c] = "commit" /\ Active(c)
  BY DEF CommitStart, Active
<1>2. current = c /\ Progress(c)
  BY <1>1, Owner
<1>3. /\ status' = [status EXCEPT ![c] = "executing"]
      /\ tx' = [tx EXCEPT ![c] = c] /\ at' = [at EXCEPT ![c] = 1] /\ pc' = [pc EXCEPT ![c] = "step"]
      /\ UNCHANGED <<current, steps, executed, result, accepted>>
  BY <1>2 DEF CommitStart, Goto, dbVars
<1>4. /\ status'[c] = "executing" /\ at'[c] = 1 /\ pc'[c] = "step"
      /\ \A d \in Calls \ {c} : pc'[d] = pc[d] /\ status'[d] = status[d]
  BY <1>3 DEF Typed, Transactions, CallStates
<1>5. Progress(c)' /\ Begun(c)'
  <2>1. BothQueued(c) /\ executed[c] = {} /\ \A i \in DOMAIN steps[c] : steps[c][i].by = c
    BY <1>1, <1>2 DEF Progress
  <2>2. BothQueued(c)' /\ executed'[c] = {} /\ \A i \in DOMAIN steps'[c] : steps'[c][i].by = c
    BY <1>3, <2>1 DEF BothQueued
  <2>3. result'[c] = "none"
    BY <1>1, <1>2, <1>3 DEF Progress
  <2>4. at'[c] = 1 /\ at'[c] # 2 /\ status'[c] # "none" /\ pc'[c] = "step"
    BY <1>4
  <2>5. Begun(c)'
    BY <2>4 DEF Begun
  <2>6. Progress(c)'
    BY <2>2, <2>3, <2>4 DEF Progress
  <2> QED BY <2>5, <2>6
<1>6. \A d \in Calls : tx'[d] = d
  BY <1>3 DEF Serial, Alone, Typed, CallStates
<1> QED BY <1>1, <1>2, <1>3, <1>4, <1>5, <1>6, Owner, OwnStep, CallsAssumption DEF Active

\* Steps execute in order; with the last one both databases have answered success.
LEMMA StepDoneSerial ==
    ASSUME NEW c \in Calls, Typed, Serial, StepDone(c)
    PROVE  Serial'
<1>1. pc[c] = "step" /\ Active(c)
  BY DEF StepDone, Active
<1>2. current = c /\ Progress(c) /\ tx[c] = c /\ status[c] # "none"
  BY <1>1, Owner
<1>3. /\ BothQueued(c) /\ DOMAIN steps[c] = {1, 2}
      /\ (at[c] = 1 /\ executed[c] = {}) \/ (at[c] = 2 /\ executed[c] = {1})
      /\ at[c] = 2 => Accepted(c, "vector")
      /\ \A i \in DOMAIN steps[c] : steps[c][i].by = c
  BY <1>1, <1>2 DEF Progress, BothQueued, Typed, Flags
<1>4. Operated(c) = steps[c][at[c]] /\ Operated(c) = [by |-> c, db |-> steps[c][at[c]].db]
  <2>1. steps[c] \in Seq(Operation) /\ at[c] \in DOMAIN steps[c]
    BY <1>3 DEF Typed, Flags
  <2>2. steps[c][at[c]] \in Operation
    BY <2>1
  <2> QED BY <1>2, <1>3, <2>1, <2>2 DEF Operated, Operation
<1>5. accepted' = accepted \cup {Operated(c)}
  BY DEF StepDone
<1>6. accepted \subseteq accepted' /\ Operated(c) \in accepted'
  BY <1>5
<1>7. /\ executed' = [executed EXCEPT ![c] = @ \cup {at[c]}]
      /\ UNCHANGED <<current, steps, result, tx>>
  BY <1>2 DEF StepDone
<1>8. executed'[c] = executed[c] \cup {at[c]} /\ \A d \in Calls \ {c} : executed'[d] = executed[d]
  BY <1>7 DEF Typed, Flags
<1>9. CASE at[c] = 1
  <2>1. at' = [at EXCEPT ![c] = @ + 1] /\ UNCHANGED <<status, pc>>
    BY <1>2, <1>3, <1>9 DEF StepDone, BothQueued
  <2>2. at'[c] = 2 /\ executed'[c] = {1}
    BY <1>3, <1>8, <1>9, <2>1 DEF Typed, CallStates
  <2>3. Accepted(c, "vector")'
    BY <1>3, <1>4, <1>6, <1>9 DEF Accepted, BothQueued
  <2>4. Progress(c)' /\ Begun(c)'
    BY <1>1, <1>2, <1>3, <1>7, <2>1, <2>2, <2>3 DEF Progress, Begun, BothQueued
  <2> QED BY <1>1, <1>2, <1>6, <1>7, <1>8, <2>1, <2>4, Owner, OwnStep, CallsAssumption
          DEF Active, Serial, Alone
<1>10. CASE at[c] = 2
  <2>1. /\ status' = [status EXCEPT ![c] = "completed"] /\ pc' = [pc EXCEPT ![c] = "close"]
        /\ at' = at
    BY <1>2, <1>3, <1>10 DEF StepDone, Goto, BothQueued
  <2>2. /\ status'[c] = "completed" /\ pc'[c] = "close" /\ executed'[c] = {1, 2}
        /\ \A d \in Calls \ {c} : pc'[d] = pc[d] /\ status'[d] = status[d]
    BY <1>3, <1>8, <1>10, <2>1 DEF Typed, Transactions, CallStates
  <2>3. Accepted(c, "vector")' /\ Accepted(c, "graph")'
    BY <1>3, <1>4, <1>6, <1>10 DEF Accepted, BothQueued
  <2>4. Carried(c)'
    BY <1>3, <1>7, <2>2, <2>3 DEF Carried, BothQueued, Accepted
  <2>5. result'[c] = "none"
    BY <1>1, <1>2, <1>7 DEF Progress
  <2>6. Progress(c)' /\ Begun(c)'
    BY <1>3, <1>7, <2>2, <2>4, <2>5 DEF Progress, Begun
  <2> QED BY <1>1, <1>2, <1>6, <1>7, <1>8, <2>1, <2>2, <2>6, Owner, OwnStep, CallsAssumption
          DEF Active, Serial, Alone
<1> QED BY <1>3, <1>9, <1>10

\* Once all steps are executed the call ends its own transaction.
LEMMA CloseSerial ==
    ASSUME NEW c \in Calls, Typed, Serial, CommitEmpty(c) \/ CommitClose(c)
    PROVE  Serial'
<1>1. pc[c] \in {"commit", "close"} /\ Active(c)
  BY DEF CommitEmpty, CommitClose, Active
<1>2. current = c /\ Progress(c) /\ tx[c] = c
  BY <1>1, Owner
<1>3. CommitClose(c) /\ pc[c] = "close" /\ Carried(c)
  <2>1. CommitEmpty(c) => Len(steps[c]) = 2 /\ steps[c] = <<>>
    BY <1>2 DEF CommitEmpty, Progress, BothQueued
  <2>2. ~CommitEmpty(c)
    BY <2>1
  <2> QED BY <1>2, <2>2 DEF CommitClose, Progress
<1>4. /\ status' = [status EXCEPT ![c] = "completed"] /\ current' = None
      /\ pc' = [pc EXCEPT ![c] = "done"] /\ result' = [result EXCEPT ![c] = "success"]
      /\ UNCHANGED <<steps, executed, tx, accepted>>
  BY <1>2, <1>3 DEF CommitClose, Finish, Return, Goto, dbVars
<1>5. /\ status'[c] = "completed" /\ pc'[c] = "done"
      /\ \A d \in Calls \ {c} : pc'[d] = pc[d] /\ status'[d] = status[d] /\ result'[d] = result[d]
  BY <1>4 DEF Typed, Transactions, CallStates
<1>6. Carried(c)'
  BY <1>3, <1>4, <1>5 DEF Carried, BothQueued, Accepted
<1>7. Progress(c)' /\ Begun(c)'
  BY <1>2, <1>4, <1>5, <1>6 DEF Progress, Begun, Active
<1> QED BY <1>1, <1>4, <1>5, <1>7, Owner, OwnStep, CallsAssumption DEF Active, Serial, Alone

\* On its way through the rollbacks a call moves no one's data, and fails.
LEMMA FailSerial ==
    ASSUME NEW c \in Calls, Typed, Serial,
           \/ StoreGraphThrows(c) \/ CommitWithoutTransaction(c) \/ StepFailed(c)
           \/ CommitCloseNone(c) \/ Abort(c) \/ Rollback(c) \/ Compensate(c) \/ RollbackSettle(c)
    PROVE  Serial'
<1>1. Active(c)
  BY DEF StoreGraphThrows, CommitWithoutTransaction, StepFailed, CommitCloseNone, Abort, Rollback,
     Compensate, RollbackSettle, Active
<1>2. tx[c] = c /\ Progress(c) /\ status[c] # "none" /\ current \in {c, None}
      /\ (pc[c] # "rollback" => current = c)
  BY <1>1, Owner
<1>3. None # c
  BY CallsAssumption DEF CallsAssumption
<1>4. ASSUME NEW label \in {"rollback", "abort", "settle", "undo"}, pc' = [pc EXCEPT ![c] = label],
             status' = status \/ (\E s \in Status \ {"none"} : status' = [status EXCEPT ![c] = s]),
             tx' = tx \/ tx' = [tx EXCEPT ![c] = c],
             current' = c \/ (current' = None /\ label = "rollback"),
             accepted \subseteq accepted', UNCHANGED <<steps, executed, result>>
      PROVE  Serial'
  <2>1. /\ pc'[c] = label /\ status'[c] # "none"
        /\ \A d \in Calls \ {c} : pc'[d] = pc[d] /\ status'[d] = status[d]
    BY <1>2, <1>4 DEF Typed, Transactions, CallStates
  <2>2. \A d \in Calls : tx'[d] = d
    BY <1>4 DEF Serial, Alone, Typed, CallStates
  <2>3. result'[c] = "none"
    BY <1>1, <1>2, <1>4 DEF Progress, Active
  <2>4. Progress(c)' /\ Begun(c)'
    BY <1>2, <1>4, <2>1, <2>3 DEF Progress, Begun
  <2> QED BY <1>1, <1>4, <2>1, <2>2, <2>4, Owner, OwnStep, CallsAssumption DEF Active
<1>5. ASSUME pc' = [pc EXCEPT ![c] = "done"], result' = [result EXCEPT ![c] = "failure"],
             status' = status \/ status' = [status EXCEPT ![c] = "failed"],
             current' = None, UNCHANGED <<steps, executed, tx, accepted>>
      PROVE  Serial'
  <2>1. /\ pc'[c] = "done" /\ result'[c] = "failure" /\ status'[c] # "none"
        /\ \A d \in Calls \ {c} : pc'[d] = pc[d] /\ status'[d] = status[d] /\ result'[d] = result[d]
    BY <1>2, <1>5 DEF Typed, Transactions, CallStates
  <2>2. Progress(c)' /\ Begun(c)'
    BY <1>2, <1>5, <2>1 DEF Progress, Begun, Active
  <2> QED BY <1>1, <1>5, <2>1, <2>2, Owner, OwnStep, CallsAssumption DEF Active, Serial, Alone
<1>6. CASE StoreGraphThrows(c)
  BY <1>2, <1>4, <1>6 DEF StoreGraphThrows, Goto, tcVars, dbVars
<1>7. CASE CommitWithoutTransaction(c) \/ CommitCloseNone(c)
  BY <1>2, <1>3, <1>7 DEF CommitWithoutTransaction, CommitCloseNone
<1>8. CASE StepFailed(c)
  <2>1. /\ UNCHANGED accepted
        /\ status' = [status EXCEPT ![c] = "failed"]
        /\ pc' = [pc EXCEPT ![c] = "abort"] /\ pc[c] = "step"
        /\ UNCHANGED <<current, steps, executed, tx, result>>
    BY <1>2, <1>8 DEF StepFailed, Goto
  <2> QED BY <1>2, <1>4, <2>1 DEF Status
<1>9. ASSUME RollbackStart(c), Abort(c) \/ Rollback(c)
      PROVE  Serial'
  <2>1. /\ current = c
        /\ status' = [status EXCEPT ![c] = "compensating"] /\ tx' = [tx EXCEPT ![c] = c]
        /\ UNCHANGED <<current, steps, executed, accepted>>
    BY <1>2, <1>9 DEF RollbackStart, Abort, Rollback, dbVars
  <2>2. \E label \in {"settle", "undo"} : pc' = [pc EXCEPT ![c] = label]
    BY <1>9 DEF RollbackStart, Walk, Goto
  <2>3. result' = result
    BY <1>3, <1>9, <2>1 DEF RollbackStart, Abort, Rollback
  <2> QED BY <1>4, <2>1, <2>2, <2>3 DEF Status
<1>10. CASE Abort(c) /\ ~RollbackStart(c)
  BY <1>2, <1>3, <1>10 DEF Abort
<1>11. CASE Rollback(c) /\ ~RollbackStart(c)
  BY <1>5, <1>11 DEF Rollback, Return, Goto, dbVars
<1>12. CASE Compensate(c)
  <2>1. \E label \in {"settle", "undo"} : pc' = [pc EXCEPT ![c] = label]
    BY <1>12 DEF Compensate, Walk, Goto
  <2>2. pc[c] = "undo" /\ UNCHANGED <<current, status, steps, executed, tx, result, accepted>>
    BY <1>12 DEF Compensate, dbVars
  <2> QED BY <1>2, <1>4, <2>1, <2>2
<1>13. CASE RollbackSettle(c)
  <2>1. /\ current = c /\ status' = [status EXCEPT ![c] = "failed"] /\ current' = None
        /\ UNCHANGED <<steps, executed, tx, accepted>>
    BY <1>2, <1>3, <1>13 DEF RollbackSettle, Finish, dbVars
  <2>2. \/ pc' = [pc EXCEPT ![c] = "rollback"] /\ result' = result
        \/ pc' = [pc EXCEPT ![c] = "done"] /\ result' = [result EXCEPT ![c] = "failure"]
    BY <1>13 DEF RollbackSettle, Return, Goto
  <2> QED BY <1>4, <1>5, <2>1, <2>2 DEF Status
<1> QED BY <1>6, <1>7, <1>8, <1>9, <1>10, <1>11, <1>12, <1>13

LEMMA SerialStep ==
    ASSUME Typed, Serial, ~sharedTurns, [Next]_vars
    PROVE  Serial'
<1>1. CASE UNCHANGED vars
  BY <1>1 DEF vars, Serial, Alone, Active, Progress, Begun, BothQueued, Carried, Accepted
<1> QED BY <1>1, AtOnce, BeginSerial, StoreSerial, AddSerial, CommitStartSerial, StepDoneSerial,
       CloseSerial, FailSerial DEF Next, Step

-----------------------------------------------------------------------------
(* The theorems *)

LEMMA RegimeStays == ASSUME [Next]_vars PROVE sharedTurns' = sharedTurns
BY DEF Next, Step, vars, dbVars, ReturnEarly, BeginTransaction, BeginRefused, StoreVector, StoreGraph,
   StoreGraphThrows, AddVectorOperation, AddGraphOperation, CommitWithoutTransaction, CommitEmpty,
   CommitStart, StepDone, StepFailed, CommitClose, CommitCloseNone, Abort, Rollback, Compensate,
   RollbackSettle

\* The inductive invariant: types, Released, and with one call per turn also who
\* owns the transaction and how far it is.
THEOREM Invariance == Spec => []IndInv
<1>1. IndInv /\ [Next]_vars => IndInv'
  BY TypesStep, ReleasedStep, SerialStep, RegimeStays DEF IndInv
<1> QED BY <1>1, InitHolds, PTL DEF Spec

\* Every variable keeps its type, whatever the calls do.
THEOREM TypeCorrect == Spec => []TypeOK
<1>1. IndInv => TypeOK
  BY TypedMeansTypeOK DEF IndInv
<1> QED BY <1>1, Invariance, PTL

\* Whatever fails and however calls interleave, begin, commit and rollback leave
\* no transaction behind that would refuse the next beginTransaction for good.
THEOREM TransactionsAreReleased == Spec => []Released
<1>1. IndInv => Released
  BY DEF IndInv
<1> QED BY <1>1, Invariance, PTL

\* With one call per turn, a transaction holds its own call's operations only.
THEOREM OperationsAreOwn == Spec => []OwnSteps
<1>1. IndInv => OwnSteps
  BY DEF IndInv, Serial, Progress, OwnSteps
<1> QED BY <1>1, Invariance, PTL

\* With one call per turn, a store that returns success has both its operations
\* executed, and answered with success, in its own completed transaction.
THEOREM SuccessMeansAccepted == Spec => []SuccessIsAccepted
<1>1. ASSUME IndInv, ~sharedTurns, NEW c \in Stores, result[c] = "success", status[c] # "none"
      PROVE  /\ status[c] = "completed"
             /\ executed[c] = DOMAIN steps[c] /\ Len(steps[c]) = 2
             /\ [by : {c}, db : {"vector", "graph"}] \subseteq accepted
  <2>1. c \in Calls /\ Progress(c)
    BY <1>1 DEF IndInv, Serial, Calls
  <2>2. Carried(c) /\ steps[c] \in Seq(Operation)
    BY <1>1, <2>1 DEF Progress, IndInv, Typed, Flags
  <2>3. DOMAIN steps[c] = 1 .. 2
    BY <2>2 DEF Carried, BothQueued, Accepted
  <2> QED BY <2>2, <2>3 DEF Carried, BothQueued, Accepted
<1>2. IndInv => SuccessIsAccepted
  BY <1>1 DEF SuccessIsAccepted
<1> QED BY <1>2, Invariance, PTL

\* With one call per turn, a transaction is ended by the call that began it.
THEOREM TransactionsEndByOwner == Spec => OwnEnd
<1>1. ASSUME IndInv, [Next]_vars, ~sharedTurns, NEW t \in Calls, current = t, current' # t
      PROVE  pc[t] \in {"commit", "close", "settle"} /\ pc'[t] # pc[t]
  <2>1. PICK c \in Calls : CommitEmpty(c) \/ CommitClose(c) \/ RollbackSettle(c) \/ BeginTransaction(c)
    BY <1>1 DEF Next, Step, vars, tcVars, ReturnEarly, BeginRefused, StoreVector, StoreGraph,
       StoreGraphThrows, AddVectorOperation, AddGraphOperation, CommitWithoutTransaction,
       CommitStart, StepDone, StepFailed, CommitCloseNone, Abort, Rollback, Compensate
  <2>2. ~BeginTransaction(c)
    BY <1>1, CallsAssumption DEF BeginTransaction, CallsAssumption
  <2>3. c = t /\ pc[c] \in {"commit", "close", "settle"}
    <3>1. pc[c] \in {"commit", "close", "settle"} /\ Active(c)
      BY <2>1, <2>2 DEF CommitEmpty, CommitClose, RollbackSettle, Active
    <3> QED BY <1>1, <3>1, Owner DEF IndInv
  <2>4. \E label \in {"done", "rollback"} : pc' = [pc EXCEPT ![c] = label]
    BY <2>1, <2>2 DEF CommitEmpty, CommitClose, RollbackSettle, Return, Goto
  <2> QED BY <1>1, <2>3, <2>4 DEF IndInv, Typed, CallStates
<1>2. IndInv /\ [Next]_vars =>
         [~sharedTurns => \A t \in Calls : current = t /\ current' # t =>
             pc[t] \in {"commit", "close", "settle"} /\ pc'[t] # pc[t]]_vars
  BY <1>1
<1> QED BY <1>2, Invariance, PTL DEF Spec, OwnEnd
=============================================================================
