-------------------------------- MODULE Saga --------------------------------
(***************************************************************************)
(* What a compensated transaction promises, without saying how: its steps  *)
(* take effect one after the other; after a failure the compensable ones   *)
(* are undone from the last to the first, and only then does it end.       *)
(*                                                                         *)
(* TransactionCoordinator implements this module (Refinement there).       *)
(***************************************************************************)
EXTENDS Naturals

CONSTANTS
    Tx,             \* the transactions that may be submitted
    MaxSteps,       \* bound on the number of steps of one transaction
    UndoMayFail     \* whether an undo can be given up

VARIABLES
    phase,      \* where each transaction stands
    plan,       \* plan[t][i]: step i of t has a compensating operation
    inEffect,   \* the steps of t whose effect stands
    owed        \* the steps of t still to be undone

sagaVars == <<phase, plan, inEffect, owed>>

Plans == UNION {[1..n -> BOOLEAN] : n \in 0..MaxSteps}

Phases == {"idle", "forward", "backward", "committed", "aborted"}

SagaTypeOK ==
    /\ phase \in [Tx -> Phases]
    /\ plan \in [Tx -> Plans]
    /\ inEffect \in [Tx -> SUBSET (1..MaxSteps)]
    /\ owed \in [Tx -> SUBSET (1..MaxSteps)]

SagaInit ==
    /\ phase = [t \in Tx |-> "idle"]
    /\ plan = [t \in Tx |-> <<>>]
    /\ inEffect = [t \in Tx |-> {}]
    /\ owed = [t \in Tx |-> {}]

Begin(t, p) ==
    /\ phase[t] = "idle"
    /\ plan' = [plan EXCEPT ![t] = p]
    /\ phase' = [phase EXCEPT ![t] = IF DOMAIN p = {} THEN "committed" ELSE "forward"]
    /\ UNCHANGED <<inEffect, owed>>

\* The next step takes effect; the last one commits.
Perform(t) ==
    /\ phase[t] = "forward"
    /\ \E i \in DOMAIN plan[t] \ inEffect[t] :
          /\ \A j \in DOMAIN plan[t] \ inEffect[t] : i <= j
          /\ inEffect' = [inEffect EXCEPT ![t] = @ \cup {i}]
          /\ phase' = [phase EXCEPT ![t] =
                          IF DOMAIN plan[t] = inEffect[t] \cup {i} THEN "committed" ELSE @]
    /\ UNCHANGED <<plan, owed>>

\* A step fails: from now on the transaction only goes backward.
Fail(t) ==
    /\ phase[t] = "forward"
    /\ phase' = [phase EXCEPT ![t] = "backward"]
    /\ owed' = [owed EXCEPT ![t] = {i \in inEffect[t] : plan[t][i]}]
    /\ UNCHANGED <<plan, inEffect>>

\* The last step still owed is undone, or given up.
Undo(t) ==
    /\ phase[t] = "backward"
    /\ \E i \in owed[t] :
          /\ \A j \in owed[t] : j <= i
          /\ owed' = [owed EXCEPT ![t] = @ \ {i}]
          /\ \/ inEffect' = [inEffect EXCEPT ![t] = @ \ {i}]
             \/ UndoMayFail /\ UNCHANGED inEffect
    /\ UNCHANGED <<phase, plan>>

Abort(t) ==
    /\ phase[t] = "backward"
    /\ owed[t] = {}
    /\ phase' = [phase EXCEPT ![t] = "aborted"]
    /\ UNCHANGED <<plan, inEffect, owed>>

SagaNext ==
    \E t \in Tx :
        \/ \E p \in Plans : Begin(t, p)
        \/ Perform(t)
        \/ Fail(t)
        \/ Undo(t)
        \/ Abort(t)

SagaSpec == SagaInit /\ [][SagaNext]_sagaVars

SagaFairness == \A t \in Tx : WF_sagaVars(Perform(t) \/ Fail(t) \/ Undo(t) \/ Abort(t))

SagaFairSpec == SagaSpec /\ SagaFairness
=============================================================================
