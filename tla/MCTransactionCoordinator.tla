---------------------- MODULE MCTransactionCoordinator ----------------------
(***************************************************************************)
(* Model values for the runs of TransactionCoordinator.                    *)
(***************************************************************************)
EXTENDS TransactionCoordinator

CONSTANTS t1, t2, c1, c2

\* Every cancel is about t2: t1 is the transaction nobody cancels.
CancelInit == Init /\ \A c \in Cancels : target[c] = t2

CancelSpec == CancelInit /\ [][Next]_vars /\ Fairness
=============================================================================
