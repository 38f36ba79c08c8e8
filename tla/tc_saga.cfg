\* Two transactions of at most three steps, two cancels race the second one;
\* compensations may throw.
SPECIFICATION CancelSpec
CONSTANTS
    t1 = t1
    t2 = t2
    c1 = c1
    c2 = c2
    Tx = {t1, t2}
    Cancels = {c1, c2}
    MaxSteps = 3
    CompensationMayFail = TRUE
INVARIANTS Custody Kept ResultIsHonest CancelTakesOut
PROPERTIES UndoInReverse ImplementsSaga
CHECK_DEADLOCK FALSE
