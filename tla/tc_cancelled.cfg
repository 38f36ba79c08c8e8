\* One transaction and one cancel: what the cancel took out comes out completed.
SPECIFICATION Spec
CONSTANTS
    t1 = t1
    t2 = t2
    c1 = c1
    c2 = c2
    Tx = {t1}
    Cancels = {c1}
    MaxSteps = 2
    CompensationMayFail = FALSE
INVARIANTS CancelledStaysFailed
CHECK_DEADLOCK FALSE
