\* Two queries, two connects, a disconnect and a tick of the health check.
SPECIFICATION Spec
CONSTANTS
    q1 = q1
    q2 = q2
    q3 = q3
    k1 = k1
    k2 = k2
    d1 = d1
    h1 = h1
    h2 = h2
    Queries = {q1, q2}
    Connects = {k1, k2}
    Disconnects = {d1}
    Checks = {h1}
    MinPoolSize = 2
    MaxPoolSize = 2
SYMMETRY Symmetry
VIEW View
INVARIANTS SoleUse Accounted OvercountIsStuck ExactUntilDisturbed
CHECK_DEADLOCK FALSE
