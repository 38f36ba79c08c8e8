\* Two stores for two projects and a search, two connections.
SPECIFICATION Spec
CONSTANTS
    s1 = s1
    s2 = s2
    q1 = q1
    p = p
    q = q
    Stores = {s1, s2}
    Searches = {q1}
    Projects = {p, q}
    Project <- MCProject
    Default = Default
    None = None
    k1 = k1
    k2 = k2
    Connections = {k1, k2}
    MinPoolSize = 2
INVARIANTS InOwnCollection InOwnSpace
SYMMETRY Symmetry
CHECK_DEADLOCK FALSE
