\* One store whose graph database refuses.
SPECIFICATION Spec
CONSTANTS
    s1 = s1
    s2 = s2
    d1 = d1
    d2 = d2
    None = None
    Stores = {s1}
    Deletes = {}
INVARIANTS CrossDatabaseConsistency
CHECK_DEADLOCK FALSE
