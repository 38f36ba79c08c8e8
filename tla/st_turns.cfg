\* Two stores and a delete; their continuations share a turn of the event loop or not.
SPECIFICATION FairSpec
CONSTANTS
    s1 = s1
    s2 = s2
    d1 = d1
    d2 = d2
    None = None
    Stores = {s1, s2}
    Deletes = {d1}
INVARIANTS Released OwnSteps SuccessIsAccepted
PROPERTIES OwnEnd EveryCallReturns
CHECK_DEADLOCK FALSE
