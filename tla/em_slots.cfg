\* Three calls that share one slot, with up to two inputs each.
SPECIFICATION FairSpec
CONSTANTS
    c1 = c1
    c2 = c2
    c3 = c3
    x = x
    y = y
    Calls = {c1, c2, c3}
    Texts = {x, y}
    MaxInputs = 2
    MaxConcurrent = 1
INVARIANTS SlotsCounted NoIdleSlot ResultIsComplete
PROPERTIES EveryCallReturns
CHECK_DEADLOCK FALSE
