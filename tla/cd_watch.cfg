\* A file in the working directory and one in another watch path.
SPECIFICATION DetectionFairSpec
CONSTANTS
    f1 = f1
    f2 = f2
    r1 = r1
    r2 = r2
    Files = {f1, f2}
    Roots = {r1, r2}
    RootOf <- MCRootOf
    Key <- MCKey
    CwdKey <- MCCwdKey
    a = a
    b = b
    elsewhere = elsewhere
    Contents = {a, b}
    Absent = Absent
    Unread = Unread
    MaxChanges = 3
INVARIANTS Agreement OneTimer
PROPERTIES ComesToRest
CHECK_DEADLOCK FALSE
