SPECIFICATION Spec
CONSTANTS
    Renewer = {r1}
    Enroller = {n1, n2}
    Leaver = {l1}
    First = First
    FirstDevice = FirstDevice
    Stages = {"fresh", "old", "current"}
    Faults = {"lost", "crash", "io"}
    Absent = absent
    Blank = blank
    r1 = r1
    n1 = n1
    n2 = n2
    l1 = l1
SYMMETRY Symmetry
CHECK_DEADLOCK FALSE
INVARIANTS
    IdentityIsWhole
    OneDevice
