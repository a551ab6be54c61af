SPECIFICATION Spec
CONSTANTS
    Renewer = {r1, r2}
    Enroller = {}
    Leaver = {}
    First = First
    FirstDevice = FirstDevice
    Stages = {"current"}
    Faults = {}
    Absent = absent
    Blank = blank
    r1 = r1
    r2 = r2
SYMMETRY Symmetry
CHECK_DEADLOCK FALSE
INVARIANTS
    CertificateMatchesKey
