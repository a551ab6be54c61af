SPECIFICATION FairSpec
CONSTANTS
    Hook = {h1}
    Request = {q1}
    LookupTime = 1
    IdentityTime = 1
    HookTime = 1
    CallTime = 2
    ClientTime = 1
    Window = 4
    HarnessTime = 9
    Lifetimes = {6}
    Horizon = 10
    h1 = h1
    q1 = q1
CHECK_DEADLOCK FALSE
INVARIANTS
    NeverFailsOpen
    AllowedIsApproved
    ExecutedOnce
    ApprovedIsRetried
PROPERTIES
    EveryActionAnswered
