SPECIFICATION MCSpec
CONSTANTS
    Chat = {s1, s2}
    Test = {t1}
    Nowhere = Nowhere
    Run = {r1, r2}
    MaxCards = 3
    MaxPending = 2
    MaxUpsets = 1
SYMMETRY Interchangeable
INVARIANTS
    RunsAsApproved
    SkipsAreGranted
PROPERTIES
    TestsIndependent
    ImplementsCards
CHECK_DEADLOCK FALSE
