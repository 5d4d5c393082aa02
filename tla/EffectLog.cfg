SPECIFICATION FairSpec
CONSTANTS
    Writer = {w1, w2}
    Agent = {w1}
    Effect = {e1, e2}
    Sight = {s1}
    Reports = {"reported_success", "running"}
    NoWriter = NoWriter
    Gone = Gone
    MaxCalls = 3
    MaxFaults = 1
    MaxCrashes = 1
INVARIANTS
    FileIsHistory
    ViewsAreHistories
    GrantedClaimsSurvive
    MergedPrefixStable
    RecoveryNeverOverlapsReport
    LockHeldInsideAppend
PROPERTIES
    AppendOnly
    AloneRecoversOrphans
    ImplementsLifecycle
    RecoveryCompletes
CHECK_DEADLOCK FALSE
