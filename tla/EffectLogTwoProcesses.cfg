SPECIFICATION Spec
CONSTANTS
    Writer = {w1, w2}
    Agent = {w1}
    Effect = {e1}
    Sight = {}
    Reports = {"reported_success"}
    NoWriter = NoWriter
    Gone = Gone
    MaxCalls = 2
    MaxFaults = 0
    MaxCrashes = 1
PROPERTIES
    RecoveryOnlyOrphans
CHECK_DEADLOCK FALSE
