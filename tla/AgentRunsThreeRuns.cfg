SPECIFICATION Spec
CONSTANTS
    MaxRuns = 3
    MaxText = 1
    Client = {c1}
INVARIANTS
    OneWriter
CHECK_DEADLOCK FALSE
