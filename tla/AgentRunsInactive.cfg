SPECIFICATION Spec
CONSTANTS
    MaxRuns = 2
    MaxText = 1
    Client = {c1}
INVARIANTS
    InactiveIsQuiet
CHECK_DEADLOCK FALSE
