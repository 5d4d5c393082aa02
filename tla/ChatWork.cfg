SPECIFICATION MCSpec
CONSTANTS
    Old <- MCOld
    Preface = 1
    MinToSummarise = 4
    MinToCompact = 4
    Keep = 2
    Rewind = {2}
    MaxTurns = 2
    MaxUnsaved = 2
    Job = {j1}
    NoJob = NoJob
    MaxSlips = 1
    Tool = {k1}
    NoTool = NoTool
    MaxCrashes = 1
    MaxFaults = 2
INVARIANTS
    AckedIsContinued
    KilledStaysSilent
    DeliveredIsWritten
PROPERTIES
    DeliversOnceWhileIdle
    ContextComplete
    OnlyRefusalsPart
    FollowedUpInTheEnd
    DeliveredInTheEnd
CHECK_DEADLOCK FALSE
