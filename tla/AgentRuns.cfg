SPECIFICATION MCSpec
CONSTANTS
    MaxRuns = 3
    MaxText = 1
    Client = {c1}
INVARIANTS
    DoneMeansUnwound
    NothingMissed
    EndIsAnnounced
    PredecessorUnwound
PROPERTIES
    ImplementsStream
    ReplacedRunsEnd
    FinishedRunsFreed
    SubscribersReleased
CHECK_DEADLOCK FALSE
