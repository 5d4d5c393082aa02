SPECIFICATION TranscriptSpec
CONSTANTS
    Old <- MCOld
    Preface = 1
    MinToSummarise = 4
    MinToCompact = 6
    Keep = 4
    Rewind = {1}
    MaxTurns = 1
    MaxUnsaved = 0
PROPERTIES
    CompactionKeeps
CHECK_DEADLOCK FALSE
