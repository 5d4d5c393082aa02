SPECIFICATION MCSpec
CONSTANTS
    write = write
    remove = remove
    command = command
    dir = dir
    doc = doc
    Effect = {write, remove, command}
    Resource = {dir, doc}
    Content = {"old", "new"}
    Overlaps <- MCOverlaps
    Scope <- MCScope
    Goals <- MCGoals
    Sight <- MCSight
    Reports = {"reported_success", "running", "interrupted"}
    MaxReads = 2
INVARIANTS
    FreshIsTrue
    VerifiedIsTrue
    ContradictedIsTrue
PROPERTIES
    OnlyReadingsVerify
CHECK_DEADLOCK FALSE
