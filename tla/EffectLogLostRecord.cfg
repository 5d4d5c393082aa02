SPECIFICATION Spec
CONSTANTS
    write = write
    elsewhere = elsewhere
    doc = doc
    other = other
    Effect = {write, elsewhere}
    Resource = {doc, other}
    Content = {"old", "new"}
    Overlaps <- MCOverlaps
    Scope <- MCScope
    Goals <- MCGoals
    Sight <- MCSight
    Writer = {w1}
    Agent = {w1}
    Reports = {"reported_success"}
    NoWriter = NoWriter
    Gone = Gone
    MaxCalls = 5
    MaxFaults = 2
    MaxCrashes = 0
PROPERTIES
    LosingARecordIsConservative
CHECK_DEADLOCK FALSE
