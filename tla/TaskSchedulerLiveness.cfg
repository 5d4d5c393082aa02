SPECIFICATION FairSpec
CONSTANTS
    event = event
    nightly = nightly
    Task = {nightly}
    EventTask = {}
    OnceTask = {}
    SlotTask = {nightly}
    AdminTask = {nightly}
    Pausable = {nightly}
    Forcible = {nightly}
    Then <- MCThen
    Run = {r1, r2}
    NoRun = NoRun
    NoTask = NoTask
PROPERTIES
    RunsEnd
CHECK_DEADLOCK FALSE
