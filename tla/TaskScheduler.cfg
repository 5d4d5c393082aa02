SPECIFICATION Spec
CONSTANTS
    event = event
    nightly = nightly
    Task = {event, nightly}
    EventTask = {event}
    OnceTask = {}
    SlotTask = {event, nightly}
    AdminTask = {}
    Pausable = {}
    Forcible = {nightly}
    Then <- MCThen
    Run = {r1, r2}
    NoRun = NoRun
    NoTask = NoTask
SYMMETRY Interchangeable
INVARIANTS
    OpenRowsAreLive
    ExecutingHasRun
    HandlesAreLive
    TriggerKept
    ModelSlotKept
CHECK_DEADLOCK FALSE
