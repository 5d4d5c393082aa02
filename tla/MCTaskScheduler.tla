-------------------------- MODULE MCTaskScheduler --------------------------
(* TaskScheduler with an event task and a scheduled one, which the first    *)
(* starts; the configurations say which of them wait for the model slot.    *)
EXTENDS TaskSchedulerInvariant, TLC

CONSTANTS event, nightly

MCThen == [t \in Task |-> IF t = event /\ nightly \in Task THEN nightly ELSE NoTask]
Interchangeable == Permutations(Run)
=============================================================================
