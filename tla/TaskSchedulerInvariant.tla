----------------------- MODULE TaskSchedulerInvariant -----------------------
(* The inductive invariant from which the safety of TaskScheduler follows.  *)
EXTENDS TaskScheduler

\* A run that has no row yet, or is past the end of it, has none that is open:
\* those that end here settle nothing any more.
QuietPlaces ==
    \A r \in Run : pc[r] \in {"created", "chained", "deferring"} => ~Open(r)

\* Forced runs are started by hand, never by a chain.
ForcedAreLive == \A r \in forced : pc[r] \notin {"none", "chained"}

\* An event task that was triggered while idle has had no run since, and only
\* event tasks are triggered.
TriggeredAreIdle ==
    \A t \in Task :
        /\ owed[t] # "no" => t \in EventTask
        /\ owed[t] = "idle" => \A r \in Run : Started(r) => task[r] # t

SchedulerInv ==
    /\ TypeOK /\ QuietPlaces /\ ForcedAreLive /\ TriggeredAreIdle
    /\ OpenRowsAreLive /\ ExecutingHasRun /\ HandlesAreLive /\ TriggerKept

\* The queue of a semaphore s holds the runs Q, each once; some were granted.
QueueIsExact(s, Q) ==
    /\ s.granted \subseteq Q
    /\ \A i \in 1..Len(s.waiters) : s.waiters[i] \in Q
    /\ \A r \in Q : \E i \in 1..Len(s.waiters) : s.waiters[i] = r
    /\ \A i, j \in 1..Len(s.waiters) : s.waiters[i] = s.waiters[j] => i = j

\* Its one permit is free and nobody waits for it, or it is with one run: one
\* of H, which are inside, or one that was woken to go inside.
PermitAccounted(s, H) ==
    \/ s.value = 1 /\ H \cup s.granted = {} /\ Pending(s) = {}
    \/ s.value = 0 /\ \E r \in Run : H \cup s.granted = {r}

Inside == {r \in Run : HasSlot(r)}
Queued == {r \in Run : pc[r] = "slot"}

SlotInv ==
    /\ QueueIsExact(semaphore, Queued)
    /\ PermitAccounted(semaphore, Inside)
    /\ \A r \in Queued : NeedsSlot(r)
=============================================================================
