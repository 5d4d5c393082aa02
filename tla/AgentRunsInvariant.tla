------------------------- MODULE AgentRunsInvariant -------------------------
(***************************************************************************)
(* The inductive invariant of AgentRuns.                                   *)
(***************************************************************************)
EXTENDS AgentRuns

\* A task drains exactly while its generator is being run, and a generator is
\* untouched until its task has begun.
TasksDrive ==
    \A r \in Run :
        /\ task[r] = "draining" <=> generator[r] \in Writing
        /\ task[r] \in {"none", "created", "waiting"} => generator[r] = "unstarted"

\* A task that drains has nothing left to wait for.
Barrier == \A r \in Run : task[r] = "draining" => Clear(r)

\* A run that is done has no generator left to publish anything.
DoneIsClosed == \A r \in Run : status[r] = "done" => generator[r] = "closed"

\* What a client has received is what it has counted, and never more than its
\* run has published.
InOrder(c) ==
    /\ got[c] = [i \in 1..next[c] |-> i]
    /\ at[c] # "idle" => run[c] \in Run /\ next[c] <= Len(buffer[run[c]])
    /\ at[c] \in {"idle", "bound", "complete"} => queue[c] = <<>>

\* The queue of a subscriber holds positions of its run's buffer in their
\* order, and the sentinel only once the run is over.
QueueOrdered(c) ==
    /\ \A i \in 1..Len(queue[c]) :
          IF queue[c][i] = Sentinel
          THEN status[run[c]] # "running"
          ELSE queue[c][i] <= Len(buffer[run[c]])
    /\ \A i, j \in 1..Len(queue[c]) :
          i < j /\ queue[c][i] # Sentinel /\ queue[c][j] # Sentinel =>
              queue[c][i] < queue[c][j]

\* Whatever a live subscriber has not yielded yet waits in its queue.
NothingLost(c) ==
    at[c] = "live" =>
        \A p \in (next[c] + 1)..Len(buffer[run[c]]) :
            \E i \in 1..Len(queue[c]) : queue[c][i] = p

\* A client leaves the queue only when its run is over, and is complete only
\* with everything a run that is done has published.
EndsOver(c) ==
    /\ at[c] \in {"flush", "complete"} => status[run[c]] # "running"
    /\ at[c] = "complete" /\ status[run[c]] = "done" =>
          next[c] = Len(buffer[run[c]])

Served(c) == InOrder(c) /\ QueueOrdered(c) /\ NothingLost(c) /\ EndsOver(c)

\* The inductive invariant of the runs of a session and of their clients
\* (agent_runs.py:117-267), from which the properties are proved.
AInv ==
    /\ TypeOK
    /\ TasksDrive /\ Barrier /\ DoneIsClosed /\ DoneMeansUnwound
    /\ \A c \in Client : Served(c)

\* The end of its run waits in the queue of a live subscriber: with AInv this is
\* inductive, subscriber by subscriber.
Announced(c) ==
    at[c] = "live" /\ status[run[c]] # "running" =>
        \E i \in 1..Len(queue[c]) : queue[c][i] = Sentinel
=============================================================================
