----------------------------- MODULE AgentRuns -----------------------------
(***************************************************************************)
(* The detached runs of one session: src/agent_runs.py, with the routes    *)
(* that start, resume and stop runs (routes/chat_routes.py).               *)
(*                                                                         *)
(* A run drains a generator into a replay buffer; clients replay the       *)
(* buffer and then follow it live through a queue of their own.  All of it *)
(* runs on one event loop: what happens between two awaits is one step.    *)
(* cancel() only marks a task; the CancelledError is raised where the task *)
(* resumes, so a task that is marked takes no step but that one.           *)
(***************************************************************************)
EXTENDS Naturals, Sequences, FiniteSets

CONSTANTS
    MaxRuns,     \* bound on the runs started in the session
    MaxText,     \* bound on the events a run publishes before its end
    Client       \* the clients (browser tabs) of the session

ASSUME AgentRunsConstants == MaxRuns \in Nat /\ MaxText \in Nat

VARIABLES
    current,     \* the run _RUNS holds for the session
    \* the runs
    buffer,      \* the replay buffer
    status,      \* status
    task,        \* how far the drain task is
    cancelling,  \* tasks marked by cancel() that have not resumed since
    prev,        \* the task the run waits for before it drains
    terminal,    \* runs that hold back a [DONE] event
    generator,   \* how far the wrapped generator is
    timers,      \* runs whose eviction timer is armed
    \* the clients
    at,          \* how far the response body of the client is
    run,         \* the run it is bound to
    next,        \* next_seq: how many events it has yielded
    queue,       \* its queue: positions in the buffer, Sentinel at the end
    got          \* the positions of the events it received, in order

registry == <<current, timers>>
runs     == <<buffer, status, task, cancelling, prev, terminal, generator>>
clients  == <<at, run, next, queue, got>>
vars     == <<registry, runs, clients>>

Run      == 1..MaxRuns
NoRun    == 0
Sentinel == 0
Event    == {"text", "error", "done"}
Status   == {"running", "done", "error", "stopped"}
Tasks    == {"none", "created", "waiting", "draining", "shielding", "ended"}
Stages   == {"unstarted", "active", "unwinding", "closed"}
Places   == {"idle", "bound", "replay", "live", "flush", "complete"}

Init ==
    /\ current = NoRun /\ timers = {}
    /\ buffer = [r \in Run |-> <<>>]
    /\ status = [r \in Run |-> "running"]
    /\ task = [r \in Run |-> "none"]
    /\ cancelling = {}
    /\ prev = [r \in Run |-> NoRun]
    /\ terminal = {}
    /\ generator = [r \in Run |-> "unstarted"]
    /\ at = [c \in Client |-> "idle"]
    /\ run = [c \in Client |-> NoRun]
    /\ next = [c \in Client |-> 0]
    /\ queue = [c \in Client |-> <<>>]
    /\ got = [c \in Client |-> <<>>]

-----------------------------------------------------------------------------
\* A task counts as done once it has ended.
Pending(r) == r # NoRun /\ task[r] # "ended"

\* mutated: a run that was stopped is not recognised as over
OverIfDone(r) == status[r] \in {"done", "error"}
Over(r)       == status[r] # "running"

Registered(c)   == at[c] \in {"replay", "live", "flush"}
Subscribers(r)  == {c \in Client : Registered(c) /\ run[c] = r}

\* mutated: nobody is told that the run is over
FeedUnwoken(r, evs, wake) ==
    /\ buffer' = [buffer EXCEPT ![r] = @ \o evs]
    /\ queue' = [c \in Client |->
                    IF c \in Subscribers(r)
                    THEN queue[c] \o [i \in 1..Len(evs) |-> Len(buffer[r]) + i]
                    ELSE queue[c]]

\* _publish and _wake_run_subscribers: the events evs go to the buffer and,
\* followed by the sentinel if the run is over, to every subscriber's queue.
Feed(r, evs, wake) ==
    /\ buffer' = [buffer EXCEPT ![r] = @ \o evs]
    /\ queue' = [c \in Client |->
                    IF c \in Subscribers(r)
                    THEN queue[c] \o [i \in 1..Len(evs) |-> Len(buffer[r]) + i]
                                  \o (IF wake THEN <<Sentinel>> ELSE <<>>)
                    ELSE queue[c]]

\* _schedule_evict: only the run the session still holds gets a timer; mutated:
\* none is armed
ArmNothing(r) == timers' = timers
Arm(r) == timers' = IF current = r THEN timers \cup {r} ELSE timers

-----------------------------------------------------------------------------
(***************************************************************************)
(* The routes.                                                             *)
(***************************************************************************)
\* A response is bound to a run before its body is first iterated.
Bind(c, r) ==
    /\ at[c] \in {"idle", "complete"}
    /\ at' = [at EXCEPT ![c] = "bound"]
    /\ run' = [run EXCEPT ![c] = r]
    /\ next' = [next EXCEPT ![c] = 0]
    /\ got' = [got EXCEPT ![c] = <<>>]

\* mutated: the predecessor is left running
ReplaceLeaving(p) == status' = status /\ cancelling' = cancelling

\* The predecessor of a new run is terminalized and cancelled.
Replace(p) ==
    /\ status' = [status EXCEPT ![p] = IF Over(p) THEN @ ELSE "stopped"]
    /\ cancelling' = cancelling \cup {p}

\* start: the response of the request is bound to the run, unless its client
\* has already gone.
Start(r) ==
    /\ task[r] = "none" /\ \A q \in Run : q < r => task[q] # "none"
    /\ task' = [task EXCEPT ![r] = "created"]
    /\ current' = r
    /\ timers' = timers \ {current}
    /\ IF Pending(current)
       THEN /\ Replace(current)
            /\ Feed(current, <<>>, ~Over(current))
            /\ prev' = [prev EXCEPT ![r] = current]
       ELSE UNCHANGED <<status, cancelling, buffer, queue, prev>>
    /\ \/ \E c \in Client : Bind(c, r)
       \/ UNCHANGED <<at, run, next, got>>
    /\ UNCHANGED <<terminal, generator>>

\* GET /api/chat/resume: only a run that is running can be resumed.
Resume(c) ==
    /\ current # NoRun /\ ~Over(current)
    /\ Bind(c, current)
    /\ UNCHANGED <<registry, runs, queue>>

\* stop: the caller learnt the identity of the run from its response, which
\* was sent after the task had taken its first step.
Stop ==
    /\ Pending(current) /\ task[current] # "created"
    /\ cancelling' = cancelling \cup {current}
    /\ UNCHANGED <<registry, buffer, status, task, prev, terminal, generator, clients>>

-----------------------------------------------------------------------------
(***************************************************************************)
(* The drain task.                                                         *)
(***************************************************************************)
Move(r, there) == task' = [task EXCEPT ![r] = there]
Turn(r, stage) == generator' = [generator EXCEPT ![r] = stage]

\* The finally clause: the end of the task.
Finish(r) == Move(r, "ended") /\ Arm(r)

\* mutated: the barrier between two runs is gone
Unhindered(r) == TRUE
Clear(r) == ~Pending(prev[r])

Begin(r) ==
    /\ task[r] = "created" /\ r \notin cancelling
    /\ IF Clear(r)
       THEN Move(r, "draining") /\ Turn(r, "active")
       ELSE Move(r, "waiting") /\ UNCHANGED generator
    /\ UNCHANGED <<registry, buffer, status, cancelling, prev, terminal, clients>>

\* A task cancelled before its first instruction never enters its body.
NeverBegins(r) ==
    /\ task[r] = "created" /\ r \in cancelling
    /\ Move(r, "ended")
    /\ cancelling' = cancelling \ {r}
    /\ UNCHANGED <<registry, buffer, status, prev, terminal, generator, clients>>

PredecessorEnds(r) ==
    /\ task[r] = "waiting" /\ r \notin cancelling /\ Clear(r)
    /\ Move(r, "draining") /\ Turn(r, "active")
    /\ UNCHANGED <<registry, buffer, status, cancelling, prev, terminal, clients>>

\* Cancelled while it waits: the generator is closed unstarted, the clients
\* are woken, the predecessor is waited for.
WaitCancelled(r) ==
    /\ task[r] = "waiting" /\ r \in cancelling
    /\ cancelling' = cancelling \ {r}
    /\ status' = [status EXCEPT ![r] = "stopped"]
    /\ Turn(r, "closed")
    /\ Feed(r, <<>>, TRUE)
    /\ IF Clear(r)
       THEN Finish(r)
       ELSE Move(r, "shielding") /\ UNCHANGED timers
    /\ UNCHANGED <<current, prev, terminal, at, run, next, got>>

\* The wait for the predecessor ends with it, or with another cancel.
ShieldEnds(r) ==
    /\ task[r] = "shielding" /\ (Clear(r) \/ r \in cancelling)
    /\ cancelling' = cancelling \ {r}
    /\ Finish(r)
    /\ UNCHANGED <<current, buffer, status, prev, terminal, generator, clients>>

-----------------------------------------------------------------------------
(***************************************************************************)
(* The generator, and how the drain task takes what it yields.             *)
(***************************************************************************)
Text(r) ==
    /\ generator[r] = "active" /\ r \notin cancelling
    /\ Len(buffer[r]) < MaxText
    /\ Feed(r, <<"text">>, FALSE)
    /\ UNCHANGED <<registry, status, task, cancelling, prev, terminal, generator,
                   at, run, next, got>>

\* mutated: published as soon as it is yielded
DonePublished(r) ==
    /\ Feed(r, <<"done">>, FALSE)
    /\ UNCHANGED terminal
DoneHeldBack(r) ==
    /\ terminal' = terminal \cup {r}
    /\ UNCHANGED <<buffer, queue>>

Done(r) ==
    /\ generator[r] = "active" /\ r \notin cancelling \cup terminal
    /\ DoneHeldBack(r)
    /\ UNCHANGED <<registry, status, task, cancelling, prev, generator, at, run, next, got>>

\* The generator is exhausted.
Exhausted(r) ==
    /\ generator[r] = "active" /\ r \notin cancelling
    /\ Turn(r, "closed")
    /\ status' = [status EXCEPT ![r] = IF Over(r) THEN @ ELSE "done"]
    /\ Feed(r, IF r \in terminal THEN <<"done">> ELSE <<>>, TRUE)
    /\ Finish(r)
    /\ UNCHANGED <<current, cancelling, prev, terminal, at, run, next, got>>

\* The generator fails, on its own or while it unwinds.
Fails(r) ==
    /\ generator[r] \in {"active", "unwinding"} /\ r \notin cancelling
    /\ Turn(r, "closed")
    /\ status' = [status EXCEPT ![r] = "error"]
    /\ Feed(r, <<"error", "done">>, TRUE)
    /\ Finish(r)
    /\ UNCHANGED <<current, cancelling, prev, terminal, at, run, next, got>>

\* The CancelledError goes up through the generator, which saves its partial
\* response and may await while it cleans up; a second one changes nothing.
Unwind(r) ==
    /\ generator[r] \in {"active", "unwinding"} /\ r \in cancelling
    /\ Turn(r, "unwinding")
    /\ cancelling' = cancelling \ {r}
    /\ UNCHANGED <<registry, buffer, status, task, prev, terminal, clients>>

Unwound(r) ==
    /\ generator[r] = "unwinding" /\ r \notin cancelling
    /\ Turn(r, "closed")
    /\ status' = [status EXCEPT ![r] = "stopped"]
    /\ Feed(r, <<>>, TRUE)
    /\ Finish(r)
    /\ UNCHANGED <<current, cancelling, prev, terminal, at, run, next, got>>

\* The grace period is over.
EvictNow(r) ==
    /\ r \in timers
    /\ timers' = timers \ {r}
    /\ current' = IF current = r /\ Over(r) /\ Subscribers(r) = {} THEN NoRun ELSE current
    /\ UNCHANGED <<runs, clients>>

-----------------------------------------------------------------------------
(***************************************************************************)
(* subscribe: the response body of a client.                               *)
(***************************************************************************)
Step(c, there) == at' = [at EXCEPT ![c] = there]

Yield(c, p) ==
    /\ next' = [next EXCEPT ![c] = p]
    /\ got' = [got EXCEPT ![c] = Append(@, p)]

More(c) == next[c] < Len(buffer[run[c]])

\* The first iteration registers the queue before it replays anything.
Attach(c) ==
    /\ at[c] = "bound"
    /\ Step(c, "replay")
    /\ timers' = timers \ {run[c]}
    /\ UNCHANGED <<current, runs, run, next, queue, got>>

\* The finally clause: the last subscriber of a run that is over rearms its timer.
Detach(c, there) ==
    /\ Step(c, there)
    /\ queue' = [queue EXCEPT ![c] = <<>>]
    /\ IF Subscribers(run[c]) \ {c} = {} /\ Over(run[c])
       THEN Arm(run[c])
       ELSE UNCHANGED timers

Replay(c) ==
    /\ at[c] = "replay" /\ More(c)
    /\ Yield(c, next[c] + 1)
    /\ UNCHANGED <<registry, runs, at, run, queue>>

ReplayEnds(c) ==
    /\ at[c] = "replay" /\ ~More(c)
    /\ IF Over(run[c])
       THEN Detach(c, "complete")
       ELSE Step(c, "live") /\ UNCHANGED <<queue, timers>>
    /\ UNCHANGED <<current, runs, run, next, got>>

\* mutated: an event that was replayed comes again; or one too many is skipped
FreshAlways(c, p) == TRUE
FreshLate(c, p) == p > next[c] + 1
Fresh(c, p) == p > next[c]

Take(c) ==
    LET p == Head(queue[c])
    IN  /\ at[c] = "live" /\ queue[c] # <<>>
        /\ queue' = [queue EXCEPT ![c] = Tail(@)]
        /\ IF p = Sentinel THEN Step(c, "flush") ELSE UNCHANGED at
        /\ IF p # Sentinel /\ Fresh(c, p) THEN Yield(c, p) ELSE UNCHANGED <<next, got>>
        /\ UNCHANGED <<registry, runs, run>>

\* Ten seconds without an event: a heartbeat, or the end if the run is over.
\* The timeout may fire although an event has just arrived.
TimesOut(c) ==
    /\ at[c] = "live" /\ Over(run[c])
    /\ Step(c, "flush")
    /\ UNCHANGED <<registry, runs, run, next, queue, got>>

Flush(c) ==
    /\ at[c] = "flush" /\ More(c)
    /\ Yield(c, next[c] + 1)
    /\ UNCHANGED <<registry, runs, at, run, queue>>

FlushEnds(c) ==
    /\ at[c] = "flush" /\ ~More(c)
    /\ Detach(c, "complete")
    /\ UNCHANGED <<current, runs, run, next, got>>

\* The client disconnects: a body that was never iterated has nothing to undo.
Disconnect(c) ==
    /\ \/ at[c] = "bound" /\ Step(c, "idle") /\ UNCHANGED <<queue, timers>>
       \/ Registered(c) /\ Detach(c, "idle")
    /\ UNCHANGED <<current, runs, run, next, got>>

-----------------------------------------------------------------------------
TaskStep(r) ==
    \/ Begin(r) \/ NeverBegins(r) \/ PredecessorEnds(r)
    \/ WaitCancelled(r) \/ ShieldEnds(r)
    \/ Unwind(r) \/ Unwound(r)

Yields(r) == Text(r) \/ Done(r) \/ Exhausted(r) \/ Fails(r)

BodyStep(c) ==
    \/ Attach(c) \/ Replay(c) \/ ReplayEnds(c)
    \/ Take(c) \/ TimesOut(c) \/ Flush(c) \/ FlushEnds(c)

Next ==
    \/ Stop
    \/ \E r \in Run : Start(r) \/ TaskStep(r) \/ Yields(r) \/ EvictNow(r)
    \/ \E c \in Client : Resume(c) \/ BodyStep(c) \/ Disconnect(c)

Spec == Init /\ [][Next]_vars

\* The event loop resumes every task that can go on; a generator that streams
\* may do so for ever.  One that unwinds comes to its end however often it is
\* cancelled again, for each cancel cuts short the await it hits: hence the
\* strong fairness.
Fairness ==
    /\ \A r \in Run : WF_vars(TaskStep(r)) /\ SF_vars(Unwound(r)) /\ WF_vars(EvictNow(r))
    /\ \A c \in Client : WF_vars(BodyStep(c))

FairSpec == Spec /\ Fairness

-----------------------------------------------------------------------------
(***************************************************************************)
(* Properties.                                                             *)
(***************************************************************************)

\* Every variable stays in its domain.
TypeOK ==
    /\ current \in Run \cup {NoRun} /\ timers \in SUBSET Run
    /\ buffer \in [Run -> Seq(Event)]
    /\ status \in [Run -> Status]
    /\ task \in [Run -> Tasks]
    /\ cancelling \in SUBSET Run
    /\ prev \in [Run -> Run \cup {NoRun}]
    /\ terminal \in SUBSET Run
    /\ generator \in [Run -> Stages]
    /\ at \in [Client -> Places]
    /\ run \in [Client -> Run \cup {NoRun}]
    /\ next \in [Client -> Nat]
    /\ queue \in [Client -> Seq(Nat)]
    /\ got \in [Client -> Seq(Nat)]

Writing == {"active", "unwinding"}

\* A client receives the events of its run in order, none twice and none
\* missing, however its replay and the live events interleave; a client whose
\* response ended by itself has all events of a run that is done
\* (agent_runs.py:212-222).
NothingMissed ==
    \A c \in Client :
        /\ got[c] = [i \in 1..Len(got[c]) |-> i]
        /\ at[c] = "complete" /\ status[run[c]] = "done" =>
              Len(got[c]) = Len(buffer[run[c]])

\* A client that follows a run which is over finds the end in its queue: however
\* the run came to its end, replaced before its first step included, and however
\* the client's replay crossed it, the response need not wait for a heartbeat to
\* learn of it (agent_runs.py:62-63, 179-180).
EndIsAnnounced ==
    \A c \in Client :
        at[c] = "live" /\ status[run[c]] # "running" =>
            \E i \in 1..Len(queue[c]) : queue[c][i] = Sentinel

\* [DONE] is in the buffer only once the generator has unwound: a client may
\* take it for the permission to submit the next turn (agent_runs.py:139-145).
DoneMeansUnwound ==
    \A r \in Run : \A i \in 1..Len(buffer[r]) :
        buffer[r][i] = "done" => generator[r] = "closed"

\* A run never writes to the session while the run it replaced still does
\* (agent_runs.py:130-133).
PredecessorUnwound ==
    \A r \in Run :
        generator[r] \in Writing /\ prev[r] # NoRun => generator[prev[r]] \notin Writing

\* At most one run of a session writes to it, in whatever order runs are
\* started, replaced and stopped: "keep the task alive until the predecessor
\* finishes so the next run still observes the transitive session-save
\* ordering barrier" (agent_runs.py:159-162).
OneWriter == \A q, r \in Run : generator[q] \in Writing /\ generator[r] \in Writing => q = r

\* While a session is reported inactive nothing writes to it: the background
\* monitor and the delivery of tool results rely on it not to interleave with
\* a live turn (bg_monitor.py:154-158).
InactiveIsQuiet ==
    (current = NoRun \/ Over(current)) => \A r \in Run : generator[r] \notin Writing

\* Clients see the stream of events that detached runs promise.
Stream == INSTANCE EventStream WITH
    log      <- buffer,
    over     <- {r \in Run : status[r] # "running"},
    follows  <- [c \in Client |-> IF at[c] = "idle" THEN NoRun ELSE run[c]],
    received <- [c \in Client |-> IF at[c] = "idle" THEN <<>> ELSE got[c]],
    told     <- {c \in Client : at[c] = "complete"}

\* Replay, queues, heartbeats and cancellation together implement the stream:
\* a client is told that its run is over only when it is, and only with every
\* event received (agent_runs.py:1-16).
ImplementsStream == Stream!Spec

\* No client of a run that is over waits for ever, whether the drain task woke
\* it, never reached its body or was replaced (agent_runs.py:62-63).
SubscribersReleased ==
    \A c \in Client :
        (at[c] # "idle" /\ run[c] # NoRun /\ status[run[c]] # "running") ~>
        at[c] \in {"idle", "complete"}

\* A run that was stopped or replaced ends, however long the chain of
\* predecessors it waits for (agent_runs.py:187-189).
ReplacedRunsEnd ==
    \A r \in Run :
        (r \in cancelling \/ (task[r] # "none" /\ current # r)) ~> task[r] = "ended"

\* A run that has ended and that nobody follows is freed, unless someone comes
\* back to it or it is replaced: no order of ends, disconnects and replacements
\* loses its timer (agent_runs.py:44-48).
FinishedRunsFreed ==
    (current # NoRun /\ task[current] = "ended") ~>
    (current = NoRun \/ task[current] # "ended" \/ Subscribers(current) # {})
=============================================================================
