---------------------------- MODULE TaskScheduler ----------------------------
(***************************************************************************)
(* The scheduler of background tasks: src/task_scheduler.py, with the      *)
(* triggers of src/event_bus.py and the task routes that drive it.         *)
(*                                                                         *)
(* The scheduler runs on one event loop: what happens between two awaits   *)
(* is one step.  Database writes handed to a worker thread (to_thread)     *)
(* commit in a step of their own, and the caller goes on in the same step: *)
(* all that follows is the release of the run.  cancel() only marks a run; *)
(* the CancelledError is raised where the run resumes, and no run is       *)
(* marked twice.  Runs that are over give their identifiers back.          *)
(***************************************************************************)
EXTENDS Naturals, Sequences, SequencesExt

CONSTANTS
    Run,        \* identifiers of runs: bounds how many live at a time
    Task,       \* the scheduled tasks
    EventTask,  \* those with trigger_type "event"
    OnceTask,   \* those scheduled "once"
    SlotTask,   \* those that wait for the model slot (_task_needs_model_slot)
    AdminTask,  \* those whose action takes admin privileges
    Pausable,   \* bounds the tasks the user pauses
    Forcible,   \* bounds the tasks the user runs by force
    Then,       \* then_task_id, NoTask where there is none
    NoRun, NoTask

ASSUME SchedulerConstants ==
    /\ NoRun \notin Run /\ NoTask \notin Task /\ Task # {}
    /\ EventTask \subseteq Task /\ OnceTask \subseteq Task /\ SlotTask \subseteq Task
    /\ AdminTask \subseteq Task /\ Pausable \subseteq Task /\ Forcible \subseteq Task
    /\ Then \in [Task -> Task \cup {NoTask}]

VARIABLES
    \* the database
    row,         \* TaskRun.status: success, error, skipped, aborted and deleted
                 \* rows count as settled, as do identifiers not in use
    recency,     \* the queued and running rows, by started_at
    active,      \* tasks with status "active"
    nextRun,     \* next_run: none, due (<= now) or later
    \* the process
    up,          \* the process runs
    executing,   \* _executing
    handle,      \* _task_handles
    marks,       \* tasks whose newest run a stop has yet to mark aborted
    foreground,  \* has_foreground_activity()
    semaphore,   \* _run_semaphore: its value, the futures that wait in turn, and
                 \* those among them that have their result
    \* the runs
    task,        \* the task of the run
    forced,      \* runs started with bypass_model_slot
    pc,          \* where the coroutine is suspended
    hit,         \* the cancellation requested of it
    loaded,      \* the next_run its session loaded with the task
    outcome,     \* what its executor came to
    \* what has been asked of the system
    owed         \* event tasks triggered since their last start

database == <<row, recency, active, nextRun>>
process  == <<up, executing, handle, marks, foreground, semaphore>>
runs     == <<task, forced, pc, hit, loaded, outcome>>
vars     == <<database, process, runs, owed>>

Rows     == {"new", "queued", "running", "settled"}
Times    == {"none", "due", "later"}
Places   == {"none", "created", "chained", "slot", "quiet", "working", "closing",
             "finishing", "pausing", "aborting", "deferring"}
Hits     == {"no", "stop", "foreground", "raised"}
Outcomes == {"none", "success", "failed", "raised"}

Semaphores == [value : Nat, waiters : Seq(Run), granted : SUBSET Run]
Free == [value |-> 1, waiters |-> <<>>, granted |-> {}]

Init ==
    /\ row = [r \in Run |-> "settled"] /\ recency = <<>>
    /\ active = Task
    /\ nextRun = [t \in Task |-> IF t \in EventTask THEN "none" ELSE "later"]
    /\ up = TRUE /\ executing = {} /\ marks = {}
    /\ handle = [t \in Task |-> NoRun]
    /\ foreground = FALSE /\ semaphore = Free
    /\ task = [r \in Run |-> CHOOSE t \in Task : TRUE]
    /\ forced = {}
    /\ pc = [r \in Run |-> "none"] /\ hit = [r \in Run |-> "no"]
    /\ loaded = [r \in Run |-> "none"] /\ outcome = [r \in Run |-> "none"]
    /\ owed = [t \in Task |-> "no"]

-----------------------------------------------------------------------------
Live(r)      == pc[r] # "none"
Open(r)      == row[r] \in {"queued", "running"}
\* A run whose row says "running": nothing of it starts any more.
Started(r)   == pc[r] \in {"working", "closing", "finishing", "pausing"}
\* Runs inside the semaphore, and where it is there: also while it waits for
\* the user to leave.
NeedsSlot(r) == task[r] \in SlotTask /\ r \notin forced
HasSlot(r)   == NeedsSlot(r) /\ (Started(r) \/ pc[r] = "quiet")
Gated(r)     == r \notin forced
\* The loop resumes a marked run only to raise its CancelledError.
Resumes(r)   == up /\ hit[r] \in {"no", "raised"}

FreeRuns == {r \in Run : ~Live(r) /\ ~Open(r)}

Without(q, r) ==
    LET Positions == {i \in 1..Len(q) : q[i] = r}
    IN  IF Positions = {} THEN q ELSE RemoveAt(q, CHOOSE i \in Positions : TRUE)

\* compute_next_run: nothing follows a task that was scheduled once.
NextTime(t) == IF t \in OnceTask THEN "none" ELSE "later"

\* A task handed to create_task: the coroutine of r has not started.
Create(r, t) ==
    /\ task' = [task EXCEPT ![r] = t]
    /\ pc' = [pc EXCEPT ![r] = "created"]
    /\ hit' = [hit EXCEPT ![r] = "no"]
    /\ row' = [row EXCEPT ![r] = "new"]

\* mutated: only the run that has the handle releases the task.
ForgetIfNewest(r, h, x) ==
    /\ handle' = IF h[task[r]] = r THEN [h EXCEPT ![task[r]] = NoRun] ELSE h
    /\ executing' = IF r \in forced \/ h[task[r]] # r THEN x ELSE x \ {task[r]}

\* mutated: the handle goes with the membership only.
ForgetMembers(r, h, x) ==
    /\ handle' = IF h[task[r]] = r /\ task[r] \in x THEN [h EXCEPT ![task[r]] = NoRun] ELSE h
    /\ executing' = IF r \in forced THEN x ELSE x \ {task[r]}

\* The finally blocks: the handle of r and the membership of its task go.
\* h, x: _task_handles and _executing as the step has them.
Forget(r, h, x) ==
    /\ handle' = IF h[task[r]] = r THEN [h EXCEPT ![task[r]] = NoRun] ELSE h
    /\ executing' = IF r \in forced THEN x ELSE x \ {task[r]}

\* The coroutine is over, its locals are gone.
Vanish(r) ==
    /\ pc' = [pc EXCEPT ![r] = "none"]
    /\ hit' = [hit EXCEPT ![r] = "no"]
    /\ loaded' = [loaded EXCEPT ![r] = "none"]
    /\ outcome' = [outcome EXCEPT ![r] = "none"]
    /\ forced' = forced \ {r}

Release(r, h, x) == Forget(r, h, x) /\ Vanish(r)

-----------------------------------------------------------------------------
(* The semaphore of asyncio, for a run that acquires it, leaves it or is   *)
(* cancelled while it waits.                                               *)

\* The waiters whose futures are not done: neither granted nor cancelled.
Pending(s) == {i \in 1..Len(s.waiters) : s.waiters[i] \notin s.granted /\ hit[s.waiters[i]] = "no"}

\* locked(): those that were granted a permit go first, too.
Locked(s) == s.value = 0 \/ s.granted # {} \/ Pending(s) # {}

\* _wake_up_next: a permit goes to the one that waits longest.
Woken(s) ==
    IF s.value = 0 \/ Pending(s) = {} THEN s
    ELSE [s EXCEPT !.value = @ - 1, !.granted = @ \cup {s.waiters[Min(Pending(s))]}]

\* The future of r is removed, and what is free goes on to the next.
Unqueued(r, s) ==
    Woken([s EXCEPT !.waiters = Without(@, r), !.granted = @ \ {r}])

\* mutated: a permit goes back whether it was granted or not.
AbandonedTwice(r, s) == Unqueued(r, [s EXCEPT !.value = @ + 1])

\* mutated: the permit is lost.
AbandonedLost(r, s) == Unqueued(r, s)

\* acquire() is cancelled: a permit that r was granted already goes back.
Abandoned(r, s) ==
    Unqueued(r, IF r \in s.granted THEN [s EXCEPT !.value = @ + 1] ELSE s)

\* The end of the block that the semaphore guards, for runs that came by it.
Released(r, s) == IF NeedsSlot(r) THEN Woken([s EXCEPT !.value = @ + 1]) ELSE s

-----------------------------------------------------------------------------
(* Dispatch.                                                               *)

\* _check_due_tasks: all that is due and not executing starts, or waits
\* while the user is active.
Due == {t \in active : nextRun[t] = "due" /\ t \notin executing}

CheckDueTasks ==
    /\ up /\ ~foreground /\ Due # {}
    /\ \E f \in [Due -> FreeRuns] :
        /\ \A s, t \in Due : f[s] = f[t] => s = t
        /\ LET new == {f[t] : t \in Due}
               of(r) == CHOOSE t \in Due : f[t] = r
           IN /\ task' = [r \in Run |-> IF r \in new THEN of(r) ELSE task[r]]
              /\ pc' = [r \in Run |-> IF r \in new THEN "created" ELSE pc[r]]
              /\ hit' = [r \in Run |-> IF r \in new THEN "no" ELSE hit[r]]
              /\ row' = [r \in Run |-> IF r \in new THEN "new" ELSE row[r]]
    /\ executing' = executing \cup Due
    /\ UNCHANGED <<recency, active, nextRun, up, handle, marks,
                   foreground, semaphore, forced, loaded, outcome, owed>>

PostponeDueTasks ==
    /\ up /\ foreground /\ Due # {}
    /\ nextRun' = [t \in Task |-> IF t \in Due THEN "later" ELSE nextRun[t]]
    /\ UNCHANGED <<row, recency, active, process, runs, owed>>

\* run_task_now: the task starts unless it is executing.
Dispatch(t) ==
    \/ /\ t \in executing
       /\ UNCHANGED <<executing, task, pc, hit, row>>
    \/ /\ t \notin executing
       /\ executing' = executing \cup {t}
       /\ \E r \in FreeRuns : Create(r, t)

RunTaskNow(t) ==
    /\ up /\ t \notin executing /\ Dispatch(t)
    /\ UNCHANGED <<recency, active, nextRun, up, handle, marks,
                   foreground, semaphore, forced, loaded, outcome, owed>>

\* run_task_now(force=True): no membership, no slot, no gate.  Bound: one
\* forced run at a time.
ForceRun(t) ==
    /\ up /\ forced = {} /\ t \in Forcible
    /\ \E r \in FreeRuns : Create(r, t) /\ forced' = forced \cup {r}
    /\ UNCHANGED <<recency, active, nextRun, process, loaded, outcome, owed>>

\* event_bus._handle_event at the threshold: the trigger is committed, then
\* the task is run.
FireEvent(t) ==
    /\ up /\ t \in EventTask \cap active
    /\ nextRun' = [nextRun EXCEPT ![t] = "due"]
    /\ owed' = [owed EXCEPT ![t] =
                   IF owed[t] = "busy" \/ \E r \in Run : Started(r) /\ task[r] = t
                   THEN "busy" ELSE "idle"]
    /\ Dispatch(t)
    /\ UNCHANGED <<recency, active, up, handle, marks,
                   foreground, semaphore, forced, loaded, outcome>>

-----------------------------------------------------------------------------
(* A run, from its start to its executor.                                  *)

\* The row of r is committed with its last status.
Settled(r) == row' = [row EXCEPT ![r] = "settled"] /\ recency' = Without(recency, r)

\* The row says "running", the executor is called.
Launch(r) ==
    /\ row' = [row EXCEPT ![r] = "running"]
    /\ recency' = Append(Without(recency, r), r)
    /\ pc' = [pc EXCEPT ![r] = "working"]
    /\ loaded' = [loaded EXCEPT ![r] =
                     IF task[r] \in EventTask THEN nextRun[task[r]] ELSE @]
    /\ owed' = [owed EXCEPT ![task[r]] = "no"]
    /\ UNCHANGED <<active, nextRun, hit, outcome, forced>>

\* The task was paused in the meantime.
Skip(r, h, x, s) ==
    /\ task[r] \notin active
    /\ Settled(r)
    /\ Release(r, h, x)
    /\ semaphore' = Released(r, s)
    /\ UNCHANGED <<active, nextRun, owed>>

\* An action its owner may no longer run: the task is paused.
Refuse(r, h, x, s) ==
    /\ task[r] \in active \cap AdminTask
    /\ Settled(r)
    /\ active' = active \ {task[r]}
    /\ nextRun' = [nextRun EXCEPT ![task[r]] = "none"]
    /\ owed' = [owed EXCEPT ![task[r]] = "no"]
    /\ Release(r, h, x)
    /\ semaphore' = Released(r, s)

\* wait_for_interactive_quiet
AwaitQuiet(r, h, x, s) ==
    /\ task[r] \in active /\ Gated(r) /\ foreground
    /\ row' = [row EXCEPT ![r] = IF @ = "settled" THEN @ ELSE "queued"]
    /\ recency' = IF row[r] = "new" THEN Append(recency, r) ELSE recency
    /\ pc' = [pc EXCEPT ![r] = "quiet"]
    /\ handle' = h /\ executing' = x /\ semaphore' = s
    /\ UNCHANGED <<active, nextRun, owed, hit, loaded, outcome, forced>>

\* _execute_task_locked up to its first await.  s: the semaphore it found.
Enter(r, h, x, s) ==
    \/ Skip(r, h, x, s)
    \/ Refuse(r, h, x, s)
    \/ AwaitQuiet(r, h, x, s)
    \/ /\ task[r] \in active /\ ~(Gated(r) /\ foreground)
       /\ Launch(r)
       /\ handle' = h /\ executing' = x /\ semaphore' = s

\* The row says "queued" behind those that have the semaphore or wait for it.
Queue(r, h, x) ==
    /\ NeedsSlot(r) /\ Locked(semaphore)
    /\ semaphore' = [semaphore EXCEPT !.waiters = Append(@, r)]
    /\ row' = [row EXCEPT ![r] = "queued"]
    /\ recency' = Append(recency, r)
    /\ pc' = [pc EXCEPT ![r] = "slot"]
    /\ handle' = h /\ executing' = x
    /\ UNCHANGED <<active, nextRun, owed, hit, loaded, outcome, forced>>

\* _execute_task: the row is inserted, the semaphore acquired if need be.
Begin(r, x) ==
    LET h == [handle EXCEPT ![task[r]] = r] IN
    \/ Queue(r, h, x)
    \/ /\ NeedsSlot(r) /\ ~Locked(semaphore)
       /\ Enter(r, h, x, [semaphore EXCEPT !.value = @ - 1])
    \/ ~NeedsSlot(r) /\ Enter(r, h, x, semaphore)

Start(r) ==
    /\ up /\ pc[r] = "created"
    /\ Begin(r, executing)
    /\ UNCHANGED <<up, marks, foreground, task>>

\* _run_chained: nothing happens if the task is executing by now.
StartChained(r) ==
    /\ up /\ pc[r] = "chained"
    /\ \/ /\ task[r] \in executing
          /\ Vanish(r)
          /\ UNCHANGED <<database, executing, handle, semaphore, owed>>
       \/ /\ task[r] \notin executing
          /\ Begin(r, executing \cup {task[r]})
    /\ UNCHANGED <<up, marks, foreground, task>>

\* acquire() returns to a run that was granted the permit.
AcquireSlot(r) ==
    /\ Resumes(r) /\ pc[r] = "slot" /\ r \in semaphore.granted
    /\ Enter(r, handle, executing, Unqueued(r, semaphore))
    /\ UNCHANGED <<up, marks, foreground, task>>

\* wait_for_interactive_quiet returns; nothing is checked again.
BecomeQuiet(r) ==
    /\ Resumes(r) /\ pc[r] = "quiet" /\ ~foreground
    /\ Launch(r)
    /\ UNCHANGED <<process, task>>

-----------------------------------------------------------------------------
(* The end of a run.                                                       *)

\* task.next_run is set to None for an event task: no change, hence no
\* write, if that is what the session had loaded.
Rescheduled(r) ==
    LET t == task[r] IN
    [nextRun EXCEPT ![t] = IF t \notin EventTask THEN NextTime(t)
                           ELSE IF loaded[r] = "none" THEN @ ELSE "none"]

\* The rest of _execute_task_locked once the executor is through.  The
\* identifier of a run that chains goes to the run of the next task.
Complete(r, o) ==
    LET t == task[r]
        chains == o = "success" /\ Then[t] # NoTask
    IN /\ Settled(r)
       /\ nextRun' = Rescheduled(r)
       /\ active' = IF t \in OnceTask THEN active \ {t} ELSE active
       /\ Forget(r, handle, executing)
       /\ semaphore' = Released(r, semaphore)
       /\ pc' = [pc EXCEPT ![r] = IF chains THEN "chained" ELSE "none"]
       /\ task' = [task EXCEPT ![r] = IF chains THEN Then[t] ELSE @]
       /\ forced' = forced \ {r}
       /\ hit' = [hit EXCEPT ![r] = "no"]
       /\ loaded' = [loaded EXCEPT ![r] = "none"]
       /\ outcome' = [outcome EXCEPT ![r] = "none"]

\* except Exception: the row is settled and a scheduled task moves on; if
\* that cannot be committed a second session aborts the row and stalls.
Fail(r) ==
    LET t == task[r] IN
    /\ Settled(r)
    /\ \E committed \in BOOLEAN :
        nextRun' = [nextRun EXCEPT ![t] =
                          IF t \in EventTask THEN @
                          ELSE IF committed THEN NextTime(t) ELSE "later"]
    /\ Release(r, handle, executing)
    /\ semaphore' = Released(r, semaphore)
    /\ UNCHANGED <<active, task>>

Settle(r, o) ==
    \/ o \in {"success", "failed"} /\ Complete(r, o)
    \/ o = "raised" /\ Fail(r)

\* The executor and the delivery are through; a gated run first waits for
\* its foreground monitor to end.
Conclude(r, o) ==
    /\ Resumes(r) /\ pc[r] = "working"
    /\ \/ /\ Gated(r)
          /\ pc' = [pc EXCEPT ![r] = "closing"]
          /\ outcome' = [outcome EXCEPT ![r] = o]
          /\ UNCHANGED <<database, executing, handle, semaphore, task, forced, hit, loaded>>
       \/ ~Gated(r) /\ Settle(r, o)
    /\ UNCHANGED <<up, marks, foreground, owed>>

\* The wait for the monitor swallows a cancellation.
Close(r) ==
    /\ up /\ pc[r] = "closing"
    /\ Settle(r, outcome[r])
    /\ UNCHANGED <<up, marks, foreground, owed>>

\* TaskNoop and TaskDeferred: committed before the run ends.
DoNothing(r) ==
    /\ Resumes(r) /\ pc[r] = "working"
    /\ Settled(r)
    /\ nextRun' = Rescheduled(r)
    /\ Release(r, handle, executing)
    /\ semaphore' = Released(r, semaphore)
    /\ UNCHANGED <<active, up, marks, foreground, task, owed>>

Postpone(r) ==
    /\ Resumes(r) /\ pc[r] = "working"
    /\ Settled(r)
    /\ nextRun' = [nextRun EXCEPT ![task[r]] = "later"]
    /\ Release(r, handle, executing)
    /\ semaphore' = Released(r, semaphore)
    /\ UNCHANGED <<active, up, marks, foreground, task, owed>>

-----------------------------------------------------------------------------
(* Cancellation.                                                           *)

\* cancel(), for the runs of the tasks ts, unless they are marked already.
CancelHandles(ts) ==
    hit' = [r \in Run |->
               IF hit[r] = "no" /\ \E t \in ts : handle[t] = r THEN "stop" ELSE hit[r]]

\* stop_task: _mark_run_aborted follows in a thread.
StopTask(t) ==
    /\ up /\ t \notin marks
    /\ CancelHandles({t})
    /\ executing' = executing \ {t}
    /\ marks' = marks \cup {t}
    /\ UNCHANGED <<database, up, handle, foreground, semaphore,
                   task, forced, pc, loaded, outcome, owed>>

\* stop_background_tasks_for_foreground, likewise; one stop at a time is at
\* work on a task.
YieldToForeground ==
    /\ up /\ foreground /\ marks \cap executing = {} /\ executing # {}
    /\ CancelHandles(executing)
    /\ marks' = marks \cup executing
    /\ UNCHANGED <<database, up, executing, handle, foreground, semaphore,
                   task, forced, pc, loaded, outcome, owed>>

\* _mark_run_aborted without a run: the newest open row of the task.
MarkNewest(t) ==
    LET Positions == {i \in 1..Len(recency) : task[recency[i]] = t} IN
    \/ Positions = {} /\ UNCHANGED <<row, recency>>
    \/ \E i \in Positions : (\A j \in Positions : j <= i) /\ Settled(recency[i])

MarkStopped(t) ==
    /\ up /\ t \in marks
    /\ MarkNewest(t)
    /\ marks' = marks \ {t}
    /\ UNCHANGED <<active, nextRun, up, executing, handle, foreground, semaphore, runs, owed>>

\* The monitor of a gated run sees the user come back.
InterruptForForeground(r) ==
    /\ up /\ foreground /\ Gated(r) /\ pc[r] = "working" /\ hit[r] \in {"no", "stop"}
    /\ hit' = [hit EXCEPT ![r] = "foreground"]
    /\ UNCHANGED <<database, process, task, forced, pc, loaded, outcome, owed>>

\* CancelledError while queued: _execute_task cleans up.  The wait for quiet
\* is inside the semaphore and _execute_task_locked, which are left first.
CancelQueued(r) ==
    /\ up /\ hit[r] = "stop" /\ pc[r] \in {"slot", "quiet"}
    /\ pc' = [pc EXCEPT ![r] = "aborting"]
    /\ hit' = [hit EXCEPT ![r] = "raised"]
    /\ \/ /\ pc[r] = "quiet"
          /\ Forget(r, handle, executing)
          /\ semaphore' = Released(r, semaphore)
       \/ /\ pc[r] = "slot"
          /\ semaphore' = Abandoned(r, semaphore)
          /\ UNCHANGED <<handle, executing>>
    /\ UNCHANGED <<database, up, marks, foreground,
                   task, forced, loaded, outcome, owed>>

\* CancelledError out of the executor.
CancelWorking(r) ==
    /\ up /\ hit[r] \in {"stop", "foreground"} /\ pc[r] = "working"
    /\ pc' = [pc EXCEPT ![r] = IF hit[r] = "foreground" THEN "pausing" ELSE "finishing"]
    /\ hit' = [hit EXCEPT ![r] = "raised"]
    /\ UNCHANGED <<database, process, task, forced, loaded, outcome, owed>>

\* _mark_run_aborted of this run
AbortQueued(r) ==
    /\ up /\ pc[r] = "aborting"
    /\ IF Open(r) THEN Settled(r) ELSE UNCHANGED <<row, recency>>
    /\ pc' = [pc EXCEPT ![r] = "deferring"]
    /\ UNCHANGED <<active, nextRun, process, task, forced, hit, loaded, outcome, owed>>

\* mutated: the next time is computed, which an event task has not.
DeferToNextTime(r) ==
    /\ up /\ pc[r] = "deferring"
    /\ nextRun' = [nextRun EXCEPT ![task[r]] =
                      IF task[r] \notin active \/ @ # "due" THEN @
                      ELSE IF task[r] \in EventTask THEN "none" ELSE NextTime(task[r])]
    /\ Release(r, handle, executing)
    /\ UNCHANGED <<row, recency, active, up, marks, foreground, semaphore, task, owed>>

\* _defer_immediately_due_task, then the finally block of _execute_task
DeferQueued(r) ==
    /\ up /\ pc[r] = "deferring"
    /\ nextRun' = [nextRun EXCEPT ![task[r]] =
                      IF task[r] \in active /\ @ = "due" THEN "later" ELSE @]
    /\ Release(r, handle, executing)
    /\ UNCHANGED <<row, recency, active, up, marks, foreground, semaphore, task, owed>>

\* _finish_cancelled_run, then the finally blocks
FinishCancelled(r) ==
    LET t == task[r] IN
    /\ up /\ pc[r] \in {"finishing", "pausing"}
    /\ Settled(r)
    /\ nextRun' = [nextRun EXCEPT ![t] =
                      IF pc[r] = "pausing" THEN "later"
                      ELSE IF t \in EventTask THEN "none" ELSE NextTime(t)]
    /\ Release(r, handle, executing)
    /\ semaphore' = Released(r, semaphore)
    /\ UNCHANGED <<active, up, marks, foreground, task, owed>>

-----------------------------------------------------------------------------
(* The user, the clock and the process.                                    *)

ForegroundBegins ==
    /\ ~foreground /\ foreground' = TRUE
    /\ UNCHANGED <<database, up, executing, handle, marks, semaphore, runs, owed>>

ForegroundEnds ==
    /\ foreground /\ foreground' = FALSE
    /\ UNCHANGED <<database, up, executing, handle, marks, semaphore, runs, owed>>

ComesDue(t) ==
    /\ nextRun[t] = "later"
    /\ nextRun' = [nextRun EXCEPT ![t] = "due"]
    /\ UNCHANGED <<row, recency, active, process, runs, owed>>

\* The routes pause and resume.
Pause(t) ==
    /\ up /\ t \in active \cap Pausable
    /\ active' = active \ {t}
    /\ UNCHANGED <<row, recency, nextRun, process, runs, owed>>

Resume(t) ==
    /\ up /\ t \notin active
    /\ active' = active \cup {t}
    /\ nextRun' = [nextRun EXCEPT ![t] = IF t \in EventTask THEN @ ELSE NextTime(t)]
    /\ UNCHANGED <<row, recency, process, runs, owed>>

\* The process dies; the rows stay as they are.
Crash ==
    /\ up /\ up' = FALSE
    /\ executing' = {} /\ handle' = [t \in Task |-> NoRun]
    /\ marks' = {} /\ semaphore' = Free
    /\ pc' = [r \in Run |-> "none"] /\ hit' = [r \in Run |-> "no"]
    /\ loaded' = [r \in Run |-> "none"] /\ outcome' = [r \in Run |-> "none"]
    /\ forced' = {}
    /\ UNCHANGED <<database, foreground, task, owed>>

\* mutated: a run that was still queued is forgotten.
RestartRunningOnly ==
    /\ ~up /\ up' = TRUE
    /\ row' = [r \in Run |-> IF row[r] = "running" THEN "settled" ELSE row[r]]
    /\ recency' = <<>>
    /\ nextRun' = [t \in Task |-> IF t \in active /\ nextRun[t] = "due"
                                  THEN "later" ELSE nextRun[t]]
    /\ UNCHANGED <<active, executing, handle, marks, foreground, semaphore, runs, owed>>

\* start(): open rows are aborted, overdue tasks are put off.
Restart ==
    /\ ~up /\ up' = TRUE
    /\ row' = [r \in Run |-> IF Open(r) THEN "settled" ELSE row[r]]
    /\ recency' = <<>>
    /\ nextRun' = [t \in Task |-> IF t \in active /\ nextRun[t] = "due"
                                  THEN "later" ELSE nextRun[t]]
    /\ UNCHANGED <<active, executing, handle, marks, foreground, semaphore, runs, owed>>

-----------------------------------------------------------------------------
RunStep(r) ==
    \/ Start(r) \/ StartChained(r) \/ AcquireSlot(r) \/ BecomeQuiet(r)
    \/ \E o \in Outcomes \ {"none"} : Conclude(r, o)
    \/ Close(r) \/ DoNothing(r) \/ Postpone(r)
    \/ InterruptForForeground(r) \/ CancelQueued(r) \/ CancelWorking(r)
    \/ AbortQueued(r) \/ DeferQueued(r) \/ FinishCancelled(r)

TaskStep(t) ==
    \/ RunTaskNow(t) \/ ForceRun(t) \/ FireEvent(t)
    \/ StopTask(t) \/ MarkStopped(t)
    \/ ComesDue(t) \/ Pause(t) \/ Resume(t)

Next ==
    \/ CheckDueTasks \/ PostponeDueTasks \/ YieldToForeground
    \/ \E t \in Task : TaskStep(t)
    \/ \E r \in Run : RunStep(r)
    \/ ForegroundBegins \/ ForegroundEnds \/ Crash \/ Restart

Spec == Init /\ [][Next]_vars

\* What the loop, a worker thread or the executor of a run does next.
Progress(r) ==
    \/ Start(r) \/ StartChained(r) \/ AcquireSlot(r) \/ Close(r)
    \/ \E o \in Outcomes \ {"none"} : Conclude(r, o)
    \/ CancelQueued(r) \/ CancelWorking(r)
    \/ AbortQueued(r) \/ DeferQueued(r) \/ FinishCancelled(r)

\* Whatever a run waits for of the loop, a thread or its executor comes, and a
\* quiet moment that recurs is noticed.  The user leaves now and then.
RunFair(r) == WF_vars(Progress(r)) /\ SF_vars(BecomeQuiet(r))

Fairness == WF_vars(ForegroundEnds) /\ \A r \in Run : RunFair(r)

FairSpec == Spec /\ Fairness

-----------------------------------------------------------------------------
TypeOK ==
    /\ row \in [Run -> Rows] /\ recency \in Seq(Run)
    /\ active \subseteq Task /\ nextRun \in [Task -> Times]
    /\ up \in BOOLEAN /\ executing \subseteq Task
    /\ handle \in [Task -> Run \cup {NoRun}]
    /\ marks \subseteq Task /\ foreground \in BOOLEAN
    /\ semaphore \in Semaphores
    /\ task \in [Run -> Task] /\ forced \subseteq Run
    /\ pc \in [Run -> Places] /\ hit \in [Run -> Hits]
    /\ loaded \in [Run -> Times] /\ outcome \in [Run -> Outcomes]
    /\ owed \in [Task -> {"no", "idle", "busy"}]

\* While the process runs, a row that says queued or running is that of a
\* run in progress: no run ends, is skipped, refused, stopped or lost in a
\* crash without its row being settled ("the UI shows phantoms").
OpenRowsAreLive == up => \A r \in Run : Open(r) => pc[r] \notin {"none", "created", "chained"}

\* A task that counts as executing has a run that will release it: it is
\* never locked out for ever.
ExecutingHasRun ==
    \A t \in executing : \E r \in Run :
        task[r] = t /\ r \notin forced /\ pc[r] \notin {"none", "chained"}

\* A handle leads to a live run of its task, so that a stop reaches one.
HandlesAreLive ==
    \A t \in Task : handle[t] # NoRun =>
        task[handle[t]] = t /\ pc[handle[t]] \notin {"none", "created", "chained"}

\* An event that fired while no run of its task was at work is not lost
\* before a run starts, whatever is stopped, deferred or restarted.
TriggerKept == \A t \in Task : owed[t] = "idle" => nextRun[t] # "none"

\* The permit is neither doubled nor lost on its way between the runs: inside
\* the semaphore there is one run at a time ("a hard guarantee",
\* task_scheduler.py:430-433), and while a run waits there is one inside or
\* one that was woken.  Whatever is stopped before it was granted the permit,
\* between that and its waking up, or inside; chained, forced, skipped, paused.
ModelSlotKept ==
    /\ \A q, r \in Run : HasSlot(q) /\ HasSlot(r) => q = r
    /\ Pending(semaphore) # {} => semaphore.granted # {} \/ \E r \in Run : HasSlot(r)

\* Every run that is created comes to an end, and a task that is executing
\* becomes free again: no cancellation is lost on the way to the semaphore,
\* in a thread or while the user is active.
RunsEnd == \A r \in Run : pc[r] = "created" ~> pc[r] = "none"
=============================================================================
