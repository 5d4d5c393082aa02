# Odysseus: specifications, model checking and proofs

Odysseus is a self-hosted assistant server: a FastAPI process (`app.py`) that
runs chats with language models, gives the model tools (files, shell, mail,
calendar, documents, model serving), keeps working after the browser has gone,
runs scheduled tasks, and records what its tools did so that it never claims
more than it can show. This directory specifies the parts of it whose
correctness depends on the order of events, checks them with TLC and proves
theorems about them with TLAPS.

Paths below are relative to the repository root unless they name a module.

## 1. Inventory

| Part | State | Operations | Interacts with | What is hard |
|---|---|---|---|---|
| **Effect log** `src/agent_runtime/effect_log.py`, `journal.py` | one JSONL file per run; per process an `EffectLog` object (`_durable`, `_volatile`, `_view`, `_offset`, `_max_sequence`) in the process-wide table `_LIVE` | `claim`, `outcome`, `observe`, `refresh`, `load`, `open`, `recover_interrupted` | tool dispatch claims before it runs a tool and settles after; job monitors settle launches later, possibly from another process | several processes on one file, torn and failed writes, crashes, power loss, recovery racing a report |
| **Effect verification** `effects.py`, `effect_adapters.py` | nothing of its own: a function of the log's records | `freshness`, `invalidated_by`, `predicate_holds`, `assess`; `begin_effect`, `settle_effect`, `settle_background_job` | reads the log; feeds the completion gate | which read is evidence for what while other calls are in flight, unknown scopes, jobs that settle late |
| **Detached agent runs** `src/agent_runs.py` | `_RUNS` (session to run), each run's buffer, subscribers, status, tasks | `start`, `stop`, `subscribe`, `request_finish`, `_drain`, eviction | chat routes start and subscribe; the background monitor asks `is_active` | cancellation at any await, replacement by a double send, replay racing live events |
| **Task scheduler** `src/task_scheduler.py`, `event_bus.py` | task and run rows in the database; per process `_executing`, `_task_handles`, the semaphore | tick, event, run now, forced run, chain, stop, interruption by the user, restart | runs agent turns; foreground gate | stop racing the clean-up of the stopped run, triggers that come while a run is queued or ends |
| **Chat sessions and compaction** `core/session_manager.py`, `src/context_compactor.py`, chat and session routes | message rows; the cached `Session`; the `Session` a turn holds | add, hydrate, replace, truncate, delete; automatic compaction and compaction on request | turns, monitors and deliveries write into one transcript | copies of one history that are compared by length; indices into lists that are not the same list |
| **Background shell jobs** `src/bg_jobs.py`, `src/bg_monitor.py` | `bg_jobs.json`, live processes, `followed_up` flags | launch, reap, kill, follow up, acknowledge | settles launches in the effect log; continues chats | restart between continuation and acknowledgement, a kill beside the monitor |
| **Background tool jobs** `src/background_tool_jobs.py` | job rows with status and summary, deterministic message identifiers | register, complete, reconcile, summarise, deliver | message rows, not the cached session | written exactly once across restarts, and never into a busy chat |
| **Tool approvals** `src/tool_approvals.py`, chat routes, `services/skills`, `core/models.py` | pending cards in memory; cards and answers in message metadata; the job of a skill test | `create`, `peek`, `consume`, `retire_for_session`, `claim`; `_mark_tool_approval_resolved`; fork, compaction | agent runs ask and stop; requests of chats and tests answer; the scheduler declines | answers that come twice or too late, permissions that live in a transcript which is forked, compacted and reloaded, tests that share one session id |
| Interactive gate `src/interactive_gate.py` | foreground leases and counters | enter, leave, wait | scheduler, monitors, chats | background work starved, leases never returned |
| Agent loop `src/agent_loop.py` | one turn's local state | plan, call tools, answer | everything above | size; its shared state is that of the other parts |
| Completion gate `agent_runtime/completion.py` | none | accept or rewrite an answer | effect assessments | combination of many verdicts |
| Resources, containment, auth, routes, retrieval, mail, calendar, cookbook, media, speech, MCP, frontend | see `PROJECT.json` | | | |

`PROJECT.json` lists every part with its source files, also those that are not
modelled, and every hazard with the line where it bites.

What makes each of the parts correct, in the order of the plan:

* effect log: the file is at all times a valid history; a backend runs only
  after its claim is durable; nothing acknowledged is lost or rewritten; two
  processes merge the same history; recovery never contradicts a report; a
  recovery comes to an end;
* verification: a verdict `verified` or `contradicted` is true of the world;
  only a new reading makes an effect verified; losing evidence does not raise
  confidence;
* detached runs: a subscriber receives the run's events in order without gaps
  and is closed in the end; `[DONE]` is published only after the generator
  unwound; at most one generator of a session writes; a finished run is freed;
* scheduler: no row says a run is in progress that is not; no task is locked
  out by a run that is gone; a trigger that came is not lost; runs that need the
  model are serial; every run ends;
* chats: a compaction keeps what its summary does not cover; a turn starts from
  the whole history;
* jobs: a result is written exactly once (tool jobs) or at least once (shell
  jobs), never for a job the user killed, and in the end;
* approvals: a sealed call is made at most once, and only for an answer that
  found its card current; a chat has one card that can be answered; a permission
  stays in the chat that gave it; tests do not take each other's cards away;
* interactive gate: background work waits while a lease is held, and no longer.

## 2. The modules

| Module | What it is |
|---|---|
| `EffectHistory` | the records of a history, `_Index.accepts`, and what the `EffectHistory` constructor rejects: operators only |
| `EffectLog` | the log: disk, flock, the objects of each process, the append in its steps, failing system calls, deaths, power loss, `open` and recovery |
| `EffectLifecycle` | what a log promises, without files or processes |
| `EffectLogInvariant` | the inductive invariants `IInv` and `OwnersInv` |
| `EffectLogProofs`, `EffectLogTheorems`, `EffectLifecycleProofs` | its proof, and the theorems |
| `EffectVerdict` | freshness, invalidation, predicates, verdicts: operators only |
| `EffectRun` | one run: calls claimed, executed and settled, reads in between, an abstract world |
| `EffectRunInvariant`, `EffectRunProofs` | the invariant that makes verdicts true, its proof, and the theorems |
| `EffectLogEvidence` | the log composed with the verdicts |
| `EventStream` | what a detached run promises to those who follow it, without tasks, queues or timers |
| `AgentRuns` | the detached runs of one session, their drain tasks, generators, eviction timers, and the response bodies of the clients |
| `AgentRunsInvariant` | the inductive invariant `AInv`, and `Announced`, which is inductive with it |
| `AgentRunsProofs` | its proof, the theorems, and the refinement of `EventStream` |
| `TaskScheduler` | the scheduler, its triggers, the runs and their rows, stops, the user's coming and going, restarts |
| `TaskSchedulerInvariant`, `TaskSchedulerProofs` | the inductive invariant `SchedulerInv`, its proof, and the theorems |
| `Transcript` | the transcript of one chat: rows, cached object, the object of a turn, compactions |
| `ShellJobs`, `ToolJobs` | the two kinds of background work that write into a chat; both extend `Transcript` |
| `ChatWork` | their composition, with restarts and the deletion of the chat |
| `ChatWorkInvariant`, `ChatWorkProofs` | the inductive invariants `WorkInv` and `ReportsInPlace`, their proof, and the theorems |
| `ApprovalCards` | what the store of approvals promises those who ask and answer, without runs, requests or histories |
| `ToolApprovals` | the store of pending approvals, the runs of chats, tests and tasks that ask, the answers, and the permissions in the history of a chat |
| `ToolApprovalsInvariant`, `ToolApprovalsProofs` | the inductive invariant `ApprovalsInv`, its proof, the theorems, and the refinement of `ApprovalCards` |
| `MC*` | constant values for TLC |

### EffectLog and the code

A *writer* is a process that may hold a live `EffectLog` object. Those in
`Agent` run the agent (`begin_effect`, `settle_effect`, `observe`); the others
only settle background jobs (`settle_background_job`).

* Disk. `file` is the sequence of complete lines, `torn` says whether a partial
  line follows, `synced` how many lines an `fsync` covers, `entry` whether the
  directory entry is durable. A line written behind a partial one is `Corrupt`:
  this is what `_parse` would make of the glued bytes.
* Object. `durable`, `volatile`, `view`, `offset`, `maxSeq`, `dirSynced` and
  `degraded` are the attributes of `EffectLog` with the same names; `offset` is
  counted in lines.
* Append. `_append` is split where another process, a crash or a failing system
  call can come in between: `CallClaim`, `CallOutcome`, `CallSettleJob`,
  `CallObserve` or `CallRecover` start it; `Acquire` takes the flock, truncates
  a torn line and merges the tail (`_locked`, `_read_tail`); `Allocate` or
  `Reject` is the check under the lock; `WritePart`, `WriteLine` are the
  `os.write` loop; `Sync` the two fsyncs and the acknowledgement;
  `AcquireFails` and `WriteFails` the two error paths with their fall back to
  memory. Within one process the object's lock serialises the appends, so one
  program counter per process is enough.
* Merge. `_rebuild_view` hides volatile records that no longer fit behind the
  durable ones (`Survives`).
* `Die`, `Crash` and `PowerLoss` model the operating system: a process loses
  its objects and its flock; a power loss keeps any prefix of the lines that
  includes the synced ones, possibly followed by a partial line, or loses the
  file if its directory entry was never fsynced.
* Sequence numbers are unbounded integers in Python and stay so in the model.

### EffectVerdict, EffectRun and the code

`EffectVerdict` is `effects.py` from `predicate_holds` to `assess` on sets of
records. `EffectRun` adds the world: a resource has a content or is absent, a
dispatched call may change what is in its scope at any moment until it is
settled (`Mutate`), a read records what is there (`Read`, made by the settling
of a read call), and `OnDisk`-like durability is left to `EffectLog`. Calls
overlap freely, which covers the calls of nested runs, detached jobs and
monitors that settle concurrently. Postconditions are those the adapters
produce: a write promises content, a removal absence, a command of unknown
scope promises nothing and may touch everything. That a backend is at rest once
its call is settled is an assumption of `Mutate`: a file tool whose thread goes
on after a cancellation (`journal.py:206`) does not meet it.

### AgentRuns and the code

Everything in `agent_runs.py` runs on one event loop, so a step of the model is
what the code does between two awaits. `cancel()` only marks a task
(`cancelling`); the `CancelledError` is raised where the task resumes, so a
marked task takes no other step.

* Registry. `current` is `_RUNS[session]`; `timers` are the armed eviction
  tasks, which hold the identity of their run.
* Drain task. `task` names the await at which `_drain` is suspended: not yet
  entered (`created`), waiting for the predecessor (`waiting`), inside the
  generator (`draining`), or in the shield of its `except` clause
  (`shielding`). `Begin`, `PredecessorEnds`, `WaitCancelled` and `ShieldEnds`
  are the ways on; `NeverBegins` is a task cancelled before its first
  instruction, whose body, with its `except` and `finally`, is never entered.
* Generator. `Text`, `Done`, `Exhausted` and `Fails` are what it may do next;
  `Unwind` is the `CancelledError` reaching it: its handlers save the partial
  response and re-raise (`chat_routes.py:4596`, `5016`), and may await before
  `Unwound`. Each generator is `stream_with_save` in `_safe_stream`.
* Publishing. `Feed` is `_publish` for each event and
  `_wake_run_subscribers`; a queue holds positions in the buffer, and the
  sentinel.
* Client. `at` is where `subscribe` is suspended: `bound` is a
  `StreamingResponse` whose body was not iterated yet, `replay` the loop over
  the buffer, `live` the `wait_for` on the queue, `flush` the loop after the
  sentinel or after a heartbeat that found the run over. Each `yield` is a step
  of its own, because the response may be suspended at it. Registering the
  queue and yielding the first event are separate steps in the model, which
  allows more interleavings than the code. A heartbeat may fire although an
  event has just arrived. A client can have left before its response is bound
  to the run it started.
* `got` is a history variable: the positions the client has received.

The events of a run are reduced to what the properties tell apart: text, error
and `[DONE]`.

### TaskScheduler and the code

The scheduler lives on one event loop, so a step is again what happens between
two awaits; a database write handed to a thread commits in a step of its own.

* Database. `row` is the status of a run's `TaskRun` row (`settled` stands for
  every final status), `recency` the open rows by `started_at`, `active` and
  `nextRun` the columns of the task.
* Process. `executing` is `_executing`, `handle` is `_task_handles`, `marks`
  the tasks whose stop has still to write its `aborted` mark, `foreground` what
  `has_foreground_activity` answers, `semaphore` is `_run_semaphore`.
* Semaphore. `asyncio.Semaphore` is external; its state is the model's: the
  free permits (`value`), the queue of waiting runs, first come first served
  (`waiters`), and those whose future has its permit but which the loop has not
  resumed yet (`granted`). A run that leaves gives the permit back, which goes
  to the first waiter that is not cancelled (`Released`, `Woken`). A waiter
  that is cancelled leaves the queue; one that was cancelled after its permit
  had been granted passes it on (`Abandoned`). A run that comes while others
  wait queues up behind them even if a permit is free (`Locked`).
* Dispatch. `CheckDueTasks` and `PostponeDueTasks` are the tick, `RunTaskNow`
  and `ForceRun` the two ways of `run_task_now`, `FireEvent` is
  `_handle_event` at its threshold, `StartChained` a run started by
  `then_task_id`.
* Run. `pc` names the await a coroutine is suspended at: not entered
  (`created`, `chained`), the semaphore (`slot`), `wait_for_interactive_quiet`
  (`quiet`), its executor (`working`), the end of its foreground monitor
  (`closing`), and the writes of its error paths (`finishing`, `pausing`,
  `aborting`, `deferring`). `hit` is the cancellation requested of it. Entering
  is one step with the alternatives of `_execute_task_locked`: skipped,
  refused, gated, launched.
* Stops. `StopTask` and `YieldToForeground` cancel through the handle and
  release the membership at once; `MarkStopped` is the thread that later marks
  the newest open row of the task.
* `Crash` loses the process; `Restart` is `start()` with its clean-up of rows
  left open.

A run that is over gives its identifier back, so that any number of runs may
follow one another while `Run` bounds those that live at a time.

### Transcript, ShellJobs, ToolJobs, ChatWork and the code

* `rows` are the messages of the chat in the database, `cached` the history of
  the `Session` in the manager, `held` that of the object a turn works on,
  `shared` whether these two are one object. `Loaded` is what `get_session`
  returns, which reads the rows again only if there are more of them than
  cached messages.
* A turn is opened, asks, may compact, streams, answers and ends
  (`OpenTurn`, `Ask`, `AutoCompact`, `StartStream`, `Answer`, `EndTurn`).
  `AutoCompact` computes the index at which it cuts as `maybe_compact` does,
  with the system messages of the prompt counted in. It cuts the history of the
  turn's own object, as the chat routes do (`history_session=sess`), or of the one
  the manager returns, as an agent loop without that argument does, for instance
  the teacher's. `BeginCompact` and
  `FinishCompact` are the two sides of the await in `compact_session`.
* `AddMessage` appends to rows and cache; a write the database refuses is kept
  in memory and logged (`unsaved`). `Truncate` cuts both, also when only the
  cached history is longer than what is to be kept.
* `stored` and `unsaved` are history variables: every message ever written, or
  ever refused.
* `process` is what the machine says of a shell job, `shellJob` what its record
  says; records and processes survive a restart, `batch` and `drain`, the state
  of the monitor's tick, do not. A follow-up is acknowledged in the same step
  as its message is added, or the acknowledgement fails.
* `research` is the state of a pipeline, `toolJob` the row of its job. The
  report and the mark `delivered` are one transaction. The summary asks the
  manager for the session first, which may reload it (`BeginSummary`).

### ToolApprovals and the code

The request handlers and runs live on one event loop; between `peek` and the
record of the answer a handler does not await, so each request is one step up
to there.

* Store. `pending` is `_pending`; cards are numbered in the order of
  `created_at`. All have the same time to live, so those up to `lapsed` have
  expired; `Purged` is what every operation begins with. `Create` supersedes
  the card of the chat, evicts the oldest ones at capacity and inserts.
* Runs. `at` is the chat or the test a run belongs to, `grant` its
  `ExactToolApproval`, `bypass` and `tainted` the two flags of its
  `ToolRunSecurityContext` that decide whether the gate is armed (`Gated`).
  `Begin` is the sealed call that a run with an approval makes first; it may be
  refused there, if its target or workspace has changed since. A run of a chat
  that asks finishes its round and saves its cards with its message (`Finish`);
  a run of a test stops at its first card (`Pause`), which its job shows
  (`slot`); a scheduled task declines for itself (`Decline`). An interrupted
  turn saves a partial message without its cards.
* History. `mem` and `disk` say which cards the messages of a chat carry and how
  they were resolved, in the cached session and in the database; `Grants` is
  what a later turn reads there. `Fork` and `Compact` copy and cut them; a
  restart reads them again, and so does `get_session` at any time (`Rehydrate`).
* Requests. `Message`, `Approve` and `Deny` are the three ways through
  `chat_stream`, which may still refuse the request after the store was
  changed (`NoRun`); `Background` is a continuation by the monitor or a
  scheduled task. `StartTest` replaces a test's job, whose run may go on
  (`stray`); `ApproveTest` and `DenyTest` answer its card.
* `answer`, `stale` and `ran` are history variables: the decision that consumed
  a card, the cards that ceased to be current before any, and how often a sealed
  call was made.
* `ApprovalCards` says of a card its place and its state only: unmade,
  current, withdrawn, allowed, denied, called. `Seal` makes one current and
  withdraws the card of the same chat and, if there is no room left, the oldest
  of the others;
  `Withdraw` stands for everything else that ends a card before its answer
  (expiry, a message of the chat, a restart); `Answer` decides a current card;
  `Call` makes the call of an allowed one, once. `CardState` reads the state of
  a card off the variables of `ToolApprovals`.

## 3. The runs

| Run | Question | Bounds | Result |
|---|---|---|---|
| `effect_log` | Do file, views, claims and merged prefixes stay correct, is the flock never left behind, does the log implement its lifecycle, does a process that is alone interrupt only orphans, and does every recovery end, with failing system calls and a death or power loss? | 2 processes of which one runs the agent and the other settles its jobs, 2 effects, 1 observation, 3 calls, 1 fault, 1 crash | holds |
| `effect_log_two_processes` | Does recovery interrupt only effects whose process is gone, when a second process opens the log to settle a job? | 2 processes, 1 effect, 2 calls, 1 crash | violated: see below |
| `effect_log_lost_record` | Is losing an unpersisted observation conservative? | 1 process, 2 effects, 2 resources, 5 calls, 2 faults | violated: see below |
| `effect_run` | Is what is fresh, and what a verdict says, true of the world when a write, or a removal inside a directory tree, races with a command of unknown scope? | 3 effects, 2 overlapping resources, 2 contents, 2 reads per history | holds |
| `agent_runs` | Is `[DONE]` exposed only when the generator has unwound, does a client receive the stream it is promised (refinement of `EventStream`), is the end of a run in the queue of everyone who follows it, does a run wait for the one it replaced, do stopped and replaced runs end along a chain, is the client of a run that is over released, and a run that is not followed freed? | 3 runs, 1 text event each (none in a third run), 1 client | holds |
| `agent_runs_three_runs` | Does at most one run of a session write at a time? | 3 runs | violated: see below |
| `agent_runs_inactive` | Is nothing written while a session is reported inactive? | 2 runs | violated: see below |
| `task_scheduler` | Do rows, membership and handles agree with the runs that live, is no trigger lost, and is the one permit of the semaphore neither doubled nor lost, so that runs that need the model are serial and none waits for nobody? | an event task that chains to a scheduled one, both waiting for the slot; 2 runs alive at a time | holds |
| `task_scheduler_liveness` | Does every run end? | 1 task that may be paused, refused and forced; 2 runs alive at a time | holds |
| `chat_work` | Is a finished job continued and a report written, at the right time, once, and in the end; is a killed job left alone; does a turn start from the whole history until a message is refused, and does only a refusal let the cached history part from the rows? | 1 shell job, 1 research job, 1 restart, refused write or failed acknowledgement; 2 turns and 2 refused writes without the shell job | holds |
| `tool_approvals` | Is a sealed call made at most once and only as it was allowed, does every run that skips the gate have a permission of its own chat, do tests leave each other's cards alone, and does the store keep what it promises (refinement of `ApprovalCards`)? | 2 chats, 1 test, 2 runs at a time, 3 cards (after the third `Quiet`), capacity 2, 1 restart, failed commit, fork or compaction (`Steady`) | holds |
| `compaction` | Does a compaction keep every message its summary does not cover? | 1 turn, 4 earlier messages | violated: see below |

Why the bounds are enough for what is asked. Two effects are needed so that a
claim, an outcome and an observation of different effects compete for one
position, and so that a recovery has more than one claim to go through; three
calls so that a process can claim and report a launch and the other process
settle it; one failing call, which may leave its line behind, and one crash for a recovery that races the
survivor. The safety properties of the log are
in addition proved for every value of the constants, several agents and faults
included, which is why this instance is enough for them. The run has a liveness
property and therefore no symmetry.

In `effect_run` the write and the removal are not mixed: `MCNext` confines a
behaviour to one file that comes and goes, or to a removal in a tree whose
contents are told apart by their absence only. Its properties are proved
without this bound.

Of the runs of a session, three make a chain (the second is replaced while it
waits for the first), and two are enough where a client must only outlive the
run it follows. One text event, an error and `[DONE]` make a buffer of up to
three events, so that a client can be in the middle of its replay while
another event is published. `MCNext` confines a behaviour to chains of three runs in
which nothing but errors and `[DONE]` is published, or to two runs that also
publish text: it blocks sends and model output only, of which no fairness is
stated. One client suffices for a client to outlive the run it follows and to
return to the next one; what several clients may do to each other's streams is
covered by the proofs, which hold for any number of them. `AInv` and `TypeOK`
are proved.

The scheduler: two tasks are needed for one to wait behind the other and for a
chain, and two runs alive at a time for a run to meet its successor. One forced
run is alive at a time, of a task in `Forcible`; only tasks in `Pausable` are
paused by the user; one stop at a time is at work on a task. The event task and
the scheduled one take the two halves of `Rescheduled`; tasks scheduled once
occur in the proofs only. The liveness run has the task that is refused for
want of privileges and the pauses.

The chat: the hazards of the jobs are those of one job and one turn that
interleave, with at most one fault (`MaxFaults`) at any moment; a job may
already be running when the server starts. `MinToCompact` and `Keep` are the
thresholds of the code, scaled down so that a chat of a few messages compacts;
`Preface` is the number of system messages before the history. That the cached
history has parted from the rows shows only when a later turn starts from it,
hence the second turn; it may part a second time, hence two refused writes.
`MCNext` keeps a second turn and a second fault apart from the shell job and the
restart; it blocks turns, launches and faults only, of which no fairness is
stated. Any number of turns, faults and jobs, in every combination,
is covered by the proofs.

The approvals: two cards are the least for one to supersede, evict or outlive
the other, two chats for a fork, a chat and a test for the two rules of
superseding. A third card of a third place evicts the oldest at capacity two;
it multiplies the states, so `Quiet` keeps what happens from then on to one run at
a time without upset, expiry or saved message. Two runs make an answer meet a run
that is still at work; `Steady` leaves one run alive where an upset and a second
card meet. Anything else, in particular several upsets after each other, is
covered by the proofs. Chats and runs are interchangeable.

No run checks a type invariant: each is part of the inductive invariant of its
module and proved for every value of the constants.

Deadlock checking is off in all runs: the callers may stop calling and every
bound stops the model.

Fairness of the log (only `RecoveryCompletes` uses it). `Fairness` is weak
fairness of the append steps of a running process and of its recovery loop. The code
justifies it: `_append` is straight-line code under a blocking `flock`, and
`recover_interrupted` is a loop over a finite list run by `open` before it
returns. Nothing obliges a process to be attached, to call again, to fail or
to crash. A blocked `flock` is a disabled step, so the property really says
that no path of the code keeps the lock.

Fairness of the detached runs (`Fairness`, in `FairSpec` and `MCSpec`). The event loop
resumes every task that can go on: weak fairness of a task's steps, of the
eviction timer and of each response body, which the server iterates as long as
its client is connected. A generator that streams may do so for ever, so there
is no fairness of `Yields`. A generator that unwinds is a `finally` clause
whose awaits a further cancel only cuts short; it comes to its end however
often it is cancelled, hence the strong fairness of `Unwound`. A cleanup that
blocks for ever is thereby excluded. Sends, stops, resumes and disconnects are
never obliged to happen.

Fairness of the scheduler (`RunsEnd`). The loop goes on: weak fairness of the
steps of runs and threads (`Progress`), to which a run that was granted the
permit belongs; that its turn comes is not assumed but follows from the queue. A
run that waits for quiet competes with the user, who comes and goes, hence strong
fairness of `BecomeQuiet`; the user leaves in the end (weak fairness of
`ForegroundEnds`), which is an assumption about the user: the code sets a limit
only if `BACKGROUND_TASK_MAX_WAIT_SECONDS` is given, and its default is none.

Fairness of the chat (`FollowedUpInTheEnd`, `DeliveredInTheEnd`). Turns and
pipelines end, both have a maximum; the monitor and the delivery loop tick for
ever. `AnswersFollowUp` is strongly fair: a follow-up is asked again after every
failure, and an agent that never answers would be asked for ever, so that the
properties say what the loop does if the agent answers some time.

## 4. What the violated runs show

`effect_log_two_processes`. `open()` says "A log that is not live belongs to a
finished or crashed run" (`effect_log.py:440-441`). `_LIVE` is a table of one
process. A second process that reaches the log through the launch index, the
several-writers case of the module's docstring, finds the claim of a call
which the first process is still executing and appends `INTERRUPTED`; the real
outcome is then dropped by `accepts`.

`effect_log_lost_record`. "Losing an unpersisted outcome or observation is
conservative" (`effect_log.py:154-155`). A claim whose write fails and whose
truncation fails as well leaves its line in the file although the caller was
refused. A later observation that also cannot be written is kept in memory
with the same position. The next `refresh` merges the claim and
`_rebuild_view` hides the observation. If it contradicted an effect, an older
observation now decides and the verdict becomes `verified`.

`agent_runs_three_runs`. "Keep the task alive until the predecessor finishes so
the next run still observes the transitive session-save ordering barrier"
(`agent_runs.py:159-162`). With three sends in quick succession the task of the
second run is cancelled before its first instruction; it ends at once and never
reaches that code. The third run waits for the second task only and starts
while the first generator still unwinds and saves. A second cancel that hits
the shield has the same effect. `PredecessorUnwound`, the barrier between a run
and the one it replaced directly, does hold and is proved.

`agent_runs_inactive`. The background monitor does not write "into a session
that's mid-stream" and asks `is_active` (`bg_monitor.py:154-161`). A run that is
stopped while it waits for its predecessor is marked stopped at once
(`agent_runs.py:152`), so the session is reported inactive although the
predecessor still unwinds and saves. Tool results are delivered under a
stronger condition (`app.py:1225` also looks at `_active_streams`).

`compaction`. `_update_session_history` says "Keep the recent messages, prepend
summary AND the leading system messages" (`context_compactor.py:774`) and takes
the session's history to include the system messages (687). `maybe_compact`
splits the prompt without its system messages, adds their number to the index
and cuts the history there, although those of the preface are not in it
(`chat_processor.py:364`). A message before the cut that no summary covers is
deleted from the database.

### Divergences met while modelling, without a run of their own

Scheduler. `stop_task` releases the task from `_executing` before the stopped
run has cleaned up (`task_scheduler.py:2483`), so the next tick may start it a
second time, and the older run's `finally` then releases the newer one, against
the guarantees in lines 423-433. "Strict serial execution - exactly one task runs
at a time" (430) is called a hard guarantee; a forced run bypasses both
`_executing` and the semaphore, and a housekeeping action starts at once beside
whatever runs (908, 1344). What does hold, and is proved, is that the runs that
go through the semaphore are serial, and that none of them waits while nobody
is inside or about to be (`ModelSlotKept`). An event task whose
run raises stays due and is dispatched again every tick (comment at 1252-1253). A trigger that comes during a run is wiped by
`next_run = None` at its end (`event_bus.py:108-112`): `TriggerKept` therefore
speaks of triggers that come while the task is idle or queued.
`stop_background_tasks_for_foreground` cancels a working event task whose
`next_run` is none, although its docstring (2492-2495) says it is deferred, and
where a forced run has overwritten the handle it cancels that one. A cancel that
arrives during the last `await` of a run is swallowed there.

Chats. The branch of the monitor for a session that is gone, "so we don't retry
forever" (`bg_monitor.py:138-141`), is unreachable, because `get_session` raises
`KeyError` (`session_manager.py:524`): the job is retried at every tick and its
launch stays `running` (the test replaces `get_session` by one that returns
`None`). `compact_session` asks for an active run before its await only, and
then replaces the transcript by what it had read: what is written meanwhile is
lost (`session_routes.py:1226`, `1296`), although line 211 refuses a compaction
during an active run. `CompactionKeeps` speaks of both compactions; the
counterexample of its run is the automatic one. A follow-up may write into a turn that
starts while its agent works, and `is_active` does not see streams that are not
detached. A history whose database write failed has the length of one a
delivery was added to, which hides the delivery from the cache
(`session_manager.py:462`); `ContextComplete` excludes this by `unsaved`, and
`OnlyRefusalsPart` says that nothing but a refusal lets the two part. A message
whose write failed is only logged, so an acknowledged continuation may be lost
with the process; `AckedIsContinued` says so by `unsaved`. The discard of a
report whose session is gone and the guard against a message that was written
without its mark can never be taken, the former because of `ON DELETE CASCADE`,
the latter because both are one transaction.

Approvals. A grant for the rest of the chat ("stop asking at this gate for later
requests in this chat", `tool_approvals.py:218-222`) lives in the metadata of
the message that showed the request. A compaction that summarises this message
away drops the grant, and the gate asks again (`Compact`); so it does if the
answer comes before the message that shows the card is saved, or if the commit
of the answer fails and the process restarts (`Resolved`). None of this gives a
permission nobody gave. An answer is consumed before the request that carries it
may still be refused for want of a model (`chat_routes.py:2927`): the sealed call
is then lost and must be asked for again.

## 5. What is proved

### The effect log

All theorems hold for any sets of processes, effects and sights and any bounds,
under `EffectLogConstants` alone (agents are writers, reports are executions,
the two marker values are not writers, bounds are naturals).

The invariants the runs check are not inductive. `IInv` (module
`EffectLogInvariant`) adds what the code relies on without saying it: the lock
is held exactly by the process that is inside its append; whatever a process
merged is the prefix of the file its offset names, and what lies behind it is
acceptable record by record; a claim that is granted lies in the synced
prefix and the directory entry is durable; the position of a pending record is
above every position in the file; the volatile records and the view fit
together; a replayed outcome in the file is alone. `EffectLogProofs` has one
lemma per action (`IInv /\ action => IInv'`) over lemmas about histories
(`Accepts` preserves validity, merging a consistent tail yields the history of
the longer prefix), and `Invariant` is the resulting `Spec => []IInv`.

Whose claims a recovery may interrupt is the subject of `OwnersInv`, inductive
with `IInv`: an effect is owned by nobody, by a live process or by one that is
gone; whatever was claimed, in the file or on its way there, has an owner; and
what a process has still to recover was never its own. The last part holds
because a process opens a log only while it has none live, and then owns nothing:
the claims it lists are those of others. If it is alone, these are gone
(`AloneInterruptsOrphans`). `OnlyWritesAdd` shows that the only
step that brings a record to the disk is the write of its own pending one.
`LockFreed` is what safety can say of the liveness of a recovery: no path
through a failing append leaves the flock behind.

| Theorem | States |
|---|---|
| `Invariant` | `Spec => []IInv` |
| `TypeCorrect`, `FileCorrect`, `ViewsCorrect`, `ClaimsDurable`, `MergedStable`, `RecoveryAlone` | `Spec => []` each of `TypeOK`, `FileIsHistory`, `ViewsAreHistories`, `GrantedClaimsSurvive`, `MergedPrefixStable`, `RecoveryNeverOverlapsReport` |
| `LockFreed` | `Spec => []LockHeldInsideAppend` |
| `NothingRewritten` | `Spec => AppendOnly` |
| `Owners` | `Spec => []OwnersInv` |
| `AloneInterruptsOrphans` | `Spec => AloneRecoversOrphans` |
| `Refinement` | `Spec => ImplementsLifecycle`, the refinement of `EffectLifecycle` |
| `Claimed`, `InvokedOnce` | in the lifecycle, what was invoked is claimed, and no effect is invoked twice |

### The detached runs

The theorems hold for any number of runs, events and clients. `AInv` adds to the
properties why they hold:

* a task drains exactly while its generator is being run (`TasksDrive`), and
  has then nothing left to wait for (`Barrier`), which gives
  `PredecessorUnwound`; a run that is done has a closed generator
  (`DoneIsClosed`), so nothing follows its `[DONE]`;
* for each client (`Served`): what it received is what it counted (`InOrder`);
  its queue holds positions of the buffer in increasing order, and the sentinel
  only once the run is over (`QueueOrdered`); whatever it has not yielded waits
  in its queue while it is live (`NothingLost`); it leaves the queue only when
  the run is over (`EndsOver`).

The heart of the argument is the lemma `TakesNext`: what a live client takes
from its queue is either behind its count, and skipped because it was replayed,
or exactly the next event. `NothingLost` and `QueueOrdered` exclude a gap.
`FeedServes` shows that a publication keeps this true for every subscriber.

That the end of a run waits in the queue of everyone who follows it
(`EndIsAnnounced`) is inductive client by client with `AInv`. It has three
delicate steps: a run replaced before its first instruction, which `start` itself
must announce (`StartAnnounces`); a client that joins between the end of the run
and its replay, which never becomes live; and one that takes from its queue, where
only the sentinel, which it leaves on, is the end (`TakeAnnounces`).

| Theorem | States |
|---|---|
| `RunsInvariant` | `Spec => []AInv` |
| `RunsTypeCorrect`, `DoneUnwound`, `BarrierHolds`, `NoneMissed` | `Spec => []` each of `TypeOK`, `DoneMeansUnwound`, `PredecessorUnwound`, `NothingMissed` |
| `EndsAnnounced` | `Spec => []EndIsAnnounced` |
| `RunsImplementStream` | `Spec => ImplementsStream`, the refinement of `EventStream` |

### The verdicts

The theorems hold for any effects, scopes, overlaps of resources, obligations
and number of reads. `RunInv` says that positions order the history, that an
outcome follows the claim of its effect, that what is in flight is claimed and
unsettled (`FlightsAreClaimed`), and that what `freshness` calls fresh is true
of the world (`FreshIsTrue`). The hard step is `MutateKeeps`: the claim of an
effect that changes a resource lies behind an observation of it and makes it
stale, or before it, and then the effect, still unsettled, was in flight when
the observation was made. All other steps append a record, and
`StaleStaysStale` shows that no record makes an observation fresh again.
`GoalVerdictIs` and `VerdictIs` carry this to the verdicts. They rest on the
assumption on backends named in section 2.

| Theorem | States |
|---|---|
| `EvidenceInvariant` | `Spec => []RunInv` |
| `EvidenceTypeCorrect`, `FreshObservationsAreTrue`, `VerifiedEffectsAreTrue`, `ContradictionsAreTrue` | `Spec => []` each of `TypeOK`, `FreshIsTrue`, `VerifiedIsTrue`, `ContradictedIsTrue` |
| `ReadingsAloneVerify` | `Spec => OnlyReadingsVerify` |

### The scheduler

For any tasks, chains and number of runs, under `SchedulerConstants`.
`SchedulerInv` adds to the four properties that a run which has not entered its
body, or only puts its task off, has no open row (`QuietPlaces`), that forced
runs are started by hand (`ForcedAreLive`), and that an event task triggered
while idle has had no run since (`TriggeredAreIdle`). The proof has one lemma
per action over lemmas about the common ends of a run.

`SlotInv` relates the semaphore to where the runs stand. Its queue holds exactly
the runs that wait, each once, and only they are granted a permit
(`QueueIsExact`); the permit is free with nobody inside and nobody waiting, or
it is with exactly one run, which is inside or was woken to go inside
(`PermitAccounted`). Neither half is enough: a queue that keeps a cancelled
waiter would grant it the permit, and a permit that a cancelled waiter passes on
must be the only one. One lemma per operation of the semaphore shows that it
keeps the account (`WokenAccounts`, `UnqueuedAccounts`, `AbandonedAccounts`,
`ReleasedAccounts`, `QueueAccounts`, `TakeAccounts`), one per step that uses
it that the account matches the runs again (`EnterSlot`, `AcquireSlotSlot`,
`CancelQueuedSlot`, `LeaveSlot`), and `RestSlot` covers the steps that leave it
alone. `ModelSlotKept` follows.

| Theorem | States |
|---|---|
| `SchedulerInvariance` | `Spec => []SchedulerInv` |
| `SchedulerTypes`, `NoPhantoms`, `NoLockout`, `HandlesLive`, `TriggersKept` | `Spec => []` each of `TypeOK`, `OpenRowsAreLive`, `ExecutingHasRun`, `HandlesAreLive`, `TriggerKept` |
| `SlotAccounts`, `ModelSlot` | `Spec => []SlotInv`, `Spec => []ModelSlotKept` |

### The chat

For any transcript, jobs, thresholds and number of faults, under the named
assumptions of the four modules. `WorkInv` adds that every copy of the
transcript holds only messages that were written or refused (`CopiesAreKnown`),
that a turn in progress has a number, that the monitor handles finished jobs
nobody killed and no other job was ever continued (`MonitorHandlesFinished`),
and that reports are never refused (`ReportsAreStored`). A step of one part
leaves the invariant of the others alone by a frame lemma for each.

The cached history and the rows are kept apart in the code and compared by
length. `InStep` says that they agree or that the cached one is shorter, so that
`get_session` notices; `OnlyRefusals` shows, operation by operation, that only the
append of a message the database refuses ends it, and `TurnsSeeTheRows` draws the
conclusion for the history a turn starts from. `StepTouches` lists the shapes a step can
give the rows and the cache, on which both rest. `ReportsWrittenOnce` needs in
addition that what the cache shows of a report lies at the same place in the rows
(`ReportsInPlace`): a transcript replaced by what the cache shows then never puts
a report behind the rows, and only a delivery does.

| Theorem | States |
|---|---|
| `Invariant` | `Spec => []WorkInv` |
| `TypeCorrect`, `AcknowledgedJobsAreContinued`, `KilledJobsStaySilent`, `DeliveredReportsAreWritten` | `Spec => []` each of `TypeOK`, `AckedIsContinued`, `KilledStaysSilent`, `DeliveredIsWritten` |
| `OnlyRefusals`, `TurnsSeeTheRows`, `ReportsWrittenOnce` | `Spec =>` each of `OnlyRefusalsPart`, `ContextComplete`, `DeliversOnceWhileIdle` |

### The approvals

For any chats, tests, runs and cards, any capacity and number of upsets, under
`ApprovalConstants`. `ApprovalsInv` adds why the properties hold: a pending card
is unanswered, and current unless it expired (`CurrentCards`), so a card is
answered once and in time (`DecidedInTime`); the approval a run holds belongs to
its place and to no other run, and its call was not made before the run's first
step (`SealedCalls`); what a history says of the cards of its own chat is what
was decided (`RecordedAnswers`), of which a chat that does not exist yet has none
(`OpenedChats`); cards that were not created are nowhere (`UnmadeCards`), and
those a run or a job shows belong to its place (`ShownCards`). For
`TestsIndependent` the lemma `CreateKeeps` shows that superseding never reaches
a test's card and that eviction takes the oldest ones.

`CardsKeepTheirPromise` maps every step to one of `ApprovalCards` or a stutter.
That a card is created is `Seal`: the cards that survive are the newest of those
not superseded, and nothing is evicted while there is room (`NewestAre`, by the
least and the greatest element of a finite set of numbers; `SealStep`). Everything
that consumes a card is `Answer`, a first sealed call is `Call`, and expiry,
messages, replaced jobs and restarts are `Withdraw`.

| Theorem | States |
|---|---|
| `ApprovalsInvariant` | `Spec => []ApprovalsInv` |
| `ApprovalsTypeCorrect`, `SealedCallsRunOnce`, `PermissionsStayInTheirChat` | `Spec => []` each of `TypeOK`, `RunsAsApproved`, `SkipsAreGranted` |
| `TestsKeepTheirCards` | `Spec => TestsIndependent` |
| `CardsKeepTheirPromise` | `Spec => ImplementsCards`, the refinement of `ApprovalCards` |

### Only model-checked

`RecoveryCompletes`, `ReplacedRunsEnd`, `FinishedRunsFreed`,
`SubscribersReleased`, `RunsEnd`, `FollowedUpInTheEnd` and `DeliveredInTheEnd`
(liveness under fairness is out of TLAPS's reach, as is `ENABLED`). Every other
property of a passing run is a theorem.

## 6. Not modelled, and why

* Truncating back a failed line is followed by an `fsync` in the code; if that
  fails too and the host then loses power, the disk may bring back bytes that
  were truncated. The model's truncation is immediate.
* Logs that are not durable at all, files replaced or edited by something
  else, several paths for one file: `load` fails closed on what it cannot
  parse.
* The launch index is represented by its effect on who may open a log.
* Observations of listings, records and sessions, typed producer facts, and the
  classification of tools into scopes: data that enters the model as what a
  read saw and what a call may touch.
* A worker thread that goes on writing after its call was cancelled.
* `request_finish` and its event, which ask a generator to come to its end
  earlier; several sessions, which share nothing; the shutdown of the server;
  what a generator writes, beyond that it writes until it has unwound.
* Chat streams that are not detached: they are closed with their connection.
* Scheduler: the deletion of a task, a commit of the main path that fails, the
  counters of a deferral, the privilege check beyond its answer, and a
  `next_run` that an executor changes and reloads during its run.
* Chats: further compactions that later rounds of an agent loop plan, of a turn,
  a teacher's run or a follow-up (`agent_loop.py:26196`), of which the model has
  the one planned with the prompt; a `replace_messages` that fails, several turns
  at a time, the limits on
  the time of jobs and turns (they end like any other), `_prune`, the offsets of
  slash commands, changes of owner, edits, forks and imports.
* Approvals: owners, who are folded into the chats and tests that belong to one;
  what an API token may call and answer; the signature that protects a recorded
  answer and the case that its key is unavailable; the taint by source and the
  exceptions the gate makes for it, which are one flag here; the setting that
  turns the gate off; the declines of the arms of a skill audit; deleted and
  incognito chats.
* All parts marked `not_modelled` in `PROJECT.json`, with the reason there.

## 7. Plan

Done: the effect log and its verdicts, the detached runs, the scheduler, the
chats with their background work, the approvals. In the order of what they would
add:

1. `InteractiveGate`: leases and windows, under `TaskScheduler`, whose
   `foreground` it would refine.
2. `ToolApprovals` composed with `Transcript`, whose compaction decides which
   cards a chat keeps; here any prefix of them may go.
3. A backend that outlives its cancelled call, in `EffectRun`, with the file
   tools as the code that decides which ones can.
4. The completion gate, and the state file of model serving, which is read and
   written again without a lock.
