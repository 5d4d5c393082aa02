----------------------------- MODULE ShellJobs -----------------------------
(***************************************************************************)
(* Shell commands launched in the background of a chat: their processes    *)
(* and their records outlive the server (src/bg_jobs.py), and the monitor, *)
(* one loop, continues the chat with the result of each finished job and   *)
(* then acknowledges it (src/bg_monitor.py).                               *)
(***************************************************************************)
EXTENDS Transcript

CONSTANTS
    Job,
    NoJob,
    MaxSlips    \* acknowledgements that fail

ASSUME ShellAssumption == NoJob \notin Job /\ MaxSlips \in Nat

VARIABLES
    process,    \* what the machine says of the job's process
    shellJob,   \* the status of its record: done and failed are "finished"
    followed,   \* followed_up is set
    retired,    \* followup_state is terminal_unfollowable
    killed,     \* a tool call killed it
    unlinked,   \* the record of who launched it cannot be validated
    batch,      \* the jobs the monitor's tick found pending and has not reached
    drain,      \* the job whose continuation the monitor awaits
    slips

shellVars == <<process, shellJob, followed, retired, killed, unlinked, batch, drain, slips>>

FollowUp(j) == <<"followup", j>>

\* The store of the server's last run may still list jobs as running.
ShellInit ==
    /\ shellJob \in [Job -> {"none", "running"}]
    /\ process = shellJob
    /\ followed = {} /\ retired = {} /\ killed = {} /\ unlinked = {}
    /\ batch = {} /\ drain = NoJob /\ slips = 0

\* Tools run in a turn and in the continuation of a job.
ToolsRun == phase = "streaming" \/ drain # NoJob

\* launch(): the record is durable before the supervisor may start.
Launch(j) ==
    /\ ToolsRun /\ alive
    /\ shellJob[j] = "none"
    /\ process' = [process EXCEPT ![j] = "running"]
    /\ shellJob' = [shellJob EXCEPT ![j] = "running"]
    /\ UNCHANGED <<followed, retired, killed, unlinked, batch, drain, slips, transcriptVars>>

\* The process leaves its exit file, or dies without one, as it also does when
\* refresh() ends it after max_runtime_s.
EndProcess(j) ==
    /\ process[j] = "running"
    /\ process' = [process EXCEPT ![j] = "over"]
    /\ UNCHANGED <<shellJob, followed, retired, killed, unlinked, batch, drain, slips, transcriptVars>>

\* The linkage from the job to the request that launched it is lost.
LoseLinkage(j) ==
    /\ shellJob[j] # "none"
    /\ unlinked' = unlinked \union {j}
    /\ UNCHANGED <<process, shellJob, followed, retired, killed, batch, drain, slips, transcriptVars>>

\* mutated: followed_up is not set by kill()
SilencedNever(j) == followed

\* A job that was killed on purpose is not continued.
Silenced(j) == followed \union {j}

\* manage_bg_jobs: get() refreshes the record, and kill() touches it only if
\* it still says running.  A process that cannot be shown to be ours, or does
\* not die, leaves the job as it is.
Kill(j) ==
    /\ ToolsRun
    /\ shellJob[j] = "running" /\ j \notin unlinked
    /\ shellJob' = [shellJob EXCEPT ![j] = "finished"]
    /\ IF process[j] = "over"
       THEN UNCHANGED <<process, killed, followed>>
       ELSE /\ process' = [process EXCEPT ![j] = "over"]
            /\ killed' = killed \union {j}
            /\ followed' = Silenced(j)
    /\ UNCHANGED <<retired, unlinked, batch, drain, slips, transcriptVars>>

\* refresh(): running records whose process is over become finished ones.
Refreshed ==
    [j \in Job |-> IF shellJob[j] = "running" /\ process[j] = "over" THEN "finished" ELSE shellJob[j]]

\* pending_followups()
Pending(status) == {j \in Job : status[j] = "finished"} \ (followed \union retired)

\* The monitor's tick looks once for finished jobs and then takes them in turn.
Poll ==
    /\ drain = NoJob /\ batch = {}
    /\ shellJob' = Refreshed
    /\ batch' = Pending(Refreshed)
    /\ UNCHANGED <<process, followed, retired, killed, unlinked, drain, slips, transcriptVars>>

\* mark_unfollowable(): the record is the one the tick saw, for a finished
\* record no longer changes.
Retire(j) == retired' = retired \union {j}

\* The session is gone: get_session raises, and the job stays pending.
FailFollowUp(j) ==
    /\ drain = NoJob /\ j \in batch /\ ~alive
    /\ batch' = batch \ {j}
    /\ UNCHANGED <<process, shellJob, followed, retired, killed, unlinked, drain, slips, transcriptVars>>

\* mutated: the job of a busy chat is retired with those nobody can continue
PutOffForGood(j) ==
    /\ drain = NoJob /\ j \in batch /\ alive /\ IsActive
    /\ batch' = batch \ {j} /\ retired' = retired \union {j}
    /\ UNCHANGED <<process, shellJob, followed, killed, unlinked, drain, slips, transcriptVars>>

\* A live turn: the job is left for the next tick.
PutOff(j) ==
    /\ drain = NoJob /\ j \in batch /\ alive /\ IsActive
    /\ batch' = batch \ {j}
    /\ cached' = Loaded /\ KeepsOwnObject(Hydrates)
    /\ UNCHANGED <<process, shellJob, followed, retired, killed, unlinked, drain, slips>>
    /\ UNCHANGED <<alive, rows, phase, turns, auto, plan, stored, unsaved>>

\* The chat is idle: a job without linkage is retired, any other is handed to
\* the agent, whose answer is awaited.
BeginFollowUp(j) ==
    /\ drain = NoJob /\ j \in batch /\ alive /\ ~IsActive
    /\ batch' = batch \ {j}
    /\ IF j \in unlinked THEN Retire(j) /\ UNCHANGED drain
                         ELSE drain' = j /\ UNCHANGED retired
    /\ cached' = Loaded /\ KeepsOwnObject(Hydrates)
    /\ UNCHANGED <<process, shellJob, followed, killed, unlinked, slips>>
    /\ UNCHANGED <<alive, rows, phase, turns, auto, plan, stored, unsaved>>

\* mutated: a continuation that failed counts as one that was made
DropAcknowledged(j) ==
    /\ drain = j /\ drain' = NoJob
    /\ followed' = followed \union {j}
    /\ UNCHANGED <<process, shellJob, retired, killed, unlinked, batch, slips, transcriptVars>>

\* The agent fails, or the session is gone when its answer is to be added:
\* the job stays pending.
DropFollowUp(j) ==
    /\ drain = j /\ drain' = NoJob
    /\ UNCHANGED <<process, shellJob, followed, retired, killed, unlinked, batch, slips, transcriptVars>>

\* The linkage was lost during the await.
RetireFollowUp(j) ==
    /\ drain = j /\ drain' = NoJob
    /\ j \in unlinked
    /\ Retire(j)
    /\ UNCHANGED <<process, shellJob, followed, killed, unlinked, batch, slips, transcriptVars>>

\* mark_followed_up() after the message was added; it may fail, or the server
\* may stop before it is reached.
Acknowledge(j) ==
    \/ followed' = followed \union {j} /\ UNCHANGED slips
    \/ slips < MaxSlips /\ slips' = slips + 1 /\ UNCHANGED followed

\* The answer joins the chat and the job is acknowledged.
FinishFollowUp(j) ==
    /\ drain = j /\ drain' = NoJob
    /\ j \notin unlinked
    /\ AddMessage(FollowUp(j))
    /\ Acknowledge(j)
    /\ UNCHANGED <<process, shellJob, retired, killed, unlinked, batch>>
    /\ UNCHANGED <<alive, phase, turns, auto, plan>>

\* A restart: the processes go on, and disown_unverified() gives up those it
\* cannot show to be ours.
LoseShells ==
    /\ batch' = {} /\ drain' = NoJob
    /\ \E lost \in SUBSET {j \in Job : shellJob[j] = "running" /\ process[j] = "running"} :
           shellJob' = [j \in Job |-> IF j \in lost THEN "finished" ELSE shellJob[j]]
    /\ UNCHANGED <<process, followed, retired, killed, unlinked, slips>>

ShellStep(j) ==
    \/ Launch(j) \/ EndProcess(j) \/ LoseLinkage(j) \/ Kill(j)
    \/ FailFollowUp(j) \/ PutOff(j) \/ BeginFollowUp(j)
    \/ DropFollowUp(j) \/ RetireFollowUp(j) \/ FinishFollowUp(j)
=============================================================================
