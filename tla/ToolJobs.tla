------------------------------ MODULE ToolJobs ------------------------------
(***************************************************************************)
(* Research started from a chat: its job is a row of the database, and the *)
(* delivery loop writes the finished report into the chat once, while no   *)
(* turn of that chat is active (src/background_tool_jobs.py).  The message *)
(* and the mark that it was delivered are one transaction; the cached      *)
(* Session is not told.                                                    *)
(*                                                                         *)
(* A deleted session takes the rows of its jobs with it (foreign key with  *)
(* ON DELETE CASCADE), so the branch that discards the job of a session    *)
(* that is gone is never taken.                                            *)
(***************************************************************************)
EXTENDS Transcript

CONSTANTS
    Tool,       \* jobs
    NoTool

ASSUME ToolAssumption == NoTool \notin Tool

VARIABLES
    research,   \* what the research handler says of the job's pipeline
    toolJob,    \* the status of its row
    summed,     \* its row has a summary
    summing     \* the job whose summary the loop awaits

toolVars == <<research, toolJob, summed, summing>>

Delivery(k) == <<"tool", k>>

ToolInit ==
    /\ research = [k \in Tool |-> "none"]
    /\ toolJob = [k \in Tool |-> "none"]
    /\ summed = {} /\ summing = NoTool

\* The route registers the job and starts the pipeline in one go.
StartResearch(k) ==
    /\ alive /\ toolJob[k] = "none" /\ research[k] = "none"
    /\ research' = [research EXCEPT ![k] = "running"]
    /\ toolJob' = [toolJob EXCEPT ![k] = "running"]
    /\ UNCHANGED <<summed, summing, transcriptVars>>

\* complete(): a job that is no longer running, or has no row, stays as it is.
Completed(ks) == [k \in Tool |-> IF k \in ks /\ toolJob[k] = "running" THEN "ready" ELSE toolJob[k]]

\* The pipeline ends well, saves its report and calls complete(), which may
\* fail; or it ends badly and leaves its job to the tick.
EndResearch(k) ==
    /\ research[k] = "running"
    /\ \/ /\ research' = [research EXCEPT ![k] = "done"]
          /\ toolJob' \in {toolJob, Completed({k})}
       \/ /\ research' = [research EXCEPT ![k] = "failed"]
          /\ UNCHANGED toolJob
    /\ UNCHANGED <<summed, summing, transcriptVars>>

\* mutated: a pipeline the handler no longer knows is waited for
CollectKnown(k) ==
    /\ summing = NoTool
    /\ toolJob[k] = "running" /\ research[k] = "done"
    /\ toolJob' = Completed({k})
    /\ UNCHANGED <<research, summed, summing, transcriptVars>>

\* The tick finds a pipeline that ended or that a restart has lost.  The
\* summary of an error is its report; it is written without being awaited.
Collect(k) ==
    /\ summing = NoTool
    /\ toolJob[k] = "running" /\ research[k] # "running"
    /\ toolJob' = Completed({k})
    /\ summed' = IF research[k] = "done" THEN summed ELSE summed \union {k}
    /\ UNCHANGED <<research, summing, transcriptVars>>

\* mutated: whether the chat is idle is asked before the summary only
IdleBeforeSummary(k) == TRUE

\* tick() asks again after the summary: a turn may have started meanwhile.
MayDeliver(k) == ~IsActive

\* mutated: the message and the mark are two commits and the second one fails
MessageOnly(k) == UNCHANGED toolJob

MarkDelivered(k) == toolJob' = [toolJob EXCEPT ![k] = "delivered"]

\* The transaction of tick() that writes the message and marks the job.  An
\* identifier made from the job's keeps a message from being written twice.
CommitDelivery(k) ==
    /\ MarkDelivered(k)
    /\ IF Delivery(k) \in Elements(rows)
       THEN UNCHANGED <<rows, stored>>
       ELSE rows' = Append(rows, Delivery(k)) /\ stored' = stored \union {Delivery(k)}
    /\ UNCHANGED <<alive, cached, turnVars, plan, unsaved>>

\* The tick reaches a ready job of an idle chat: without a summary it asks
\* get_session for the chat's headers and awaits one, with one it delivers.
BeginSummary(k) ==
    /\ summing = NoTool
    /\ toolJob[k] = "ready" /\ k \notin summed /\ ~IsActive
    /\ summing' = k
    /\ cached' = Loaded /\ KeepsOwnObject(Hydrates)
    /\ UNCHANGED <<research, toolJob, summed, alive, rows, phase, turns, auto, plan, stored, unsaved>>

Deliver(k) ==
    /\ summing = NoTool
    /\ toolJob[k] = "ready" /\ k \in summed /\ ~IsActive
    /\ CommitDelivery(k)
    /\ UNCHANGED <<research, summed, summing>>

\* The summary has come, or its time is up and a sentence takes its place.
EndSummary(k) ==
    /\ summing = k /\ summing' = NoTool
    /\ IF toolJob[k] = "ready"
       THEN /\ summed' = summed \union {k}
            /\ IF MayDeliver(k) THEN CommitDelivery(k)
                                ELSE UNCHANGED <<toolJob, transcriptVars>>
       ELSE UNCHANGED <<toolJob, summed, transcriptVars>>
    /\ UNCHANGED research

DropTools ==
    /\ toolJob' = [k \in Tool |-> "none"]
    /\ UNCHANGED <<research, summed, summing>>

\* A restart: pipelines are gone, finished reports are on disk.
LoseTools ==
    /\ research' = [k \in Tool |-> IF research[k] = "running" THEN "failed" ELSE research[k]]
    /\ summing' = NoTool
    /\ UNCHANGED <<toolJob, summed>>

ToolStep(k) ==
    \/ StartResearch(k) \/ EndResearch(k) \/ Collect(k)
    \/ BeginSummary(k) \/ EndSummary(k) \/ Deliver(k)
=============================================================================
