------------------------------ MODULE ChatWork ------------------------------
(***************************************************************************)
(* One chat, its turns and compactions, and the background work that       *)
(* writes into it: the continuations of shell jobs and the reports of      *)
(* research, with restarts of the server and the deletion of the session.  *)
(***************************************************************************)
EXTENDS ShellJobs, ToolJobs

CONSTANTS
    MaxCrashes,     \* restarts of the server
    MaxFaults       \* restarts, refused writes and failed acknowledgements in all

ASSUME ChatWorkAssumption ==
    /\ MaxCrashes \in Nat /\ MaxFaults \in Nat
    /\ \A j \in Job : FollowUp(j) \notin Elements(Old)
    /\ \A k \in Tool : Delivery(k) \notin Elements(Old)

VARIABLE crashes

vars == <<transcriptVars, shellVars, toolVars, crashes>>

Init == TranscriptInit /\ ShellInit /\ ToolInit /\ crashes = 0

Converse == TranscriptStep /\ UNCHANGED <<shellVars, toolVars, crashes>>
RunShells ==
    /\ Poll \/ \E j \in Job : ShellStep(j)
    /\ UNCHANGED <<toolVars, crashes>>
RunTools == (\E k \in Tool : ToolStep(k)) /\ UNCHANGED <<shellVars, crashes>>

Delete == DeleteSession /\ DropTools /\ UNCHANGED <<shellVars, crashes>>

Crash ==
    /\ crashes < MaxCrashes /\ crashes' = crashes + 1
    /\ LoseMemory /\ LoseShells /\ LoseTools

Step == Converse \/ RunShells \/ RunTools \/ Delete \/ Crash
Next == Step /\ Cardinality(unsaved') + slips' + crashes' <= MaxFaults
Spec == Init /\ [][Next]_vars

-----------------------------------------------------------------------------
(* Fairness.  The server keeps running its two loops, turns and research     *)
(* pipelines end (both have a maximum), and an agent that is asked again and *)
(* again answers some time.                                                  *)

MonitorMoves ==
    /\ Poll \/ \E j \in Job : FailFollowUp(j) \/ PutOff(j) \/ BeginFollowUp(j)
    /\ UNCHANGED <<toolVars, crashes>>
AnswersFollowUp(j) ==
    (FinishFollowUp(j) \/ RetireFollowUp(j)) /\ UNCHANGED <<toolVars, crashes>>
DeliveryMoves ==
    /\ \E k \in Tool : Collect(k) \/ BeginSummary(k) \/ EndSummary(k) \/ Deliver(k)
    /\ UNCHANGED <<shellVars, crashes>>

Fairness ==
    /\ WF_vars(EndTurn /\ UNCHANGED <<shellVars, toolVars, crashes>>)
    /\ WF_vars((\E k \in Tool : EndResearch(k)) /\ UNCHANGED <<shellVars, crashes>>)
    /\ WF_vars(MonitorMoves) /\ WF_vars(DeliveryMoves)
    /\ \A j \in Job : SF_vars(AnswersFollowUp(j))

FairSpec == Spec /\ Fairness

-----------------------------------------------------------------------------
(* Properties *)

Messages ==
    Elements(Old) \union {Summary}
      \union {Asked(n) : n \in 1..MaxTurns} \union {Answered(n) : n \in 1..MaxTurns}
      \union {FollowUp(j) : j \in Job} \union {Delivery(k) : k \in Tool}

TypeOK ==
    /\ alive \in BOOLEAN /\ shared \in BOOLEAN
    /\ rows \in Seq(Messages) /\ cached \in Seq(Messages) /\ held \in Seq(Messages)
    /\ auto \in [system : Nat, split : Nat, older : SUBSET Messages]
    /\ plan \in [older : SUBSET Messages, recent : Seq(Messages)]
    /\ stored \subseteq Messages /\ unsaved \subseteq Messages
    /\ phase \in {"idle", "opened", "asked", "streaming", "saved"}
    /\ turns \in 0..MaxTurns
    /\ process \in [Job -> {"none", "running", "over"}]
    /\ shellJob \in [Job -> {"none", "running", "finished"}]
    /\ followed \subseteq Job /\ retired \subseteq Job /\ killed \subseteq Job /\ unlinked \subseteq Job
    /\ batch \subseteq Job /\ drain \in Job \union {NoJob} /\ slips \in 0..MaxSlips
    /\ research \in [Tool -> {"none", "running", "done", "failed"}]
    /\ toolJob \in [Tool -> {"none", "running", "ready", "delivered"}]
    /\ summed \subseteq Tool /\ summing \in Tool \union {NoTool}

(* A job is acknowledged only once the chat was continued with its result, *)
(* unless it was killed on purpose or the database refused the message,    *)
(* which _persist_message only logs.                                       *)
AckedIsContinued ==
    \A j \in followed \ killed : FollowUp(j) \in stored \union unsaved

(* A job that was killed on purpose is never continued, though its record  *)
(* is finished like any other and the monitor runs beside the killer.      *)
KilledStaysSilent ==
    \A j \in killed : FollowUp(j) \notin stored \union unsaved /\ drain # j

(* The report of a job is in the chat, or was, exactly when the job is     *)
(* marked as delivered.                                                    *)
DeliveredIsWritten ==
    alive => \A k \in Tool : toolJob[k] = "delivered" <=> Delivery(k) \in stored

(* The report of a job is written once, into a chat whose turn is over:    *)
(* however long its summary took, whatever a compaction removed since.     *)
DeliversOnceWhileIdle ==
    [][\A k \in Tool : rows' = Append(rows, Delivery(k)) /\ cached' = cached =>
           Delivery(k) \notin stored /\ ~IsActive /\ alive]_vars

(* The history a turn starts from is what the database holds, until the     *)
(* database refuses a message: the two are compared by their lengths only. *)
ContextComplete ==
    [][phase = "idle" /\ phase' = "opened" => cached' = rows \/ unsaved # {}]_vars

(* The cached history is the rows, or short enough for get_session to see  *)
(* that it is not.                                                         *)
InStep == Len(cached) < Len(rows) \/ cached = rows

(* It gets out of step only with a message the database refuses, whoever   *)
(* writes, cuts, summarises or delivers beside the turn that holds it.     *)
OnlyRefusalsPart ==
    [][InStep => InStep' \/ (cached' # <<>> /\ cached'[Len(cached')] \in unsaved')]_vars

(* A finished job of a chat is continued in the end, unless the chat is    *)
(* deleted, or the record of who launched the job is lost.                 *)
FollowedUpInTheEnd ==
    \A j \in Job : shellJob[j] = "finished" /\ alive
                   ~> j \in followed \union unlinked \/ ~alive

(* Research started for a chat ends in a message there, with its report or *)
(* with the news that it failed or was interrupted by a restart, unless    *)
(* the chat is deleted.                                                    *)
DeliveredInTheEnd ==
    \A k \in Tool : toolJob[k] = "running" ~> toolJob[k] = "delivered" \/ ~alive
=============================================================================
