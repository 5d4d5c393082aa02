------------------------- MODULE ChatWorkInvariant -------------------------
(* The inductive invariant behind the safety properties of ChatWork.        *)
EXTENDS ChatWork

\* Every message of any copy of the transcript was written or refused, except
\* what a turn adds to its own object after the session was deleted.
CopiesAreKnown ==
    /\ Elements(rows) \union Elements(cached) \union Elements(plan.recent) \subseteq stored \union unsaved
    /\ alive => Elements(held) \subseteq stored \union unsaved

\* A turn in progress has a number.
TurnsCount == phase # "idle" => turns > 0

\* The monitor handles finished jobs that nobody killed; no other job was
\* ever continued.
MonitorHandlesFinished ==
    /\ \A j \in batch \union ({drain} \ {NoJob}) : shellJob[j] = "finished" /\ j \notin killed
    /\ \A j \in killed : shellJob[j] = "finished" /\ j \in followed
    /\ \A j \in Job : FollowUp(j) \in stored \union unsaved => shellJob[j] = "finished"

\* Reports are never refused, and none is written for a job not delivered.
ReportsAreStored ==
    /\ \A k \in Tool : Delivery(k) \notin unsaved
    /\ \A k \in Tool : ~alive => toolJob[k] = "none"

\* A report in the cached history lies at the same place in the database.
ReportsInPlace ==
    \A i \in DOMAIN cached, k \in Tool : cached[i] = Delivery(k) => i \in DOMAIN rows /\ rows[i] = cached[i]

WorkInv ==
    /\ TypeOK /\ CopiesAreKnown /\ TurnsCount
    /\ MonitorHandlesFinished /\ ReportsAreStored
    /\ AckedIsContinued /\ KilledStaysSilent /\ DeliveredIsWritten
=============================================================================
