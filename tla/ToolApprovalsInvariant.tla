----------------------- MODULE ToolApprovalsInvariant -----------------------
(* The inductive invariant from which the safety of ToolApprovals follows.  *)
EXTENDS ToolApprovals

\* A card in the store has not been answered, and is current until it expires.
CurrentCards ==
    /\ lapsed <= made
    /\ \A c \in pending :
        c <= made /\ answer[c] = "none" /\ (c \in stale => c <= lapsed)

\* Cards come into being with their place.
UnmadeCards ==
    \A c \in Card : c > made =>
        /\ place[c] = Nowhere /\ answer[c] = "none" /\ c \notin stale
        /\ \A s \in Chat : mem[s][c] = "absent" /\ disk[s][c] = "absent"

\* Runs of chats ask at their place; a run of a test ends with its first card,
\* which its job shows.
ShownCards ==
    /\ \A r \in Run : \A c \in asked[r] : c <= made /\ place[c] = at[r] /\ at[r] \in Chat
    /\ \A t \in Test : slot[t] # NoCard => place[slot[t]] = t

DecidedInTime == \A c \in Card : answer[c] \in Allow => c \notin stale

\* The sealed call of a run was allowed at its place, and no other run has it.
SealedCalls ==
    \A r \in Run : grant[r] # NoCard =>
        /\ answer[grant[r]] \in Allow /\ place[grant[r]] = at[r]
        /\ r \notin begun => ran[grant[r]] = 0
        /\ \A q \in Run : grant[q] = grant[r] => q = r

\* What the history of a chat says of its own cards is what was decided.
RecordedAnswers ==
    \A s \in Chat : \A c \in Of(s) :
        mem[s][c] = "approve" \/ disk[s][c] = "approve" => answer[c] = "approve"

\* A chat that does not exist yet, the target of a fork, has no card.
OpenedChats ==
    /\ \A c \in Card : place[c] \in Chat => place[c] \in opened
    /\ \A r \in Run : at[r] \in Chat => at[r] \in opened

ApprovalsInv ==
    /\ TypeOK /\ CurrentCards /\ UnmadeCards /\ ShownCards /\ DecidedInTime /\ SealedCalls
    /\ RecordedAnswers /\ OpenedChats /\ RunsAsApproved /\ SkipsAreGranted
=============================================================================
