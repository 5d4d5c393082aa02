-------------------------- MODULE MCToolApprovals --------------------------
\* Constant values and bounds for the model checking of ToolApprovals.
EXTENDS ToolApprovalsInvariant, TLC

Interchangeable == Permutations(Run) \cup Permutations(Chat)

OneRun == Cardinality({r \in Run : at[r] # Nowhere}) <= 1

\* The last card, which may evict the oldest one, is asked for by the only run
\* there is, and what follows is quiet: no upset, nothing expired, no second
\* run and no message saved.
Quiet ==
    /\ OneRun
    /\ upsets = 0 /\ lapsed = 0 /\ stray = {}
    /\ \A s \in Chat, c \in Card : mem[s][c] = "absent"

\* An upset that meets a second card meets one run only, and so does a second
\* card that meets an upset.
Steady == made = MaxCards - 1 /\ upsets > 0 => OneRun

MCNext == Next /\ (Steady /\ (made = MaxCards => Quiet))'
MCSpec == Init /\ [][MCNext]_vars
=============================================================================
