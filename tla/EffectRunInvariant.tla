------------------------- MODULE EffectRunInvariant -------------------------
(***************************************************************************)
(* Why the verdicts of EffectRun are true of the world: an invariant that  *)
(* every step preserves.                                                   *)
(***************************************************************************)
EXTENDS EffectRun

\* Positions order the records, and every part of the history has a last one.
Positioned ==
    /\ PositionsUnique(history)
    /\ \A T \in SUBSET history : T # {} => \E r \in T : \A s \in T : s.seq <= r.seq

\* What is in flight is claimed and not settled: whatever else may change the
\* world, the history knows of it.
FlightsAreClaimed ==
    \A e \in inFlight : IsClaimed(history, e) /\ ~IsSettled(history, e)

RunInv ==
    /\ TypeOK
    /\ Positioned
    /\ OutcomesFollowClaims(history)
    /\ FlightsAreClaimed
    /\ FreshIsTrue
=============================================================================
