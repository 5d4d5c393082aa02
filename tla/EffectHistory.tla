--------------------------- MODULE EffectHistory ---------------------------
(***************************************************************************)
(* The records of an effect history and the rules that make a set of them  *)
(* a valid history: src/agent_runtime/effects.py (EffectHistory) and the   *)
(* incremental check of src/agent_runtime/effect_log.py (_Index).          *)
(*                                                                         *)
(* A history is a set of records; the order of a history is the order of   *)
(* the positions its records carry.                                        *)
(***************************************************************************)
EXTENDS Naturals

CONSTANTS
    Effect,      \* effect identifiers, one per claimed action
    Sight        \* what an observation may have seen

\* What an outcome may report.  ATTEMPTED is not here: it is derived from a
\* claim that has no outcome.
Running     == "running"
Interrupted == "interrupted"
Settling    == {"not_executed", "reported_success", "failed", "timed_out",
                "cancelled", Interrupted}
Execution   == Settling \cup {Running}

ClaimRecord == [kind : {"claim"}, seq : Nat, effect : Effect]
OutcomeRecord == [kind : {"outcome"}, seq : Nat, effect : Effect,
                  execution : Execution, replayed : BOOLEAN]
ObservationRecord == [kind : {"observation"}, seq : Nat, sight : Sight]
Record == ClaimRecord \cup OutcomeRecord \cup ObservationRecord

Claim(e, n) == [kind |-> "claim", seq |-> n, effect |-> e]
Outcome(e, n, x, r) == [kind |-> "outcome", seq |-> n, effect |-> e,
                        execution |-> x, replayed |-> r]
Observation(s, n) == [kind |-> "observation", seq |-> n, sight |-> s]

-----------------------------------------------------------------------------
Claims(S)       == {r \in S : r.kind = "claim"}
Outcomes(S)     == {r \in S : r.kind = "outcome"}
Observations(S) == {r \in S : r.kind = "observation"}

ClaimsOf(S, e)   == {r \in Claims(S) : r.effect = e}
OutcomesOf(S, e) == {r \in Outcomes(S) : r.effect = e}

IsClaimed(S, e)  == ClaimsOf(S, e) # {}
HasOutcome(S, e) == OutcomesOf(S, e) # {}
IsSettled(S, e)  == \E r \in OutcomesOf(S, e) : r.execution # Running
IsRunning(S, e)  == HasOutcome(S, e) /\ ~IsSettled(S, e)

\* The claims a reload finds without any outcome (replay_interrupted).
PendingEffects(S) == {e \in Effect : IsClaimed(S, e) /\ ~HasOutcome(S, e)}

(***************************************************************************)
(* _Index.accepts: whether record r may be appended after the records S.   *)
(***************************************************************************)
Accepts(S, r) ==
    /\ \A s \in S : s.seq # r.seq
    /\ r.kind = "claim" => ~IsClaimed(S, r.effect)
    /\ r.kind = "outcome" =>
          /\ \E c \in ClaimsOf(S, r.effect) : r.seq > c.seq
          /\ ~IsSettled(S, r.effect)
          /\ \A o \in OutcomesOf(S, r.effect) : r.seq > o.seq

(***************************************************************************)
(* EffectHistory.__post_init__: what the constructor of a history rejects. *)
(***************************************************************************)
PositionsUnique(S) == \A r, s \in S : r.seq = s.seq => r = s

ClaimedOnce(S) == \A c, d \in Claims(S) : c.effect = d.effect => c = d

OutcomesFollowClaims(S) ==
    \A o \in Outcomes(S) : \E c \in ClaimsOf(S, o.effect) : c.seq < o.seq

SettledLast(S) ==
    \A o, p \in Outcomes(S) :
        o.effect = p.effect /\ o.seq < p.seq => o.execution = Running

HistoryValid(S) ==
    /\ PositionsUnique(S)
    /\ ClaimedOnce(S)
    /\ OutcomesFollowClaims(S)
    /\ SettledLast(S)
=============================================================================
