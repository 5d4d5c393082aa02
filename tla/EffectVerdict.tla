--------------------------- MODULE EffectVerdict ---------------------------
(***************************************************************************)
(* Freshness and verification: what an effect history says about the       *)
(* effects it claims (src/agent_runtime/effects.py, from predicate_holds   *)
(* to assess).                                                             *)
(*                                                                         *)
(* A resource stands for an exact location.  What a claim may change and   *)
(* what it was asked to achieve are fixed with the claim, hence functions  *)
(* of the effect.                                                          *)
(***************************************************************************)
EXTENDS EffectHistory, FiniteSetsExt

CONSTANTS
    Resource,     \* exact resource locations
    Overlaps,     \* pairs of locations of which one lies within the other
    Content,      \* whole contents a resource can have
    Scope,        \* the resources each effect may change; {} is unknown scope
    Goals         \* each effect's obligations (Postcondition)

Predicate == {"exists", "absent", "content_sha256", "content_changed"}
Goal == [target : Resource, predicate : Predicate, expected : Content]

(***************************************************************************)
(* What an observation saw.  Existence or content it did not establish is  *)
(* "unknown"; only a verifying mechanism may decide a predicate.           *)
(***************************************************************************)
Seen == [resource : Resource, incarnation : Nat, verifying : BOOLEAN,
         exists : {"yes", "no", "unknown"}, content : Content \cup {"unknown"}]

ASSUME EffectVerdictConstants ==
    /\ Overlaps \subseteq Resource \X Resource
    /\ \A r \in Resource : <<r, r>> \in Overlaps
    /\ "unknown" \notin Content
    /\ Sight \subseteq Seen
    /\ \A e \in Effect : /\ Scope[e] \subseteq Resource
                         /\ Goals[e] \subseteq Goal
                         /\ \A g \in Goals[e] : g.target \in Scope[e]

\* predicate_holds: whether sight s is able to decide goal g at all, ...
Decides(g, s) ==
    /\ s.resource = g.target /\ s.verifying
    /\ g.predicate \in {"exists", "absent"} => s.exists # "unknown"
    /\ g.predicate \in {"content_sha256", "content_changed"} =>
          s.exists = "no" \/ s.content # "unknown"

\* ... and then how it decides.
PredicateHolds(g, s) ==
    CASE g.predicate = "exists"          -> s.exists = "yes"
      [] g.predicate = "absent"          -> s.exists = "no"
      [] g.predicate = "content_sha256"  -> s.exists # "no" /\ s.content = g.expected
      [] g.predicate = "content_changed" -> s.exists # "no" /\ s.content # g.expected

-----------------------------------------------------------------------------
\* _claim_touches
Touches(e, r) == Scope[e] = {} \/ \E q \in Scope[e] : <<q, r>> \in Overlaps

Latest(R) == CHOOSE r \in R : \A s \in R : s.seq <= r.seq

\* latest_outcome, execution
Before(S, n) == {r \in S : r.seq < n}
ExecutionOf(S, e) == IF HasOutcome(S, e)
                     THEN Latest(OutcomesOf(S, e)).execution
                     ELSE "attempted"

\* mutated: claims after the observation are ignored
InvalidatedByReplacement(S, o) ==
    \E p \in Observations(S) : /\ p.seq > o.seq
                               /\ p.sight.resource = o.sight.resource
                               /\ p.sight.incarnation # o.sight.incarnation

\* invalidated_by: a later claim that may touch the resource, unless it was
\* refused before invocation, or a later sight of another incarnation.
Invalidated(S, o) ==
    \/ \E c \in Claims(S) : /\ c.seq > o.seq
                            /\ Touches(c.effect, o.sight.resource)
                            /\ ExecutionOf(S, c.effect) # "not_executed"
    \/ \E p \in Observations(S) : /\ p.seq > o.seq
                                  /\ p.sight.resource = o.sight.resource
                                  /\ p.sight.incarnation # o.sight.incarnation

\* mutated: what was in flight does not matter; or what still is now does
InFlightNever(S, o) == FALSE
InFlightNow(S, o) ==
    \E c \in Claims(S) : /\ c.seq < o.seq /\ Touches(c.effect, o.sight.resource)
                         /\ ExecutionOf(S, c.effect) \in {"attempted", Running}

\* freshness
InFlightAt(S, o) ==
    \E c \in Claims(S) :
        /\ c.seq < o.seq /\ Touches(c.effect, o.sight.resource)
        /\ ExecutionOf(Before(S, o.seq), c.effect) \in {"attempted", Running}

Fresh(S, o) == ~Invalidated(S, o) /\ ~InFlightAt(S, o)

-----------------------------------------------------------------------------
Rank == [v \in {"failed", "contradicted", "pending", "unverified", "not_executed",
                "state_observed", "verified"} |->
            CASE v = "failed" -> 0 [] v = "contradicted" -> 1 [] v = "pending" -> 2
              [] v = "unverified" -> 3 [] v = "not_executed" -> 4
              [] v = "state_observed" -> 5 [] v = "verified" -> 6]

\* The sights able to decide goal g, made after the effect settled.
Candidates(S, g, settled) ==
    {o \in Observations(S) : /\ o.seq > settled.seq
                             /\ o.sight.resource = g.target
                             /\ o.sight.verifying}

\* _assess_obligation: the newest check wins, even over better earlier ones.
GoalVerdict(S, g, settled) ==
    LET candidates == Candidates(S, g, settled)
        newest     == Latest(candidates)
    IN  IF candidates = {} \/ ~Fresh(S, newest) \/ ~Decides(g, newest.sight)
        THEN "unverified"
        ELSE IF ~PredicateHolds(g, newest.sight) THEN "contradicted"
        ELSE CASE settled.execution = "failed"           -> "failed"
               [] settled.execution = "reported_success" -> "verified"
               [] OTHER                                  -> "state_observed"

\* assess: the worst of the goals, but a failure is never taken for less.
Verdict(S, e) ==
    LET execution == ExecutionOf(S, e)
        settled   == Latest(OutcomesOf(S, e))
        verdicts  == {GoalVerdict(S, g, settled) : g \in Goals[e]}
        worst     == IF verdicts = {} THEN "unverified"
                     ELSE CHOOSE v \in verdicts : \A u \in verdicts : Rank[v] <= Rank[u]
    IN  CASE execution \in {"attempted", Running} -> "pending"
          [] execution = "not_executed"           -> "not_executed"
          [] execution = "failed"                 -> IF worst = "contradicted" THEN worst
                                                                               ELSE "failed"
          [] OTHER                                -> worst
=============================================================================
