----------------------------- MODULE EffectRun -----------------------------
(***************************************************************************)
(* A run's tool calls, the world they change and the verdicts drawn from   *)
(* the shared effect history: journal.py (mark_dispatch, _settle),         *)
(* effect_adapters.py (begin_effect, settle_effect, settle_background_job) *)
(* over EffectVerdict.                                                     *)
(*                                                                         *)
(* The calls of one run, its sub-agents and background jobs interleave     *)
(* freely.  A backend changes the world only between its claim and its     *)
(* settled outcome, and only within the scope of the claim; a read and the *)
(* observation recording it are one step, for both happen on the event     *)
(* loop without an await in between.  The history is taken as complete:    *)
(* what failed writes do to it is the business of EffectLog.               *)
(***************************************************************************)
EXTENDS EffectVerdict, FiniteSets

CONSTANTS
    Reports,      \* the executions a tool call or a job may report
    MaxReads      \* bound on admitted reads

\* A sight of resource r through a mechanism that verifies.
Saw(r, i, x, c) == [resource |-> r, incarnation |-> i, verifying |-> TRUE,
                    exists |-> x, content |-> c]

ASSUME EffectRunConstants ==
    /\ Reports \subseteq Execution \ {"not_executed"}
    /\ MaxReads \in Nat
    /\ "absent" \notin Content
    /\ \A r \in Resource :
          /\ Saw(r, 0, "no", "unknown") \in Sight
          /\ \A c \in Content \cup {"unknown"} : Saw(r, 1, "yes", c) \in Sight

VARIABLES
    history,      \* the records of the run's effect log
    inFlight,     \* the effects whose backend has been invoked and not settled
    content       \* what each resource holds, "absent" if it does not exist

vars == <<history, inFlight, content>>

NextSeq == Max({0} \cup {r.seq : r \in history}) + 1

Init ==
    /\ history = {} /\ inFlight = {}
    /\ content \in [Resource -> Content \cup {"absent"}]

\* mark_dispatch: the claim is recorded, then the backend is invoked.
Dispatch(e) ==
    /\ ~IsClaimed(history, e)
    /\ history' = history \cup {Claim(e, NextSeq)}
    /\ inFlight' = inFlight \cup {e}
    /\ UNCHANGED content

\* The backend of e changes one resource in its scope.
Mutate(e) ==
    /\ e \in inFlight
    /\ \E r \in Resource, c \in Content \cup {"absent"} :
          /\ Touches(e, r)
          /\ content[r] # c
          /\ content' = [content EXCEPT ![r] = c]
    /\ UNCHANGED <<history, inFlight>>

\* _settle: the call returned or raised, or the launch now runs detached; or
\* settle_background_job: the detached job ended.
Settle(e, x) ==
    LET r == Outcome(e, NextSeq, x, FALSE)
    IN  /\ e \in inFlight
        /\ IsRunning(history, e) => x # Running
        /\ Accepts(history, r)
        /\ history' = history \cup {r}
        /\ inFlight' = IF x = Running THEN inFlight ELSE inFlight \ {e}
        /\ UNCHANGED content

\* What an admitted read_file of r establishes, from the state found when it is
\* settled: the whole content, that nothing is there, or, for a read with an
\* offset or one that was truncated, only that something is.  A file created
\* anew may get the inode of the one that was there before.
SightsOf(r) ==
    IF content[r] = "absent" THEN {Saw(r, 0, "no", "unknown")}
    ELSE {Saw(r, 1, "yes", content[r]), Saw(r, 1, "yes", "unknown")}

Read(r) ==
    /\ Cardinality(Observations(history)) < MaxReads
    /\ \E s \in SightsOf(r) : history' = history \cup {Observation(s, NextSeq)}
    /\ UNCHANGED <<inFlight, content>>

Next ==
    \/ \E e \in Effect : Dispatch(e) \/ Mutate(e) \/ \E x \in Reports : Settle(e, x)
    \/ \E r \in Resource : Read(r)

Spec == Init /\ [][Next]_vars

-----------------------------------------------------------------------------
TypeOK ==
    /\ history \subseteq Record
    /\ inFlight \subseteq Effect
    /\ content \in [Resource -> Content \cup {"absent"}]

\* Whether the world, as it is now, satisfies goal g.
Achieved(g) ==
    CASE g.predicate = "absent" -> content[g.target] = "absent"
      [] g.predicate = "exists" -> content[g.target] # "absent"
      [] g.predicate = "content_sha256" -> content[g.target] = g.expected
      [] OTHER -> content[g.target] \notin {g.expected, "absent"}

\* What sight s established is so in the world as it is now.
TrueOf(s) ==
    /\ s.exists = "yes" => content[s.resource] # "absent"
    /\ s.exists = "no" => content[s.resource] = "absent"
    /\ s.content # "unknown" => content[s.resource] = s.content

\* An observation that freshness calls fresh is still true of the world, although
\* calls that were in flight when it was made, commands of unknown scope and
\* detached jobs may change what it saw at any moment (effects.py:643-708).
FreshIsTrue ==
    \A o \in Observations(history) : Fresh(history, o) => TrueOf(o.sight)

\* A verdict that an effect is verified, or that its goal state has been
\* observed, is true of the world at the moment it is drawn, however the
\* calls, jobs and reads of the run interleave (effects.py:9-15).
VerifiedIsTrue ==
    \A e \in Effect : Verdict(history, e) \in {"verified", "state_observed"} =>
                          \A g \in Goals[e] : Achieved(g)

\* A contradiction is real as well: some goal of the effect is not met.
ContradictedIsTrue ==
    \A e \in Effect : Verdict(history, e) = "contradicted" =>
                          \E g \in Goals[e] : ~Achieved(g)

\* Only a new reading makes an effect verified: no report, claim or end of a
\* job does, of this effect or of another (effects.py:9-15).
OnlyReadingsVerify ==
    [][\A e \in Effect :
          /\ Verdict(history, e) # "verified" /\ Verdict(history', e) = "verified"
          => Observations(history') # Observations(history)]_vars
=============================================================================
