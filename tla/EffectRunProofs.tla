-------------------------- MODULE EffectRunProofs --------------------------
(***************************************************************************)
(* Proofs about EffectRun, for any effects, resources, scopes, overlaps    *)
(* and obligations: what the history calls fresh is true of the world, and *)
(* the verdicts drawn from it are.                                         *)
(***************************************************************************)
EXTENDS EffectRunInvariant, TLAPS

USE EffectRunConstants, EffectVerdictConstants

-----------------------------------------------------------------------------
(***************************************************************************)
(* Records and their order.                                                *)
(***************************************************************************)

\* Every record has a position and one of three kinds.
LEMMA RecordType ==
    ASSUME NEW r \in Record
    PROVE  /\ r.seq \in Nat
           /\ r.kind \in {"claim", "outcome", "observation"}
           /\ r.kind = "claim" => r.effect \in Effect
           /\ r.kind = "outcome" => r.effect \in Effect /\ r.execution \in Execution
           /\ r.kind = "observation" => r.sight \in Sight
  BY DEF Record, ClaimRecord, OutcomeRecord, ObservationRecord

\* Latest is the last record of a set that has one.
LEMMA LatestIs ==
    ASSUME NEW T, NEW r \in T, \A s \in T : s.seq <= r.seq
    PROVE  Latest(T) \in T /\ \A s \in T : s.seq <= Latest(T).seq
  BY DEF Latest

\* Every part of the history of a run has its last record.
LEMMA LatestInHistory ==
    ASSUME Positioned, NEW T \in SUBSET history, T # {}
    PROVE  Latest(T) \in T /\ \A s \in T : s.seq <= Latest(T).seq
<1>1. PICK r \in T : \A s \in T : s.seq <= r.seq
  BY DEF Positioned
<1> QED BY <1>1, LatestIs

\* The next position lies behind all records.
LEMMA NextSeqIsNew ==
    ASSUME TypeOK, Positioned
    PROVE  NextSeq \in Nat /\ \A r \in history : r.seq < NextSeq
<1> DEFINE P == {0} \cup {r.seq : r \in history}
<1>1. \A r \in history : r.seq \in Nat
  BY RecordType DEF TypeOK
<1>2. \E m \in P : \A y \in P : m >= y
  <2>1. CASE history = {}
    BY <2>1
  <2>2. CASE history # {}
    <3>1. PICK r \in history : \A s \in history : s.seq <= r.seq
      BY <2>2 DEF Positioned
    <3>2. \A y \in P : r.seq >= y
      BY <3>1, <1>1
    <3> QED BY <3>2
  <2> QED BY <2>1, <2>2
<1>3. Max(P) \in P /\ \A y \in P : Max(P) >= y
  BY <1>2 DEF Max
<1>4. Max(P) \in Nat
  BY <1>1, <1>3
<1>5. NextSeq = Max(P) + 1
  BY DEF NextSeq
<1>6. ASSUME NEW r \in history PROVE r.seq < NextSeq
  <2>1. r.seq \in P /\ r.seq \in Nat
    BY <1>1
  <2> HIDE DEF P
  <2> QED BY <2>1, <1>3, <1>4, <1>5
<1> QED BY <1>4, <1>5, <1>6

-----------------------------------------------------------------------------
(***************************************************************************)
(* Appending a record v behind the records S.                              *)
(***************************************************************************)
Appends(S, v) == /\ S \in SUBSET Record
                 /\ v \in Record
                 /\ \A s \in S : s.seq < v.seq

\* A set with a last record stays one, and its positions stay different.
LEMMA AppendPositions ==
    ASSUME TypeOK, Positioned, NEW v, Appends(history, v),
           history' = history \cup {v}
    PROVE  Positioned'
<1>1. \A r \in history' : r.seq \in Nat
  BY RecordType DEF Appends
<1>2. PositionsUnique(history)'
  BY <1>1 DEF Positioned, PositionsUnique, Appends
<1>3. ASSUME NEW T \in SUBSET history', T # {}
      PROVE  \E r \in T : \A s \in T : s.seq <= r.seq
  <2>1. CASE v \in T
    <3>1. \A s \in T : s.seq <= v.seq
      BY <1>1, <1>3 DEF Appends
    <3> QED BY <2>1, <3>1
  <2>2. CASE v \notin T
    BY <1>3, <2>2 DEF Positioned
  <2> QED BY <2>1, <2>2
<1> QED BY <1>2, <1>3 DEF Positioned

\* An outcome becomes the execution of its effect; nothing else changes one.
LEMMA AppendExecution ==
    ASSUME NEW S, NEW v, Appends(S, v), NEW e
    PROVE  /\ v.kind = "outcome" /\ v.effect = e =>
                  ExecutionOf(S \cup {v}, e) = v.execution
           /\ ~(v.kind = "outcome" /\ v.effect = e) =>
                  OutcomesOf(S \cup {v}, e) = OutcomesOf(S, e)
           /\ ~(v.kind = "outcome" /\ v.effect = e) =>
                  ExecutionOf(S \cup {v}, e) = ExecutionOf(S, e)
<1> DEFINE O == OutcomesOf(S \cup {v}, e)
<1>1. \A r \in S \cup {v} : r.seq \in Nat
  BY RecordType DEF Appends
<1>2. ASSUME v.kind = "outcome", v.effect = e
      PROVE  ExecutionOf(S \cup {v}, e) = v.execution
  <2>1. v \in O /\ \A s \in O : s.seq <= v.seq
    BY <1>1, <1>2 DEF OutcomesOf, Outcomes, Appends
  <2>2. Latest(O) \in O /\ v.seq <= Latest(O).seq
    BY <2>1, LatestIs
  <2>3. Latest(O) = v
    BY <2>2, <1>1 DEF OutcomesOf, Outcomes, Appends
  <2> QED BY <2>1, <2>3 DEF ExecutionOf, HasOutcome
<1>3. ASSUME ~(v.kind = "outcome" /\ v.effect = e)
      PROVE  O = OutcomesOf(S, e)
  BY <1>3 DEF OutcomesOf, Outcomes
<1>4. ASSUME ~(v.kind = "outcome" /\ v.effect = e)
      PROVE  ExecutionOf(S \cup {v}, e) = ExecutionOf(S, e)
  BY <1>3, <1>4 DEF ExecutionOf, HasOutcome
<1> QED BY <1>2, <1>3, <1>4

\* What a history held before a position it already has stays what it was.
LEMMA AppendBefore ==
    ASSUME NEW S, NEW v, Appends(S, v), NEW o \in S
    PROVE  Before(S \cup {v}, o.seq) = Before(S, o.seq)
<1>1. o.seq \in Nat /\ v.seq \in Nat /\ o.seq < v.seq
  BY RecordType DEF Appends
<1> QED BY <1>1 DEF Before

\* Only new readings make a sight fresh: what a record makes stale stays stale.
LEMMA StaleStaysStale ==
    ASSUME NEW S, NEW v, Appends(S, v),
           v.kind = "outcome" => v.execution # "not_executed",
           NEW o \in Observations(S), Fresh(S \cup {v}, o)
    PROVE  Fresh(S, o)
<1> DEFINE U == S \cup {v}
<1>1. o \in S
  BY DEF Observations
<1>2. ASSUME NEW e, ExecutionOf(S, e) # "not_executed"
      PROVE  ExecutionOf(U, e) # "not_executed"
  BY <1>2, AppendExecution
<1>3. ASSUME Invalidated(S, o) PROVE Invalidated(U, o)
  <2>1. CASE \E c \in Claims(S) : /\ c.seq > o.seq
                                  /\ Touches(c.effect, o.sight.resource)
                                  /\ ExecutionOf(S, c.effect) # "not_executed"
    <3>1. PICK c \in Claims(S) : /\ c.seq > o.seq
                                 /\ Touches(c.effect, o.sight.resource)
                                 /\ ExecutionOf(S, c.effect) # "not_executed"
      BY <2>1
    <3>2. c \in Claims(U)
      BY DEF Claims
    <3> QED BY <3>1, <3>2, <1>2 DEF Invalidated
  <2>2. CASE \E p \in Observations(S) : /\ p.seq > o.seq
                                        /\ p.sight.resource = o.sight.resource
                                        /\ p.sight.incarnation # o.sight.incarnation
    BY <2>2 DEF Invalidated, Observations
  <2> QED BY <1>3, <2>1, <2>2 DEF Invalidated
<1>4. ASSUME InFlightAt(S, o) PROVE InFlightAt(U, o)
  <2>1. Before(U, o.seq) = Before(S, o.seq)
    BY <1>1, AppendBefore
  <2>2. Claims(S) \subseteq Claims(U)
    BY DEF Claims
  <2> QED BY <1>4, <2>1, <2>2 DEF InFlightAt
<1> QED BY <1>3, <1>4 DEF Fresh

-----------------------------------------------------------------------------
(***************************************************************************)
(* The steps.                                                              *)
(***************************************************************************)

\* A record at the next position is appended.
LEMMA NextSeqAppends ==
    ASSUME TypeOK, Positioned, NEW v \in Record, v.seq = NextSeq
    PROVE  Appends(history, v)
  BY NextSeqIsNew DEF Appends, TypeOK

\* While the world stands still, a new record leaves what is fresh true.
LEMMA FreshAfterAppend ==
    ASSUME TypeOK, FreshIsTrue, NEW v, Appends(history, v),
           v.kind = "outcome" => v.execution # "not_executed",
           v.kind = "observation" => TrueOf(v.sight),
           history' = history \cup {v}, content' = content
    PROVE  FreshIsTrue'
<1> SUFFICES ASSUME NEW o \in Observations(history'), Fresh(history', o)
             PROVE  TrueOf(o.sight)'
  BY DEF FreshIsTrue
<1>1. CASE o = v
  BY <1>1 DEF TrueOf, Observations
<1>2. CASE o # v
  <2>1. o \in Observations(history)
    BY <1>2 DEF Observations
  <2>2. Fresh(history, o)
    BY <2>1, StaleStaysStale
  <2> QED BY <2>1, <2>2 DEF FreshIsTrue, TrueOf
<1> QED BY <1>1, <1>2

\* Only an outcome of an effect settles it, and no claim is taken back.
LEMMA FlightsAfterAppend ==
    ASSUME NEW S, NEW v, Appends(S, v), NEW e,
           IsClaimed(S, e), ~IsSettled(S, e),
           v.kind = "outcome" /\ v.effect = e => v.execution = Running
    PROVE  IsClaimed(S \cup {v}, e) /\ ~IsSettled(S \cup {v}, e)
  BY DEF IsClaimed, ClaimsOf, Claims, IsSettled, OutcomesOf, Outcomes

\* An outcome is appended behind the claim of its effect.
LEMMA ClaimsComeFirst ==
    ASSUME NEW S, NEW v, Appends(S, v), OutcomesFollowClaims(S),
           v.kind = "outcome" => IsClaimed(S, v.effect)
    PROVE  OutcomesFollowClaims(S \cup {v})
<1> SUFFICES ASSUME NEW o \in Outcomes(S \cup {v})
             PROVE  \E c \in ClaimsOf(S \cup {v}, o.effect) : c.seq < o.seq
  BY DEF OutcomesFollowClaims
<1>1. CASE o \in Outcomes(S)
  BY <1>1 DEF OutcomesFollowClaims, ClaimsOf, Claims
<1>2. CASE o \notin Outcomes(S)
  <2>1. o = v /\ v.kind = "outcome"
    BY <1>2 DEF Outcomes
  <2> QED BY <2>1 DEF IsClaimed, ClaimsOf, Claims, Appends
<1> QED BY <1>1, <1>2

LEMMA DispatchKeeps ==
    ASSUME RunInv, NEW e \in Effect, Dispatch(e)
    PROVE  RunInv'
<1> DEFINE v == Claim(e, NextSeq)
<1>1. v \in Record /\ v.seq = NextSeq /\ v.kind = "claim" /\ v.effect = e
  BY NextSeqIsNew DEF RunInv, Claim, Record, ClaimRecord
<1>2. Appends(history, v)
  BY <1>1, NextSeqAppends DEF RunInv
<1>3. history' = history \cup {v} /\ inFlight' = inFlight \cup {e} /\ content' = content
  BY DEF Dispatch
<1>c. ~IsClaimed(history, e)
  BY DEF Dispatch
<1> HIDE DEF v
<1>4. TypeOK'
  BY <1>1, <1>3 DEF RunInv, TypeOK
<1>5. Positioned'
  BY <1>2, <1>3, AppendPositions DEF RunInv
<1>6. FreshIsTrue'
  BY <1>1, <1>2, <1>3, FreshAfterAppend DEF RunInv
<1>7. ASSUME NEW f \in inFlight'
      PROVE  IsClaimed(history', f) /\ ~IsSettled(history', f)
  <2>1. CASE f \in inFlight
    BY <2>1, <1>1, <1>2, <1>3, FlightsAfterAppend DEF RunInv, FlightsAreClaimed
  <2>2. CASE f = e
    <3>1. IsClaimed(history', e)
      BY <1>1, <1>3 DEF IsClaimed, ClaimsOf, Claims
    <3>2. OutcomesOf(history, e) = {}
      BY <1>c DEF RunInv, OutcomesFollowClaims, IsClaimed, OutcomesOf
    <3>3. OutcomesOf(history', e) = {}
      BY <3>2, <1>1, <1>3 DEF OutcomesOf, Outcomes
    <3> QED BY <2>2, <3>1, <3>3 DEF IsSettled
  <2> QED BY <1>3, <2>1, <2>2
<1>8. OutcomesFollowClaims(history)'
  BY <1>1, <1>2, <1>3, ClaimsComeFirst DEF RunInv
<1> QED BY <1>4, <1>5, <1>6, <1>7, <1>8 DEF RunInv, FlightsAreClaimed

\* The hard step: what an effect in flight changes, no fresh observation saw.
\* Its claim lies before an observation of the resource, which then found it
\* in flight, or behind it and makes it stale.
LEMMA MutateKeeps ==
    ASSUME RunInv, NEW e \in Effect, Mutate(e)
    PROVE  RunInv'
<1>1. PICK r \in Resource, x \in Content \cup {"absent"} :
             Touches(e, r) /\ content' = [content EXCEPT ![r] = x]
  BY DEF Mutate
<1>2. e \in inFlight /\ history' = history /\ inFlight' = inFlight
  BY DEF Mutate
<1>3. \A v \in history : v.seq \in Nat
  BY RecordType DEF RunInv, TypeOK
<1>4. TypeOK'
  BY <1>1, <1>2 DEF RunInv, TypeOK
<1>5. ASSUME NEW o \in Observations(history), o.sight.resource = r
      PROVE  ~Fresh(history, o)
  <2>1. PICK c \in ClaimsOf(history, e) : TRUE
    BY <1>2 DEF RunInv, FlightsAreClaimed, IsClaimed
  <2>2. c \in Claims(history) /\ c \in history /\ c.effect = e
    BY <2>1 DEF ClaimsOf, Claims
  <2>3. o \in history /\ o # c
    BY <2>2 DEF Observations, Claims
  <2>4. \A S \in SUBSET history : ExecutionOf(S, e) \in {"attempted", Running}
    <3> SUFFICES ASSUME NEW S \in SUBSET history, HasOutcome(S, e)
                 PROVE  ExecutionOf(S, e) = Running
      BY DEF ExecutionOf
    <3>1. Latest(OutcomesOf(S, e)) \in OutcomesOf(S, e)
      BY LatestInHistory DEF HasOutcome, OutcomesOf, Outcomes, RunInv
    <3>2. OutcomesOf(S, e) \subseteq OutcomesOf(history, e)
      BY DEF OutcomesOf, Outcomes
    <3> QED BY <3>1, <3>2, <1>2 DEF RunInv, FlightsAreClaimed, IsSettled, ExecutionOf
  <2>5. c.seq # o.seq
    BY <2>2, <2>3 DEF RunInv, Positioned, PositionsUnique
  <2>6. CASE c.seq > o.seq
    <3>1. ExecutionOf(history, c.effect) # "not_executed"
      BY <2>2, <2>4 DEF Running
    <3> QED BY <2>2, <2>6, <3>1, <1>1, <1>5 DEF Fresh, Invalidated
  <2>7. CASE c.seq < o.seq
    <3>1. Before(history, o.seq) \in SUBSET history
      BY DEF Before
    <3> QED BY <2>2, <2>4, <2>7, <3>1, <1>1, <1>5 DEF Fresh, InFlightAt
  <2> QED BY <2>2, <2>3, <2>5, <2>6, <2>7, <1>3
<1>6. FreshIsTrue'
  <2> SUFFICES ASSUME NEW o \in Observations(history), Fresh(history, o)
               PROVE  TrueOf(o.sight)'
    BY <1>2 DEF FreshIsTrue
  <2>1. o.sight.resource # r
    BY <1>5
  <2>2. content'[o.sight.resource] = content[o.sight.resource]
    BY <2>1, <1>1 DEF RunInv, TypeOK
  <2> QED BY <2>2 DEF RunInv, FreshIsTrue, TrueOf
<1> QED BY <1>2, <1>4, <1>6 DEF RunInv, Positioned, FlightsAreClaimed

LEMMA SettleKeeps ==
    ASSUME RunInv, NEW e \in Effect, NEW x \in Reports, Settle(e, x)
    PROVE  RunInv'
<1> DEFINE v == Outcome(e, NextSeq, x, FALSE)
<1>1. /\ v \in Record /\ v.seq = NextSeq /\ v.kind = "outcome" /\ v.effect = e
      /\ v.execution = x /\ x # "not_executed"
  BY NextSeqIsNew DEF RunInv, Outcome, Record, OutcomeRecord
<1>2. Appends(history, v)
  BY <1>1, NextSeqAppends DEF RunInv
<1>3. /\ history' = history \cup {v} /\ content' = content /\ e \in inFlight
      /\ inFlight' = IF x = Running THEN inFlight ELSE inFlight \ {e}
  BY DEF Settle
<1> HIDE DEF v
<1>4. TypeOK'
  BY <1>1, <1>3 DEF RunInv, TypeOK
<1>5. Positioned'
  BY <1>2, <1>3, AppendPositions DEF RunInv
<1>6. FreshIsTrue'
  BY <1>1, <1>2, <1>3, FreshAfterAppend DEF RunInv
<1>7. FlightsAreClaimed'
  BY <1>1, <1>2, <1>3, FlightsAfterAppend DEF RunInv, FlightsAreClaimed
<1>8. OutcomesFollowClaims(history)'
  BY <1>1, <1>2, <1>3, ClaimsComeFirst DEF RunInv, FlightsAreClaimed
<1> QED BY <1>4, <1>5, <1>6, <1>7, <1>8 DEF RunInv

\* What a read records is so, for it is recorded in the step that looks.
LEMMA SightsAreTrue ==
    ASSUME TypeOK, NEW r \in Resource, NEW s \in SightsOf(r)
    PROVE  s \in Sight /\ TrueOf(s)
<1>1. content[r] \in Content \cup {"absent"}
  BY DEF TypeOK
<1>2. CASE content[r] = "absent"
  <2>1. s = Saw(r, 0, "no", "unknown")
    BY <1>2 DEF SightsOf
  <2> QED BY <2>1, <1>2 DEF Saw, TrueOf
<1>3. CASE content[r] # "absent"
  <2>1. PICK c \in {content[r], "unknown"} : s = Saw(r, 1, "yes", c)
    BY <1>3 DEF SightsOf
  <2>2. s \in Sight
    BY <1>1, <1>3, <2>1
  <2> QED BY <2>1, <2>2, <1>3 DEF Saw, TrueOf
<1> QED BY <1>2, <1>3

LEMMA ReadKeeps ==
    ASSUME RunInv, NEW r \in Resource, Read(r)
    PROVE  RunInv'
<1>1. PICK s \in SightsOf(r) : history' = history \cup {Observation(s, NextSeq)}
  BY DEF Read
<1> DEFINE v == Observation(s, NextSeq)
<1>2. s \in Sight /\ TrueOf(s)
  BY SightsAreTrue DEF RunInv
<1>3. v \in Record /\ v.seq = NextSeq /\ v.kind = "observation" /\ v.sight = s
  BY <1>2, NextSeqIsNew DEF RunInv, Observation, Record, ObservationRecord
<1>4. Appends(history, v)
  BY <1>3, NextSeqAppends DEF RunInv
<1>5. history' = history \cup {v} /\ inFlight' = inFlight /\ content' = content
  BY <1>1 DEF Read
<1> HIDE DEF v
<1>6. TypeOK'
  BY <1>3, <1>5 DEF RunInv, TypeOK
<1>7. Positioned'
  BY <1>4, <1>5, AppendPositions DEF RunInv
<1>8. FreshIsTrue'
  BY <1>2, <1>3, <1>4, <1>5, FreshAfterAppend DEF RunInv
<1>9. FlightsAreClaimed'
  BY <1>3, <1>4, <1>5, FlightsAfterAppend DEF RunInv, FlightsAreClaimed
<1>10. OutcomesFollowClaims(history)'
  BY <1>3, <1>4, <1>5, ClaimsComeFirst DEF RunInv
<1> QED BY <1>6, <1>7, <1>8, <1>9, <1>10 DEF RunInv

LEMMA UnchangedKeeps ==
    ASSUME RunInv, UNCHANGED vars
    PROVE  RunInv'
  BY DEF vars, RunInv, TypeOK, Positioned, FlightsAreClaimed, FreshIsTrue, TrueOf

LEMMA InitRunInv == Init => RunInv
<1> SUFFICES ASSUME Init PROVE RunInv
  OBVIOUS
<1>1. history = {} /\ inFlight = {}
  BY DEF Init
<1>2. TypeOK
  BY DEF Init, TypeOK
<1>3. Positioned
  BY <1>1 DEF Positioned, PositionsUnique
<1>4. OutcomesFollowClaims(history) /\ FlightsAreClaimed /\ FreshIsTrue
  BY <1>1 DEF OutcomesFollowClaims, Outcomes, FlightsAreClaimed, FreshIsTrue, Observations
<1> QED BY <1>2, <1>3, <1>4 DEF RunInv

LEMMA NextRunInv == RunInv /\ [Next]_vars => RunInv'
<1> SUFFICES ASSUME RunInv, [Next]_vars PROVE RunInv'
  OBVIOUS
<1>1. ASSUME NEW e \in Effect, Dispatch(e) PROVE RunInv'
  BY <1>1, DispatchKeeps
<1>2. ASSUME NEW e \in Effect, Mutate(e) PROVE RunInv'
  BY <1>2, MutateKeeps
<1>3. ASSUME NEW e \in Effect, NEW x \in Reports, Settle(e, x) PROVE RunInv'
  BY <1>3, SettleKeeps
<1>4. ASSUME NEW r \in Resource, Read(r) PROVE RunInv'
  BY <1>4, ReadKeeps
<1>5. CASE UNCHANGED vars
  BY <1>5, UnchangedKeeps
<1> QED BY <1>1, <1>2, <1>3, <1>4, <1>5 DEF Next

-----------------------------------------------------------------------------
(***************************************************************************)
(* From observations to verdicts.                                          *)
(***************************************************************************)

\* What the newest check of an obligation can come to, and from what.
LEMMA GoalVerdictIs ==
    ASSUME NEW S, NEW g, NEW settled
    PROVE  LET newest == Latest(Candidates(S, g, settled))
               v      == GoalVerdict(S, g, settled)
           IN  /\ v \in {"unverified", "contradicted", "failed", "verified",
                         "state_observed"}
               /\ v # "unverified" =>
                     /\ Candidates(S, g, settled) # {}
                     /\ Fresh(S, newest) /\ Decides(g, newest.sight)
               /\ v = "contradicted" => ~PredicateHolds(g, newest.sight)
               /\ v \in {"verified", "state_observed"} => PredicateHolds(g, newest.sight)
               /\ v = "verified" => settled.execution = "reported_success"
               /\ /\ Candidates(S, g, settled) # {}
                  /\ Fresh(S, newest) /\ Decides(g, newest.sight)
                  /\ PredicateHolds(g, newest.sight)
                  /\ settled.execution = "reported_success"
                  => v = "verified"
<1> DEFINE newest == Latest(Candidates(S, g, settled))
           v      == GoalVerdict(S, g, settled)
<1>1. CASE \/ Candidates(S, g, settled) = {}
           \/ ~Fresh(S, newest)
           \/ ~Decides(g, newest.sight)
  <2>1. v = "unverified"
    BY <1>1 DEF GoalVerdict
  <2> QED BY <1>1, <2>1
<1>2. CASE ~ (\/ Candidates(S, g, settled) = {}
              \/ ~Fresh(S, newest)
              \/ ~Decides(g, newest.sight))
  <2>1. CASE ~PredicateHolds(g, newest.sight)
    <3>1. v = "contradicted"
      BY <1>2, <2>1 DEF GoalVerdict
    <3> QED BY <1>2, <2>1, <3>1
  <2>2. CASE PredicateHolds(g, newest.sight)
    <3>1. v = CASE settled.execution = "failed"           -> "failed"
                [] settled.execution = "reported_success" -> "verified"
                [] OTHER                                  -> "state_observed"
      BY <1>2, <2>2 DEF GoalVerdict
    <3> QED BY <1>2, <2>2, <3>1
  <2> QED BY <2>1, <2>2
<1> QED BY <1>1, <1>2

\* An obligation that was checked by a fresh sight is met or not as it says.
LEMMA GoalVerdictIsTrue ==
    ASSUME RunInv, NEW g \in Goal, NEW settled
    PROVE  /\ GoalVerdict(history, g, settled) \in {"verified", "state_observed"}
                 => Achieved(g)
           /\ GoalVerdict(history, g, settled) = "contradicted" => ~Achieved(g)
<1> DEFINE newest == Latest(Candidates(history, g, settled))
<1> SUFFICES ASSUME GoalVerdict(history, g, settled) # "unverified"
             PROVE  /\ GoalVerdict(history, g, settled) \in {"verified", "state_observed"}
                          => Achieved(g)
                    /\ GoalVerdict(history, g, settled) = "contradicted" => ~Achieved(g)
  OBVIOUS
<1>1. /\ Candidates(history, g, settled) # {}
      /\ Fresh(history, newest) /\ Decides(g, newest.sight)
  BY GoalVerdictIs
<1>2. newest \in Candidates(history, g, settled)
  BY <1>1, LatestInHistory DEF Candidates, Observations, RunInv
<1>3. newest \in Observations(history) /\ newest.sight.resource = g.target
  BY <1>2 DEF Candidates
<1>4. TrueOf(newest.sight)
  BY <1>1, <1>3 DEF RunInv, FreshIsTrue
<1>5. newest.sight \in Seen
  BY <1>3, RecordType DEF RunInv, TypeOK, Observations
<1> DEFINE s == newest.sight
<1>6. /\ PredicateHolds(g, s) => Achieved(g)
      /\ ~PredicateHolds(g, s) => ~Achieved(g)
  <2> HIDE DEF newest
  <2>1. CASE g.predicate = "exists"
    BY <2>1, <1>1, <1>3, <1>4, <1>5 DEF PredicateHolds, Decides, TrueOf, Achieved, Seen
  <2>2. CASE g.predicate = "absent"
    BY <2>2, <1>1, <1>3, <1>4, <1>5 DEF PredicateHolds, Decides, TrueOf, Achieved, Seen
  <2>3. CASE g.predicate = "content_sha256"
    BY <2>3, <1>1, <1>3, <1>4, <1>5 DEF PredicateHolds, Decides, TrueOf, Achieved, Seen, Goal
  <2>4. CASE g.predicate = "content_changed"
    BY <2>4, <1>1, <1>3, <1>4, <1>5 DEF PredicateHolds, Decides, TrueOf, Achieved, Seen, Goal
  <2> QED BY <2>1, <2>2, <2>3, <2>4 DEF Goal, Predicate
<1> QED BY <1>6, GoalVerdictIs

\* The worst of the obligations' verdicts is one of them, and none is worse.
LEMMA WorstIs ==
    ASSUME NEW V \in SUBSET {"unverified", "contradicted", "failed", "verified",
                             "state_observed"}, V # {}
    PROVE  \E v \in V : \A u \in V : Rank[v] <= Rank[u]
<1>1. /\ Rank["failed"] = 0 /\ Rank["contradicted"] = 1 /\ Rank["unverified"] = 3
      /\ Rank["state_observed"] = 5 /\ Rank["verified"] = 6
  BY DEF Rank
<1>2. \A v \in V : (\A u \in V : Rank[v] <= Rank[u]) =>
                     \E w \in V : \A u \in V : Rank[w] <= Rank[u]
  OBVIOUS
<1>3. CASE "failed" \in V
  <2>1. \A u \in V : Rank["failed"] <= Rank[u]
    BY <1>1
  <2> QED BY <1>3, <2>1, <1>2
<1>4. CASE "failed" \notin V /\ "contradicted" \in V
  <2>1. \A u \in V : Rank["contradicted"] <= Rank[u]
    <3> SUFFICES ASSUME NEW u \in V PROVE Rank["contradicted"] <= Rank[u]
      OBVIOUS
    <3>1. u \in {"unverified", "contradicted", "verified", "state_observed"}
      BY <1>4
    <3> QED BY <3>1, <1>1
  <2>2. "contradicted" \in V
    BY <1>4
  <2> QED BY <2>1, <2>2
<1>5. CASE "failed" \notin V /\ "contradicted" \notin V /\ "unverified" \in V
  <2>1. \A u \in V : Rank["unverified"] <= Rank[u]
    BY <1>1, <1>5
  <2> QED BY <1>5, <2>1, <1>2
<1>6. CASE V \subseteq {"verified", "state_observed"} /\ "state_observed" \in V
  <2>1. \A u \in V : Rank["state_observed"] <= Rank[u]
    BY <1>1, <1>6
  <2> QED BY <1>6, <2>1, <1>2
<1>7. CASE V \subseteq {"verified"}
  <2>1. V = {"verified"}
    BY <1>7
  <2>2. \A u \in V : Rank["verified"] <= Rank[u]
    BY <2>1, <1>1
  <2> QED BY <2>1, <2>2
<1> QED BY <1>3, <1>4, <1>5, <1>6, <1>7

\* A verdict in terms of the obligations: the good ones hold of all of them, a
\* contradiction is that of one.
LEMMA VerdictIs ==
    ASSUME NEW S, NEW e
    PROVE  LET settled == Latest(OutcomesOf(S, e))
           IN  /\ Verdict(S, e) \in {"verified", "state_observed"} =>
                     \A g \in Goals[e] :
                        GoalVerdict(S, g, settled) \in {"verified", "state_observed"}
               /\ Verdict(S, e) = "contradicted" =>
                     \E g \in Goals[e] : GoalVerdict(S, g, settled) = "contradicted"
               /\ Verdict(S, e) = "verified" <=>
                     /\ ExecutionOf(S, e) \notin
                           {"attempted", Running, "not_executed", "failed"}
                     /\ Goals[e] # {}
                     /\ \A g \in Goals[e] : GoalVerdict(S, g, settled) = "verified"
<1> DEFINE settled  == Latest(OutcomesOf(S, e))
           verdicts == {GoalVerdict(S, g, settled) : g \in Goals[e]}
           worst    == IF verdicts = {} THEN "unverified"
                       ELSE CHOOSE v \in verdicts : \A u \in verdicts : Rank[v] <= Rank[u]
<1>1. verdicts \in SUBSET {"unverified", "contradicted", "failed", "verified",
                           "state_observed"}
  BY GoalVerdictIs
<1>2. Verdict(S, e) =
        CASE ExecutionOf(S, e) \in {"attempted", Running} -> "pending"
          [] ExecutionOf(S, e) = "not_executed"           -> "not_executed"
          [] ExecutionOf(S, e) = "failed" -> IF worst = "contradicted" THEN worst ELSE "failed"
          [] OTHER                                        -> worst
  BY DEF Verdict
<1>3. verdicts # {} => worst \in verdicts /\ \A u \in verdicts : Rank[worst] <= Rank[u]
  <2> HIDE DEF verdicts
  <2> QED BY <1>1, WorstIs
<1>4. /\ Rank["failed"] = 0 /\ Rank["contradicted"] = 1 /\ Rank["unverified"] = 3
      /\ Rank["state_observed"] = 5 /\ Rank["verified"] = 6
  BY DEF Rank
<1>5. worst \in {"verified", "state_observed"} =>
         verdicts # {} /\ verdicts \subseteq {"verified", "state_observed"}
  <2> HIDE DEF verdicts
  <2> QED BY <1>1, <1>3, <1>4
<1>6. worst = "verified" <=> verdicts # {} /\ verdicts \subseteq {"verified"}
  <2>1. verdicts = {} => worst # "verified"
    OBVIOUS
  <2>2. ASSUME worst = "verified", NEW u \in verdicts PROVE u = "verified"
    <3> HIDE DEF verdicts, worst
    <3>1. Rank[worst] <= Rank[u]
      BY <1>3
    <3>2. u \in {"unverified", "contradicted", "failed", "verified", "state_observed"}
      BY <1>1
    <3> QED BY <2>2, <3>1, <3>2, <1>4
  <2>3. verdicts # {} /\ verdicts \subseteq {"verified"} => worst = "verified"
    <3> HIDE DEF verdicts, worst
    <3> QED BY <1>3
  <2> HIDE DEF verdicts, worst
  <2> QED BY <2>1, <2>2, <2>3
<1>7. worst = "contradicted" => worst \in verdicts
  BY <1>3
<1>8. verdicts # {} <=> Goals[e] # {}
  OBVIOUS
<1> HIDE DEF worst
<1>9. Verdict(S, e) \in {"verified", "state_observed"} =>
         Verdict(S, e) = worst /\ ExecutionOf(S, e) \notin
                                     {"attempted", Running, "not_executed", "failed"}
  BY <1>2
<1>10. ExecutionOf(S, e) \notin {"attempted", Running, "not_executed", "failed"} =>
          Verdict(S, e) = worst
  BY <1>2
<1>11. Verdict(S, e) = "contradicted" => worst = "contradicted"
  BY <1>2
<1> QED BY <1>5, <1>6, <1>7, <1>8, <1>9, <1>10, <1>11

LEMMA VerdictsAreTrue == RunInv => VerifiedIsTrue /\ ContradictedIsTrue
<1> SUFFICES ASSUME RunInv, NEW e \in Effect
             PROVE  /\ Verdict(history, e) \in {"verified", "state_observed"} =>
                          \A g \in Goals[e] : Achieved(g)
                    /\ Verdict(history, e) = "contradicted" =>
                          \E g \in Goals[e] : ~Achieved(g)
  BY DEF VerifiedIsTrue, ContradictedIsTrue
<1>1. Goals[e] \subseteq Goal
  OBVIOUS
<1> QED BY <1>1, VerdictIs, GoalVerdictIsTrue

\* A record that is no reading verifies nothing.
LEMMA AppendVerifiesNothing ==
    ASSUME RunInv, NEW v, Appends(history, v), NEW e \in Effect,
           v.kind # "observation", v.kind = "outcome" => v.execution # "not_executed",
           Verdict(history \cup {v}, e) = "verified"
    PROVE  Verdict(history, e) = "verified"
<1> DEFINE U == history \cup {v}
<1>1. Observations(U) = Observations(history)
  BY DEF Observations
<1>2. /\ Goals[e] # {}
      /\ \A g \in Goals[e] : GoalVerdict(U, g, Latest(OutcomesOf(U, e))) = "verified"
      /\ ExecutionOf(U, e) \notin {"attempted", Running, "not_executed", "failed"}
  BY VerdictIs
<1>3. ~(v.kind = "outcome" /\ v.effect = e)
  <2> SUFFICES ASSUME v.kind = "outcome", v.effect = e PROVE FALSE
    OBVIOUS
  <2>1. PICK g \in Goals[e] : TRUE
    BY <1>2
  <2>2. \A r \in U : r.seq \in Nat
    BY RecordType DEF Appends
  <2>3. v \in OutcomesOf(U, e) /\ \A r \in OutcomesOf(U, e) : r.seq <= v.seq
    BY <2>2 DEF OutcomesOf, Outcomes, Appends
  <2>4. Latest(OutcomesOf(U, e)) \in OutcomesOf(U, e)
        /\ v.seq <= Latest(OutcomesOf(U, e)).seq
    BY <2>3, LatestIs
  <2>5. Latest(OutcomesOf(U, e)) = v
    BY <2>2, <2>4 DEF OutcomesOf, Outcomes, Appends
  <2>6. Candidates(U, g, v) = {}
    BY <1>1, <2>2 DEF Candidates, Appends, Observations
  <2> QED BY <1>2, <2>1, <2>5, <2>6, GoalVerdictIs
<1>4. OutcomesOf(U, e) = OutcomesOf(history, e) /\ ExecutionOf(U, e) = ExecutionOf(history, e)
  BY <1>3, AppendExecution
<1> DEFINE settled == Latest(OutcomesOf(history, e))
<1>5. ASSUME NEW g \in Goals[e]
      PROVE  GoalVerdict(history, g, settled) = "verified"
  <2> DEFINE newest == Latest(Candidates(history, g, settled))
  <2>1. Candidates(U, g, settled) = Candidates(history, g, settled)
    BY <1>1 DEF Candidates
  <2>2. GoalVerdict(U, g, settled) = "verified"
    BY <1>2, <1>4
  <2>3. /\ Candidates(history, g, settled) # {}
        /\ Fresh(U, newest) /\ Decides(g, newest.sight)
        /\ PredicateHolds(g, newest.sight)
        /\ settled.execution = "reported_success"
    BY <2>1, <2>2, GoalVerdictIs
  <2>4. newest \in Observations(history)
    BY <2>3, LatestInHistory DEF Candidates, Observations, RunInv
  <2>5. Fresh(history, newest)
    BY <2>3, <2>4, StaleStaysStale
  <2> QED BY <2>3, <2>5, GoalVerdictIs
<1> QED BY <1>2, <1>4, <1>5, VerdictIs

\* A step without a reading verifies nothing.
LEMMA OnlyReadings ==
    ASSUME RunInv, [Next]_vars, NEW e \in Effect,
           Verdict(history, e) # "verified", Verdict(history', e) = "verified"
    PROVE  Observations(history') # Observations(history)
<1>1. ASSUME NEW f \in Effect, Dispatch(f) PROVE FALSE
  <2> DEFINE v == Claim(f, NextSeq)
  <2>1. v \in Record /\ v.seq = NextSeq /\ v.kind = "claim"
    BY NextSeqIsNew DEF RunInv, Claim, Record, ClaimRecord
  <2>2. history' = history \cup {v}
    BY <1>1 DEF Dispatch
  <2> HIDE DEF v
  <2> QED BY <2>1, <2>2, NextSeqAppends, AppendVerifiesNothing DEF RunInv
<1>2. ASSUME NEW f \in Effect, Mutate(f) PROVE FALSE
  BY <1>2 DEF Mutate
<1>3. ASSUME NEW f \in Effect, NEW x \in Reports, Settle(f, x) PROVE FALSE
  <2> DEFINE v == Outcome(f, NextSeq, x, FALSE)
  <2>1. /\ v \in Record /\ v.seq = NextSeq /\ v.kind = "outcome"
        /\ v.execution # "not_executed"
    BY NextSeqIsNew DEF RunInv, Outcome, Record, OutcomeRecord
  <2>2. history' = history \cup {v}
    BY <1>3 DEF Settle
  <2> HIDE DEF v
  <2> QED BY <2>1, <2>2, NextSeqAppends, AppendVerifiesNothing DEF RunInv
<1>4. ASSUME NEW r \in Resource, Read(r)
      PROVE  Observations(history') # Observations(history)
  <2>1. PICK s \in SightsOf(r) : history' = history \cup {Observation(s, NextSeq)}
    BY <1>4 DEF Read
  <2>2. /\ Observation(s, NextSeq).kind = "observation"
        /\ Observation(s, NextSeq).seq = NextSeq
    BY DEF Observation
  <2>3. Observation(s, NextSeq) \notin history
    BY <2>2, NextSeqIsNew DEF RunInv
  <2> QED BY <2>1, <2>2, <2>3 DEF Observations
<1>5. CASE UNCHANGED vars
  BY <1>5 DEF vars
<1> QED BY <1>1, <1>2, <1>3, <1>4, <1>5 DEF Next

-----------------------------------------------------------------------------
(***************************************************************************)
(* The theorems.                                                           *)
(***************************************************************************)

\* The invariant of a run's history and the world it is about.
THEOREM EvidenceInvariant == Spec => []RunInv
  BY InitRunInv, NextRunInv, PTL DEF Spec

\* The records of a run, its calls in flight and the world are well typed.
THEOREM EvidenceTypeCorrect == Spec => []TypeOK
<1>1. RunInv => TypeOK
  BY DEF RunInv
<1> QED BY <1>1, EvidenceInvariant, PTL

\* freshness never calls an observation fresh that an effect in flight, a later
\* command of unknown scope or a detached job may have made untrue.
THEOREM FreshObservationsAreTrue == Spec => []FreshIsTrue
<1>1. RunInv => FreshIsTrue
  BY DEF RunInv
<1> QED BY <1>1, EvidenceInvariant, PTL

\* assess verifies an effect, or observes its goal state, only when all its
\* obligations are met in the world.
THEOREM VerifiedEffectsAreTrue == Spec => []VerifiedIsTrue
  BY VerdictsAreTrue, EvidenceInvariant, PTL

\* assess contradicts an effect only when one of its obligations is not met.
THEOREM ContradictionsAreTrue == Spec => []ContradictedIsTrue
  BY VerdictsAreTrue, EvidenceInvariant, PTL

\* No claim, report or end of a job makes an effect verified: only a reading.
THEOREM ReadingsAloneVerify == Spec => OnlyReadingsVerify
<1>1. RunInv /\ [Next]_vars =>
        [\A e \in Effect :
            /\ Verdict(history, e) # "verified" /\ Verdict(history', e) = "verified"
            => Observations(history') # Observations(history)]_vars
  BY OnlyReadings
<1> QED BY <1>1, EvidenceInvariant, PTL DEF Spec, OnlyReadingsVerify
=============================================================================
