-------------------------- MODULE EffectLogProofs --------------------------
(***************************************************************************)
(* Proofs about EffectLog, for any processes, effects, sights and bounds.  *)
(***************************************************************************)
EXTENDS EffectLogInvariant, SequenceTheorems, TLAPS

USE EffectLogConstants

-----------------------------------------------------------------------------
(***************************************************************************)
(* Records and histories.                                                  *)
(***************************************************************************)

\* Every record of a valid stream has a position and one of three kinds.
LEMMA RecordType ==
    ASSUME NEW r \in Record
    PROVE  /\ r.seq \in Nat
           /\ r.kind \in {"claim", "outcome", "observation"}
           /\ r # Corrupt
           /\ r.kind \in {"claim", "outcome"} => r.effect \in Effect
  BY DEF Record, ClaimRecord, OutcomeRecord, ObservationRecord, Corrupt

\* Allocating a position changes nothing else of a record.
LEMMA AtType ==
    ASSUME NEW r \in Record, NEW n \in Nat
    PROVE  /\ At(r, n) \in Record
           /\ At(r, n).seq = n
           /\ At(r, n).kind = r.kind
           /\ r.kind \in {"claim", "outcome"} => At(r, n).effect = r.effect
           /\ r.kind = "outcome" => /\ At(r, n).execution = r.execution
                                    /\ At(r, n).replayed = r.replayed
  BY DEF At, Record, ClaimRecord, OutcomeRecord, ObservationRecord

\* What _Index accepts keeps a history valid (effect_log.py:95-98).
LEMMA AcceptsKeepsValid ==
    ASSUME NEW S \in SUBSET Record, NEW r \in Record,
           HistoryValid(S), Accepts(S, r)
    PROVE  HistoryValid(S \cup {r})
<1> DEFINE T == S \cup {r}
<1>1. PositionsUnique(T)
  BY DEF HistoryValid, Accepts, PositionsUnique
<1>2. ClaimedOnce(T)
  BY DEF HistoryValid, Accepts, ClaimedOnce, Claims, IsClaimed, ClaimsOf
<1>3. OutcomesFollowClaims(T)
  BY DEF HistoryValid, Accepts, OutcomesFollowClaims, Outcomes, ClaimsOf, Claims
<1>4. SettledLast(T)
  <2> SUFFICES ASSUME NEW o \in Outcomes(T), NEW p \in Outcomes(T),
                      o.effect = p.effect, o.seq < p.seq
               PROVE  o.execution = Running
    BY DEF SettledLast
  <2>1. CASE o \in S /\ p \in S
    BY <2>1 DEF HistoryValid, SettledLast, Outcomes
  <2>2. CASE p = r
    BY <2>2, RecordType DEF Accepts, IsSettled, OutcomesOf, Outcomes
  <2>3. CASE o = r /\ p \in S
    BY <2>3, RecordType DEF Accepts, OutcomesOf, Outcomes
  <2> QED BY <2>1, <2>2, <2>3 DEF Outcomes
<1> QED BY <1>1, <1>2, <1>3, <1>4 DEF HistoryValid

\* Volatile records added one by one behind valid durable ones, each if it is
\* accepted, keep the view valid: what _rebuild_view relies on.
LEMMA RebuiltIsValid ==
    ASSUME NEW D \in SUBSET Record, NEW V \in SUBSET Record, NEW K \in SUBSET V,
           HistoryValid(D), PositionsUnique(V),
           \A v \in V : v.kind # "claim",
           Survives(D, V, K)
    PROVE  HistoryValid(D \cup K)
<1> DEFINE T == D \cup K
           Pre(v) == D \cup {u \in K : u.seq < v.seq}
<1>1. \A v \in K : Accepts(Pre(v), v)
  BY DEF Survives
<1>2. PositionsUnique(T)
  BY <1>1 DEF HistoryValid, PositionsUnique, Accepts
<1>3. ClaimedOnce(T)
  BY DEF HistoryValid, ClaimedOnce, Claims
<1>4. OutcomesFollowClaims(T)
  <2> SUFFICES ASSUME NEW o \in Outcomes(T)
               PROVE  \E c \in ClaimsOf(T, o.effect) : c.seq < o.seq
    BY DEF OutcomesFollowClaims
  <2>1. CASE o \in D
    BY <2>1 DEF HistoryValid, OutcomesFollowClaims, Outcomes, ClaimsOf, Claims
  <2>2. CASE o \in K
    BY <2>2, <1>1 DEF Accepts, Outcomes, ClaimsOf, Claims
  <2> QED BY <2>1, <2>2 DEF Outcomes
<1>5. SettledLast(T)
  <2> SUFFICES ASSUME NEW o \in Outcomes(T), NEW p \in Outcomes(T),
                      o.effect = p.effect, o.seq < p.seq
               PROVE  o.execution = Running
    BY DEF SettledLast
  <2>1. CASE o \in D /\ p \in D
    BY <2>1 DEF HistoryValid, SettledLast, Outcomes
  <2>2. CASE p \in K
    <3>1. o \in Pre(p)
      <4>1. CASE o \in D
        BY <4>1
      <4>2. CASE o \in K
        BY <4>2
      <4> QED BY <4>1, <4>2 DEF Outcomes
    <3> QED BY <2>2, <3>1, <1>1 DEF Accepts, IsSettled, OutcomesOf, Outcomes
  <2>3. CASE o \in K /\ p \in D
    <3>1. o \in Record /\ p \in Record /\ o.kind = "outcome" /\ p \in OutcomesOf(Pre(o), o.effect)
      BY <2>3 DEF OutcomesOf, Outcomes
    <3>2. o.seq > p.seq
      BY <2>3, <3>1, <1>1 DEF Accepts
    <3> QED BY <3>1, <3>2, RecordType
  <2> QED BY <2>1, <2>2, <2>3 DEF Outcomes
<1> QED BY <1>2, <1>3, <1>4, <1>5 DEF HistoryValid

-----------------------------------------------------------------------------
(***************************************************************************)
(* Type correctness.                                                       *)
(***************************************************************************)

\* Max is the largest element, if there is one.
LEMMA MaxIs ==
    ASSUME NEW S \in SUBSET Nat, NEW m \in S, \A y \in S : m >= y
    PROVE  Max(S) \in S /\ \A y \in S : Max(S) >= y
  BY DEF Max

\* The positions of the lines behind an offset have a maximum: the last one's.
LEMMA TailMax ==
    ASSUME TypeOK, FileOrdered, NEW k \in Nat, NEW n \in Nat,
           NEW R, R = {file[i] : i \in (n + 1)..Len(file)}
    PROVE  LET S == {k} \cup {r.seq : r \in R}
           IN  Max(S) \in Nat /\ \A y \in S : Max(S) >= y
<1> DEFINE S == {k} \cup {r.seq : r \in R}
<1>1. \A i \in 1..Len(file) : file[i] \in Record /\ file[i].seq \in Nat
  BY RecordType DEF FileOrdered
<1>2. Len(file) \in Nat
  BY DEF TypeOK
<1>3. S \in SUBSET Nat
  BY <1>1, <1>2
<1>4. CASE Len(file) <= n
  <2>1. R = {}
    BY <1>2, <1>4
  <2>2. k \in S /\ \A y \in S : k >= y
    BY <2>1
  <2> QED BY <2>2, <1>3, MaxIs
<1>5. CASE Len(file) > n
  <2> DEFINE last == file[Len(file)].seq
             m    == IF last >= k THEN last ELSE k
  <2>1. last \in S /\ last \in Nat
    BY <1>1, <1>2, <1>5
  <2>2. \A r \in R : r.seq <= last
    <3> SUFFICES ASSUME NEW i \in (n + 1)..Len(file)
                 PROVE  file[i].seq <= last
      OBVIOUS
    <3>1. i \in 1..Len(file) /\ Len(file) \in 1..Len(file)
      BY <1>2, <1>5
    <3>2. i < Len(file) => file[i].seq < last
      BY <3>1 DEF FileOrdered
    <3> QED BY <3>1, <3>2, <1>1
  <2>3. m \in S /\ m >= k /\ m >= last /\ m \in Nat
    BY <2>1
  <2>4. ASSUME NEW y \in S PROVE m >= y
    <3>1. CASE y = k
      BY <3>1, <2>3
    <3>2. CASE \E r \in R : y = r.seq
      <4>1. y <= last /\ y \in Nat
        BY <3>2, <2>2, <1>3
      <4> HIDE DEF m, last
      <4> QED BY <4>1, <2>1, <2>3
    <3> QED BY <3>1, <3>2
  <2> HIDE DEF m
  <2> QED BY <2>3, <2>4, <1>3, MaxIs
<1> QED BY <1>2, <1>4, <1>5

\* A merge changes nothing but the merged view of its process, which stays
\* typed.
LEMMA MergeType ==
    ASSUME TypeOK, FileOrdered, NEW w \in Writer, Merge(w)
    PROVE  /\ durable' \in [Writer -> SUBSET (Record \cup {Corrupt})]
           /\ offset' \in [Writer -> Nat]
           /\ view' \in [Writer -> SUBSET (Record \cup {Corrupt})]
           /\ maxSeq' \in [Writer -> Nat]
<1>1. NewLines(w) \subseteq Record
  BY DEF NewLines, FileOrdered, TypeOK
<1>2. maxSeq' \in [Writer -> Nat]
  <2>1. Max({maxSeq[w]} \cup {r.seq : r \in NewLines(w)}) \in Nat
    BY TailMax DEF TypeOK, NewLines
  <2> QED BY <2>1 DEF Merge, TypeOK
<1>3. offset' \in [Writer -> Nat]
  BY DEF Merge, TypeOK
<1>4. durable' \in [Writer -> SUBSET (Record \cup {Corrupt})]
  BY <1>1 DEF Merge, TypeOK
<1>5. view' \in [Writer -> SUBSET (Record \cup {Corrupt})]
  <2>1. CASE UNCHANGED view
    BY <2>1 DEF TypeOK
  <2>2. CASE Rebuilt(w, durable[w] \cup NewLines(w))
    <3>1. PICK K \in SUBSET volatile[w] :
                view' = [view EXCEPT ![w] = durable[w] \cup NewLines(w) \cup K]
      BY <2>2 DEF Rebuilt
    <3>2. durable[w] \cup NewLines(w) \cup K \subseteq Record \cup {Corrupt}
      BY <1>1 DEF TypeOK
    <3> QED BY <3>1, <3>2 DEF TypeOK
  <2> QED BY <2>1, <2>2 DEF Merge
<1> QED BY <1>2, <1>3, <1>4, <1>5
\* The records the callers hand over are records.
LEMMA Constructed ==
    ASSUME NEW n \in Nat
    PROVE  /\ \A e \in Effect : Claim(e, n) \in Record
           /\ \A e \in Effect, x \in Execution, b \in BOOLEAN : Outcome(e, n, x, b) \in Record
           /\ \A s \in Sight : Observation(s, n) \in Record
  BY DEF Claim, Outcome, Observation, Record, ClaimRecord, OutcomeRecord, ObservationRecord

\* Keeping a record in memory, or dropping it, leaves the process typed.
LEMMA VolatileType ==
    ASSUME TypeOK, NEW w \in Writer, NEW r \in Record,
           AppendVolatile(w, r) \/ KeepVolatile(w, r)
    PROVE  /\ volatile' \in [Writer -> SUBSET Record]
           /\ view' \in [Writer -> SUBSET (Record \cup {Corrupt})]
           /\ maxSeq' \in [Writer -> Nat]
<1>1. ASSUME NEW v \in Record, KeepVolatile(w, v)
      PROVE  /\ volatile' \in [Writer -> SUBSET Record]
             /\ view' \in [Writer -> SUBSET (Record \cup {Corrupt})]
             /\ maxSeq' \in [Writer -> Nat]
  <2>1. v.seq \in Nat /\ maxSeq[w] \in Nat
    BY RecordType DEF TypeOK
  <2>2. Max({maxSeq[w], v.seq}) \in Nat
    <3>1. CASE maxSeq[w] >= v.seq
      BY <3>1, <2>1, MaxIs
    <3>2. CASE v.seq >= maxSeq[w]
      BY <3>2, <2>1, MaxIs
    <3> QED BY <2>1, <3>1, <3>2
  <2> QED BY <1>1, <2>2 DEF KeepVolatile, TypeOK
<1>2. CASE AppendVolatile(w, r)
  <2>1. At(r, maxSeq[w] + 1) \in Record
    BY AtType DEF TypeOK
  <2> QED BY <1>1, <1>2, <2>1 DEF AppendVolatile, TypeOK
<1> QED BY <1>1, <1>2

\* Cutting the file after its n-th line.
LEMMA CutType ==
    ASSUME TypeOK, NEW n \in Nat, n <= Len(file)
    PROVE  /\ SubSeq(file, 1, n) \in Seq(Record \cup {Corrupt})
           /\ Len(SubSeq(file, 1, n)) = n
           /\ \A i \in 1..n : SubSeq(file, 1, n)[i] = file[i]
  BY SubSeqProperties DEF TypeOK

\* Every step keeps every variable in its domain.
LEMMA TypeStep ==
    ASSUME TypeOK, Exclusion, FileOrdered, Prefixes, [Next]_vars
    PROVE  TypeOK'
<1> USE DEF disk, object, append, callers, bounds
<1>1. ASSUME NEW w \in Writer, NEW e \in Effect, CallClaim(w, e)
      PROVE  TypeOK'
  BY <1>1, Constructed DEF CallClaim, Called, Begin, TypeOK, Steps
<1>2. ASSUME NEW w \in Writer, NEW e \in Effect, NEW x \in Reports, CallOutcome(w, e, x)
      PROVE  TypeOK'
  <2>1. Outcome(e, 0, x, FALSE) \in Record
    BY Constructed
  <2>2. pending' \in [Writer -> Record \cup {NoRecord}] /\ pc' \in [Writer -> Steps]
    BY <1>2, <2>1 DEF CallOutcome, Begin, TypeOK, Steps
  <2> QED BY <1>2, <2>2 DEF CallOutcome, Called, TypeOK
<1>3. ASSUME NEW w \in Writer, NEW e \in Effect, NEW x \in Reports, CallSettleJob(w, e, x)
      PROVE  TypeOK'
  <2>1. Outcome(e, 0, x, FALSE) \in Record
    BY Constructed
  <2>2. pending' \in [Writer -> Record \cup {NoRecord}] /\ pc' \in [Writer -> Steps]
    BY <1>3, <2>1 DEF CallSettleJob, Begin, TypeOK, Steps
  <2> QED BY <1>3, <2>2 DEF CallSettleJob, Called, TypeOK
<1>4. ASSUME NEW w \in Writer, NEW s \in Sight, CallObserve(w, s)
      PROVE  TypeOK'
  <2>1. Observation(s, 0) \in Record
    BY Constructed
  <2>2. CASE Begin(w, Observation(s, 0)) /\ UNCHANGED object
    BY <1>4, <2>1, <2>2 DEF CallObserve, Called, Begin, TypeOK, Steps
  <2>3. CASE /\ AppendVolatile(w, Observation(s, 0))
             /\ UNCHANGED <<pc, pending, live, durable, offset, dirSynced, degraded>>
    <3>1. /\ volatile' \in [Writer -> SUBSET Record]
          /\ view' \in [Writer -> SUBSET (Record \cup {Corrupt})]
          /\ maxSeq' \in [Writer -> Nat]
      BY <2>1, <2>3, VolatileType
    <3> QED BY <1>4, <2>3, <3>1 DEF CallObserve, Called, TypeOK
  <2> QED BY <1>4, <2>2, <2>3 DEF CallObserve
<1>5. ASSUME NEW w \in Writer, CallRecover(w)
      PROVE  TypeOK'
  <2>1. PICK e \in todo[w] : /\ todo' = [todo EXCEPT ![w] = @ \ {e}]
                             /\ Begin(w, Outcome(e, 0, Interrupted, TRUE))
    BY <1>5 DEF CallRecover
  <2>2. Outcome(e, 0, Interrupted, TRUE) \in Record
    BY Constructed DEF TypeOK, Execution, Settling
  <2> QED BY <1>5, <2>1, <2>2 DEF CallRecover, Begin, TypeOK, Steps
<1>6. ASSUME NEW w \in Writer, Acquire(w)
      PROVE  TypeOK'
  BY <1>6, MergeType DEF Acquire, TypeOK, Steps
<1>7. ASSUME NEW w \in Writer, Allocate(w)
      PROVE  TypeOK'
  <2>1. pending[w] \in Record /\ maxSeq[w] + 1 \in Nat
    BY <1>7 DEF Allocate, Exclusion, TypeOK
  <2>2. At(pending[w], maxSeq[w] + 1) \in Record
    BY <2>1, AtType
  <2> QED BY <1>7, <2>2 DEF Allocate, TypeOK, Steps
<1>8. ASSUME NEW w \in Writer, Reject(w)
      PROVE  TypeOK'
  BY <1>8 DEF Reject, Release, TypeOK, Steps
<1>9. ASSUME NEW w \in Writer, WriteLine(w)
      PROVE  TypeOK'
  <2>1. pending[w] \in Record
    BY <1>9 DEF WriteLine, Exclusion
  <2>2. file' \in Seq(Record \cup {Corrupt})
    BY <1>9, <2>1 DEF WriteLine, TypeOK
  <2> QED BY <1>9, <2>2 DEF WriteLine, TypeOK, Steps
<1>10. ASSUME NEW w \in Writer, WritePart(w)
       PROVE  TypeOK'
  BY <1>10 DEF WritePart, TypeOK, Steps
<1>11. ASSUME NEW w \in Writer, Sync(w)
       PROVE  TypeOK'
  <2>1. pending[w] \in Record
    BY <1>11 DEF Sync, Exclusion
  <2>2. Max({maxSeq[w], pending[w].seq}) \in Nat
    <3>1. pending[w].seq \in Nat /\ maxSeq[w] \in Nat
      BY <2>1, RecordType DEF TypeOK
    <3>2. CASE maxSeq[w] >= pending[w].seq
      BY <3>1, <3>2, MaxIs
    <3>3. CASE pending[w].seq >= maxSeq[w]
      BY <3>1, <3>3, MaxIs
    <3> QED BY <3>1, <3>2, <3>3
  <2>3. granted' \in SUBSET Effect
    BY <1>11, <2>1, RecordType DEF Sync, TypeOK
  <2> QED BY <1>11, <2>1, <2>2, <2>3 DEF Sync, Flush, Release, TypeOK, Steps
<1>12. ASSUME NEW w \in Writer, AcquireFails(w)
       PROVE  TypeOK'
  <2>1. pending[w] \in Record
    BY <1>12 DEF AcquireFails, Exclusion
  <2>2. /\ volatile' \in [Writer -> SUBSET Record]
        /\ view' \in [Writer -> SUBSET (Record \cup {Corrupt})]
        /\ maxSeq' \in [Writer -> Nat]
        /\ degraded' \in [Writer -> BOOLEAN]
    BY <1>12, <2>1, VolatileType DEF AcquireFails, TypeOK
  <2>3. /\ lock' \in Writer \cup {NoWriter}
        /\ pc' \in [Writer -> Steps]
        /\ pending' \in [Writer -> Record \cup {NoRecord}]
        /\ todo' = todo
    BY <1>12 DEF AcquireFails, Release, TypeOK, Steps
  <2>4. torn' \in BOOLEAN
    BY <1>12, Zenon DEF AcquireFails, TypeOK
  <2>5. exists' \in BOOLEAN
    BY <1>12, Zenon DEF AcquireFails, TypeOK
  <2>6. faults' \in Nat /\ calls' = calls /\ crashes' = crashes
    BY <1>12 DEF AcquireFails, Fault, TypeOK
  <2> QED BY <1>12, <2>2, <2>3, <2>4, <2>5, <2>6 DEF AcquireFails, TypeOK
<1>13. ASSUME NEW w \in Writer, WriteFails(w)
       PROVE  TypeOK'
  <2>1. pending[w] \in Record
    BY <1>13 DEF WriteFails, Exclusion
  <2>2. /\ volatile' \in [Writer -> SUBSET Record]
        /\ view' \in [Writer -> SUBSET (Record \cup {Corrupt})]
        /\ maxSeq' \in [Writer -> Nat]
        /\ degraded' \in [Writer -> BOOLEAN]
    BY <1>13, <2>1, VolatileType DEF WriteFails, TypeOK
  <2>3. file' \in Seq(Record \cup {Corrupt}) /\ torn' \in BOOLEAN
    <3>1. offset[w] \in Nat /\ offset[w] <= Len(file)
      BY DEF Prefixes, TypeOK
    <3>2. SubSeq(file, 1, offset[w]) \in Seq(Record \cup {Corrupt})
      BY <3>1, CutType DEF TypeOK
    <3> QED BY <1>13, <3>2, Zenon DEF WriteFails, TakenBack, TypeOK
  <2>4. /\ lock' \in Writer \cup {NoWriter}
        /\ pc' \in [Writer -> Steps]
        /\ pending' \in [Writer -> Record \cup {NoRecord}]
        /\ todo' = todo
    BY <1>13 DEF WriteFails, Release, TypeOK, Steps
  <2>5. faults' \in Nat /\ calls' = calls /\ crashes' = crashes
    BY <1>13 DEF WriteFails, Fault, TypeOK
  <2> QED BY <1>13, <2>2, <2>3, <2>4, <2>5 DEF WriteFails, TypeOK
<1>14. ASSUME NEW w \in Writer, Refresh(w)
       PROVE  TypeOK'
  BY <1>14, MergeType DEF Refresh, TypeOK
<1>15. ASSUME NEW w \in Writer, RefreshFails(w)
       PROVE  TypeOK'
  BY <1>15 DEF RefreshFails, Fault, TypeOK
<1>16. ASSUME NEW w \in Writer, Crash(w)
       PROVE  TypeOK'
  BY <1>16 DEF Crash, Die, TypeOK, Steps
<1>17. ASSUME NEW w \in Writer, Open(w)
       PROVE  TypeOK'
  <2>1. OnDisk \subseteq Record /\ Len(file) \in Nat
    BY DEF OnDisk, Lines, FileOrdered, TypeOK
  <2>2. Max({0} \cup {r.seq : r \in OnDisk}) \in Nat
    <3>1. OnDisk = {file[i] : i \in (0 + 1)..Len(file)}
      BY DEF OnDisk, Lines
    <3> QED BY <3>1, TailMax
  <2>3. PendingEffects(OnDisk) \in SUBSET Effect
    BY DEF PendingEffects
  <2> QED BY <1>17, <2>1, <2>2, <2>3 DEF Open, TypeOK
<1>18. ASSUME PowerLoss
       PROVE  TypeOK'
  <2>1. file' \in Seq(Record \cup {Corrupt}) /\ torn' \in BOOLEAN /\ synced' \in Nat
        /\ exists' \in BOOLEAN
    <3>1. CASE \E n \in synced..Len(file) :
                   /\ file' = SubSeq(file, 1, n)
                   /\ torn' \in (IF n < Len(file) \/ torn THEN BOOLEAN ELSE {FALSE})
                   /\ UNCHANGED <<synced, exists>>
      <4>1. PICK n \in synced..Len(file) :
                  /\ file' = SubSeq(file, 1, n)
                  /\ torn' \in (IF n < Len(file) \/ torn THEN BOOLEAN ELSE {FALSE})
                  /\ UNCHANGED <<synced, exists>>
        BY <3>1
      <4>2. n \in Nat /\ n <= Len(file)
        BY DEF TypeOK
      <4>3. torn' \in BOOLEAN
        BY <4>1, Zenon
      <4> QED BY <4>1, <4>2, <4>3, CutType DEF TypeOK
    <3>2. CASE file' = <<>> /\ torn' = FALSE /\ synced' = 0 /\ exists' = FALSE
      BY <3>2, EmptySeq DEF TypeOK
    <3> QED BY <1>18, <3>1, <3>2 DEF PowerLoss
  <2> QED BY <1>18, <2>1 DEF PowerLoss, Die, TypeOK, Steps
<1>19. CASE UNCHANGED vars
  BY <1>19 DEF vars, TypeOK
<1> QED
  BY <1>1, <1>2, <1>3, <1>4, <1>5, <1>6, <1>7, <1>8, <1>9, <1>10, <1>11, <1>12,
     <1>13, <1>14, <1>15, <1>16, <1>17, <1>18, <1>19
  DEF Next, Call, AppendStep, Failure

-----------------------------------------------------------------------------
(***************************************************************************)
(* The file and what is merged from it.                                    *)
(***************************************************************************)

\* Lines whose records may each follow the ones before form a valid history.
LEMMA OrderedIsValid ==
    ASSUME TypeOK, FileOrdered
    PROVE  OnDisk \in SUBSET Record /\ HistoryValid(OnDisk)
<1>1. Len(file) \in Nat
  BY DEF TypeOK
<1>2. OnDisk \in SUBSET Record
  BY DEF OnDisk, Lines, FileOrdered
<1>3. ASSUME NEW i \in 1..Len(file), NEW j \in 1..Len(file), i < j
      PROVE  file[i] \in Lines(j - 1) /\ Accepts(Lines(j - 1), file[j])
                 /\ file[i].seq < file[j].seq
  <2>1. i \in 1..(j - 1)
    BY <1>1, <1>3
  <2> QED BY <2>1, <1>3 DEF Lines, FileOrdered
<1>4. \A i, j \in 1..Len(file) : i < j \/ i = j \/ j < i
  BY <1>1
<1>5. \A i \in 1..Len(file) : file[i].seq \in Nat
  BY RecordType DEF FileOrdered
<1>6. PositionsUnique(OnDisk)
  <2> SUFFICES ASSUME NEW i \in 1..Len(file), NEW j \in 1..Len(file),
                      file[i].seq = file[j].seq
               PROVE  file[i] = file[j]
    BY DEF PositionsUnique, OnDisk, Lines
  <2>1. ~(i < j) /\ ~(j < i)
    BY <1>3, <1>5
  <2> QED BY <2>1, <1>4
<1>7. ClaimedOnce(OnDisk)
  <2> SUFFICES ASSUME NEW i \in 1..Len(file), NEW j \in 1..Len(file), i < j,
                      file[i].kind = "claim", file[j].kind = "claim",
                      file[i].effect = file[j].effect
               PROVE  FALSE
    BY <1>4 DEF ClaimedOnce, Claims, OnDisk, Lines
  <2> QED BY <1>3 DEF Accepts, IsClaimed, ClaimsOf, Claims
<1>8. OutcomesFollowClaims(OnDisk)
  <2> SUFFICES ASSUME NEW i \in 1..Len(file), file[i].kind = "outcome"
               PROVE  \E c \in ClaimsOf(OnDisk, file[i].effect) : c.seq < file[i].seq
    BY DEF OutcomesFollowClaims, Outcomes, OnDisk, Lines
  <2>1. Lines(i - 1) \subseteq OnDisk
    BY <1>1 DEF OnDisk, Lines
  <2>2. \E c \in ClaimsOf(Lines(i - 1), file[i].effect) : file[i].seq > c.seq
    BY DEF FileOrdered, Accepts
  <2> QED BY <2>1, <2>2 DEF ClaimsOf, Claims
<1>9. SettledLast(OnDisk)
  <2> SUFFICES ASSUME NEW i \in 1..Len(file), NEW j \in 1..Len(file),
                      file[i].kind = "outcome", file[j].kind = "outcome",
                      file[i].effect = file[j].effect, file[i].seq < file[j].seq
               PROVE  file[i].execution = Running
    BY DEF SettledLast, Outcomes, OnDisk, Lines
  <2>1. i < j
    BY <1>3, <1>4, <1>5
  <2> QED BY <2>1, <1>3 DEF Accepts, IsSettled, OutcomesOf, Outcomes
<1> QED BY <1>2, <1>6, <1>7, <1>8, <1>9 DEF HistoryValid

\* _read_tail accepts whatever follows a merged prefix.
LEMMA TailAccepted ==
    ASSUME TypeOK, FileOrdered, Prefixes, NEW w \in Writer
    PROVE  TailConsistent(w)
<1> SUFFICES ASSUME NEW i \in (offset[w] + 1)..Len(file)
             PROVE  /\ file[i] # Corrupt
                    /\ Accepts(durable[w] \cup {file[j] : j \in (offset[w] + 1)..(i - 1)}, file[i])
  BY DEF TailConsistent
<1>1. i \in 1..Len(file) /\ offset[w] \in Nat
  BY DEF TypeOK
<1>2. durable[w] \cup {file[j] : j \in (offset[w] + 1)..(i - 1)} = Lines(i - 1)
  BY <1>1 DEF Prefixes, Lines
<1>3. file[i] # Corrupt
  BY <1>1, RecordType DEF FileOrdered
<1> QED BY <1>1, <1>2, <1>3 DEF FileOrdered

\* After a merge the process holds the whole file, its view is still valid and
\* made of the file and of what was volatile, and its positions are bounded.
LEMMA MergeFacts ==
    ASSUME IInv, NEW w \in Writer, Merge(w)
    PROVE  /\ offset' = [offset EXCEPT ![w] = Len(file)]
           /\ durable' = [durable EXCEPT ![w] = OnDisk]
           /\ \E m \in Nat : /\ maxSeq' = [maxSeq EXCEPT ![w] = m]
                             /\ m >= maxSeq[w]
                             /\ \A r \in OnDisk : r.seq <= m
           /\ \E V \in SUBSET Record : /\ view' = [view EXCEPT ![w] = V]
                                       /\ OnDisk \subseteq V
                                       /\ V \subseteq OnDisk \cup volatile[w] \cup view[w]
                                       /\ HistoryValid(V)
<1> USE DEF IInv
<1>1. /\ Len(file) \in Nat /\ offset[w] \in Nat /\ offset[w] <= Len(file)
      /\ durable[w] = Lines(offset[w])
  BY DEF TypeOK, Prefixes
<1>2. durable[w] \cup NewLines(w) = OnDisk
  BY <1>1 DEF NewLines, OnDisk, Lines
<1>3. OnDisk \in SUBSET Record /\ HistoryValid(OnDisk)
  BY OrderedIsValid
<1>4. \E m \in Nat : /\ maxSeq' = [maxSeq EXCEPT ![w] = m]
                     /\ m >= maxSeq[w]
                     /\ \A r \in OnDisk : r.seq <= m
  <2> DEFINE S == {maxSeq[w]} \cup {r.seq : r \in NewLines(w)}
  <2>1. Max(S) \in Nat /\ \A y \in S : Max(S) >= y
    BY <1>1, TailMax DEF NewLines, TypeOK
  <2>2. maxSeq' = [maxSeq EXCEPT ![w] = Max(S)]
    BY DEF Merge
  <2>3. \A r \in durable[w] : r.seq <= maxSeq[w]
    BY DEF Positioned
  <2>4. \A r \in OnDisk : r.seq \in Nat
    BY <1>3, RecordType
  <2>5. maxSeq[w] \in Nat
    BY DEF TypeOK
  <2> HIDE DEF S
  <2>6. \A r \in OnDisk : r.seq <= Max(S)
    <3> SUFFICES ASSUME NEW r \in OnDisk PROVE r.seq <= Max(S)
      OBVIOUS
    <3>1. CASE r \in durable[w]
      BY <3>1, <2>1, <2>3, <2>4, <2>5 DEF S
    <3>2. CASE r \in NewLines(w)
      BY <3>2, <2>1 DEF S
    <3> QED BY <3>1, <3>2, <1>2
  <2>7. Max(S) >= maxSeq[w]
    BY <2>1 DEF S
  <2> QED BY <2>1, <2>2, <2>6, <2>7
<1>5. \E V \in SUBSET Record : /\ view' = [view EXCEPT ![w] = V]
                               /\ OnDisk \subseteq V
                               /\ V \subseteq OnDisk \cup volatile[w] \cup view[w]
                               /\ HistoryValid(V)
  <2>1. CASE NewLines(w) = {} /\ UNCHANGED view
    <3>1. view[w] \in SUBSET Record
      BY DEF ViewsTyped
    <3>2. view' = [view EXCEPT ![w] = view[w]]
      BY <2>1 DEF TypeOK
    <3> QED BY <1>2, <2>1, <3>1, <3>2 DEF ViewsFit
  <2>2. CASE Rebuilt(w, durable[w] \cup NewLines(w))
    <3>1. PICK K \in SUBSET volatile[w] : /\ Survives(OnDisk, volatile[w], K)
                                         /\ view' = [view EXCEPT ![w] = OnDisk \cup K]
      BY <1>2, <2>2 DEF Rebuilt
    <3>2. volatile[w] \in SUBSET Record
      BY DEF TypeOK
    <3>3. HistoryValid(OnDisk \cup K)
      BY <1>3, <3>1, <3>2, RebuiltIsValid DEF ViewsFit
    <3> QED BY <1>3, <3>1, <3>2, <3>3
  <2> QED BY <2>1, <2>2 DEF Merge
<1> QED BY <1>2, <1>4, <1>5 DEF Merge

-----------------------------------------------------------------------------
(***************************************************************************)
(* The invariant is inductive: one lemma per group of steps.               *)
(***************************************************************************)

\* Lines are those of the file.
LEMMA SameLines ==
    ASSUME file' = file
    PROVE  \A n : Lines(n)' = Lines(n)
  BY DEF Lines

\* The conjuncts about the file are about nothing else.
LEMMA FileFrame ==
    ASSUME IInv, file' = file
    PROVE  FileOrdered' /\ ReplaysAlone'
  BY SameLines DEF IInv, FileOrdered, ReplaysAlone

State == /\ Exclusion /\ FileOrdered /\ Prefixes /\ TornAside /\ PendingFits
         /\ Positioned /\ ViewsTyped /\ ViewsFit /\ Acknowledged
         /\ ReplaysAlone /\ ReplayFits

\* What every call has in common: w hands over r and waits for the flock.
Begins(w, r) ==
    /\ w \in live /\ pc[w] = "idle" /\ Begin(w, r)
    /\ r.kind = "outcome" /\ r.replayed => r.execution = Interrupted
    /\ UNCHANGED <<disk, lock, object, granted>>

\* Handing a record over disturbs nothing but pc and pending.
LEMMA BeginsKeeps ==
    ASSUME IInv, NEW w \in Writer, NEW r \in Record, Begins(w, r)
    PROVE  State'
<1> USE DEF IInv, Begins, Begin, disk, object
<1>1. /\ pc' = [pc EXCEPT ![w] = "waiting"] /\ pending' = [pending EXCEPT ![w] = r]
      /\ pc \in [Writer -> Steps] /\ pending \in [Writer -> Record \cup {NoRecord}]
      /\ UNCHANGED <<file, torn, synced, exists, entry, lock, live, durable, offset, volatile,
                     view, maxSeq, dirSynced, granted>>
  BY DEF TypeOK
<1>2. Exclusion'
  BY <1>1 DEF Exclusion, Holding
<1>3. FileOrdered' /\ ReplaysAlone'
  BY <1>1, FileFrame
<1>4. Prefixes'
  BY <1>1 DEF Prefixes, Lines
<1>5. TornAside'
  BY <1>1 DEF TornAside
<1>6. PendingFits'
  BY <1>1 DEF PendingFits, Writing
<1>7. Positioned' /\ ViewsTyped' /\ ViewsFit'
  BY <1>1 DEF Positioned, ViewsTyped, ViewsFit
<1>8. Acknowledged'
  BY <1>1 DEF Acknowledged
<1>9. ReplayFits'
  BY <1>1 DEF ReplayFits, Writing
<1> QED BY <1>2, <1>3, <1>4, <1>5, <1>6, <1>7, <1>8, <1>9 DEF State

\* Keeping a record in memory that fits the view of its process.
LEMMA KeepFacts ==
    ASSUME IInv, NEW w \in Writer, NEW v \in Record,
           v.kind # "claim", v.seq > maxSeq[w], Accepts(view[w], v),
           KeepVolatile(w, v), durable' = durable
    PROVE  Positioned' /\ ViewsTyped' /\ ViewsFit'
<1> USE DEF IInv
<1>1. /\ v.seq \in Nat /\ maxSeq \in [Writer -> Nat]
      /\ volatile \in [Writer -> SUBSET Record]
      /\ view \in [Writer -> SUBSET (Record \cup {Corrupt})]
      /\ volatile' = [volatile EXCEPT ![w] = @ \cup {v}]
      /\ view' = [view EXCEPT ![w] = @ \cup {v}]
  BY RecordType DEF KeepVolatile, TypeOK
<1>2. Max({maxSeq[w], v.seq}) = v.seq
  <2>1. Max({maxSeq[w], v.seq}) \in {maxSeq[w], v.seq} /\ Max({maxSeq[w], v.seq}) >= v.seq
    BY <1>1, MaxIs
  <2> QED BY <1>1, <2>1
<1>3. maxSeq' = [maxSeq EXCEPT ![w] = v.seq]
  BY <1>2 DEF KeepVolatile
<1>4. \A x \in Writer : \A r \in durable[x] \cup volatile[x] \cup view[x] :
          r.seq <= maxSeq[x]
  BY DEF Positioned
<1>5. Positioned'
  <2> SUFFICES ASSUME NEW x \in Writer,
                      NEW r \in durable[x] \cup volatile'[x] \cup view'[x]
               PROVE  r.seq <= maxSeq'[x]
    BY DEF Positioned
  <2>1. CASE x = w
    <3>1. r = v \/ r \in durable[w] \cup volatile[w] \cup view[w]
      BY <1>1, <2>1
    <3>2. CASE r = v
      BY <3>2, <1>1, <1>3, <2>1
    <3>3. CASE r \in durable[w] \cup volatile[w] \cup view[w]
      <4>1. r.seq \in Nat
        BY <3>3, <1>1, RecordType DEF ViewsTyped, ViewsFit
      <4> QED BY <3>3, <4>1, <1>1, <1>3, <1>4, <2>1
    <3> QED BY <3>1, <3>2, <3>3
  <2>2. CASE x # w
    BY <2>2, <1>1, <1>3, <1>4
  <2> QED BY <2>1, <2>2
<1>6. ViewsTyped'
  BY <1>1 DEF ViewsTyped
<1>7. ViewsFit'
  <2>1. HistoryValid(view[w] \cup {v})
    BY AcceptsKeepsValid DEF ViewsTyped, ViewsFit
  <2>2. PositionsUnique(volatile[w] \cup {v})
    <3>1. \A r \in volatile[w] : r.seq # v.seq
      BY <1>1, <1>4, RecordType
    <3> QED BY <3>1 DEF ViewsFit, PositionsUnique
  <2> QED BY <1>1, <2>1, <2>2 DEF ViewsFit
<1> QED BY <1>5, <1>6, <1>7

\* The same for a record that is dropped instead if it does not fit.
LEMMA AppendVolatileFacts ==
    ASSUME IInv, NEW w \in Writer, NEW r \in Record,
           r.kind # "claim", AppendVolatile(w, r), durable' = durable
    PROVE  Positioned' /\ ViewsTyped' /\ ViewsFit'
<1> DEFINE v == At(r, maxSeq[w] + 1)
<1>1. maxSeq[w] \in Nat
  BY DEF IInv, TypeOK
<1>2. v \in Record /\ v.kind # "claim" /\ v.seq = maxSeq[w] + 1
  <2>1. maxSeq[w] + 1 \in Nat
    BY <1>1
  <2>2. v \in Record /\ v.seq = maxSeq[w] + 1 /\ v.kind = r.kind
    BY ONLY <2>1, AtType, r \in Record
  <2> QED BY <2>2
<1>3. CASE KeepVolatile(w, v) /\ Accepts(view[w], v)
  BY <1>1, <1>2, <1>3, KeepFacts
<1>4. CASE UNCHANGED <<volatile, view, maxSeq>>
  BY <1>4 DEF IInv, Positioned, ViewsTyped, ViewsFit
<1> QED BY <1>3, <1>4 DEF AppendVolatile

\* The calls of an agent, of a settling process and of a recovery keep the state
\* part of the invariant; an observation that stays volatile fits the view.
LEMMA CallsBegin ==
    ASSUME IInv, NEW w \in Writer, Call(w) \/ CallRecover(w)
    PROVE  State'
<1> USE DEF IInv, Begins
<1>1. ASSUME NEW e \in Effect, CallClaim(w, e)
      PROVE  State'
  <2>1. Claim(e, 0) \in Record /\ Claim(e, 0).kind = "claim"
    BY Constructed DEF Claim
  <2> QED BY <1>1, <2>1, BeginsKeeps DEF CallClaim, AgentReady, Ready
<1>2. ASSUME NEW e \in Effect, NEW x \in Reports,
             CallOutcome(w, e, x) \/ CallSettleJob(w, e, x)
      PROVE  State'
  <2>1. Outcome(e, 0, x, FALSE) \in Record /\ ~Outcome(e, 0, x, FALSE).replayed
    BY Constructed DEF Outcome
  <2> QED BY <1>2, <2>1, BeginsKeeps
          DEF CallOutcome, CallSettleJob, AgentReady, Ready, callers
<1>3. ASSUME NEW s \in Sight, CallObserve(w, s)
      PROVE  State'
  <2>1. Observation(s, 0) \in Record /\ Observation(s, 0).kind = "observation"
    BY Constructed DEF Observation
  <2>2. CASE Begin(w, Observation(s, 0)) /\ UNCHANGED object
    BY <1>3, <2>1, <2>2, BeginsKeeps DEF CallObserve, AgentReady, Ready, callers
  <2>3. CASE /\ AppendVolatile(w, Observation(s, 0))
             /\ UNCHANGED <<pc, pending, live, durable, offset, dirSynced, degraded>>
    <3>1. /\ pc[w] = "idle"
          /\ UNCHANGED <<file, torn, synced, exists, entry, lock, granted>>
      BY <1>3 DEF CallObserve, AgentReady, Ready, disk, callers
    <3>2. Positioned' /\ ViewsTyped' /\ ViewsFit'
      BY <2>1, <2>3, AppendVolatileFacts
    <3>3. /\ maxSeq' = [maxSeq EXCEPT ![w] = maxSeq'[w]]
          /\ view' = [view EXCEPT ![w] = view'[w]]
      BY <2>3 DEF AppendVolatile, KeepVolatile, TypeOK
    <3>4. FileOrdered' /\ ReplaysAlone'
      BY <3>1, FileFrame
    <3>5. Prefixes'
      BY <2>3, <3>1, SameLines DEF Prefixes
    <3>6. PendingFits'
      BY <2>3, <3>1, <3>3 DEF PendingFits, Writing, TypeOK
    <3>7. Exclusion' /\ TornAside' /\ Acknowledged' /\ ReplayFits'
      BY <2>3, <3>1
      DEF Exclusion, Holding, TornAside, Acknowledged, ReplayFits, Writing
    <3> QED BY <3>2, <3>4, <3>5, <3>6, <3>7 DEF State
  <2> QED BY <1>3, <2>2, <2>3 DEF CallObserve
<1>4. ASSUME CallRecover(w)
      PROVE  State'
  <2>1. PICK e \in todo[w] : Begin(w, Outcome(e, 0, Interrupted, TRUE))
    BY <1>4 DEF CallRecover
  <2>2. /\ Outcome(e, 0, Interrupted, TRUE) \in Record
        /\ Outcome(e, 0, Interrupted, TRUE).execution = Interrupted
    BY Constructed DEF TypeOK, Execution, Settling, Outcome
  <2> QED BY <1>4, <2>1, <2>2, BeginsKeeps DEF CallRecover, callers
<1> QED BY <1>1, <1>2, <1>3, <1>4 DEF Call

\* Nobody is inside the file while the lock is free.
LEMMA NobodyHolds ==
    ASSUME IInv, lock = NoWriter
    PROVE  \A w \in Writer : ~Holding(w) /\ ~Writing(w)
  BY DEF IInv, Exclusion, Holding, Writing

\* Whoever holds the lock is alone.
LEMMA HoldsAlone ==
    ASSUME IInv, NEW w \in Writer, Holding(w)
    PROVE  lock = w /\ \A x \in Writer : x # w => ~Holding(x) /\ ~Writing(x)
  BY DEF IInv, Exclusion, Holding, Writing

\* What merging does to the object of the process that merges.
LEMMA MergeKeeps ==
    ASSUME IInv, NEW w \in Writer, Merge(w), UNCHANGED <<file, volatile>>
    PROVE  /\ Positioned' /\ ViewsTyped' /\ ViewsFit'
           /\ \A x \in Writer : offset'[x] <= Len(file)' /\ durable'[x] = Lines(offset[x])'
           /\ offset'[w] = Len(file)
<1> USE DEF IInv
<1>1. PICK m \in Nat : /\ maxSeq' = [maxSeq EXCEPT ![w] = m]
                       /\ m >= maxSeq[w]
                       /\ \A r \in OnDisk : r.seq <= m
  BY MergeFacts
<1>2. PICK V \in SUBSET Record : /\ view' = [view EXCEPT ![w] = V]
                                 /\ OnDisk \subseteq V
                                 /\ V \subseteq OnDisk \cup volatile[w] \cup view[w]
                                 /\ HistoryValid(V)
  BY MergeFacts
<1>3. /\ offset' = [offset EXCEPT ![w] = Len(file)]
      /\ durable' = [durable EXCEPT ![w] = OnDisk]
  BY MergeFacts
<1>4. /\ maxSeq \in [Writer -> Nat] /\ view \in [Writer -> SUBSET (Record \cup {Corrupt})]
      /\ offset \in [Writer -> Nat] /\ durable \in [Writer -> SUBSET (Record \cup {Corrupt})]
      /\ volatile \in [Writer -> SUBSET Record] /\ Len(file) \in Nat
  BY DEF TypeOK
<1>5. Positioned'
  <2> SUFFICES ASSUME NEW x \in Writer,
                      NEW r \in durable'[x] \cup volatile[x] \cup view'[x]
               PROVE  r.seq <= maxSeq'[x]
    BY DEF Positioned
  <2>1. CASE x # w
    BY <1>1, <1>2, <1>3, <1>4, <2>1 DEF Positioned
  <2>2. CASE x = w
    <3>1. r \in OnDisk \cup volatile[w] \cup view[w]
      BY <1>2, <1>3, <1>4, <2>2
    <3>2. r.seq \in Nat
      <4>1. OnDisk \subseteq Record
        BY OrderedIsValid
      <4> QED BY <3>1, <4>1, <1>4, RecordType DEF ViewsTyped
    <3>3. r.seq <= m
      BY <3>1, <3>2, <1>1, <1>4 DEF Positioned
    <3> QED BY <3>3, <1>1, <1>4, <2>2
  <2> QED BY <2>1, <2>2
<1>6. ViewsTyped'
  BY <1>2, <1>4 DEF ViewsTyped
<1>7. ViewsFit'
  BY <1>2, <1>3, <1>4 DEF ViewsFit
<1>8. \A x \in Writer : offset'[x] <= Len(file)' /\ durable'[x] = Lines(offset[x])'
  <2> SUFFICES ASSUME NEW x \in Writer
               PROVE  offset'[x] <= Len(file) /\ durable'[x] = Lines(offset'[x])
    BY SameLines DEF Lines
  <2>1. CASE x = w
    BY <1>3, <1>4, <2>1 DEF OnDisk
  <2>2. CASE x # w
    BY <1>3, <1>4, <2>2 DEF Prefixes
  <2> QED BY <2>1, <2>2
<1> QED BY <1>3, <1>4, <1>5, <1>6, <1>7, <1>8

\* Taking the flock: nobody else holds it, the partial line is cut and the tail merged.
LEMMA AcquireKeeps ==
    ASSUME IInv, NEW w \in Writer, Acquire(w)
    PROVE  State'
<1> USE DEF IInv
<1>1. /\ pc' = [pc EXCEPT ![w] = "locked"] /\ pc \in [Writer -> Steps]
      /\ pc[w] = "waiting" /\ lock = NoWriter /\ lock' = w /\ torn' = FALSE
      /\ Merge(w)
      /\ UNCHANGED <<file, synced, entry, live, volatile, dirSynced, pending, granted>>
  BY DEF Acquire, TypeOK, callers
<1>2. \A x \in Writer : ~Holding(x) /\ ~Writing(x)
  BY <1>1, NobodyHolds
<1>3. /\ Positioned' /\ ViewsTyped' /\ ViewsFit'
      /\ \A x \in Writer : offset'[x] <= Len(file)' /\ durable'[x] = Lines(offset[x])'
      /\ offset'[w] = Len(file)
  BY <1>1, MergeKeeps
<1>4. FileOrdered' /\ ReplaysAlone'
  BY <1>1, FileFrame
<1>5. Prefixes'
  BY <1>1, <1>2, <1>3 DEF Prefixes, Holding
<1>6. Exclusion'
  BY <1>1, <1>2 DEF Exclusion, Holding
<1>7. TornAside' /\ Acknowledged'
  BY <1>1 DEF TornAside, Acknowledged
<1>8. PendingFits' /\ ReplayFits'
  BY <1>1, <1>2 DEF PendingFits, ReplayFits, Writing
<1> QED BY <1>3, <1>4, <1>5, <1>6, <1>7, <1>8 DEF State

\* A refresh merges the tail while nobody is inside a locked append.
LEMMA RefreshKeeps ==
    ASSUME IInv, NEW w \in Writer, Refresh(w)
    PROVE  State'
<1> USE DEF IInv
<1>1. /\ pc' = pc /\ lock = NoWriter /\ Merge(w)
      /\ UNCHANGED <<file, torn, synced, entry, lock, live, volatile, dirSynced, pending, granted>>
  BY DEF Refresh, disk, append, callers
<1>2. \A x \in Writer : ~Holding(x) /\ ~Writing(x)
  BY <1>1, NobodyHolds
<1>3. /\ Positioned' /\ ViewsTyped' /\ ViewsFit'
      /\ \A x \in Writer : offset'[x] <= Len(file)' /\ durable'[x] = Lines(offset[x])'
  BY <1>1, MergeKeeps
<1>4. FileOrdered' /\ ReplaysAlone'
  BY <1>1, FileFrame
<1>5. Prefixes'
  BY <1>1, <1>2, <1>3 DEF Prefixes, Holding
<1>6. Exclusion' /\ TornAside' /\ Acknowledged'
  BY <1>1 DEF Exclusion, Holding, TornAside, Acknowledged
<1>7. PendingFits' /\ ReplayFits'
  BY <1>1, <1>2 DEF PendingFits, ReplayFits, Writing
<1> QED BY <1>3, <1>4, <1>5, <1>6, <1>7 DEF State

\* Allocation yields a record that fits behind all its process knows.
LEMMA AllocateKeeps ==
    ASSUME IInv, NEW w \in Writer, Allocate(w)
    PROVE  State'
<1> DEFINE r == At(pending[w], maxSeq[w] + 1)
<1> USE DEF IInv
<1>1. /\ pc' = [pc EXCEPT ![w] = "write"] /\ pc \in [Writer -> Steps] /\ pc[w] = "locked"
      /\ pending' = [pending EXCEPT ![w] = r]
      /\ pending \in [Writer -> Record \cup {NoRecord}]
      /\ Acceptable(w, r)
      /\ UNCHANGED <<file, torn, synced, entry, lock, live, durable, offset, volatile, view,
                     maxSeq, dirSynced, granted>>
  BY DEF Allocate, TypeOK, disk, object, callers
<1>2. /\ pending[w] \in Record /\ maxSeq[w] \in Nat
      /\ lock = w /\ \A x \in Writer : x # w => ~Holding(x) /\ ~Writing(x)
  BY <1>1, HoldsAlone DEF Exclusion, Holding, TypeOK
<1>3. /\ r \in Record /\ r.seq = maxSeq[w] + 1 /\ r.kind = pending[w].kind
      /\ r.kind = "outcome" => /\ r.execution = pending[w].execution
                               /\ r.replayed = pending[w].replayed
  BY <1>2, AtType
<1> HIDE DEF r
<1>4. FileOrdered' /\ ReplaysAlone'
  BY <1>1, FileFrame
<1>5. Prefixes'
  BY <1>1, <1>2, SameLines DEF Prefixes, Holding
<1>6. Exclusion' /\ TornAside' /\ Acknowledged'
  BY <1>1, <1>2, <1>3 DEF Exclusion, Holding, TornAside, Acknowledged
<1>7. PendingFits'
  BY <1>1, <1>2, <1>3 DEF PendingFits, Writing, Acceptable
<1>8. ReplayFits'
  BY <1>1, <1>2, <1>3 DEF ReplayFits, Writing, Acceptable, StillApplies
<1>9. Positioned' /\ ViewsTyped' /\ ViewsFit'
  BY <1>1 DEF Positioned, ViewsTyped, ViewsFit
<1> QED BY <1>4, <1>5, <1>6, <1>7, <1>8, <1>9 DEF State

\* Lines that stay where they are.
LEMMA KeptLines ==
    ASSUME NEW n \in Nat, \A i \in 1..n : file'[i] = file[i]
    PROVE  \A k \in 0..n : Lines(k)' = Lines(k)
  BY DEF Lines

\* The line is written behind a record boundary, hence never glued, and it may
\* follow the lines before it.
LEMMA WriteLineKeeps ==
    ASSUME IInv, NEW w \in Writer, WriteLine(w)
    PROVE  State'
<1> DEFINE r == pending[w]
           n == Len(file)
<1> USE DEF IInv
<1>1. /\ pc' = [pc EXCEPT ![w] = "sync"] /\ pc \in [Writer -> Steps]
      /\ pc[w] \in {"write", "partial"} /\ torn' = FALSE
      /\ UNCHANGED <<synced, entry, lock, live, durable, offset, volatile, view,
                     maxSeq, dirSynced, pending, granted>>
  BY DEF WriteLine, TypeOK, object, callers
<1>2. /\ r \in Record /\ maxSeq[w] \in Nat /\ n \in Nat
      /\ lock = w /\ \A x \in Writer : x # w => ~Holding(x) /\ ~Writing(x)
  BY <1>1, HoldsAlone DEF Exclusion, Holding, TypeOK
<1>3. file' = Append(file, r)
  BY <1>1 DEF WriteLine, TornAside
<1>4. /\ Len(file') = n + 1 /\ file'[n + 1] = r
      /\ \A i \in 1..n : file'[i] = file[i]
  BY <1>2, <1>3, AppendProperties DEF TypeOK
<1>5. \A k \in 0..n : Lines(k)' = Lines(k)
  BY <1>2, <1>4, KeptLines
<1>6. offset[w] = n /\ durable[w] = Lines(n)
  BY <1>1 DEF Prefixes
<1>7. Writing(w)
  BY <1>1 DEF Writing
<1>8. FileOrdered'
  <2>1. \A i \in 1..(n + 1) : file'[i] \in Record
    BY <1>2, <1>4 DEF FileOrdered
  <2>2. \A i \in 1..n : file[i].seq < r.seq
    <3> SUFFICES ASSUME NEW i \in 1..n PROVE file[i].seq < r.seq
      OBVIOUS
    <3>1. file[i] \in durable[w]
      BY <1>2, <1>6 DEF Lines
    <3>2. file[i].seq \in Nat /\ r.seq \in Nat
      BY <1>2, RecordType DEF FileOrdered
    <3> QED BY <3>1, <3>2, <1>2, <1>7 DEF PendingFits, Positioned
  <2>3. \A i, j \in 1..(n + 1) : i < j => file'[i].seq < file'[j].seq
    <3> SUFFICES ASSUME NEW i \in 1..(n + 1), NEW j \in 1..(n + 1), i < j
                 PROVE  file'[i].seq < file'[j].seq
      OBVIOUS
    <3>1. CASE j = n + 1
      BY <3>1, <2>2, <1>2, <1>4
    <3>2. CASE j \in 1..n
      BY <3>2, <1>2, <1>4 DEF FileOrdered
    <3> QED BY <3>1, <3>2, <1>2
  <2>4. \A i \in 1..(n + 1) : Accepts(Lines(i - 1)', file'[i])
    <3> SUFFICES ASSUME NEW i \in 1..(n + 1) PROVE Accepts(Lines(i - 1)', file'[i])
      OBVIOUS
    <3>1. Lines(i - 1)' = Lines(i - 1)
      BY <1>2, <1>5
    <3>2. CASE i = n + 1
      <4>1. Accepts(Lines(n), r)
        BY <1>6, <1>7 DEF PendingFits
      <4>2. i - 1 = n
        BY <3>2, <1>2
      <4> QED BY <4>1, <4>2, <3>1, <3>2, <1>4
    <3>3. CASE i \in 1..n
      BY <3>1, <3>3, <1>4 DEF FileOrdered
    <3> QED BY <3>2, <3>3, <1>2
  <2> QED BY <2>1, <2>3, <2>4, <1>4 DEF FileOrdered
<1>9. ReplaysAlone'
  <2> SUFFICES ASSUME NEW i \in 1..(n + 1), file'[i].kind = "outcome", file'[i].replayed
               PROVE  /\ file'[i].execution = Interrupted
                      /\ ~HasOutcome(Lines(i - 1)', file'[i].effect)
    BY <1>4 DEF ReplaysAlone
  <2>1. Lines(i - 1)' = Lines(i - 1)
    BY <1>2, <1>5
  <2>2. CASE i = n + 1
    <3>1. i - 1 = n
      BY <2>2, <1>2
    <3> QED BY <2>1, <2>2, <3>1, <1>4, <1>6, <1>7 DEF ReplayFits
  <2>3. CASE i \in 1..n
    BY <2>1, <2>3, <1>4 DEF ReplaysAlone
  <2> QED BY <2>2, <2>3, <1>2
<1>10. Prefixes'
  <2> SUFFICES ASSUME NEW x \in Writer
               PROVE  /\ offset[x] <= n + 1 /\ durable[x] = Lines(offset[x])'
                      /\ pc'[x] \notin {"locked", "write", "partial"}
                      /\ pc'[x] = "sync" => /\ x = w
                                            /\ synced <= offset[w]
                                            /\ \A v \in Writer : offset[v] <= offset[w]
    BY <1>1, <1>4, <1>6 DEF Prefixes
  <2>1. offset[x] \in Nat /\ offset[x] <= n /\ durable[x] = Lines(offset[x])
    BY DEF Prefixes, TypeOK
  <2>2. Lines(offset[x])' = Lines(offset[x])
    <3>1. \A k \in 0..n : {file'[i] : i \in 1..k} = Lines(k)
      BY <1>5 DEF Lines
    <3>2. {file'[i] : i \in 1..offset[x]} = Lines(offset[x])
      BY <2>1, <3>1
    <3> QED BY <3>2, <1>1 DEF Lines
  <2>3. pc'[x] \notin {"locked", "write", "partial"} /\ (pc'[x] = "sync" => x = w)
    BY <1>1, <1>2 DEF Holding
  <2>4. synced <= n /\ \A v \in Writer : offset[v] <= n
    BY DEF Acknowledged, Prefixes
  <2> QED BY <2>1, <2>2, <2>3, <2>4, <1>2, <1>6
<1>11. Exclusion' /\ TornAside'
  BY <1>1, <1>2 DEF Exclusion, Holding, TornAside
<1>12. PendingFits' /\ ReplayFits'
  BY <1>1, <1>7 DEF PendingFits, ReplayFits, Writing
<1>13. Positioned' /\ ViewsTyped' /\ ViewsFit'
  BY <1>1 DEF Positioned, ViewsTyped, ViewsFit
<1>14. Acknowledged'
  <2>1. synced \in Nat /\ synced <= n
    BY DEF Acknowledged, TypeOK
  <2>2. \A i \in 1..synced : file'[i] = file[i]
    BY <2>1, <1>2, <1>4
  <2> QED BY <2>1, <2>2, <1>1, <1>2, <1>4 DEF Acknowledged
<1> QED BY <1>8, <1>9, <1>10, <1>11, <1>12, <1>13, <1>14 DEF State

\* Half a line is no line.
LEMMA WritePartKeeps ==
    ASSUME IInv, NEW w \in Writer, WritePart(w)
    PROVE  State'
<1> USE DEF IInv
<1>1. /\ pc' = [pc EXCEPT ![w] = "partial"] /\ pc \in [Writer -> Steps]
      /\ pc[w] = "write" /\ torn' = TRUE
      /\ UNCHANGED <<file, synced, entry, lock, live, durable, offset, volatile, view,
                     maxSeq, dirSynced, pending, granted>>
  BY DEF WritePart, TypeOK, object, callers
<1>2. lock = w /\ \A x \in Writer : x # w => ~Holding(x) /\ ~Writing(x)
  BY <1>1, HoldsAlone DEF Holding
<1>3. FileOrdered' /\ ReplaysAlone'
  BY <1>1, FileFrame
<1>4. Prefixes'
  BY <1>1, <1>2, SameLines DEF Prefixes, Holding
<1>5. Exclusion' /\ TornAside' /\ Acknowledged'
  BY <1>1, <1>2 DEF Exclusion, Holding, TornAside, Acknowledged
<1>6. PendingFits' /\ ReplayFits'
  BY <1>1, <1>2 DEF PendingFits, ReplayFits, Writing
<1>7. Positioned' /\ ViewsTyped' /\ ViewsFit'
  BY <1>1 DEF Positioned, ViewsTyped, ViewsFit
<1> QED BY <1>3, <1>4, <1>5, <1>6, <1>7 DEF State

\* The acknowledged line joins what its writer knows and what is durable.
LEMMA SyncKeeps ==
    ASSUME IInv, NEW w \in Writer, Sync(w)
    PROVE  State'
<1> DEFINE r == pending[w]
<1> USE DEF IInv
<1>1. /\ pc' = [pc EXCEPT ![w] = "idle"] /\ pc \in [Writer -> Steps] /\ pc[w] = "sync"
      /\ pending' = [pending EXCEPT ![w] = NoRecord]
      /\ pending \in [Writer -> Record \cup {NoRecord}]
      /\ lock' = IF lock = w THEN NoWriter ELSE lock
      /\ synced' = Len(file) /\ entry' = (entry \/ ~dirSynced[w])
      /\ dirSynced' = [dirSynced EXCEPT ![w] = TRUE] /\ dirSynced \in [Writer -> BOOLEAN]
      /\ durable' = [durable EXCEPT ![w] = @ \cup {r}]
      /\ durable \in [Writer -> SUBSET (Record \cup {Corrupt})]
      /\ view' = [view EXCEPT ![w] = @ \cup {r}]
      /\ view \in [Writer -> SUBSET (Record \cup {Corrupt})]
      /\ offset' = [offset EXCEPT ![w] = @ + 1] /\ offset \in [Writer -> Nat]
      /\ granted' = IF r.kind = "claim" THEN granted \cup {r.effect} ELSE granted
      /\ UNCHANGED <<file, torn, live, volatile>>
  BY DEF Sync, Flush, Release, TypeOK
<1>2. /\ r \in Record /\ r.seq \in Nat /\ maxSeq \in [Writer -> Nat] /\ Len(file) \in Nat
      /\ lock = w /\ \A x \in Writer : x # w => ~Holding(x) /\ ~Writing(x)
  BY <1>1, HoldsAlone, RecordType DEF Exclusion, Holding, TypeOK
<1>3. r.seq > maxSeq[w] /\ Accepts(view[w], r)
  BY <1>1 DEF PendingFits, Writing
<1>4. maxSeq' = [maxSeq EXCEPT ![w] = r.seq]
  <2> DEFINE S == {maxSeq[w], r.seq}
  <2>1. S \in SUBSET Nat /\ r.seq \in S /\ \A y \in S : r.seq >= y
    BY <1>2, <1>3
  <2>2. Max(S) \in S /\ Max(S) >= r.seq
    BY <2>1, MaxIs
  <2>3. Max({maxSeq[w], r.seq}) = r.seq
    BY <2>2, <1>2, <1>3
  <2> QED BY <2>3 DEF Sync
<1>5. Len(file) = offset[w] + 1 /\ file[Len(file)] = r
  BY <1>1 DEF Prefixes
<1>6. FileOrdered' /\ ReplaysAlone'
  BY <1>1, FileFrame
<1>7. Prefixes'
  <2> SUFFICES ASSUME NEW x \in Writer
               PROVE  /\ offset'[x] <= Len(file) /\ durable'[x] = Lines(offset'[x])
                      /\ ~Holding(x)'
    BY <1>1, SameLines DEF Prefixes, Lines, Holding
  <2>1. ~Holding(x)'
    BY <1>1, <1>2 DEF Holding
  <2>2. CASE x = w
    <3>1. durable'[w] = Lines(offset[w]) \cup {file[offset[w] + 1]} /\ offset'[w] = offset[w] + 1
      BY <1>1, <1>5 DEF Prefixes
    <3>2. Lines(offset[w] + 1) = Lines(offset[w]) \cup {file[offset[w] + 1]}
      BY <1>1 DEF Lines
    <3> QED BY <2>1, <2>2, <3>1, <3>2, <1>2, <1>5
  <2>3. CASE x # w
    BY <2>1, <2>3, <1>1 DEF Prefixes
  <2> QED BY <2>2, <2>3
<1>8. Exclusion' /\ TornAside'
  BY <1>1, <1>2 DEF Exclusion, Holding, TornAside
<1>9. PendingFits' /\ ReplayFits'
  BY <1>1, <1>2 DEF PendingFits, ReplayFits, Writing, NoRecord
<1>10. Positioned'
  <2> SUFFICES ASSUME NEW x \in Writer,
                      NEW q \in durable'[x] \cup volatile[x] \cup view'[x]
               PROVE  q.seq <= maxSeq'[x]
    BY <1>1 DEF Positioned
  <2>1. CASE x # w
    BY <2>1, <1>1, <1>4, <1>2 DEF Positioned
  <2>2. CASE x = w /\ q = r
    BY <2>2, <1>2, <1>4
  <2>3. CASE x = w /\ q \in durable[w] \cup volatile[w] \cup view[w]
    <3>1. q.seq <= maxSeq[w]
      BY <2>3 DEF Positioned
    <3>2. q \in Record
      BY <2>3 DEF ViewsTyped, ViewsFit, TypeOK
    <3> QED BY <2>3, <3>1, <3>2, <1>2, <1>3, <1>4, RecordType
  <2> QED BY <2>1, <2>2, <2>3, <1>1
<1>11. ViewsTyped' /\ ViewsFit'
  <2>1. HistoryValid(view[w] \cup {r})
    BY <1>2, <1>3, AcceptsKeepsValid DEF ViewsTyped, ViewsFit
  <2> QED BY <2>1, <1>1, <1>2 DEF ViewsTyped, ViewsFit
<1>12. Acknowledged'
  <2>1. entry' = TRUE
    BY <1>1 DEF Acknowledged, TypeOK
  <2>2. \A e \in granted' : \E i \in 1..Len(file) : file[i].kind = "claim" /\ file[i].effect = e
    <3> SUFFICES ASSUME NEW e \in granted'
                 PROVE  \E i \in 1..Len(file) : file[i].kind = "claim" /\ file[i].effect = e
      OBVIOUS
    <3>1. CASE e \in granted
      <4>1. PICK i \in 1..synced : file[i].kind = "claim" /\ file[i].effect = e
        BY <3>1 DEF Acknowledged
      <4>2. i \in 1..Len(file)
        BY <1>2 DEF Acknowledged, TypeOK
      <4> QED BY <4>1, <4>2
    <3>2. CASE r.kind = "claim" /\ e = r.effect
      <4>1. Len(file) \in 1..Len(file)
        BY <1>1, <1>2, <1>5
      <4> QED BY <3>2, <4>1, <1>5
    <3> QED BY <3>1, <3>2, <1>1
  <2> QED BY <2>1, <2>2, <1>1, <1>2 DEF Acknowledged
<1> QED BY <1>6, <1>7, <1>8, <1>9, <1>10, <1>11, <1>12 DEF State

\* A record that no longer applies is dropped and the flock released.
LEMMA RejectKeeps ==
    ASSUME IInv, NEW w \in Writer, Reject(w)
    PROVE  State'
<1> USE DEF IInv
<1>1. /\ pc' = [pc EXCEPT ![w] = "idle"] /\ pc \in [Writer -> Steps] /\ pc[w] = "locked"
      /\ pending' = [pending EXCEPT ![w] = NoRecord]
      /\ pending \in [Writer -> Record \cup {NoRecord}]
      /\ lock' = IF lock = w THEN NoWriter ELSE lock
      /\ UNCHANGED <<file, torn, synced, entry, live, durable, offset, volatile, view,
                     maxSeq, dirSynced, granted>>
  BY DEF Reject, Release, TypeOK, disk, object, callers
<1>2. lock = w /\ \A x \in Writer : x # w => ~Holding(x) /\ ~Writing(x)
  BY <1>1, HoldsAlone DEF Holding
<1>3. FileOrdered' /\ ReplaysAlone'
  BY <1>1, FileFrame
<1>4. Prefixes'
  BY <1>1, <1>2, SameLines DEF Prefixes, Holding
<1>5. Exclusion' /\ TornAside' /\ Acknowledged'
  BY <1>1, <1>2 DEF Exclusion, Holding, TornAside, Acknowledged
<1>6. PendingFits' /\ ReplayFits'
  BY <1>1, <1>2 DEF PendingFits, ReplayFits, Writing, NoRecord
<1>7. Positioned' /\ ViewsTyped' /\ ViewsFit'
  BY <1>1 DEF Positioned, ViewsTyped, ViewsFit
<1> QED BY <1>3, <1>4, <1>5, <1>6, <1>7 DEF State

\* A failed acquisition leaves the file alone; the record may be kept in memory.
LEMMA AcquireFailsKeeps ==
    ASSUME IInv, NEW w \in Writer, AcquireFails(w)
    PROVE  State'
<1> USE DEF IInv
<1>1. /\ pc' = [pc EXCEPT ![w] = "idle"] /\ pc \in [Writer -> Steps] /\ pc[w] = "waiting"
      /\ pending' = [pending EXCEPT ![w] = NoRecord]
      /\ pending \in [Writer -> Record \cup {NoRecord}]
      /\ lock' = IF lock = w THEN NoWriter ELSE lock
      /\ UNCHANGED <<file, synced, entry, live, durable, offset, dirSynced, granted>>
  BY DEF AcquireFails, Release, TypeOK, callers
<1>2. torn' => torn
  BY Zenon DEF AcquireFails, TypeOK
<1>3. pending[w] \in Record
  BY <1>1 DEF Exclusion
<1>4. Positioned' /\ ViewsTyped' /\ ViewsFit'
  <2>1. CASE pending[w].kind = "claim"
    BY <2>1, <1>1 DEF AcquireFails, Positioned, ViewsTyped, ViewsFit
  <2>2. CASE pending[w].kind # "claim"
    BY <2>2, <1>1, <1>3, AppendVolatileFacts DEF AcquireFails
  <2> QED BY <2>1, <2>2
<1>5. /\ maxSeq' = [maxSeq EXCEPT ![w] = maxSeq'[w]]
      /\ view' = [view EXCEPT ![w] = view'[w]]
  BY DEF AcquireFails, AppendVolatile, KeepVolatile, TypeOK
<1>6. FileOrdered' /\ ReplaysAlone'
  BY <1>1, FileFrame
<1>7. Prefixes'
  BY <1>1, SameLines DEF Prefixes
<1>8. Exclusion' /\ TornAside' /\ Acknowledged'
  BY <1>1, <1>2 DEF Exclusion, Holding, TornAside, Acknowledged
<1>9. PendingFits'
  BY <1>1, <1>5 DEF PendingFits, Writing, TypeOK
<1>10. ReplayFits'
  BY <1>1 DEF ReplayFits, Writing, NoRecord
<1> QED BY <1>4, <1>6, <1>7, <1>8, <1>9, <1>10 DEF State

\* A file cut after its n-th line is as ordered as before.
LEMMA CutKeeps ==
    ASSUME IInv, NEW n \in Nat, n <= Len(file), file' = SubSeq(file, 1, n)
    PROVE  /\ FileOrdered' /\ ReplaysAlone'
           /\ Len(file') = n
           /\ \A i \in 1..n : file'[i] = file[i]
           /\ \A k \in 0..n : Lines(k)' = Lines(k)
<1> USE DEF IInv
<1>1. Len(file') = n /\ Len(file) \in Nat /\ \A i \in 1..n : file'[i] = file[i]
  BY CutType DEF TypeOK
<1>2. \A k \in 0..n : Lines(k)' = Lines(k)
  BY <1>1, KeptLines
<1>3. ASSUME NEW i \in 1..n
      PROVE  /\ i \in 1..Len(file) /\ file'[i] = file[i]
             /\ Lines(i - 1)' = Lines(i - 1)
  BY <1>1, <1>2
<1>4. FileOrdered'
  <2>1. \A i, j \in 1..n : i < j => file'[i].seq < file'[j].seq
    BY <1>3 DEF FileOrdered
  <2>2. \A i \in 1..n : Accepts(Lines(i - 1)', file'[i])
    BY <1>3 DEF FileOrdered
  <2>3. \A i \in 1..n : file'[i] \in Record
    BY <1>3 DEF FileOrdered
  <2> QED BY <2>1, <2>2, <2>3, <1>1 DEF FileOrdered
<1>5. ReplaysAlone'
  <2>1. \A i \in 1..n : file'[i].kind = "outcome" /\ file'[i].replayed =>
            /\ file'[i].execution = Interrupted
            /\ ~HasOutcome(Lines(i - 1)', file'[i].effect)
    BY <1>3 DEF ReplaysAlone
  <2> QED BY <2>1, <1>1 DEF ReplaysAlone
<1> QED BY <1>1, <1>2, <1>4, <1>5

\* A failed write ends on a record boundary or leaves an unacknowledged line.
LEMMA WriteFailsKeeps ==
    ASSUME IInv, NEW w \in Writer, WriteFails(w)
    PROVE  State'
<1> DEFINE r == pending[w]
<1> USE DEF IInv
<1>1. /\ pc' = [pc EXCEPT ![w] = "idle"] /\ pc \in [Writer -> Steps]
      /\ pc[w] \in {"write", "partial", "sync"}
      /\ pending' = [pending EXCEPT ![w] = NoRecord]
      /\ pending \in [Writer -> Record \cup {NoRecord}]
      /\ lock' = IF lock = w THEN NoWriter ELSE lock
      /\ UNCHANGED <<synced, entry, live, durable, offset, dirSynced, granted>>
  BY DEF WriteFails, Release, TypeOK, callers
<1>2. /\ r \in Record /\ lock = w /\ Writing(w)
      /\ \A x \in Writer : x # w => ~Holding(x) /\ ~Writing(x)
  BY <1>1, HoldsAlone DEF Exclusion, Holding, Writing
<1>3. Positioned' /\ ViewsTyped' /\ ViewsFit'
  <2>1. CASE r.kind = "claim"
    BY <2>1, <1>1 DEF WriteFails, Positioned, ViewsTyped, ViewsFit
  <2>2. CASE r.kind # "claim"
    BY <2>2, <1>1, <1>2, KeepFacts DEF WriteFails, PendingFits
  <2> QED BY <2>1, <2>2
<1>4. \A x \in Writer : ~Holding(x)' /\ ~Writing(x)'
  BY <1>1, <1>2 DEF Holding, Writing
<1>5. /\ offset[w] \in Nat /\ offset[w] <= Len(file) /\ synced <= offset[w]
      /\ \A x \in Writer : offset[x] \in Nat /\ offset[x] <= offset[w]
  BY <1>1 DEF Prefixes, Acknowledged, TypeOK
<1>6. Exclusion' /\ TornAside'
  BY <1>1, <1>4 DEF Exclusion, TornAside, Holding
<1>7. PendingFits' /\ ReplayFits'
  BY <1>1, <1>4 DEF PendingFits, ReplayFits, NoRecord
<1>8. FileOrdered' /\ ReplaysAlone' /\ Prefixes' /\ Acknowledged'
  <2>1. CASE file' = SubSeq(file, 1, offset[w])
    <3>1. /\ FileOrdered' /\ ReplaysAlone' /\ Len(file') = offset[w]
          /\ \A i \in 1..offset[w] : file'[i] = file[i]
          /\ \A k \in 0..offset[w] : Lines(k)' = Lines(k)
      BY <2>1, <1>5, CutKeeps
    <3>2. \A k \in 0..offset[w] : {file'[i] : i \in 1..k} = Lines(k)
      BY <3>1 DEF Lines
    <3>3. Prefixes'
      <4> SUFFICES ASSUME NEW x \in Writer
                   PROVE  offset[x] <= offset[w] /\ durable[x] = {file'[i] : i \in 1..offset[x]}
        BY <1>1, <1>4, <3>1 DEF Prefixes, Holding, Lines
      <4> QED BY <3>2, <1>5 DEF Prefixes
    <3>4. Acknowledged'
      <4>1. synced \in Nat /\ \A i \in 1..synced : file'[i] = file[i]
        BY <3>1, <1>5 DEF TypeOK
      <4> QED BY <4>1, <3>1, <1>1, <1>5 DEF Acknowledged
    <3> QED BY <3>1, <3>3, <3>4
  <2>2. CASE file' = file
    BY <2>2, <1>1, <1>4, FileFrame, SameLines DEF Prefixes, Acknowledged, Holding
  <2> QED BY <2>1, <2>2 DEF WriteFails, TakenBack
<1> QED BY <1>3, <1>6, <1>7, <1>8 DEF State

\* What the death of processes leaves of the invariant, whatever the disk.
LEMMA DieKeeps ==
    ASSUME IInv, NEW P \in SUBSET Writer, Die(P)
    PROVE  /\ Exclusion' /\ PendingFits' /\ Positioned' /\ ViewsTyped' /\ ViewsFit'
           /\ ReplayFits'
           /\ \A x \in Writer : /\ x \in P => /\ offset'[x] = 0 /\ durable'[x] = {}
                                            /\ pc'[x] = "idle" /\ ~dirSynced'[x]
                                /\ x \notin P => /\ offset'[x] = offset[x]
                                               /\ durable'[x] = durable[x]
                                               /\ pc'[x] = pc[x]
                                               /\ dirSynced'[x] = dirSynced[x]
                                               /\ pending'[x] = pending[x]
           /\ granted' = granted
<1> USE DEF IInv
<1>1. /\ live' = live \ P
      /\ \A x \in Writer : x \in P => /\ offset'[x] = 0 /\ durable'[x] = {}
                                    /\ volatile'[x] = {} /\ view'[x] = {} /\ maxSeq'[x] = 0
                                    /\ pc'[x] = "idle" /\ pending'[x] = NoRecord
                                    /\ ~dirSynced'[x]
      /\ \A x \in Writer : x \notin P => /\ offset'[x] = offset[x] /\ durable'[x] = durable[x]
                                       /\ volatile'[x] = volatile[x] /\ view'[x] = view[x]
                                       /\ maxSeq'[x] = maxSeq[x]
                                       /\ pc'[x] = pc[x] /\ pending'[x] = pending[x]
                                       /\ dirSynced'[x] = dirSynced[x]
      /\ lock' = IF lock \in P THEN NoWriter ELSE lock
      /\ granted' = granted
  BY DEF Die, TypeOK
<1>2. Exclusion'
  BY <1>1 DEF Exclusion, Holding
<1>3. PendingFits' /\ ReplayFits'
  BY <1>1 DEF PendingFits, ReplayFits, Writing, NoRecord
<1>4. Positioned' /\ ViewsTyped'
  BY <1>1 DEF Positioned, ViewsTyped
<1>5. ViewsFit'
  <2>1. HistoryValid({}) /\ PositionsUnique({})
    BY DEF HistoryValid, PositionsUnique, ClaimedOnce, OutcomesFollowClaims, SettledLast,
           Claims, Outcomes
  <2> SUFFICES ASSUME NEW x \in Writer
               PROVE  /\ durable'[x] \subseteq view'[x]
                      /\ HistoryValid(view'[x])
                      /\ \A r \in volatile'[x] : r.kind # "claim"
                      /\ PositionsUnique(volatile'[x])
    BY DEF ViewsFit
  <2>2. CASE x \in P
    BY <2>1, <2>2, <1>1
  <2>3. CASE x \notin P
    BY <2>3, <1>1 DEF ViewsFit
  <2> QED BY <2>2, <2>3
<1> QED BY <1>1, <1>2, <1>3, <1>4, <1>5

\* A process death takes its views along and frees the flock.
LEMMA CrashKeeps ==
    ASSUME IInv, NEW w \in Writer, Crash(w)
    PROVE  State'
<1> USE DEF IInv
<1>1. Die({w}) /\ UNCHANGED <<file, torn, synced, entry>>
  BY DEF Crash, disk
<1>2. /\ Exclusion' /\ PendingFits' /\ Positioned' /\ ViewsTyped' /\ ViewsFit'
      /\ ReplayFits' /\ granted' = granted
      /\ offset'[w] = 0 /\ durable'[w] = {} /\ pc'[w] = "idle" /\ ~dirSynced'[w]
      /\ \A x \in Writer : x # w => /\ offset'[x] = offset[x] /\ durable'[x] = durable[x]
                                   /\ pc'[x] = pc[x] /\ dirSynced'[x] = dirSynced[x]
                                   /\ pending'[x] = pending[x]
  BY <1>1, DieKeeps
<1>3. FileOrdered' /\ ReplaysAlone'
  BY <1>1, FileFrame
<1>4. Prefixes'
  <2> SUFFICES ASSUME NEW x \in Writer
               PROVE  /\ offset'[x] <= Len(file) /\ durable'[x] = Lines(offset'[x])
                      /\ pc'[x] \in {"locked", "write", "partial"} => offset'[x] = Len(file)
                      /\ pc'[x] = "sync" => /\ Len(file) = offset'[x] + 1
                                            /\ file[Len(file)] = pending'[x]
                                            /\ synced <= offset'[x]
                                            /\ \A v \in Writer : offset'[v] <= offset'[x]
    BY <1>1 DEF Prefixes, Lines
  <2>1. Len(file) \in Nat /\ \A v \in Writer : offset[v] \in Nat
    BY DEF TypeOK
  <2>2. CASE x = w
    <3>1. Lines(0) = {}
      BY DEF Lines
    <3> QED BY <2>1, <2>2, <3>1, <1>2
  <2>3. CASE x # w
    <3>1. \A v \in Writer : offset'[v] <= offset[v]
      BY <2>1, <1>2
    <3>2. pc[x] = "sync" => \A v \in Writer : offset'[v] <= offset[x]
      BY <2>1, <1>2 DEF Prefixes
    <3> QED BY <2>3, <3>2, <1>2 DEF Prefixes
  <2> QED BY <2>2, <2>3
<1>5. TornAside' /\ Acknowledged'
  BY <1>1, <1>2 DEF TornAside, Acknowledged
<1> QED BY <1>2, <1>3, <1>4, <1>5 DEF State

\* A power loss cuts the file behind what was synced; nobody remembers more.
LEMMA PowerLossKeeps ==
    ASSUME IInv, PowerLoss
    PROVE  State'
<1> USE DEF IInv
<1>1. /\ Exclusion' /\ PendingFits' /\ Positioned' /\ ViewsTyped' /\ ViewsFit'
      /\ ReplayFits' /\ granted' = granted
      /\ \A x \in Writer : offset'[x] = 0 /\ durable'[x] = {} /\ pc'[x] = "idle" /\ ~dirSynced'[x]
  BY DieKeeps DEF PowerLoss
<1>2. TornAside'
  BY <1>1 DEF TornAside
<1>3. Len(file)' \in Nat => Prefixes'
  BY <1>1 DEF Prefixes, Lines
<1>4. entry' = entry
  BY DEF PowerLoss
<1>5. CASE \E n \in synced..Len(file) :
               /\ file' = SubSeq(file, 1, n)
               /\ torn' \in (IF n < Len(file) \/ torn THEN BOOLEAN ELSE {FALSE})
               /\ UNCHANGED <<synced, exists>>
  <2>1. PICK n \in synced..Len(file) : file' = SubSeq(file, 1, n) /\ synced' = synced
    BY <1>5
  <2>2. n \in Nat /\ n <= Len(file) /\ synced \in Nat /\ synced <= n
    BY DEF TypeOK
  <2>3. /\ FileOrdered' /\ ReplaysAlone' /\ Len(file') = n
        /\ \A i \in 1..n : file'[i] = file[i]
    BY <2>1, <2>2, CutKeeps
  <2>4. \A i \in 1..synced : file'[i] = file[i]
    BY <2>2, <2>3
  <2>5. Acknowledged'
    BY <2>1, <2>2, <2>3, <2>4, <1>1, <1>4 DEF Acknowledged
  <2> QED BY <2>2, <2>3, <2>5, <1>1, <1>2, <1>3 DEF State
<1>6. CASE file' = <<>> /\ synced' = 0 /\ ~entry
  <2>1. Len(file') = 0
    BY <1>6, EmptySeq
  <2>2. granted = {}
    BY <1>6 DEF Acknowledged
  <2>3. FileOrdered' /\ ReplaysAlone'
    BY <2>1 DEF FileOrdered, ReplaysAlone
  <2>4. Acknowledged'
    BY <1>1, <1>4, <1>6, <2>1, <2>2 DEF Acknowledged
  <2> QED BY <2>1, <2>3, <2>4, <1>1, <1>2, <1>3 DEF State
<1> QED BY <1>5, <1>6 DEF PowerLoss

\* A process that opens the log knows exactly the file.
LEMMA OpenKeeps ==
    ASSUME IInv, NEW w \in Writer, Open(w)
    PROVE  State'
<1> DEFINE M == Max({0} \cup {r.seq : r \in OnDisk})
<1> USE DEF IInv
<1>1. /\ lock = NoWriter /\ live' = live \cup {w}
      /\ durable' = [durable EXCEPT ![w] = OnDisk]
      /\ view' = [view EXCEPT ![w] = OnDisk]
      /\ offset' = [offset EXCEPT ![w] = Len(file)]
      /\ maxSeq' = [maxSeq EXCEPT ![w] = M]
      /\ offset \in [Writer -> Nat]
      /\ durable \in [Writer -> SUBSET (Record \cup {Corrupt})]
      /\ view \in [Writer -> SUBSET (Record \cup {Corrupt})]
      /\ maxSeq \in [Writer -> Nat]
      /\ UNCHANGED <<file, torn, synced, entry, lock, volatile, dirSynced, pc, pending, granted>>
  BY DEF Open, TypeOK, disk, callers
<1>2. \A x \in Writer : ~Holding(x) /\ ~Writing(x)
  BY <1>1, NobodyHolds
<1>3. OnDisk \in SUBSET Record /\ HistoryValid(OnDisk)
  BY OrderedIsValid
<1>4. M \in Nat /\ \A r \in OnDisk : r.seq <= M
  <2> DEFINE S == {0} \cup {r.seq : r \in OnDisk}
  <2>1. OnDisk = {file[i] : i \in (0 + 1)..Len(file)}
    BY DEF OnDisk, Lines
  <2>2. Max(S) \in Nat /\ \A y \in S : Max(S) >= y
    BY <2>1, TailMax
  <2>3. \A r \in OnDisk : r.seq \in S /\ r.seq \in Nat
    BY <1>3, RecordType
  <2> HIDE DEF S
  <2>4. \A r \in OnDisk : r.seq <= Max(S)
    BY <2>2, <2>3
  <2> QED BY <2>2, <2>4 DEF S
<1> HIDE DEF M
<1>5. FileOrdered' /\ ReplaysAlone'
  BY <1>1, FileFrame
<1>6. Prefixes'
  <2> SUFFICES ASSUME NEW x \in Writer
               PROVE  offset'[x] <= Len(file) /\ durable'[x] = Lines(offset'[x])
    BY <1>1, <1>2 DEF Prefixes, Lines, Holding
  <2>1. CASE x = w
    BY <2>1, <1>1 DEF OnDisk, TypeOK
  <2>2. CASE x # w
    BY <2>2, <1>1 DEF Prefixes
  <2> QED BY <2>1, <2>2
<1>7. Exclusion' /\ TornAside' /\ Acknowledged'
  BY <1>1 DEF Exclusion, Holding, TornAside, Acknowledged
<1>8. PendingFits' /\ ReplayFits'
  BY <1>1, <1>2 DEF PendingFits, ReplayFits, Writing
<1>9. Positioned' /\ ViewsTyped' /\ ViewsFit'
  <2>1. volatile[w] = {}
    BY DEF Open, Attachable, Forgotten
  <2> QED BY <1>1, <1>3, <1>4, <2>1 DEF Positioned, ViewsTyped, ViewsFit
<1> QED BY <1>5, <1>6, <1>7, <1>8, <1>9 DEF State

\* A step that changes none of these variables disturbs nothing.
LEMMA UnchangedKeeps ==
    ASSUME IInv, UNCHANGED <<file, torn, synced, entry, lock, live, durable, offset, volatile, view,
                             maxSeq, dirSynced, pc, pending, granted>>
    PROVE  State'
<1> USE DEF IInv
<1>1. FileOrdered' /\ ReplaysAlone'
  BY FileFrame
<1>2. Prefixes'
  BY SameLines DEF Prefixes
<1>3. Exclusion' /\ TornAside' /\ PendingFits' /\ Acknowledged' /\ ReplayFits'
  BY DEF Exclusion, Holding, TornAside, PendingFits, Writing, Acknowledged, ReplayFits
<1>4. Positioned' /\ ViewsTyped' /\ ViewsFit'
  BY DEF Positioned, ViewsTyped, ViewsFit
<1> QED BY <1>1, <1>2, <1>3, <1>4 DEF State

\* Only a live process keeps records in memory.
LEMMA ForgottenStep ==
    ASSUME IInv, [Next]_vars
    PROVE  Forgotten'
<1> USE DEF IInv, disk, object, append, callers, bounds
<1>1. ASSUME NEW w \in Writer, w \in live, live' = live,
             \A x \in Writer : x # w => volatile'[x] = volatile[x]
      PROVE  Forgotten'
  BY <1>1 DEF Forgotten
<1>2. ASSUME live' = live, volatile' = volatile
      PROVE  Forgotten'
  BY <1>2 DEF Forgotten
<1>3. ASSUME NEW w \in Writer, NEW s \in Sight, CallObserve(w, s)
      PROVE  Forgotten'
  BY <1>1, <1>3 DEF CallObserve, AgentReady, Ready, AppendVolatile, KeepVolatile, TypeOK
<1>4. ASSUME NEW w \in Writer, AcquireFails(w)
      PROVE  Forgotten'
  BY <1>1, <1>4 DEF AcquireFails, AppendVolatile, KeepVolatile, Exclusion, TypeOK
<1>5. ASSUME NEW w \in Writer, WriteFails(w)
      PROVE  Forgotten'
  BY <1>1, <1>5 DEF WriteFails, KeepVolatile, Exclusion, TypeOK
<1>6. ASSUME NEW P \in SUBSET Writer, Die(P)
      PROVE  Forgotten'
  BY <1>6 DEF Die, Forgotten
<1>7. ASSUME NEW w \in Writer, Open(w)
      PROVE  Forgotten'
  BY <1>7 DEF Open, Forgotten
<1>8. ASSUME NEW w \in Writer,
             \/ \E e \in Effect : CallClaim(w, e)
             \/ \E e \in Effect, x \in Reports : CallOutcome(w, e, x) \/ CallSettleJob(w, e, x)
             \/ CallRecover(w) \/ Acquire(w) \/ Allocate(w) \/ Reject(w) \/ WriteLine(w)
             \/ WritePart(w) \/ Sync(w) \/ Refresh(w) \/ RefreshFails(w)
      PROVE  Forgotten'
  BY <1>2, <1>8 DEF CallClaim, CallOutcome, CallSettleJob, CallRecover, Acquire, Allocate,
                    Reject, WriteLine, WritePart, Sync, Refresh, RefreshFails
<1>9. CASE UNCHANGED vars
  BY <1>2, <1>9 DEF vars
<1> QED BY <1>3, <1>4, <1>5, <1>6, <1>7, <1>8, <1>9
        DEF Next, Call, AppendStep, Failure, Crash, PowerLoss

\* The initial state satisfies the invariant.
LEMMA InitInvariant == Init => IInv
<1> SUFFICES ASSUME Init PROVE IInv
  OBVIOUS
<1>1. Len(file) = 0 /\ file \in Seq(Record \cup {Corrupt})
  BY EmptySeq DEF Init
<1>2. HistoryValid({}) /\ PositionsUnique({})
  BY DEF HistoryValid, PositionsUnique, ClaimedOnce, OutcomesFollowClaims, SettledLast,
         Claims, Outcomes
<1>3. TypeOK
  BY <1>1 DEF Init, TypeOK, Steps
<1>4. Exclusion /\ FileOrdered /\ TornAside /\ PendingFits /\ Positioned /\ ViewsTyped
      /\ Forgotten /\ Acknowledged /\ ReplaysAlone /\ ReplayFits
  BY <1>1 DEF Init, Exclusion, Holding, Writing, FileOrdered, TornAside, PendingFits,
              Positioned, ViewsTyped, Forgotten, Acknowledged, ReplaysAlone, ReplayFits, NoRecord
<1>5. Prefixes
  BY <1>1 DEF Init, Prefixes, Lines
<1>6. ViewsFit
  BY <1>2 DEF Init, ViewsFit
<1> QED BY <1>3, <1>4, <1>5, <1>6 DEF IInv

\* Every step keeps it.
LEMMA NextInvariant == IInv /\ [Next]_vars => IInv'
<1> SUFFICES ASSUME IInv, [Next]_vars PROVE IInv'
  OBVIOUS
<1>1. TypeOK'
  BY TypeStep DEF IInv
<1>2. Forgotten'
  BY ForgottenStep
<1>3. ASSUME NEW w \in Writer, Call(w) \/ CallRecover(w)
      PROVE  State'
  BY <1>3, CallsBegin
<1>4. ASSUME NEW w \in Writer, AppendStep(w)
      PROVE  State'
  BY <1>4, AcquireKeeps, AllocateKeeps, RejectKeeps, WriteLineKeeps, WritePartKeeps, SyncKeeps
  DEF AppendStep
<1>5. ASSUME NEW w \in Writer, RefreshFails(w)
      PROVE  State'
  <2>1. UNCHANGED <<file, torn, synced, entry, lock, live, durable, offset, volatile, view,
                    maxSeq, dirSynced, pc, pending, granted>>
    BY <1>5 DEF RefreshFails, disk, append, callers
  <2> QED BY <2>1, UnchangedKeeps
<1>6. ASSUME NEW w \in Writer, Refresh(w) \/ Failure(w) \/ Open(w)
      PROVE  State'
  BY <1>5, <1>6, RefreshKeeps, AcquireFailsKeeps, WriteFailsKeeps, CrashKeeps, OpenKeeps
  DEF Failure
<1>7. ASSUME PowerLoss PROVE State'
  BY <1>7, PowerLossKeeps
<1>8. ASSUME UNCHANGED vars PROVE State'
  BY <1>8, UnchangedKeeps DEF vars, disk, object, append, callers
<1>9. State'
  BY <1>3, <1>4, <1>6, <1>7, <1>8 DEF Next
<1> QED BY <1>1, <1>2, <1>9 DEF State, IInv

\* The inductive invariant holds throughout, for any processes, effects,
\* sights and bounds.
THEOREM Invariant == Spec => []IInv
<1>1. Init => IInv
  BY InitInvariant
<1>2. IInv /\ [Next]_vars => IInv'
  BY NextInvariant
<1> QED BY <1>1, <1>2, PTL DEF Spec
=============================================================================
