------------------------- MODULE EffectLogTheorems -------------------------
(***************************************************************************)
(* What the inductive invariant of EffectLogProofs says of the effect log: *)
(* its properties, and that it implements the lifecycle of effects.        *)
(***************************************************************************)
EXTENDS EffectLogProofs

\* Every variable stays in its domain.
THEOREM TypeCorrect == Spec => []TypeOK
<1>1. IInv => TypeOK
  BY DEF IInv
<1> QED BY <1>1, Invariant, PTL

\* The file is a valid history in the order of its lines, however the appends
\* of its writers, their failures and the crashes interleave.
THEOREM FileCorrect == Spec => []FileIsHistory
<1>1. ASSUME IInv PROVE FileIsHistory
  <2>1. OnDisk \in SUBSET Record /\ HistoryValid(OnDisk)
    BY <1>1, OrderedIsValid DEF IInv
  <2>2. Corrupt \notin OnDisk
    BY <2>1, RecordType
  <2> QED BY <1>1, <2>1, <2>2 DEF IInv, FileOrdered, FileIsHistory
<1> QED BY <1>1, Invariant, PTL

\* No process ever sees a history the constructor would reject.
THEOREM ViewsCorrect == Spec => []ViewsAreHistories
<1>1. ASSUME IInv PROVE ViewsAreHistories
  <2>1. live \in SUBSET Writer
    BY <1>1 DEF IInv, TypeOK
  <2> QED BY <1>1, <2>1 DEF IInv, ViewsFit, ViewsAreHistories
<1> QED BY <1>1, Invariant, PTL

\* No backend is invoked whose claim a crash or a power loss could undo.
THEOREM ClaimsDurable == Spec => []GrantedClaimsSurvive
<1>1. ASSUME IInv PROVE GrantedClaimsSurvive
  <2> SUFFICES ASSUME NEW e \in granted
               PROVE  entry /\ \E i \in 1..synced : i <= Len(file) /\ file[i].kind = "claim"
                                                       /\ file[i].effect = e
    BY DEF GrantedClaimsSurvive
  <2>1. PICK i \in 1..synced : file[i].kind = "claim" /\ file[i].effect = e
    BY <1>1 DEF IInv, Acknowledged
  <2>2. synced \in Nat /\ Len(file) \in Nat /\ synced <= Len(file)
    BY <1>1 DEF IInv, Acknowledged, TypeOK
  <2>3. entry
    BY <1>1, <2>1, <2>2 DEF IInv, Acknowledged
  <2> QED BY <2>1, <2>2, <2>3
<1> QED BY <1>1, Invariant, PTL

\* Whatever a process merged stays the prefix of the file it was, and what
\* follows it is always readable.
THEOREM MergedStable == Spec => []MergedPrefixStable
<1>1. ASSUME IInv PROVE MergedPrefixStable
  <2>1. live \in SUBSET Writer
    BY <1>1 DEF IInv, TypeOK
  <2> QED BY <1>1, <2>1, TailAccepted DEF IInv, Prefixes, MergedPrefixStable
<1> QED BY <1>1, Invariant, PTL

\* A recovered outcome is the only outcome of its effect in the file.
THEOREM RecoveryAlone == Spec => []RecoveryNeverOverlapsReport
<1>1. ASSUME IInv PROVE RecoveryNeverOverlapsReport
  <2>1. Len(file) \in Nat /\ \A i \in 1..Len(file) : file[i] \in Record
    BY <1>1 DEF IInv, TypeOK, FileOrdered
  <2> SUFFICES ASSUME NEW i \in 1..Len(file), NEW j \in 1..Len(file),
                      file[i].kind = "outcome", file[j].kind = "outcome",
                      file[i].effect = file[j].effect, file[i].replayed
               PROVE  file[i] = file[j]
    BY <2>1 DEF RecoveryNeverOverlapsReport, OnDisk, Lines, Outcomes
  <2>2. ASSUME j < i PROVE FALSE
    <3>1. j \in 1..(i - 1)
      BY <2>1, <2>2
    <3>2. file[j] \in OutcomesOf(Lines(i - 1), file[i].effect)
      BY <3>1 DEF OutcomesOf, Outcomes, Lines
    <3> QED BY <1>1, <3>2 DEF IInv, ReplaysAlone, HasOutcome
  <2>3. ASSUME i < j PROVE FALSE
    <3>1. i \in 1..(j - 1)
      BY <2>1, <2>3
    <3>2. file[i] \in OutcomesOf(Lines(j - 1), file[j].effect) /\ file[i].execution # Running
      BY <1>1, <3>1 DEF IInv, ReplaysAlone, OutcomesOf, Outcomes, Lines, Interrupted, Running
    <3> QED BY <1>1, <3>2 DEF IInv, FileOrdered, Accepts, IsSettled
  <2> QED BY <2>1, <2>2, <2>3
<1> QED BY <1>1, Invariant, PTL

\* Every step that leaves an append, whoever's and however, frees its flock.
LEMMA LockKept ==
    ASSUME IInv, LockHeldInsideAppend, [Next]_vars
    PROVE  LockHeldInsideAppend'
<1> USE DEF LockHeldInsideAppend, disk, object, append, callers, bounds
<1>1. pc \in [Writer -> Steps] /\ lock \in Writer \cup {NoWriter} /\ NoWriter \notin Writer
  BY EffectLogConstants DEF IInv, TypeOK
<1>2. ASSUME NEW w \in Writer, lock # w, live \subseteq live', lock' = lock,
             \A x \in Writer \ {w} : pc'[x] = pc[x]
      PROVE  LockHeldInsideAppend'
  BY <1>1, <1>2
<1>3. ASSUME NEW w \in Writer, Call(w) \/ CallRecover(w) \/ Open(w) PROVE LockHeldInsideAppend'
  <2>1. lock' = lock /\ live \subseteq live'
    BY <1>3 DEF Call, CallClaim, CallOutcome, CallSettleJob, CallObserve, CallRecover, Open
  <2>2. pc' = pc \/ (pc[w] = "idle" /\ pc' = [pc EXCEPT ![w] = "waiting"])
    BY <1>3 DEF Call, CallClaim, CallOutcome, CallSettleJob, CallObserve, CallRecover, Begin,
                AgentReady, Ready, Open
  <2>3. CASE pc' = pc
    BY <2>1, <2>3
  <2>4. CASE pc[w] = "idle" /\ pc' = [pc EXCEPT ![w] = "waiting"]
    <3>1. lock # w /\ \A x \in Writer \ {w} : pc'[x] = pc[x]
      BY <1>1, <2>4
    <3> QED BY <1>2, <2>1, <3>1
  <2> QED BY <2>2, <2>3, <2>4
<1>4. ASSUME NEW w \in Writer, Release(w), live' = live PROVE LockHeldInsideAppend'
  BY <1>1, <1>4 DEF Release
<1>5. ASSUME NEW w \in Writer,
             Reject(w) \/ Sync(w) \/ AcquireFails(w) \/ WriteFails(w)
      PROVE  LockHeldInsideAppend'
  BY <1>4, <1>5 DEF Reject, Sync, AcquireFails, WriteFails
<1>6. ASSUME NEW w \in Writer, Acquire(w) \/ Allocate(w) \/ WriteLine(w) \/ WritePart(w)
      PROVE  LockHeldInsideAppend'
  <2>1. pc[w] # "idle"
    BY <1>6 DEF Acquire, Allocate, WriteLine, WritePart
  <2>2. w \in live
    BY <2>1 DEF IInv, Exclusion
  <2>3. live' = live /\ lock' \in {lock, w} /\ \E p \in {"locked", "write", "partial", "sync"} :
                                                    pc' = [pc EXCEPT ![w] = p]
    BY <1>6 DEF Acquire, Allocate, WriteLine, WritePart
  <2> QED BY <1>1, <2>2, <2>3
<1>7. ASSUME NEW w \in Writer, Refresh(w) \/ RefreshFails(w) PROVE LockHeldInsideAppend'
  BY <1>7 DEF Refresh, RefreshFails
<1>8. ASSUME NEW P \in SUBSET Writer, Die(P) PROVE LockHeldInsideAppend'
  BY <1>1, <1>8 DEF Die
<1>9. CASE UNCHANGED vars
  BY <1>9 DEF vars
<1> QED BY <1>3, <1>5, <1>6, <1>7, <1>8, <1>9 DEF Next, AppendStep, Failure, Crash, PowerLoss

\* No flock outlives its append, so whoever waits for one waits for a process
\* that is still at work.
THEOREM LockFreed == Spec => []LockHeldInsideAppend
<1>1. Init => LockHeldInsideAppend
  BY DEF Init, LockHeldInsideAppend
<1> QED BY <1>1, LockKept, Invariant, PTL DEF Spec

-----------------------------------------------------------------------------
(***************************************************************************)
(* What is durable only grows.                                             *)
(***************************************************************************)

\* The lines an fsync has covered stay, line for line.
Kept ==
    /\ synced \in Nat /\ synced' \in Nat /\ synced' >= synced
    /\ Len(file') >= synced
    /\ \A i \in 1..synced : file'[i] = file[i]

\* Every step keeps them: before the directory entry is durable there are none.
LEMMA DurableKept ==
    ASSUME IInv, [Next]_vars
    PROVE  Kept
<1>1. /\ Len(file) \in Nat /\ synced \in Nat
      /\ synced <= Len(file) /\ (~entry => synced = 0)
  BY DEF IInv, TypeOK, Acknowledged
<1>2. CASE UNCHANGED <<file, synced>>
  BY <1>1, <1>2 DEF Kept
<1>3. ASSUME NEW w \in Writer, WriteLine(w) PROVE Kept
  <2>1. PICK r : file' = Append(file, r) /\ r \in Record \cup {Corrupt}
    BY <1>3 DEF WriteLine, IInv, Exclusion
  <2>2. synced' = synced
    BY <1>3 DEF WriteLine
  <2> QED BY <1>1, <2>1, <2>2 DEF Kept
<1>4. ASSUME NEW w \in Writer, Sync(w) PROVE Kept
  BY <1>1, <1>4 DEF Sync, Flush, Kept
<1>5. ASSUME NEW w \in Writer, WriteFails(w) PROVE Kept
  <2>1. offset[w] \in Nat /\ synced <= offset[w] /\ offset[w] <= Len(file)
    BY <1>1, <1>5 DEF WriteFails, IInv, TypeOK, Prefixes
  <2>2. synced' = synced /\ file' \in {file, SubSeq(file, 1, offset[w])}
    BY <1>5 DEF WriteFails, TakenBack
  <2>3. CASE file' = SubSeq(file, 1, offset[w])
    <3>1. Len(file') = offset[w] /\ \A i \in 1..offset[w] : file'[i] = file[i]
      BY <2>1, <2>3, CutType DEF IInv
    <3> QED BY <1>1, <2>1, <2>2, <3>1 DEF Kept
  <2> QED BY <1>1, <2>2, <2>3 DEF Kept
<1>6. ASSUME PowerLoss PROVE Kept
  <2>1. CASE \E n \in synced..Len(file) : file' = SubSeq(file, 1, n) /\ UNCHANGED synced
    <3>1. PICK n \in synced..Len(file) : file' = SubSeq(file, 1, n) /\ synced' = synced
      BY <2>1
    <3>2. Len(file') = n /\ \A i \in 1..n : file'[i] = file[i]
      BY <1>1, <3>1, CutType DEF IInv
    <3> QED BY <1>1, <3>1, <3>2 DEF Kept
  <2>2. CASE ~entry /\ file' = <<>> /\ synced' = 0
    BY <1>1, <2>2 DEF Kept
  <2> QED BY <1>6, <2>1, <2>2 DEF PowerLoss
<1>7. ASSUME NEW w \in Writer,
             Call(w) \/ CallRecover(w) \/ Acquire(w) \/ Allocate(w) \/ Reject(w) \/ WritePart(w)
             \/ AcquireFails(w) \/ RefreshFails(w) \/ Crash(w) \/ Refresh(w) \/ Open(w)
      PROVE  UNCHANGED <<file, synced>>
  BY <1>7 DEF Call, CallClaim, CallOutcome, CallSettleJob, CallObserve, CallRecover, Acquire,
              Allocate, Reject, WritePart, AcquireFails, RefreshFails, Crash, Refresh, Open, disk
<1>8. CASE UNCHANGED vars
  BY <1>2, <1>8 DEF vars, disk
<1> QED BY <1>2, <1>3, <1>4, <1>5, <1>6, <1>7, <1>8 DEF Next, AppendStep, Failure

\* Nothing acknowledged is ever rewritten or removed.
THEOREM NothingRewritten == Spec => AppendOnly
<1>1. IInv /\ [Next]_vars =>
        [entry => /\ synced' >= synced
                  /\ Len(file') >= synced
                  /\ \A i \in 1..synced : file'[i] = file[i]]_vars
  BY DurableKept DEF Kept
<1> QED BY <1>1, Invariant, PTL DEF Spec, AppendOnly

-----------------------------------------------------------------------------
(***************************************************************************)
(* The log implements the lifecycle of effects.                            *)
(***************************************************************************)

\* More records never take a status back.
LEMMA StatusGrows ==
    ASSUME NEW S, NEW T, S \subseteq T, NEW e \in Effect
    PROVE  /\ StatusIn(S, e) \in Lifecycle!Status
           /\ Lifecycle!Stage[StatusIn(S, e)] <= Lifecycle!Stage[StatusIn(T, e)]
<1>1. /\ IsClaimed(S, e) => IsClaimed(T, e)
      /\ HasOutcome(S, e) => HasOutcome(T, e)
      /\ IsSettled(S, e) => IsSettled(T, e)
  BY DEF IsClaimed, HasOutcome, IsSettled, ClaimsOf, OutcomesOf, Claims, Outcomes
<1>2. \A U : IsSettled(U, e) => HasOutcome(U, e)
  BY DEF IsSettled, HasOutcome
<1>3. \A U : StatusIn(U, e) \in Lifecycle!Status
  BY DEF StatusIn, Lifecycle!Status
<1>4. /\ Lifecycle!Stage["unclaimed"] = 0 /\ Lifecycle!Stage["claimed"] = 1
      /\ Lifecycle!Stage["running"] = 2 /\ Lifecycle!Stage["settled"] = 3
  BY DEF Lifecycle!Stage, Lifecycle!Status
<1>5. Lifecycle!Stage[StatusIn(S, e)] <= Lifecycle!Stage[StatusIn(T, e)]
  BY <1>1, <1>2, <1>4 DEF StatusIn
<1> QED BY <1>3, <1>5

\* Only the acknowledgement of a claim grants anything.
LEMMA GrantedBySync ==
    ASSUME [Next]_vars
    PROVE  \/ UNCHANGED granted
           \/ \E w \in Writer : Sync(w)
<1>1. ASSUME NEW w \in Writer,
             Call(w) \/ CallRecover(w) \/ Acquire(w) \/ Allocate(w) \/ Reject(w) \/ WriteLine(w)
             \/ WritePart(w) \/ Refresh(w) \/ Failure(w) \/ Open(w)
      PROVE  UNCHANGED granted
  BY <1>1 DEF Call, CallClaim, CallOutcome, CallSettleJob, CallObserve, CallRecover, Acquire,
              Allocate, Reject, WriteLine, WritePart, Failure, AcquireFails, WriteFails,
              RefreshFails, Crash, Die, Refresh, Open, callers
<1>2. ASSUME PowerLoss PROVE UNCHANGED granted
  BY <1>2 DEF PowerLoss, Die
<1>3. ASSUME UNCHANGED vars PROVE UNCHANGED granted
  BY <1>3 DEF vars, callers
<1> QED BY <1>1, <1>2, <1>3 DEF Next, AppendStep

\* The line acknowledged last is the first to speak of the effect it claims.
LEMMA ClaimIsFirst ==
    ASSUME IInv, NEW w \in Writer, pc[w] = "sync", pending[w].kind = "claim"
    PROVE  /\ pending[w].effect \in Effect
           /\ ~IsClaimed(Lines(synced), pending[w].effect)
           /\ StatusIn(OnDisk, pending[w].effect) = "claimed"
<1> DEFINE n == Len(file)
           e == pending[w].effect
<1>1. /\ n \in Nat /\ n >= 1 /\ synced \in Nat /\ synced <= n - 1 /\ file[n] = pending[w]
  BY DEF IInv, Prefixes, TypeOK
<1>2. file[n] \in Record /\ Accepts(Lines(n - 1), file[n])
  BY <1>1 DEF IInv, FileOrdered
<1>2a. ASSUME NEW i \in 1..n PROVE file[i] \in Record /\ file[i].seq <= file[n].seq
  <2>1. file[i] \in Record /\ file[i].seq \in Nat
    BY RecordType DEF IInv, FileOrdered
  <2>2. CASE i < n
    <3>1. i \in 1..Len(file) /\ n \in 1..Len(file) /\ file[n].seq \in Nat
      BY <1>1, <1>2, RecordType
    <3>2. file[i].seq < file[n].seq
      BY <3>1, <2>2 DEF IInv, FileOrdered
    <3> QED BY <2>1, <3>1, <3>2
  <2>3. CASE i = n
    BY <2>1, <2>3
  <2> QED BY <1>1, <2>2, <2>3
<1>3. e \in Effect
  BY <1>1, <1>2, RecordType
<1>4. ~IsClaimed(Lines(n - 1), e)
  BY <1>1, <1>2 DEF Accepts
<1>5. ~IsClaimed(Lines(synced), e)
  <2>1. Lines(synced) \subseteq Lines(n - 1)
    BY <1>1 DEF Lines
  <2> QED BY <1>4, <2>1 DEF IsClaimed, ClaimsOf, Claims
<1>6. IsClaimed(OnDisk, e)
  BY <1>1 DEF IsClaimed, ClaimsOf, Claims, OnDisk, Lines
<1>7. ~HasOutcome(OnDisk, e)
  <2> SUFFICES ASSUME NEW o \in OutcomesOf(OnDisk, e) PROVE FALSE
    BY DEF HasOutcome
  <2>1. PICK i \in 1..n : o = file[i]
    BY DEF OutcomesOf, Outcomes, OnDisk, Lines
  <2>2. OutcomesFollowClaims(OnDisk) /\ ClaimedOnce(OnDisk)
    BY OrderedIsValid DEF IInv, HistoryValid
  <2>3. PICK c \in ClaimsOf(OnDisk, e) : c.seq < o.seq
    BY <2>2 DEF OutcomesFollowClaims, OutcomesOf
  <2>4. c = file[n]
    BY <1>1, <2>2, <2>3 DEF ClaimedOnce, ClaimsOf, Claims, OnDisk, Lines
  <2>5. o.seq \in Nat /\ file[n].seq \in Nat /\ o.seq <= file[n].seq
    BY <1>1, <1>2a, <2>1, RecordType
  <2> QED BY <2>3, <2>4, <2>5
<1>8. ~IsSettled(OnDisk, e)
  BY <1>7 DEF IsSettled, HasOutcome
<1> QED BY <1>3, <1>5, <1>6, <1>7, <1>8 DEF StatusIn

\* The log is a lifecycle: the durable status of every effect only advances,
\* and its backend is invoked at most once, when its claim becomes durable.
THEOREM Refinement == Spec => ImplementsLifecycle
<1>1. Init => Lifecycle!Init
  <2> SUFFICES ASSUME Init PROVE Lifecycle!Init
    OBVIOUS
  <2>1. Lines(synced) = {}
    BY DEF Init, Lines
  <2>2. \A e \in Effect : StatusIn(Lines(synced), e) = "unclaimed"
    BY <2>1 DEF StatusIn, IsClaimed, ClaimsOf, Claims
  <2> QED BY <2>2 DEF Init, Lifecycle!Init
<1>2. ASSUME IInv, [Next]_vars PROVE [Lifecycle!Next]_(Lifecycle!vars)
  <2>1. Kept
    BY <1>2, DurableKept
  <2>2. Lines(synced) \subseteq Lines(synced)'
    BY <2>1 DEF Kept, Lines
  <2>3. Lifecycle!Advance
    BY <2>2, StatusGrows DEF Lifecycle!Advance
  <2>4. CASE UNCHANGED granted
    BY <2>3, <2>4 DEF Lifecycle!Next, Lifecycle!Settle
  <2>5. ASSUME NEW w \in Writer, Sync(w), pending[w].kind = "claim"
        PROVE  Lifecycle!Invoke(pending[w].effect) /\ pending[w].effect \in Effect
    <3>1. /\ pending[w].effect \in Effect
          /\ ~IsClaimed(Lines(synced), pending[w].effect)
          /\ StatusIn(OnDisk, pending[w].effect) = "claimed"
      BY <1>2, <2>5, ClaimIsFirst DEF Sync
    <3>2. Lines(synced)' = OnDisk
      BY <2>5 DEF Sync, Flush, Lines, OnDisk
    <3>3. granted' = granted \cup {pending[w].effect}
      BY <2>5 DEF Sync
    <3>4. StatusIn(Lines(synced), pending[w].effect) = "unclaimed"
      BY <3>1 DEF StatusIn
    <3>5. StatusIn(Lines(synced)', pending[w].effect) = "claimed"
      BY <3>1, <3>2
    <3> QED BY <2>3, <3>1, <3>3, <3>4, <3>5 DEF Lifecycle!Invoke
  <2>6. ASSUME NEW w \in Writer, Sync(w), pending[w].kind # "claim"
        PROVE  UNCHANGED granted
    BY <2>6 DEF Sync
  <2> QED BY <1>2, <2>4, <2>5, <2>6, GrantedBySync DEF Lifecycle!Next
<1> QED BY <1>1, <1>2, Invariant, PTL DEF Spec, ImplementsLifecycle, Lifecycle!Spec

-----------------------------------------------------------------------------
(***************************************************************************)
(* Recovery and the owners of effects.                                     *)
(***************************************************************************)

\* Steps that neither claim nor begin a recovery, in which nobody dies and
\* which add nothing to the file that was not pending.
LEMMA OwnersFrame ==
    ASSUME IInv, OwnersInv, UNCHANGED owner, live \subseteq live',
           \A i \in 1..Len(file') : Owned(file'[i]),
           \A w \in Writer : todo'[w] \subseteq todo[w],
           \A w \in Writer : \/ pending'[w] \in {pending[w], NoRecord}
                             \/ pending[w] \in Record /\ pending'[w] = At(pending[w], maxSeq[w] + 1)
    PROVE  OwnersInv'
<1>1. OwnersLive'
  BY DEF OwnersInv, OwnersLive
<1>2. ASSUME NEW w \in Writer
      PROVE  /\ Owned(pending[w])'
             /\ (pending[w].kind = "outcome" /\ pending[w].replayed => Foreign(w, pending[w].effect))'
  <2>1. maxSeq[w] + 1 \in Nat
    BY DEF IInv, TypeOK
  <2>2. CASE pending'[w] = pending[w]
    BY <2>2 DEF OwnersInv, ClaimsOwned, RecoversOthers, Owned, Foreign
  <2>3. CASE pending'[w] = NoRecord
    BY <2>3 DEF NoRecord, Owned
  <2>4. CASE pending[w] \in Record /\ pending'[w] = At(pending[w], maxSeq[w] + 1)
    <3>1. /\ pending'[w].kind = pending[w].kind
          /\ pending[w].kind # "observation" => pending'[w].effect = pending[w].effect
          /\ pending[w].kind = "outcome" => pending'[w].replayed = pending[w].replayed
      BY <2>1, <2>4, AtType, RecordType
    <3> QED BY <3>1 DEF OwnersInv, ClaimsOwned, RecoversOthers, Owned, Foreign
  <2> QED BY <2>2, <2>3, <2>4
<1>3. ClaimsOwned'
  BY <1>2 DEF ClaimsOwned, Owned
<1>4. \A w \in Writer : \A e \in todo'[w] : Foreign(w, e)'
  BY DEF OwnersInv, RecoversOthers, Foreign
<1>5. RecoversOthers'
  BY <1>2, <1>4 DEF RecoversOthers
<1> QED BY <1>1, <1>3, <1>5 DEF OwnersInv

\* A process that claims becomes the owner; one that recovers an effect had it
\* on its list.
LEMMA OwnersBegin ==
    ASSUME IInv, OwnersInv, NEW w \in Writer, Call(w) \/ CallRecover(w)
    PROVE  OwnersInv'
<1> USE DEF disk, object, append, callers
<1>1. \A i \in 1..Len(file) : Owned(file[i])
  BY DEF OwnersInv, ClaimsOwned
<1>2. ASSUME NEW e \in Effect, CallClaim(w, e) PROVE OwnersInv'
  <2>1. /\ w \in live /\ owner[e] \in {NoWriter, w} /\ owner' = [owner EXCEPT ![e] = w]
        /\ pending' = [pending EXCEPT ![w] = Claim(e, 0)]
        /\ UNCHANGED <<file, live, todo>>
    BY <1>2 DEF CallClaim, AgentReady, Ready, Begin
  <2>2. /\ owner \in [Effect -> Writer \cup {NoWriter, Gone}] /\ w # NoWriter
        /\ pending \in [Writer -> Record \cup {NoRecord}] /\ todo \in [Writer -> SUBSET Effect]
        /\ \A i \in 1..Len(file) : file[i] \in Record
    BY EffectLogConstants DEF IInv, TypeOK, FileOrdered
  <2>3. \A f \in Effect : owner'[f] = IF f = e THEN w ELSE owner[f]
    BY <2>1, <2>2
  <2>4. Claim(e, 0).kind = "claim" /\ Claim(e, 0).effect = e
    BY DEF Claim
  <2>5. OwnersLive'
    BY <2>1, <2>3 DEF OwnersInv, OwnersLive
  <2>6. ASSUME NEW r \in Record, Owned(r) PROVE Owned(r)'
    BY <2>2, <2>3, <2>6, RecordType DEF Owned
  <2>7. ASSUME NEW x \in Writer, NEW f \in Effect, Foreign(x, f) PROVE Foreign(x, f)'
    <3>1. CASE f = e
      BY <2>1, <2>2, <2>3, <2>7, <3>1 DEF Foreign
    <3>2. CASE f # e
      BY <2>3, <2>7, <3>2 DEF Foreign
    <3> QED BY <3>1, <3>2
  <2>8. ClaimsOwned'
    <3>1. \A i \in 1..Len(file) : Owned(file[i])'
      BY <1>1, <2>2, <2>6, <2>1
    <3>2. ASSUME NEW x \in Writer PROVE Owned(pending[x])'
      <4>1. CASE x = w
        BY <2>1, <2>2, <2>3, <2>4, <4>1 DEF Owned
      <4>2. CASE x # w
        <5>1. pending'[x] = pending[x]
          BY <2>1, <4>2
        <5>2. CASE pending[x] \in Record
          BY <2>6, <5>1, <5>2 DEF OwnersInv, ClaimsOwned, Owned
        <5>3. CASE pending[x] = NoRecord
          BY <5>1, <5>3 DEF Owned, NoRecord
        <5> QED BY <2>2, <5>2, <5>3
      <4> QED BY <4>1, <4>2
    <3> QED BY <2>1, <3>1, <3>2 DEF ClaimsOwned, Owned
  <2>9. RecoversOthers'
    <3>1. \A x \in Writer : \A f \in todo'[x] : Foreign(x, f)'
      BY <2>1, <2>2, <2>7 DEF OwnersInv, RecoversOthers
    <3>2. ASSUME NEW x \in Writer, pending'[x].kind = "outcome", pending'[x].replayed
          PROVE  Foreign(x, pending[x].effect)'
      <4>1. pending'[x] = pending[x] /\ pending[x] \in Record
        BY <2>1, <2>2, <2>4, <3>2 DEF NoRecord
      <4>2. pending[x].effect \in Effect /\ Foreign(x, pending[x].effect)
        BY <3>2, <4>1, RecordType DEF OwnersInv, RecoversOthers
      <4> QED BY <2>7, <4>1, <4>2 DEF Foreign
    <3> QED BY <3>1, <3>2 DEF RecoversOthers
  <2> QED BY <2>5, <2>8, <2>9 DEF OwnersInv
<1>3. ASSUME NEW r, ~(r.kind = "claim"), pending' = [pending EXCEPT ![w] = r],
             r.kind = "outcome" /\ r.replayed => Foreign(w, r.effect),
             UNCHANGED <<file, live, owner>>, \A x \in Writer : todo'[x] \subseteq todo[x]
      PROVE  OwnersInv'
  <2>1. pending \in [Writer -> Record \cup {NoRecord}]
    BY DEF IInv, TypeOK
  <2>2. \A x \in Writer : pending'[x] = IF x = w THEN r ELSE pending[x]
    BY <1>3, <2>1
  <2>3. OwnersLive'
    BY <1>3 DEF OwnersInv, OwnersLive
  <2>4. ClaimsOwned'
    BY <1>3, <2>2 DEF OwnersInv, ClaimsOwned, Owned
  <2>5. RecoversOthers'
    BY <1>3, <2>2 DEF OwnersInv, RecoversOthers, Foreign
  <2> QED BY <2>3, <2>4, <2>5 DEF OwnersInv
<1>4. ASSUME NEW e \in Effect, NEW x \in Reports, CallOutcome(w, e, x) \/ CallSettleJob(w, e, x)
      PROVE  OwnersInv'
  BY <1>3, <1>4 DEF CallOutcome, CallSettleJob, Begin, Outcome
<1>5. ASSUME NEW s \in Sight, CallObserve(w, s) PROVE OwnersInv'
  <2>1. CASE Begin(w, Observation(s, 0)) /\ UNCHANGED object
    BY <1>3, <1>5, <2>1 DEF CallObserve, Begin, Observation
  <2>2. CASE UNCHANGED <<pc, pending, live, durable, offset, dirSynced, degraded>>
    BY <1>1, <1>5, <2>2, OwnersFrame DEF CallObserve, Owned
  <2> QED BY <1>5, <2>1, <2>2 DEF CallObserve
<1>6. ASSUME CallRecover(w) PROVE OwnersInv'
  <2>1. PICK e \in todo[w] : /\ todo' = [todo EXCEPT ![w] = @ \ {e}]
                             /\ Begin(w, Outcome(e, 0, Interrupted, TRUE))
    BY <1>6 DEF CallRecover
  <2>2. todo \in [Writer -> SUBSET Effect] /\ Foreign(w, e)
    BY <2>1 DEF IInv, TypeOK, OwnersInv, RecoversOthers
  <2> QED BY <1>3, <1>6, <2>1, <2>2 DEF CallRecover, Begin, Outcome
<1> QED BY <1>2, <1>4, <1>5, <1>6 DEF Call

\* Those who die leave their effects to nobody who is alive.
LEMMA OwnersDie ==
    ASSUME IInv, OwnersInv, NEW P \in SUBSET Writer, Die(P),
           \A i \in 1..Len(file') : \E j \in 1..Len(file) : file'[i] = file[j]
    PROVE  OwnersInv'
<1>1. /\ owner \in [Effect -> Writer \cup {NoWriter, Gone}] /\ Gone \notin Writer /\ Gone # NoWriter
      /\ NoWriter \notin Writer
      /\ pending \in [Writer -> Record \cup {NoRecord}] /\ todo \in [Writer -> SUBSET Effect]
  BY EffectLogConstants DEF IInv, TypeOK
<1>2. /\ \A e \in Effect : owner'[e] = IF owner[e] \in P THEN Gone ELSE owner[e]
      /\ \A w \in Writer : pending'[w] = IF w \in P THEN NoRecord ELSE pending[w]
      /\ \A w \in Writer : todo'[w] = IF w \in P THEN {} ELSE todo[w]
      /\ live' = live \ P
  BY DEF Die
<1>3. OwnersLive'
  BY <1>1, <1>2 DEF OwnersInv, OwnersLive
<1>4. ASSUME NEW r \in Record, Owned(r) PROVE Owned(r)'
  BY <1>1, <1>2, <1>4, RecordType DEF Owned
<1>5. ASSUME NEW w \in Writer, NEW e \in Effect, Foreign(w, e) PROVE Foreign(w, e)'
  BY <1>1, <1>2, <1>5 DEF Foreign
<1>6. ClaimsOwned'
  <2>1. ASSUME NEW i \in 1..Len(file') PROVE Owned(file[i])'
    <3>1. PICK j \in 1..Len(file) : file'[i] = file[j]
      BY <2>1
    <3>2. file[j] \in Record /\ Owned(file[j])
      BY DEF IInv, FileOrdered, OwnersInv, ClaimsOwned
    <3> QED BY <1>4, <3>1, <3>2 DEF Owned
  <2>2. ASSUME NEW w \in Writer PROVE Owned(pending[w])'
    <3>1. CASE w \in P \/ pending[w] = NoRecord
      BY <1>2, <3>1 DEF Owned, NoRecord
    <3>2. CASE w \notin P /\ pending[w] \in Record
      BY <1>2, <1>4, <3>2 DEF OwnersInv, ClaimsOwned, Owned
    <3> QED BY <1>1, <3>1, <3>2
  <2> QED BY <2>1, <2>2 DEF ClaimsOwned
<1>7. RecoversOthers'
  <2>1. \A w \in Writer : \A e \in todo'[w] : Foreign(w, e)'
    BY <1>1, <1>2, <1>5 DEF OwnersInv, RecoversOthers
  <2>2. ASSUME NEW w \in Writer, pending'[w].kind = "outcome", pending'[w].replayed
        PROVE  Foreign(w, pending[w].effect)'
    <3>1. pending'[w] = pending[w] /\ pending[w] \in Record
      BY <1>1, <1>2, <2>2 DEF NoRecord
    <3>2. pending[w].effect \in Effect /\ Foreign(w, pending[w].effect)
      BY <2>2, <3>1, RecordType DEF OwnersInv, RecoversOthers
    <3> QED BY <1>5, <3>1, <3>2 DEF Foreign
  <2> QED BY <2>1, <2>2 DEF RecoversOthers
<1> QED BY <1>3, <1>6, <1>7 DEF OwnersInv

\* Who opens a log is not alive, and therefore owns nothing it finds there.
LEMMA OwnersOpen ==
    ASSUME IInv, OwnersInv, NEW w \in Writer, Open(w)
    PROVE  OwnersInv'
<1>1. /\ w \notin live /\ live' = live \cup {w} /\ todo' = [todo EXCEPT ![w] = PendingEffects(OnDisk)]
      /\ UNCHANGED <<file, owner, pending>>
  BY DEF Open, Attachable, disk, callers
<1>2. todo \in [Writer -> SUBSET Effect]
  BY DEF IInv, TypeOK
<1>3. ASSUME NEW e \in PendingEffects(OnDisk) PROVE Foreign(w, e)
  <2>1. e \in Effect /\ IsClaimed(OnDisk, e)
    BY <1>3 DEF PendingEffects
  <2>2. PICK i \in 1..Len(file) : file[i].kind = "claim" /\ file[i].effect = e
    BY <2>1 DEF IsClaimed, ClaimsOf, Claims, OnDisk, Lines
  <2>3. owner[e] # NoWriter
    BY <2>2 DEF OwnersInv, ClaimsOwned, Owned
  <2>4. owner[e] # w
    BY <1>1, <2>1 DEF OwnersInv, OwnersLive
  <2> QED BY <2>3, <2>4 DEF Foreign
<1>4. OwnersLive'
  BY <1>1 DEF OwnersInv, OwnersLive
<1>5. ClaimsOwned'
  BY <1>1 DEF OwnersInv, ClaimsOwned, Owned
<1>6. RecoversOthers'
  <2>1. \A x \in Writer : todo'[x] = IF x = w THEN PendingEffects(OnDisk) ELSE todo[x]
    BY <1>1, <1>2
  <2> QED BY <1>1, <1>3, <2>1 DEF OwnersInv, RecoversOthers, Foreign
<1> QED BY <1>4, <1>5, <1>6 DEF OwnersInv

\* Every step keeps to it.
LEMMA OwnersKept ==
    ASSUME IInv, OwnersInv, [Next]_vars
    PROVE  OwnersInv'
<1> USE DEF disk, object, append, callers, bounds
<1>1. /\ pc \in [Writer -> Steps] /\ pending \in [Writer -> Record \cup {NoRecord}]
      /\ file \in Seq(Record \cup {Corrupt}) /\ offset \in [Writer -> Nat]
  BY DEF IInv, TypeOK
<1>2. \A i \in 1..Len(file) : Owned(file[i])
  BY DEF OwnersInv, ClaimsOwned
<1>3. ASSUME NEW w \in Writer, Acquire(w) PROVE OwnersInv'
  BY <1>2, <1>3, OwnersFrame DEF Acquire
<1>4. ASSUME NEW w \in Writer, Allocate(w) PROVE OwnersInv'
  <2>1. pending[w] \in Record
    BY <1>4 DEF Allocate, IInv, Exclusion
  <2>2. \A x \in Writer : pending'[x] = IF x = w THEN At(pending[w], maxSeq[w] + 1) ELSE pending[x]
    BY <1>1, <1>4 DEF Allocate
  <2>3. UNCHANGED <<file, owner, live, todo>>
    BY <1>4 DEF Allocate
  <2> QED BY <1>2, <2>1, <2>2, <2>3, OwnersFrame
<1>5. ASSUME NEW w \in Writer, Release(w), UNCHANGED <<owner, live>>,
             \A i \in 1..Len(file') : Owned(file'[i])
      PROVE  OwnersInv'
  <2>1. \A x \in Writer : pending'[x] \in {pending[x], NoRecord}
    BY <1>1, <1>5 DEF Release
  <2> QED BY <1>5, <2>1, OwnersFrame DEF Release
<1>6. ASSUME NEW w \in Writer, Reject(w) \/ Sync(w) \/ AcquireFails(w) PROVE OwnersInv'
  BY <1>2, <1>5, <1>6 DEF Reject, Sync, AcquireFails
<1>7. ASSUME NEW w \in Writer, WriteLine(w) PROVE OwnersInv'
  <2>1. PICK r : r \in {Corrupt, pending[w]} /\ file' = Append(file, r)
    BY <1>7 DEF WriteLine
  <2>2. Owned(r)
    BY <2>1 DEF OwnersInv, ClaimsOwned, Owned, Corrupt
  <2>3. \A i \in 1..Len(file') : Owned(file'[i])
    BY <1>1, <1>2, <2>1, <2>2
  <2> QED BY <1>7, <2>3, OwnersFrame DEF WriteLine
<1>8. ASSUME NEW w \in Writer, WritePart(w) \/ Refresh(w) \/ RefreshFails(w) PROVE OwnersInv'
  BY <1>2, <1>8, OwnersFrame DEF WritePart, Refresh, RefreshFails
<1>9. ASSUME NEW w \in Writer, WriteFails(w) PROVE OwnersInv'
  <2>1. file' \in {file, SubSeq(file, 1, offset[w])} /\ offset[w] <= Len(file)
    BY <1>9 DEF WriteFails, TakenBack, IInv, Prefixes
  <2>2. /\ Len(SubSeq(file, 1, offset[w])) = offset[w]
        /\ \A i \in 1..offset[w] : SubSeq(file, 1, offset[w])[i] = file[i]
    BY <1>1, <2>1, CutType DEF IInv
  <2>3. \A i \in 1..Len(file') : Owned(file'[i])
    BY <1>1, <1>2, <2>1, <2>2
  <2> QED BY <1>5, <1>9, <2>3 DEF WriteFails
<1>10. ASSUME NEW w \in Writer, Crash(w) PROVE OwnersInv'
  BY <1>10, OwnersDie DEF Crash
<1>11. ASSUME PowerLoss PROVE OwnersInv'
  <2>1. \A i \in 1..Len(file') : \E j \in 1..Len(file) : file'[i] = file[j]
    <3>1. CASE \E n \in synced..Len(file) : file' = SubSeq(file, 1, n)
      <4>1. PICK n \in synced..Len(file) : file' = SubSeq(file, 1, n)
        BY <3>1
      <4>2. n \in Nat /\ n <= Len(file) /\ Len(file) \in Nat
        BY <1>1 DEF IInv, TypeOK
      <4> QED BY <4>1, <4>2, CutType DEF IInv
    <3>2. CASE file' = <<>>
      BY <3>2
    <3> QED BY <1>11, <3>1, <3>2 DEF PowerLoss
  <2> QED BY <1>11, <2>1, OwnersDie DEF PowerLoss
<1>12. CASE UNCHANGED vars
  BY <1>2, <1>12, OwnersFrame DEF vars
<1> QED BY <1>3, <1>4, <1>6, <1>7, <1>8, <1>9, <1>10, <1>11, <1>12, OwnersBegin, OwnersOpen
        DEF Next, AppendStep, Failure

\* The owners, along the behaviours of the log.
THEOREM Owners == Spec => []OwnersInv
<1>1. Init => OwnersInv
  <2> SUFFICES ASSUME Init PROVE OwnersInv
    OBVIOUS
  <2>1. NoWriter \notin Writer
    BY EffectLogConstants
  <2> QED BY <2>1 DEF Init, OwnersInv, OwnersLive, ClaimsOwned, RecoversOthers, Owned, NoRecord
<1> QED BY <1>1, OwnersKept, Invariant, PTL DEF Spec

\* Only a line that is written adds a record to the file.
LEMMA OnlyWritesAdd ==
    ASSUME IInv, [Next]_vars, ~\E w \in Writer : WriteLine(w)
    PROVE  OnDisk' \subseteq OnDisk
<1>1. CASE file' = file
  BY <1>1 DEF OnDisk, Lines
<1>2. ASSUME NEW w \in Writer, WriteFails(w) PROVE OnDisk' \subseteq OnDisk
  <2>1. /\ file' \in {file, SubSeq(file, 1, offset[w])}
        /\ offset[w] \in Nat /\ offset[w] <= Len(file)
    BY <1>2 DEF WriteFails, TakenBack, IInv, Prefixes, TypeOK
  <2>2. CASE file' = SubSeq(file, 1, offset[w])
    <3>1. Len(file') = offset[w] /\ \A i \in 1..offset[w] : file'[i] = file[i]
      BY <2>1, <2>2, CutType DEF IInv
    <3>2. Len(file) \in Nat
      BY DEF IInv, TypeOK
    <3>3. 1..offset[w] \subseteq 1..Len(file)
      BY <2>1, <3>2
    <3> QED BY <3>1, <3>3 DEF OnDisk, Lines
  <2> QED BY <1>1, <2>1, <2>2
<1>3. ASSUME PowerLoss PROVE OnDisk' \subseteq OnDisk
  <2>1. CASE \E n \in synced..Len(file) : file' = SubSeq(file, 1, n)
    <3>1. PICK n \in synced..Len(file) : file' = SubSeq(file, 1, n)
      BY <2>1
    <3>2. n \in Nat /\ n <= Len(file) /\ Len(file) \in Nat
      BY DEF IInv, TypeOK
    <3> QED BY <3>1, <3>2, CutType DEF IInv, OnDisk, Lines
  <2>2. CASE file' = <<>>
    BY <2>2 DEF OnDisk, Lines
  <2> QED BY <1>3, <2>1, <2>2 DEF PowerLoss
<1>4. ASSUME NEW w \in Writer,
             Call(w) \/ CallRecover(w) \/ Acquire(w) \/ Allocate(w) \/ Reject(w) \/ WritePart(w)
             \/ Sync(w) \/ AcquireFails(w) \/ RefreshFails(w) \/ Crash(w) \/ Refresh(w) \/ Open(w)
      PROVE  file' = file
  BY <1>4 DEF Call, CallClaim, CallOutcome, CallSettleJob, CallObserve, CallRecover, Acquire,
              Allocate, Reject, WritePart, Sync, AcquireFails, RefreshFails, Crash, Refresh, Open, disk
<1>5. CASE UNCHANGED vars
  BY <1>1, <1>5 DEF vars, disk
<1> QED BY <1>1, <1>2, <1>3, <1>4, <1>5 DEF Next, AppendStep, Failure

\* Recovery only ever writes what lies in the file for a process that is gone,
\* or for another one that is alive: hence for one that is gone, when no other
\* is alive.
THEOREM AloneInterruptsOrphans == Spec => AloneRecoversOrphans
<1>1. ASSUME IInv, OwnersInv, [Next]_vars, NEW r \in Outcomes(OnDisk' \ OnDisk), r.replayed
      PROVE  \E w \in live : owner[r.effect] \in (live \ {w}) \cup {Gone}
  <2>1. \E w \in Writer : WriteLine(w) /\ r = pending[w]
    <3>1. PICK w \in Writer : WriteLine(w)
      BY <1>1, OnlyWritesAdd DEF Outcomes
    <3>2. PICK q \in {Corrupt, pending[w]} : file' = Append(file, q)
      BY <3>1 DEF WriteLine
    <3>3. OnDisk' \subseteq OnDisk \cup {q}
      BY <1>1, <3>2 DEF OnDisk, Lines, IInv, TypeOK
    <3>4. r = q /\ q # Corrupt
      BY <1>1, <3>3 DEF Outcomes, Corrupt
    <3> QED BY <3>1, <3>2, <3>4
  <2>2. PICK w \in Writer : WriteLine(w) /\ r = pending[w]
    BY <2>1
  <2>3. w \in live /\ pending[w] \in Record
    BY <1>1, <2>2 DEF WriteLine, IInv, Exclusion
  <2>4. r.kind = "outcome" /\ r.effect \in Effect
    BY <1>1, <2>2, <2>3, RecordType DEF Outcomes
  <2>5. Foreign(w, r.effect)
    BY <1>1, <2>2, <2>4 DEF OwnersInv, RecoversOthers
  <2>6. owner[r.effect] \in Writer \cup {NoWriter, Gone}
    BY <1>1, <2>4 DEF IInv, TypeOK
  <2> QED BY <1>1, <2>3, <2>4, <2>5, <2>6 DEF Foreign, OwnersInv, OwnersLive
<1>2. IInv /\ OwnersInv /\ [Next]_vars =>
        [(\A v, w \in live : v = w) =>
            \A r \in Outcomes(OnDisk' \ OnDisk) : r.replayed => owner[r.effect] = Gone]_vars
  <2> SUFFICES ASSUME IInv, OwnersInv, [Next]_vars, \A v, w \in live : v = w,
                      NEW r \in Outcomes(OnDisk' \ OnDisk), r.replayed
               PROVE  owner[r.effect] = Gone
    OBVIOUS
  <2> QED BY <1>1
<1> QED BY <1>2, Invariant, Owners, PTL DEF Spec, AloneRecoversOrphans
=============================================================================
