----------------------------- MODULE EffectLog -----------------------------
(***************************************************************************)
(* The durable append-only effect log of one run:                          *)
(* src/agent_runtime/effect_log.py, with the callers that append to it     *)
(* (effect_adapters.py and journal.py).                                    *)
(*                                                                         *)
(* A writer is a process attached to the log through its live EffectLog    *)
(* object.  Every append takes the exclusive flock, merges what the others *)
(* appended, allocates the next position, writes one line and fsyncs it.   *)
(* Any system call may fail, a process may die between any two steps and   *)
(* the host may lose power: what was not fsynced is then lost, in part or  *)
(* entirely.                                                               *)
(*                                                                         *)
(* A line of the file is a record; a trailing partial line is the flag     *)
(* torn.  A record written behind a partial line is Corrupt.               *)
(***************************************************************************)
EXTENDS EffectHistory, Sequences, FiniteSetsExt

CONSTANTS
    Writer,      \* the processes that may attach to the log
    Agent,       \* those that run the agent; the others only settle its jobs
    Reports,     \* the executions a tool call or a job may report
    NoWriter,    \* nobody: the lock is free, the effect has no owner yet
    Gone,        \* the owner of an effect whose process died
    MaxCalls,    \* bound on the append calls the callers make
    MaxFaults,   \* bound on failed system calls
    MaxCrashes   \* bound on process deaths and power losses

ASSUME EffectLogConstants ==
    /\ Agent \subseteq Writer
    /\ Reports \subseteq Execution
    /\ NoWriter \notin Writer
    /\ Gone \notin Writer \cup {NoWriter}
    /\ MaxCalls \in Nat /\ MaxFaults \in Nat /\ MaxCrashes \in Nat

VARIABLES
    \* the disk
    file,        \* the complete lines, in file order
    torn,        \* whether a partial line follows them
    synced,      \* how many lines an fsync has made durable
    exists,      \* whether the file exists
    entry,       \* whether its directory entry has been fsynced
    lock,        \* the holder of the exclusive flock
    \* each process's EffectLog object
    live,        \* the processes that hold one
    durable,     \* _durable: records known to be on disk
    offset,      \* _offset, in lines
    volatile,    \* _volatile: records held only in memory
    view,        \* _view: durable plus the volatile records consistent with it
    maxSeq,      \* _max_sequence
    dirSynced,   \* _directory_synced
    degraded,    \* degraded
    \* the append in progress of each process
    pc,          \* how far it is
    pending,     \* its record; position 0 until one is allocated
    todo,        \* claims that open() still has to recover
    \* the callers
    owner,       \* the process whose action claims the effect
    granted,     \* effects whose claim() returned: the backend may be invoked
    answered,    \* effects whose direct outcome has been handed to the log
    calls, faults, crashes

disk    == <<file, torn, synced, exists, entry>>
object  == <<live, durable, offset, volatile, view, maxSeq, dirSynced, degraded>>
append  == <<pc, pending, todo>>
callers == <<owner, granted, answered>>
bounds  == <<calls, faults, crashes>>
vars    == <<disk, lock, object, append, callers, bounds>>

Corrupt  == [kind |-> "corrupt", seq |-> 0]
NoRecord == [kind |-> "none", seq |-> 0]
Steps    == {"idle", "waiting", "locked", "write", "partial", "sync"}

Lines(n) == {file[i] : i \in 1..n}
OnDisk   == Lines(Len(file))

Init ==
    /\ file = <<>> /\ torn = FALSE /\ synced = 0
    /\ exists = FALSE /\ entry = FALSE /\ lock = NoWriter
    /\ \E w \in Agent : live = {w}
    /\ durable = [w \in Writer |-> {}]
    /\ offset = [w \in Writer |-> 0]
    /\ volatile = [w \in Writer |-> {}]
    /\ view = [w \in Writer |-> {}]
    /\ maxSeq = [w \in Writer |-> 0]
    /\ dirSynced = [w \in Writer |-> FALSE]
    /\ degraded = [w \in Writer |-> FALSE]
    /\ pc = [w \in Writer |-> "idle"]
    /\ pending = [w \in Writer |-> NoRecord]
    /\ todo = [w \in Writer |-> {}]
    /\ owner = [e \in Effect |-> NoWriter]
    /\ granted = {} /\ answered = {}
    /\ calls = 0 /\ faults = 0 /\ crashes = 0

-----------------------------------------------------------------------------
(***************************************************************************)
(* The merged view.                                                        *)
(***************************************************************************)

\* _rebuild_view: going through the volatile records in the order they were
\* added, K is what is still accepted behind the durable records D.
SurvivesUnchecked(D, V, K) == K = V     \* mutated: nothing is hidden
Survives(D, V, K) ==
    \A v \in V : v \in K <=> Accepts(D \cup {u \in K : u.seq < v.seq}, v)

Rebuilt(w, D) ==
    \E K \in SUBSET volatile[w] :
        /\ Survives(D, volatile[w], K)
        /\ view' = [view EXCEPT ![w] = D \cup K]

NewLinesIgnored(w) == {}                \* mutated: the tail is skipped
NewLines(w) == {file[i] : i \in (offset[w] + 1)..Len(file)}

\* What _read_tail demands of the lines behind our offset: each parses and
\* is accepted behind the durable records and the new lines before it.
TailConsistent(w) ==
    \A i \in (offset[w] + 1)..Len(file) :
        /\ file[i] # Corrupt
        /\ Accepts(durable[w] \cup {file[j] : j \in (offset[w] + 1)..(i - 1)},
                   file[i])

Merge(w) ==
    /\ TailConsistent(w)
    /\ durable' = [durable EXCEPT ![w] = @ \cup NewLines(w)]
    /\ offset' = [offset EXCEPT ![w] = Len(file)]
    /\ maxSeq' = [maxSeq EXCEPT ![w] = Max({@} \cup {r.seq : r \in NewLines(w)})]
    /\ \/ NewLines(w) = {} /\ UNCHANGED view
       \/ NewLines(w) # {} /\ Rebuilt(w, durable[w] \cup NewLines(w))

At(r, n) == [r EXCEPT !.seq = n]

\* _add_volatile
KeepVolatile(w, r) ==
    /\ volatile' = [volatile EXCEPT ![w] = @ \cup {r}]
    /\ view' = [view EXCEPT ![w] = @ \cup {r}]
    /\ maxSeq' = [maxSeq EXCEPT ![w] = Max({@, r.seq})]

\* recover_interrupted: its outcome is dropped once the effect has any other.
StillAppliesUnchecked(w, r) == TRUE     \* mutated: not rechecked
StillApplies(w, r) ==
    r.kind = "outcome" /\ r.replayed =>
        ~HasOutcome(view[w], r.effect) /\ ~HasOutcome(durable[w], r.effect)

\* _append_volatile
AppendVolatile(w, r) ==
    LET v == At(r, maxSeq[w] + 1)
    IN  IF StillApplies(w, r) /\ Accepts(view[w], v)
        THEN KeepVolatile(w, v)
        ELSE UNCHANGED <<volatile, view, maxSeq>>

-----------------------------------------------------------------------------
(***************************************************************************)
(* The calls: who may append what.                                         *)
(***************************************************************************)
Ready(w) == w \in live /\ pc[w] = "idle" /\ todo[w] = {}
AgentReady(w) == Ready(w) /\ w \in Agent

Begin(w, r) ==
    /\ pc' = [pc EXCEPT ![w] = "waiting"]
    /\ pending' = [pending EXCEPT ![w] = r]

Called ==
    /\ calls < MaxCalls
    /\ calls' = calls + 1
    /\ UNCHANGED <<faults, crashes>>

\* begin_effect: the claim of an action of this process, before its backend
\* is invoked.  An action whose claim was refused may be dispatched again.
CallClaim(w, e) ==
    /\ AgentReady(w) /\ Called
    /\ owner[e] \in {NoWriter, w} /\ e \notin granted
    /\ owner' = [owner EXCEPT ![e] = w]
    /\ Begin(w, Claim(e, 0))
    /\ UNCHANGED <<disk, lock, object, todo, granted, answered>>

\* settle_effect: the outcome of an action, handed over once.
CallOutcome(w, e, x) ==
    /\ AgentReady(w) /\ Called
    /\ owner[e] = w /\ e \in granted \ answered
    /\ answered' = answered \cup {e}
    /\ Begin(w, Outcome(e, 0, x, FALSE))
    /\ UNCHANGED <<disk, lock, object, todo, owner, granted>>

\* settle_background_job: the outcome of a launch some history shows running.
CallSettleJob(w, e, x) ==
    /\ Ready(w) /\ Called
    /\ IsRunning(view[w], e) /\ x # Running
    /\ Begin(w, Outcome(e, 0, x, FALSE))
    /\ UNCHANGED <<disk, lock, object, todo, callers>>

\* observe: durable only once the run has claimed something or has a file.
CallObserve(w, s) ==
    /\ AgentReady(w) /\ Called
    /\ IF Claims(view[w]) # {} \/ exists
       THEN Begin(w, Observation(s, 0)) /\ UNCHANGED object
       ELSE /\ AppendVolatile(w, Observation(s, 0))
            /\ UNCHANGED <<pc, pending, live, durable, offset, dirSynced, degraded>>
    /\ UNCHANGED <<disk, lock, todo, callers>>

\* One round of recover_interrupted, oldest claim first.
CallRecover(w) ==
    /\ w \in live /\ pc[w] = "idle"
    /\ \E e \in todo[w] :
         /\ \A c \in ClaimsOf(view[w], e), d \in Claims(view[w]) :
                d.effect \in todo[w] => c.seq <= d.seq
         /\ todo' = [todo EXCEPT ![w] = @ \ {e}]
         /\ Begin(w, Outcome(e, 0, Interrupted, TRUE))
    /\ UNCHANGED <<disk, lock, object, callers, bounds>>

-----------------------------------------------------------------------------
(***************************************************************************)
(* The append: _append, _locked, _read_tail, _write, _add_durable.         *)
(***************************************************************************)
\* mutated: an append that ends keeps the flock
ReleaseHolding(w) ==
    /\ pc' = [pc EXCEPT ![w] = "idle"]
    /\ pending' = [pending EXCEPT ![w] = NoRecord]
    /\ UNCHANGED <<lock, todo>>

Release(w) ==
    /\ lock' = IF lock = w THEN NoWriter ELSE lock
    /\ pc' = [pc EXCEPT ![w] = "idle"]
    /\ pending' = [pending EXCEPT ![w] = NoRecord]
    /\ UNCHANGED todo

\* The flock is granted: a partial line is truncated, the tail is merged.
Acquire(w) ==
    /\ pc[w] = "waiting" /\ lock = NoWriter
    /\ lock' = w
    /\ torn' = FALSE /\ exists' = TRUE
    /\ Merge(w)
    /\ pc' = [pc EXCEPT ![w] = "locked"]
    /\ UNCHANGED <<file, synced, entry, live, volatile, dirSynced, degraded,
                   pending, todo, callers, bounds>>

Acceptable(w, r) ==
    StillApplies(w, r) /\ Accepts(view[w], r) /\ Accepts(durable[w], r)

Allocate(w) ==
    LET r == At(pending[w], maxSeq[w] + 1)
    IN  /\ pc[w] = "locked"
        /\ Acceptable(w, r)
        /\ pending' = [pending EXCEPT ![w] = r]
        /\ pc' = [pc EXCEPT ![w] = "write"]
        /\ UNCHANGED <<disk, lock, object, todo, callers, bounds>>

\* Another writer was first: a claim is refused, anything else dropped.
Reject(w) ==
    /\ pc[w] = "locked"
    /\ ~Acceptable(w, At(pending[w], maxSeq[w] + 1))
    /\ Release(w)
    /\ UNCHANGED <<disk, object, callers, bounds>>

\* os.write delivers the whole line, or only part of it before the rest.
WriteLine(w) ==
    /\ pc[w] \in {"write", "partial"}
    /\ file' = Append(file, IF pc[w] = "write" /\ torn THEN Corrupt ELSE pending[w])
    /\ torn' = FALSE
    /\ pc' = [pc EXCEPT ![w] = "sync"]
    /\ UNCHANGED <<synced, exists, entry, lock, object, pending, todo, callers, bounds>>

WritePart(w) ==
    /\ pc[w] = "write"
    /\ torn' = TRUE
    /\ pc' = [pc EXCEPT ![w] = "partial"]
    /\ UNCHANGED <<file, synced, exists, entry, lock, object, pending, todo, callers, bounds>>

\* mutated: no fsync; or only of the file, never of its directory
FlushNothing(w) == UNCHANGED <<synced, entry, dirSynced>>
FlushFileOnly(w) ==
    /\ synced' = Len(file)
    /\ dirSynced' = [dirSynced EXCEPT ![w] = TRUE]
    /\ UNCHANGED entry

\* fsync of the file and, the first time, of its directory
Flush(w) ==
    /\ synced' = Len(file)
    /\ entry' = (entry \/ ~dirSynced[w])
    /\ dirSynced' = [dirSynced EXCEPT ![w] = TRUE]

\* The append is acknowledged, and a claim thereby granted to its caller.
Sync(w) ==
    LET r == pending[w]
    IN  /\ pc[w] = "sync"
        /\ Flush(w)
        /\ durable' = [durable EXCEPT ![w] = @ \cup {r}]
        /\ view' = [view EXCEPT ![w] = @ \cup {r}]
        /\ maxSeq' = [maxSeq EXCEPT ![w] = Max({@, r.seq})]
        /\ offset' = [offset EXCEPT ![w] = @ + 1]
        /\ granted' = IF r.kind = "claim" THEN granted \cup {r.effect} ELSE granted
        /\ Release(w)
        /\ UNCHANGED <<file, torn, exists, live, volatile, degraded, owner, answered, bounds>>

Fault ==
    /\ faults < MaxFaults
    /\ faults' = faults + 1
    /\ UNCHANGED <<calls, crashes>>

\* The lock or the tail cannot be taken (possibly after the repair): a claim
\* is refused, anything else is kept in memory.
AcquireFails(w) ==
    /\ pc[w] = "waiting" /\ Fault
    /\ torn' \in {torn} \cup (IF lock = NoWriter THEN {FALSE} ELSE {})
    /\ exists' \in {exists, TRUE}
    /\ IF pending[w].kind = "claim"
       THEN UNCHANGED <<degraded, volatile, view, maxSeq>>
       ELSE /\ degraded' = [degraded EXCEPT ![w] = TRUE]
            /\ AppendVolatile(w, pending[w])
    /\ Release(w)
    /\ UNCHANGED <<file, synced, entry, live, durable, offset, dirSynced, callers>>

\* The file as it was before the write; mutated: one line shorter, written or not
TakenBackOneLine(w) == SubSeq(file, 1, Len(file) - 1)
TakenBack(w)        == SubSeq(file, 1, offset[w])

\* The write or an fsync fails.  The line is taken back, unless that fails as
\* well; a claim is refused, anything else is kept in memory.
WriteFails(w) ==
    /\ pc[w] \in {"write", "partial", "sync"} /\ Fault
    /\ \/ file' = TakenBack(w) /\ torn' = FALSE
       \/ UNCHANGED <<file, torn>>
    /\ IF pending[w].kind = "claim"
       THEN UNCHANGED <<degraded, volatile, view, maxSeq>>
       ELSE /\ degraded' = [degraded EXCEPT ![w] = TRUE]
            /\ KeepVolatile(w, pending[w])
    /\ Release(w)
    /\ UNCHANGED <<synced, exists, entry, live, durable, offset, dirSynced, callers>>

\* refresh: a shared lock, no repair.
Refresh(w) ==
    /\ w \in live /\ pc[w] = "idle" /\ lock = NoWriter
    /\ offset[w] # Len(file)
    /\ Merge(w)
    /\ UNCHANGED <<disk, lock, live, volatile, dirSynced, degraded, append, callers, bounds>>

RefreshFails(w) ==
    /\ w \in live /\ pc[w] = "idle" /\ exists /\ Fault
    /\ degraded' = [degraded EXCEPT ![w] = TRUE]
    /\ UNCHANGED <<disk, lock, live, durable, offset, volatile, view, maxSeq, dirSynced,
                   append, callers>>

-----------------------------------------------------------------------------
(***************************************************************************)
(* Processes come and go.                                                  *)
(***************************************************************************)

\* The processes P die: their objects and their append go with them, the
\* flock is released, their actions will never answer.
Die(P) ==
    /\ crashes < MaxCrashes
    /\ crashes' = crashes + 1
    /\ live' = live \ P
    /\ durable' = [w \in Writer |-> IF w \in P THEN {} ELSE durable[w]]
    /\ offset' = [w \in Writer |-> IF w \in P THEN 0 ELSE offset[w]]
    /\ volatile' = [w \in Writer |-> IF w \in P THEN {} ELSE volatile[w]]
    /\ view' = [w \in Writer |-> IF w \in P THEN {} ELSE view[w]]
    /\ maxSeq' = [w \in Writer |-> IF w \in P THEN 0 ELSE maxSeq[w]]
    /\ dirSynced' = [w \in Writer |-> w \notin P /\ dirSynced[w]]
    /\ degraded' = [w \in Writer |-> w \notin P /\ degraded[w]]
    /\ pc' = [w \in Writer |-> IF w \in P THEN "idle" ELSE pc[w]]
    /\ pending' = [w \in Writer |-> IF w \in P THEN NoRecord ELSE pending[w]]
    /\ todo' = [w \in Writer |-> IF w \in P THEN {} ELSE todo[w]]
    /\ lock' = IF lock \in P THEN NoWriter ELSE lock
    /\ owner' = [e \in Effect |-> IF owner[e] \in P THEN Gone ELSE owner[e]]
    /\ UNCHANGED <<granted, answered, calls, faults>>

Crash(w) ==
    /\ w \in live
    /\ Die({w})
    /\ UNCHANGED disk

\* Everything dies; what no fsync covered may be lost, torn or kept.
PowerLoss ==
    /\ Die(Writer)
    /\ \/ \E n \in synced..Len(file) :
            /\ file' = SubSeq(file, 1, n)
            /\ torn' \in (IF n < Len(file) \/ torn THEN BOOLEAN ELSE {FALSE})
            /\ UNCHANGED <<synced, exists>>
       \/ /\ exists /\ ~entry
          /\ file' = <<>> /\ torn' = FALSE /\ synced' = 0 /\ exists' = FALSE
    /\ UNCHANGED entry

\* A process opens a log it does not hold.  Whoever only settles jobs gets to
\* it through the index of a launch, written once its claim is durable.
\* mutated: a log that is live is loaded again
AttachableAgain(w) == w \in Agent
Attachable(w) == w \notin live /\ (w \in Agent \/ Claims(OnDisk) # {})

\* open: load the file, then recover the claims nothing has settled.
Open(w) ==
    /\ Attachable(w) /\ lock = NoWriter
    /\ TailConsistent(w)
    /\ live' = live \cup {w}
    /\ durable' = [durable EXCEPT ![w] = OnDisk]
    /\ view' = [view EXCEPT ![w] = OnDisk]
    /\ offset' = [offset EXCEPT ![w] = Len(file)]
    /\ maxSeq' = [maxSeq EXCEPT ![w] = Max({0} \cup {r.seq : r \in OnDisk})]
    /\ todo' = [todo EXCEPT ![w] = PendingEffects(OnDisk)]
    /\ UNCHANGED <<disk, lock, volatile, dirSynced, degraded, pc, pending, callers, bounds>>

-----------------------------------------------------------------------------
Call(w) ==
    \/ \E e \in Effect : CallClaim(w, e)
    \/ \E e \in Effect, x \in Reports : CallOutcome(w, e, x)
    \/ \E e \in Effect, x \in Reports : CallSettleJob(w, e, x)
    \/ \E s \in Sight : CallObserve(w, s)

AppendStep(w) ==
    \/ Acquire(w) \/ Allocate(w) \/ Reject(w)
    \/ WriteLine(w) \/ WritePart(w) \/ Sync(w)

Failure(w) == AcquireFails(w) \/ WriteFails(w) \/ RefreshFails(w) \/ Crash(w)

Next ==
    \/ \E w \in Writer : Call(w) \/ CallRecover(w) \/ AppendStep(w)
                         \/ Refresh(w) \/ Failure(w) \/ Open(w)
    \/ PowerLoss

Spec == Init /\ [][Next]_vars

\* A process that is running keeps taking the steps of the append it is in
\* and of the recovery it has started; nothing obliges it to be attached, to
\* call again, or to fail.
Fairness == \A w \in Writer : WF_vars(AppendStep(w)) /\ WF_vars(CallRecover(w))

FairSpec == Spec /\ Fairness

-----------------------------------------------------------------------------
(***************************************************************************)
(* Properties.                                                             *)
(***************************************************************************)

\* Every variable stays in its domain.
TypeOK ==
    /\ file \in Seq(Record \cup {Corrupt}) /\ torn \in BOOLEAN /\ synced \in Nat
    /\ exists \in BOOLEAN /\ entry \in BOOLEAN /\ lock \in Writer \cup {NoWriter}
    /\ live \in SUBSET Writer
    /\ durable \in [Writer -> SUBSET (Record \cup {Corrupt})]
    /\ offset \in [Writer -> Nat]
    /\ volatile \in [Writer -> SUBSET Record]
    /\ view \in [Writer -> SUBSET (Record \cup {Corrupt})]
    /\ maxSeq \in [Writer -> Nat]
    /\ dirSynced \in [Writer -> BOOLEAN] /\ degraded \in [Writer -> BOOLEAN]
    /\ pc \in [Writer -> Steps]
    /\ pending \in [Writer -> Record \cup {NoRecord}]
    /\ todo \in [Writer -> SUBSET Effect]
    /\ owner \in [Effect -> Writer \cup {NoWriter, Gone}]
    /\ granted \in SUBSET Effect /\ answered \in SUBSET Effect
    /\ calls \in Nat /\ faults \in Nat /\ crashes \in Nat

\* The file is a valid history in the order of its lines, whoever wrote them
\* and whatever failed: no line glued onto a torn one, no position used
\* twice, no effect claimed or settled twice (effect_log.py:14-17).
FileIsHistory ==
    /\ Corrupt \notin OnDisk
    /\ \A i, j \in 1..Len(file) : i < j => file[i].seq < file[j].seq
    /\ HistoryValid(OnDisk)

\* What a process sees, durable and volatile records together, is a history
\* the EffectHistory constructor accepts, whatever other writers appended
\* meanwhile (effect_log.py:95-98).
ViewsAreHistories == \A w \in live : HistoryValid(view[w])

\* A backend is invoked only after its claim is durable: whatever crash or
\* power loss follows, the claim is still in the file (effect_log.py:5-6).
GrantedClaimsSurvive ==
    \A e \in granted :
        entry /\ \E i \in 1..synced : i <= Len(file) /\ file[i].kind = "claim"
                                                    /\ file[i].effect = e

\* No writer ever loses bytes it has merged: what _durable holds is exactly
\* the first _offset bytes of the file, so the "shrank" and "inconsistent"
\* errors of _read_tail never meet a log only this code writes.
MergedPrefixStable ==
    \A w \in live : /\ offset[w] <= Len(file)
                    /\ durable[w] = Lines(offset[w])
                    /\ TailConsistent(w)

\* Recovery and a report never both speak of one effect: where the file has
\* a replayed outcome, it is the only outcome of that effect, although the
\* claims to recover are listed before the lock is taken
\* (effect_log.py:498-500).
RecoveryNeverOverlapsReport ==
    \A o, p \in Outcomes(OnDisk) : o.effect = p.effect /\ o.replayed => o = p

\* The flock is never left behind: whatever write, fsync, process or host fails
\* in an append, only a process that is still inside one holds the lock that
\* every other append of the file waits for (effect_log.py:242-257).
LockHeldInsideAppend ==
    lock # NoWriter => lock \in live /\ pc[lock] \in {"locked", "write", "partial", "sync"}

\* The log implements the lifecycle of effects, told from what is durable.
StatusIn(S, e) ==
    IF ~IsClaimed(S, e)       THEN "unclaimed"
    ELSE IF ~HasOutcome(S, e) THEN "claimed"
    ELSE IF ~IsSettled(S, e)  THEN "running" ELSE "settled"

Lifecycle == INSTANCE EffectLifecycle WITH
    status  <- [e \in Effect |-> StatusIn(Lines(synced), e)],
    invoked <- granted

\* Whatever the processes, the disk and the host do, the durable status of an
\* effect only advances and its backend is invoked at most once, when its
\* claim becomes durable (effect_log.py:1-11).
ImplementsLifecycle == Lifecycle!Spec

\* Once acknowledged, nothing is rewritten or removed, across failed writes,
\* repairs, process deaths and power losses (effect_log.py:5-6).
AppendOnly ==
    [][entry => /\ synced' >= synced
                /\ Len(file') >= synced
                /\ \A i \in 1..synced : file'[i] = file[i]]_vars

\* Recovery interrupts only claims of a process that is gone: "a log that is
\* not live belongs to a finished or crashed run" (effect_log.py:440-441).
RecoveryOnlyOrphans ==
    [][\A r \in Outcomes(OnDisk' \ OnDisk) :
            r.replayed => owner[r.effect] = Gone]_vars

\* It does so whenever no other process is alive, however often the log was
\* opened, cut short and opened again before.
AloneRecoversOrphans ==
    [][(\A v, w \in live : v = w) =>
        \A r \in Outcomes(OnDisk' \ OnDisk) :
            r.replayed => owner[r.effect] = Gone]_vars

\* Every claim open() set out to recover gets an outcome in the opener's view,
\* unless the opener dies: no append waits for ever on the flock.
RecoveryCompletes ==
    \A w \in Writer, e \in Effect :
        e \in todo[w] ~> (w \notin live \/ HasOutcome(view[w], e))
=============================================================================
