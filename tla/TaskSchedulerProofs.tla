------------------------ MODULE TaskSchedulerProofs ------------------------
(***************************************************************************)
(* SchedulerInv is an inductive invariant of TaskScheduler, for any number *)
(* of tasks and runs; its safety properties follow.                        *)
(***************************************************************************)
EXTENDS TaskSchedulerInvariant, SequenceTheorems, WellFoundedInduction, TLAPS

-----------------------------------------------------------------------------
(***************************************************************************)
(* The rows.                                                               *)
(***************************************************************************)


LEMMA WithoutShape ==
    ASSUME NEW q \in Seq(Run), NEW r, \E i \in 1..Len(q) : q[i] = r
    PROVE  \E i \in 1..Len(q) : q[i] = r /\ Without(q, r) = SubSeq(q, 1, i - 1) \o SubSeq(q, i + 1, Len(q))
<1> DEFINE Positions == {i \in 1..Len(q) : q[i] = r}
           i == CHOOSE p \in Positions : TRUE
<1>1. Positions # {}
  OBVIOUS
<1>2. i \in Positions
  BY <1>1
<1>3. Without(q, r) = SubSeq(q, 1, i - 1) \o SubSeq(q, i + 1, Len(q))
  BY <1>1 DEF Without, RemoveAt
<1> HIDE DEF i
<1> QED BY <1>2, <1>3

\* Without an element: the rest, in its order.
LEMMA WithoutFacts ==
    ASSUME NEW q \in Seq(Run), NEW r
    PROVE  /\ Without(q, r) \in Seq(Run)
           /\ \/ (\A i \in 1..Len(q) : q[i] # r) /\ Without(q, r) = q
              \/ \E i \in 1..Len(q) :
                    /\ q[i] = r /\ Len(Without(q, r)) = Len(q) - 1
                    /\ \A p \in 1..(Len(q) - 1) :
                          Without(q, r)[p] = IF p < i THEN q[p] ELSE q[p + 1]
<1>1. CASE \A i \in 1..Len(q) : q[i] # r
  BY <1>1 DEF Without
<1>2. CASE \E i \in 1..Len(q) : q[i] = r
  <2>1. PICK i \in 1..Len(q) : q[i] = r /\ Without(q, r) = SubSeq(q, 1, i - 1) \o SubSeq(q, i + 1, Len(q))
    BY <1>2, WithoutShape
  <2> DEFINE front == SubSeq(q, 1, i - 1)
             back  == SubSeq(q, i + 1, Len(q))
  <2>2. /\ front \in Seq(Run) /\ Len(front) = i - 1
        /\ \A p \in 1..(i - 1) : front[p] = q[p]
    <3>1. (\A p \in 1..(i - 1) : q[p] \in Run) /\ 1 \in Int /\ i - 1 \in Int
      BY <2>1
    <3> QED BY <2>1, <3>1, SubSeqProperties
  <2>3. /\ back \in Seq(Run) /\ Len(back) = Len(q) - i
        /\ \A p \in 1..(Len(q) - i) : back[p] = q[i + p]
    <3>1. (\A p \in (i + 1)..Len(q) : q[p] \in Run) /\ i + 1 \in Int /\ Len(q) \in Int
      BY <2>1
    <3>2. /\ back \in Seq(Run)
          /\ Len(back) = IF i + 1 <= Len(q) THEN Len(q) - (i + 1) + 1 ELSE 0
          /\ \A p \in 1..(Len(q) - (i + 1) + 1) : back[p] = q[i + 1 + p - 1]
      BY <2>1, <3>1, SubSeqProperties
    <3> HIDE DEF back
    <3>3. i \in Int /\ i <= Len(q) /\ Len(q) \in Nat
      BY <2>1
    <3> QED BY <3>2, <3>3
  <2> HIDE DEF front, back
  <2>4. Without(q, r) = front \o back
    BY <2>1 DEF front, back
  <2>5. /\ Without(q, r) \in Seq(Run) /\ Len(Without(q, r)) = Len(q) - 1
        /\ \A p \in 1..(Len(q) - 1) : Without(q, r)[p] = IF p < i THEN q[p] ELSE q[p + 1]
    <3>1. i \in Int /\ i >= 1 /\ i <= Len(q) /\ Len(q) \in Nat
      BY <2>1
    <3>2. /\ front \o back \in Seq(Run) /\ Len(front \o back) = Len(front) + Len(back)
          /\ \A p \in 1..(Len(front) + Len(back)) :
                (front \o back)[p] = IF p <= Len(front) THEN front[p] ELSE back[p - Len(front)]
      BY <2>2, <2>3, ConcatProperties
    <3> QED BY <2>2, <2>3, <2>4, <3>1, <3>2
  <2> QED BY <2>1, <2>5
<1> QED BY <1>1, <1>2

LEMMA WithoutType ==
    ASSUME NEW q \in Seq(Run), NEW r
    PROVE  Without(q, r) \in Seq(Run)
BY WithoutFacts

LEMMA InitInv == SchedulerConstants /\ Init => SchedulerInv
<1> SUFFICES ASSUME SchedulerConstants, Init PROVE SchedulerInv
  OBVIOUS
<1>1. (CHOOSE t \in Task : TRUE) \in Task
  BY DEF SchedulerConstants
<1>2. recency \in Seq(Run)
  BY DEF Init
<1>3. TypeOK
  <2>1. task \in [Run -> Task]
    BY <1>1 DEF Init
  <2>2. semaphore \in Semaphores
    BY DEF Init, Free, Semaphores
  <2> QED BY <2>1, <2>2, <1>2 DEF Init, TypeOK, Rows, Times, Places, Hits, Outcomes
<1>4. QuietPlaces /\ ForcedAreLive /\ OpenRowsAreLive
  BY DEF Init, QuietPlaces, ForcedAreLive, OpenRowsAreLive, Open
<1>5. TriggeredAreIdle /\ TriggerKept
  BY DEF Init, TriggeredAreIdle, TriggerKept
<1>6. ExecutingHasRun /\ HandlesAreLive
  BY DEF Init, ExecutingHasRun, HandlesAreLive
<1> QED BY <1>3, <1>4, <1>5, <1>6 DEF SchedulerInv

-----------------------------------------------------------------------------
(***************************************************************************)
(* The semaphore.                                                          *)
(***************************************************************************)
Less == {p \in Nat \X Nat : p[1] < p[2]}

LEMMA LessWellFounded == IsWellFoundedOn(Less, Nat)
BY NatLessThanWellFounded DEF OpToRel, Less

\* There is a first of those that wait.
LEMMA MinIn ==
    ASSUME NEW S, S \subseteq Nat, S # {}
    PROVE  Min(S) \in S
<1>1. PICK x \in S : \A y \in S : <<y, x>> \notin Less
  BY LessWellFounded, WFMin
<1>2. ASSUME NEW y \in S PROVE x <= y
  <2>1. <<y, x>> \notin Less /\ x \in Nat /\ y \in Nat
    BY <1>1
  <2> QED BY <2>1 DEF Less
<1> QED BY <1>2 DEF Min

\* A permit that is free goes to a waiter, if one is pending.
LEMMA WokenFacts ==
    ASSUME NEW s \in Semaphores
    PROVE  /\ Woken(s) \in Semaphores /\ Woken(s).waiters = s.waiters
           /\ \/ Woken(s) = s /\ (s.value = 0 \/ Pending(s) = {})
              \/ \E i \in Pending(s) :
                    /\ s.value # 0 /\ Woken(s).value = s.value - 1
                    /\ Woken(s).granted = s.granted \cup {s.waiters[i]}
<1>1. /\ s.value \in Nat /\ s.waiters \in Seq(Run) /\ s.granted \subseteq Run
      /\ s = [value |-> s.value, waiters |-> s.waiters, granted |-> s.granted]
  BY DEF Semaphores
<1>2. CASE s.value = 0 \/ Pending(s) = {}
  BY <1>2 DEF Woken
<1>3. CASE ~(s.value = 0 \/ Pending(s) = {})
  <2> DEFINE i == Min(Pending(s))
  <2>1. i \in Pending(s)
    <3>1. Pending(s) \subseteq Nat
      BY DEF Pending
    <3> QED BY <1>3, <3>1, MinIn
  <2>2. Woken(s) = [s EXCEPT !.value = @ - 1, !.granted = @ \cup {s.waiters[i]}]
    BY <1>3 DEF Woken
  <2>3. s.waiters[i] \in Run
    BY <1>1, <2>1 DEF Pending
  <2> HIDE DEF i
  <2>4. /\ Woken(s).value = s.value - 1 /\ Woken(s).waiters = s.waiters
        /\ Woken(s).granted = s.granted \cup {s.waiters[i]}
    BY <1>1, <2>2
  <2>5. Woken(s) \in Semaphores
    <3>1. s.value - 1 \in Nat
      BY <1>1, <1>3
    <3> QED BY <1>1, <2>2, <2>3, <3>1 DEF Semaphores
  <2> QED BY <1>3, <2>1, <2>4, <2>5
<1> QED BY <1>2, <1>3

\* Runs that leave the block or the queue leave a semaphore.
LEMMA SemaphoreTypes ==
    ASSUME NEW s \in Semaphores, NEW r \in Run
    PROVE  /\ Released(r, s) \in Semaphores /\ Unqueued(r, s) \in Semaphores
           /\ Abandoned(r, s) \in Semaphores
           /\ [s EXCEPT !.waiters = Append(@, r)] \in Semaphores
           /\ ~Locked(s) => [s EXCEPT !.value = @ - 1] \in Semaphores
<1>1. s.value \in Nat /\ s.waiters \in Seq(Run) /\ s.granted \subseteq Run
  BY DEF Semaphores
<1>2. [s EXCEPT !.value = @ + 1] \in Semaphores
  BY <1>1 DEF Semaphores
<1>3. Released(r, s) \in Semaphores
  BY <1>2, WokenFacts DEF Released
<1>4. ASSUME NEW u \in Semaphores PROVE Unqueued(r, u) \in Semaphores
  <2>1. Without(u.waiters, r) \in Seq(Run)
    BY WithoutType DEF Semaphores
  <2>2. [u EXCEPT !.waiters = Without(@, r), !.granted = @ \ {r}] \in Semaphores
    BY <2>1 DEF Semaphores
  <2> QED BY <2>2, WokenFacts DEF Unqueued
<1>5. Abandoned(r, s) \in Semaphores
  BY <1>2, <1>4 DEF Abandoned
<1>6. [s EXCEPT !.waiters = Append(@, r)] \in Semaphores
  <2>1. Append(s.waiters, r) \in Seq(Run)
    BY <1>1
  <2> QED BY <2>1 DEF Semaphores
<1>7. ~Locked(s) => [s EXCEPT !.value = @ - 1] \in Semaphores
  BY <1>1 DEF Locked, Semaphores
<1> QED BY <1>3, <1>4, <1>5, <1>6, <1>7

-----------------------------------------------------------------------------
(***************************************************************************)
(* A step of one run.  HandleOf and MembersOf are what holds of handles    *)
(* and members while run r takes its step: what does not belong to r       *)
(* belongs to another run that lives.                                      *)
(***************************************************************************)
Others(r) == Run \ {r}

HandleOf(r, h) ==
    /\ h \in [Task -> Run \cup {NoRun}]
    /\ \A t \in Task : h[t] = r => t = task[r]
    /\ \A t \in Task : h[t] \in Others(r) =>
          task[h[t]] = t /\ pc[h[t]] \notin {"none", "created", "chained"}

MembersOf(r, x) ==
    /\ x \subseteq Task
    /\ \A t \in x :
          \/ t = task[r] /\ r \notin forced
          \/ \E s \in Others(r) : task[s] = t /\ s \notin forced /\ pc[s] \notin {"none", "chained"}

LEMMA OwnEntries ==
    ASSUME SchedulerConstants, TypeOK, ExecutingHasRun, HandlesAreLive, NEW r \in Run
    PROVE  HandleOf(r, handle) /\ MembersOf(r, executing)
<1>1. HandleOf(r, handle)
  BY DEF SchedulerConstants, TypeOK, HandlesAreLive, HandleOf, Others
<1>2. MembersOf(r, executing)
  <2>1. ASSUME NEW t \in executing
        PROVE  \/ t = task[r] /\ r \notin forced
               \/ \E s \in Others(r) : task[s] = t /\ s \notin forced /\ pc[s] \notin {"none", "chained"}
    BY DEF ExecutingHasRun, Others
  <2> QED BY <2>1 DEF MembersOf, TypeOK
<1> QED BY <1>1, <1>2

\* A run that is released leaves nothing behind.
LEMMA ReleaseFacts ==
    ASSUME SchedulerConstants, TypeOK, ForcedAreLive,
           NEW r \in Run, NEW h, NEW x, HandleOf(r, h), MembersOf(r, x),
           Forget(r, h, x), forced' = forced \ {r},
           pc' = [pc EXCEPT ![r] = "none"] \/ pc' = [pc EXCEPT ![r] = "chained"],
           \A s \in Others(r) : task'[s] = task[s]
    PROVE  /\ handle' \in [Task -> Run \cup {NoRun}] /\ executing' \subseteq Task
           /\ ForcedAreLive' /\ ExecutingHasRun' /\ HandlesAreLive'
<1>1. task[r] \in Task /\ forced \subseteq Run /\ \A s \in Others(r) : pc'[s] = pc[s]
  BY DEF TypeOK, Others
<1>2. handle' \in [Task -> Run \cup {NoRun}] /\ executing' \subseteq Task
  BY DEF Forget, HandleOf, MembersOf, TypeOK
<1>3. ForcedAreLive'
  BY <1>1 DEF ForcedAreLive, Others
<1>4. \A t \in executing' :
         \E s \in Others(r) : task[s] = t /\ s \notin forced /\ pc[s] \notin {"none", "chained"}
  BY DEF Forget, MembersOf
<1>5. ExecutingHasRun'
  BY <1>1, <1>4 DEF ExecutingHasRun, Others
<1>6. \A t \in Task : handle'[t] # r
  BY <1>1 DEF Forget, HandleOf, SchedulerConstants
<1>7. \A t \in Task : handle'[t] # NoRun => h[t] = handle'[t] /\ h[t] \in Others(r)
  BY <1>1, <1>2, <1>6 DEF Forget, HandleOf, Others
<1>8. HandlesAreLive'
  BY <1>1, <1>7 DEF HandlesAreLive, HandleOf
<1> QED BY <1>2, <1>3, <1>5, <1>8

\* A run that goes on keeps what it has.
LEMMA KeepFacts ==
    ASSUME SchedulerConstants, TypeOK, ForcedAreLive,
           NEW r \in Run, NEW h, NEW x, HandleOf(r, h), MembersOf(r, x),
           handle' = h, executing' = x, forced' = forced, task' = task,
           NEW p \in Places \ {"none", "created", "chained"},
           pc' = [pc EXCEPT ![r] = p]
    PROVE  /\ handle' \in [Task -> Run \cup {NoRun}] /\ executing' \subseteq Task
           /\ ForcedAreLive' /\ ExecutingHasRun' /\ HandlesAreLive'
<1>1. pc'[r] = p /\ forced \subseteq Run /\ \A s \in Others(r) : pc'[s] = pc[s]
  BY DEF TypeOK, Others
<1>2. handle' \in [Task -> Run \cup {NoRun}] /\ executing' \subseteq Task
  BY DEF HandleOf, MembersOf
<1>3. ForcedAreLive'
  BY <1>1 DEF ForcedAreLive, Others
<1>4. ExecutingHasRun'
  BY <1>1 DEF ExecutingHasRun, MembersOf, Others
<1>5. HandlesAreLive'
  BY <1>1 DEF HandlesAreLive, HandleOf, Others
<1> QED BY <1>2, <1>3, <1>4, <1>5

\* Rows and places: enough to look at the run that moves.
LEMMA RowFacts ==
    ASSUME TypeOK, QuietPlaces, OpenRowsAreLive, up, up', NEW r \in Run,
           \A s \in Others(r) : pc'[s] = pc[s] /\ (row'[s] = row[s] \/ row'[s] = "settled"),
           pc'[r] \in {"none", "created", "chained", "deferring"} => row'[r] \notin {"queued", "running"}
    PROVE  QuietPlaces' /\ OpenRowsAreLive'
BY DEF QuietPlaces, OpenRowsAreLive, Open, Others

\* Triggers: nothing starts.
LEMMA IdleFacts ==
    ASSUME TriggeredAreIdle, owed' = owed,
           \A s \in Run : Started(s)' => Started(s) /\ task'[s] = task[s]
    PROVE  TriggeredAreIdle'
BY DEF TriggeredAreIdle

-----------------------------------------------------------------------------
(***************************************************************************)
(* A run, from its start to its executor.                                  *)
(***************************************************************************)
LEMMA SettledType ==
    ASSUME TypeOK, NEW r \in Run, Settled(r)
    PROVE  /\ row' \in [Run -> Rows] /\ recency' \in Seq(Run)
           /\ row'[r] = "settled" /\ \A s \in Others(r) : row'[s] = row[s]
BY WithoutType DEF TypeOK, Settled, Rows, Others

LEMMA VanishFacts ==
    ASSUME TypeOK, NEW r \in Run, Vanish(r)
    PROVE  /\ pc' \in [Run -> Places] /\ hit' \in [Run -> Hits]
           /\ loaded' \in [Run -> Times] /\ outcome' \in [Run -> Outcomes]
           /\ forced' \subseteq Run
           /\ pc'[r] = "none" /\ \A s \in Others(r) : pc'[s] = pc[s]
BY DEF TypeOK, Vanish, Places, Hits, Times, Outcomes, Others

\* The end of a run, of whatever kind: its row is settled, or was, its
\* entries go, and no trigger of an idle task is dropped.
LEMMA EndInv ==
    ASSUME SchedulerConstants, SchedulerInv, up, NEW r \in Run,
           NEW h, NEW x, HandleOf(r, h), MembersOf(r, x), Release(r, h, x),
           Settled(r) \/ (UNCHANGED <<row, recency>> /\ ~Open(r)),
           nextRun' \in [Task -> Times], active' \subseteq Task,
           UNCHANGED <<up, marks, foreground, task>>, semaphore' \in Semaphores,
           owed' \in [Task -> {"no", "idle", "busy"}],
           \A t \in Task : owed'[t] = owed[t] \/ owed'[t] = "no",
           \A t \in Task : owed'[t] = "idle" => nextRun'[t] # "none"
    PROVE  SchedulerInv'
<1> USE DEF SchedulerInv
<1>1. /\ pc' \in [Run -> Places] /\ hit' \in [Run -> Hits]
      /\ loaded' \in [Run -> Times] /\ outcome' \in [Run -> Outcomes]
      /\ forced' \subseteq Run
      /\ pc'[r] = "none" /\ \A s \in Others(r) : pc'[s] = pc[s]
  BY VanishFacts DEF Release
<1>2. /\ handle' \in [Task -> Run \cup {NoRun}] /\ executing' \subseteq Task
      /\ ForcedAreLive' /\ ExecutingHasRun' /\ HandlesAreLive'
  <2>1. Forget(r, h, x) /\ forced' = forced \ {r} /\ pc' = [pc EXCEPT ![r] = "none"]
    BY DEF Release, Vanish
  <2> QED BY <2>1, ReleaseFacts
<1>3. /\ row' \in [Run -> Rows] /\ recency' \in Seq(Run)
      /\ row'[r] \notin {"queued", "running"}
      /\ \A s \in Others(r) : row'[s] = row[s]
  <2>1. CASE Settled(r)
    BY <2>1, SettledType
  <2>2. CASE UNCHANGED <<row, recency>> /\ ~Open(r)
    BY <2>2 DEF TypeOK, Open
  <2> QED BY <2>1, <2>2
<1>4. TypeOK'
  BY <1>1, <1>2, <1>3 DEF TypeOK
<1>5. QuietPlaces' /\ OpenRowsAreLive'
  BY <1>1, <1>3, RowFacts
<1>6. TriggeredAreIdle'
  <2>1. \A s \in Run : Started(s)' => Started(s)
    BY <1>1 DEF Started, Others
  <2> QED BY <2>1 DEF TriggeredAreIdle
<1>7. TriggerKept'
  BY DEF TriggerKept
<1> QED BY <1>2, <1>4, <1>5, <1>6, <1>7

\* The executor is called.
LEMMA LaunchInv ==
    ASSUME SchedulerConstants, SchedulerInv, up, NEW r \in Run,
           NEW h, NEW x, HandleOf(r, h), MembersOf(r, x), Launch(r),
           handle' = h, executing' = x, UNCHANGED <<up, marks, foreground, task>>,
           semaphore' \in Semaphores
    PROVE  SchedulerInv'
<1> USE DEF SchedulerInv
<1>1. /\ pc' = [pc EXCEPT ![r] = "working"] /\ forced' = forced
      /\ pc'[r] = "working" /\ \A s \in Others(r) : pc'[s] = pc[s]
  BY DEF Launch, TypeOK, Others
<1>2. /\ handle' \in [Task -> Run \cup {NoRun}] /\ executing' \subseteq Task
      /\ ForcedAreLive' /\ ExecutingHasRun' /\ HandlesAreLive'
  BY <1>1, KeepFacts DEF Places
<1>3. /\ row' \in [Run -> Rows] /\ \A s \in Others(r) : row'[s] = row[s]
  BY DEF Launch, TypeOK, Rows, Others
<1>4. recency' \in Seq(Run)
  BY WithoutType DEF Launch, TypeOK
<1>5. owed' \in [Task -> {"no", "idle", "busy"}] /\ task[r] \in Task
      /\ owed'[task[r]] = "no" /\ \A t \in Task \ {task[r]} : owed'[t] = owed[t]
  BY DEF Launch, TypeOK
<1>6. loaded' \in [Run -> Times]
  BY DEF Launch, TypeOK
<1>7. TypeOK'
  BY <1>1, <1>2, <1>3, <1>4, <1>5, <1>6 DEF TypeOK, Launch, Places
<1>8. QuietPlaces' /\ OpenRowsAreLive'
  BY <1>1, <1>3, RowFacts
<1>9. TriggeredAreIdle'
  <2>1. \A s \in Others(r) : Started(s)' => Started(s)
    BY <1>1 DEF Started
  <2> QED BY <1>5, <2>1 DEF TriggeredAreIdle, Others
<1>10. TriggerKept'
  BY <1>5 DEF TriggerKept, Launch
<1> QED BY <1>2, <1>7, <1>8, <1>9, <1>10

LEMMA EnterInv ==
    ASSUME SchedulerConstants, SchedulerInv, up, NEW r \in Run,
           NEW h, NEW x, HandleOf(r, h), MembersOf(r, x),
           NEW s \in Semaphores, Enter(r, h, x, s),
           UNCHANGED <<up, marks, foreground, task>>
    PROVE  SchedulerInv'
<1>1. CASE Skip(r, h, x, s)
  BY <1>1, EndInv, SemaphoreTypes DEF Skip, SchedulerInv, TypeOK, TriggerKept
<1>2. CASE Refuse(r, h, x, s)
  <2>1. /\ nextRun' \in [Task -> Times] /\ active' \subseteq Task
        /\ owed' \in [Task -> {"no", "idle", "busy"}]
    BY <1>2 DEF Refuse, SchedulerInv, TypeOK, Times
  <2>2. \A t \in Task : owed'[t] = owed[t] \/ owed'[t] = "no"
    BY <1>2 DEF Refuse, SchedulerInv, TypeOK
  <2>3. \A t \in Task : owed'[t] = "idle" => nextRun'[t] # "none"
    BY <1>2 DEF Refuse, SchedulerInv, TypeOK, TriggerKept
  <2> QED BY <1>2, <2>1, <2>2, <2>3, EndInv, SemaphoreTypes DEF Refuse
<1>3. CASE AwaitQuiet(r, h, x, s)
  <2> USE DEF SchedulerInv
  <2>1. /\ pc' = [pc EXCEPT ![r] = "quiet"] /\ forced' = forced
        /\ pc'[r] = "quiet" /\ \A q \in Others(r) : pc'[q] = pc[q]
    BY <1>3 DEF AwaitQuiet, TypeOK, Others
  <2>2. /\ handle' \in [Task -> Run \cup {NoRun}] /\ executing' \subseteq Task
        /\ ForcedAreLive' /\ ExecutingHasRun' /\ HandlesAreLive'
    BY <1>3, <2>1, KeepFacts DEF AwaitQuiet, Places
  <2>3. /\ row' \in [Run -> Rows] /\ \A q \in Others(r) : row'[q] = row[q]
        /\ recency' \in Seq(Run)
    BY <1>3 DEF AwaitQuiet, TypeOK, Rows, Others
  <2>4. TypeOK'
    BY <1>3, <2>1, <2>2, <2>3 DEF AwaitQuiet, TypeOK, Places
  <2>5. QuietPlaces' /\ OpenRowsAreLive'
    BY <2>1, <2>3, RowFacts
  <2>6. TriggeredAreIdle' /\ TriggerKept'
    <3>1. \A q \in Run : Started(q)' => Started(q)
      BY <2>1 DEF Started, Others
    <3> QED BY <1>3, <3>1, IdleFacts DEF AwaitQuiet, TriggerKept
  <2> QED BY <2>2, <2>4, <2>5, <2>6
<1>4. CASE Launch(r) /\ handle' = h /\ executing' = x /\ semaphore' = s
  BY <1>4, LaunchInv
<1> QED BY <1>1, <1>2, <1>3, <1>4 DEF Enter

LEMMA BeginInv ==
    ASSUME SchedulerConstants, SchedulerInv, up, NEW r \in Run,
           pc[r] \in {"created", "chained"},
           NEW x, MembersOf(r, x), Begin(r, x),
           UNCHANGED <<up, marks, foreground, task>>
    PROVE  SchedulerInv'
<1> USE DEF SchedulerInv
<1> DEFINE h == [handle EXCEPT ![task[r]] = r]
<1>1. HandleOf(r, h)
  <2>1. HandleOf(r, handle) /\ task[r] \in Task
    BY OwnEntries DEF TypeOK
  <2> QED BY <2>1 DEF HandleOf, Others
<1>2. ASSUME NEW s \in Semaphores, Enter(r, h, x, s) PROVE SchedulerInv'
  <2> HIDE DEF h
  <2> QED BY <1>1, <1>2, EnterInv
<1>3. CASE Queue(r, h, x)
  <2> HIDE DEF h
  <2> USE DEF Queue
  <2>1. /\ handle' \in [Task -> Run \cup {NoRun}] /\ executing' \subseteq Task
        /\ ForcedAreLive' /\ ExecutingHasRun' /\ HandlesAreLive'
    BY <1>1, <1>3, KeepFacts DEF Places
  <2>2. /\ pc'[r] = "slot" /\ \A s \in Others(r) : pc'[s] = pc[s] /\ row'[s] = row[s]
        /\ row' \in [Run -> Rows] /\ pc' \in [Run -> Places]
    BY <1>3 DEF TypeOK, Others, Rows, Places
  <2>3. TypeOK'
    <3>1. recency' \in Seq(Run) /\ semaphore \in Semaphores
      BY <1>3 DEF TypeOK
    <3>2. semaphore' \in Semaphores
      BY <1>3, <3>1, SemaphoreTypes
    <3> QED BY <1>3, <2>1, <2>2, <3>1, <3>2 DEF TypeOK
  <2>4. QuietPlaces' /\ OpenRowsAreLive'
    BY <2>2, RowFacts
  <2>5. TriggeredAreIdle' /\ TriggerKept'
    <3>1. \A s \in Run : Started(s)' => Started(s)
      BY <2>2 DEF Started, Others
    <3> QED BY <1>3, <3>1, IdleFacts DEF TriggerKept
  <2> QED BY <2>1, <2>3, <2>4, <2>5
<1>4. semaphore \in Semaphores /\ (~Locked(semaphore) => [semaphore EXCEPT !.value = @ - 1] \in Semaphores)
  BY SemaphoreTypes DEF TypeOK
<1> QED BY <1>2, <1>3, <1>4 DEF Begin

LEMMA StartInv ==
    ASSUME SchedulerConstants, SchedulerInv, NEW r \in Run, Start(r)
    PROVE  SchedulerInv'
<1>1. MembersOf(r, executing)
  BY OwnEntries DEF SchedulerInv
<1> QED BY <1>1, BeginInv DEF Start

LEMMA StartChainedInv ==
    ASSUME SchedulerConstants, SchedulerInv, NEW r \in Run, StartChained(r)
    PROVE  SchedulerInv'
<1> USE DEF SchedulerInv
<1>1. HandleOf(r, handle) /\ MembersOf(r, executing) /\ r \notin forced
  BY OwnEntries DEF StartChained, ForcedAreLive
<1>2. CASE Vanish(r) /\ UNCHANGED <<database, executing, handle, semaphore, owed>>
  <2>1. \A t \in Task : handle[t] # r
    BY DEF StartChained, HandlesAreLive, SchedulerConstants
  <2>2. /\ pc' \in [Run -> Places] /\ hit' \in [Run -> Hits]
        /\ loaded' \in [Run -> Times] /\ outcome' \in [Run -> Outcomes]
        /\ forced' \subseteq Run
        /\ pc'[r] = "none" /\ \A s \in Others(r) : pc'[s] = pc[s]
    BY <1>2, VanishFacts
  <2>3. up /\ pc[r] = "chained" /\ forced' = forced
        /\ UNCHANGED <<up, marks, foreground, task>>
    BY <1>1, <1>2 DEF StartChained, Vanish
  <2>4. ~Open(r)
    BY <2>3 DEF QuietPlaces
  <2>5. TypeOK'
    BY <1>2, <2>2, <2>3 DEF TypeOK, database
  <2>6. QuietPlaces' /\ OpenRowsAreLive'
    BY <1>2, <2>2, <2>3, <2>4, RowFacts DEF database, Open
  <2>7. ExecutingHasRun' /\ HandlesAreLive' /\ ForcedAreLive'
    <3>1. ExecutingHasRun'
      BY <1>2, <2>2, <2>3 DEF ExecutingHasRun, Others
    <3>2. HandlesAreLive'
      BY <1>2, <2>1, <2>2, <2>3 DEF HandlesAreLive, Others, TypeOK
    <3>3. ForcedAreLive'
      BY <1>1, <2>2, <2>3 DEF ForcedAreLive, Others, TypeOK
    <3> QED BY <3>1, <3>2, <3>3
  <2>8. TriggeredAreIdle' /\ TriggerKept'
    <3>1. \A s \in Run : Started(s)' => Started(s)
      BY <2>2 DEF Started, Others
    <3> QED BY <1>2, <2>3, <3>1, IdleFacts DEF TriggerKept, database
  <2> QED BY <2>5, <2>6, <2>7, <2>8
<1>3. CASE Begin(r, executing \cup {task[r]})
  <2>1. MembersOf(r, executing \cup {task[r]})
    BY <1>1 DEF MembersOf, TypeOK
  <2> QED BY <1>3, <2>1, BeginInv DEF StartChained
<1> QED BY <1>2, <1>3 DEF StartChained

LEMMA AcquireSlotInv ==
    ASSUME SchedulerConstants, SchedulerInv, NEW r \in Run, AcquireSlot(r)
    PROVE  SchedulerInv'
<1>1. HandleOf(r, handle) /\ MembersOf(r, executing)
  BY OwnEntries DEF SchedulerInv
<1>2. Unqueued(r, semaphore) \in Semaphores
  BY SemaphoreTypes DEF SchedulerInv, TypeOK
<1> QED BY <1>1, <1>2, EnterInv DEF AcquireSlot, Resumes

LEMMA BecomeQuietInv ==
    ASSUME SchedulerConstants, SchedulerInv, NEW r \in Run, BecomeQuiet(r)
    PROVE  SchedulerInv'
<1>1. HandleOf(r, handle) /\ MembersOf(r, executing)
  BY OwnEntries DEF SchedulerInv
<1> QED BY <1>1, LaunchInv DEF BecomeQuiet, Resumes, process, SchedulerInv, TypeOK

-----------------------------------------------------------------------------
(***************************************************************************)
(* The end of a run.                                                       *)
(***************************************************************************)

\* A run that has started may write what it likes to the next_run of its
\* task; so may any run of a task without an event trigger.
LEMMA KeptFacts ==
    ASSUME SchedulerInv, NEW r \in Run, NEW v \in Times,
           Started(r) \/ task[r] \notin EventTask,
           owed' = owed, nextRun' = [nextRun EXCEPT ![task[r]] = v]
    PROVE  TriggerKept' /\ nextRun' \in [Task -> Times]
<1>1. owed[task[r]] # "idle" /\ task[r] \in Task
  BY DEF SchedulerInv, TriggeredAreIdle, TypeOK
<1> QED BY <1>1 DEF SchedulerInv, TriggerKept, TypeOK

LEMMA RescheduledFacts ==
    ASSUME SchedulerInv, NEW r \in Run, Started(r), owed' = owed, nextRun' = Rescheduled(r)
    PROVE  TriggerKept' /\ nextRun' \in [Task -> Times]
<1>1. PICK v \in Times : nextRun' = [nextRun EXCEPT ![task[r]] = v]
  <2>1. nextRun \in [Task -> Times] /\ task[r] \in Task
    BY DEF SchedulerInv, TypeOK
  <2>2. NextTime(task[r]) \in Times /\ "none" \in Times
    BY DEF NextTime, Times
  <2> QED BY <2>1, <2>2 DEF Rescheduled
<1> QED BY <1>1, KeptFacts

LEMMA DoNothingInv ==
    ASSUME SchedulerConstants, SchedulerInv, NEW r \in Run, DoNothing(r)
    PROVE  SchedulerInv'
<1>1. HandleOf(r, handle) /\ MembersOf(r, executing)
  BY OwnEntries DEF SchedulerInv
<1>2. TriggerKept' /\ nextRun' \in [Task -> Times]
  BY RescheduledFacts DEF DoNothing, Started
<1> QED BY <1>1, <1>2, EndInv, SemaphoreTypes DEF DoNothing, Resumes, TriggerKept, SchedulerInv, TypeOK

LEMMA PostponeInv ==
    ASSUME SchedulerConstants, SchedulerInv, NEW r \in Run, Postpone(r)
    PROVE  SchedulerInv'
<1>1. HandleOf(r, handle) /\ MembersOf(r, executing)
  BY OwnEntries DEF SchedulerInv
<1>2. TriggerKept' /\ nextRun' \in [Task -> Times]
  BY KeptFacts DEF Postpone, Started, Times
<1> QED BY <1>1, <1>2, EndInv, SemaphoreTypes DEF Postpone, Resumes, TriggerKept, SchedulerInv, TypeOK

LEMMA FinishCancelledInv ==
    ASSUME SchedulerConstants, SchedulerInv, NEW r \in Run, FinishCancelled(r)
    PROVE  SchedulerInv'
<1>1. HandleOf(r, handle) /\ MembersOf(r, executing)
  BY OwnEntries DEF SchedulerInv
<1>2. TriggerKept' /\ nextRun' \in [Task -> Times]
  <2>1. PICK v \in Times : nextRun' = [nextRun EXCEPT ![task[r]] = v]
    BY DEF FinishCancelled, NextTime, Times
  <2> QED BY <2>1, KeptFacts DEF FinishCancelled, Started
<1> QED BY <1>1, <1>2, EndInv, SemaphoreTypes DEF FinishCancelled, TriggerKept, SchedulerInv, TypeOK

LEMMA DeferQueuedInv ==
    ASSUME SchedulerConstants, SchedulerInv, NEW r \in Run, DeferQueued(r)
    PROVE  SchedulerInv'
<1>1. HandleOf(r, handle) /\ MembersOf(r, executing)
  BY OwnEntries DEF SchedulerInv
<1>2. TriggerKept' /\ nextRun' \in [Task -> Times]
  BY DEF DeferQueued, SchedulerInv, TypeOK, TriggerKept, Times
<1>3. ~Open(r)
  BY DEF DeferQueued, SchedulerInv, QuietPlaces
<1> QED BY <1>1, <1>2, <1>3, EndInv DEF DeferQueued, TriggerKept, SchedulerInv, TypeOK

LEMMA FailInv ==
    ASSUME SchedulerConstants, SchedulerInv, up, NEW r \in Run, Started(r), Fail(r),
           UNCHANGED <<up, marks, foreground, owed>>
    PROVE  SchedulerInv'
<1>1. HandleOf(r, handle) /\ MembersOf(r, executing)
  BY OwnEntries DEF SchedulerInv
<1>2. TriggerKept' /\ nextRun' \in [Task -> Times]
  <2>1. PICK v \in Times : nextRun' = [nextRun EXCEPT ![task[r]] = v]
    <3>1. nextRun[task[r]] \in Times
      BY DEF SchedulerInv, TypeOK
    <3> QED BY <3>1 DEF Fail, NextTime, Times
  <2> QED BY <2>1, KeptFacts
<1> QED BY <1>1, <1>2, EndInv, SemaphoreTypes DEF Fail, TriggerKept, SchedulerInv, TypeOK

\* The identifier may go on to the run of the next task.
LEMMA CompleteInv ==
    ASSUME SchedulerConstants, SchedulerInv, up, NEW r \in Run, NEW o, Started(r),
           Complete(r, o), UNCHANGED <<up, marks, foreground, owed>>
    PROVE  SchedulerInv'
<1> USE DEF SchedulerInv
<1>1. HandleOf(r, handle) /\ MembersOf(r, executing)
  BY OwnEntries
<1>2. /\ row' \in [Run -> Rows] /\ recency' \in Seq(Run)
      /\ row'[r] = "settled" /\ \A s \in Others(r) : row'[s] = row[s]
  BY SettledType DEF Complete
<1>3. /\ pc' = [pc EXCEPT ![r] = "none"] \/ pc' = [pc EXCEPT ![r] = "chained"]
      /\ pc' \in [Run -> Places] /\ pc'[r] \in {"none", "chained"}
      /\ \A s \in Others(r) : pc'[s] = pc[s]
  BY DEF Complete, TypeOK, Places, Others
<1>4. task' \in [Run -> Task] /\ \A s \in Others(r) : task'[s] = task[s]
  BY DEF Complete, TypeOK, Others, SchedulerConstants
<1>5. /\ handle' \in [Task -> Run \cup {NoRun}] /\ executing' \subseteq Task
      /\ ForcedAreLive' /\ ExecutingHasRun' /\ HandlesAreLive'
  BY <1>1, <1>3, <1>4, ReleaseFacts DEF Complete
<1>6. TriggerKept' /\ nextRun' \in [Task -> Times]
  BY RescheduledFacts DEF Complete
<1>7. active' \subseteq Task /\ forced' \subseteq Run
  BY DEF Complete, TypeOK
<1>8. hit' \in [Run -> Hits] /\ loaded' \in [Run -> Times] /\ outcome' \in [Run -> Outcomes]
  BY DEF Complete, TypeOK, Hits, Times, Outcomes
<1>9. TypeOK'
  <2>1. semaphore' \in Semaphores
    BY SemaphoreTypes DEF Complete, TypeOK
  <2> QED BY <1>2, <1>3, <1>4, <1>5, <1>6, <1>7, <1>8, <2>1 DEF TypeOK
<1>10. QuietPlaces' /\ OpenRowsAreLive'
  BY <1>2, <1>3, RowFacts
<1>11. TriggeredAreIdle'
  <2>1. \A s \in Run : Started(s)' => Started(s) /\ task'[s] = task[s]
    BY <1>3, <1>4 DEF Started, Others
  <2> QED BY <2>1, IdleFacts
<1> QED BY <1>5, <1>6, <1>9, <1>10, <1>11

LEMMA SettleInv ==
    ASSUME SchedulerConstants, SchedulerInv, up, NEW r \in Run, NEW o, Started(r),
           Settle(r, o), UNCHANGED <<up, marks, foreground, owed>>
    PROVE  SchedulerInv'
BY FailInv, CompleteInv DEF Settle

LEMMA CloseInv ==
    ASSUME SchedulerConstants, SchedulerInv, NEW r \in Run, Close(r)
    PROVE  SchedulerInv'
BY SettleInv DEF Close, Started

-----------------------------------------------------------------------------
(***************************************************************************)
(* Steps that move a run on without ending it.                             *)
(***************************************************************************)

\* Run r goes from one place to another, its entries are kept or given up.
LEMMA MoveInv ==
    ASSUME SchedulerConstants, SchedulerInv, up, NEW r \in Run,
           NEW p \in Places \ {"none", "created", "chained"}, pc' = [pc EXCEPT ![r] = p],
           p = "deferring" => row'[r] \notin {"queued", "running"},
           Started(r)' => Started(r),
           UNCHANGED <<row, recency>> \/ Settled(r),
           hit' \in [Run -> Hits], outcome' \in [Run -> Outcomes],
           Forget(r, handle, executing) \/ UNCHANGED <<handle, executing>>,
           semaphore' \in Semaphores,
           UNCHANGED <<active, nextRun, up, marks, foreground, task, forced, loaded, owed>>
    PROVE  SchedulerInv'
<1> USE DEF SchedulerInv
<1>1. pc'[r] = p /\ (\A s \in Others(r) : pc'[s] = pc[s]) /\ pc' \in [Run -> Places]
  BY DEF TypeOK, Others
<1>2. HandleOf(r, handle) /\ MembersOf(r, executing)
  BY OwnEntries
<1>3. HandleOf(r, handle') /\ MembersOf(r, executing')
  <2>1. CASE Forget(r, handle, executing)
    <3>1. task[r] \in Task /\ handle' \in [Task -> Run \cup {NoRun}]
      BY <1>2, <2>1 DEF Forget, TypeOK, HandleOf
    <3>2. \A t \in Task : handle'[t] # NoRun => handle'[t] = handle[t]
      BY <1>2, <2>1, <3>1 DEF Forget, HandleOf
    <3>3. HandleOf(r, handle')
      BY <1>2, <3>1, <3>2 DEF HandleOf, Others, SchedulerConstants
    <3>4. MembersOf(r, executing')
      BY <1>2, <2>1 DEF Forget, MembersOf
    <3> QED BY <3>3, <3>4
  <2>2. CASE UNCHANGED <<handle, executing>>
    BY <1>2, <2>2
  <2> QED BY <2>1, <2>2
<1>4. /\ handle' \in [Task -> Run \cup {NoRun}] /\ executing' \subseteq Task
      /\ ForcedAreLive' /\ ExecutingHasRun' /\ HandlesAreLive'
  <2> DEFINE h == handle'
             x == executing'
  <2>1. HandleOf(r, h) /\ MembersOf(r, x) /\ handle' = h /\ executing' = x
    BY <1>3
  <2> HIDE DEF h, x
  <2> QED BY <2>1, KeepFacts
<1>5. row' \in [Run -> Rows] /\ recency' \in Seq(Run) /\ \A s \in Others(r) : row'[s] = row[s]
  <2>1. CASE Settled(r)
    BY <2>1, SettledType
  <2> QED BY <2>1 DEF TypeOK
<1>6. TypeOK'
  BY <1>1, <1>4, <1>5 DEF TypeOK
<1>7. QuietPlaces' /\ OpenRowsAreLive'
  BY <1>1, <1>5, RowFacts
<1>8. TriggeredAreIdle' /\ TriggerKept'
  <2>1. \A s \in Run : Started(s)' => Started(s)
    BY <1>1 DEF Started, Others
  <2> QED BY <2>1, IdleFacts DEF TriggerKept
<1> QED BY <1>4, <1>6, <1>7, <1>8

LEMMA ConcludeInv ==
    ASSUME SchedulerConstants, SchedulerInv, NEW r \in Run,
           NEW o \in Outcomes \ {"none"}, Conclude(r, o)
    PROVE  SchedulerInv'
<1>1. up /\ Started(r)
  BY DEF Conclude, Resumes, Started
<1>2. CASE pc' = [pc EXCEPT ![r] = "closing"]
  <2>1. CASE ~Gated(r) /\ Settle(r, o)
    BY <1>1, <2>1, SettleInv DEF Conclude
  <2>2. CASE /\ outcome' = [outcome EXCEPT ![r] = o]
             /\ UNCHANGED <<database, executing, handle, semaphore, task, forced, hit, loaded>>
    <3>1. outcome' \in [Run -> Outcomes] /\ hit' \in [Run -> Hits] /\ semaphore' \in Semaphores
      BY <2>2 DEF SchedulerInv, TypeOK
    <3>2. "closing" \in Places \ {"none", "created", "chained"}
      BY DEF Places
    <3> QED BY <1>1, <1>2, <2>2, <3>1, <3>2, MoveInv DEF Conclude, database
  <2> QED BY <2>1, <2>2 DEF Conclude
<1>3. CASE Settle(r, o)
  BY <1>1, <1>3, SettleInv DEF Conclude
<1> QED BY <1>2, <1>3 DEF Conclude

LEMMA CancelQueuedInv ==
    ASSUME SchedulerConstants, SchedulerInv, NEW r \in Run, CancelQueued(r)
    PROVE  SchedulerInv'
<1>1. "aborting" \in Places \ {"none", "created", "chained"} /\ ~Started(r)'
  BY DEF Places, Started, CancelQueued, SchedulerInv, TypeOK
<1>2. hit' \in [Run -> Hits]
  BY DEF CancelQueued, SchedulerInv, TypeOK, Hits
<1>3. Forget(r, handle, executing) \/ UNCHANGED <<handle, executing>>
  BY DEF CancelQueued
<1>4. semaphore' \in Semaphores
  <2>1. semaphore \in Semaphores
    BY DEF SchedulerInv, TypeOK
  <2>2. Released(r, semaphore) \in Semaphores /\ Abandoned(r, semaphore) \in Semaphores
    BY <2>1, SemaphoreTypes
  <2> QED BY <2>2 DEF CancelQueued
<1> QED BY <1>1, <1>2, <1>3, <1>4, MoveInv DEF CancelQueued, database, SchedulerInv, TypeOK

LEMMA CancelWorkingInv ==
    ASSUME SchedulerConstants, SchedulerInv, NEW r \in Run, CancelWorking(r)
    PROVE  SchedulerInv'
<1>1. PICK p \in {"pausing", "finishing"} : pc' = [pc EXCEPT ![r] = p]
  BY DEF CancelWorking
<1>2. p \in Places \ {"none", "created", "chained"} /\ p # "deferring" /\ Started(r)
  BY DEF Places, Started, CancelWorking
<1>3. hit' \in [Run -> Hits]
  BY DEF CancelWorking, SchedulerInv, TypeOK, Hits
<1> QED BY <1>1, <1>2, <1>3, MoveInv DEF CancelWorking, database, process, SchedulerInv, TypeOK

LEMMA AbortQueuedInv ==
    ASSUME SchedulerConstants, SchedulerInv, NEW r \in Run, AbortQueued(r)
    PROVE  SchedulerInv'
<1>1. "deferring" \in Places \ {"none", "created", "chained"} /\ ~Started(r)'
  BY DEF Places, Started, AbortQueued, SchedulerInv, TypeOK
<1>2. row'[r] \notin {"queued", "running"}
  BY DEF AbortQueued, Open, Settled, SchedulerInv, TypeOK
<1> QED BY <1>1, <1>2, MoveInv DEF AbortQueued, process, SchedulerInv, TypeOK
-----------------------------------------------------------------------------
(***************************************************************************)
(* Dispatch.                                                               *)
(***************************************************************************)

\* New runs, for the tasks ts: their identifiers were free, and unless they
\* were forced their tasks count as executing.
LEMMA CreateInv ==
    ASSUME SchedulerConstants, SchedulerInv, up, up', NEW new \in SUBSET FreeRuns,
           task' \in [Run -> Task], \A r \in Run \ new : task'[r] = task[r],
           pc' = [r \in Run |-> IF r \in new THEN "created" ELSE pc[r]],
           hit' = [r \in Run |-> IF r \in new THEN "no" ELSE hit[r]],
           row' = [r \in Run |-> IF r \in new THEN "new" ELSE row[r]],
           forced \subseteq forced', forced' \subseteq forced \cup new,
           executing \subseteq executing',
           \A t \in executing' \ executing : t \in Task /\ \E r \in new : task'[r] = t /\ r \notin forced',
           nextRun' \in [Task -> Times], owed' \in [Task -> {"no", "idle", "busy"}],
           TriggerKept', \A t \in Task : owed'[t] # "no" => t \in EventTask,
           \A t \in Task : owed'[t] = "idle" => \A r \in Run : Started(r) => task[r] # t,
           UNCHANGED <<recency, active, handle, marks, foreground, semaphore, loaded, outcome>>
    PROVE  SchedulerInv'
<1> USE DEF SchedulerInv
<1>1. \A r \in new : r \in Run /\ pc[r] = "none" /\ pc'[r] = "created" /\ row'[r] = "new"
  BY DEF FreeRuns, Live
<1>2. \A r \in Run \ new : pc'[r] = pc[r] /\ row'[r] = row[r]
  OBVIOUS
<1>3. pc' \in [Run -> Places] /\ hit' \in [Run -> Hits] /\ row' \in [Run -> Rows]
  BY DEF TypeOK, Places, Hits, Rows
<1>4. TypeOK'
  <2>1. forced' \subseteq Run /\ executing' \subseteq Task
    BY <1>1 DEF TypeOK
  <2> QED BY <1>3, <2>1 DEF TypeOK
<1>5. QuietPlaces' /\ OpenRowsAreLive'
  <2>1. QuietPlaces'
    BY <1>1, <1>2 DEF QuietPlaces, Open
  <2>2. OpenRowsAreLive'
    BY <1>1, <1>2 DEF OpenRowsAreLive, Open
  <2> QED BY <2>1, <2>2
<1>6. ForcedAreLive'
  BY <1>1, <1>2 DEF ForcedAreLive, TypeOK
<1>7. ExecutingHasRun'
  <2>1. ASSUME NEW t \in executing
        PROVE  \E r \in Run : task'[r] = t /\ r \notin forced' /\ pc'[r] \notin {"none", "chained"}
    <3>1. PICK r \in Run : task[r] = t /\ r \notin forced /\ pc[r] \notin {"none", "chained"}
      BY DEF ExecutingHasRun
    <3>2. r \notin new
      BY <1>1, <3>1
    <3> QED BY <1>2, <3>1, <3>2
  <2>2. ASSUME NEW t \in executing' \ executing
        PROVE  \E r \in Run : task'[r] = t /\ r \notin forced' /\ pc'[r] \notin {"none", "chained"}
    BY <1>1
  <2> QED BY <2>1, <2>2 DEF ExecutingHasRun
<1>8. HandlesAreLive'
  <2>1. \A t \in Task : handle[t] # NoRun => handle[t] \in Run \ new
    <3> TAKE t \in Task
    <3>1. handle[t] # NoRun => handle[t] \in Run /\ pc[handle[t]] # "none"
      BY DEF HandlesAreLive, TypeOK
    <3> QED BY <1>1, <3>1
  <2> QED BY <1>2, <2>1 DEF HandlesAreLive
<1>9. TriggeredAreIdle'
  BY <1>1, <1>2 DEF TriggeredAreIdle, Started
<1> QED BY <1>4, <1>5, <1>6, <1>7, <1>8, <1>9

LEMMA CreateOne ==
    ASSUME SchedulerInv, NEW r \in Run, NEW t \in Task, Create(r, t)
    PROVE  /\ task' \in [Run -> Task] /\ task'[r] = t
           /\ \A s \in Run \ {r} : task'[s] = task[s]
           /\ pc' = [s \in Run |-> IF s \in {r} THEN "created" ELSE pc[s]]
           /\ hit' = [s \in Run |-> IF s \in {r} THEN "no" ELSE hit[s]]
           /\ row' = [s \in Run |-> IF s \in {r} THEN "new" ELSE row[s]]
BY DEF Create, SchedulerInv, TypeOK

LEMMA CheckDueTasksInv ==
    ASSUME SchedulerConstants, SchedulerInv, CheckDueTasks
    PROVE  SchedulerInv'
<1>1. PICK f \in [Due -> FreeRuns] :
        /\ \A s, t \in Due : f[s] = f[t] => s = t
        /\ task' = [r \in Run |-> IF r \in {f[t] : t \in Due}
                                  THEN CHOOSE t \in Due : f[t] = r ELSE task[r]]
        /\ pc' = [r \in Run |-> IF r \in {f[t] : t \in Due} THEN "created" ELSE pc[r]]
        /\ hit' = [r \in Run |-> IF r \in {f[t] : t \in Due} THEN "no" ELSE hit[r]]
        /\ row' = [r \in Run |-> IF r \in {f[t] : t \in Due} THEN "new" ELSE row[r]]
  BY DEF CheckDueTasks
<1> DEFINE new == {f[t] : t \in Due}
<1>2. /\ up /\ up' /\ executing' = executing \cup Due
      /\ UNCHANGED <<recency, active, nextRun, handle, marks, foreground, semaphore, forced,
                     loaded, outcome, owed>>
  BY DEF CheckDueTasks
<1>3. Due \subseteq Task /\ new \in SUBSET FreeRuns /\ FreeRuns \subseteq Run
  BY DEF Due, SchedulerInv, TypeOK, FreeRuns
<1>4. \A r \in new : task'[r] \in Due /\ f[task'[r]] = r
  <2> TAKE r \in new
  <2>1. PICK t \in Due : f[t] = r
    OBVIOUS
  <2>2. r \in Run /\ task'[r] = CHOOSE s \in Due : f[s] = r
    BY <1>1, <1>3
  <2> QED BY <2>1, <2>2
<1>5. \A t \in Due : f[t] \in new /\ task'[f[t]] = t
  BY <1>1, <1>4
<1>6. task' \in [Run -> Task] /\ \A r \in Run \ new : task'[r] = task[r]
  <2>1. \A r \in Run \ new : task'[r] = task[r]
    BY <1>1
  <2>2. \A r \in Run : task'[r] \in Task
    BY <1>3, <1>4, <2>1 DEF SchedulerInv, TypeOK
  <2>3. task' = [r \in Run |-> task'[r]]
    BY <1>1
  <2> QED BY <2>1, <2>2, <2>3
<1>7. \A t \in executing' \ executing : t \in Task /\ \E r \in new : task'[r] = t /\ r \notin forced'
  <2>1. \A r \in new : r \notin forced
    BY <1>3 DEF SchedulerInv, ForcedAreLive, FreeRuns, Live
  <2> QED BY <1>2, <1>3, <1>5, <2>1
<1>8. TriggerKept'
  BY <1>2 DEF SchedulerInv, TriggerKept
<1>9. /\ pc' = [r \in Run |-> IF r \in new THEN "created" ELSE pc[r]]
      /\ hit' = [r \in Run |-> IF r \in new THEN "no" ELSE hit[r]]
      /\ row' = [r \in Run |-> IF r \in new THEN "new" ELSE row[r]]
  BY <1>1
<1>10. /\ nextRun' \in [Task -> Times] /\ owed' \in [Task -> {"no", "idle", "busy"}]
       /\ \A t \in Task : owed'[t] # "no" => t \in EventTask
       /\ \A t \in Task : owed'[t] = "idle" => \A r \in Run : Started(r) => task[r] # t
  BY <1>2 DEF SchedulerInv, TypeOK, TriggeredAreIdle
<1> HIDE DEF new
<1> QED BY <1>2, <1>3, <1>6, <1>7, <1>8, <1>9, <1>10, CreateInv

\* Dispatch, with what a trigger may have written before.
LEMMA DispatchInv ==
    ASSUME SchedulerConstants, SchedulerInv, up, up', NEW t \in Task, Dispatch(t),
           nextRun' \in [Task -> Times], owed' \in [Task -> {"no", "idle", "busy"}],
           TriggerKept', \A s \in Task : owed'[s] # "no" => s \in EventTask,
           \A s \in Task : owed'[s] = "idle" => \A r \in Run : Started(r) => task[r] # s,
           UNCHANGED <<recency, active, handle, marks, foreground, semaphore, forced, loaded, outcome>>
    PROVE  SchedulerInv'
<1>1. CASE UNCHANGED <<executing, task, pc, hit, row>>
  <2>1. TypeOK' /\ QuietPlaces' /\ OpenRowsAreLive' /\ ForcedAreLive'
    BY <1>1 DEF SchedulerInv, TypeOK, QuietPlaces, OpenRowsAreLive, ForcedAreLive, Open
  <2>2. ExecutingHasRun' /\ HandlesAreLive' /\ TriggeredAreIdle'
    BY <1>1 DEF SchedulerInv, ExecutingHasRun, HandlesAreLive, TriggeredAreIdle, Started
  <2> QED BY <2>1, <2>2 DEF SchedulerInv
<1>2. ASSUME t \notin executing, executing' = executing \cup {t},
             NEW r \in FreeRuns, Create(r, t)
      PROVE  SchedulerInv'
  <2>1. r \in Run /\ r \notin forced /\ {r} \in SUBSET FreeRuns
    BY DEF FreeRuns, Live, SchedulerInv, ForcedAreLive
  <2>2. /\ task' \in [Run -> Task] /\ \A s \in Run \ {r} : task'[s] = task[s]
        /\ pc' = [s \in Run |-> IF s \in {r} THEN "created" ELSE pc[s]]
        /\ hit' = [s \in Run |-> IF s \in {r} THEN "no" ELSE hit[s]]
        /\ row' = [s \in Run |-> IF s \in {r} THEN "new" ELSE row[s]]
        /\ task'[r] = t
    BY <1>2, <2>1, CreateOne
  <2>3. \A s \in executing' \ executing :
          s \in Task /\ \E q \in {r} : task'[q] = s /\ q \notin forced'
    BY <1>2, <2>1, <2>2
  <2>4. executing \subseteq executing' /\ forced \subseteq forced' /\ forced' \subseteq forced \cup {r}
    BY <1>2
  <2> QED BY <2>1, <2>2, <2>3, <2>4, CreateInv
<1> QED BY <1>1, <1>2 DEF Dispatch

LEMMA RunTaskNowInv ==
    ASSUME SchedulerConstants, SchedulerInv, NEW t \in Task, RunTaskNow(t)
    PROVE  SchedulerInv'
BY DispatchInv DEF RunTaskNow, SchedulerInv, TypeOK, TriggerKept, TriggeredAreIdle

LEMMA FireEventInv ==
    ASSUME SchedulerConstants, SchedulerInv, NEW t \in Task, FireEvent(t)
    PROVE  SchedulerInv'
<1>1. nextRun' \in [Task -> Times] /\ owed' \in [Task -> {"no", "idle", "busy"}]
  BY DEF FireEvent, SchedulerInv, TypeOK, Times
<1>2. TriggerKept'
  BY DEF FireEvent, SchedulerInv, TypeOK, TriggerKept
<1>3. /\ \A s \in Task : owed'[s] # "no" => s \in EventTask
      /\ \A s \in Task : owed'[s] = "idle" => \A r \in Run : Started(r) => task[r] # s
  BY DEF FireEvent, SchedulerInv, TypeOK, TriggeredAreIdle
<1> QED BY <1>1, <1>2, <1>3, DispatchInv DEF FireEvent

LEMMA ForceRunInv ==
    ASSUME SchedulerConstants, SchedulerInv, NEW t \in Task, ForceRun(t)
    PROVE  SchedulerInv'
<1>1. PICK r \in FreeRuns : Create(r, t) /\ forced' = forced \cup {r}
  BY DEF ForceRun
<1>2. r \in Run /\ {r} \in SUBSET FreeRuns
  BY DEF FreeRuns
<1>3. up /\ up' /\ UNCHANGED <<recency, active, nextRun, process, loaded, outcome, owed>>
  BY DEF ForceRun, process
<1>4. TriggerKept' /\ nextRun' \in [Task -> Times] /\ owed' \in [Task -> {"no", "idle", "busy"}]
  BY <1>3 DEF SchedulerInv, TypeOK, TriggerKept
<1>5. /\ \A s \in Task : owed'[s] # "no" => s \in EventTask
      /\ \A s \in Task : owed'[s] = "idle" => \A q \in Run : Started(q) => task[q] # s
  BY <1>3 DEF SchedulerInv, TriggeredAreIdle
<1> QED BY <1>1, <1>2, <1>3, <1>4, <1>5, CreateOne, CreateInv DEF process

LEMMA PostponeDueTasksInv ==
    ASSUME SchedulerConstants, SchedulerInv, PostponeDueTasks
    PROVE  SchedulerInv'
<1>1. UNCHANGED <<row, recency, active, process, runs, owed>>
  BY DEF PostponeDueTasks
<1>2. TriggerKept' /\ nextRun' \in [Task -> Times]
  BY DEF PostponeDueTasks, SchedulerInv, TypeOK, TriggerKept, Times
<1>3. TypeOK' /\ QuietPlaces' /\ OpenRowsAreLive' /\ ForcedAreLive'
  BY <1>1, <1>2 DEF SchedulerInv, TypeOK, QuietPlaces, OpenRowsAreLive, ForcedAreLive, Open, process, runs
<1>4. ExecutingHasRun' /\ HandlesAreLive' /\ TriggeredAreIdle'
  BY <1>1 DEF SchedulerInv, ExecutingHasRun, HandlesAreLive, TriggeredAreIdle, Started, process, runs
<1> QED BY <1>2, <1>3, <1>4 DEF SchedulerInv
-----------------------------------------------------------------------------
(***************************************************************************)
(* Stops and marks, the user, the clock and the process.                   *)
(***************************************************************************)

\* What only requests a cancellation, or gives up membership.
LEMMA RequestInv ==
    ASSUME SchedulerInv, hit' \in [Run -> Hits], executing' \subseteq executing,
           marks' \subseteq Task, foreground' \in BOOLEAN,
           UNCHANGED <<database, up, handle, semaphore, task, forced, pc, loaded, outcome, owed>>
    PROVE  SchedulerInv'
<1>1. TypeOK'
  BY DEF SchedulerInv, TypeOK, database
<1>2. QuietPlaces' /\ OpenRowsAreLive' /\ ForcedAreLive'
  BY DEF SchedulerInv, QuietPlaces, OpenRowsAreLive, ForcedAreLive, Open, database
<1>3. ExecutingHasRun' /\ HandlesAreLive'
  BY DEF SchedulerInv, ExecutingHasRun, HandlesAreLive
<1>4. TriggeredAreIdle' /\ TriggerKept'
  BY DEF SchedulerInv, TriggeredAreIdle, TriggerKept, Started, database
<1> QED BY <1>1, <1>2, <1>3, <1>4 DEF SchedulerInv

LEMMA StopTaskInv ==
    ASSUME SchedulerInv, NEW t \in Task, StopTask(t)
    PROVE  SchedulerInv'
<1>1. hit' \in [Run -> Hits]
  BY DEF StopTask, CancelHandles, SchedulerInv, TypeOK, Hits
<1>2. executing' \subseteq executing /\ marks' \subseteq Task /\ foreground' \in BOOLEAN
  BY DEF StopTask, SchedulerInv, TypeOK
<1> QED BY <1>1, <1>2, RequestInv DEF StopTask

LEMMA YieldInv ==
    ASSUME SchedulerInv, YieldToForeground
    PROVE  SchedulerInv'
<1>1. hit' \in [Run -> Hits]
  BY DEF YieldToForeground, CancelHandles, SchedulerInv, TypeOK, Hits
<1>2. executing' \subseteq executing /\ marks' \subseteq Task /\ foreground' \in BOOLEAN
  BY DEF YieldToForeground, SchedulerInv, TypeOK
<1> QED BY <1>1, <1>2, RequestInv DEF YieldToForeground

LEMMA InterruptInv ==
    ASSUME SchedulerInv, NEW r \in Run, InterruptForForeground(r)
    PROVE  SchedulerInv'
<1>1. hit' \in [Run -> Hits]
  BY DEF InterruptForForeground, SchedulerInv, TypeOK, Hits
<1>2. executing' \subseteq executing /\ marks' \subseteq Task /\ foreground' \in BOOLEAN
  BY DEF InterruptForForeground, process, SchedulerInv, TypeOK
<1> QED BY <1>1, <1>2, RequestInv DEF InterruptForForeground, process

LEMMA ForegroundInv ==
    ASSUME SchedulerInv, ForegroundBegins \/ ForegroundEnds
    PROVE  SchedulerInv'
<1>1. hit' \in [Run -> Hits] /\ foreground' \in BOOLEAN
  BY DEF ForegroundBegins, ForegroundEnds, runs, SchedulerInv, TypeOK
<1>2. executing' \subseteq executing /\ marks' \subseteq Task
  BY DEF ForegroundBegins, ForegroundEnds, SchedulerInv, TypeOK
<1>3. UNCHANGED <<database, up, handle, semaphore, task, forced, pc, loaded, outcome, owed>>
  BY DEF ForegroundBegins, ForegroundEnds, runs
<1> QED BY <1>1, <1>2, <1>3, RequestInv

\* What writes the database only, and settles no more than one row.
LEMMA DatabaseInv ==
    ASSUME SchedulerInv,
           UNCHANGED <<row, recency>> \/ \E r \in Run : Settled(r),
           active' \subseteq Task, nextRun' \in [Task -> Times], marks' \subseteq Task,
           \A t \in EventTask : nextRun'[t] = "none" => nextRun[t] = "none",
           UNCHANGED <<up, executing, handle, foreground, semaphore, runs, owed>>
    PROVE  SchedulerInv'
<1>1. /\ row' \in [Run -> Rows] /\ recency' \in Seq(Run)
      /\ \A r \in Run : row'[r] = row[r] \/ row'[r] = "settled"
  <2>1. ASSUME NEW r \in Run, Settled(r)
        PROVE  /\ row' \in [Run -> Rows] /\ recency' \in Seq(Run)
               /\ \A s \in Run : row'[s] = row[s] \/ row'[s] = "settled"
    BY <2>1, SettledType DEF Others, SchedulerInv
  <2> QED BY <2>1 DEF SchedulerInv, TypeOK
<1>2. TypeOK'
  BY <1>1 DEF SchedulerInv, TypeOK, runs
<1>3. QuietPlaces' /\ OpenRowsAreLive' /\ ForcedAreLive'
  BY <1>1 DEF SchedulerInv, QuietPlaces, OpenRowsAreLive, ForcedAreLive, Open, runs
<1>4. ExecutingHasRun' /\ HandlesAreLive'
  BY DEF SchedulerInv, ExecutingHasRun, HandlesAreLive, runs
<1>5. TriggeredAreIdle' /\ TriggerKept'
  BY DEF SchedulerInv, TriggeredAreIdle, TriggerKept, Started, runs
<1> QED BY <1>2, <1>3, <1>4, <1>5 DEF SchedulerInv

LEMMA MarkStoppedInv ==
    ASSUME SchedulerInv, NEW t \in Task, MarkStopped(t)
    PROVE  SchedulerInv'
<1>1. UNCHANGED <<row, recency>> \/ \E r \in Run : Settled(r)
  BY DEF MarkStopped, MarkNewest, SchedulerInv, TypeOK
<1> QED BY <1>1, DatabaseInv DEF MarkStopped, SchedulerInv, TypeOK

LEMMA ClockInv ==
    ASSUME SchedulerInv, NEW t \in Task, ComesDue(t) \/ Pause(t) \/ Resume(t)
    PROVE  SchedulerInv'
<1>1. UNCHANGED <<row, recency, process, runs, owed>> /\ active' \subseteq Task
  BY DEF ComesDue, Pause, Resume, SchedulerInv, TypeOK
<1>2. /\ nextRun' \in [Task -> Times]
      /\ \A s \in EventTask : nextRun'[s] = "none" => nextRun[s] = "none"
  <2>1. nextRun \in [Task -> Times] /\ NextTime(t) \in Times
    BY DEF SchedulerInv, TypeOK, NextTime, Times
  <2>2. CASE ComesDue(t)
    BY <2>1, <2>2 DEF ComesDue, Times
  <2>3. CASE Pause(t)
    BY <2>1, <2>3 DEF Pause
  <2>4. CASE Resume(t)
    BY <2>1, <2>4 DEF Resume
  <2> QED BY <2>2, <2>3, <2>4
<1> QED BY <1>1, <1>2, DatabaseInv DEF process, SchedulerInv, TypeOK

LEMMA CrashInv ==
    ASSUME SchedulerInv, Crash
    PROVE  SchedulerInv'
<1>1. TypeOK'
  <2>1. semaphore' \in Semaphores
    BY DEF Crash, Free, Semaphores
  <2> QED BY <2>1 DEF Crash, SchedulerInv, TypeOK, database, Places, Hits, Times, Outcomes
<1>2. QuietPlaces' /\ OpenRowsAreLive' /\ ForcedAreLive'
  BY DEF Crash, QuietPlaces, OpenRowsAreLive, ForcedAreLive
<1>3. ExecutingHasRun' /\ HandlesAreLive'
  BY DEF Crash, ExecutingHasRun, HandlesAreLive
<1>4. TriggeredAreIdle' /\ TriggerKept'
  BY DEF Crash, SchedulerInv, TriggeredAreIdle, TriggerKept, Started, database
<1> QED BY <1>1, <1>2, <1>3, <1>4 DEF SchedulerInv

LEMMA RestartInv ==
    ASSUME SchedulerInv, Restart
    PROVE  SchedulerInv'
<1>1. row' \in [Run -> Rows] /\ nextRun' \in [Task -> Times] /\ recency' \in Seq(Run)
  BY DEF Restart, SchedulerInv, TypeOK, Rows, Times
<1>2. TypeOK'
  BY <1>1 DEF Restart, SchedulerInv, TypeOK, runs
<1>3. \A r \in Run : row'[r] \notin {"queued", "running"}
  BY DEF Restart, Open, SchedulerInv, TypeOK
<1>4. QuietPlaces' /\ OpenRowsAreLive' /\ ForcedAreLive'
  BY <1>3 DEF Restart, QuietPlaces, OpenRowsAreLive, ForcedAreLive, Open, SchedulerInv, runs
<1>5. ExecutingHasRun' /\ HandlesAreLive'
  BY DEF Restart, ExecutingHasRun, HandlesAreLive, SchedulerInv, runs
<1>6. TriggeredAreIdle' /\ TriggerKept'
  BY DEF Restart, SchedulerInv, TriggeredAreIdle, TriggerKept, Started, TypeOK, runs
<1> QED BY <1>2, <1>4, <1>5, <1>6 DEF SchedulerInv

-----------------------------------------------------------------------------
(***************************************************************************)
(* The theorems.                                                           *)
(***************************************************************************)
LEMMA RunStepInv ==
    ASSUME SchedulerConstants, SchedulerInv, NEW r \in Run, RunStep(r)
    PROVE  SchedulerInv'
BY StartInv, StartChainedInv, AcquireSlotInv, BecomeQuietInv, ConcludeInv, CloseInv,
   DoNothingInv, PostponeInv, InterruptInv, CancelQueuedInv, CancelWorkingInv,
   AbortQueuedInv, DeferQueuedInv, FinishCancelledInv DEF RunStep

LEMMA TaskStepInv ==
    ASSUME SchedulerConstants, SchedulerInv, NEW t \in Task, TaskStep(t)
    PROVE  SchedulerInv'
BY RunTaskNowInv, ForceRunInv, FireEventInv, StopTaskInv, MarkStoppedInv, ClockInv DEF TaskStep

LEMMA StepInv ==
    ASSUME SchedulerConstants, SchedulerInv, [Next]_vars
    PROVE  SchedulerInv'
<1>1. CASE Next
  BY <1>1, CheckDueTasksInv, PostponeDueTasksInv, YieldInv, TaskStepInv, RunStepInv,
     ForegroundInv, CrashInv, RestartInv DEF Next
<1>2. CASE UNCHANGED vars
  <2>1. UNCHANGED <<database, process, runs, owed>>
    BY <1>2 DEF vars
  <2>2. TypeOK' /\ QuietPlaces' /\ OpenRowsAreLive' /\ ForcedAreLive'
    BY <2>1 DEF SchedulerInv, TypeOK, QuietPlaces, OpenRowsAreLive, ForcedAreLive, Open,
       database, process, runs
  <2>3. ExecutingHasRun' /\ HandlesAreLive' /\ TriggeredAreIdle' /\ TriggerKept'
    BY <2>1 DEF SchedulerInv, ExecutingHasRun, HandlesAreLive, TriggeredAreIdle, TriggerKept,
       Started, database, process, runs
  <2> QED BY <2>2, <2>3 DEF SchedulerInv
<1> QED BY <1>1, <1>2

\* The strengthened invariant holds of every run of the scheduler
\* (task_scheduler.py:844-1307, 2343-2514).
THEOREM SchedulerInvariance == Spec => []SchedulerInv
<1>1. Init => SchedulerInv
  BY InitInv, SchedulerConstants
<1>2. SchedulerInv /\ [Next]_vars => SchedulerInv'
  BY StepInv, SchedulerConstants
<1> QED BY <1>1, <1>2, PTL DEF Spec

\* The variables keep their types, for any tasks and runs.
THEOREM SchedulerTypes == Spec => []TypeOK
BY SchedulerInvariance, PTL DEF SchedulerInv

\* While the process runs, no row says queued or running without a run in
\* progress (task_scheduler.py:473-500, 595-617, 924-938, 972-1006).
THEOREM NoPhantoms == Spec => []OpenRowsAreLive
BY SchedulerInvariance, PTL DEF SchedulerInv

\* A task that counts as executing has a run that will release it, whatever
\* stops and forced runs did to its handle (task_scheduler.py:932-938,
\* 1300-1307, 2343-2351, 2459-2487).
THEOREM NoLockout == Spec => []ExecutingHasRun
BY SchedulerInvariance, PTL DEF SchedulerInv

\* A handle leads to a live run of its task (task_scheduler.py:887-889,
\* 933-935, 1302-1304).
THEOREM HandlesLive == Spec => []HandlesAreLive
BY SchedulerInvariance, PTL DEF SchedulerInv

\* A trigger that came while no run of its task was at work stays in the
\* database until a run starts, through stops, deferrals and restarts
\* (event_bus.py:108-116, task_scheduler.py:940-960).
THEOREM TriggersKept == Spec => []TriggerKept
BY SchedulerInvariance, PTL DEF SchedulerInv

-----------------------------------------------------------------------------
(***************************************************************************)
(* The permit: SlotInv is inductive with SchedulerInv.  First what the     *)
(* operations of the semaphore do to its queue and its permit.             *)
(***************************************************************************)

\* Before the next waiter is woken, a free permit may be waited for.
PermitCounted(s, H) ==
    \/ s.value = 1 /\ H \cup s.granted = {}
    \/ s.value = 0 /\ \E r \in Run : H \cup s.granted = {r}

LEMMA WokenAccounts ==
    ASSUME NEW s \in Semaphores, NEW Q, NEW H, QueueIsExact(s, Q), PermitCounted(s, H), Q \subseteq Run
    PROVE  QueueIsExact(Woken(s), Q) /\ PermitAccounted(Woken(s), H)
<1>1. CASE Woken(s) = s /\ (s.value = 0 \/ Pending(s) = {})
  BY <1>1 DEF PermitCounted, PermitAccounted
<1>2. ASSUME NEW i \in Pending(s), s.value # 0, Woken(s).value = s.value - 1,
             Woken(s).granted = s.granted \cup {s.waiters[i]}
      PROVE  QueueIsExact(Woken(s), Q) /\ PermitAccounted(Woken(s), H)
  <2>1. Woken(s).waiters = s.waiters /\ i \in 1..Len(s.waiters) /\ s.waiters[i] \in Q
    BY <1>2, WokenFacts DEF Pending, QueueIsExact
  <2>2. s.value = 1 /\ H \cup s.granted = {}
    BY <1>2 DEF PermitCounted
  <2>3. QueueIsExact(Woken(s), Q)
    BY <1>2, <2>1 DEF QueueIsExact
  <2>4. PermitAccounted(Woken(s), H)
    <3>1. Woken(s).value = 0 /\ H \cup Woken(s).granted = {s.waiters[i]} /\ s.waiters[i] \in Run
      BY <1>2, <2>1, <2>2
    <3> QED BY <3>1 DEF PermitAccounted
  <2> QED BY <2>3, <2>4
<1> QED BY <1>1, <1>2, WokenFacts

\* A queue without r, whoever waits for the permit.
LEMMA WithoutQueue ==
    ASSUME NEW s \in Semaphores, NEW Q, NEW r, QueueIsExact(s, Q)
    PROVE  LET u == [s EXCEPT !.waiters = Without(@, r), !.granted = @ \ {r}]
           IN  u \in Semaphores /\ QueueIsExact(u, Q \ {r})
<1> DEFINE q == s.waiters
           w == Without(q, r)
           u == [s EXCEPT !.waiters = w, !.granted = @ \ {r}]
<1>1. q \in Seq(Run) /\ s.granted \subseteq Run /\ s.value \in Nat
  BY DEF Semaphores
<1>2. w \in Seq(Run)
  BY <1>1, WithoutFacts
<1>3. u \in Semaphores /\ u.waiters = w /\ u.granted = s.granted \ {r}
  BY <1>1, <1>2 DEF Semaphores
<1>4. QueueIsExact(u, Q \ {r})
  <2>1. /\ \A i \in 1..Len(q) : q[i] \in Q
        /\ \A p \in Q : \E i \in 1..Len(q) : q[i] = p
        /\ \A i, j \in 1..Len(q) : q[i] = q[j] => i = j
        /\ Len(q) \in Nat
    BY <1>1 DEF QueueIsExact
  <2>2. CASE (\A i \in 1..Len(q) : q[i] # r) /\ w = q
    <3>1. Q \ {r} = Q
      BY <2>1, <2>2
    <3> QED BY <1>3, <2>2, <3>1 DEF QueueIsExact
  <2>3. ASSUME NEW i \in 1..Len(q), q[i] = r, Len(w) = Len(q) - 1,
               \A p \in 1..(Len(q) - 1) : w[p] = IF p < i THEN q[p] ELSE q[p + 1]
        PROVE  QueueIsExact(u, Q \ {r})
    <3> HIDE DEF w, q
    <3>1. \A p \in 1..Len(w) : w[p] \in Q \ {r}
      BY <2>1, <2>3
    <3>2. \A p \in Q \ {r} : \E j \in 1..Len(w) : w[j] = p
      <4> TAKE p \in Q \ {r}
      <4>1. PICK j \in 1..Len(q) : q[j] = p
        BY <2>1
      <4>2. j # i
        BY <2>3, <4>1
      <4>3. CASE j < i
        <5>1. j \in 1..Len(w) /\ w[j] = p
          BY <2>1, <2>3, <4>1, <4>3
        <5> QED BY <5>1
      <4>4. CASE j > i
        <5>1. j - 1 \in 1..Len(w) /\ w[j - 1] = p
          BY <2>1, <2>3, <4>1, <4>4
        <5> QED BY <5>1
      <4> QED BY <4>2, <4>3, <4>4
    <3>3. \A p, j \in 1..Len(w) : w[p] = w[j] => p = j
      <4> DEFINE Old(p) == IF p < i THEN p ELSE p + 1
      <4>1. \A p \in 1..Len(w) : w[p] = q[Old(p)] /\ Old(p) \in 1..Len(q)
        BY <2>1, <2>3
      <4>2. \A p, j \in 1..Len(w) : Old(p) = Old(j) => p = j
        BY <2>1, <2>3
      <4> HIDE DEF Old
      <4> QED BY <2>1, <4>1, <4>2
    <3>4. u.granted \subseteq Q \ {r}
      BY <1>3 DEF QueueIsExact
    <3> HIDE DEF u
    <3> QED BY <1>3, <3>1, <3>2, <3>3, <3>4 DEF QueueIsExact
  <2> HIDE DEF u
  <2> QED BY <1>1, <2>2, <2>3, WithoutFacts
<1> QED BY <1>3, <1>4

\* A run that is woken goes inside with its permit.
LEMMA UnqueuedAccounts ==
    ASSUME NEW s \in Semaphores, NEW Q, NEW H, QueueIsExact(s, Q), PermitAccounted(s, H),
           Q \subseteq Run, NEW r \in s.granted
    PROVE  QueueIsExact(Unqueued(r, s), Q \ {r}) /\ PermitAccounted(Unqueued(r, s), H \cup {r})
<1> DEFINE u == [s EXCEPT !.waiters = Without(@, r), !.granted = @ \ {r}]
<1>1. u \in Semaphores /\ QueueIsExact(u, Q \ {r})
  BY WithoutQueue
<1>2. u.value = s.value /\ u.granted = s.granted \ {r}
  BY DEF Semaphores
<1>3. PermitCounted(u, H \cup {r})
  <2>1. s.value = 0 /\ \E p \in Run : H \cup s.granted = {p}
    BY DEF PermitAccounted
  <2>2. r \in Run /\ (H \cup {r}) \cup u.granted = {r}
    BY <1>2, <2>1
  <2> QED BY <1>2, <2>1, <2>2 DEF PermitCounted
<1>4. Unqueued(r, s) = Woken(u)
  BY DEF Unqueued
<1> HIDE DEF u
<1> QED BY <1>1, <1>3, <1>4, WokenAccounts

\* A run that is cancelled in the queue leaves the permit where it was, or
\* gives back the one it was woken with.
LEMMA AbandonedAccounts ==
    ASSUME NEW s \in Semaphores, NEW Q, NEW H, QueueIsExact(s, Q), PermitAccounted(s, H),
           Q \subseteq Run, NEW r \in Q, r \notin H
    PROVE  QueueIsExact(Abandoned(r, s), Q \ {r}) /\ PermitAccounted(Abandoned(r, s), H)
<1> DEFINE v == IF r \in s.granted THEN [s EXCEPT !.value = @ + 1] ELSE s
           u == [v EXCEPT !.waiters = Without(@, r), !.granted = @ \ {r}]
<1>1. /\ v \in Semaphores /\ v.waiters = s.waiters /\ v.granted = s.granted
      /\ v.value = IF r \in s.granted THEN s.value + 1 ELSE s.value
  BY DEF Semaphores
<1>2. QueueIsExact(v, Q)
  BY <1>1 DEF QueueIsExact
<1> HIDE DEF v
<1>3. u \in Semaphores /\ QueueIsExact(u, Q \ {r})
  BY <1>1, <1>2, WithoutQueue
<1>4. u.value = v.value /\ u.granted = s.granted \ {r}
  BY <1>1 DEF Semaphores
<1>5. PermitCounted(u, H)
  <2>1. CASE r \in s.granted
    <3>1. s.value = 0 /\ H \cup s.granted = {r}
      BY <2>1 DEF PermitAccounted
    <3>2. u.value = 1 /\ H \cup u.granted = {}
      BY <1>1, <1>4, <2>1, <3>1
    <3> QED BY <3>2 DEF PermitCounted
  <2>2. CASE r \notin s.granted
    <3>1. u.value = s.value /\ u.granted = s.granted
      BY <1>1, <1>4, <2>2
    <3> QED BY <3>1 DEF PermitAccounted, PermitCounted
  <2> QED BY <2>1, <2>2
<1>6. Abandoned(r, s) = Woken(u)
  BY DEF Abandoned, Unqueued, v
<1> HIDE DEF u
<1> QED BY <1>3, <1>5, <1>6, WokenAccounts

\* A run that leaves the block hands its permit on.
LEMMA ReleasedAccounts ==
    ASSUME NEW s \in Semaphores, NEW Q, NEW H, QueueIsExact(s, Q), PermitAccounted(s, H),
           Q \subseteq Run, NEW r \in H \ Q, NeedsSlot(r)
    PROVE  QueueIsExact(Released(r, s), Q) /\ PermitAccounted(Released(r, s), H \ {r})
<1> DEFINE u == [s EXCEPT !.value = @ + 1]
<1>1. u \in Semaphores /\ u.value = s.value + 1 /\ u.waiters = s.waiters /\ u.granted = s.granted
  BY DEF Semaphores
<1>2. QueueIsExact(u, Q)
  BY <1>1 DEF QueueIsExact
<1>3. PermitCounted(u, H \ {r})
  <2>1. s.value = 0 /\ H \cup s.granted = {r} /\ r \notin s.granted
    BY DEF PermitAccounted, QueueIsExact
  <2>2. u.value = 1 /\ (H \ {r}) \cup u.granted = {}
    BY <1>1, <2>1
  <2> QED BY <2>2 DEF PermitCounted
<1>4. Released(r, s) = Woken(u)
  BY DEF Released
<1> HIDE DEF u
<1> QED BY <1>1, <1>2, <1>3, <1>4, WokenAccounts

\* Nobody passes by a semaphore that is locked, and one that is not is free.
LEMMA QueueAccounts ==
    ASSUME NEW s \in Semaphores, NEW Q, NEW H, QueueIsExact(s, Q), PermitAccounted(s, H),
           Q \subseteq Run, NEW r \in Run \ Q, Locked(s)
    PROVE  LET u == [s EXCEPT !.waiters = Append(@, r)]
           IN  QueueIsExact(u, Q \cup {r}) /\ PermitAccounted(u, H)
<1> DEFINE w == Append(s.waiters, r)
           u == [s EXCEPT !.waiters = w]
<1>1. s.waiters \in Seq(Run) /\ u.value = s.value /\ u.waiters = w /\ u.granted = s.granted
  BY DEF Semaphores
<1>2. /\ Len(s.waiters) \in Nat /\ Len(w) = Len(s.waiters) + 1 /\ w[Len(s.waiters) + 1] = r
      /\ \A i \in 1..Len(s.waiters) : w[i] = s.waiters[i]
  BY <1>1
<1>3. QueueIsExact(u, Q \cup {r})
  <2> HIDE DEF w, u
  <2>1. /\ s.granted \subseteq Q
        /\ \A i \in 1..Len(s.waiters) : s.waiters[i] \in Q
        /\ \A p \in Q : \E i \in 1..Len(s.waiters) : s.waiters[i] = p
        /\ \A i, j \in 1..Len(s.waiters) : s.waiters[i] = s.waiters[j] => i = j
    BY DEF QueueIsExact
  <2>2. \A i \in 1..Len(w) : w[i] \in Q \cup {r}
    BY <1>2, <2>1
  <2>3. \A p \in Q \cup {r} : \E i \in 1..Len(w) : w[i] = p
    <3> TAKE p \in Q \cup {r}
    <3>1. CASE p \in Q
      <4>1. PICK i \in 1..Len(s.waiters) : s.waiters[i] = p
        BY <2>1, <3>1
      <4>2. i \in 1..Len(w) /\ w[i] = p
        BY <1>2, <4>1
      <4> QED BY <4>2
    <3>2. CASE p = r
      <4>1. Len(s.waiters) + 1 \in 1..Len(w)
        BY <1>2
      <4> QED BY <1>2, <3>2, <4>1
    <3> QED BY <3>1, <3>2
  <2>4. \A i, j \in 1..Len(w) : w[i] = w[j] => i = j
    BY <1>2, <2>1
  <2> QED BY <1>1, <2>1, <2>2, <2>3, <2>4 DEF QueueIsExact
<1>4. PermitAccounted(u, H)
  <2>1. s.value = 0 /\ \E p \in Run : H \cup s.granted = {p}
    BY DEF Locked, PermitAccounted
  <2> QED BY <1>1, <2>1 DEF PermitAccounted
<1> QED BY <1>3, <1>4

LEMMA TakeAccounts ==
    ASSUME NEW s \in Semaphores, NEW Q, NEW H, QueueIsExact(s, Q), PermitAccounted(s, H),
           NEW r \in Run, ~Locked(s)
    PROVE  LET u == [s EXCEPT !.value = @ - 1]
           IN  QueueIsExact(u, Q) /\ PermitAccounted(u, H \cup {r})
<1> DEFINE u == [s EXCEPT !.value = @ - 1]
<1>1. u.value = s.value - 1 /\ u.waiters = s.waiters /\ u.granted = s.granted
  BY DEF Semaphores
<1>2. s.value = 1 /\ H \cup s.granted = {}
  BY DEF Locked, PermitAccounted
<1>3. u.value = 0 /\ (H \cup {r}) \cup u.granted = {r}
  BY <1>1, <1>2
<1>4. QueueIsExact(u, Q)
  BY <1>1 DEF QueueIsExact
<1> QED BY <1>3, <1>4 DEF PermitAccounted

-----------------------------------------------------------------------------
(***************************************************************************)
(* Then the steps.                                                         *)
(***************************************************************************)

\* After a step: Q wait, H are inside, and none of those that wait has become
\* less cancelled than it was.
LEMMA SlotFacts ==
    ASSUME NEW Q, NEW H, Queued' = Q, Inside' = H, QueueIsExact(semaphore', Q),
           PermitAccounted(semaphore', H), semaphore' \in Semaphores,
           \A q \in Q : hit'[q] = "no" => hit[q] = "no",
           \A q \in Q : NeedsSlot(q)'
    PROVE  SlotInv'
<1>1. Pending(semaphore)' \subseteq Pending(semaphore')
  BY DEF Pending, QueueIsExact
<1>2. PermitAccounted(semaphore, Inside)'
  BY <1>1 DEF PermitAccounted
<1>3. QueueIsExact(semaphore, Queued)'
  BY DEF QueueIsExact
<1> QED BY <1>2, <1>3 DEF SlotInv

\* The semaphore rests: who waits, waits, and who is inside stays there.
LEMMA RestSlot ==
    ASSUME TypeOK, SlotInv, semaphore' = semaphore,
           \A s \in Run : (pc'[s] = "slot" <=> pc[s] = "slot") /\ (HasSlot(s)' <=> HasSlot(s)),
           \A s \in Queued : NeedsSlot(s)' /\ (hit'[s] = "no" => hit[s] = "no")
    PROVE  SlotInv'
<1>1. Queued' = Queued /\ Inside' = Inside
  BY DEF Queued, Inside
<1>2. QueueIsExact(semaphore', Queued) /\ PermitAccounted(semaphore', Inside) /\ semaphore' \in Semaphores
  BY DEF SlotInv, TypeOK
<1> QED BY <1>1, <1>2, SlotFacts

\* A step of the run r leaves the others where they are.
Alone(r) ==
    \A s \in Others(r) : /\ pc'[s] = pc[s] /\ task'[s] = task[s] /\ hit'[s] = hit[s]
                         /\ (s \in forced' <=> s \in forced)

LEMMA AloneFacts ==
    ASSUME TypeOK, SlotInv, NEW r \in Run, Alone(r)
    PROVE  /\ Queued' = IF pc'[r] = "slot" THEN Queued \cup {r} ELSE Queued \ {r}
           /\ Inside' = IF HasSlot(r)' THEN Inside \cup {r} ELSE Inside \ {r}
           /\ \A q \in Queued \ {r} : NeedsSlot(q)' /\ hit'[q] = hit[q]
           /\ Queued \subseteq Run /\ Queued \cap Inside = {}
<1>1. \A s \in Others(r) : /\ HasSlot(s)' <=> HasSlot(s)
                           /\ NeedsSlot(s)' <=> NeedsSlot(s)
                           /\ s \in Run
  BY DEF Alone, HasSlot, NeedsSlot, Started, Others
<1>2. Queued' = IF pc'[r] = "slot" THEN Queued \cup {r} ELSE Queued \ {r}
  BY DEF Alone, Queued, Others
<1>3. Inside' = IF HasSlot(r)' THEN Inside \cup {r} ELSE Inside \ {r}
  BY <1>1 DEF Inside, Others
<1>4. \A q \in Queued \ {r} : NeedsSlot(q)' /\ hit'[q] = hit[q]
  BY <1>1 DEF SlotInv, Queued, Others, Alone
<1>5. Queued \subseteq Run /\ Queued \cap Inside = {}
  BY DEF Queued, Inside, HasSlot, Started
<1> QED BY <1>2, <1>3, <1>4, <1>5

\* A run that leaves the block.
LEMMA LeaveSlot ==
    ASSUME TypeOK, SlotInv, NEW r \in Run, Alone(r), semaphore' = Released(r, semaphore),
           Started(r) \/ pc[r] = "quiet",
           pc'[r] \in {"none", "chained", "aborting"}
    PROVE  SlotInv'
<1>1. semaphore \in Semaphores /\ Released(r, semaphore) \in Semaphores
  BY SemaphoreTypes DEF TypeOK
<1>2. Queued' = Queued /\ Inside' = Inside \ {r}
  BY AloneFacts DEF HasSlot, Started, Queued
<1>3. QueueIsExact(semaphore', Queued) /\ PermitAccounted(semaphore', Inside \ {r})
  <2>1. CASE NeedsSlot(r)
    <3>1. r \in Inside \ Queued
      BY <2>1 DEF Inside, HasSlot, Queued, Started
    <3> QED BY <1>1, <2>1, <3>1, ReleasedAccounts, AloneFacts DEF SlotInv
  <2>2. CASE ~NeedsSlot(r)
    <3>1. Inside \ {r} = Inside /\ semaphore' = semaphore
      BY <2>2 DEF Inside, HasSlot, Released
    <3> QED BY <3>1 DEF SlotInv
  <2> QED BY <2>1, <2>2
<1>4. \A q \in Queued : NeedsSlot(q)' /\ hit'[q] = hit[q]
  BY AloneFacts DEF Queued, Started
<1> QED BY <1>1, <1>2, <1>3, <1>4, SlotFacts

\* A run that enters the block, or does not need it.  s: the semaphore after
\* it was acquired.
LEMMA EnterSlot ==
    ASSUME TypeOK, SlotInv, NEW r \in Run, r \notin Inside, NEW h, NEW x, NEW s \in Semaphores,
           Enter(r, h, x, s), task' = task,
           QueueIsExact(s, Queued \ {r}),
           PermitAccounted(s, IF NeedsSlot(r) THEN Inside \cup {r} ELSE Inside)
    PROVE  SlotInv'
<1>1. CASE Release(r, h, x) /\ semaphore' = Released(r, s)
  <2>1. Alone(r) /\ pc'[r] = "none"
    BY <1>1 DEF Release, Vanish, Alone, Others, TypeOK
  <2>2. Queued' = Queued \ {r} /\ Inside' = Inside
    BY <2>1, AloneFacts DEF HasSlot, Started
  <2>3. QueueIsExact(semaphore', Queued \ {r}) /\ PermitAccounted(semaphore', Inside)
    <3>1. CASE NeedsSlot(r)
      <4>1. r \in (Inside \cup {r}) \ (Queued \ {r}) /\ (Inside \cup {r}) \ {r} = Inside /\ Queued \ {r} \subseteq Run
        BY DEF Queued
      <4> QED BY <1>1, <3>1, <4>1, ReleasedAccounts
    <3>2. CASE ~NeedsSlot(r)
      BY <1>1, <3>2 DEF Released
    <3> QED BY <3>1, <3>2
  <2>4. semaphore' \in Semaphores
    BY <1>1, SemaphoreTypes
  <2> QED BY <2>1, <2>2, <2>3, <2>4, SlotFacts, AloneFacts
<1>2. CASE /\ forced' = forced /\ hit' = hit /\ semaphore' = s
           /\ \E p \in {"quiet", "working"} : pc' = [pc EXCEPT ![r] = p]
  <2>1. Alone(r) /\ pc'[r] \in {"quiet", "working"}
    BY <1>2 DEF Alone, Others, TypeOK
  <2>2. HasSlot(r)' <=> NeedsSlot(r)
    BY <1>2, <2>1 DEF HasSlot, NeedsSlot, Started
  <2>3. Queued' = Queued \ {r} /\ Inside' = IF NeedsSlot(r) THEN Inside \cup {r} ELSE Inside
    BY <2>1, <2>2, AloneFacts
  <2> QED BY <1>2, <2>1, <2>3, SlotFacts, AloneFacts
<1> QED BY <1>1, <1>2 DEF Enter, Skip, Refuse, AwaitQuiet, Launch

LEMMA BeginSlot ==
    ASSUME TypeOK, SlotInv, NEW r \in Run, pc[r] \in {"created", "chained"},
           NEW x, Begin(r, x), task' = task
    PROVE  SlotInv'
<1> DEFINE h == [handle EXCEPT ![task[r]] = r]
<1>1. semaphore \in Semaphores /\ r \notin Queued /\ r \notin Inside /\ Queued \subseteq Run
  BY DEF TypeOK, Queued, Inside, HasSlot, Started
<1>2. QueueIsExact(semaphore, Queued) /\ PermitAccounted(semaphore, Inside) /\ Queued \ {r} = Queued
  BY <1>1 DEF SlotInv
<1>3. CASE Queue(r, h, x)
  <2>1. Alone(r) /\ pc'[r] = "slot" /\ hit' = hit
    BY <1>3 DEF Queue, Alone, Others, TypeOK
  <2>2. Queued' = Queued \cup {r} /\ Inside' = Inside
    BY <1>1, <2>1, AloneFacts DEF HasSlot, Started
  <2>3. semaphore' \in Semaphores
    BY <1>1, <1>3, SemaphoreTypes DEF Queue
  <2>4. QueueIsExact(semaphore', Queued \cup {r}) /\ PermitAccounted(semaphore', Inside)
    BY <1>1, <1>2, <1>3, QueueAccounts DEF Queue
  <2>5. \A q \in Queued \cup {r} : NeedsSlot(q)'
    BY <1>3, AloneFacts, <2>1 DEF Queue, NeedsSlot
  <2> QED BY <2>1, <2>2, <2>3, <2>4, <2>5, SlotFacts
<1>4. CASE NeedsSlot(r) /\ ~Locked(semaphore) /\ Enter(r, h, x, [semaphore EXCEPT !.value = @ - 1])
  <2> DEFINE s == [semaphore EXCEPT !.value = @ - 1]
  <2>1. s \in Semaphores
    BY <1>1, <1>4, SemaphoreTypes
  <2>2. QueueIsExact(s, Queued) /\ PermitAccounted(s, Inside \cup {r})
    BY <1>1, <1>2, <1>4, TakeAccounts
  <2> HIDE DEF s, h
  <2>3. Enter(r, h, x, s)
    BY <1>4 DEF s
  <2> QED BY <1>1, <1>2, <1>4, <2>1, <2>2, <2>3, EnterSlot
<1>5. CASE ~NeedsSlot(r) /\ Enter(r, h, x, semaphore)
  <2> HIDE DEF h
  <2> QED BY <1>1, <1>2, <1>5, EnterSlot
<1> QED BY <1>3, <1>4, <1>5 DEF Begin

LEMMA AcquireSlotSlot ==
    ASSUME TypeOK, SlotInv, NEW r \in Run, AcquireSlot(r)
    PROVE  SlotInv'
<1> DEFINE s == Unqueued(r, semaphore)
<1>1. semaphore \in Semaphores /\ s \in Semaphores
  BY SemaphoreTypes DEF TypeOK
<1>2. r \in Queued /\ r \notin Inside /\ NeedsSlot(r) /\ Queued \subseteq Run
  BY DEF AcquireSlot, SlotInv, Queued, Inside, HasSlot, Started
<1>3. QueueIsExact(s, Queued \ {r}) /\ PermitAccounted(s, Inside \cup {r})
  BY <1>1, <1>2, UnqueuedAccounts DEF AcquireSlot, SlotInv
<1> HIDE DEF s
<1>4. Enter(r, handle, executing, s) /\ task' = task
  BY DEF AcquireSlot, s
<1> QED BY <1>1, <1>2, <1>3, <1>4, EnterSlot

LEMMA CancelQueuedSlot ==
    ASSUME TypeOK, SlotInv, NEW r \in Run, CancelQueued(r)
    PROVE  SlotInv'
<1>1. Alone(r) /\ pc'[r] = "aborting"
  BY DEF CancelQueued, Alone, Others, TypeOK
<1>2. CASE pc[r] = "quiet" /\ semaphore' = Released(r, semaphore)
  BY <1>1, <1>2, LeaveSlot
<1>3. CASE pc[r] = "slot" /\ semaphore' = Abandoned(r, semaphore)
  <2>1. semaphore \in Semaphores /\ semaphore' \in Semaphores
    BY <1>3, SemaphoreTypes DEF TypeOK
  <2>2. r \in Queued /\ r \notin Inside
    BY <1>3 DEF Queued, Inside, HasSlot, Started
  <2>3. Queued' = Queued \ {r} /\ Inside' = Inside
    BY <1>1, <2>2, AloneFacts DEF HasSlot, Started
  <2>4. QueueIsExact(semaphore', Queued \ {r}) /\ PermitAccounted(semaphore', Inside)
    BY <1>1, <1>3, <2>1, <2>2, AbandonedAccounts, AloneFacts DEF SlotInv
  <2> QED BY <1>1, <2>1, <2>3, <2>4, SlotFacts, AloneFacts
<1> QED BY <1>2, <1>3 DEF CancelQueued

\* A run that moves without the semaphore: outside, or inside from place to
\* place.
LEMMA MoveSlot ==
    ASSUME TypeOK, SlotInv, NEW r \in Run, Alone(r), semaphore' = semaphore,
           pc[r] # "slot", pc'[r] # "slot", HasSlot(r)' <=> HasSlot(r)
    PROVE  SlotInv'
<1>1. Queued' = Queued /\ Inside' = Inside
  BY AloneFacts DEF Queued, Inside
<1>2. \A q \in Queued : NeedsSlot(q)' /\ hit'[q] = hit[q]
  BY AloneFacts DEF Queued
<1>3. QueueIsExact(semaphore', Queued) /\ PermitAccounted(semaphore', Inside) /\ semaphore' \in Semaphores
  BY DEF SlotInv, TypeOK
<1> QED BY <1>1, <1>2, <1>3, SlotFacts

LEMMA SettleSlot ==
    ASSUME TypeOK, SlotInv, NEW r \in Run, NEW o, Settle(r, o), Started(r)
    PROVE  SlotInv'
<1>1. CASE Complete(r, o)
  <2>1. Alone(r) /\ pc'[r] \in {"none", "chained"} /\ semaphore' = Released(r, semaphore)
    BY <1>1 DEF Complete, Alone, Others, TypeOK
  <2> QED BY <2>1, LeaveSlot
<1>2. CASE Fail(r)
  <2>1. Alone(r) /\ pc'[r] = "none" /\ semaphore' = Released(r, semaphore)
    BY <1>2 DEF Fail, Release, Vanish, Alone, Others, TypeOK
  <2> QED BY <2>1, LeaveSlot
<1> QED BY <1>1, <1>2 DEF Settle

LEMMA RunStepSlot ==
    ASSUME TypeOK, SlotInv, NEW r \in Run, RunStep(r)
    PROVE  SlotInv'
<1>1. CASE Start(r)
  BY <1>1, BeginSlot DEF Start
<1>2. CASE StartChained(r)
  <2>1. CASE Vanish(r) /\ semaphore' = semaphore
    <3>1. Alone(r) /\ pc'[r] = "none"
      BY <1>2, <2>1 DEF StartChained, Vanish, Alone, Others, TypeOK
    <3> QED BY <1>2, <2>1, <3>1, MoveSlot DEF StartChained, HasSlot, Started
  <2> QED BY <1>2, <2>1, BeginSlot DEF StartChained
<1>3. CASE BecomeQuiet(r)
  <2>1. Alone(r) /\ pc'[r] = "working" /\ semaphore' = semaphore /\ pc[r] = "quiet"
    BY <1>3 DEF BecomeQuiet, Launch, process, Alone, Others, TypeOK
  <2>2. HasSlot(r)' <=> HasSlot(r)
    BY <1>3, <2>1 DEF BecomeQuiet, Launch, HasSlot, NeedsSlot, Started
  <2> QED BY <2>1, <2>2, MoveSlot
<1>4. ASSUME NEW o \in Outcomes \ {"none"}, Conclude(r, o) PROVE SlotInv'
  <2>1. CASE pc' = [pc EXCEPT ![r] = "closing"] /\ UNCHANGED <<semaphore, task, forced, hit>>
    <3>1. Alone(r) /\ pc'[r] = "closing" /\ pc[r] = "working"
      BY <1>4, <2>1 DEF Conclude, Alone, Others, TypeOK
    <3>2. HasSlot(r)' <=> HasSlot(r)
      BY <2>1, <3>1 DEF HasSlot, NeedsSlot, Started
    <3> QED BY <2>1, <3>1, <3>2, MoveSlot
  <2>2. CASE Settle(r, o)
    BY <1>4, <2>2, SettleSlot DEF Conclude, Started
  <2> QED BY <1>4, <2>1, <2>2 DEF Conclude
<1>5. CASE Close(r)
  BY <1>5, SettleSlot DEF Close, Started
<1>6. CASE DoNothing(r) \/ Postpone(r) \/ FinishCancelled(r)
  <2>1. Alone(r) /\ pc'[r] = "none" /\ semaphore' = Released(r, semaphore) /\ Started(r)
    BY <1>6 DEF DoNothing, Postpone, FinishCancelled, Release, Vanish, Started, Alone, Others, TypeOK
  <2> QED BY <2>1, LeaveSlot
<1>7. CASE DeferQueued(r)
  <2>1. Alone(r) /\ pc'[r] = "none" /\ pc[r] = "deferring" /\ semaphore' = semaphore
    BY <1>7 DEF DeferQueued, Release, Vanish, Alone, Others, TypeOK
  <2> QED BY <2>1, MoveSlot DEF HasSlot, Started
<1>8. CASE AbortQueued(r)
  <2>1. Alone(r) /\ pc'[r] = "deferring" /\ pc[r] = "aborting" /\ semaphore' = semaphore
    BY <1>8 DEF AbortQueued, process, Alone, Others, TypeOK
  <2> QED BY <2>1, MoveSlot DEF HasSlot, Started
<1>9. CASE CancelWorking(r) \/ InterruptForForeground(r)
  <2>1. /\ Alone(r) /\ pc'[r] \in {"working", "pausing", "finishing"} /\ pc[r] = "working"
        /\ UNCHANGED <<semaphore, task, forced>>
    BY <1>9 DEF CancelWorking, InterruptForForeground, process, Alone, Others, TypeOK
  <2>2. HasSlot(r)' <=> HasSlot(r)
    BY <2>1 DEF HasSlot, NeedsSlot, Started
  <2> QED BY <2>1, <2>2, MoveSlot
<1> QED BY <1>1, <1>2, <1>3, <1>4, <1>5, <1>6, <1>7, <1>8, <1>9, AcquireSlotSlot, CancelQueuedSlot DEF RunStep

\* New runs are outside.
LEMMA CreateSlot ==
    ASSUME TypeOK, SlotInv, NEW r \in FreeRuns, NEW t \in Task, Create(r, t),
           forced' \in {forced, forced \cup {r}}, semaphore' = semaphore
    PROVE  SlotInv'
<1>1. r \in Run /\ pc[r] = "none"
  BY DEF FreeRuns, Live
<1>2. Alone(r) /\ pc'[r] = "created"
  BY <1>1 DEF Create, Alone, Others, TypeOK
<1> QED BY <1>1, <1>2, MoveSlot DEF HasSlot, Started

LEMMA CheckDueSlot ==
    ASSUME TypeOK, SlotInv, CheckDueTasks
    PROVE  SlotInv'
<1>1. PICK f \in [Due -> FreeRuns] :
         LET new == {f[t] : t \in Due}
         IN  /\ \A s \in Run \ new : task'[s] = task[s] /\ pc'[s] = pc[s] /\ hit'[s] = hit[s]
             /\ \A s \in Run \cap new : pc'[s] = "created"
  BY DEF CheckDueTasks
<1> DEFINE new == {f[t] : t \in Due}
<1>2. forced' = forced /\ semaphore' = semaphore
  BY DEF CheckDueTasks
<1>3. \A s \in new : pc[s] = "none"
  BY DEF FreeRuns, Live
<1> HIDE DEF new
<1>4. \A s \in Run : (pc'[s] = "slot" <=> pc[s] = "slot") /\ (HasSlot(s)' <=> HasSlot(s))
  BY <1>1, <1>2, <1>3 DEF HasSlot, NeedsSlot, Started, new
<1>5. \A s \in Queued : NeedsSlot(s)' /\ (hit'[s] = "no" => hit[s] = "no")
  BY <1>1, <1>2, <1>3 DEF Queued, SlotInv, NeedsSlot, new
<1> QED BY <1>2, <1>4, <1>5, RestSlot

LEMMA SlotStep == SchedulerInv /\ SlotInv /\ [Next]_vars => SlotInv'
<1> SUFFICES ASSUME SchedulerInv, SlotInv, [Next]_vars PROVE SlotInv'
  OBVIOUS
<1>1. TypeOK
  BY DEF SchedulerInv
<1>2. ASSUME NEW r \in Run, RunStep(r) PROVE SlotInv'
  BY <1>1, <1>2, RunStepSlot
<1>3. CASE UNCHANGED <<semaphore, task, pc, forced>> /\ \A s \in Run : hit'[s] = "no" => hit[s] = "no"
  <2>1. \A s \in Queued : s \in Run /\ NeedsSlot(s)'
    BY <1>3 DEF Queued, SlotInv, NeedsSlot
  <2>2. \A s \in Run : (pc'[s] = "slot" <=> pc[s] = "slot") /\ (HasSlot(s)' <=> HasSlot(s))
    BY <1>3 DEF HasSlot, NeedsSlot, Started
  <2> QED BY <1>1, <1>3, <2>1, <2>2, RestSlot
<1>4. CASE UNCHANGED <<semaphore, runs>>
  BY <1>3, <1>4 DEF runs
<1>5. ASSUME NEW t \in Task, TaskStep(t) PROVE SlotInv'
  <2>1. ASSUME NEW r \in FreeRuns, Create(r, t), forced' \in {forced, forced \cup {r}}, semaphore' = semaphore
        PROVE  SlotInv'
    BY <1>1, <2>1, CreateSlot
  <2>2. CASE RunTaskNow(t) \/ FireEvent(t)
    BY <1>3, <2>1, <2>2 DEF RunTaskNow, FireEvent, Dispatch
  <2>3. CASE ForceRun(t)
    BY <2>1, <2>3 DEF ForceRun, process
  <2>4. CASE StopTask(t)
    BY <1>3, <2>4 DEF StopTask, CancelHandles
  <2>5. CASE MarkStopped(t) \/ ComesDue(t) \/ Pause(t) \/ Resume(t)
    BY <1>4, <2>5 DEF MarkStopped, ComesDue, Pause, Resume, process
  <2> QED BY <1>5, <2>2, <2>3, <2>4, <2>5 DEF TaskStep
<1>6. CASE Crash
  <2>1. Queued' = {} /\ Inside' = {} /\ semaphore' = Free
    BY <1>6 DEF Crash, Queued, Inside, HasSlot, Started
  <2>2. QueueIsExact(Free, {}) /\ PermitAccounted(Free, {}) /\ Free \in Semaphores
    BY DEF QueueIsExact, PermitAccounted, Free, Pending, Semaphores
  <2> QED BY <2>1, <2>2, SlotFacts
<1>7. CASE YieldToForeground
  BY <1>3, <1>7 DEF YieldToForeground, CancelHandles
<1>8. CASE PostponeDueTasks \/ ForegroundBegins \/ ForegroundEnds \/ Restart
  BY <1>4, <1>8 DEF PostponeDueTasks, ForegroundBegins, ForegroundEnds, Restart, process
<1>9. CASE UNCHANGED vars
  BY <1>4, <1>9 DEF vars, process
<1> QED BY <1>1, <1>2, <1>5, <1>6, <1>7, <1>8, <1>9, CheckDueSlot DEF Next

\* The queue of the semaphore and its permit agree with where the runs stand,
\* for any tasks, chains and number of runs (task_scheduler.py:908-938).
THEOREM SlotAccounts == Spec => []SlotInv
<1>1. Init => SlotInv
  BY DEF Init, SlotInv, Free, QueueIsExact, PermitAccounted, Pending, Queued, Inside, HasSlot, Started
<1> QED BY <1>1, SlotStep, SchedulerInvariance, PTL DEF Spec

\* The permit of the model slot is neither doubled nor lost: one run at a time
\* is inside, and no run waits while nobody is inside or on the way there
\* (task_scheduler.py:430-434, 917-931).
THEOREM ModelSlot == Spec => []ModelSlotKept
<1>1. SlotInv => ModelSlotKept
  <2> SUFFICES ASSUME SlotInv PROVE ModelSlotKept
    OBVIOUS
  <2>1. PermitAccounted(semaphore, Inside)
    BY DEF SlotInv
  <2>2. \A q, r \in Run : HasSlot(q) /\ HasSlot(r) => q = r
    BY <2>1 DEF PermitAccounted, Inside
  <2>3. Pending(semaphore) # {} => semaphore.granted # {} \/ \E r \in Run : HasSlot(r)
    BY <2>1 DEF PermitAccounted, Inside
  <2> QED BY <2>2, <2>3 DEF ModelSlotKept
<1> QED BY <1>1, SlotAccounts, PTL
=============================================================================
