--------------------------- MODULE ChatWorkProofs ---------------------------
(***************************************************************************)
(* WorkInv is an inductive invariant of ChatWork, for any transcript, any  *)
(* number of jobs, turns and faults; its safety properties follow.         *)
(***************************************************************************)
EXTENDS ChatWorkInvariant, FiniteSetTheorems, SequenceTheorems, TLAPS

-----------------------------------------------------------------------------
(***************************************************************************)
(* Copies of the transcript: sequences of messages of which each one is in *)
(* the set K, of those that were written or refused.                       *)
(***************************************************************************)
Copy(h, K) == h \in Seq(Messages) /\ Elements(h) \subseteq K

LEMMA CopyEmpty ==
    ASSUME NEW K PROVE Copy(<<>>, K)
BY DEF Copy, Elements

LEMMA CopyGrows ==
    ASSUME NEW h, NEW K, NEW L, Copy(h, K), K \subseteq L
    PROVE  Copy(h, L)
BY DEF Copy

LEMMA CopyAppend ==
    ASSUME NEW h, NEW K, NEW m, Copy(h, K), m \in Messages, m \in K
    PROVE  Copy(Append(h, m), K)
<1>1. h \in Seq(Messages)
  BY DEF Copy
<1>2. Append(h, m) \in Seq(Messages)
  BY <1>1
<1>3. ASSUME NEW i \in DOMAIN Append(h, m) PROVE Append(h, m)[i] \in K
  <2>1. i \in 1..(Len(h) + 1) /\ Len(h) \in Nat
    BY <1>1
  <2>2. CASE i = Len(h) + 1
    BY <2>2, <1>1
  <2>3. CASE i # Len(h) + 1
    <3>1. i \in DOMAIN h /\ Append(h, m)[i] = h[i]
      BY <2>1, <2>3, <1>1
    <3> QED BY <3>1 DEF Copy, Elements
  <2> QED BY <2>2, <2>3
<1> QED BY <1>2, <1>3 DEF Copy, Elements

LEMMA CopyPart ==
    ASSUME NEW h, NEW K, NEW a \in Nat \ {0}, NEW b \in Int, Copy(h, K), b <= Len(h)
    PROVE  Copy(SubSeq(h, a, b), K)
<1>1. h \in Seq(Messages) /\ Len(h) \in Nat /\ DOMAIN h = 1..Len(h)
  BY LenProperties DEF Copy
<1>2. \A i \in a..b : h[i] \in Messages /\ h[i] \in K
  <2>1. \A i \in a..b : i \in DOMAIN h
    BY <1>1
  <2>2. \A i \in DOMAIN h : h[i] \in Messages
    BY <1>1
  <2> QED BY <2>1, <2>2 DEF Copy, Elements
<1>3. /\ SubSeq(h, a, b) \in Seq(Messages)
      /\ Len(SubSeq(h, a, b)) = IF a <= b THEN b - a + 1 ELSE 0
      /\ \A i \in 1..(b - a + 1) : SubSeq(h, a, b)[i] = h[a + i - 1]
  <2>1. a \in Int /\ \A i \in a..b : h[i] \in Messages
    BY <1>2
  <2> QED BY <2>1, SubSeqProperties
<1>4. ASSUME NEW i \in DOMAIN SubSeq(h, a, b) PROVE SubSeq(h, a, b)[i] \in K
  <2>1. i \in 1..Len(SubSeq(h, a, b))
    BY <1>3, LenProperties
  <2>2. i \in 1..(b - a + 1) /\ a + i - 1 \in a..b
    BY <2>1, <1>3
  <2> QED BY <2>2, <1>3, <1>2
<1> QED BY <1>3, <1>4 DEF Copy, Elements

LEMMA CopyConcat ==
    ASSUME NEW g, NEW h, NEW K, Copy(g, K), Copy(h, K)
    PROVE  Copy(g \o h, K)
<1>1. g \in Seq(Messages) /\ h \in Seq(Messages)
  BY DEF Copy
<1>2. /\ Len(g) \in Nat /\ DOMAIN g = 1..Len(g)
      /\ Len(h) \in Nat /\ DOMAIN h = 1..Len(h)
  BY <1>1, LenProperties
<1>3. /\ g \o h \in Seq(Messages)
      /\ Len(g \o h) = Len(g) + Len(h)
      /\ \A i \in 1..(Len(g) + Len(h)) : (g \o h)[i] = IF i <= Len(g) THEN g[i] ELSE h[i - Len(g)]
  BY <1>1, ConcatProperties
<1>4. ASSUME NEW i \in DOMAIN (g \o h) PROVE (g \o h)[i] \in K
  <2>1. i \in 1..(Len(g) + Len(h))
    BY <1>3, LenProperties
  <2>2. CASE i <= Len(g)
    <3>1. i \in DOMAIN g /\ (g \o h)[i] = g[i]
      BY <2>1, <2>2, <1>2, <1>3
    <3> QED BY <3>1 DEF Copy, Elements
  <2>3. CASE ~(i <= Len(g))
    <3>1. i - Len(g) \in DOMAIN h /\ (g \o h)[i] = h[i - Len(g)]
      BY <2>1, <2>3, <1>2, <1>3
    <3> QED BY <3>1 DEF Copy, Elements
  <2> QED BY <2>2, <2>3
<1> QED BY <1>3, <1>4 DEF Copy, Elements

LEMMA CopySummary ==
    ASSUME NEW K, Summary \in K PROVE Copy(<<Summary>>, K)
<1>1. Summary \in Messages
  BY DEF Messages
<1>2. <<Summary>> \in Seq(Messages) /\ DOMAIN <<Summary>> = {1} /\ <<Summary>>[1] = Summary
  BY <1>1
<1> QED BY <1>2 DEF Copy, Elements

LEMMA SummaryOfType ==
    ASSUME NEW h, h \in Seq(Messages)
    PROVE  SummaryOf(h) \in [system : Nat, split : Nat, older : SUBSET Messages]
<1>1. Len(h) \in Nat /\ DOMAIN h = 1..Len(h) /\ \A i \in DOMAIN h : h[i] \in Messages
  BY LenProperties, ElementOfSeq
<1>2. IsFiniteSet(DOMAIN h)
  BY <1>1, FS_Interval
<1>3. Cardinality(Spoken(h)) \in Nat
  <2>1. Spoken(h) \in SUBSET DOMAIN h
    BY DEF Spoken
  <2> QED BY <2>1, <1>2, FS_Subset, FS_CardinalityType
<1>4. Cardinality(DOMAIN h \ Spoken(h)) \in Nat
  <2>1. DOMAIN h \ Spoken(h) \in SUBSET DOMAIN h
    OBVIOUS
  <2> QED BY <2>1, <1>2, FS_Subset, FS_CardinalityType
<1>5. Split(h) \in Nat
  BY <1>3 DEF Split
<1>6. {h[i] : i \in {m \in Spoken(h) : Cardinality(Spoken(h) \cap 1..m) <= Split(h)}} \subseteq Messages
  BY <1>1 DEF Spoken
<1>7. Preface + Cardinality(DOMAIN h \ Spoken(h)) \in Nat
  BY <1>4, TranscriptAssumption
<1> QED BY <1>5, <1>6, <1>7 DEF SummaryOf

-----------------------------------------------------------------------------
(***************************************************************************)
(* The invariant, by the modules whose variables it is about.              *)
(***************************************************************************)
Known == stored \union unsaved

\* What a turn or a compaction writes.
Talk == {Summary} \union {Asked(n) : n \in 1..MaxTurns} \union {Answered(n) : n \in 1..MaxTurns}

Copies ==
    /\ Copy(rows, Known) /\ Copy(cached, Known) /\ Copy(plan.recent, Known)
    /\ held \in Seq(Messages) /\ (alive => Copy(held, Known))

TextOK ==
    /\ alive \in BOOLEAN /\ shared \in BOOLEAN
    /\ auto \in [system : Nat, split : Nat, older : SUBSET Messages]
    /\ plan \in [older : SUBSET Messages, recent : Seq(Messages)]
    /\ stored \subseteq Messages /\ unsaved \subseteq Messages
    /\ phase \in {"idle", "opened", "asked", "streaming", "saved"}
    /\ turns \in 0..MaxTurns /\ TurnsCount

ShellOK ==
    /\ process \in [Job -> {"none", "running", "over"}]
    /\ shellJob \in [Job -> {"none", "running", "finished"}]
    /\ followed \subseteq Job /\ retired \subseteq Job /\ killed \subseteq Job /\ unlinked \subseteq Job
    /\ batch \subseteq Job /\ drain \in Job \union {NoJob} /\ slips \in 0..MaxSlips

ToolOK ==
    /\ research \in [Tool -> {"none", "running", "done", "failed"}]
    /\ toolJob \in [Tool -> {"none", "running", "ready", "delivered"}]
    /\ summed \subseteq Tool /\ summing \in Tool \union {NoTool}

ShellInv == ShellOK /\ MonitorHandlesFinished /\ AckedIsContinued /\ KilledStaysSilent
ToolInv == ToolOK /\ ReportsAreStored /\ DeliveredIsWritten

LEMMA WorkInvParts == WorkInv <=> Copies /\ TextOK /\ ShellInv /\ ToolInv
<1>1. TypeOK /\ TurnsCount <=>
        /\ rows \in Seq(Messages) /\ cached \in Seq(Messages) /\ held \in Seq(Messages)
        /\ TextOK /\ ShellOK /\ ToolOK
  BY DEF TypeOK, TextOK, ShellOK, ToolOK
<1>2. TextOK => TurnsCount /\ plan.recent \in Seq(Messages)
  BY DEF TextOK
<1>3. Copies <=>
        /\ rows \in Seq(Messages) /\ cached \in Seq(Messages) /\ held \in Seq(Messages)
        /\ plan.recent \in Seq(Messages) /\ CopiesAreKnown
  BY DEF Copies, Copy, CopiesAreKnown, Known
<1> QED BY <1>1, <1>2, <1>3 DEF WorkInv, ShellInv, ToolInv

LEMMA WorkInvNext ==
    ASSUME Copies', TextOK', ShellInv', ToolInv'
    PROVE  WorkInv'
<1>1. TypeOK'
  BY DEF Copies, Copy, ShellInv, ToolInv, TypeOK, TextOK, ShellOK, ToolOK
<1>2. CopiesAreKnown'
  BY DEF Copies, Copy, CopiesAreKnown, Known
<1> QED BY <1>1, <1>2 DEF TextOK, ShellInv, ToolInv, WorkInv

\* A step adds messages of M only to those written or refused, and of U only
\* to those refused.
Adds(M, U) ==
    /\ stored \subseteq stored' /\ unsaved \subseteq unsaved'
    /\ stored' \subseteq Known \union M /\ unsaved' \subseteq unsaved \union U

LEMMA Disjoint ==
    /\ \A j \in Job : FollowUp(j) \notin Talk /\ FollowUp(j) \in Messages
    /\ \A k \in Tool : Delivery(k) \notin Talk /\ Delivery(k) \in Messages
    /\ \A j \in Job, k \in Tool : FollowUp(j) # Delivery(k)
    /\ \A i, j \in Job : FollowUp(i) = FollowUp(j) => i = j
    /\ \A i, k \in Tool : Delivery(i) = Delivery(k) => i = k
    /\ Talk \subseteq Messages
BY DEF FollowUp, Delivery, Talk, Messages, Summary, Asked, Answered

-----------------------------------------------------------------------------
(***************************************************************************)
(* The operations of the transcript.                                       *)
(***************************************************************************)
LEMMA LoadedCopy ==
    ASSUME Copies
    PROVE  Copy(Loaded, Known) /\ Len(Loaded) \in Nat /\ Len(rows) \in Nat /\ Len(rows) <= Len(Loaded)
<1>1. rows \in Seq(Messages) /\ cached \in Seq(Messages)
  BY DEF Copies, Copy
<1>2. Len(rows) \in Nat /\ Len(cached) \in Nat
  BY <1>1
<1> QED BY <1>2 DEF Copies, Loaded, Hydrates

\* mine: what a turn's object holds while the session is there
LEMMA MineCopy ==
    ASSUME Copies
    PROVE  Mine \in Seq(Messages) /\ (alive => Copy(Mine, Known))
BY DEF Copies, Copy, Mine

LEMMA KeptCopy ==
    ASSUME Copies, TextOK, NEW replaced \in BOOLEAN, KeepsOwnObject(replaced)
    PROVE  /\ shared' \in BOOLEAN /\ held' \in Seq(Messages)
           /\ alive => Copy(held', Known)
BY DEF Copies, Copy, TextOK, KeepsOwnObject

LEMMA HydratesType == Hydrates \in BOOLEAN
BY DEF Hydrates

LEMMA PersistCopy ==
    ASSUME Copies, TextOK, NEW m \in Messages, Persist(m)
    PROVE  /\ Copy(rows', Known')
           /\ Known' = Known \union {m}
           /\ Adds({m}, {m})
           /\ stored' \subseteq Messages /\ unsaved' \subseteq Messages
<1>1. Known' = Known \union {m} /\ Adds({m}, {m}) /\ stored' \subseteq Messages /\ unsaved' \subseteq Messages
  BY DEF Persist, Adds, Known, TextOK
<1>2. Copy(rows, Known')
  BY <1>1, CopyGrows DEF Copies
<1>3. Copy(Append(rows, m), Known')
  BY <1>1, <1>2, CopyAppend
<1> QED BY <1>1, <1>2, <1>3 DEF Persist

LEMMA AddMessageCopies ==
    ASSUME Copies, TextOK, NEW m \in Messages, AddMessage(m),
           UNCHANGED <<alive, phase, turns, auto, plan>>
    PROVE  Copies' /\ TextOK' /\ Adds({m}, {m})
<1>1. Persist(m) /\ alive /\ KeepsOwnObject(Hydrates) /\ cached' = Append(Loaded, m)
  BY DEF AddMessage
<1>2. /\ Copy(rows', Known') /\ Known' = Known \union {m} /\ Adds({m}, {m})
      /\ stored' \subseteq Messages /\ unsaved' \subseteq Messages
  BY <1>1, PersistCopy
<1>3. Copy(cached', Known')
  <2>1. Copy(Loaded, Known')
    BY <1>2, LoadedCopy, CopyGrows
  <2> QED BY <2>1, <1>1, <1>2, CopyAppend
<1>4. shared' \in BOOLEAN /\ held' \in Seq(Messages) /\ Copy(held', Known')
  <2>1. shared' \in BOOLEAN /\ held' \in Seq(Messages) /\ Copy(held', Known)
    BY <1>1, HydratesType, KeptCopy
  <2> QED BY <2>1, <1>2, CopyGrows
<1>5. Copy(plan'.recent, Known')
  BY <1>2, CopyGrows DEF Copies
<1>6. Copies'
  BY <1>2, <1>3, <1>4, <1>5 DEF Copies
<1>7. TextOK'
  BY <1>2, <1>4 DEF TextOK, TurnsCount
<1> QED BY <1>2, <1>6, <1>7

LEMMA TurnAddsCopies ==
    ASSUME Copies, TextOK, NEW m \in Messages, TurnAdds(m), UNCHANGED <<alive, plan>>
    PROVE  /\ Copies' /\ Adds({m}, {m}) /\ shared' \in BOOLEAN
           /\ stored' \subseteq Messages /\ unsaved' \subseteq Messages
<1>1. CASE alive
  <2>1. /\ Persist(m) /\ UNCHANGED shared
        /\ IF shared THEN cached' = Append(cached, m) /\ UNCHANGED held
                     ELSE held' = Append(held, m) /\ UNCHANGED cached
    BY <1>1 DEF TurnAdds
  <2>2. /\ Copy(rows', Known') /\ Known' = Known \union {m} /\ Adds({m}, {m})
        /\ stored' \subseteq Messages /\ unsaved' \subseteq Messages
    BY <2>1, PersistCopy
  <2>3. Copy(cached, Known') /\ Copy(held, Known') /\ Copy(plan.recent, Known')
    <3>1. Copy(cached, Known) /\ Copy(held, Known) /\ Copy(plan.recent, Known)
      BY <1>1 DEF Copies
    <3> QED BY <3>1, <2>2, CopyGrows
  <2>4. Copy(Append(cached, m), Known') /\ Copy(Append(held, m), Known')
    BY <2>2, <2>3, CopyAppend
  <2>5. Copy(cached', Known') /\ Copy(held', Known') /\ Copy(plan'.recent, Known')
    BY <2>1, <2>3, <2>4
  <2>6. held' \in Seq(Messages)
    BY <2>5 DEF Copy
  <2>7. shared' \in BOOLEAN
    BY <2>1 DEF TextOK
  <2> QED BY <2>2, <2>5, <2>6, <2>7 DEF Copies
<1>2. CASE ~alive
  <2>1. /\ held' = Append(Mine, m) /\ shared' = FALSE /\ cached' = <<>>
        /\ UNCHANGED <<rows, stored, unsaved>>
    BY <1>2 DEF TurnAdds
  <2>2. held' \in Seq(Messages)
    BY <2>1, MineCopy
  <2>3. Copy(cached', Known)
    BY <2>1, CopyEmpty
  <2>4. Known' = Known /\ Adds({m}, {m}) /\ ~alive'
    BY <2>1, <1>2 DEF Known, Adds
  <2> QED BY <2>1, <2>2, <2>3, <2>4 DEF Copies, TextOK
<1> QED BY <1>1, <1>2

\* A summary takes the place of a part of a history.
LEMMA SummarisedCopy ==
    ASSUME TextOK, NEW h, NEW K, Copy(h, K), CutsInside(h)
    PROVE  Copy(Summarised(h), K \union {Summary})
<1> DEFINE cut == auto.system + auto.split
<1>1. auto.system \in Nat /\ auto.split \in Nat /\ cut < Len(h)
  BY DEF TextOK, CutsInside
<1>2. Copy(h, K \union {Summary}) /\ Len(h) \in Nat
  <2>1. h \in Seq(Messages)
    BY DEF Copy
  <2> QED BY <2>1, CopyGrows
<1>3. auto.system \in Int /\ auto.system <= Len(h) /\ cut + 1 \in Nat \ {0}
      /\ Len(h) \in Int /\ Len(h) <= Len(h) /\ 1 \in Nat \ {0}
  BY <1>1, <1>2
<1>4. Copy(SubSeq(h, 1, auto.system), K \union {Summary})
  BY <1>2, <1>3, CopyPart
<1>5. Copy(SubSeq(h, cut + 1, Len(h)), K \union {Summary})
  <2> HIDE DEF cut
  <2> QED BY <1>2, <1>3, CopyPart
<1>6. Copy(<<Summary>>, K \union {Summary})
  BY CopySummary
<1> QED BY <1>4, <1>5, <1>6, CopyConcat DEF Summarised

\* What is left of a history that was cut.
LEMMA FirstOfCopy ==
    ASSUME NEW n \in Nat, NEW h, NEW K, Copy(h, K)
    PROVE  Copy(FirstOf(n, h), K)
<1>1. n \in Int /\ Len(h) \in Nat /\ 1 \in Nat \ {0}
  BY DEF Copy
<1>2. CASE n < Len(h)
  <2>1. n <= Len(h)
    BY <1>1, <1>2
  <2>2. Copy(SubSeq(h, 1, n), K)
    BY <1>1, <2>1, CopyPart
  <2> QED BY <1>2, <2>2 DEF FirstOf
<1> QED BY <1>2 DEF FirstOf

LEMMA ReplaceCopies ==
    ASSUME Copies, TextOK, NEW new, Copy(new, Known \union {Summary}), ReplaceMessages(new)
    PROVE  /\ Copy(rows', Known') /\ Copy(cached', Known') /\ Known \subseteq Known'
           /\ held' \in Seq(Messages) /\ (alive => Copy(held', Known'))
           /\ shared' \in BOOLEAN /\ Adds(Talk, Talk)
           /\ stored' \subseteq Messages /\ unsaved' \subseteq Messages
<1>1. /\ rows' = new /\ cached' = new /\ KeepsOwnObject(Hydrates)
      /\ stored' = stored \union Elements(new) /\ unsaved' = unsaved
  BY DEF ReplaceMessages
<1>2. new \in Seq(Messages) /\ Elements(new) \subseteq Known \union {Summary}
  BY DEF Copy
<1>3. stored \subseteq Messages /\ unsaved \subseteq Messages /\ Summary \in Messages
  BY DEF TextOK, Messages
<1>4. Known \subseteq Known' /\ Elements(new) \subseteq Known' /\ Adds(Talk, Talk)
  BY <1>1, <1>2 DEF Known, Adds, Talk
<1>5. stored' \subseteq Messages /\ unsaved' \subseteq Messages
  BY <1>1, <1>2, <1>3 DEF Known
<1>6. shared' \in BOOLEAN /\ held' \in Seq(Messages) /\ (alive => Copy(held', Known))
  BY <1>1, HydratesType, KeptCopy
<1>7. alive => Copy(held', Known')
  BY <1>4, <1>6, CopyGrows
<1> QED BY <1>1, <1>2, <1>4, <1>5, <1>6, <1>7 DEF Copy

LEMMA AddsSame == UNCHANGED <<stored, unsaved>> => Known' = Known /\ \A M, U : Adds(M, U)
BY DEF Known, Adds

LEMMA AddsMore ==
    ASSUME NEW M, NEW U, NEW N, Adds(M, U), M \subseteq N, U \subseteq N
    PROVE  Adds(N, N)
BY DEF Adds

LEMMA TranscriptSteps ==
    ASSUME Copies, TextOK, TranscriptStep
    PROVE  Copies' /\ TextOK' /\ Adds(Talk, Talk) /\ alive' = alive
<1>a. turns \in Nat /\ turns \in 0..MaxTurns /\ MaxTurns \in Nat
  BY TranscriptAssumption DEF TextOK
<1>1. CASE OpenTurn
  <2>1. /\ cached' = Loaded /\ phase' = "opened" /\ turns' = turns + 1 /\ turns < MaxTurns
        /\ shared' = TRUE /\ held' = <<>> /\ UNCHANGED <<alive, rows, auto, plan, stored, unsaved>>
    BY <1>1 DEF OpenTurn
  <2>2. Known' = Known /\ Adds(Talk, Talk)
    BY <2>1, AddsSame
  <2>3. Copy(cached', Known') /\ Copy(held', Known')
    BY <2>1, <2>2, LoadedCopy, CopyEmpty
  <2>4. Copies'
    BY <2>1, <2>2, <2>3 DEF Copies, Copy
  <2>5. TextOK'
    BY <2>1, <1>a DEF TextOK, TurnsCount
  <2> QED BY <2>1, <2>2, <2>4, <2>5
<1>2. CASE Ask
  <2> DEFINE history == Append(Mine, Asked(turns))
  <2>1. /\ phase = "opened" /\ phase' = "asked" /\ TurnAdds(Asked(turns))
        /\ auto' = auto \/ auto' = SummaryOf(history)
        /\ UNCHANGED <<alive, turns, plan>>
    BY <1>2 DEF Ask
  <2>2. turns > 0
    BY <2>1 DEF TextOK, TurnsCount
  <2>3. Asked(turns) \in Talk /\ Asked(turns) \in Messages
    BY <1>a, <2>2 DEF Talk, Messages
  <2>4. /\ Copies' /\ Adds({Asked(turns)}, {Asked(turns)}) /\ shared' \in BOOLEAN
        /\ stored' \subseteq Messages /\ unsaved' \subseteq Messages
    BY <2>1, <2>3, TurnAddsCopies
  <2>5. auto' \in [system : Nat, split : Nat, older : SUBSET Messages]
    <3>1. history \in Seq(Messages)
      BY <2>3, MineCopy
    <3>2. SummaryOf(history) \in [system : Nat, split : Nat, older : SUBSET Messages]
      BY <3>1, SummaryOfType
    <3> QED BY <2>1, <3>2 DEF TextOK
  <2>6. TextOK'
    BY <2>1, <2>2, <2>4, <2>5 DEF TextOK, TurnsCount
  <2>7. Adds(Talk, Talk)
    BY <2>3, <2>4, AddsMore
  <2> QED BY <2>1, <2>4, <2>6, <2>7
<1>3. CASE AutoCompact
  <2>1. /\ alive /\ auto' = NoAuto /\ UNCHANGED <<phase, turns, plan>>
        /\ \/ CutsInside(Mine) /\ ReplaceMessages(Summarised(Mine))
           \/ CutsInside(Loaded) /\ ReplaceMessages(Summarised(Loaded))
           \/ UNCHANGED <<alive, rows, cached, shared, held, stored, unsaved>>
           \/ /\ cached' = Loaded /\ KeepsOwnObject(Hydrates)
              /\ UNCHANGED <<alive, rows, stored, unsaved>>
    BY <1>3 DEF AutoCompact
  <2>2. auto' \in [system : Nat, split : Nat, older : SUBSET Messages]
    BY <2>1 DEF NoAuto
  <2>3. ASSUME NEW h \in {Mine, Loaded}, CutsInside(h), ReplaceMessages(Summarised(h))
        PROVE  Copies' /\ TextOK' /\ Adds(Talk, Talk) /\ alive' = alive
    <3>1. Copy(h, Known)
      BY <2>1, MineCopy, LoadedCopy
    <3>2. Copy(Summarised(h), Known \union {Summary})
      BY <2>3, <3>1, SummarisedCopy
    <3>3. /\ Copy(rows', Known') /\ Copy(cached', Known') /\ Known \subseteq Known'
          /\ held' \in Seq(Messages) /\ (alive => Copy(held', Known'))
          /\ shared' \in BOOLEAN /\ Adds(Talk, Talk)
          /\ stored' \subseteq Messages /\ unsaved' \subseteq Messages
      BY <2>3, <3>2, ReplaceCopies
    <3>4. Copy(plan'.recent, Known') /\ alive' = alive
      <4>1. Copy(plan.recent, Known)
        BY DEF Copies
      <4> QED BY <4>1, <2>1, <2>3, <3>3, CopyGrows DEF ReplaceMessages
    <3>5. Copies'
      BY <3>3, <3>4 DEF Copies
    <3>6. TextOK'
      BY <2>1, <2>2, <3>3, <3>4 DEF TextOK, TurnsCount
    <3> QED BY <3>3, <3>4, <3>5, <3>6
  <2>4. ASSUME UNCHANGED <<alive, rows, stored, unsaved>>,
               \/ UNCHANGED <<cached, shared, held>>
               \/ cached' = Loaded /\ KeepsOwnObject(Hydrates)
        PROVE  Copies' /\ TextOK' /\ Adds(Talk, Talk) /\ alive' = alive
    <3>1. Known' = Known /\ Adds(Talk, Talk)
      BY <2>4, AddsSame
    <3>2. Copy(cached', Known)
      BY <2>4, LoadedCopy DEF Copies
    <3>3. shared' \in BOOLEAN /\ held' \in Seq(Messages) /\ (alive => Copy(held', Known))
      BY <2>4, HydratesType, KeptCopy DEF Copies, TextOK
    <3>4. Copies'
      BY <2>1, <2>4, <3>1, <3>2, <3>3 DEF Copies
    <3>5. TextOK'
      BY <2>1, <2>2, <2>4, <3>3 DEF TextOK, TurnsCount
    <3> QED BY <2>4, <3>1, <3>4, <3>5
  <2> QED BY <2>1, <2>3, <2>4
<1>4. CASE StartStream
  <2>1. /\ phase = "asked" /\ phase' = "streaming"
        /\ UNCHANGED <<alive, rows, cached, turns, shared, held, auto, plan, stored, unsaved>>
    BY <1>4 DEF StartStream
  <2>2. Known' = Known /\ Adds(Talk, Talk)
    BY <2>1, AddsSame
  <2>3. Copies'
    BY <2>1, <2>2 DEF Copies
  <2>4. TextOK'
    BY <2>1 DEF TextOK, TurnsCount
  <2> QED BY <2>1, <2>2, <2>3, <2>4
<1>5. CASE Answer
  <2>1. /\ phase = "streaming" /\ phase' = "saved" /\ TurnAdds(Answered(turns))
        /\ UNCHANGED <<alive, turns, auto, plan>>
    BY <1>5 DEF Answer
  <2>2. turns > 0
    BY <2>1 DEF TextOK, TurnsCount
  <2>3. Answered(turns) \in Talk /\ Answered(turns) \in Messages
    BY <1>a, <2>2 DEF Talk, Messages
  <2>4. /\ Copies' /\ Adds({Answered(turns)}, {Answered(turns)}) /\ shared' \in BOOLEAN
        /\ stored' \subseteq Messages /\ unsaved' \subseteq Messages
    BY <2>1, <2>3, TurnAddsCopies
  <2>5. TextOK'
    BY <2>1, <2>2, <2>4 DEF TextOK, TurnsCount
  <2>6. Adds(Talk, Talk)
    BY <2>3, <2>4, AddsMore
  <2> QED BY <2>1, <2>4, <2>5, <2>6
<1>6. CASE EndTurn
  <2>1. /\ phase' = "idle" /\ auto' = NoAuto /\ shared' = FALSE /\ held' = <<>>
        /\ UNCHANGED <<alive, rows, cached, turns, plan, stored, unsaved>>
    BY <1>6 DEF EndTurn
  <2>2. Known' = Known /\ Adds(Talk, Talk)
    BY <2>1, AddsSame
  <2>3. Copies'
    BY <2>1, <2>2, CopyEmpty DEF Copies, Copy
  <2>4. TextOK'
    BY <2>1 DEF TextOK, TurnsCount, NoAuto
  <2> QED BY <2>1, <2>2, <2>3, <2>4
<1>7. CASE BeginCompact
  <2> DEFINE n == Len(Loaded) - Keep
  <2>1. /\ cached' = Loaded /\ KeepsOwnObject(Hydrates) /\ Len(Loaded) >= MinToCompact
        /\ plan' = [older |-> Elements(SubSeq(Loaded, 1, n)), recent |-> SubSeq(Loaded, n + 1, Len(Loaded))]
        /\ UNCHANGED <<alive, rows, phase, turns, auto, stored, unsaved>>
    BY <1>7 DEF BeginCompact
  <2>2. Known' = Known /\ Adds(Talk, Talk)
    BY <2>1, AddsSame
  <2>3. Copy(Loaded, Known) /\ Len(Loaded) \in Nat
    BY LoadedCopy
  <2>4. /\ n \in Int /\ n <= Len(Loaded) /\ n + 1 \in Nat \ {0}
        /\ Len(Loaded) \in Int /\ Len(Loaded) <= Len(Loaded) /\ 1 \in Nat \ {0}
    BY <2>1, <2>3, TranscriptAssumption
  <2>5. Copy(SubSeq(Loaded, 1, n), Known) /\ Copy(SubSeq(Loaded, n + 1, Len(Loaded)), Known)
    <3> HIDE DEF n
    <3> QED BY <2>3, <2>4, CopyPart
  <2>6. Known \subseteq Messages
    BY DEF TextOK, Known
  <2>7. plan' \in [older : SUBSET Messages, recent : Seq(Messages)] /\ Copy(plan'.recent, Known)
    BY <2>1, <2>5, <2>6 DEF Copy
  <2>8. shared' \in BOOLEAN /\ held' \in Seq(Messages) /\ (alive => Copy(held', Known))
    BY <2>1, HydratesType, KeptCopy
  <2>9. Copies'
    BY <2>1, <2>2, <2>3, <2>7, <2>8 DEF Copies
  <2>10. TextOK'
    BY <2>1, <2>7, <2>8 DEF TextOK, TurnsCount
  <2> QED BY <2>1, <2>2, <2>9, <2>10
<1>8. CASE FinishCompact
  <2>1. /\ ReplaceMessages(<<Summary>> \o plan.recent) /\ plan' = NoPlan
        /\ UNCHANGED <<alive, phase, turns, auto>>
    BY <1>8 DEF FinishCompact, ReplaceMessages
  <2>2. Copy(<<Summary>> \o plan.recent, Known \union {Summary})
    <3>1. Copy(plan.recent, Known \union {Summary})
      BY CopyGrows DEF Copies
    <3> QED BY <3>1, CopySummary, CopyConcat
  <2>3. /\ Copy(rows', Known') /\ Copy(cached', Known') /\ Known \subseteq Known'
        /\ held' \in Seq(Messages) /\ (alive => Copy(held', Known'))
        /\ shared' \in BOOLEAN /\ Adds(Talk, Talk)
        /\ stored' \subseteq Messages /\ unsaved' \subseteq Messages
    BY <2>1, <2>2, ReplaceCopies
  <2>4. Copy(plan'.recent, Known') /\ plan' \in [older : SUBSET Messages, recent : Seq(Messages)]
    BY <2>1, CopyEmpty DEF NoPlan, Copy
  <2>5. Copies'
    BY <2>1, <2>3, <2>4 DEF Copies
  <2>6. TextOK'
    BY <2>1, <2>3, <2>4 DEF TextOK, TurnsCount
  <2> QED BY <2>1, <2>3, <2>5, <2>6
<1>9. CASE AbandonCompact
  <2>1. plan' = NoPlan /\ UNCHANGED <<alive, rows, cached, turnVars, stored, unsaved>>
    BY <1>9 DEF AbandonCompact
  <2>2. Known' = Known /\ Adds(Talk, Talk)
    BY <2>1, AddsSame
  <2>3. Copy(plan'.recent, Known') /\ plan' \in [older : SUBSET Messages, recent : Seq(Messages)]
    BY <2>1, CopyEmpty DEF NoPlan, Copy
  <2>4. Copies'
    BY <2>1, <2>2, <2>3 DEF Copies, turnVars
  <2>5. TextOK'
    BY <2>1, <2>3 DEF TextOK, TurnsCount, turnVars
  <2> QED BY <2>1, <2>2, <2>4, <2>5
<1>10. ASSUME NEW n \in Rewind, Truncate(n) PROVE Copies' /\ TextOK' /\ Adds(Talk, Talk) /\ alive' = alive
  <2>1. /\ rows' = FirstOf(n, rows) /\ cached' = FirstOf(n, Loaded)
        /\ KeepsOwnObject(Hydrates) /\ UNCHANGED <<alive, phase, turns, auto, plan, stored, unsaved>>
    BY <1>10 DEF Truncate
  <2>2. Known' = Known /\ Adds(Talk, Talk)
    BY <2>1, AddsSame
  <2>3. Copy(Loaded, Known) /\ Copy(rows, Known) /\ n \in Nat
    BY LoadedCopy, TranscriptAssumption DEF Copies
  <2>4. Copy(rows', Known) /\ Copy(cached', Known)
    BY <2>1, <2>3, FirstOfCopy
  <2>5. shared' \in BOOLEAN /\ held' \in Seq(Messages) /\ (alive => Copy(held', Known))
    BY <2>1, HydratesType, KeptCopy
  <2>6. Copies'
    BY <2>1, <2>2, <2>4, <2>5 DEF Copies
  <2>7. TextOK'
    BY <2>1, <2>5 DEF TextOK, TurnsCount
  <2> QED BY <2>1, <2>2, <2>6, <2>7
<1> QED
  BY <1>1, <1>2, <1>3, <1>4, <1>5, <1>6, <1>7, <1>8, <1>9, <1>10 DEF TranscriptStep, TurnStep

\* get_session, which may replace the cached Session.
LEMMA GetSessionCopies ==
    ASSUME Copies, TextOK, cached' = Loaded, KeepsOwnObject(Hydrates),
           UNCHANGED <<alive, rows, phase, turns, auto, plan, stored, unsaved>>
    PROVE  Copies' /\ TextOK'
<1>1. Known' = Known /\ Copy(cached', Known)
  BY LoadedCopy, AddsSame
<1>2. shared' \in BOOLEAN /\ held' \in Seq(Messages) /\ (alive => Copy(held', Known))
  BY HydratesType, KeptCopy
<1>3. Copies'
  BY <1>1, <1>2 DEF Copies
<1>4. TextOK'
  BY <1>2 DEF TextOK, TurnsCount
<1> QED BY <1>3, <1>4

LEMMA TextFrame ==
    ASSUME UNCHANGED transcriptVars
    PROVE  /\ (Copies => Copies') /\ (TextOK => TextOK') /\ Known' = Known /\ alive' = alive
           /\ \A M, U : Adds(M, U)
<1>1. Known' = Known /\ \A M, U : Adds(M, U)
  BY AddsSame DEF transcriptVars
<1>2. Copies => Copies'
  BY <1>1 DEF Copies, transcriptVars, turnVars
<1>3. TextOK => TextOK'
  BY DEF TextOK, TurnsCount, transcriptVars, turnVars
<1> QED BY <1>1, <1>2, <1>3 DEF transcriptVars

-----------------------------------------------------------------------------
(***************************************************************************)
(* Shell jobs.                                                             *)
(***************************************************************************)
LEMMA ShellFrame ==
    ASSUME ShellInv, UNCHANGED shellVars, NEW M, NEW U, Adds(M, U),
           \A j \in Job : FollowUp(j) \notin M \union U
    PROVE  ShellInv'
<1>1. \A j \in Job : FollowUp(j) \in Known' <=> FollowUp(j) \in Known
  BY DEF Adds, Known
<1>2. ShellOK' /\ MonitorHandlesFinished'
  BY <1>1 DEF ShellInv, ShellOK, MonitorHandlesFinished, shellVars, Known
<1>3. \A j \in Job : j \in followed => FollowUp(j) \in Known \/ j \in killed
  BY DEF ShellInv, AckedIsContinued, Known
<1>4. AckedIsContinued'
  BY <1>1, <1>3 DEF ShellInv, ShellOK, AckedIsContinued, shellVars, Known
<1>5. KilledStaysSilent'
  BY <1>1 DEF ShellInv, ShellOK, KilledStaysSilent, shellVars, Known
<1> QED BY <1>2, <1>4, <1>5 DEF ShellInv

\* The steps that write nothing into the chat.
LEMMA SilentShellSteps ==
    ASSUME ShellInv, Known' = Known, NEW j \in Job,
           \/ Launch(j) \/ EndProcess(j) \/ LoseLinkage(j) \/ Kill(j)
           \/ FailFollowUp(j) \/ PutOff(j) \/ BeginFollowUp(j)
           \/ DropFollowUp(j) \/ RetireFollowUp(j)
    PROVE  ShellInv'
<1> USE ShellAssumption DEF ShellInv, ShellOK, MonitorHandlesFinished, AckedIsContinued,
                           KilledStaysSilent, Known
<1>1. CASE Launch(j)
  BY <1>1 DEF Launch
<1>2. CASE EndProcess(j)
  BY <1>2 DEF EndProcess
<1>3. CASE LoseLinkage(j)
  BY <1>3 DEF LoseLinkage
<1>4. CASE Kill(j)
  <2>1. shellJob[j] = "running" /\ shellJob' = [shellJob EXCEPT ![j] = "finished"]
        /\ UNCHANGED <<retired, unlinked, batch, drain, slips>>
    BY <1>4 DEF Kill
  <2>2. j \notin batch /\ drain # j /\ FollowUp(j) \notin stored \union unsaved
    BY <2>1
  <2>3. CASE process[j] = "over"
    <3>1. UNCHANGED <<process, killed, followed>>
      BY <1>4, <2>3 DEF Kill
    <3> QED BY <2>1, <2>2, <3>1
  <2>4. CASE process[j] # "over"
    <3>1. /\ process' = [process EXCEPT ![j] = "over"] /\ killed' = killed \union {j}
          /\ followed' = followed \union {j}
      BY <1>4, <2>4 DEF Kill, Silenced
    <3> QED BY <2>1, <2>2, <3>1
  <2> QED BY <2>3, <2>4
<1>5. CASE FailFollowUp(j)
  BY <1>5 DEF FailFollowUp
<1>6. CASE PutOff(j)
  BY <1>6 DEF PutOff
<1>7. CASE BeginFollowUp(j)
  BY <1>7 DEF BeginFollowUp, Retire
<1>8. CASE DropFollowUp(j)
  BY <1>8 DEF DropFollowUp
<1>9. CASE RetireFollowUp(j)
  BY <1>9 DEF RetireFollowUp, Retire
<1> QED BY <1>1, <1>2, <1>3, <1>4, <1>5, <1>6, <1>7, <1>8, <1>9

LEMMA PollInv ==
    ASSUME ShellInv, Known' = Known, Poll
    PROVE  ShellInv'
<1>1. /\ drain = NoJob /\ shellJob' = Refreshed /\ batch' = Pending(Refreshed)
      /\ UNCHANGED <<process, followed, retired, killed, unlinked, drain, slips>>
  BY DEF Poll
<1>2. /\ Refreshed \in [Job -> {"none", "running", "finished"}]
      /\ \A i \in Job : shellJob[i] = "finished" => Refreshed[i] = "finished"
  BY DEF Refreshed, ShellInv, ShellOK
<1>3. batch' \subseteq Job /\ \A i \in batch' : Refreshed[i] = "finished" /\ i \notin killed
  BY <1>1 DEF Pending, ShellInv, MonitorHandlesFinished
<1>4. ShellOK'
  BY <1>1, <1>2, <1>3 DEF ShellInv, ShellOK
<1>5. MonitorHandlesFinished'
  BY <1>1, <1>2, <1>3, ShellAssumption DEF ShellInv, ShellOK, MonitorHandlesFinished, Known
<1>6. AckedIsContinued' /\ KilledStaysSilent'
  BY <1>1 DEF ShellInv, AckedIsContinued, KilledStaysSilent, Known
<1> QED BY <1>4, <1>5, <1>6 DEF ShellInv

LEMMA FinishFollowUpInv ==
    ASSUME ShellInv, NEW j \in Job, FinishFollowUp(j), Adds({FollowUp(j)}, {FollowUp(j)}),
           Known' = Known \union {FollowUp(j)}
    PROVE  ShellInv'
<1>1. /\ drain = j /\ drain' = NoJob /\ Acknowledge(j)
      /\ UNCHANGED <<process, shellJob, retired, killed, unlinked, batch>>
  BY DEF FinishFollowUp
<1>2. shellJob[j] = "finished" /\ j \notin killed
  BY <1>1, ShellAssumption DEF ShellInv, MonitorHandlesFinished
<1>3. \A i \in Job : FollowUp(i) \in Known' <=> FollowUp(i) \in Known \/ i = j
  BY Disjoint
<1>4. followed' \subseteq followed \union {j} /\ followed \subseteq followed'
      /\ slips' \in 0..MaxSlips
  BY <1>1, ShellAssumption DEF Acknowledge, ShellInv, ShellOK
<1>5. ShellOK'
  BY <1>1, <1>4 DEF ShellInv, ShellOK
<1>6. MonitorHandlesFinished'
  BY <1>1, <1>2, <1>3, <1>4, ShellAssumption DEF ShellInv, ShellOK, MonitorHandlesFinished, Known
<1>7. AckedIsContinued'
  BY <1>1, <1>3, <1>4 DEF ShellInv, ShellOK, AckedIsContinued, Known
<1>8. KilledStaysSilent'
  BY <1>1, <1>2, <1>3, ShellAssumption DEF ShellInv, ShellOK, KilledStaysSilent, Known
<1> QED BY <1>5, <1>6, <1>7, <1>8 DEF ShellInv

-----------------------------------------------------------------------------
(***************************************************************************)
(* Tool jobs.                                                              *)
(***************************************************************************)
LEMMA ToolFrame ==
    ASSUME ToolInv, UNCHANGED toolVars, alive' = alive, NEW M, NEW U, Adds(M, U),
           \A k \in Tool : Delivery(k) \notin M \union U
    PROVE  ToolInv'
<1>1. \A k \in Tool : Delivery(k) \notin unsaved'
  BY DEF Adds, ToolInv, ReportsAreStored
<1>2. \A k \in Tool : Delivery(k) \in stored' <=> Delivery(k) \in stored
  BY DEF Adds, Known, ToolInv, ReportsAreStored
<1> QED BY <1>1, <1>2 DEF ToolInv, ToolOK, ReportsAreStored, DeliveredIsWritten, toolVars

LEMMA CommitText ==
    ASSUME Copies, TextOK, NEW k \in Tool, CommitDelivery(k), Delivery(k) \notin unsaved
    PROVE  /\ Copies' /\ TextOK' /\ Adds({Delivery(k)}, {}) /\ alive' = alive
           /\ stored' = stored \union {Delivery(k)} /\ unsaved' = unsaved
<1>1. UNCHANGED <<alive, cached, turnVars, plan, unsaved>> /\ Delivery(k) \in Messages
  BY Disjoint DEF CommitDelivery
<1>2. CASE Delivery(k) \in Elements(rows)
  <2>1. UNCHANGED <<rows, stored>>
    BY <1>2 DEF CommitDelivery
  <2>2. Delivery(k) \in stored
    BY <1>2 DEF Copies, Copy, Known
  <2>3. UNCHANGED transcriptVars
    BY <1>1, <2>1 DEF transcriptVars
  <2>4. Adds({Delivery(k)}, {})
    BY <2>3, TextFrame
  <2> QED BY <1>1, <2>1, <2>2, <2>3, <2>4, TextFrame
<1>3. CASE Delivery(k) \notin Elements(rows)
  <2>1. rows' = Append(rows, Delivery(k)) /\ stored' = stored \union {Delivery(k)}
    BY <1>3 DEF CommitDelivery
  <2>2. Known' = Known \union {Delivery(k)} /\ Adds({Delivery(k)}, {})
    BY <1>1, <2>1 DEF Known, Adds
  <2>3. Copy(rows, Known') /\ Copy(cached, Known') /\ Copy(plan.recent, Known')
        /\ (alive => Copy(held, Known'))
    BY <2>2, CopyGrows DEF Copies
  <2>4. Copy(rows', Known')
    BY <1>1, <2>1, <2>2, <2>3, CopyAppend
  <2>5. Copies'
    BY <1>1, <2>3, <2>4 DEF Copies, turnVars
  <2>6. TextOK'
    BY <1>1, <2>1 DEF TextOK, TurnsCount, turnVars
  <2> QED BY <1>1, <2>1, <2>2, <2>5, <2>6
<1> QED BY <1>2, <1>3

LEMMA CommitInv ==
    ASSUME WorkInv, NEW k \in Tool, CommitDelivery(k), toolJob[k] = "ready",
           UNCHANGED <<shellVars, research>>,
           summed' \subseteq Tool, summing' \in Tool \union {NoTool}
    PROVE  WorkInv'
<1>1. Copies /\ TextOK /\ ShellInv /\ ToolInv
  BY WorkInvParts
<1>2. Delivery(k) \notin unsaved /\ alive
  BY <1>1 DEF ToolInv, ReportsAreStored
<1>3. /\ Copies' /\ TextOK' /\ Adds({Delivery(k)}, {}) /\ alive' = alive
      /\ stored' = stored \union {Delivery(k)} /\ unsaved' = unsaved
  BY <1>1, <1>2, CommitText
<1>4. ShellInv'
  <2>1. \A j \in Job : FollowUp(j) \notin {Delivery(k)} \union {}
    BY Disjoint
  <2> QED BY <1>1, <1>3, <2>1, ShellFrame
<1>5. toolJob' = [toolJob EXCEPT ![k] = "delivered"]
  BY DEF CommitDelivery, MarkDelivered
<1>6. \A i \in Tool : Delivery(i) \in stored' <=> Delivery(i) \in stored \/ i = k
  BY <1>3, Disjoint
<1>7. ToolOK'
  BY <1>1, <1>5 DEF ToolInv, ToolOK
<1>8. ReportsAreStored' /\ DeliveredIsWritten'
  BY <1>1, <1>2, <1>3, <1>5, <1>6 DEF ToolInv, ToolOK, ReportsAreStored, DeliveredIsWritten
<1> QED BY <1>3, <1>4, <1>7, <1>8, WorkInvNext DEF ToolInv

LEMMA ToolSteps ==
    ASSUME WorkInv, NEW k \in Tool, ToolStep(k), UNCHANGED shellVars
    PROVE  WorkInv'
<1>1. Copies /\ TextOK /\ ShellInv /\ ToolInv
  BY WorkInvParts
\* Steps that write nothing into the chat and mark nothing as delivered.
<1>2. ASSUME Copies', TextOK', UNCHANGED <<alive, stored, unsaved>>, ToolOK',
             \A i \in Tool : /\ toolJob'[i] = "delivered" <=> toolJob[i] = "delivered"
                             /\ ~alive => toolJob'[i] = toolJob[i]
      PROVE  WorkInv'
  <2>1. /\ Copies' /\ TextOK' /\ Adds({}, {}) /\ alive' = alive
        /\ stored' = stored /\ unsaved' = unsaved
    BY <1>2, AddsSame
  <2>2. ShellInv'
    BY <1>1, <2>1, ShellFrame
  <2>3. ReportsAreStored'
    <3>1. \A i \in Tool : ~alive => toolJob[i] = "none" /\ toolJob'[i] = toolJob[i]
      BY <1>1, <1>2 DEF ToolInv, ReportsAreStored
    <3>2. \A i \in Tool : Delivery(i) \notin unsaved'
      BY <1>1, <2>1 DEF ToolInv, ReportsAreStored
    <3> QED BY <2>1, <3>1, <3>2 DEF ReportsAreStored
  <2>4. DeliveredIsWritten'
    <3>1. alive => \A i \in Tool : toolJob[i] = "delivered" <=> Delivery(i) \in stored
      BY <1>1 DEF ToolInv, DeliveredIsWritten
    <3> QED BY <1>2, <2>1, <3>1 DEF DeliveredIsWritten
  <2> QED BY <1>2, <2>1, <2>2, <2>3, <2>4, WorkInvNext DEF ToolInv
<1>3. ASSUME NEW i \in Tool
      PROVE  /\ Completed({i}) \in [Tool -> {"none", "running", "ready", "delivered"}]
             /\ \A x \in Tool : Completed({i})[x] = "delivered" <=> toolJob[x] = "delivered"
             /\ ~alive => \A x \in Tool : Completed({i})[x] = toolJob[x]
  BY <1>1 DEF Completed, ToolInv, ToolOK, ReportsAreStored
<1>a. UNCHANGED transcriptVars => Copies' /\ TextOK' /\ UNCHANGED <<alive, stored, unsaved>>
  BY <1>1, TextFrame DEF transcriptVars
<1>4. CASE StartResearch(k)
  <2>1. ToolOK'
    BY <1>1, <1>4 DEF StartResearch, ToolInv, ToolOK
  <2>2. \A i \in Tool : /\ toolJob'[i] = "delivered" <=> toolJob[i] = "delivered"
                        /\ ~alive => toolJob'[i] = toolJob[i]
    BY <1>1, <1>4 DEF StartResearch, ToolInv, ToolOK
  <2> QED BY <1>2, <1>a, <1>4, <2>1, <2>2 DEF StartResearch
<1>5. CASE EndResearch(k)
  <2>1. /\ toolJob' = toolJob \/ toolJob' = Completed({k})
        /\ UNCHANGED <<summed, summing, transcriptVars>>
        /\ research' = [research EXCEPT ![k] = "done"] \/ research' = [research EXCEPT ![k] = "failed"]
    BY <1>5 DEF EndResearch
  <2>2. ToolOK'
    BY <1>1, <1>3, <2>1 DEF ToolInv, ToolOK
  <2> QED BY <1>2, <1>3, <1>a, <2>1, <2>2
<1>6. CASE Collect(k)
  <2>1. /\ toolJob' = Completed({k}) /\ UNCHANGED <<research, summing, transcriptVars>>
        /\ summed' \subseteq summed \union {k}
    BY <1>6 DEF Collect
  <2>2. ToolOK'
    BY <1>1, <1>3, <2>1 DEF ToolInv, ToolOK
  <2> QED BY <1>2, <1>3, <1>a, <2>1, <2>2
<1>7. CASE BeginSummary(k)
  <2>1. ToolOK'
    BY <1>1, <1>7 DEF BeginSummary, ToolInv, ToolOK
  <2>2. /\ cached' = Loaded /\ KeepsOwnObject(Hydrates) /\ toolJob' = toolJob
        /\ UNCHANGED <<alive, rows, phase, turns, auto, plan, stored, unsaved>>
    BY <1>7 DEF BeginSummary
  <2>3. Copies' /\ TextOK'
    BY <1>1, <2>2, GetSessionCopies
  <2> QED BY <1>2, <2>1, <2>2, <2>3
<1>8. CASE Deliver(k)
  <2>1. summed' \subseteq Tool /\ summing' \in Tool \union {NoTool}
    BY <1>1, <1>8 DEF Deliver, ToolInv, ToolOK
  <2> QED BY <1>8, <2>1, CommitInv DEF Deliver
<1>9. CASE EndSummary(k)
  <2>1. summed' \subseteq Tool /\ summing' \in Tool \union {NoTool} /\ UNCHANGED research
    BY <1>1, <1>9 DEF EndSummary, ToolInv, ToolOK
  <2>2. CASE toolJob[k] = "ready" /\ MayDeliver(k)
    <3>1. CommitDelivery(k)
      BY <1>9, <2>2 DEF EndSummary
    <3> QED BY <2>1, <2>2, <3>1, CommitInv
  <2>3. CASE ~(toolJob[k] = "ready" /\ MayDeliver(k))
    <3>1. UNCHANGED <<toolJob, transcriptVars>>
      BY <1>9, <2>3 DEF EndSummary
    <3>2. ToolOK'
      BY <1>1, <2>1, <3>1 DEF ToolInv, ToolOK
    <3> QED BY <1>2, <1>a, <3>1, <3>2
  <2> QED BY <2>2, <2>3
<1> QED BY <1>4, <1>5, <1>6, <1>7, <1>8, <1>9 DEF ToolStep

-----------------------------------------------------------------------------
(***************************************************************************)
(* The whole.                                                              *)
(***************************************************************************)
LEMMA ShellSteps ==
    ASSUME WorkInv, Poll \/ \E j \in Job : ShellStep(j), UNCHANGED toolVars
    PROVE  WorkInv'
<1>1. Copies /\ TextOK /\ ShellInv /\ ToolInv
  BY WorkInvParts
<1>2. CASE Poll
  <2>1. /\ Copies' /\ TextOK' /\ Known' = Known /\ alive' = alive /\ Adds({}, {})
    BY <1>1, <1>2, TextFrame DEF Poll
  <2>2. ShellInv'
    BY <1>1, <1>2, <2>1, PollInv
  <2> QED BY <1>1, <2>1, <2>2, ToolFrame, WorkInvNext
<1>3. ASSUME NEW j \in Job, FinishFollowUp(j) PROVE WorkInv'
  <2>1. /\ AddMessage(FollowUp(j)) /\ UNCHANGED <<alive, phase, turns, auto, plan>>
    BY <1>3 DEF FinishFollowUp
  <2>2. FollowUp(j) \in Messages
    BY Disjoint
  <2>3. Copies' /\ TextOK' /\ Adds({FollowUp(j)}, {FollowUp(j)})
    BY <1>1, <2>1, <2>2, AddMessageCopies
  <2>4. Known' = Known \union {FollowUp(j)}
    BY <1>1, <2>1, <2>2, PersistCopy DEF AddMessage
  <2>5. ShellInv'
    BY <1>1, <1>3, <2>3, <2>4, FinishFollowUpInv
  <2>6. ToolInv'
    <3>1. \A k \in Tool : Delivery(k) \notin {FollowUp(j)} \union {FollowUp(j)}
      BY Disjoint
    <3> QED BY <1>1, <2>1, <2>3, <3>1, ToolFrame
  <2> QED BY <2>3, <2>5, <2>6, WorkInvNext
<1>4. ASSUME NEW j \in Job, PutOff(j) \/ BeginFollowUp(j) PROVE WorkInv'
  <2>1. /\ cached' = Loaded /\ KeepsOwnObject(Hydrates)
        /\ UNCHANGED <<alive, rows, phase, turns, auto, plan, stored, unsaved>>
    BY <1>4 DEF PutOff, BeginFollowUp
  <2>2. Copies' /\ TextOK'
    BY <1>1, <2>1, GetSessionCopies
  <2>3. Known' = Known /\ Adds({}, {})
    BY <2>1, AddsSame
  <2>4. ShellInv'
    BY <1>1, <1>4, <2>3, SilentShellSteps
  <2> QED BY <1>1, <2>1, <2>2, <2>3, <2>4, ToolFrame, WorkInvNext
<1>5. ASSUME NEW j \in Job,
             \/ Launch(j) \/ EndProcess(j) \/ LoseLinkage(j) \/ Kill(j)
             \/ FailFollowUp(j) \/ DropFollowUp(j) \/ RetireFollowUp(j)
      PROVE  WorkInv'
  <2>1. UNCHANGED transcriptVars
    BY <1>5 DEF Launch, EndProcess, LoseLinkage, Kill, FailFollowUp, DropFollowUp, RetireFollowUp
  <2>2. /\ Copies' /\ TextOK' /\ Known' = Known /\ alive' = alive /\ Adds({}, {})
    BY <1>1, <2>1, TextFrame
  <2>3. ShellInv'
    BY <1>1, <1>5, <2>2, SilentShellSteps
  <2> QED BY <1>1, <2>2, <2>3, ToolFrame, WorkInvNext
<1> QED BY <1>2, <1>3, <1>4, <1>5 DEF ShellStep

LEMMA ConverseSteps ==
    ASSUME WorkInv, TranscriptStep, UNCHANGED <<shellVars, toolVars>>
    PROVE  WorkInv'
<1>1. Copies /\ TextOK /\ ShellInv /\ ToolInv
  BY WorkInvParts
<1>2. Copies' /\ TextOK' /\ Adds(Talk, Talk) /\ alive' = alive
  BY <1>1, TranscriptSteps
<1>3. ShellInv'
  <2>1. \A j \in Job : FollowUp(j) \notin Talk \union Talk
    BY Disjoint
  <2> QED BY <1>1, <1>2, <2>1, ShellFrame
<1>4. ToolInv'
  <2>1. \A k \in Tool : Delivery(k) \notin Talk \union Talk
    BY Disjoint
  <2> QED BY <1>1, <1>2, <2>1, ToolFrame
<1> QED BY <1>2, <1>3, <1>4, WorkInvNext

LEMMA DeleteStep ==
    ASSUME WorkInv, Delete
    PROVE  WorkInv'
<1>1. Copies /\ TextOK /\ ShellInv /\ ToolInv
  BY WorkInvParts
<1>2. /\ alive' = FALSE /\ rows' = <<>> /\ cached' = <<>> /\ KeepsOwnObject(TRUE)
      /\ UNCHANGED <<phase, turns, auto, plan, stored, unsaved>>
      /\ toolJob' = [k \in Tool |-> "none"] /\ UNCHANGED <<research, summed, summing>>
      /\ UNCHANGED shellVars
  BY DEF Delete, DeleteSession, DropTools
<1>3. Known' = Known /\ Adds({}, {})
  BY <1>2, AddsSame
<1>4. shared' \in BOOLEAN /\ held' \in Seq(Messages)
  BY <1>1, <1>2, KeptCopy
<1>5. Copies'
  BY <1>1, <1>2, <1>3, <1>4, CopyEmpty DEF Copies
<1>6. TextOK'
  BY <1>1, <1>2, <1>4 DEF TextOK, TurnsCount
<1>7. ShellInv'
  BY <1>1, <1>2, <1>3, ShellFrame
<1>8. ToolInv'
  BY <1>1, <1>2 DEF ToolInv, ToolOK, ReportsAreStored, DeliveredIsWritten
<1> QED BY <1>5, <1>6, <1>7, <1>8, WorkInvNext

LEMMA CrashStep ==
    ASSUME WorkInv, Crash
    PROVE  WorkInv'
<1>1. Copies /\ TextOK /\ ShellInv /\ ToolInv
  BY WorkInvParts
<1>2. /\ cached' = <<>> /\ shared' = FALSE /\ held' = <<>>
      /\ phase' = "idle" /\ auto' = NoAuto /\ plan' = NoPlan
      /\ UNCHANGED <<alive, rows, turns, stored, unsaved>>
  BY DEF Crash, LoseMemory
<1>3. Known' = Known
  BY <1>2, AddsSame
<1>4. Copies'
  BY <1>1, <1>2, <1>3, CopyEmpty DEF Copies, NoPlan, Copy
<1>5. TextOK'
  BY <1>1, <1>2, CopyEmpty DEF TextOK, TurnsCount, NoAuto, NoPlan, Copy
<1>6. ShellInv'
  <2>1. PICK lost \in SUBSET {j \in Job : shellJob[j] = "running" /\ process[j] = "running"} :
            shellJob' = [j \in Job |-> IF j \in lost THEN "finished" ELSE shellJob[j]]
    BY DEF Crash, LoseShells
  <2>2. batch' = {} /\ drain' = NoJob /\ UNCHANGED <<process, followed, retired, killed, unlinked, slips>>
    BY DEF Crash, LoseShells
  <2>3. /\ shellJob' \in [Job -> {"none", "running", "finished"}]
        /\ \A j \in Job : shellJob[j] = "finished" => shellJob'[j] = "finished"
    BY <1>1, <2>1 DEF ShellInv, ShellOK
  <2>4. ShellOK'
    BY <1>1, <2>2, <2>3 DEF ShellInv, ShellOK
  <2>5. MonitorHandlesFinished'
    BY <1>1, <1>3, <2>2, <2>3 DEF ShellInv, ShellOK, MonitorHandlesFinished, Known
  <2>6. AckedIsContinued' /\ KilledStaysSilent'
    BY <1>1, <1>3, <2>2, ShellAssumption DEF ShellInv, ShellOK, AckedIsContinued, KilledStaysSilent, Known
  <2> QED BY <2>4, <2>5, <2>6 DEF ShellInv
<1>7. ToolInv'
  <2>1. /\ research' = [k \in Tool |-> IF research[k] = "running" THEN "failed" ELSE research[k]]
        /\ summing' = NoTool /\ UNCHANGED <<toolJob, summed>>
    BY DEF Crash, LoseTools
  <2> QED BY <1>1, <1>2, <2>1 DEF ToolInv, ToolOK, ReportsAreStored, DeliveredIsWritten
<1> QED BY <1>4, <1>5, <1>6, <1>7, WorkInvNext

LEMMA InitInv == Init => WorkInv
<1> SUFFICES ASSUME Init PROVE WorkInv
  OBVIOUS
<1>1. /\ alive = TRUE /\ rows = Old /\ cached = <<>> /\ plan = NoPlan
      /\ phase = "idle" /\ turns = 0 /\ shared = FALSE /\ held = <<>> /\ auto = NoAuto
      /\ stored = Elements(Old) /\ unsaved = {}
  BY DEF Init, TranscriptInit
<1>2. Copy(Old, Known) /\ Elements(Old) \subseteq Messages
  <2>1. Elements(Old) \subseteq Messages /\ Old \in Seq(Elements(Old))
    BY TranscriptAssumption DEF Messages
  <2>2. Old \in Seq(Messages)
    BY <2>1, SeqMonotonic
  <2> QED BY <1>1, <2>1, <2>2 DEF Copy, Known
<1>3. Copies
  BY <1>1, <1>2, CopyEmpty DEF Copies, NoPlan, Copy
<1>4. TextOK
  <2>1. auto \in [system : Nat, split : Nat, older : SUBSET Messages]
    BY <1>1 DEF NoAuto
  <2>2. plan \in [older : SUBSET Messages, recent : Seq(Messages)]
    BY <1>1, CopyEmpty DEF NoPlan, Copy
  <2>3. turns \in 0..MaxTurns
    BY <1>1, TranscriptAssumption
  <2> QED BY <1>1, <1>2, <2>1, <2>2, <2>3 DEF TextOK, TurnsCount
<1>5. ShellInv
  <2>1. /\ shellJob \in [Job -> {"none", "running"}] /\ process = shellJob
        /\ followed = {} /\ retired = {} /\ killed = {} /\ unlinked = {}
        /\ batch = {} /\ drain = NoJob /\ slips = 0
    BY DEF Init, ShellInit
  <2>2. ShellOK
    BY <2>1, ShellAssumption DEF ShellOK
  <2>3. MonitorHandlesFinished
    BY <1>1, <2>1, ChatWorkAssumption DEF MonitorHandlesFinished
  <2> QED BY <2>1, <2>2, <2>3 DEF ShellInv, AckedIsContinued, KilledStaysSilent
<1>6. ToolInv
  BY <1>1, ChatWorkAssumption DEF Init, ToolInit, ToolInv, ToolOK, ReportsAreStored, DeliveredIsWritten
<1> QED BY <1>3, <1>4, <1>5, <1>6, WorkInvParts

LEMMA StepInv == WorkInv /\ [Next]_vars => WorkInv'
<1> SUFFICES ASSUME WorkInv, [Next]_vars PROVE WorkInv'
  OBVIOUS
<1>1. CASE Converse
  BY <1>1, ConverseSteps DEF Converse
<1>2. CASE RunShells
  BY <1>2, ShellSteps DEF RunShells
<1>3. CASE RunTools
  BY <1>3, ToolSteps DEF RunTools
<1>4. CASE Delete
  BY <1>4, DeleteStep
<1>5. CASE Crash
  BY <1>5, CrashStep
<1>6. CASE UNCHANGED vars
  <2>1. Copies /\ TextOK /\ ShellInv /\ ToolInv
    BY WorkInvParts
  <2>2. UNCHANGED <<transcriptVars, shellVars, toolVars>>
    BY <1>6 DEF vars
  <2>3. Copies' /\ TextOK' /\ Adds({}, {}) /\ alive' = alive
    BY <2>1, <2>2, TextFrame
  <2> QED BY <2>1, <2>2, <2>3, ShellFrame, ToolFrame, WorkInvNext
<1> QED BY <1>1, <1>2, <1>3, <1>4, <1>5, <1>6 DEF Next, Step

-----------------------------------------------------------------------------

(* The strengthened invariant holds of every reachable state. *)
THEOREM Invariant == Spec => []WorkInv
<1>1. Init => WorkInv
  BY InitInv
<1>2. WorkInv /\ [Next]_vars => WorkInv'
  BY StepInv
<1> QED BY <1>1, <1>2, PTL DEF Spec

(* Every variable stays in its type: statuses, the monitor's batch, and    *)
(* every copy of the transcript is a sequence of messages.                 *)
THEOREM TypeCorrect == Spec => []TypeOK
<1>1. WorkInv => TypeOK
  BY DEF WorkInv
<1> QED BY <1>1, Invariant, PTL

(* mark_followed_up comes only after the continuation was added to the     *)
(* chat, for every job that was not killed on purpose.                     *)
THEOREM AcknowledgedJobsAreContinued == Spec => []AckedIsContinued
<1>1. WorkInv => AckedIsContinued
  BY DEF WorkInv
<1> QED BY <1>1, Invariant, PTL

(* A job that kill() ended is never continued, though its record is        *)
(* finished like any other.                                                *)
THEOREM KilledJobsStaySilent == Spec => []KilledStaysSilent
<1>1. WorkInv => KilledStaysSilent
  BY DEF WorkInv
<1> QED BY <1>1, Invariant, PTL

(* A tool job is marked as delivered exactly when its report was written.  *)
THEOREM DeliveredReportsAreWritten == Spec => []DeliveredIsWritten
<1>1. WorkInv => DeliveredIsWritten
  BY DEF WorkInv
<1> QED BY <1>1, Invariant, PTL

-----------------------------------------------------------------------------
(***************************************************************************)
(* The cached history beside the rows.                                     *)
(***************************************************************************)

\* What one step does to the two.  Reads drop or reload the cached history;
\* a message joins both, or the one whose write was refused, or the other
\* when a turn goes on with an object of its own.
Reads == rows' = rows /\ cached' \in {cached, Loaded, <<>>}
Joins(m) ==
    \/ cached' \in {Append(cached, m), Append(Loaded, m)} /\ rows' = Append(rows, m)
    \/ cached' \in {Append(cached, m), Append(Loaded, m)} /\ rows' = rows /\ m \in unsaved'
    \/ cached' = cached /\ rows' \in {rows, Append(rows, m)}
Cuts(n) == rows' = FirstOf(n, rows) /\ cached' = FirstOf(n, Loaded)
Replaces == rows' = cached'
Delivers(k) ==
    /\ toolJob[k] = "ready" /\ ~IsActive
    /\ cached' = cached /\ rows' = Append(rows, Delivery(k))

Spoke == {Asked(n) : n \in 1..MaxTurns} \union {Answered(n) : n \in 1..MaxTurns}
            \union {FollowUp(j) : j \in Job}

Touches ==
    \/ Reads \/ Replaces
    \/ \E m \in Spoke : Joins(m)
    \/ \E n \in Rewind : Cuts(n)
    \/ \E k \in Tool : Delivers(k)

\* A turn adds its message to the cached history, or to an object of its own.
LEMMA TurnTouches ==
    ASSUME NEW m \in Spoke, TurnAdds(m) PROVE Touches
BY DEF TurnAdds, Persist, Joins, Reads, Touches

LEMMA TranscriptTouches ==
    ASSUME WorkInv, TranscriptStep PROVE Touches
<1>1. CASE Ask \/ Answer
  <2>1. turns \in 1..MaxTurns
    BY <1>1, TranscriptAssumption DEF Ask, Answer, WorkInv, TypeOK, TurnsCount
  <2>2. Asked(turns) \in Spoke /\ Answered(turns) \in Spoke
    BY <2>1 DEF Spoke
  <2> QED BY <1>1, <2>2, TurnTouches DEF Ask, Answer
<1>2. CASE AutoCompact \/ FinishCompact
  <2>1. \/ \E new : ReplaceMessages(new)
        \/ rows' = rows /\ cached' \in {cached, Loaded}
    BY <1>2 DEF AutoCompact, FinishCompact
  <2> QED BY <2>1 DEF ReplaceMessages, Replaces, Reads, Touches
<1>3. ASSUME NEW n \in Rewind, Truncate(n) PROVE Touches
  BY <1>3 DEF Truncate, Cuts, Touches
<1>4. CASE OpenTurn \/ StartStream \/ EndTurn \/ BeginCompact \/ AbandonCompact
  BY <1>4 DEF OpenTurn, StartStream, EndTurn, BeginCompact, AbandonCompact, Reads, Touches
<1> QED BY <1>1, <1>2, <1>3, <1>4 DEF TranscriptStep, TurnStep

LEMMA StepTouches ==
    ASSUME WorkInv, [Next]_vars PROVE Touches
<1>1. CASE UNCHANGED transcriptVars
  BY <1>1 DEF transcriptVars, Reads, Touches
<1>2. CASE Converse
  BY <1>2, TranscriptTouches DEF Converse
<1>3. ASSUME NEW j \in Job, FinishFollowUp(j) PROVE Touches
  <2>1. FollowUp(j) \in Spoke
    BY DEF Spoke
  <2> QED BY <1>3, <2>1 DEF FinishFollowUp, AddMessage, Persist, Joins, Touches
<1>4. CASE RunShells
  <2>1. ASSUME NEW j \in Job, ShellStep(j) PROVE Touches
    BY <1>1, <1>3, <2>1 DEF ShellStep, Launch, EndProcess, LoseLinkage, Kill, FailFollowUp, PutOff,
                            BeginFollowUp, DropFollowUp, RetireFollowUp, Reads, Touches
  <2>2. CASE Poll
    BY <1>1, <2>2 DEF Poll
  <2> QED BY <1>4, <2>1, <2>2 DEF RunShells
<1>5. ASSUME NEW k \in Tool, toolJob[k] = "ready", ~IsActive, CommitDelivery(k) PROVE Touches
  BY <1>5 DEF CommitDelivery, Delivers, Reads, Touches
<1>6. CASE RunTools
  <2>1. ASSUME NEW k \in Tool, ToolStep(k) PROVE Touches
    BY <1>1, <1>5, <2>1 DEF ToolStep, StartResearch, EndResearch, Collect, BeginSummary, EndSummary,
                            MayDeliver, Deliver, Reads, Touches
  <2> QED BY <1>6, <2>1 DEF RunTools
<1>7. CASE Delete \/ Crash
  BY <1>7 DEF Delete, DeleteSession, Crash, LoseMemory, Reads, Replaces, Touches
<1> QED BY <1>1, <1>2, <1>4, <1>6, <1>7 DEF Next, Step, vars

\* Where the cached history is in step, a turn is given the rows.
LEMMA LoadedInStep ==
    ASSUME WorkInv, InStep PROVE Loaded = rows
BY DEF InStep, Loaded, Hydrates

LEMMA InStepKept ==
    ASSUME WorkInv, InStep, [Next]_vars
    PROVE  InStep' \/ (cached' # <<>> /\ cached'[Len(cached')] \in unsaved')
<1>1. rows \in Seq(Messages) /\ cached \in Seq(Messages) /\ Loaded = rows
  BY LoadedInStep DEF WorkInv, TypeOK
<1>2. Len(rows) \in Nat /\ Len(cached) \in Nat /\ Len(cached) <= Len(rows)
  BY <1>1 DEF InStep
<1>3. CASE Reads \/ Replaces
  BY <1>1, <1>2, <1>3 DEF Reads, Replaces, InStep
<1>4. ASSUME NEW m \in Spoke, Joins(m)
      PROVE  InStep' \/ (cached' # <<>> /\ cached'[Len(cached')] \in unsaved')
  <2>1. m \in Messages
    BY DEF Spoke, Messages
  <2>2. ASSUME NEW h \in Seq(Messages)
        PROVE  /\ Len(Append(h, m)) = Len(h) + 1 /\ Append(h, m)[Len(h) + 1] = m
               /\ Append(h, m) # <<>>
    BY <2>1, <2>2
  <2>3. CASE cached' \in {Append(cached, m), Append(rows, m)} /\ rows' = Append(rows, m)
    BY <1>1, <1>2, <2>2, <2>3 DEF InStep
  <2>4. CASE cached' = cached /\ rows' \in {rows, Append(rows, m)}
    BY <1>1, <1>2, <2>2, <2>4 DEF InStep
  <2>5. CASE cached' \in {Append(cached, m), Append(rows, m)} /\ m \in unsaved'
    BY <1>1, <2>2, <2>5
  <2> QED BY <1>1, <1>4, <2>3, <2>4, <2>5 DEF Joins
<1>5. ASSUME NEW n \in Rewind, Cuts(n) PROVE InStep'
  BY <1>1, <1>5 DEF Cuts, InStep
<1>6. ASSUME NEW k \in Tool, Delivers(k) PROVE InStep'
  BY <1>1, <1>2, <1>6 DEF Delivers, InStep
<1> QED BY <1>3, <1>4, <1>5, <1>6, StepTouches DEF Touches

(* The cached history gets out of step only by a message that the database *)
(* refuses: no order of turns, continuations, deliveries, cuts and         *)
(* compactions does it.                                                    *)
THEOREM OnlyRefusals == Spec => OnlyRefusalsPart
<1>1. WorkInv /\ [Next]_vars =>
        [InStep => InStep' \/ (cached' # <<>> /\ cached'[Len(cached')] \in unsaved')]_vars
  BY InStepKept
<1> QED BY <1>1, Invariant, PTL DEF Spec, OnlyRefusalsPart

\* A refused message stays among those that were.
LEMMA RefusedGrow ==
    ASSUME WorkInv, [Next]_vars PROVE unsaved \subseteq unsaved'
<1>1. Copies /\ TextOK /\ ShellInv /\ ToolInv
  BY WorkInvParts
<1>2. CASE TranscriptStep
  BY <1>1, <1>2, TranscriptSteps DEF Adds
<1>3. ASSUME NEW j \in Job, FinishFollowUp(j) PROVE unsaved \subseteq unsaved'
  BY <1>3 DEF FinishFollowUp, AddMessage, Persist
<1>4. CASE RunShells
  BY <1>3, <1>4 DEF RunShells, Poll, ShellStep, Launch, EndProcess, LoseLinkage, Kill, FailFollowUp,
                    PutOff, BeginFollowUp, DropFollowUp, RetireFollowUp, transcriptVars
<1>5. CASE RunTools
  BY <1>5 DEF RunTools, ToolStep, StartResearch, EndResearch, Collect, BeginSummary, EndSummary,
              Deliver, CommitDelivery, transcriptVars
<1> QED BY <1>2, <1>4, <1>5
        DEF Next, Step, Converse, Delete, DeleteSession, Crash, LoseMemory, vars, transcriptVars

(* Until the database refuses a message, every turn starts from the whole  *)
(* transcript as the database holds it.                                    *)
THEOREM TurnsSeeTheRows == Spec => ContextComplete
<1>1. Init => InStep \/ unsaved # {}
  <2>1. ASSUME Init PROVE Old \in Seq(Elements(Old)) /\ rows = Old /\ cached = <<>>
    BY <2>1, TranscriptAssumption DEF Init, TranscriptInit
  <2> QED BY <2>1 DEF InStep
<1>2. WorkInv /\ [Next]_vars /\ (InStep \/ unsaved # {}) => (InStep \/ unsaved # {})'
  BY InStepKept, RefusedGrow
<1>3. WorkInv /\ [Next]_vars /\ (InStep \/ unsaved # {}) =>
        [phase = "idle" /\ phase' = "opened" => cached' = rows \/ unsaved # {}]_vars
  <2> SUFFICES ASSUME WorkInv, InStep, Next, phase = "idle", phase' = "opened"
               PROVE  cached' = rows
    OBVIOUS
  <2>1. CASE OpenTurn
    BY <2>1, LoadedInStep DEF OpenTurn
  <2>2. CASE UNCHANGED phase
    BY <2>2
  <2>3. CASE Converse
    BY <2>1, <2>2, <2>3 DEF Converse, TranscriptStep, TurnStep, Ask, AutoCompact, StartStream, Answer,
                            EndTurn, BeginCompact, FinishCompact, AbandonCompact, Truncate, turnVars
  <2>4. CASE RunShells
    BY <2>2, <2>4 DEF RunShells, Poll, ShellStep, Launch, EndProcess, LoseLinkage, Kill, FailFollowUp,
                      PutOff, BeginFollowUp, DropFollowUp, RetireFollowUp, FinishFollowUp,
                      transcriptVars, turnVars
  <2>5. CASE RunTools
    BY <2>2, <2>5 DEF RunTools, ToolStep, StartResearch, EndResearch, Collect, BeginSummary,
                      EndSummary, Deliver, CommitDelivery, transcriptVars, turnVars
  <2> QED BY <2>2, <2>3, <2>4, <2>5 DEF Next, Step, Delete, DeleteSession, Crash, LoseMemory
<1> QED BY <1>1, <1>2, <1>3, Invariant, PTL DEF Spec, ContextComplete

-----------------------------------------------------------------------------
(***************************************************************************)
(* Where reports lie.                                                      *)
(***************************************************************************)
\* The first messages of a history lie where they lay.
LEMMA FirstOfLies ==
    ASSUME NEW n \in Nat, NEW h \in Seq(Messages)
    PROVE  /\ FirstOf(n, h) \in Seq(Messages)
           /\ \A i \in Nat : /\ i \in DOMAIN FirstOf(n, h) <=> i \in DOMAIN h /\ i <= n
                             /\ i \in DOMAIN FirstOf(n, h) => FirstOf(n, h)[i] = h[i]
<1>1. Len(h) \in Nat /\ DOMAIN h = 1..Len(h)
  BY LenProperties
<1>2. CASE n < Len(h)
  <2>1. FirstOf(n, h) = SubSeq(h, 1, n)
    BY <1>2 DEF FirstOf
  <2>2. /\ SubSeq(h, 1, n) \in Seq(Messages) /\ DOMAIN SubSeq(h, 1, n) = 1..n
        /\ \A i \in 1..n : SubSeq(h, 1, n)[i] = h[i]
    BY <1>1, <1>2, LenProperties
  <2> QED BY <1>1, <1>2, <2>1, <2>2
<1>3. CASE ~(n < Len(h))
  BY <1>1, <1>3 DEF FirstOf
<1> QED BY <1>2, <1>3

LEMMA ReportsKept ==
    ASSUME WorkInv, ReportsInPlace, [Next]_vars PROVE ReportsInPlace'
<1>1. rows \in Seq(Messages) /\ cached \in Seq(Messages) /\ Loaded \in {rows, cached}
  BY DEF WorkInv, TypeOK, Loaded
<1>2. /\ Len(rows) \in Nat /\ Len(cached) \in Nat
      /\ DOMAIN rows = 1..Len(rows) /\ DOMAIN cached = 1..Len(cached)
  BY <1>1, LenProperties
<1>3. ASSUME NEW m \in Messages
      PROVE  \A h \in {rows, cached} :
                 /\ DOMAIN Append(h, m) = DOMAIN h \union {Len(h) + 1}
                 /\ Append(h, m)[Len(h) + 1] = m
                 /\ \A i \in DOMAIN h : Append(h, m)[i] = h[i]
  BY <1>1, <1>2
<1>4. CASE Reads \/ Replaces
  BY <1>1, <1>4 DEF Reads, Replaces, ReportsInPlace
<1>5. ASSUME NEW m \in Spoke, Joins(m) PROVE ReportsInPlace'
  <2>1. m \in Messages /\ \A k \in Tool : Delivery(k) # m
    BY Disjoint DEF Spoke, Messages, Talk
  <2>2. ASSUME NEW i \in DOMAIN cached', NEW k \in Tool, cached'[i] = Delivery(k)
        PROVE  i \in DOMAIN rows /\ rows[i] = Delivery(k)
    <3>1. cached' \in {cached, Append(cached, m), Append(rows, m)}
      BY <1>1, <1>5 DEF Joins
    <3>2. \A h \in {rows, cached} : i \in DOMAIN h /\ h[i] = Delivery(k) =>
                                        i \in DOMAIN rows /\ rows[i] = Delivery(k)
      BY DEF ReportsInPlace
    <3>3. PICK h \in {rows, cached} : cached' \in {h, Append(h, m)}
      BY <3>1
    <3> QED BY <1>3, <2>1, <2>2, <3>2, <3>3
  <2>3. rows' \in {rows, Append(rows, m)}
    BY <1>5 DEF Joins
  <2> QED BY <1>3, <2>1, <2>2, <2>3 DEF ReportsInPlace
<1>6. ASSUME NEW n \in Rewind, Cuts(n) PROVE ReportsInPlace'
  <2>1. n \in Nat /\ Len(rows) <= Len(Loaded) /\ Len(Loaded) \in Nat
    BY <1>1, <1>2, TranscriptAssumption DEF Loaded, Hydrates
  <2>2. ASSUME NEW h \in Seq(Messages)
        PROVE  \A i \in Nat : /\ i \in DOMAIN FirstOf(n, h) <=> i \in DOMAIN h /\ i <= n
                              /\ i \in DOMAIN FirstOf(n, h) => FirstOf(n, h)[i] = h[i]
    BY <2>1, FirstOfLies
  <2>3. DOMAIN cached' \subseteq Nat
    <3>1. cached' \in Seq(Messages)
      BY <1>1, <1>6, <2>1, FirstOfLies DEF Cuts
    <3> QED BY <3>1
  <2>4. ASSUME NEW i \in DOMAIN cached', NEW k \in Tool, cached'[i] = Delivery(k)
        PROVE  i \in DOMAIN rows' /\ rows'[i] = cached'[i]
    <3>1. i \in Nat /\ i \in DOMAIN Loaded /\ i <= n /\ Loaded[i] = Delivery(k)
      BY <1>1, <1>6, <2>2, <2>3, <2>4 DEF Cuts
    <3>2. i \in DOMAIN rows /\ rows[i] = Delivery(k)
      BY <1>1, <3>1 DEF ReportsInPlace
    <3> QED BY <1>1, <1>6, <2>2, <2>4, <3>1, <3>2 DEF Cuts
  <2> QED BY <2>4 DEF ReportsInPlace
<1>7. ASSUME NEW k \in Tool, Delivers(k) PROVE ReportsInPlace'
  <2>1. Delivery(k) \in Messages
    BY Disjoint
  <2> QED BY <1>3, <1>7, <2>1 DEF Delivers, ReportsInPlace
<1> QED BY <1>4, <1>5, <1>6, <1>7, StepTouches DEF Touches

LEMMA AppendDiffers ==
    ASSUME NEW h \in Seq(Messages), NEW m \in Messages PROVE Append(h, m) # h
<1>1. Len(Append(h, m)) = Len(h) + 1 /\ Len(h) \in Nat
  OBVIOUS
<1> QED BY <1>1

(* The report of a job is written once, beside no live turn: a summary     *)
(* that took long, a second tick or a compaction never brings it twice.    *)
THEOREM ReportsWrittenOnce == Spec => DeliversOnceWhileIdle
<1>1. Init => ReportsInPlace
  BY DEF Init, TranscriptInit, ReportsInPlace
<1>2. WorkInv /\ ReportsInPlace /\ [Next]_vars => ReportsInPlace'
  BY ReportsKept
<1>3. WorkInv /\ ReportsInPlace /\ [Next]_vars =>
        [\A k \in Tool : rows' = Append(rows, Delivery(k)) /\ cached' = cached =>
             Delivery(k) \notin stored /\ ~IsActive /\ alive]_vars
  <2> SUFFICES ASSUME WorkInv, ReportsInPlace, [Next]_vars, NEW k \in Tool,
                      rows' = Append(rows, Delivery(k)), cached' = cached
               PROVE  Delivery(k) \notin stored /\ ~IsActive /\ alive
    OBVIOUS
  <2>1. rows \in Seq(Messages) /\ Len(rows) \in Nat /\ DOMAIN rows = 1..Len(rows) /\ Delivery(k) \in Messages
    BY LenProperties, Disjoint DEF WorkInv, TypeOK
  <2>2. ASSUME NEW m \in Messages
        PROVE  /\ Len(Append(rows, m)) = Len(rows) + 1
               /\ DOMAIN Append(rows, m) = 1..(Len(rows) + 1)
               /\ Append(rows, m)[Len(rows) + 1] = m
    BY <2>1, <2>2
  <2>a. /\ Len(rows') = Len(rows) + 1 /\ DOMAIN rows' = 1..(Len(rows) + 1)
        /\ rows'[Len(rows) + 1] = Delivery(k)
    BY <2>1, <2>2
  <2>b. rows' # rows
    BY <2>1, AppendDiffers
  <2>3. ~Reads
    BY <2>b DEF Reads
  <2>4. ~Replaces
    BY <2>1, <2>a DEF Replaces, ReportsInPlace
  <2>5. ASSUME NEW m \in Spoke, Joins(m) PROVE FALSE
    <3>1. m \in Messages /\ m # Delivery(k)
      BY Disjoint DEF Spoke, Messages, Talk
    <3>2. rows' \in {rows, Append(rows, m)}
      BY <2>5 DEF Joins
    <3> QED BY <2>1, <2>2, <2>a, <2>b, <3>1, <3>2
  <2>6. ASSUME NEW n \in Rewind, Cuts(n) PROVE FALSE
    <3>1. n \in Nat /\ rows' = FirstOf(n, rows)
      BY <2>6, TranscriptAssumption DEF Cuts
    <3>2. Len(rows') <= Len(rows)
      BY <2>1, <3>1 DEF FirstOf
    <3> QED BY <2>1, <2>a, <3>2
  <2>7. PICK l \in Tool : Delivers(l)
    BY <2>3, <2>4, <2>5, <2>6, StepTouches DEF Touches
  <2>8. Delivery(l) \in Messages
    BY Disjoint
  <2>9. Delivery(l) = Delivery(k)
    BY <2>1, <2>2, <2>a, <2>7, <2>8 DEF Delivers
  <2>10. toolJob[k] = "ready" /\ ~IsActive
    BY <2>7, <2>9, Disjoint DEF Delivers
  <2>11. alive
    BY <2>10 DEF WorkInv, ReportsAreStored
  <2> QED BY <2>10, <2>11 DEF WorkInv, DeliveredIsWritten
<1> QED BY <1>1, <1>2, <1>3, Invariant, PTL DEF Spec, DeliversOnceWhileIdle
=============================================================================
