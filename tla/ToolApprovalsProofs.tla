------------------------ MODULE ToolApprovalsProofs ------------------------
(***************************************************************************)
(* ApprovalsInv is an inductive invariant of ToolApprovals, for any number *)
(* of chats, tests, runs, cards and upsets; what the runs check follows.   *)
(***************************************************************************)
EXTENDS ToolApprovalsInvariant, FiniteSetTheorems, WellFoundedInduction, TLAPS

-----------------------------------------------------------------------------
(***************************************************************************)
(* Cards and runs.                                                         *)
(***************************************************************************)

\* Zero is no card, and a place is not nowhere.
LEMMA Kinds ==
    /\ NoCard \notin Card /\ Card \subseteq Nat
    /\ Nowhere \notin Place /\ Chat \subseteq Place /\ Test \subseteq Place
    /\ Chat \cap Test = {}
BY ApprovalConstants DEF ApprovalConstants, NoCard, Card, Place

\* A card that is found has not been answered: its call is sealed, no run has
\* been given it, and it is still current.
LEMMA Current ==
    ASSUME ApprovalsInv, NEW c \in Purged
    PROVE  /\ c \in Card /\ c <= made /\ c \in Nat
           /\ answer[c] = "none" /\ c \notin stale /\ ran[c] = 0
           /\ \A q \in Run : grant[q] # c
<1>1. c \in Card /\ c \in Nat /\ c > lapsed /\ lapsed \in Nat /\ c \in pending
  BY Kinds DEF ApprovalsInv, TypeOK, Purged
<1>2. c <= made /\ answer[c] = "none" /\ c \notin stale
  BY <1>1 DEF ApprovalsInv, CurrentCards
<1>3. ran[c] = 0
  <2>1. ran[c] \in Nat
    BY <1>1 DEF ApprovalsInv, TypeOK
  <2>2. answer[c] \notin Allow
    BY <1>2 DEF Allow
  <2>3. ran[c] <= 1 /\ ran[c] # 1
    BY <1>1, <2>2 DEF ApprovalsInv, RunsAsApproved
  <2> QED BY <2>1, <2>3
<1>4. \A q \in Run : grant[q] # c
  BY <1>1, <1>2, Kinds DEF ApprovalsInv, SealedCalls, Allow
<1> QED BY <1>1, <1>2, <1>3, <1>4

\* Histories map cards to marks.
LEMMA HistoryType ==
    ASSUME NEW h \in [Chat -> [Card -> Marks]], NEW s \in Chat, NEW g \in [Card -> Marks]
    PROVE  [h EXCEPT ![s] = g] \in [Chat -> [Card -> Marks]]
OBVIOUS

\* A decision is recorded at its card only.
LEMMA ResolvedFacts ==
    ASSUME TypeOK, NEW s \in Chat, NEW c \in Card, NEW d \in Decision, Resolved(s, c, d)
    PROVE  /\ mem' \in [Chat -> [Card -> Marks]] /\ disk' \in [Chat -> [Card -> Marks]]
           /\ \A u \in Chat, e \in Card : u # s \/ e # c =>
                  mem'[u][e] = mem[u][e] /\ disk'[u][e] = disk[u][e]
           /\ mem'[s][c] \in {mem[s][c], d} /\ disk'[s][c] \in {disk[s][c], d}
           /\ mem[s][c] = "absent" => mem'[s][c] = "absent" /\ disk'[s][c] = disk[s][c]
<1> DEFINE g == [mem[s] EXCEPT ![c] = IF mem[s][c] = "absent" THEN mem[s][c] ELSE d]
           e == [disk[s] EXCEPT ![c] = d]
<1>1. /\ mem' = [mem EXCEPT ![s] = g]
      /\ disk' = disk \/ (mem[s][c] # "absent" /\ disk' = [disk EXCEPT ![s] = e])
  BY DEF Resolved, Smooth
<1>2. d \in Marks /\ mem \in [Chat -> [Card -> Marks]] /\ disk \in [Chat -> [Card -> Marks]]
  BY DEF TypeOK, Marks
<1>3. g \in [Card -> Marks] /\ e \in [Card -> Marks]
  BY <1>2
<1>4. /\ \A x \in Card : x # c => g[x] = mem[s][x] /\ e[x] = disk[s][x]
      /\ g[c] \in {mem[s][c], d} /\ e[c] = d
      /\ mem[s][c] = "absent" => g[c] = "absent"
  BY <1>2
<1> HIDE DEF g, e
<1>5. mem' \in [Chat -> [Card -> Marks]] /\ disk' \in [Chat -> [Card -> Marks]]
  BY <1>1, <1>2, <1>3, HistoryType
<1>6. /\ \A u \in Chat \ {s} : mem'[u] = mem[u] /\ disk'[u] = disk[u]
      /\ mem'[s] = g
      /\ disk'[s] = disk[s] \/ (mem[s][c] # "absent" /\ disk'[s] = e)
  BY <1>1, <1>2
<1> QED BY <1>4, <1>5, <1>6

-----------------------------------------------------------------------------
(***************************************************************************)
(* The steps of a run, of its requests and of the store preserve it.       *)
(***************************************************************************)
LEMMA BeginInv ==
    ASSUME ApprovalsInv, NEW r \in Run, Begin(r)
    PROVE  ApprovalsInv'
<1> USE DEF ApprovalsInv, Begin, store, chats
<1>1. TypeOK'
  BY DEF TypeOK
<1>2. CurrentCards'
  BY DEF CurrentCards
<1>3. UnmadeCards'
  BY DEF UnmadeCards
<1>4. ShownCards'
  BY DEF ShownCards
<1>5. DecidedInTime'
  BY DEF DecidedInTime
<1>6. SealedCalls'
  BY DEF TypeOK, SealedCalls
<1>7. RecordedAnswers'
  BY DEF RecordedAnswers, Of
<1>8. OpenedChats'
  BY DEF OpenedChats
<1>9. RunsAsApproved'
  BY DEF TypeOK, RunsAsApproved, SealedCalls, DecidedInTime
<1>10. SkipsAreGranted'
  BY DEF SkipsAreGranted, Of
<1> QED BY <1>1, <1>2, <1>3, <1>4, <1>5, <1>6, <1>7, <1>8, <1>9, <1>10

LEMMA ObserveInv ==
    ASSUME ApprovalsInv, NEW r \in Run, Observe(r)
    PROVE  ApprovalsInv'
<1> USE DEF ApprovalsInv, Observe, store, chats, record
<1>1. TypeOK'
  BY DEF TypeOK
<1>2. CurrentCards'
  BY DEF CurrentCards
<1>3. UnmadeCards'
  BY DEF UnmadeCards
<1>4. ShownCards'
  BY DEF ShownCards
<1>5. DecidedInTime'
  BY DEF DecidedInTime
<1>6. SealedCalls'
  BY DEF SealedCalls
<1>7. RecordedAnswers'
  BY DEF RecordedAnswers, Of
<1>8. OpenedChats'
  BY DEF OpenedChats
<1>9. RunsAsApproved'
  BY DEF RunsAsApproved
<1>10. SkipsAreGranted'
  BY DEF SkipsAreGranted, Of
<1> QED BY <1>1, <1>2, <1>3, <1>4, <1>5, <1>6, <1>7, <1>8, <1>9, <1>10

LEMMA MissesInv ==
    ASSUME ApprovalsInv, Misses
    PROVE  ApprovalsInv'
<1> USE DEF ApprovalsInv, Misses, runs, chats, record, Purged
<1>1. TypeOK'
  BY DEF TypeOK
<1>2. CurrentCards'
  BY DEF CurrentCards
<1>3. UnmadeCards'
  BY DEF UnmadeCards
<1>4. ShownCards'
  BY DEF ShownCards
<1>5. DecidedInTime'
  BY DEF DecidedInTime
<1>6. SealedCalls'
  BY DEF SealedCalls
<1>7. RecordedAnswers'
  BY DEF RecordedAnswers, Of
<1>8. OpenedChats'
  BY DEF OpenedChats
<1>9. RunsAsApproved'
  BY DEF RunsAsApproved
<1>10. SkipsAreGranted'
  BY DEF SkipsAreGranted, Of
<1> QED BY <1>1, <1>2, <1>3, <1>4, <1>5, <1>6, <1>7, <1>8, <1>9, <1>10

LEMMA LapseInv ==
    ASSUME ApprovalsInv, Lapse
    PROVE  ApprovalsInv'
<1> USE DEF ApprovalsInv, Lapse, runs, chats, Purged, Overtaken
<1>0. PICK k \in pending : k > lapsed /\ lapsed' = k /\ Overtaken((lapsed + 1)..k)
  BY DEF Purged
<1>a. /\ k \in Card /\ k \in 0..MaxCards /\ k <= made /\ made \in Nat /\ lapsed \in Nat /\ k \in Nat
      /\ \A c \in (lapsed + 1)..k : c \in Card
  BY <1>0, ApprovalConstants DEF TypeOK, CurrentCards, ApprovalConstants, Card
<1>b. stale' \subseteq Card /\ \A c \in stale' : c \in stale \/ c <= made
  <2>1. \A c \in stale' : c \in stale \/ c \in (lapsed + 1)..k
    BY <1>0 DEF Overtaken
  <2>2. \A c \in (lapsed + 1)..k : c <= made
    BY <1>a
  <2> QED BY <1>a, <2>1, <2>2 DEF TypeOK
<1>1. TypeOK'
  BY <1>0, <1>a, <1>b DEF TypeOK
<1>2. CurrentCards'
  BY Kinds DEF TypeOK, CurrentCards
<1>3. UnmadeCards'
  <2>1. ASSUME NEW c \in Card, c > made PROVE c \notin stale'
    <3>1. c \in Nat
      BY Kinds
    <3>2. c \notin stale
      BY <2>1 DEF UnmadeCards
    <3> QED BY <1>a, <1>b, <2>1, <3>1, <3>2
  <2> QED BY <2>1 DEF UnmadeCards
<1>4. ShownCards'
  BY DEF ShownCards
<1>5. DecidedInTime'
  BY DEF DecidedInTime, Allow
<1>6. SealedCalls'
  BY DEF SealedCalls
<1>7. RecordedAnswers'
  BY DEF RecordedAnswers, Of
<1>8. OpenedChats'
  BY DEF OpenedChats
<1>9. RunsAsApproved'
  BY DEF RunsAsApproved, Allow
<1>10. SkipsAreGranted'
  BY DEF SkipsAreGranted, Of
<1> QED BY <1>1, <1>2, <1>3, <1>4, <1>5, <1>6, <1>7, <1>8, <1>9, <1>10

\* A new card is unanswered and current.  It takes the place of unanswered cards
\* of its run's place and, at capacity, of the oldest ones; nothing else changes.
LEMMA CreateFacts ==
    ASSUME ApprovalsInv, NEW r \in Run, NEW c \in Card, at[r] \in Place, Create(r, c)
    PROVE  /\ c = made + 1 /\ made' = c /\ made \in Nat /\ c > made
           /\ place' = [place EXCEPT ![c] = at[r]] /\ place[c] = Nowhere
           /\ answer[c] = "none" /\ c \notin stale'
           /\ pending' \subseteq Purged \cup {c}
           /\ stale \subseteq stale' /\ stale' \subseteq Card
           /\ \A d \in stale' \ stale :
                  d <= made /\ answer[d] = "none" /\ d \notin pending'
           /\ UNCHANGED <<lapsed, answer, ran>>
<1> DEFINE mine   == IF at[r] \in Chat THEN Of(at[r]) ELSE asked[r]
           others == Purged \ Superseded(r)
           kept   == Newest(others, MaxPending - 1)
<1>1. /\ c = made + 1 /\ made' = c /\ place' = [place EXCEPT ![c] = at[r]]
      /\ pending' = kept \cup {c}
      /\ stale' = stale \cup {d \in mine \cup (others \ kept) : answer[d] = "none"}
      /\ UNCHANGED <<lapsed, answer, ran>>
  BY DEF Create, Overtaken
<1>2. made \in Nat /\ c > made /\ c \in Nat
  BY <1>1, ApprovalConstants DEF ApprovalsInv, TypeOK, ApprovalConstants
<1>3. place[c] = Nowhere /\ answer[c] = "none" /\ c \notin stale
  BY <1>2 DEF ApprovalsInv, UnmadeCards
<1>4. \A d \in Purged : d \in Card /\ d <= made
  BY Current
<1>5. mine \subseteq Card /\ \A d \in mine : d <= made
  <2>1. ASSUME NEW d \in Of(at[r]), at[r] \in Chat PROVE d \in Card /\ d <= made
    <3>1. d \in Card /\ d \in Nat /\ place[d] # Nowhere
      BY <2>1, Kinds DEF Of
    <3> QED BY <1>2, <3>1 DEF ApprovalsInv, UnmadeCards
  <2>2. \A d \in asked[r] : d \in Card /\ d <= made
    BY DEF ApprovalsInv, TypeOK, ShownCards
  <2> QED BY <2>1, <2>2
<1>6. others \subseteq Purged /\ kept \subseteq others
  BY DEF Newest
<1>7. \A d \in mine : d \notin kept
  BY <1>6 DEF Superseded
<1> HIDE DEF mine, others, kept
<1>8. \A d \in stale' \ stale : d \in mine \cup (others \ kept) /\ answer[d] = "none"
  BY <1>1
<1>9. \A d \in mine \cup (others \ kept) : d \in Card /\ d <= made /\ d # c /\ d \notin kept
  BY <1>2, <1>4, <1>5, <1>6, <1>7
<1>10. stale \subseteq Card
  BY DEF ApprovalsInv, TypeOK
<1> QED BY <1>1, <1>2, <1>3, <1>6, <1>8, <1>9, <1>10

\* What the invariant says of the cards, after a new one.
LEMMA CreateInv ==
    ASSUME ApprovalsInv, NEW r \in Run, NEW c \in Card, at[r] \in Place, Create(r, c),
           UNCHANGED <<mem, disk>>
    PROVE  /\ pending' \subseteq Card /\ made' \in 0..MaxCards /\ lapsed' \in 0..MaxCards
           /\ place' \in [Card -> Place \cup {Nowhere}] /\ stale' \subseteq Card
           /\ CurrentCards' /\ UnmadeCards' /\ DecidedInTime' /\ RunsAsApproved'
           /\ RecordedAnswers'
           /\ \A d \in Card : d # c => place'[d] = place[d]
           /\ place'[c] = at[r]
<1> USE CreateFacts DEF ApprovalsInv
<1>1. pending' \subseteq Card /\ made' \in 0..MaxCards /\ lapsed' \in 0..MaxCards
  <2>1. pending' \subseteq Purged \cup {c} /\ made' = c /\ lapsed' = lapsed
    OBVIOUS
  <2>2. c \in 0..MaxCards
    BY ApprovalConstants DEF ApprovalConstants, Card
  <2> QED BY <2>1, <2>2 DEF TypeOK, Purged
<1>2. /\ place' \in [Card -> Place \cup {Nowhere}] /\ stale' \subseteq Card
      /\ place'[c] = at[r] /\ \A d \in Card : d # c => place'[d] = place[d]
  BY DEF TypeOK
<1>3. CurrentCards'
  <2>1. lapsed' <= made'
    BY DEF TypeOK, CurrentCards
  <2>2. ASSUME NEW d \in pending'
        PROVE  d <= made' /\ answer'[d] = "none" /\ (d \in stale' => d <= lapsed')
    <3>1. CASE d = c
      BY <3>1
    <3>2. CASE d \in Purged
      <4>1. d <= made /\ answer[d] = "none" /\ d \notin stale
        BY <3>2, Current
      <4> QED BY <2>2, <3>2, <4>1, Current
    <3> QED BY <2>2, <3>1, <3>2
  <2> QED BY <2>1, <2>2 DEF CurrentCards
<1>4. UnmadeCards'
  <2>1. ASSUME NEW d \in Card, d > made'
        PROVE  d > made /\ d # c /\ d \notin stale'
    <3>1. d \in Nat /\ d > made /\ d # c /\ ~(d <= made)
      BY <2>1, Kinds
    <3> QED BY <2>1, <3>1 DEF UnmadeCards
  <2> QED BY <1>2, <2>1 DEF UnmadeCards
<1>5. DecidedInTime' /\ RunsAsApproved'
  BY DEF DecidedInTime, RunsAsApproved, Allow
<1>6. RecordedAnswers'
  <2>1. \A s \in Chat : mem[s][c] = "absent" /\ disk[s][c] = "absent"
    BY DEF UnmadeCards
  <2> QED BY <1>2, <2>1 DEF RecordedAnswers, Of
<1> QED BY <1>1, <1>2, <1>3, <1>4, <1>5, <1>6

LEMMA ProposeInv ==
    ASSUME ApprovalsInv, NEW r \in Run, NEW c \in Card, Propose(r, c)
    PROVE  ApprovalsInv'
<1> USE DEF ApprovalsInv
<1>1. /\ at[r] \in Chat /\ at[r] \in Place /\ Create(r, c) /\ asked' = [asked EXCEPT ![r] = @ \cup {c}]
      /\ UNCHANGED <<at, grant, bypass, tainted, begun, stray, slot, mem, disk, opened, upsets>>
  BY Kinds DEF Propose, chats
<1>2. /\ CurrentCards' /\ UnmadeCards' /\ DecidedInTime' /\ RunsAsApproved' /\ RecordedAnswers'
      /\ pending' \subseteq Card /\ made' \in 0..MaxCards /\ lapsed' \in 0..MaxCards
      /\ place' \in [Card -> Place \cup {Nowhere}] /\ stale' \subseteq Card
  BY <1>1, CreateInv
<1>3. /\ c = made + 1 /\ made' = c /\ made \in Nat /\ answer[c] = "none" /\ place[c] = Nowhere
      /\ place'[c] = at[r] /\ (\A d \in Card : d # c => place'[d] = place[d])
      /\ UNCHANGED <<answer, ran>>
  BY <1>1, CreateFacts, CreateInv
<1>4. TypeOK'
  BY <1>1, <1>2, <1>3 DEF TypeOK
<1>5. ShownCards'
  <2>1. ASSUME NEW q \in Run, NEW d \in asked'[q]
        PROVE  d <= made' /\ place'[d] = at'[q] /\ at'[q] \in Chat
    <3>1. CASE q = r /\ d = c
      BY <1>1, <1>3, <3>1, Kinds
    <3>2. CASE d \in asked[q]
      <4>1. d \in Card /\ d \in Nat /\ d <= made /\ place[d] = at[q] /\ at[q] \in Chat
        BY <3>2, Kinds DEF TypeOK, ShownCards
      <4> QED BY <1>1, <1>3, <4>1, Kinds
    <3> QED BY <1>1, <2>1, <3>1, <3>2 DEF TypeOK
  <2>2. \A t \in Test : slot'[t] # NoCard => place'[slot'[t]] = t
    BY <1>1, <1>3, Kinds DEF TypeOK, ShownCards
  <2> QED BY <2>1, <2>2 DEF ShownCards
<1>6. SealedCalls'
  <2>1. \A q \in Run : grant[q] # NoCard => grant[q] \in Card /\ grant[q] # c
    BY <1>3 DEF TypeOK, SealedCalls, Allow
  <2> QED BY <1>1, <1>3, <2>1 DEF SealedCalls
<1>7. OpenedChats'
  BY <1>1, <1>3 DEF OpenedChats
<1>8. SkipsAreGranted'
  BY <1>1, <1>3 DEF SkipsAreGranted, Of
<1> QED BY <1>2, <1>4, <1>5, <1>6, <1>7, <1>8

LEMMA PauseInv ==
    ASSUME ApprovalsInv, NEW r \in Run, NEW c \in Card, Pause(r, c)
    PROVE  ApprovalsInv'
<1> USE DEF ApprovalsInv
<1>1. /\ at[r] \in Test /\ at[r] \in Place /\ Create(r, c) /\ Ends(r)
      /\ slot' = IF r \in stray THEN slot ELSE [slot EXCEPT ![at[r]] = c]
      /\ UNCHANGED <<mem, disk, opened, upsets>>
  BY Kinds DEF Pause, chats
<1>2. /\ CurrentCards' /\ UnmadeCards' /\ DecidedInTime' /\ RunsAsApproved' /\ RecordedAnswers'
      /\ pending' \subseteq Card /\ made' \in 0..MaxCards /\ lapsed' \in 0..MaxCards
      /\ place' \in [Card -> Place \cup {Nowhere}] /\ stale' \subseteq Card
  BY <1>1, CreateInv
<1>3. /\ c = made + 1 /\ made' = c /\ made \in Nat /\ answer[c] = "none" /\ place[c] = Nowhere
      /\ place'[c] = at[r] /\ (\A d \in Card : d # c => place'[d] = place[d])
      /\ UNCHANGED <<answer, ran>>
  BY <1>1, CreateFacts, CreateInv
<1>4. /\ at'[r] = Nowhere /\ grant'[r] = NoCard /\ asked'[r] = {} /\ r \notin bypass'
      /\ \A q \in Run : q # r =>
             /\ at'[q] = at[q] /\ grant'[q] = grant[q] /\ asked'[q] = asked[q]
             /\ q \in bypass' <=> q \in bypass
             /\ q \in begun' <=> q \in begun
  BY <1>1 DEF Ends, TypeOK
<1>5. TypeOK'
  BY <1>1, <1>2, <1>3 DEF TypeOK, Ends
<1>6. ShownCards'
  <2>1. ASSUME NEW q \in Run, NEW d \in asked'[q]
        PROVE  d <= made' /\ place'[d] = at'[q] /\ at'[q] \in Chat
    <3>1. q # r /\ d \in asked[q] /\ at'[q] = at[q]
      BY <1>4, <2>1
    <3>2. d \in Card /\ d \in Nat /\ d <= made /\ place[d] = at[q] /\ at[q] \in Chat
      BY <3>1, Kinds DEF TypeOK, ShownCards
    <3> QED BY <1>3, <3>1, <3>2, Kinds
  <2>2. ASSUME NEW t \in Test, slot'[t] # NoCard PROVE place'[slot'[t]] = t
    <3>1. CASE slot'[t] = slot[t]
      <4>1. slot[t] \in Card /\ place[slot[t]] = t
        BY <2>2, <3>1 DEF TypeOK, ShownCards
      <4>2. slot[t] # c
        BY <1>3, <4>1, Kinds
      <4> QED BY <1>3, <3>1, <4>1, <4>2
    <3>2. CASE slot'[t] = c /\ t = at[r]
      BY <1>3, <3>2
    <3> QED BY <1>1, <3>1, <3>2 DEF TypeOK
  <2> QED BY <2>1, <2>2 DEF ShownCards
<1>7. SealedCalls'
  <2>1. \A q \in Run : grant'[q] # NoCard =>
            /\ q # r /\ grant'[q] = grant[q] /\ at'[q] = at[q] /\ grant[q] \in Card
            /\ grant[q] # c
    BY <1>3, <1>4 DEF TypeOK, SealedCalls, Allow
  <2> QED BY <1>3, <1>4, <2>1 DEF SealedCalls
<1>8. OpenedChats'
  BY <1>1, <1>3, <1>4, Kinds DEF OpenedChats
<1>9. SkipsAreGranted'
  <2>1. \A q \in bypass' : q \in bypass /\ at'[q] = at[q] /\ grant'[q] = grant[q]
    BY <1>4, <1>5 DEF TypeOK
  <2> QED BY <1>3, <2>1, Kinds DEF TypeOK, SkipsAreGranted, Of
<1> QED BY <1>2, <1>5, <1>6, <1>7, <1>8, <1>9

LEMMA InterruptedInv ==
    ASSUME ApprovalsInv, NEW r \in Run, Interrupted(r)
    PROVE  ApprovalsInv'
<1> USE DEF ApprovalsInv, Interrupted, Ends, store, chats, record
<1>1. TypeOK'
  BY DEF TypeOK
<1>2. CurrentCards'
  BY DEF CurrentCards
<1>3. UnmadeCards'
  BY DEF UnmadeCards
<1>4. ShownCards'
  BY DEF TypeOK, ShownCards
<1>5. DecidedInTime'
  BY DEF DecidedInTime
<1>6. SealedCalls'
  BY DEF TypeOK, SealedCalls
<1>7. RecordedAnswers'
  BY DEF RecordedAnswers, Of
<1>8. OpenedChats'
  BY Kinds DEF OpenedChats
<1>9. RunsAsApproved'
  BY DEF RunsAsApproved
<1>10. SkipsAreGranted'
  BY DEF SkipsAreGranted, Of
<1> QED BY <1>1, <1>2, <1>3, <1>4, <1>5, <1>6, <1>7, <1>8, <1>9, <1>10

LEMMA TestEndsInv ==
    ASSUME ApprovalsInv, NEW r \in Run, TestEnds(r)
    PROVE  ApprovalsInv'
<1> USE DEF ApprovalsInv, TestEnds, Ends, store, chats, record
<1>1. TypeOK'
  BY DEF TypeOK
<1>2. CurrentCards'
  BY DEF CurrentCards
<1>3. UnmadeCards'
  BY DEF UnmadeCards
<1>4. ShownCards'
  BY DEF TypeOK, ShownCards
<1>5. DecidedInTime'
  BY DEF DecidedInTime
<1>6. SealedCalls'
  BY DEF TypeOK, SealedCalls
<1>7. RecordedAnswers'
  BY DEF RecordedAnswers, Of
<1>8. OpenedChats'
  BY Kinds DEF OpenedChats
<1>9. RunsAsApproved'
  BY DEF RunsAsApproved
<1>10. SkipsAreGranted'
  BY DEF SkipsAreGranted, Of
<1> QED BY <1>1, <1>2, <1>3, <1>4, <1>5, <1>6, <1>7, <1>8, <1>9, <1>10

LEMMA FinishInv ==
    ASSUME ApprovalsInv, NEW r \in Run, Finish(r)
    PROVE  ApprovalsInv'
<1> USE DEF ApprovalsInv, Finish, Ends, Smooth, Upset, store, record
<1>0. /\ \A s \in Chat, c \in Card :
             /\ mem'[s][c] \in {mem[s][c], "open"}
             /\ disk'[s][c] \in {disk[s][c], "open"}
             /\ c \notin asked[r] => mem'[s][c] = mem[s][c] /\ disk'[s][c] = disk[s][c]
      /\ mem' \in [Chat -> [Card -> Marks]] /\ disk' \in [Chat -> [Card -> Marks]]
  <2> DEFINE saved(h) == [c \in Card |-> IF c \in asked[r] THEN "open" ELSE h[c]]
  <2>1. /\ mem' = [mem EXCEPT ![at[r]] = saved(mem[at[r]])]
        /\ disk' = [disk EXCEPT ![at[r]] = saved(disk[at[r]])] \/ disk' = disk
    OBVIOUS
  <2>2. \A h \in [Card -> Marks] : saved(h) \in [Card -> Marks]
    BY DEF Marks
  <2>3. \A h : \A c \in Card : saved(h)[c] = IF c \in asked[r] THEN "open" ELSE h[c]
    OBVIOUS
  <2>4. /\ mem \in [Chat -> [Card -> Marks]] /\ disk \in [Chat -> [Card -> Marks]]
        /\ at[r] \in Chat
    BY DEF TypeOK
  <2> HIDE DEF saved
  <2>5. /\ mem' \in [Chat -> [Card -> Marks]] /\ disk' \in [Chat -> [Card -> Marks]]
    <3>1. saved(mem[at[r]]) \in [Card -> Marks] /\ saved(disk[at[r]]) \in [Card -> Marks]
      BY <2>2, <2>4
    <3> QED BY <2>1, <2>4, <3>1, HistoryType
  <2>6. \A s \in Chat : /\ mem'[s] = mem[s] \/ mem'[s] = saved(mem[s])
                        /\ disk'[s] = disk[s] \/ disk'[s] = saved(disk[s])
    BY <2>1, <2>4
  <2> QED BY <2>3, <2>5, <2>6
<1>1. TypeOK'
  BY <1>0 DEF TypeOK
<1>2. CurrentCards'
  BY DEF CurrentCards
<1>3. UnmadeCards'
  BY <1>0, Kinds DEF UnmadeCards, ShownCards
<1>4. ShownCards'
  BY DEF TypeOK, ShownCards
<1>5. DecidedInTime'
  BY DEF DecidedInTime
<1>6. SealedCalls'
  BY DEF TypeOK, SealedCalls
<1>7. RecordedAnswers'
  BY <1>0 DEF RecordedAnswers, Of
<1>8. OpenedChats'
  BY Kinds DEF OpenedChats
<1>9. RunsAsApproved'
  BY DEF RunsAsApproved
<1>10. SkipsAreGranted'
  BY DEF SkipsAreGranted, Of
<1> QED BY <1>1, <1>2, <1>3, <1>4, <1>5, <1>6, <1>7, <1>8, <1>9, <1>10

LEMMA DeclineInv ==
    ASSUME ApprovalsInv, NEW r \in Run, Decline(r)
    PROVE  ApprovalsInv'
<1> USE DEF ApprovalsInv, Decline, Ends, Consume, Found, chats
<1>0. PICK c \in Card :
          /\ asked[r] = {c} /\ Consume(c)
          /\ answer' = IF Found(c, at[r]) THEN [answer EXCEPT ![c] = "deny"] ELSE answer
  OBVIOUS
<1>a. \A d \in Card : d # c => answer'[d] = answer[d]
  BY <1>0 DEF TypeOK
<1>b. answer'[c] = answer[c] \/ (answer'[c] = "deny" /\ answer[c] = "none" /\ ran[c] = 0 /\ c <= made)
  BY <1>0, Current DEF TypeOK
<1>1. TypeOK'
  BY Current DEF TypeOK, Card, NoCard, Place, Marks, Decision, Allow
<1>2. CurrentCards'
  BY Current DEF CurrentCards
<1>3. UnmadeCards'
  BY <1>a, <1>b, Kinds DEF UnmadeCards
<1>4. ShownCards'
  BY DEF TypeOK, ShownCards
<1>5. DecidedInTime'
  BY <1>a, <1>b DEF DecidedInTime, Allow
<1>6. SealedCalls'
  BY Current DEF TypeOK, SealedCalls
<1>7. RecordedAnswers'
  BY <1>a, <1>b DEF RecordedAnswers, Of
<1>8. OpenedChats'
  BY Kinds DEF OpenedChats
<1>9. RunsAsApproved'
  BY <1>a, <1>b DEF RunsAsApproved
<1>10. SkipsAreGranted'
  BY Current DEF SkipsAreGranted, Of
<1> QED BY <1>1, <1>2, <1>3, <1>4, <1>5, <1>6, <1>7, <1>8, <1>9, <1>10

LEMMA BackgroundInv ==
    ASSUME ApprovalsInv, NEW s \in Chat, NEW r \in Run, NEW context \in BOOLEAN,
           Background(s, r, context)
    PROVE  ApprovalsInv'
<1> USE DEF ApprovalsInv, Background, Starts, Grants, Of, store, chats, record
<1>1. TypeOK'
  BY DEF TypeOK, Card, NoCard, Place, Marks, Decision, Allow
<1>2. CurrentCards'
  BY DEF CurrentCards
<1>3. UnmadeCards'
  BY DEF UnmadeCards
<1>4. ShownCards'
  BY Kinds DEF ShownCards
<1>5. DecidedInTime'
  BY DEF DecidedInTime
<1>6. SealedCalls'
  BY DEF TypeOK, SealedCalls
<1>7. RecordedAnswers'
  BY DEF RecordedAnswers
<1>8. OpenedChats'
  BY DEF OpenedChats
<1>9. RunsAsApproved'
  BY DEF RunsAsApproved
<1>10. SkipsAreGranted'
  <2>1. context /\ Grants(s) => \E c \in Of(s) : answer[c] = "approve"
    BY DEF RecordedAnswers
  <2>2. ASSUME NEW q \in bypass'
        PROVE  at'[q] \in Chat /\ (grant'[q] # NoCard \/ \E c \in Of(at'[q]) : answer[c] = "approve")
    <3>1. CASE q = r
      BY <2>1, <2>2, <3>1, Kinds DEF TypeOK, SkipsAreGranted
    <3>2. CASE q # r
      BY <2>2, <3>2 DEF SkipsAreGranted
    <3> QED BY <3>1, <3>2
  <2> QED BY <2>2 DEF SkipsAreGranted
<1> QED BY <1>1, <1>2, <1>3, <1>4, <1>5, <1>6, <1>7, <1>8, <1>9, <1>10

LEMMA MessageInv ==
    ASSUME ApprovalsInv, NEW s \in Chat, NEW r \in Run, NEW token \in BOOLEAN,
           Message(s, r, token)
    PROVE  ApprovalsInv'
<1> USE DEF ApprovalsInv, Message, Starts, NoRun, Grants, Overtaken, Purged, Of
<1>1. TypeOK'
  BY DEF TypeOK, Card, NoCard, Place, Marks, Decision, Allow
<1>2. CurrentCards'
  BY DEF CurrentCards
<1>3. UnmadeCards'
  BY Kinds DEF UnmadeCards
<1>4. ShownCards'
  <2>1. at[r] = Nowhere => asked[r] = {}
    BY Kinds DEF ShownCards
  <2>2. \A q \in Run : at'[q] = at[q] \/ asked[q] = {}
    BY <2>1 DEF TypeOK
  <2> QED BY <2>2 DEF TypeOK, ShownCards
<1>5. DecidedInTime'
  BY DEF DecidedInTime, Allow
<1>6. SealedCalls'
  BY DEF TypeOK, SealedCalls
<1>7. RecordedAnswers'
  BY DEF RecordedAnswers
<1>8. OpenedChats'
  BY DEF TypeOK, OpenedChats
<1>9. RunsAsApproved'
  BY DEF RunsAsApproved, Allow
<1>10. SkipsAreGranted'
  <2>1. Grants(s) => \E c \in Of(s) : answer[c] = "approve"
    BY DEF RecordedAnswers
  <2>2. ASSUME NEW q \in bypass'
        PROVE  at'[q] \in Chat /\ (grant'[q] # NoCard \/ \E c \in Of(at'[q]) : answer[c] = "approve")
    <3>1. CASE q = r /\ at[r] = Nowhere
      BY <2>1, <2>2, <3>1, Kinds DEF TypeOK, SkipsAreGranted
    <3>2. CASE at'[q] = at[q] /\ grant'[q] = grant[q] /\ q \in bypass
      BY <2>2, <3>2 DEF SkipsAreGranted
    <3> QED BY <2>2, <3>1, <3>2 DEF TypeOK
  <2> QED BY <2>2 DEF SkipsAreGranted
<1> QED BY <1>1, <1>2, <1>3, <1>4, <1>5, <1>6, <1>7, <1>8, <1>9, <1>10

LEMMA DenyInv ==
    ASSUME ApprovalsInv, NEW s \in Chat, NEW c \in Card, Deny(s, c)
    PROVE  ApprovalsInv'
<1> USE DEF ApprovalsInv, Deny, Consume, Found, Resolved, Smooth, Upset, runs
<1>0. /\ mem' \in [Chat -> [Card -> Marks]] /\ disk' \in [Chat -> [Card -> Marks]]
  BY ResolvedFacts DEF Decision
<1>1. TypeOK'
  BY <1>0, Current DEF TypeOK, Card, NoCard, Place, Decision
<1>2. CurrentCards'
  BY Current DEF CurrentCards
<1>3. UnmadeCards'
  BY Current DEF TypeOK, UnmadeCards
<1>4. ShownCards'
  BY DEF ShownCards
<1>5. DecidedInTime'
  BY DEF DecidedInTime, Allow
<1>6. SealedCalls'
  BY Current DEF SealedCalls
<1>7. RecordedAnswers'
  BY Current DEF TypeOK, RecordedAnswers, Of
<1>8. OpenedChats'
  BY DEF OpenedChats
<1>9. RunsAsApproved'
  BY Current DEF RunsAsApproved
<1>10. SkipsAreGranted'
  BY Current DEF SkipsAreGranted, Of
<1> QED BY <1>1, <1>2, <1>3, <1>4, <1>5, <1>6, <1>7, <1>8, <1>9, <1>10

LEMMA ApproveInv ==
    ASSUME ApprovalsInv, NEW s \in Chat, NEW c \in Card, NEW d \in Allow, NEW r \in Run,
           Approve(s, c, d, r)
    PROVE  ApprovalsInv'
<1> USE DEF ApprovalsInv, Approve, Starts, NoRun, Consume, Found, Resolved, Smooth, Upset
<1>0. /\ mem' \in [Chat -> [Card -> Marks]] /\ disk' \in [Chat -> [Card -> Marks]]
  BY ResolvedFacts DEF Decision
<1>1. TypeOK'
  <2>1. d \in Decision \cup {"none"} /\ s \in Place
    BY Kinds DEF Decision
  <2>2. answer' \in [Card -> Decision \cup {"none"}] /\ pending' \subseteq Card
    BY <2>1 DEF TypeOK, Purged
  <2>3. /\ at' \in [Run -> Place \cup {Nowhere}] /\ grant' \in [Run -> Card \cup {NoCard}]
        /\ bypass' \subseteq Run /\ tainted' \subseteq Run /\ begun' \subseteq Run
        /\ asked' \in [Run -> SUBSET Card]
    <3>1. CASE NoRun
      BY <3>1 DEF TypeOK, NoRun
    <3>2. CASE Starts(r, s, c, TRUE, TRUE)
      BY <2>1, <3>2 DEF TypeOK, Starts
    <3> QED BY <3>1, <3>2
  <2> QED BY <1>0, <2>2, <2>3 DEF TypeOK
<1>2. CurrentCards'
  BY Current DEF CurrentCards
<1>3. UnmadeCards'
  BY Current DEF TypeOK, UnmadeCards
<1>4. ShownCards'
  <2>1. at[r] = Nowhere => asked[r] = {}
    BY Kinds DEF ShownCards
  <2>2. \A q \in Run : at'[q] = at[q] \/ asked[q] = {}
    BY <2>1 DEF TypeOK
  <2> QED BY <2>2 DEF TypeOK, ShownCards
<1>5. DecidedInTime'
  BY Current DEF DecidedInTime
<1>6. SealedCalls'
  BY Current DEF TypeOK, SealedCalls
<1>7. RecordedAnswers'
  BY Current DEF TypeOK, RecordedAnswers, Of
<1>8. OpenedChats'
  BY DEF TypeOK, OpenedChats
<1>9. RunsAsApproved'
  BY DEF RunsAsApproved
<1>10. SkipsAreGranted'
  BY Current, Kinds DEF TypeOK, SkipsAreGranted, Of
<1> QED BY <1>1, <1>2, <1>3, <1>4, <1>5, <1>6, <1>7, <1>8, <1>9, <1>10

LEMMA ForkInv ==
    ASSUME ApprovalsInv, NEW s \in Chat, NEW t \in Chat, NEW keep \in Card, Fork(s, t, keep)
    PROVE  ApprovalsInv'
<1> USE DEF ApprovalsInv, Fork, Upset, store, runs, record
<1>0. /\ mem' \in [Chat -> [Card -> Marks]] /\ disk' \in [Chat -> [Card -> Marks]]
  <2> DEFINE kept == [c \in Card |-> IF c <= keep THEN mem[s][c] ELSE "absent"]
  <2>1. kept \in [Card -> Marks]
    BY DEF TypeOK, Marks
  <2>2. mem \in [Chat -> [Card -> Marks]] /\ disk \in [Chat -> [Card -> Marks]]
    BY DEF TypeOK
  <2>3. mem' = [mem EXCEPT ![t] = kept] /\ disk' = [disk EXCEPT ![t] = kept]
    OBVIOUS
  <2> HIDE DEF kept
  <2> QED BY <2>1, <2>2, <2>3, HistoryType
<1>1. TypeOK'
  BY <1>0 DEF TypeOK
<1>2. CurrentCards'
  BY DEF CurrentCards
<1>3. UnmadeCards'
  BY DEF UnmadeCards
<1>4. ShownCards'
  BY DEF ShownCards
<1>5. DecidedInTime'
  BY DEF DecidedInTime
<1>6. SealedCalls'
  BY DEF SealedCalls
<1>7. RecordedAnswers'
  <2>1. \A u \in Chat \ {t} : mem'[u] = mem[u] /\ disk'[u] = disk[u]
    BY DEF TypeOK
  <2>2. \A c \in Card : place[c] # t
    BY DEF OpenedChats
  <2> QED BY <2>1, <2>2 DEF RecordedAnswers, Of
<1>8. OpenedChats'
  BY DEF OpenedChats
<1>9. RunsAsApproved'
  BY DEF RunsAsApproved
<1>10. SkipsAreGranted'
  BY DEF SkipsAreGranted, Of
<1> QED BY <1>1, <1>2, <1>3, <1>4, <1>5, <1>6, <1>7, <1>8, <1>9, <1>10

LEMMA CompactInv ==
    ASSUME ApprovalsInv, NEW s \in Chat, NEW upto \in Card, Compact(s, upto)
    PROVE  ApprovalsInv'
<1> USE DEF ApprovalsInv, Compact, Upset, store, runs, record
<1>0. /\ mem' \in [Chat -> [Card -> Marks]] /\ disk' \in [Chat -> [Card -> Marks]]
  <2> DEFINE rest(h) == [c \in Card |-> IF c <= upto THEN "absent" ELSE h[c]]
  <2>1. /\ mem' = [mem EXCEPT ![s] = rest(mem[s])]
        /\ disk' = [disk EXCEPT ![s] = rest(disk[s])] \/ disk' = disk
    BY DEF TypeOK
  <2>2. \A h \in [Card -> Marks] : rest(h) \in [Card -> Marks]
    BY DEF Marks
  <2>3. mem \in [Chat -> [Card -> Marks]] /\ disk \in [Chat -> [Card -> Marks]]
    BY DEF TypeOK
  <2>4. rest(mem[s]) \in [Card -> Marks] /\ rest(disk[s]) \in [Card -> Marks]
    BY <2>2, <2>3
  <2> HIDE DEF rest
  <2> QED BY <2>1, <2>3, <2>4, HistoryType
<1>1. TypeOK'
  BY <1>0 DEF TypeOK
<1>2. CurrentCards'
  BY DEF CurrentCards
<1>3. UnmadeCards'
  BY DEF TypeOK, UnmadeCards
<1>4. ShownCards'
  BY DEF ShownCards
<1>5. DecidedInTime'
  BY DEF DecidedInTime
<1>6. SealedCalls'
  BY DEF SealedCalls
<1>7. RecordedAnswers'
  BY DEF TypeOK, RecordedAnswers, Of
<1>8. OpenedChats'
  BY DEF OpenedChats
<1>9. RunsAsApproved'
  BY DEF RunsAsApproved
<1>10. SkipsAreGranted'
  BY DEF SkipsAreGranted, Of
<1> QED BY <1>1, <1>2, <1>3, <1>4, <1>5, <1>6, <1>7, <1>8, <1>9, <1>10

LEMMA RehydrateInv ==
    ASSUME ApprovalsInv, NEW s \in Chat, Rehydrate(s)
    PROVE  ApprovalsInv'
<1> USE DEF ApprovalsInv, Rehydrate, store, runs, record
<1>0. mem' \in [Chat -> [Card -> Marks]]
  BY DEF TypeOK
<1>1. TypeOK'
  BY <1>0 DEF TypeOK
<1>2. CurrentCards'
  BY DEF CurrentCards
<1>3. UnmadeCards'
  BY DEF TypeOK, UnmadeCards
<1>4. ShownCards'
  BY DEF ShownCards
<1>5. DecidedInTime'
  BY DEF DecidedInTime
<1>6. SealedCalls'
  BY DEF SealedCalls
<1>7. RecordedAnswers'
  BY DEF TypeOK, RecordedAnswers, Of
<1>8. OpenedChats'
  BY DEF OpenedChats
<1>9. RunsAsApproved'
  BY DEF RunsAsApproved
<1>10. SkipsAreGranted'
  BY DEF SkipsAreGranted, Of
<1> QED BY <1>1, <1>2, <1>3, <1>4, <1>5, <1>6, <1>7, <1>8, <1>9, <1>10

LEMMA StartTestInv ==
    ASSUME ApprovalsInv, NEW t \in Test, NEW r \in Run, StartTest(t, r)
    PROVE  ApprovalsInv'
<1> USE DEF ApprovalsInv, StartTest, Starts, Consume, Found, chats
<1>a. /\ pending' \subseteq pending /\ answer' \in [Card -> Decision \cup {"none"}]
      /\ \A c \in Card : answer'[c] = answer[c] \/ (answer'[c] = "deny" /\ answer[c] = "none")
  <2>1. CASE slot[t] = NoCard
    BY <2>1 DEF TypeOK
  <2>2. CASE slot[t] # NoCard
    <3>1. answer' = answer \/ (answer[slot[t]] = "none" /\ answer' = [answer EXCEPT ![slot[t]] = "deny"])
      BY <2>2, Current
    <3> QED BY <2>2, <3>1 DEF TypeOK, Decision, Purged
  <2> QED BY <2>1, <2>2
<1>b. \A c \in Card : answer'[c] # answer[c] => c \notin pending'
  BY <1>a DEF Purged
<1>1. TypeOK'
  BY <1>a, Kinds DEF TypeOK
<1>2. CurrentCards'
  BY <1>a, <1>b DEF TypeOK, CurrentCards
<1>3. UnmadeCards'
  BY Current DEF TypeOK, UnmadeCards
<1>4. ShownCards'
  BY Kinds DEF ShownCards
<1>5. DecidedInTime'
  BY DEF TypeOK, DecidedInTime, Allow
<1>6. SealedCalls'
  <2>1. \A q \in Run : grant'[q] # NoCard => grant'[q] = grant[q] /\ at'[q] = at[q] /\ q # r
    BY DEF TypeOK, SealedCalls
  <2> QED BY <1>a, <2>1 DEF TypeOK, SealedCalls, Allow
<1>7. RecordedAnswers'
  BY Current DEF TypeOK, RecordedAnswers, Of
<1>8. OpenedChats'
  BY Kinds DEF OpenedChats
<1>9. RunsAsApproved'
  BY Current DEF TypeOK, RunsAsApproved
<1>10. SkipsAreGranted'
  BY Kinds DEF TypeOK, SkipsAreGranted, Of
<1> QED BY <1>1, <1>2, <1>3, <1>4, <1>5, <1>6, <1>7, <1>8, <1>9, <1>10

LEMMA ApproveTestInv ==
    ASSUME ApprovalsInv, NEW t \in Test, NEW r \in Run, ApproveTest(t, r)
    PROVE  ApprovalsInv'
<1> USE DEF ApprovalsInv, ApproveTest, Starts, SingleAction, Consume, Found, chats
<1> DEFINE c == slot[t]
<1>0. /\ c \in Card /\ c # NoCard /\ answer[c] = "none" /\ ran[c] = 0 /\ place[c] = t
      /\ \A q \in Run : grant[q] # c
  BY Current DEF TypeOK
<1>a. /\ answer'[c] = "approve" /\ \A e \in Card : e # c => answer'[e] = answer[e]
      /\ at'[r] = t /\ grant'[r] = c
      /\ \A q \in Run : q # r =>
             at'[q] = at[q] /\ grant'[q] = grant[q] /\ (q \in begun' <=> q \in begun)
  BY <1>0 DEF TypeOK
<1>1. TypeOK'
  BY Current DEF TypeOK, Card, NoCard, Place, Marks, Decision, Allow
<1>2. CurrentCards'
  BY Current DEF CurrentCards
<1>3. UnmadeCards'
  BY Current DEF TypeOK, UnmadeCards
<1>4. ShownCards'
  BY Kinds DEF ShownCards
<1>5. DecidedInTime'
  BY Current DEF DecidedInTime
<1>6. SealedCalls'
  <2>1. ASSUME NEW q \in Run, grant'[q] # NoCard
        PROVE  /\ answer'[grant'[q]] \in Allow /\ place'[grant'[q]] = at'[q]
               /\ q \notin begun' => ran'[grant'[q]] = 0
               /\ \A p \in Run : grant'[p] = grant'[q] => p = q
    <3>1. CASE q = r
      BY <1>0, <1>a, <3>1 DEF Allow
    <3>2. CASE q # r
      <4>1. grant[q] \in Card /\ grant[q] # c
        BY <1>0, <1>a, <2>1, <3>2 DEF TypeOK
      <4> QED BY <1>0, <1>a, <2>1, <3>2, <4>1 DEF SealedCalls
    <3> QED BY <3>1, <3>2
  <2> QED BY <2>1 DEF SealedCalls
<1>7. RecordedAnswers'
  BY DEF RecordedAnswers, Of
<1>8. OpenedChats'
  BY DEF TypeOK, OpenedChats
<1>9. RunsAsApproved'
  BY DEF RunsAsApproved, Allow
<1>10. SkipsAreGranted'
  BY Kinds DEF SkipsAreGranted, Of
<1> QED BY <1>1, <1>2, <1>3, <1>4, <1>5, <1>6, <1>7, <1>8, <1>9, <1>10

LEMMA DenyTestInv ==
    ASSUME ApprovalsInv, NEW t \in Test, DenyTest(t)
    PROVE  ApprovalsInv'
<1> USE DEF ApprovalsInv, DenyTest, Consume, Found, runs, chats
<1>1. TypeOK'
  BY Current DEF TypeOK, Card, NoCard, Place, Marks, Decision, Allow
<1>2. CurrentCards'
  BY Current DEF CurrentCards
<1>3. UnmadeCards'
  BY Current DEF TypeOK, UnmadeCards
<1>4. ShownCards'
  BY DEF ShownCards
<1>5. DecidedInTime'
  BY DEF DecidedInTime, Allow
<1>6. SealedCalls'
  BY Current DEF SealedCalls
<1>7. RecordedAnswers'
  BY Current DEF RecordedAnswers, Of
<1>8. OpenedChats'
  BY DEF OpenedChats
<1>9. RunsAsApproved'
  BY Current DEF RunsAsApproved
<1>10. SkipsAreGranted'
  BY Current DEF SkipsAreGranted, Of
<1> QED BY <1>1, <1>2, <1>3, <1>4, <1>5, <1>6, <1>7, <1>8, <1>9, <1>10

LEMMA RestartInv ==
    ASSUME ApprovalsInv, Restart
    PROVE  ApprovalsInv'
<1> USE DEF ApprovalsInv, Restart, Overtaken, Upset
<1>1. TypeOK'
  BY DEF TypeOK
<1>2. CurrentCards'
  BY DEF CurrentCards
<1>3. UnmadeCards'
  BY DEF TypeOK, UnmadeCards
<1>4. ShownCards'
  BY DEF ShownCards
<1>5. DecidedInTime'
  BY DEF DecidedInTime, Allow
<1>6. SealedCalls'
  BY DEF SealedCalls
<1>7. RecordedAnswers'
  BY DEF RecordedAnswers, Of
<1>8. OpenedChats'
  BY Kinds DEF OpenedChats
<1>9. RunsAsApproved'
  BY DEF RunsAsApproved, Allow
<1>10. SkipsAreGranted'
  BY DEF SkipsAreGranted, Of
<1> QED BY <1>1, <1>2, <1>3, <1>4, <1>5, <1>6, <1>7, <1>8, <1>9, <1>10

-----------------------------------------------------------------------------
(***************************************************************************)
(* The theorems.                                                           *)
(***************************************************************************)
LEMMA InitInv == Init => ApprovalsInv
<1> SUFFICES ASSUME Init PROVE ApprovalsInv
  OBVIOUS
<1> USE DEF Init
<1>1. TypeOK
  BY ApprovalConstants DEF TypeOK, ApprovalConstants, Marks, NoCard
<1>2. CurrentCards /\ UnmadeCards /\ ShownCards /\ DecidedInTime
  BY DEF CurrentCards, UnmadeCards, ShownCards, DecidedInTime, Allow
<1>3. SealedCalls /\ RecordedAnswers /\ SkipsAreGranted /\ RunsAsApproved
  BY DEF SealedCalls, RecordedAnswers, SkipsAreGranted, RunsAsApproved, Of
<1>4. OpenedChats
  BY Kinds DEF OpenedChats
<1> QED BY <1>1, <1>2, <1>3, <1>4 DEF ApprovalsInv

LEMMA StutterInv == ApprovalsInv /\ UNCHANGED vars => ApprovalsInv'
BY DEF vars, store, runs, chats, record, ApprovalsInv, TypeOK, CurrentCards, UnmadeCards, ShownCards,
       DecidedInTime, SealedCalls, RecordedAnswers, OpenedChats, RunsAsApproved,
       SkipsAreGranted, Of

\* The invariant is inductive.
LEMMA StepInv == ApprovalsInv /\ [Next]_vars => ApprovalsInv'
<1> SUFFICES ASSUME ApprovalsInv, [Next]_vars PROVE ApprovalsInv'
  OBVIOUS
<1>1. CASE Lapse \/ Misses \/ Restart
  BY <1>1, LapseInv, MissesInv, RestartInv
<1>2. ASSUME NEW r \in Run, RunStep(r) PROVE ApprovalsInv'
  BY <1>2, BeginInv, ObserveInv, ProposeInv, PauseInv, DeclineInv, FinishInv,
     InterruptedInv, TestEndsInv DEF RunStep
<1>3. ASSUME NEW s \in Chat, ChatRequest(s) PROVE ApprovalsInv'
  <2>1. CASE \E r \in Run, token \in BOOLEAN : Message(s, r, token)
    BY <2>1, MessageInv
  <2>2. CASE \E r \in Run, context \in BOOLEAN : Background(s, r, context)
    BY <2>2, BackgroundInv
  <2>3. CASE \E c \in Card, d \in Allow, r \in Run : Approve(s, c, d, r)
    BY <2>3, ApproveInv
  <2>4. CASE \E c \in Card : Deny(s, c)
    BY <2>4, DenyInv
  <2>5. CASE \E t \in Chat, keep \in Card : Fork(s, t, keep)
    BY <2>5, ForkInv
  <2>6. CASE \E upto \in Card : Compact(s, upto)
    BY <2>6, CompactInv
  <2> QED BY <1>3, <2>1, <2>2, <2>3, <2>4, <2>5, <2>6, RehydrateInv DEF ChatRequest
<1>4. ASSUME NEW t \in Test, TestRequest(t) PROVE ApprovalsInv'
  BY <1>4, DenyTestInv, StartTestInv, ApproveTestInv DEF TestRequest
<1>5. CASE UNCHANGED vars
  BY <1>5, StutterInv
<1> QED BY <1>1, <1>2, <1>3, <1>4, <1>5 DEF Next

\* The invariant holds in every reachable state, for any number of chats, tests,
\* runs and cards.
THEOREM ApprovalsInvariant == Spec => []ApprovalsInv
BY InitInv, StepInv, PTL DEF Spec

\* Type correctness.
THEOREM ApprovalsTypeCorrect == Spec => []TypeOK
<1>1. ApprovalsInv => TypeOK
  BY DEF ApprovalsInv
<1> QED BY <1>1, ApprovalsInvariant, PTL

\* A sealed call is made at most once, and only if it was allowed in time.
THEOREM SealedCallsRunOnce == Spec => []RunsAsApproved
<1>1. ApprovalsInv => RunsAsApproved
  BY DEF ApprovalsInv
<1> QED BY <1>1, ApprovalsInvariant, PTL

\* No run skips the gate without a permission of its own chat.
THEOREM PermissionsStayInTheirChat == Spec => []SkipsAreGranted
<1>1. ApprovalsInv => SkipsAreGranted
  BY DEF ApprovalsInv
<1> QED BY <1>1, ApprovalsInvariant, PTL

-----------------------------------------------------------------------------
(***************************************************************************)
(* Tests do not invalidate each other's cards.                             *)
(***************************************************************************)
TestCardsStay ==
    \A c \in Purged \ pending' :
        place[c] \in Test => \/ answer'[c] # "none"
                             \/ c \notin Newest(Purged, MaxPending - 1)
                             \/ pending' = {}

\* What is not among the newest of some cards is not among those of more cards.
LEMMA NewestOfMore ==
    ASSUME NEW A, NEW B, A \subseteq B, B \subseteq Card, NEW n \in Int,
           NEW c \in A, c \notin Newest(A, n)
    PROVE  c \notin Newest(B, n)
<1>1. IsFiniteSet(Card)
  BY FS_Interval, ApprovalConstants DEF Card, ApprovalConstants
<1> DEFINE above(S) == {d \in S : d > c}
<1>2. IsFiniteSet(above(B)) /\ IsFiniteSet(above(A))
  BY <1>1, FS_Subset
<1>3. Cardinality(above(A)) <= Cardinality(above(B))
  BY <1>2, FS_Subset
<1>4. Cardinality(above(A)) \in Nat /\ Cardinality(above(B)) \in Nat
  BY <1>2, FS_CardinalityType
<1>5. ~(Cardinality(above(A)) < n)
  BY DEF Newest
<1> HIDE DEF above
<1>6. ~(Cardinality(above(B)) < n)
  BY <1>3, <1>4, <1>5
<1> USE DEF above
<1> QED BY <1>6 DEF Newest

LEMMA CreateKeeps ==
    ASSUME ApprovalsInv, NEW r \in Run, NEW c \in Card, at[r] \in Place, Create(r, c)
    PROVE  TestCardsStay
<1> DEFINE others == Purged \ Superseded(r)
<1>1. pending' = Newest(others, MaxPending - 1) \cup {c}
  BY DEF Create
<1>2. ASSUME NEW d \in Purged, place[d] \in Test, d \notin pending'
      PROVE  d \notin Newest(Purged, MaxPending - 1)
  <2>1. d \in others
    BY <1>2, Kinds DEF ApprovalsInv, ShownCards, Superseded, Of
  <2>2. d \notin Newest(others, MaxPending - 1)
    BY <1>1, <1>2
  <2>3. others \subseteq Purged /\ Purged \subseteq Card /\ MaxPending - 1 \in Int
    BY ApprovalConstants DEF ApprovalsInv, TypeOK, Purged, ApprovalConstants
  <2> HIDE DEF others
  <2> QED BY <2>1, <2>2, <2>3, NewestOfMore
<1> QED BY <1>2 DEF TestCardsStay

LEMMA StepKeeps == ApprovalsInv /\ [Next]_vars => TestCardsStay
<1> SUFFICES ASSUME ApprovalsInv, [Next]_vars PROVE TestCardsStay
  OBVIOUS
<1>0. ASSUME pending' = pending \/ pending' = Purged PROVE TestCardsStay
  BY <1>0 DEF TestCardsStay, Purged
<1>1. CASE Lapse \/ Misses
  BY <1>0, <1>1 DEF Lapse, Misses
<1>2. CASE Restart
  BY <1>2 DEF Restart, TestCardsStay
<1>3. ASSUME NEW r \in Run, RunStep(r) PROVE TestCardsStay
  <2>1. CASE Begin(r) \/ Observe(r) \/ Finish(r) \/ Interrupted(r) \/ TestEnds(r)
    BY <1>0, <2>1 DEF Begin, Observe, Finish, Interrupted, TestEnds, store
  <2>2. ASSUME NEW c \in Card, Propose(r, c) \/ Pause(r, c) PROVE TestCardsStay
    BY <2>2, CreateKeeps, Kinds DEF Propose, Pause
  <2>3. CASE Decline(r)
    <3>1. PICK c \in Card : asked[r] = {c} /\ Consume(c)
      BY <2>3 DEF Decline
    <3>2. place[c] \in Chat
      BY <3>1 DEF ApprovalsInv, ShownCards
    <3> QED BY <3>1, <3>2, Kinds DEF Consume, TestCardsStay
  <2> QED BY <1>3, <2>1, <2>2, <2>3 DEF RunStep
<1>4. ASSUME NEW s \in Chat, ChatRequest(s) PROVE TestCardsStay
  <2>1. ASSUME \E r \in Run, token \in BOOLEAN : Message(s, r, token) PROVE TestCardsStay
    BY <2>1, Kinds DEF Message, TestCardsStay, Of
  <2>2. ASSUME \E r \in Run, context \in BOOLEAN : Background(s, r, context) PROVE TestCardsStay
    BY <1>0, <2>2 DEF Background, store
  <2>3. ASSUME NEW c \in Card, Found(c, s), Consume(c) PROVE TestCardsStay
    BY <2>3, Kinds DEF Found, Consume, TestCardsStay
  <2>4. ASSUME NEW t \in Chat, NEW keep \in Card, Fork(s, t, keep) PROVE TestCardsStay
    BY <1>0, <2>4 DEF Fork, store
  <2>5. ASSUME NEW upto \in Card, Compact(s, upto) PROVE TestCardsStay
    BY <1>0, <2>5 DEF Compact, store
  <2>6. CASE Rehydrate(s)
    BY <1>0, <2>6 DEF Rehydrate, store
  <2> QED BY <1>4, <2>1, <2>2, <2>3, <2>4, <2>5, <2>6 DEF ChatRequest, Approve, Deny
<1>5. ASSUME NEW t \in Test, TestRequest(t) PROVE TestCardsStay
  <2>1. CASE DenyTest(t)
    BY <2>1 DEF DenyTest, Consume, TestCardsStay, ApprovalsInv, TypeOK
  <2>2. ASSUME NEW r \in Run, ApproveTest(t, r) PROVE TestCardsStay
    BY <2>2 DEF ApproveTest, Consume, TestCardsStay, ApprovalsInv, TypeOK
  <2>3. ASSUME NEW r \in Run, StartTest(t, r) PROVE TestCardsStay
    <3>1. CASE slot[t] = NoCard
      BY <1>0, <2>3, <3>1 DEF StartTest
    <3>2. CASE slot[t] # NoCard
      <4>1. pending' = Purged \ {slot[t]} /\ slot[t] \in Card /\ place[slot[t]] = t
        BY <2>3, <3>2 DEF StartTest, Consume, ApprovalsInv, TypeOK, ShownCards
      <4>2. slot[t] \in Purged => answer'[slot[t]] = "deny"
        BY <2>3, <3>2, <4>1 DEF StartTest, Found, ApprovalsInv, TypeOK
      <4> QED BY <4>1, <4>2 DEF TestCardsStay
    <3> QED BY <3>1, <3>2
  <2> QED BY <1>5, <2>1, <2>2, <2>3 DEF TestRequest
<1>6. CASE UNCHANGED vars
  BY <1>0, <1>6 DEF vars, store
<1> QED BY <1>1, <1>2, <1>3, <1>4, <1>5, <1>6 DEF Next

\* A test's card that has not expired leaves the store answered, evicted by
\* capacity, or with the process.
THEOREM TestsKeepTheirCards == Spec => TestsIndependent
<1>1. Spec => [][TestCardsStay]_vars
  BY ApprovalsInvariant, StepKeeps, PTL DEF Spec
<1> QED BY <1>1, PTL DEF TestCardsStay, TestsIndependent

-----------------------------------------------------------------------------
(***************************************************************************)
(* Every step is one in the life of the cards, or leaves them alone.       *)
(***************************************************************************)
CardsUnanswered == answer' = answer /\ ran' = ran /\ made' = made /\ place' = place

\* What the invariant says of the states of a card.
LEMMA Life ==
    ASSUME ApprovalsInv, NEW c \in Card
    PROVE  /\ CardState[c] = "current" <=> c \in Purged
           /\ c > made => CardState[c] = "unmade"
           /\ c \in Purged => answer[c] = "none" /\ ran[c] = 0 /\ c <= made
           /\ answer[c] \in Allow /\ ran[c] = 0 => CardState[c] = "allowed"
<1>1. c \in Purged <=> c \in pending /\ c > lapsed
  BY DEF Purged, ApprovalsInv, TypeOK
<1>2. c \in Purged => answer[c] = "none" /\ ran[c] = 0 /\ c <= made
  BY Current
<1>3. answer[c] \in Allow => c \notin Purged
  BY <1>2 DEF Allow
<1>4. c > made => c \notin Purged /\ ran[c] = 0 /\ answer[c] = "none"
  <2>1. c \in Nat /\ made \in Nat /\ ran[c] \in Nat
    BY Kinds DEF ApprovalsInv, TypeOK
  <2> QED BY <1>2, <2>1, Kinds DEF ApprovalsInv, UnmadeCards, RunsAsApproved, Allow
<1> QED BY <1>1, <1>2, <1>3, <1>4 DEF CardState, Allow

\* Cards that leave the store unanswered, if any, are withdrawn.
LEMMA WithdrawStep ==
    ASSUME ApprovalsInv, CardsUnanswered, Purged' \subseteq Purged
    PROVE  Cards!Next
<1> DEFINE cards == Purged \ Purged'
<1>1. cards \in SUBSET Cards!Current
  BY Life DEF Cards!Current, ApprovalsInv, TypeOK, Purged
<1>2. ASSUME NEW c \in Card
      PROVE  CardState'[c] = IF c \in cards THEN "withdrawn" ELSE CardState[c]
  <2>1. c \in Purged' <=> c \in pending' /\ c > lapsed'
    BY DEF Purged
  <2>2. c \in Purged <=> c \in pending /\ c > lapsed
    BY DEF Purged
  <2>3. c \in Purged => answer[c] = "none" /\ ran[c] = 0 /\ ~(c > made)
    BY Life, Kinds DEF ApprovalsInv, TypeOK
  <2> QED BY <2>1, <2>2, <2>3 DEF CardsUnanswered, CardState, Allow
<1>3. CardState' = Cards!Withdrawn(cards)
  BY <1>2 DEF Cards!Withdrawn, CardState
<1> QED BY <1>1, <1>3 DEF Cards!Next, Cards!Withdraw, CardsUnanswered

\* A card that is found and consumed is answered.
LEMMA AnswerStep ==
    ASSUME ApprovalsInv, NEW c \in Purged, NEW d \in Decision, Consume(c),
           answer' = [answer EXCEPT ![c] = d],
           ran' = ran, made' = made, place' = place, lapsed' = lapsed
    PROVE  Cards!Next
<1> DEFINE decision == IF d \in Allow THEN "allowed" ELSE "denied"
<1>1. c \in Card /\ CardState[c] = "current" /\ ran[c] = 0
  BY Current, Life
<1>2. ASSUME NEW e \in Card
      PROVE  CardState'[e] = IF e = c THEN decision ELSE CardState[e]
  <2>1. e \in pending' /\ e > lapsed' <=> e \in Purged /\ e # c
    BY DEF Consume, Purged
  <2>2. e \in Purged <=> e \in pending /\ e > lapsed
    BY DEF Purged
  <2>3. e # c => answer'[e] = answer[e]
    BY <1>1 DEF ApprovalsInv, TypeOK
  <2>4. e = c => answer'[e] = d
    BY <1>1 DEF ApprovalsInv, TypeOK
  <2> QED BY <1>1, <2>1, <2>2, <2>3, <2>4 DEF CardState, Decision, Allow
<1>3. CardState' = [CardState EXCEPT ![c] = decision]
  BY <1>2 DEF CardState
<1>4. Cards!Answer(c, decision)
  BY <1>1, <1>3 DEF Cards!Answer
<1> QED BY <1>1, <1>4 DEF Cards!Next

-----------------------------------------------------------------------------
(***************************************************************************)
(* What the newest of some cards are.                                      *)
(***************************************************************************)
LEMMA Least ==
    ASSUME NEW T, T \subseteq Nat, T # {}
    PROVE  \E x \in T : \A y \in T : x <= y
<1>1. PICK x \in T : \A y \in T : <<y, x>> \notin OpToRel(<, Nat)
  BY WFMin, NatLessThanWellFounded
<1>2. ASSUME NEW y \in T PROVE x <= y
  <2>1. x \in Nat /\ y \in Nat
    OBVIOUS
  <2>2. <<y, x>> \in Nat \X Nat /\ <<y, x>>[1] = y /\ <<y, x>>[2] = x
    BY <2>1
  <2>3. ~(y < x)
    <3>1. SUFFICES ASSUME y < x PROVE <<y, x>> \in OpToRel(<, Nat)
      BY <1>1
    <3>2. <<y, x>>[1] < <<y, x>>[2]
      BY <2>2, <3>1
    <3>3. OpToRel(<, Nat) = {ss \in Nat \X Nat : ss[1] < ss[2]}
      BY DEF OpToRel
    <3> QED BY <2>2, <3>2, <3>3
  <2> QED BY <2>1, <2>3
<1> QED BY <1>2

LEMMA Greatest ==
    ASSUME NEW T, T \subseteq Card, T # {}
    PROVE  \E x \in T : \A y \in T : y <= x
<1> DEFINE below == {MaxCards - c : c \in T}
<1>1. MaxCards \in Nat /\ \A c \in T : c \in Nat /\ c <= MaxCards
  BY ApprovalConstants DEF ApprovalConstants, Card
<1>2. below \subseteq Nat /\ below # {}
  BY <1>1
<1>3. PICK b \in below : \A y \in below : b <= y
  BY <1>2, Least
<1>4. PICK x \in T : b = MaxCards - x
  OBVIOUS
<1>5. ASSUME NEW y \in T PROVE y <= x
  <2>1. MaxCards - x <= MaxCards - y
    BY <1>3, <1>4
  <2> QED BY <1>1, <2>1
<1> QED BY <1>5

\* Of some cards the newest n are n of them, or all, and newer than the others.
LEMMA NewestAre ==
    ASSUME NEW S, S \subseteq Card, NEW n \in Nat
    PROVE  /\ Cardinality(Newest(S, n)) <= n
           /\ Newest(S, n) # S => Cardinality(Newest(S, n)) = n
           /\ \A d \in S \ Newest(S, n), e \in Newest(S, n) : d < e
<1> DEFINE above(c) == {d \in S : d > c}
           N == Newest(S, n)
<1>0. IsFiniteSet(Card)
  BY FS_Interval, ApprovalConstants DEF Card, ApprovalConstants
<1>1. IsFiniteSet(S) /\ \A c \in S : c \in Nat
  BY <1>0, Kinds, FS_Subset
<1>2. ASSUME NEW c \in S
      PROVE  IsFiniteSet(above(c)) /\ Cardinality(above(c)) \in Nat
  BY <1>1, FS_Subset, FS_CardinalityType
<1>3. N = {c \in S : Cardinality(above(c)) < n}
  BY DEF Newest
<1>4. N \subseteq S /\ IsFiniteSet(N) /\ Cardinality(N) \in Nat
  BY <1>1, <1>3, FS_Subset, FS_CardinalityType
<1>5. ASSUME NEW d \in S \ N, NEW e \in N PROVE d < e
  <2>0. d \in Nat /\ e \in Nat /\ d # e /\ e \in S
    BY <1>1, <1>4
  <2>1. SUFFICES ASSUME e < d PROVE FALSE
    BY <2>0
  <2>2. above(d) \subseteq above(e)
    <3>1. ASSUME NEW c \in S, c > d PROVE c > e
      BY <1>1, <2>0, <2>1, <3>1
    <3> QED BY <3>1
  <2>3. Cardinality(above(d)) <= Cardinality(above(e))
    BY <1>2, <1>4, <2>2, FS_Subset
  <2>4. Cardinality(above(e)) < n /\ ~(Cardinality(above(d)) < n)
    BY <1>3
  <2>5. Cardinality(above(d)) \in Nat /\ Cardinality(above(e)) \in Nat
    BY <1>2, <1>4
  <2> HIDE DEF above
  <2> QED BY <2>3, <2>4, <2>5
<1>6. Cardinality(N) <= n
  <2>1. CASE N = {}
    BY <2>1, FS_EmptySet
  <2>2. CASE N # {}
    <3>1. PICK m \in N : \A y \in N : m <= y
      BY <1>1, <1>4, <2>2, Least
    <3>2. N \ {m} \subseteq above(m)
      <4>1. ASSUME NEW y \in N, y # m PROVE y \in S /\ y > m
        <5>1. y \in Nat /\ m \in Nat /\ y \in S /\ m <= y
          BY <1>1, <1>4, <3>1
        <5> QED BY <4>1, <5>1
      <4> QED BY <4>1
    <3>3. Cardinality(N \ {m}) <= Cardinality(above(m))
      BY <1>2, <1>4, <3>2, FS_Subset
    <3>4. Cardinality(N \ {m}) = Cardinality(N) - 1
      BY <1>4, FS_RemoveElement
    <3>5. Cardinality(above(m)) < n
      BY <1>3
    <3>6. Cardinality(above(m)) \in Nat
      BY <1>2, <1>4
    <3> HIDE DEF above, N
    <3> QED BY <1>4, <3>3, <3>4, <3>5, <3>6
  <2> QED BY <2>1, <2>2
<1>7. ASSUME N # S PROVE Cardinality(N) = n
  <2>1. S \ N # {} /\ S \ N \subseteq Card
    BY <1>4, <1>7
  <2>2. PICK x \in S \ N : \A y \in S \ N : y <= x
    BY <2>1, Greatest
  <2>3. above(x) \subseteq N
    <3>1. ASSUME NEW y \in S, y > x, y \notin N PROVE FALSE
      <4>1. y \in Nat /\ x \in Nat /\ y <= x
        BY <1>1, <2>2, <3>1
      <4> QED BY <3>1, <4>1
    <3> QED BY <3>1
  <2>4. Cardinality(above(x)) <= Cardinality(N)
    BY <1>4, <2>3, FS_Subset
  <2>5. ~(Cardinality(above(x)) < n) /\ Cardinality(above(x)) \in Nat
    BY <1>2, <1>3
  <2> HIDE DEF above, N
  <2> QED BY <1>4, <1>6, <2>4, <2>5
<1> QED BY <1>5, <1>6, <1>7

\* Two functions that differ at one point.
LEMMA Changed ==
    ASSUME NEW S, NEW f, NEW g, NEW c \in S, NEW v,
           f = [x \in S |-> f[x]], g = [x \in S |-> g[x]],
           \A x \in S : g[x] = IF x = c THEN v ELSE f[x]
    PROVE  g = [f EXCEPT ![c] = v]
OBVIOUS

LEMMA SameCardinality == ASSUME NEW S PROVE Cards!Cardinality(S) = Cardinality(S)
BY DEF Cards!Cardinality, Cardinality, Cards!IsFiniteSet, IsFiniteSet

\* create seals a card: it supersedes, the oldest make room, the others stay.
LEMMA SealStep ==
    ASSUME ApprovalsInv, NEW r \in Run, at[r] \in Place, NEW c \in Card, Create(r, c), ran' = ran
    PROVE  Cards!Next
<1> DEFINE others == Purged \ Superseded(r)
           kept   == Newest(others, MaxPending - 1)
<1>1. /\ c = made + 1 /\ made' = c /\ place' = [place EXCEPT ![c] = at[r]]
      /\ pending' = kept \cup {c} /\ lapsed' = lapsed /\ answer' = answer
  BY DEF Create
<1>2. /\ MaxPending - 1 \in Nat /\ MaxPending - 1 < MaxPending
      /\ others \subseteq Card /\ kept \subseteq others
  BY Current, ApprovalConstants DEF ApprovalConstants, Newest
<1>3. /\ Cardinality(kept) < MaxPending
      /\ kept # others => Cardinality(kept) = MaxPending - 1
      /\ \A d \in others \ kept, e \in kept : d < e
  <2>0. IsFiniteSet(Card)
    BY FS_Interval, ApprovalConstants DEF Card, ApprovalConstants
  <2>1. IsFiniteSet(kept)
    BY <1>2, <2>0, FS_Subset
  <2>2. Cardinality(kept) \in Nat
    BY <2>1, FS_CardinalityType
  <2>3. /\ Cardinality(kept) <= MaxPending - 1
        /\ kept # others => Cardinality(kept) = MaxPending - 1
        /\ \A d \in others \ kept, e \in kept : d < e
    BY <1>2, NewestAre
  <2>4. MaxPending \in Nat
    BY ApprovalConstants DEF ApprovalConstants
  <2> HIDE DEF kept, others
  <2> QED BY <2>2, <2>3, <2>4
<1>4. Cards!Current = Purged
  BY Life DEF Cards!Current, Purged, ApprovalsInv, TypeOK
<1>5. others = {d \in Cards!Current : at[r] \in Chat => place[d] # at[r]}
  <2>1. CASE at[r] \in Chat
    BY <1>4, <2>1, Current DEF Superseded, Of
  <2>2. CASE at[r] \notin Chat
    <3>1. asked[r] = {}
      BY <2>2 DEF ApprovalsInv, ShownCards, TypeOK
    <3> QED BY <1>4, <2>2, <3>1 DEF Superseded
  <2> QED BY <2>1, <2>2
<1>6. c > made /\ c > lapsed /\ c \in Nat
  BY <1>1, Kinds DEF ApprovalsInv, TypeOK, CurrentCards
<1>7. CardState[c] = "unmade" /\ c \notin Purged
  <2>1. CardState[c] = "unmade"
    BY <1>6, Life
  <2> QED BY <2>1, Life
<1> HIDE DEF others, kept
<1>8. ASSUME NEW d \in Card
      PROVE  CardState'[d] = IF d = c THEN "current"
                             ELSE IF d \in Purged \ kept THEN "withdrawn"
                             ELSE CardState[d]
  <2>1. d \in pending' /\ d > lapsed' <=> d = c \/ d \in kept
    <3>1. d \in kept => d \in Purged
      BY <1>2 DEF others
    <3> QED BY <1>1, <1>6, <3>1 DEF Purged
  <2>2. d \in pending /\ d > lapsed <=> d \in Purged
    BY DEF Purged
  <2>3. kept \subseteq Purged
    BY <1>2 DEF others
  <2>4. d # c => (d > made' <=> d > made)
    <3>1. d \in Nat /\ made \in Nat
      BY Kinds DEF ApprovalsInv, TypeOK
    <3> QED BY <1>1, <3>1
  <2>5. d \in Purged => answer[d] = "none" /\ ran[d] = 0 /\ ~(d > made)
    BY Life, Kinds DEF ApprovalsInv, TypeOK
  <2> QED BY <1>1, <2>1, <2>2, <2>3, <2>4, <2>5 DEF CardState, Allow
<1>9. CardState' = [Cards!Withdrawn(Cards!Current \ kept) EXCEPT ![c] = "current"]
  <2> DEFINE lost == Cards!Withdrawn(Cards!Current \ kept)
  <2>1. lost = [d \in Card |-> IF d \in Purged \ kept THEN "withdrawn" ELSE CardState[d]]
    BY <1>4 DEF Cards!Withdrawn
  <2>2. lost = [d \in Card |-> lost[d]] /\ CardState' = [d \in Card |-> CardState'[d]]
    BY <2>1 DEF CardState
  <2>3. \A d \in Card : CardState'[d] = IF d = c THEN "current" ELSE lost[d]
    BY <1>8, <2>1
  <2> HIDE DEF lost
  <2>4. CardState' = [lost EXCEPT ![c] = "current"]
    BY <2>2, <2>3, Changed
  <2> QED BY <2>4 DEF lost
<1>10. Cards!Seal(c, at[r])
  BY <1>1, <1>2, <1>3, <1>5, <1>7, <1>9, SameCardinality DEF Cards!Seal
<1> QED BY <1>10 DEF Cards!Next

\* The first step of a run makes the sealed call, or does not.
LEMMA CallStep ==
    ASSUME ApprovalsInv, NEW r \in Run, Begin(r)
    PROVE  Cards!Next
<1>1. pending' = pending /\ lapsed' = lapsed /\ made' = made /\ place' = place /\ answer' = answer
  BY DEF Begin, store
<1>2. ASSUME ran' = ran PROVE Cards!Next
  BY <1>1, <1>2, WithdrawStep DEF CardsUnanswered, Purged
<1> DEFINE c == grant[r]
<1>3. ASSUME c # NoCard, ran' = [ran EXCEPT ![c] = @ + 1] PROVE Cards!Next
  <2>1. c \in Card /\ ran \in [Card -> Nat]
    BY <1>3 DEF ApprovalsInv, TypeOK
  <2>2. answer[c] \in Allow /\ ran[c] = 0
    BY <1>3 DEF ApprovalsInv, SealedCalls, Begin
  <2> HIDE DEF c
  <2>3. CardState[c] = "allowed" /\ c \notin Purged
    <3>1. c \in Purged => answer[c] = "none"
      BY <2>1, Life
    <3> QED BY <2>1, <2>2, <3>1, Life DEF Allow
  <2>4. ASSUME NEW d \in Card
        PROVE  CardState'[d] = IF d = c THEN "called" ELSE CardState[d]
    <3>1. d # c => ran'[d] = ran[d]
      BY <1>3, <2>1
    <3>2. ran'[c] = 1
      BY <1>3, <2>1, <2>2
    <3>3. ~(c \in pending /\ c > lapsed)
      BY <2>3 DEF Purged
    <3> QED BY <1>1, <3>1, <3>2, <3>3 DEF CardState
  <2>5. CardState' = [CardState EXCEPT ![c] = "called"]
    BY <2>4 DEF CardState
  <2>6. Cards!Call(c)
    BY <1>1, <2>3, <2>5 DEF Cards!Call
  <2> QED BY <2>1, <2>6 DEF Cards!Next
<1>4. ran' = ran \/ (c # NoCard /\ \E claimed \in {0, 1} : ran' = [ran EXCEPT ![c] = @ + claimed])
  BY DEF Begin
<1>5. ASSUME c # NoCard, ran' = [ran EXCEPT ![c] = @ + 0] PROVE ran' = ran
  <2>1. ran \in [Card -> Nat] /\ c \in Card
    BY <1>5 DEF ApprovalsInv, TypeOK
  <2> HIDE DEF c
  <2>2. ran[c] + 0 = ran[c]
    BY <2>1
  <2> QED BY <1>5, <2>1, <2>2
<1> QED BY <1>2, <1>3, <1>4, <1>5

\* A step that answers no card and calls none can only take cards away.
LEMMA QuietStep ==
    ASSUME ApprovalsInv, CardsUnanswered, lapsed' = lapsed,
           pending' \subseteq pending
    PROVE  Cards!Next
<1>1. Purged' \subseteq Purged
  BY DEF Purged
<1> QED BY <1>1, WithdrawStep

LEMMA RunStepCards ==
    ASSUME ApprovalsInv, NEW r \in Run, RunStep(r)
    PROVE  Cards!Next
<1>1. CASE Begin(r)
  BY <1>1, CallStep
<1>2. CASE Observe(r) \/ Finish(r) \/ Interrupted(r) \/ TestEnds(r)
  <2>1. UNCHANGED <<store, answer, ran>>
    BY <1>2 DEF Observe, Finish, Interrupted, TestEnds, record
  <2> QED BY <2>1, QuietStep DEF store, CardsUnanswered
<1>3. ASSUME NEW c \in Card, Propose(r, c) \/ Pause(r, c) PROVE Cards!Next
  <2>1. Create(r, c) /\ at[r] \in Place
    BY <1>3, Kinds DEF Propose, Pause
  <2>2. ran' = ran
    BY <2>1 DEF Create
  <2> QED BY <2>1, <2>2, SealStep
<1>4. CASE Decline(r)
  <2>1. PICK c \in Card :
            /\ Consume(c)
            /\ answer' = IF Found(c, at[r]) THEN [answer EXCEPT ![c] = "deny"] ELSE answer
    BY <1>4 DEF Decline
  <2>2. made' = made /\ lapsed' = lapsed /\ place' = place /\ ran' = ran
    BY <1>4 DEF Decline
  <2>3. CASE Found(c, at[r])
    BY <2>1, <2>2, <2>3, AnswerStep DEF Found, Decision
  <2>4. CASE ~Found(c, at[r])
    BY <2>1, <2>2, <2>4, QuietStep DEF CardsUnanswered, Consume, Purged
  <2> QED BY <2>3, <2>4
<1> QED BY <1>1, <1>2, <1>3, <1>4 DEF RunStep

LEMMA ChatRequestCards ==
    ASSUME ApprovalsInv, NEW s \in Chat, ChatRequest(s)
    PROVE  Cards!Next
<1>1. ASSUME \E r \in Run, token \in BOOLEAN : Message(s, r, token) PROVE Cards!Next
  <2>1. pending' \subseteq pending /\ lapsed' = lapsed /\ CardsUnanswered
    BY <1>1 DEF Message, Purged, CardsUnanswered
  <2> QED BY <2>1, QuietStep
<1>2. ASSUME \/ \E r \in Run, context \in BOOLEAN : Background(s, r, context)
             \/ \E t \in Chat, keep \in Card : Fork(s, t, keep)
             \/ \E upto \in Card : Compact(s, upto)
             \/ Rehydrate(s)
      PROVE  Cards!Next
  <2>1. UNCHANGED <<store, record>>
    BY <1>2 DEF Background, Fork, Compact, Rehydrate
  <2> QED BY <2>1, QuietStep DEF store, record, CardsUnanswered
<1>3. ASSUME NEW c \in Card, NEW d \in Allow, NEW r \in Run, Approve(s, c, d, r)
      PROVE  Cards!Next
  <2>1. c \in Purged /\ d \in Decision
    BY <1>3 DEF Approve, Found, Decision
  <2> QED BY <1>3, <2>1, AnswerStep DEF Approve
<1>4. ASSUME NEW c \in Card, Deny(s, c) PROVE Cards!Next
  <2>1. c \in Purged /\ "deny" \in Decision
    BY <1>4 DEF Deny, Found, Decision
  <2> QED BY <1>4, <2>1, AnswerStep DEF Deny
<1> QED BY <1>1, <1>2, <1>3, <1>4 DEF ChatRequest

LEMMA TestRequestCards ==
    ASSUME ApprovalsInv, NEW t \in Test, TestRequest(t)
    PROVE  Cards!Next
<1> DEFINE c == slot[t]
<1>1. CASE DenyTest(t)
  <2>1. c \in Purged /\ "deny" \in Decision
    BY <1>1 DEF DenyTest, Found, Decision
  <2> QED BY <1>1, <2>1, AnswerStep DEF DenyTest
<1>2. ASSUME NEW r \in Run, ApproveTest(t, r) PROVE Cards!Next
  <2>1. c \in Purged /\ "approve" \in Decision
    BY <1>2 DEF ApproveTest, Found, Decision, Allow
  <2> QED BY <1>2, <2>1, AnswerStep DEF ApproveTest
<1>3. ASSUME NEW r \in Run, StartTest(t, r) PROVE Cards!Next
  <2>1. made' = made /\ lapsed' = lapsed /\ place' = place /\ ran' = ran
    BY <1>3 DEF StartTest
  <2>2. CASE c # NoCard /\ Found(c, t)
    <3>1. c \in Purged /\ "deny" \in Decision
      BY <2>2 DEF Found, Decision
    <3> QED BY <1>3, <2>1, <2>2, <3>1, AnswerStep DEF StartTest
  <2>3. CASE ~(c # NoCard /\ Found(c, t))
    BY <1>3, <2>1, <2>3, QuietStep DEF StartTest, Consume, Purged, CardsUnanswered
  <2> QED BY <2>2, <2>3
<1> QED BY <1>1, <1>2, <1>3 DEF TestRequest

LEMMA CardsStep == ApprovalsInv /\ [Next]_vars => [Cards!Next]_(Cards!vars)
<1> SUFFICES ASSUME ApprovalsInv, [Next]_vars PROVE [Cards!Next]_(Cards!vars)
  OBVIOUS
<1>1. CASE Lapse
  <2>1. PICK c \in Purged : lapsed' = c
    BY <1>1 DEF Lapse
  <2>2. c \in Nat /\ lapsed \in Nat /\ c > lapsed
    BY <2>1, Current DEF Purged, ApprovalsInv, TypeOK
  <2>3. \A d \in pending : d \in Nat
    BY Kinds DEF ApprovalsInv, TypeOK
  <2>4. ASSUME NEW d \in Purged' PROVE d \in Purged
    <3>1. d \in pending /\ d > c
      BY <1>1, <2>1 DEF Lapse, Purged
    <3>2. d > lapsed
      BY <2>2, <2>3, <3>1
    <3> QED BY <3>1, <3>2 DEF Purged
  <2> QED BY <1>1, <2>4, WithdrawStep DEF Lapse, CardsUnanswered
<1>2. CASE Misses
  BY <1>2, QuietStep DEF Misses, Purged, CardsUnanswered, record
<1>3. CASE Restart
  <2>1. Purged' = {}
    BY <1>3 DEF Restart, Purged
  <2> QED BY <1>3, <2>1, WithdrawStep DEF Restart, CardsUnanswered
<1>4. CASE UNCHANGED vars
  BY <1>4, QuietStep DEF vars, store, record, CardsUnanswered
<1> QED
  BY <1>1, <1>2, <1>3, <1>4, RunStepCards, ChatRequestCards, TestRequestCards DEF Next

LEMMA CardsInit == Init => Cards!Init
<1> SUFFICES ASSUME Init PROVE Cards!Init
  OBVIOUS
<1>1. ASSUME NEW c \in Card PROVE CardState[c] = "unmade"
  <2>1. c > 0
    BY DEF Card
  <2> QED BY <2>1 DEF Init, CardState, Allow
<1>2. CardState = [c \in Card |-> "unmade"]
  BY <1>1 DEF CardState
<1> QED BY <1>2 DEF Init, Cards!Init

\* The store, the runs that ask and the requests that answer implement the life
\* of cards that ApprovalCards promises, for any capacity and any number of
\* chats, tests, runs and cards.
THEOREM CardsKeepTheirPromise == Spec => ImplementsCards
BY ApprovalsInvariant, CardsInit, CardsStep, PTL DEF Spec, ImplementsCards, Cards!Spec
=============================================================================
