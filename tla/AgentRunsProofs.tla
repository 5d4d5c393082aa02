-------------------------- MODULE AgentRunsProofs --------------------------
(***************************************************************************)
(* The inductive invariant of AgentRuns is one, for any number of runs,    *)
(* events and clients; the safety properties follow from it, and so does   *)
(* that AgentRuns implements EventStream.                                  *)
(***************************************************************************)
EXTENDS AgentRunsInvariant, TLAPS

-----------------------------------------------------------------------------
(***************************************************************************)
(* Sequences and publication.                                              *)
(***************************************************************************)

\* Counting one more position keeps the counted positions in order.
LEMMA CountOn ==
    ASSUME NEW n \in Nat
    PROVE  Append([i \in 1..n |-> i], n + 1) = [i \in 1..(n + 1) |-> i]
<1> DEFINE s == [i \in 1..n |-> i]
<1>1. s \in Seq(Nat) /\ Len(s) = n
  OBVIOUS
<1> QED BY <1>1

\* What a concatenation holds.
LEMMA Concatenated ==
    ASSUME NEW s \in Seq(Nat), NEW t \in Seq(Nat)
    PROVE  /\ s \o t \in Seq(Nat)
           /\ Len(s \o t) = Len(s) + Len(t)
           /\ \A i \in 1..Len(s) : (s \o t)[i] = s[i]
           /\ \A i \in 1..Len(t) : (s \o t)[Len(s) + i] = t[i]
<1>1. s \o t \in Seq(Nat) /\ Len(s \o t) = Len(s) + Len(t)
  OBVIOUS
<1>2. \A i \in 1..Len(s) : (s \o t)[i] = s[i]
  OBVIOUS
<1>3. \A i \in 1..Len(t) : (s \o t)[Len(s) + i] = t[i]
  OBVIOUS
<1> QED BY <1>1, <1>2, <1>3

\* What _publish and _wake_run_subscribers do to buffers and queues, position
\* by position.
LEMMA FeedFacts ==
    ASSUME TypeOK, NEW r \in Run, NEW evs \in Seq(Event), NEW wake \in BOOLEAN,
           Feed(r, evs, wake)
    PROVE  /\ buffer' \in [Run -> Seq(Event)]
           /\ Len(buffer[r]) \in Nat /\ Len(evs) \in Nat
           /\ Len(buffer'[r]) = Len(buffer[r]) + Len(evs)
           /\ \A i \in 1..Len(buffer[r]) : buffer'[r][i] = buffer[r][i]
           /\ \A i \in 1..Len(evs) : buffer'[r][Len(buffer[r]) + i] = evs[i]
           /\ \A q \in Run \ {r} : buffer'[q] = buffer[q]
           /\ queue' \in [Client -> Seq(Nat)]
           /\ \A c \in Client \ Subscribers(r) : queue'[c] = queue[c]
<1>1. buffer[r] \in Seq(Event) /\ buffer' = [buffer EXCEPT ![r] = buffer[r] \o evs]
  BY DEF TypeOK, Feed
<1>2. [i \in 1..Len(evs) |-> Len(buffer[r]) + i] \in Seq(Nat)
  BY <1>1
<1>3. (IF wake THEN <<Sentinel>> ELSE <<>>) \in Seq(Nat)
  BY DEF Sentinel
<1>4. queue' \in [Client -> Seq(Nat)]
  BY <1>2, <1>3 DEF Feed, TypeOK
<1>5. \A c \in Client \ Subscribers(r) : queue'[c] = queue[c]
  BY DEF Feed
<1>6. buffer' \in [Run -> Seq(Event)]
  BY <1>1 DEF TypeOK
<1> QED BY <1>1, <1>4, <1>5, <1>6 DEF TypeOK

\* The queue of a subscriber after a publication: what it held, the new
\* positions, and the sentinel if the run is over.
LEMMA FedQueue ==
    ASSUME TypeOK, NEW r \in Run, NEW evs \in Seq(Event), NEW wake \in BOOLEAN,
           Feed(r, evs, wake), NEW c \in Subscribers(r)
    PROVE  LET n == Len(queue[c])
               b == Len(buffer[r])
               e == Len(evs)
           IN  /\ n \in Nat /\ b \in Nat /\ e \in Nat
               /\ Len(queue'[c]) = n + e + (IF wake THEN 1 ELSE 0)
               /\ \A i \in 1..n : queue'[c][i] = queue[c][i]
               /\ \A i \in 1..e : queue'[c][n + i] = b + i
               /\ wake => queue'[c][n + e + 1] = Sentinel
<1> DEFINE s == queue[c]
           p == [i \in 1..Len(evs) |-> Len(buffer[r]) + i]
           w == IF wake THEN <<Sentinel>> ELSE <<>>
<1>1. c \in Client /\ s \in Seq(Nat) /\ buffer[r] \in Seq(Event)
  BY DEF TypeOK, Subscribers
<1>2. p \in Seq(Nat) /\ Len(p) = Len(evs) /\ \A i \in 1..Len(evs) : p[i] = Len(buffer[r]) + i
  BY <1>1
<1>3. w \in Seq(Nat) /\ Len(w) = (IF wake THEN 1 ELSE 0) /\ (wake => w[1] = Sentinel)
  BY DEF Sentinel
<1>4. queue'[c] = (s \o p) \o w
  BY <1>1 DEF Feed
<1> HIDE DEF s, p, w
<1>5. /\ s \o p \in Seq(Nat) /\ Len(s \o p) = Len(s) + Len(p)
      /\ \A i \in 1..Len(s) : (s \o p)[i] = s[i]
      /\ \A i \in 1..Len(p) : (s \o p)[Len(s) + i] = p[i]
  BY <1>1, <1>2, Concatenated
<1>6. /\ Len((s \o p) \o w) = Len(s \o p) + Len(w)
      /\ \A i \in 1..Len(s \o p) : ((s \o p) \o w)[i] = (s \o p)[i]
      /\ \A i \in 1..Len(w) : ((s \o p) \o w)[Len(s \o p) + i] = w[i]
  BY <1>3, <1>5, Concatenated
<1>7. /\ Len(s) \in Nat /\ Len(buffer[r]) \in Nat /\ Len(evs) \in Nat /\ Len(w) \in Nat
  BY <1>1, <1>3
<1>8. Len(queue'[c]) = Len(s) + Len(evs) + (IF wake THEN 1 ELSE 0)
  BY <1>2, <1>3, <1>4, <1>5, <1>6
<1>9. \A i \in 1..Len(s) : queue'[c][i] = s[i]
  BY <1>2, <1>4, <1>5, <1>6, <1>7
<1>10. \A i \in 1..Len(evs) : queue'[c][Len(s) + i] = Len(buffer[r]) + i
  BY <1>2, <1>4, <1>5, <1>6, <1>7
<1>11. wake => queue'[c][Len(s) + Len(evs) + 1] = Sentinel
  BY <1>2, <1>3, <1>4, <1>5, <1>6, <1>7
<1> QED BY <1>7, <1>8, <1>9, <1>10, <1>11 DEF s

-----------------------------------------------------------------------------
(***************************************************************************)
(* One client, seen from the steps of the others.                          *)
(***************************************************************************)
Untouched(d) ==
    /\ at'[d] = at[d] /\ run'[d] = run[d] /\ next'[d] = next[d] /\ got'[d] = got[d]

\* A client is served as before by a step that neither publishes nor moves it.
LEMMA ServedStill ==
    ASSUME NEW d \in Client, Served(d), Untouched(d), queue'[d] = queue[d],
           buffer' = buffer, status' = status
    PROVE  Served(d)'
  BY DEF Served, Untouched, InOrder, QueueOrdered, NothingLost, EndsOver

\* A publication serves the subscribers of its run and leaves the others alone.
LEMMA FeedServes ==
    ASSUME TypeOK, NEW r \in Run, NEW evs \in Seq(Event), NEW wake \in BOOLEAN,
           Feed(r, evs, wake), NEW d \in Client, Served(d), Untouched(d),
           \A q \in Run \ {r} : status'[q] = status[q],
           wake => status'[r] # "running",
           status[r] # "running" => status'[r] # "running",
           status[r] # "running" /\ status'[r] = "done" =>
               status[r] = "done" /\ Len(evs) = 0
    PROVE  Served(d)'
<1> USE DEF Untouched
<1>1. /\ Len(buffer[r]) \in Nat /\ Len(evs) \in Nat
      /\ Len(buffer'[r]) = Len(buffer[r]) + Len(evs)
      /\ \A q \in Run \ {r} : buffer'[q] = buffer[q]
  BY FeedFacts
<1>2. next[d] \in Nat /\ Len(queue[d]) \in Nat /\ queue[d] \in Seq(Nat)
  BY DEF TypeOK
<1>3. CASE ~(Registered(d) /\ run[d] = r)
  <2>1. queue'[d] = queue[d]
    BY <1>3, FeedFacts DEF Subscribers
  <2>2. CASE at[d] = "idle"
    BY <2>1, <2>2 DEF Served, InOrder, QueueOrdered, NothingLost, EndsOver
  <2>3. CASE at[d] # "idle" /\ run[d] # r
    <3>1. run[d] \in Run \ {r}
      BY <2>3 DEF Served, InOrder
    <3> QED BY <1>1, <2>1, <2>3, <3>1 DEF Served, InOrder, QueueOrdered, NothingLost, EndsOver
  <2>4. CASE at[d] # "idle" /\ run[d] = r
    <3>1. at[d] \in {"bound", "complete"} /\ queue[d] = <<>>
      BY <1>3, <2>4 DEF Served, InOrder, Registered, TypeOK, Places
    <3>2. InOrder(d)'
      BY <1>1, <1>2, <2>1, <2>4, <3>1 DEF Served, InOrder
    <3>3. EndsOver(d)'
      BY <1>1, <1>2, <2>4, <3>1 DEF Served, EndsOver
    <3> QED BY <2>1, <3>1, <3>2, <3>3 DEF Served, QueueOrdered, NothingLost
  <2> QED BY <2>2, <2>3, <2>4
<1>4. CASE Registered(d) /\ run[d] = r
  <2> DEFINE n == Len(queue[d])
             b == Len(buffer[r])
             e == Len(evs)
  <2>1. /\ Len(queue'[d]) = n + e + (IF wake THEN 1 ELSE 0)
        /\ \A i \in 1..n : queue'[d][i] = queue[d][i]
        /\ \A i \in 1..e : queue'[d][n + i] = b + i
        /\ wake => queue'[d][n + e + 1] = Sentinel
    <3>1. d \in Subscribers(r)
      BY <1>4 DEF Subscribers
    <3> QED BY <3>1, FedQueue
  <2>2. n \in Nat /\ b \in Nat /\ e \in Nat /\ Len(buffer'[r]) = b + e
    BY <1>1, <1>2
  <2> HIDE DEF n, b, e
  <2>3. ASSUME NEW i \in 1..Len(queue'[d])
        PROVE  \/ i \in 1..n /\ queue'[d][i] = queue[d][i]
               \/ i - n \in 1..e /\ queue'[d][i] = b + (i - n)
               \/ wake /\ i = n + e + 1 /\ queue'[d][i] = Sentinel
    <3>1. CASE i <= n
      BY <2>1, <2>2, <3>1
    <3>2. CASE i > n /\ i <= n + e
      <4>1. i - n \in 1..e /\ i = n + (i - n)
        BY <2>2, <3>2
      <4> QED BY <2>1, <4>1
    <3>3. CASE i > n + e
      BY <2>1, <2>2, <3>3
    <3> QED BY <2>2, <3>1, <3>2, <3>3
  <2>4. InOrder(d)'
    BY <1>2, <1>4, <2>2 DEF Served, InOrder, Registered, b
  <2>5. QueueOrdered(d)'
    <3>1. ASSUME NEW i \in 1..n
          PROVE  /\ queue[d][i] = Sentinel => status[r] # "running"
                 /\ queue[d][i] # Sentinel => queue[d][i] <= b
                 /\ queue[d][i] \in Nat
      BY <1>2, <1>4 DEF Served, QueueOrdered, n, b
    <3>2. ASSUME NEW i \in 1..Len(queue'[d])
          PROVE  IF queue'[d][i] = Sentinel
                 THEN status'[run'[d]] # "running"
                 ELSE queue'[d][i] <= Len(buffer'[run'[d]])
      BY <1>4, <2>2, <2>3, <3>1 DEF Sentinel
    <3>3. ASSUME NEW i \in 1..Len(queue'[d]), NEW j \in 1..Len(queue'[d]), i < j,
                 queue'[d][i] # Sentinel, queue'[d][j] # Sentinel
          PROVE  queue'[d][i] < queue'[d][j]
      <4>1. CASE j \in 1..n
        <5>1. i \in 1..n
          BY <2>2, <3>3, <4>1
        <5> QED BY <2>1, <3>3, <4>1, <5>1 DEF Served, QueueOrdered, n
      <4>2. CASE i \in 1..n /\ j - n \in 1..e
        <5>1. queue'[d][i] <= b /\ queue'[d][i] \in Nat
          BY <2>1, <3>1, <3>3, <4>2
        <5>2. queue'[d][j] = b + (j - n)
          BY <2>2, <2>3, <4>2
        <5> QED BY <2>2, <4>2, <5>1, <5>2
      <4>3. CASE i - n \in 1..e /\ j - n \in 1..e
        <5>1. queue'[d][i] = b + (i - n) /\ queue'[d][j] = b + (j - n)
          BY <2>2, <2>3, <4>3
        <5> QED BY <2>2, <3>3, <4>3, <5>1
      <4> QED BY <2>2, <2>3, <3>3, <4>1, <4>2, <4>3
    <3> QED BY <3>2, <3>3 DEF QueueOrdered
  <2>6. NothingLost(d)'
    <3> SUFFICES ASSUME at[d] = "live", NEW p \in (next[d] + 1)..(b + e)
                 PROVE  \E i \in 1..Len(queue'[d]) : queue'[d][i] = p
      BY <1>4, <2>2 DEF NothingLost
    <3>1. CASE p <= b
      <4>1. PICK i \in 1..n : queue[d][i] = p
        BY <1>2, <1>4, <2>2, <3>1 DEF Served, NothingLost, n, b
      <4>2. i \in 1..Len(queue'[d])
        BY <2>1, <2>2
      <4> QED BY <2>1, <4>1, <4>2
    <3>2. CASE p > b
      <4>1. p - b \in 1..e /\ b + (p - b) = p
        BY <1>2, <2>2, <3>2
      <4>2. n + (p - b) \in 1..Len(queue'[d])
        BY <2>1, <2>2, <4>1
      <4> QED BY <2>1, <4>1, <4>2
    <3> QED BY <1>2, <2>2, <3>1, <3>2
  <2>7. EndsOver(d)'
    BY <1>4 DEF Served, EndsOver, Registered
  <2> QED BY <2>4, <2>5, <2>6, <2>7 DEF Served
<1> QED BY <1>3, <1>4

-----------------------------------------------------------------------------
(***************************************************************************)
(* The invariant holds initially, and every step preserves it.             *)
(***************************************************************************)
\* Before any run is started.
LEMMA InitInvariant == Init => AInv
<1> SUFFICES ASSUME Init PROVE AInv
  OBVIOUS
<1> USE DEF Init
<1>1. TypeOK
  BY DEF TypeOK, Status, Tasks, Stages, Places, Run, NoRun
<1>2. TasksDrive /\ Barrier /\ DoneIsClosed /\ DoneMeansUnwound
  BY DEF TasksDrive, Barrier, DoneIsClosed, DoneMeansUnwound, Writing
<1>3. ASSUME NEW c \in Client PROVE Served(c)
  BY DEF Served, InOrder, QueueOrdered, NothingLost, EndsOver
<1> QED BY <1>1, <1>2, <1>3 DEF AInv

\* A response is bound: its client starts from nothing, the others go on.
LEMMA BindServes ==
    ASSUME TypeOK, NEW c \in Client, Served(c), NEW r \in Run, Bind(c, r),
           queue'[c] = queue[c], buffer' \in [Run -> Seq(Event)]
    PROVE  Served(c)'
<1>1. /\ at'[c] = "bound" /\ run'[c] = r /\ next'[c] = 0 /\ got'[c] = <<>>
      /\ queue[c] = <<>>
  BY DEF Bind, TypeOK, Served, InOrder
<1>2. 0 <= Len(buffer'[r])
  OBVIOUS
<1> QED BY <1>1, <1>2 DEF Served, InOrder, QueueOrdered, NothingLost, EndsOver

\* start: the predecessor is terminalized and its subscribers woken.
LEMMA StartKeeps == ASSUME AInv, NEW r \in Run, Start(r) PROVE AInv'
<1> USE DEF AInv
<1>1. current # NoRun => current \in Run
  BY DEF TypeOK
<1>2. TypeOK'
  <2> DEFINE BodiesTyped ==
        /\ at' \in [Client -> Places] /\ run' \in [Client -> Run \cup {NoRun}]
        /\ next' \in [Client -> Nat] /\ got' \in [Client -> Seq(Nat)]
  <2>1. BodiesTyped
    <3>1. CASE UNCHANGED <<at, run, next, got>>
      BY <3>1 DEF TypeOK
    <3>2. ASSUME NEW c \in Client, Bind(c, r) PROVE BodiesTyped
      BY <3>2 DEF Bind, TypeOK, Places
    <3> QED BY <3>1, <3>2 DEF Start
  <2>2. /\ current' \in Run \cup {NoRun} /\ timers' \in SUBSET Run
        /\ task' \in [Run -> Tasks] /\ terminal' \in SUBSET Run
        /\ generator' \in [Run -> Stages]
    BY DEF Start, TypeOK, Tasks
  <2>3. /\ buffer' \in [Run -> Seq(Event)] /\ queue' \in [Client -> Seq(Nat)]
        /\ status' \in [Run -> Status] /\ cancelling' \in SUBSET Run
        /\ prev' \in [Run -> Run \cup {NoRun}]
    <3>1. CASE Pending(current)
      <4>1. current \in Run /\ <<>> \in Seq(Event) /\ (~Over(current)) \in BOOLEAN
        BY <1>1, <3>1 DEF Pending
      <4>2. Feed(current, <<>>, ~Over(current))
        BY <3>1 DEF Start
      <4>3. buffer' \in [Run -> Seq(Event)] /\ queue' \in [Client -> Seq(Nat)]
        BY <4>1, <4>2, FeedFacts
      <4>4. status' \in [Run -> Status] /\ cancelling' \in SUBSET Run
        BY <3>1, <4>1 DEF Start, Replace, TypeOK, Status
      <4>5. prev' \in [Run -> Run \cup {NoRun}]
        BY <3>1, <4>1 DEF Start, TypeOK
      <4> QED BY <4>3, <4>4, <4>5
    <3>2. CASE ~Pending(current)
      BY <3>2 DEF Start, TypeOK
    <3> QED BY <3>1, <3>2
  <2> QED BY <2>1, <2>2, <2>3 DEF TypeOK
<1>3. buffer' = buffer
  <2>1. CASE Pending(current)
    <3>1. current \in Run /\ buffer[current] \in Seq(Event)
      BY <1>1, <2>1 DEF Pending, TypeOK
    <3>2. buffer[current] \o <<>> = buffer[current]
      BY <3>1
    <3>3. buffer' = [buffer EXCEPT ![current] = buffer[current] \o <<>>]
      BY <2>1 DEF Start, Feed
    <3>4. buffer' = [buffer EXCEPT ![current] = buffer[current]]
      BY ONLY <3>2, <3>3
    <3>5. buffer = [q \in Run |-> buffer[q]]
      BY DEF TypeOK
    <3> QED BY ONLY <3>1, <3>4, <3>5
  <2>2. CASE ~Pending(current)
    BY <2>2 DEF Start
  <2> QED BY <2>1, <2>2
<1>4. TasksDrive' /\ Barrier'
  <2>1. prev' \in [Run -> Run \cup {NoRun}] /\ \A q \in Run \ {r} : prev'[q] = prev[q]
    BY DEF Start, TypeOK
  <2>2. /\ task[r] = "none" /\ task'[r] = "created" /\ generator' = generator
        /\ \A q \in Run \ {r} : task'[q] = task[q]
    BY DEF Start, TypeOK
  <2>3. TasksDrive'
    BY <2>2 DEF TasksDrive
  <2>4. ASSUME NEW q \in Run, task'[q] = "draining" PROVE Clear(q)'
    <3>1. q # r /\ task[q] = "draining" /\ prev'[q] = prev[q]
      BY <2>1, <2>2, <2>4
    <3>2. prev[q] # NoRun => prev[q] \in Run /\ task[prev[q]] = "ended"
      BY <3>1 DEF Barrier, Clear, Pending, TypeOK
    <3>3. prev[q] # NoRun => task'[prev[q]] = "ended"
      BY <3>2, <2>2
    <3> QED BY <3>1, <3>3 DEF Clear, Pending
  <2> QED BY <2>3, <2>4 DEF Barrier
<1>5. DoneIsClosed' /\ DoneMeansUnwound'
  BY <1>3 DEF Start, Replace, DoneIsClosed, DoneMeansUnwound, TypeOK
<1>6. ASSUME NEW d \in Client PROVE Served(d)'
  <2>1. CASE Untouched(d)
    <3>1. CASE Pending(current)
      <4>1. current \in Run /\ <<>> \in Seq(Event) /\ (~Over(current)) \in BOOLEAN
        BY <1>1, <3>1 DEF Pending
      <4>2. Feed(current, <<>>, ~Over(current))
        BY <3>1 DEF Start
      <4>3. /\ \A q \in Run \ {current} : status'[q] = status[q]
            /\ status'[current] = IF Over(current) THEN status[current] ELSE "stopped"
        BY <3>1, <4>1 DEF Start, Replace, TypeOK
      <4>4. Len(<<>>) = 0
        OBVIOUS
      <4>5. /\ status'[current] # "running"
            /\ status'[current] = "done" => status[current] = "done"
        BY <4>3 DEF Over
      <4> QED BY <2>1, <4>1, <4>2, <4>3, <4>4, <4>5, FeedServes
    <3>2. CASE ~Pending(current)
      BY <2>1, <3>2, ServedStill DEF Start
    <3> QED BY <3>1, <3>2
  <2>2. CASE Bind(d, r)
    <3>1. queue'[d] = queue[d]
      BY <2>2 DEF Start, Feed, Subscribers, Registered, Bind
    <3> QED BY <1>2, <2>2, <3>1, BindServes DEF TypeOK
  <2>3. ASSUME NEW c \in Client, Bind(c, r), c # d PROVE Untouched(d)
    BY <2>3 DEF Bind, Untouched, TypeOK
  <2> QED BY <2>1, <2>2, <2>3 DEF Start, Untouched
<1> QED BY <1>2, <1>4, <1>5, <1>6

\* resume
LEMMA ResumeKeeps == ASSUME AInv, NEW c \in Client, Resume(c) PROVE AInv'
<1> USE DEF AInv
<1>1. current \in Run /\ Bind(c, current) /\ UNCHANGED <<registry, runs, queue>>
  BY DEF Resume, TypeOK
<1>2. TypeOK'
  BY <1>1 DEF Bind, TypeOK, Places, registry, runs
<1>3. TasksDrive' /\ Barrier' /\ DoneIsClosed' /\ DoneMeansUnwound'
  BY <1>1 DEF runs, TasksDrive, Barrier, DoneIsClosed, DoneMeansUnwound, Clear, Pending
<1>4. ASSUME NEW d \in Client PROVE Served(d)'
  <2>1. CASE d = c
    BY <1>1, <1>2, <2>1, BindServes DEF TypeOK
  <2>2. CASE d # c
    BY <1>1, <2>2, ServedStill DEF Bind, Untouched, runs
  <2> QED BY <2>1, <2>2
<1> QED BY <1>2, <1>3, <1>4

\* Steps that touch neither buffers, nor statuses, nor clients.
LEMMA QuietKeeps ==
    ASSUME AInv, UNCHANGED <<buffer, status, clients>>,
           TypeOK', TasksDrive', Barrier', DoneIsClosed', DoneMeansUnwound'
    PROVE  AInv'
<1>1. ASSUME NEW d \in Client PROVE Served(d)'
  BY ServedStill DEF AInv, clients, Untouched
<1> QED BY <1>1 DEF AInv

\* stop, and the steps of a task that publish nothing.
LEMMA StopKeeps == ASSUME AInv, Stop PROVE AInv'
<1> USE DEF AInv, Stop
<1>1. current \in Run
  BY DEF Pending, TypeOK
<1>2. TypeOK'
  BY <1>1 DEF TypeOK, registry, clients
<1>3. TasksDrive' /\ Barrier' /\ DoneIsClosed' /\ DoneMeansUnwound'
  BY DEF TasksDrive, Barrier, DoneIsClosed, DoneMeansUnwound, Clear, Pending
<1> QED BY <1>2, <1>3, QuietKeeps

\* The eviction timer fires: at most the registry forgets the run.
LEMMA EvictKeeps == ASSUME AInv, NEW r \in Run, EvictNow(r) PROVE AInv'
<1> USE DEF AInv, EvictNow
<1>1. TypeOK'
  BY DEF TypeOK, runs, clients
<1>2. TasksDrive' /\ Barrier' /\ DoneIsClosed' /\ DoneMeansUnwound'
  BY DEF TasksDrive, Barrier, DoneIsClosed, DoneMeansUnwound, Clear, Pending, runs
<1> QED BY <1>1, <1>2, QuietKeeps DEF runs

\* The steps of a task that publish nothing.
LEMMA BeginKeeps ==
    ASSUME AInv, NEW r \in Run, Begin(r) \/ PredecessorEnds(r)
    PROVE  AInv'
<1> USE DEF AInv
<1>1. /\ task[r] \in {"created", "waiting"}
      /\ UNCHANGED <<registry, buffer, status, cancelling, prev, terminal, clients>>
      /\ \/ Clear(r) /\ Move(r, "draining") /\ Turn(r, "active")
         \/ Move(r, "waiting") /\ UNCHANGED generator
  BY DEF Begin, PredecessorEnds
<1>2. TypeOK'
  BY <1>1 DEF Move, Turn, TypeOK, Tasks, Stages, registry, clients
<1>3. generator[r] = "unstarted"
  BY <1>1 DEF TasksDrive
<1>4. TasksDrive'
  BY <1>1, <1>3 DEF Move, Turn, TypeOK, TasksDrive, Writing
<1>5. Barrier'
  <2> SUFFICES ASSUME NEW q \in Run, task'[q] = "draining" PROVE Clear(q)'
    BY DEF Barrier
  <2>1. Clear(q)
    BY <1>1 DEF Move, TypeOK, Barrier
  <2>2. \A p \in Run : task[p] = "ended" => task'[p] = "ended"
    BY <1>1 DEF Move, TypeOK
  <2>3. prev'[q] = prev[q] /\ prev[q] \in Run \cup {NoRun}
    BY <1>1 DEF TypeOK
  <2> QED BY <2>1, <2>2, <2>3 DEF Clear, Pending
<1>6. DoneIsClosed' /\ DoneMeansUnwound'
  BY <1>1, <1>3 DEF Turn, TypeOK, DoneIsClosed, DoneMeansUnwound
<1> QED BY <1>1, <1>2, <1>4, <1>5, <1>6, QuietKeeps

\* A task that was cancelled before its first instruction ends.
LEMMA NeverBeginsKeeps == ASSUME AInv, NEW r \in Run, NeverBegins(r) PROVE AInv'
<1> USE DEF AInv, NeverBegins
<1>1. TypeOK'
  BY DEF Move, TypeOK, Tasks, registry, clients
<1>2. TasksDrive'
  BY DEF Move, TypeOK, TasksDrive, Writing
<1>3. Barrier'
  BY DEF Move, TypeOK, Barrier, Clear, Pending
<1>4. DoneIsClosed' /\ DoneMeansUnwound'
  BY DEF DoneIsClosed, DoneMeansUnwound
<1> QED BY <1>1, <1>2, <1>3, <1>4, QuietKeeps

\* The wait of a cancelled task for its predecessor ends.
LEMMA ShieldEndsKeeps == ASSUME AInv, NEW r \in Run, ShieldEnds(r) PROVE AInv'
<1> USE DEF AInv, ShieldEnds
<1>1. TypeOK'
  BY DEF Finish, Arm, Move, TypeOK, Tasks, clients
<1>2. TasksDrive'
  BY DEF Finish, Move, TypeOK, TasksDrive, Writing
<1>3. Barrier'
  BY DEF Finish, Move, TypeOK, Barrier, Clear, Pending
<1>4. DoneIsClosed' /\ DoneMeansUnwound'
  BY DEF DoneIsClosed, DoneMeansUnwound
<1> QED BY <1>1, <1>2, <1>3, <1>4, QuietKeeps

\* CancelledError reaches the generator, which starts to unwind.
LEMMA UnwindKeeps == ASSUME AInv, NEW r \in Run, Unwind(r) PROVE AInv'
<1> USE DEF AInv, Unwind
<1>1. TypeOK'
  BY DEF Turn, TypeOK, Stages, registry, clients
<1>2. TasksDrive'
  BY DEF Turn, TypeOK, TasksDrive, Writing
<1>3. Barrier'
  BY DEF Barrier, Clear, Pending
<1>4. DoneIsClosed' /\ DoneMeansUnwound'
  BY DEF Turn, TypeOK, DoneIsClosed, DoneMeansUnwound
<1> QED BY <1>1, <1>2, <1>3, <1>4, QuietKeeps

\* [DONE] is held back.
LEMMA DoneKeeps == ASSUME AInv, NEW r \in Run, Done(r) PROVE AInv'
<1> USE DEF AInv, Done, DoneHeldBack
<1>1. TypeOK'
  BY DEF TypeOK, registry
<1>2. TasksDrive' /\ Barrier' /\ DoneIsClosed' /\ DoneMeansUnwound'
  BY DEF TasksDrive, Barrier, DoneIsClosed, DoneMeansUnwound, Clear, Pending
<1> QED BY <1>1, <1>2, QuietKeeps DEF clients

-----------------------------------------------------------------------------
\* A publication by run r, whatever else its task does: its generator is being
\* run, or is closed before it was.
LEMMA PublishKeeps ==
    ASSUME AInv, NEW r \in Run, NEW evs \in Seq(Event), NEW wake \in BOOLEAN,
           Feed(r, evs, wake), UNCHANGED <<prev, at, run, next, got>>,
           generator[r] # "closed",
           \A q \in Run \ {r} : /\ status'[q] = status[q]
                                /\ generator'[q] = generator[q]
                                /\ task'[q] = task[q],
           wake => status'[r] # "running",
           status[r] # "running" => status'[r] # "running",
           status[r] # "running" => status'[r] # "done",
           status'[r] = "done" => generator'[r] = "closed",
           \A i \in 1..Len(evs) : evs[i] = "done" => generator'[r] = "closed",
           TypeOK', TasksDrive', task'[r] = "draining" => task[r] = "draining",
           task[r] # "ended"
    PROVE  AInv'
<1> USE DEF AInv
<1>1. status[r] # "done"
  BY DEF DoneIsClosed
<1>2. DoneIsClosed'
  BY DEF DoneIsClosed
<1>3. DoneMeansUnwound'
  <2> SUFFICES ASSUME NEW q \in Run, NEW i \in 1..Len(buffer'[q]), buffer'[q][i] = "done"
               PROVE  generator'[q] = "closed"
    BY DEF DoneMeansUnwound
  <2>1. CASE q # r
    BY <2>1, FeedFacts DEF DoneMeansUnwound
  <2>2. CASE q = r
    <3>1. /\ Len(buffer[r]) \in Nat /\ Len(evs) \in Nat
          /\ Len(buffer'[r]) = Len(buffer[r]) + Len(evs)
          /\ \A j \in 1..Len(buffer[r]) : buffer'[r][j] = buffer[r][j]
          /\ \A j \in 1..Len(evs) : buffer'[r][Len(buffer[r]) + j] = evs[j]
      BY FeedFacts
    <3>2. CASE i <= Len(buffer[r])
      BY <2>2, <3>1, <3>2 DEF DoneMeansUnwound
    <3>3. CASE i > Len(buffer[r])
      <4>1. i - Len(buffer[r]) \in 1..Len(evs)
            /\ i = Len(buffer[r]) + (i - Len(buffer[r]))
        BY <2>2, <3>1, <3>3
      <4> QED BY <2>2, <3>1, <4>1
    <3> QED BY <2>2, <3>1, <3>2, <3>3
  <2> QED BY <2>1, <2>2
<1>4. Barrier'
  <2> SUFFICES ASSUME NEW q \in Run, task'[q] = "draining" PROVE Clear(q)'
    BY DEF Barrier
  <2>1. Clear(q) /\ prev'[q] = prev[q] /\ prev[q] \in Run \cup {NoRun}
    BY DEF Barrier, TypeOK
  <2>2. \A p \in Run : task[p] = "ended" => task'[p] = "ended"
    OBVIOUS
  <2> QED BY <2>1, <2>2 DEF Clear, Pending
<1>5. ASSUME NEW d \in Client PROVE Served(d)'
  <2>1. Untouched(d)
    BY DEF Untouched
  <2> QED BY <1>1, <2>1, FeedServes
<1> QED BY <1>2, <1>3, <1>4, <1>5

\* What a publication needs of the types.
LEMMA PublishTypes ==
    ASSUME TypeOK, NEW r \in Run, NEW evs \in Seq(Event), NEW wake \in BOOLEAN,
           Feed(r, evs, wake), UNCHANGED <<current, prev, terminal, at, run, next, got>>,
           timers' \in SUBSET Run, cancelling' \in SUBSET Run,
           status' \in [Run -> Status], task' \in [Run -> Tasks],
           generator' \in [Run -> Stages]
    PROVE  TypeOK'
<1>1. buffer' \in [Run -> Seq(Event)] /\ queue' \in [Client -> Seq(Nat)]
  BY FeedFacts
<1> QED BY <1>1 DEF TypeOK

\* A task cancelled while it waits closes its generator unstarted and wakes
\* the clients: nothing is published after that.
LEMMA WaitCancelledKeeps == ASSUME AInv, NEW r \in Run, WaitCancelled(r) PROVE AInv'
<1> USE DEF AInv
<1>1. Feed(r, <<>>, TRUE) /\ <<>> \in Seq(Event) /\ Len(<<>>) = 0
  <2>1. <<>> \in Seq(Event) /\ Len(<<>>) = 0
    OBVIOUS
  <2> QED BY <2>1 DEF WaitCancelled
<1>2. /\ task[r] = "waiting" /\ generator[r] = "unstarted"
      /\ status' = [status EXCEPT ![r] = "stopped"]
      /\ generator' = [generator EXCEPT ![r] = "closed"]
      /\ task' \in {[task EXCEPT ![r] = "ended"], [task EXCEPT ![r] = "shielding"]}
      /\ UNCHANGED <<current, prev, terminal, at, run, next, got>>
      /\ cancelling' = cancelling \ {r}
      /\ timers' \in {timers, timers \cup {r}}
  BY DEF WaitCancelled, TasksDrive, Turn, Move, Finish, Arm
<1>3. /\ status' \in [Run -> Status] /\ task' \in [Run -> Tasks]
      /\ generator' \in [Run -> Stages]
      /\ timers' \in SUBSET Run /\ cancelling' \in SUBSET Run
  BY <1>2 DEF TypeOK, Status, Tasks, Stages
<1>4. TypeOK'
  BY <1>1, <1>2, <1>3, PublishTypes
<1>5. TasksDrive'
  BY <1>2 DEF TypeOK, TasksDrive, Writing
<1>6. /\ status'[r] = "stopped" /\ generator'[r] = "closed"
      /\ task'[r] # "draining"
      /\ \A q \in Run \ {r} : /\ status'[q] = status[q]
                              /\ generator'[q] = generator[q]
                              /\ task'[q] = task[q]
  BY <1>2 DEF TypeOK
<1> QED BY <1>1, <1>2, <1>4, <1>5, <1>6, PublishKeeps

\* An event is published by a generator that is being run.
LEMMA TextKeeps == ASSUME AInv, NEW r \in Run, Text(r) PROVE AInv'
<1> USE DEF AInv
<1>1. /\ Feed(r, <<"text">>, FALSE) /\ <<"text">> \in Seq(Event)
      /\ Len(<<"text">>) = 1 /\ <<"text">>[1] = "text"
  <2>1. "text" \in Event
    BY DEF Event
  <2>2. <<"text">> \in Seq(Event) /\ Len(<<"text">>) = 1 /\ <<"text">>[1] = "text"
    BY <2>1
  <2> QED BY <2>2 DEF Text
<1>2. /\ generator[r] = "active" /\ task[r] = "draining"
      /\ UNCHANGED <<registry, status, task, cancelling, prev, terminal, generator,
                     at, run, next, got>>
  BY DEF Text, TasksDrive, Writing
<1>3. TypeOK'
  BY <1>1, <1>2, PublishTypes DEF registry, TypeOK
<1>4. TasksDrive'
  BY <1>2 DEF TasksDrive
<1>5. status[r] # "done"
  BY <1>2 DEF DoneIsClosed
<1>6. \A i \in 1..Len(<<"text">>) : <<"text">>[i] = "done" => generator'[r] = "closed"
  BY <1>1
<1> QED BY ONLY AInv, r \in Run, <1>1, <1>2, <1>3, <1>4, <1>5, <1>6, PublishKeeps

\* A task that ends with its generator.
LEMMA EndKeeps ==
    ASSUME AInv, NEW r \in Run, NEW evs \in Seq(Event), NEW s \in {"error", "done", "stopped"},
           generator[r] \in Writing, status[r] # "running" => s # "done",
           Turn(r, "closed"), status' = [status EXCEPT ![r] = s],
           Feed(r, evs, TRUE), Finish(r),
           UNCHANGED <<current, cancelling, prev, terminal, at, run, next, got>>
    PROVE  AInv'
<1> USE DEF AInv
<1>1. /\ task[r] = "draining"
      /\ generator' = [generator EXCEPT ![r] = "closed"]
      /\ task' = [task EXCEPT ![r] = "ended"]
      /\ timers' \in {timers, timers \cup {r}}
  BY DEF TasksDrive, Turn, Finish, Move, Arm
<1>2. /\ status' \in [Run -> Status] /\ task' \in [Run -> Tasks]
      /\ generator' \in [Run -> Stages]
      /\ timers' \in SUBSET Run /\ cancelling' \in SUBSET Run
  BY <1>1 DEF TypeOK, Status, Tasks, Stages
<1>3. TypeOK'
  BY <1>2, PublishTypes
<1>4. TasksDrive'
  BY <1>1 DEF TypeOK, TasksDrive, Writing
<1>5. /\ status'[r] = s /\ generator'[r] = "closed" /\ task'[r] = "ended"
      /\ \A q \in Run \ {r} : /\ status'[q] = status[q]
                              /\ generator'[q] = generator[q]
                              /\ task'[q] = task[q]
  BY <1>1 DEF TypeOK
<1>6. generator[r] # "closed"
  BY DEF Writing
<1> QED BY <1>1, <1>3, <1>4, <1>5, <1>6, PublishKeeps

\* The generator is exhausted: the terminal event held back comes last.
LEMMA ExhaustedKeeps == ASSUME AInv, NEW r \in Run, Exhausted(r) PROVE AInv'
<1> DEFINE evs == IF r \in terminal THEN <<"done">> ELSE <<>>
           s   == IF Over(r) THEN status[r] ELSE "done"
<1>1. evs \in Seq(Event)
  <2>1. "done" \in Event
    BY DEF Event
  <2>2. <<"done">> \in Seq(Event) /\ <<>> \in Seq(Event)
    BY <2>1
  <2> QED BY <2>2
<1>2. generator[r] \in Writing /\ generator[r] # "closed"
  BY DEF Exhausted, Writing
<1>3. status[r] \in Status /\ status[r] # "done"
  BY <1>2 DEF AInv, DoneIsClosed, TypeOK
<1>4. s \in {"error", "done", "stopped"} /\ (status[r] # "running" => s # "done")
  BY <1>3 DEF Over, Status
<1>5. /\ Turn(r, "closed") /\ status' = [status EXCEPT ![r] = s]
      /\ Feed(r, evs, TRUE) /\ Finish(r)
      /\ UNCHANGED <<current, cancelling, prev, terminal, at, run, next, got>>
  BY DEF Exhausted, AInv, TypeOK
<1> HIDE DEF evs, s
<1> QED BY <1>1, <1>2, <1>4, <1>5, EndKeeps

\* The generator fails: an error event and [DONE] come last.
LEMMA FailsKeeps == ASSUME AInv, NEW r \in Run, Fails(r) PROVE AInv'
<1>1. <<"error", "done">> \in Seq(Event) /\ generator[r] \in Writing
  BY DEF Event, Fails, Writing
<1>2. /\ Turn(r, "closed") /\ status' = [status EXCEPT ![r] = "error"]
      /\ Feed(r, <<"error", "done">>, TRUE) /\ Finish(r)
      /\ UNCHANGED <<current, cancelling, prev, terminal, at, run, next, got>>
  BY DEF Fails
<1> QED BY <1>1, <1>2, EndKeeps

\* The generator of a cancelled run has unwound: its clients are woken.
LEMMA UnwoundKeeps == ASSUME AInv, NEW r \in Run, Unwound(r) PROVE AInv'
<1>1. <<>> \in Seq(Event) /\ generator[r] \in Writing
  BY DEF Unwound, Writing
<1>2. /\ Turn(r, "closed") /\ status' = [status EXCEPT ![r] = "stopped"]
      /\ Feed(r, <<>>, TRUE) /\ Finish(r)
      /\ UNCHANGED <<current, cancelling, prev, terminal, at, run, next, got>>
  BY DEF Unwound
<1> QED BY <1>1, <1>2, EndKeeps

-----------------------------------------------------------------------------
(***************************************************************************)
(* The steps of a client.                                                  *)
(***************************************************************************)
\* Only the client moves.
LEMMA BodyKeeps ==
    ASSUME AInv, NEW c \in Client, UNCHANGED runs, TypeOK', Served(c)',
           \A d \in Client \ {c} : Untouched(d) /\ queue'[d] = queue[d]
    PROVE  AInv'
<1> USE DEF AInv
<1>1. TasksDrive' /\ Barrier' /\ DoneIsClosed' /\ DoneMeansUnwound'
  BY DEF runs, TasksDrive, Barrier, DoneIsClosed, DoneMeansUnwound, Clear, Pending
<1>2. ASSUME NEW d \in Client \ {c} PROVE Served(d)'
  BY ServedStill DEF runs
<1> QED BY <1>1, <1>2

\* A client registers its queue before it replays.
LEMMA AttachKeeps == ASSUME AInv, NEW c \in Client, Attach(c) PROVE AInv'
<1> USE DEF Attach, Step
<1>1. TypeOK'
  BY DEF AInv, TypeOK, Places, runs
<1>2. Served(c)'
  BY DEF AInv, TypeOK, runs, Served, InOrder, QueueOrdered, NothingLost, EndsOver
<1>3. ASSUME NEW d \in Client \ {c} PROVE Untouched(d) /\ queue'[d] = queue[d]
  BY DEF AInv, TypeOK, Untouched
<1> QED BY <1>1, <1>2, <1>3, BodyKeeps

\* A client that yields the event after the last one it has counted.
LEMMA YieldCounts ==
    ASSUME TypeOK, NEW c \in Client, InOrder(c), Yield(c, next[c] + 1)
    PROVE  /\ got' \in [Client -> Seq(Nat)] /\ next' \in [Client -> Nat]
           /\ next'[c] = next[c] + 1
           /\ got'[c] = [i \in 1..next'[c] |-> i]
           /\ \A d \in Client \ {c} : next'[d] = next[d] /\ got'[d] = got[d]
<1>1. next[c] \in Nat /\ got[c] \in Seq(Nat) /\ next[c] + 1 \in Nat
  BY DEF TypeOK
<1>2. next' = [next EXCEPT ![c] = next[c] + 1]
  BY DEF Yield
<1>3. got' = [got EXCEPT ![c] = Append(got[c], next[c] + 1)]
  BY DEF Yield
<1>4. Append(got[c], next[c] + 1) \in Seq(Nat)
  BY <1>1
<1>5. Append(got[c], next[c] + 1) = [i \in 1..(next[c] + 1) |-> i]
  BY <1>1, CountOn DEF InOrder
<1>6. got'[c] = [i \in 1..(next[c] + 1) |-> i] /\ next'[c] = next[c] + 1
  BY <1>2, <1>3, <1>5 DEF TypeOK
<1> QED BY <1>1, <1>2, <1>3, <1>4, <1>6 DEF TypeOK

\* Replay and flush: the next event comes from the buffer.
LEMMA ReplayKeeps == ASSUME AInv, NEW c \in Client, Replay(c) \/ Flush(c) PROVE AInv'
<1>1. /\ at[c] \in {"replay", "flush"} /\ More(c) /\ Yield(c, next[c] + 1)
      /\ UNCHANGED <<registry, runs, at, run, queue>>
  BY DEF Replay, Flush
<1>2. /\ TypeOK /\ InOrder(c) /\ next[c] \in Nat /\ Len(buffer[run[c]]) \in Nat
  BY <1>1 DEF AInv, Served, InOrder, TypeOK
<1>3. /\ got' \in [Client -> Seq(Nat)] /\ next' \in [Client -> Nat]
      /\ next'[c] = next[c] + 1
      /\ got'[c] = [i \in 1..next'[c] |-> i]
      /\ \A d \in Client \ {c} : next'[d] = next[d] /\ got'[d] = got[d]
  BY <1>1, <1>2, YieldCounts
<1>4. TypeOK'
  BY <1>1, <1>2, <1>3 DEF TypeOK, registry, runs
<1>5. Served(c)'
  <2>1. InOrder(c)'
    BY <1>1, <1>2, <1>3 DEF InOrder, More, runs
  <2>2. QueueOrdered(c)' /\ NothingLost(c)' /\ EndsOver(c)'
    BY <1>1 DEF AInv, Served, QueueOrdered, NothingLost, EndsOver, runs
  <2> QED BY <2>1, <2>2 DEF Served
<1>6. ASSUME NEW d \in Client \ {c} PROVE Untouched(d) /\ queue'[d] = queue[d]
  BY <1>1, <1>3 DEF Untouched
<1> QED BY <1>1, <1>4, <1>5, <1>6, BodyKeeps

\* A client leaves, or its response is complete.
LEMMA DetachKeeps ==
    ASSUME AInv, NEW c \in Client, NEW there \in {"idle", "complete"},
           Detach(c, there), UNCHANGED <<current, runs, run, next, got>>,
           Registered(c),
           there = "complete" => Over(run[c]) /\ ~More(c)
    PROVE  AInv'
<1>1. run[c] \in Run /\ next[c] \in Nat /\ next[c] <= Len(buffer[run[c]])
      /\ Len(buffer[run[c]]) \in Nat
  BY DEF AInv, Served, InOrder, Registered, TypeOK
<1>2. TypeOK'
  BY <1>1 DEF Detach, Step, Arm, AInv, TypeOK, Places, runs
<1>3. at'[c] = there /\ queue'[c] = <<>> /\ next'[c] = next[c]
  BY DEF Detach, Step, AInv, TypeOK
<1>4. Served(c)'
  BY <1>1, <1>3 DEF AInv, Served, InOrder, QueueOrdered, NothingLost, EndsOver, Over, More, runs
<1>5. ASSUME NEW d \in Client \ {c} PROVE Untouched(d) /\ queue'[d] = queue[d]
  BY DEF Detach, Step, AInv, TypeOK, Untouched
<1> QED BY <1>2, <1>4, <1>5, BodyKeeps

\* The tail has been flushed: the response is complete.
LEMMA FlushEndsKeeps == ASSUME AInv, NEW c \in Client, FlushEnds(c) PROVE AInv'
<1>1. Over(run[c])
  BY DEF FlushEnds, AInv, Served, EndsOver, Over
<1> QED BY <1>1, DetachKeeps DEF FlushEnds, Registered

\* The client disconnects, before or after its first iteration.
LEMMA DisconnectKeeps == ASSUME AInv, NEW c \in Client, Disconnect(c) PROVE AInv'
<1>1. CASE Registered(c) /\ Detach(c, "idle")
  BY <1>1, DetachKeeps DEF Disconnect
<1>2. CASE at[c] = "bound" /\ Step(c, "idle") /\ UNCHANGED <<queue, timers>>
  <2>1. UNCHANGED <<current, runs, run, next, got>>
    BY DEF Disconnect
  <2>2. TypeOK'
    BY <1>2, <2>1 DEF Step, AInv, TypeOK, Places, runs
  <2>3. Served(c)'
    BY <1>2, <2>1 DEF Step, AInv, TypeOK, runs, Served, InOrder, QueueOrdered, NothingLost, EndsOver
  <2>4. ASSUME NEW d \in Client \ {c} PROVE Untouched(d) /\ queue'[d] = queue[d]
    BY <1>2, <2>1 DEF Step, AInv, TypeOK, Untouched
  <2> QED BY <2>1, <2>2, <2>3, <2>4, BodyKeeps
<1> QED BY <1>1, <1>2 DEF Disconnect

\* The heartbeat finds the run over.
LEMMA TimesOutKeeps == ASSUME AInv, NEW c \in Client, TimesOut(c) PROVE AInv'
<1> USE DEF TimesOut, Step
<1>1. TypeOK'
  BY DEF AInv, TypeOK, Places, registry, runs
<1>2. Served(c)'
  BY DEF AInv, TypeOK, runs, Served, InOrder, QueueOrdered, NothingLost, EndsOver, Over
<1>3. ASSUME NEW d \in Client \ {c} PROVE Untouched(d) /\ queue'[d] = queue[d]
  BY DEF AInv, TypeOK, Untouched
<1> QED BY <1>1, <1>2, <1>3, BodyKeeps

\* All that was in the buffer is replayed: the client goes live with nothing
\* left behind, or is complete.
LEMMA ReplayEndsKeeps == ASSUME AInv, NEW c \in Client, ReplayEnds(c) PROVE AInv'
<1>1. CASE Over(run[c])
  BY <1>1, DetachKeeps DEF ReplayEnds, Registered
<1>2. CASE ~Over(run[c])
  <2>1. /\ at[c] = "replay" /\ ~More(c) /\ Step(c, "live")
        /\ UNCHANGED <<queue, timers, current, runs, run, next, got>>
    BY <1>2 DEF ReplayEnds
  <2>2. TypeOK'
    BY <2>1 DEF Step, AInv, TypeOK, Places, runs
  <2>3. next[c] \in Nat /\ Len(buffer[run[c]]) \in Nat /\ next[c] >= Len(buffer[run[c]])
    BY <2>1 DEF AInv, TypeOK, More, Served, InOrder
  <2>4. Served(c)'
    BY <2>1, <2>3 DEF Step, AInv, TypeOK, runs, Served, InOrder, QueueOrdered, NothingLost, EndsOver
  <2>5. ASSUME NEW d \in Client \ {c} PROVE Untouched(d) /\ queue'[d] = queue[d]
    BY <2>1 DEF Step, AInv, TypeOK, Untouched
  <2> QED BY <2>1, <2>2, <2>4, <2>5, BodyKeeps
<1> QED BY <1>1, <1>2

\* What comes first in a live subscriber's queue and was not replayed is the
\* very next event.
LEMMA TakesNext ==
    ASSUME AInv, NEW c \in Client, at[c] = "live", queue[c] # <<>>,
           Head(queue[c]) # Sentinel, Fresh(c, Head(queue[c]))
    PROVE  Head(queue[c]) = next[c] + 1 /\ next[c] + 1 <= Len(buffer[run[c]])
<1> DEFINE q == queue[c]
           b == Len(buffer[run[c]])
<1>1. q \in Seq(Nat) /\ Len(q) \in Nat /\ 1 \in 1..Len(q) /\ Head(q) = q[1]
  BY DEF AInv, TypeOK
<1>2. next[c] \in Nat /\ b \in Nat /\ q[1] \in Nat
  BY <1>1 DEF AInv, TypeOK, Served, InOrder
<1>3. q[1] # Sentinel /\ q[1] > next[c]
  BY <1>1 DEF Fresh
<1>4. q[1] <= b
  BY <1>1, <1>3 DEF AInv, Served, QueueOrdered
<1>5. next[c] + 1 \in (next[c] + 1)..b
  BY <1>2, <1>3, <1>4
<1>6. PICK i \in 1..Len(q) : q[i] = next[c] + 1
  BY <1>5 DEF AInv, Served, NothingLost
<1>7. q[i] # Sentinel
  BY <1>2, <1>6 DEF Sentinel
<1>8. i > 1 => q[1] < q[i]
  BY <1>1, <1>3, <1>7 DEF AInv, Served, QueueOrdered
<1>9. i = 1
  BY <1>1, <1>2, <1>3, <1>6, <1>8
<1> QED BY <1>1, <1>2, <1>5, <1>6, <1>9

\* A live client takes the head of its queue: what it skips was replayed, and
\* what it has not yielded stays in the queue.
LEMMA TakeKeeps == ASSUME AInv, NEW c \in Client, Take(c) PROVE AInv'
<1> DEFINE p == Head(queue[c])
           b == Len(buffer[run[c]])
<1>1. /\ at[c] = "live" /\ queue[c] # <<>>
      /\ queue' = [queue EXCEPT ![c] = Tail(queue[c])]
      /\ IF p = Sentinel THEN Step(c, "flush") ELSE UNCHANGED at
      /\ IF p # Sentinel /\ Fresh(c, p) THEN Yield(c, p) ELSE UNCHANGED <<next, got>>
      /\ UNCHANGED <<registry, runs, run>>
  BY DEF Take
<1>2. /\ queue[c] \in Seq(Nat) /\ Len(queue[c]) \in Nat /\ Len(queue[c]) >= 1
      /\ p = queue[c][1] /\ p \in Nat
      /\ Tail(queue[c]) \in Seq(Nat) /\ Len(Tail(queue[c])) = Len(queue[c]) - 1
      /\ \A i \in 1..(Len(queue[c]) - 1) : Tail(queue[c])[i] = queue[c][i + 1]
  BY <1>1 DEF AInv, TypeOK
<1>3. /\ TypeOK /\ Served(c) /\ InOrder(c) /\ next[c] \in Nat /\ b \in Nat /\ run[c] \in Run
      /\ next[c] <= b
  BY <1>1 DEF AInv, Served, InOrder, TypeOK
<1>4. /\ got' \in [Client -> Seq(Nat)] /\ next' \in [Client -> Nat]
      /\ got'[c] = [i \in 1..next'[c] |-> i]
      /\ next'[c] <= b /\ next'[c] >= next[c]
      /\ p # Sentinel => next'[c] >= p
      /\ p = Sentinel => next'[c] = next[c]
      /\ \A d \in Client \ {c} : next'[d] = next[d] /\ got'[d] = got[d]
  <2>1. CASE p # Sentinel /\ Fresh(c, p)
    <3>1. p = next[c] + 1 /\ next[c] + 1 <= b
      BY <1>1, <2>1, TakesNext
    <3>2. Yield(c, next[c] + 1)
      BY <1>1, <2>1, <3>1
    <3> HIDE DEF p, b
    <3> QED BY <1>3, <2>1, <3>1, <3>2, YieldCounts
  <2>2. CASE ~(p # Sentinel /\ Fresh(c, p))
    <3>1. UNCHANGED <<next, got>>
      BY <1>1, <2>2
    <3>2. p # Sentinel => next[c] >= p
      BY <1>2, <1>3, <2>2 DEF Fresh
    <3> QED BY <1>3, <2>2, <3>1, <3>2 DEF TypeOK, InOrder
  <2> QED BY <2>1, <2>2
<1>5. at' \in [Client -> Places] /\ at'[c] = (IF p = Sentinel THEN "flush" ELSE "live")
      /\ \A d \in Client \ {c} : at'[d] = at[d]
  BY <1>1, <1>3 DEF Step, TypeOK, Places
<1>6. queue' \in [Client -> Seq(Nat)] /\ queue'[c] = Tail(queue[c])
      /\ \A d \in Client \ {c} : queue'[d] = queue[d]
  BY <1>1, <1>2, <1>3 DEF TypeOK
<1>7. TypeOK'
  BY <1>1, <1>3, <1>4, <1>5, <1>6 DEF TypeOK, registry, runs
<1>8. Served(c)'
  <2>1. InOrder(c)'
    BY <1>1, <1>3, <1>4, <1>5 DEF InOrder, runs
  <2>2. QueueOrdered(c)'
    <3>1. ASSUME NEW i \in 1..Len(queue'[c])
          PROVE  i + 1 \in 1..Len(queue[c]) /\ queue'[c][i] = queue[c][i + 1]
      BY <1>2, <1>6
    <3>2. \A i \in 1..Len(queue'[c]) :
            IF queue'[c][i] = Sentinel THEN status[run[c]] # "running"
            ELSE queue'[c][i] <= Len(buffer[run[c]])
      BY <1>3, <3>1 DEF Served, QueueOrdered
    <3>3. \A i, j \in 1..Len(queue'[c]) :
            i < j /\ queue'[c][i] # Sentinel /\ queue'[c][j] # Sentinel =>
                queue'[c][i] < queue'[c][j]
      <4> SUFFICES ASSUME NEW i \in 1..Len(queue'[c]), NEW j \in 1..Len(queue'[c]), i < j,
                          queue'[c][i] # Sentinel, queue'[c][j] # Sentinel
                   PROVE  queue'[c][i] < queue'[c][j]
        OBVIOUS
      <4>1. /\ i + 1 \in 1..Len(queue[c]) /\ j + 1 \in 1..Len(queue[c]) /\ i + 1 < j + 1
            /\ queue'[c][i] = queue[c][i + 1] /\ queue'[c][j] = queue[c][j + 1]
        BY <3>1
      <4> QED BY <1>3, <4>1 DEF Served, QueueOrdered
    <3> QED BY <1>1, <3>2, <3>3 DEF QueueOrdered, runs
  <2>3. NothingLost(c)'
    <3> SUFFICES ASSUME at'[c] = "live", NEW x \in (next'[c] + 1)..b
                 PROVE  \E i \in 1..Len(queue'[c]) : queue'[c][i] = x
      BY <1>1 DEF NothingLost, runs
    <3>1. p # Sentinel /\ x \in (next[c] + 1)..b /\ x # p
      BY <1>2, <1>3, <1>4, <1>5
    <3>2. PICK i \in 1..Len(queue[c]) : queue[c][i] = x
      BY <1>1, <1>3, <3>1 DEF Served, NothingLost
    <3>3. i # 1 /\ i - 1 \in 1..(Len(queue[c]) - 1)
      BY <1>2, <3>1, <3>2
    <3>4. queue'[c][i - 1] = x /\ i - 1 \in 1..Len(queue'[c])
      BY <1>2, <1>6, <3>2, <3>3
    <3> QED BY <3>4
  <2>4. EndsOver(c)'
    <3>1. p = Sentinel => status[run[c]] # "running"
      BY <1>2, <1>3 DEF Served, QueueOrdered
    <3> QED BY <1>1, <1>5, <3>1 DEF EndsOver, runs
  <2> QED BY <2>1, <2>2, <2>3, <2>4 DEF Served
<1>9. ASSUME NEW d \in Client \ {c} PROVE Untouched(d) /\ queue'[d] = queue[d]
  BY <1>1, <1>4, <1>5, <1>6 DEF Untouched
<1> QED BY <1>1, <1>7, <1>8, <1>9, BodyKeeps

-----------------------------------------------------------------------------
(***************************************************************************)
(* The theorems.                                                           *)
(***************************************************************************)
\* Every step of the specification, and every stutter, preserves the invariant.
LEMMA NextKeeps == ASSUME AInv, [Next]_vars PROVE AInv'
<1>1. ASSUME UNCHANGED vars PROVE AInv'
  <2>1. TypeOK' /\ TasksDrive' /\ Barrier' /\ DoneIsClosed' /\ DoneMeansUnwound'
    BY <1>1 DEF vars, registry, runs, clients, AInv, TypeOK, TasksDrive, Barrier,
                DoneIsClosed, DoneMeansUnwound, Clear, Pending
  <2> QED BY <1>1, <2>1, QuietKeeps DEF vars, runs
<1>2. ASSUME NEW r \in Run, Start(r) \/ TaskStep(r) \/ Yields(r) \/ EvictNow(r) PROVE AInv'
  BY <1>2, StartKeeps, BeginKeeps, NeverBeginsKeeps, WaitCancelledKeeps, ShieldEndsKeeps,
     UnwindKeeps, UnwoundKeeps, TextKeeps, DoneKeeps, ExhaustedKeeps, FailsKeeps, EvictKeeps
     DEF TaskStep, Yields
<1>3. ASSUME NEW c \in Client, Resume(c) \/ BodyStep(c) \/ Disconnect(c) PROVE AInv'
  BY <1>3, ResumeKeeps, AttachKeeps, ReplayKeeps, ReplayEndsKeeps, TakeKeeps, TimesOutKeeps,
     FlushEndsKeeps, DisconnectKeeps DEF BodyStep
<1> QED BY <1>1, <1>2, <1>3, StopKeeps DEF Next

\* The inductive invariant holds in every reachable state.
THEOREM RunsInvariant == Spec => []AInv
<1>1. Init => AInv
  BY InitInvariant
<1>2. AInv /\ [Next]_vars => AInv'
  BY NextKeeps
<1> QED BY <1>1, <1>2, PTL DEF Spec

\* Every variable stays in its domain.
THEOREM RunsTypeCorrect == Spec => []TypeOK
<1>1. AInv => TypeOK
  BY DEF AInv
<1> QED BY <1>1, RunsInvariant, PTL

\* [DONE] reaches the buffer, and so a client, only after the generator has
\* unwound (agent_runs.py:139-145).
THEOREM DoneUnwound == Spec => []DoneMeansUnwound
<1>1. AInv => DoneMeansUnwound
  BY DEF AInv
<1> QED BY <1>1, RunsInvariant, PTL

\* No run writes while the run it replaced still does (agent_runs.py:130-133).
THEOREM BarrierHolds == Spec => []PredecessorUnwound
<1>1. AInv => PredecessorUnwound
  BY DEF AInv, TypeOK, TasksDrive, Barrier, Clear, Pending, PredecessorUnwound, Writing
<1> QED BY <1>1, RunsInvariant, PTL

\* Replay and live events together give each client the events of its run in
\* order, and all of them if the run is done (agent_runs.py:212-222).
THEOREM NoneMissed == Spec => []NothingMissed
<1>1. ASSUME AInv, NEW c \in Client
      PROVE  /\ got[c] = [i \in 1..Len(got[c]) |-> i]
             /\ at[c] = "complete" /\ status[run[c]] = "done" =>
                   Len(got[c]) = Len(buffer[run[c]])
  <2>1. next[c] \in Nat /\ got[c] = [i \in 1..next[c] |-> i]
    BY <1>1 DEF AInv, TypeOK, Served, InOrder
  <2>2. Len(got[c]) = next[c]
    BY <2>1
  <2> QED BY <1>1, <2>1, <2>2 DEF AInv, Served, EndsOver
<1>2. AInv => NothingMissed
  BY <1>1 DEF NothingMissed
<1> QED BY <1>2, RunsInvariant, PTL

-----------------------------------------------------------------------------
(***************************************************************************)
(* The end of a run reaches every client that follows it.                  *)
(***************************************************************************)

\* Who is live follows the run it followed before, and was live.
LiveStays(d) == at'[d] = "live" => at[d] = "live" /\ run'[d] = run[d]

LEMMA AnnouncedStill ==
    ASSUME NEW d \in Client, Announced(d), LiveStays(d), queue'[d] = queue[d],
           status'[run[d]] = status[run[d]]
    PROVE  Announced(d)'
  BY DEF Announced, LiveStays

\* A run that ends with this publication wakes its subscribers.
LEMMA FeedAnnounces ==
    ASSUME AInv, NEW r \in Run, NEW evs \in Seq(Event), NEW wake \in BOOLEAN,
           Feed(r, evs, wake), \A q \in Run \ {r} : status'[q] = status[q],
           status'[r] # "running" => wake \/ status[r] # "running",
           NEW d \in Client, Announced(d), LiveStays(d)
    PROVE  Announced(d)'
<1>1. TypeOK /\ (at[d] = "live" => run[d] \in Run)
  BY DEF AInv, Served, InOrder
<1>2. CASE d \notin Subscribers(r)
  <2>1. queue'[d] = queue[d]
    BY <1>1, <1>2, FeedFacts
  <2>2. at[d] = "live" => run[d] \in Run \ {r}
    BY <1>1, <1>2 DEF Subscribers, Registered
  <2> QED BY <2>1, <2>2 DEF Announced, LiveStays
<1>3. CASE d \in Subscribers(r)
  <2> DEFINE n == Len(queue[d])
             e == Len(evs)
  <2>0. n \in Nat /\ e \in Nat
    BY <1>1 DEF TypeOK
  <2>1. /\ Len(queue'[d]) = n + e + (IF wake THEN 1 ELSE 0)
        /\ \A i \in 1..n : queue'[d][i] = queue[d][i]
        /\ wake => queue'[d][n + e + 1] = Sentinel
    BY <1>1, <1>3, FedQueue
  <2>2. run[d] = r
    BY <1>3 DEF Subscribers
  <2> SUFFICES ASSUME at'[d] = "live", status'[run'[d]] # "running"
               PROVE  \E i \in 1..Len(queue'[d]) : queue'[d][i] = Sentinel
    BY DEF Announced
  <2>3. at[d] = "live" /\ run'[d] = r
    BY <2>2 DEF LiveStays
  <2> HIDE DEF n, e
  <2>4. CASE wake
    <3>1. n + e + 1 \in 1..Len(queue'[d])
      BY <2>0, <2>1, <2>4
    <3> QED BY <2>1, <2>4, <3>1
  <2>5. CASE ~wake
    <3>1. PICK i \in 1..n : queue[d][i] = Sentinel
      BY <2>2, <2>3, <2>5 DEF Announced, n
    <3>2. Len(queue'[d]) = n + e
      BY <2>0, <2>1, <2>5
    <3>3. i \in 1..Len(queue'[d])
      BY <2>0, <3>1, <3>2
    <3>4. queue'[d][i] = Sentinel
      BY <2>1, <3>1
    <3> QED BY <3>3, <3>4
  <2> QED BY <2>4, <2>5
<1> QED BY <1>2, <1>3

\* A client that binds anew is not live.
LEMMA BindStays == ASSUME TypeOK, NEW r, NEW c \in Client, Bind(c, r), NEW d \in Client PROVE LiveStays(d)
BY DEF Bind, TypeOK, LiveStays

LEMMA StartAnnounces ==
    ASSUME AInv, NEW r \in Run, Start(r), NEW d \in Client, Announced(d)
    PROVE  Announced(d)'
<1>1. TypeOK
  BY DEF AInv
<1>2. LiveStays(d)
  BY <1>1, BindStays DEF Start, LiveStays
<1>3. CASE Pending(current)
  <2>0. <<>> \in Seq(Event) /\ (~Over(current)) \in BOOLEAN
    OBVIOUS
  <2>1. /\ current \in Run
        /\ Feed(current, <<>>, ~Over(current))
        /\ status' = [status EXCEPT ![current] = IF Over(current) THEN @ ELSE "stopped"]
    BY <1>1, <1>3 DEF Start, Replace, Pending, TypeOK
  <2>2. \A q \in Run \ {current} : status'[q] = status[q]
    BY <1>1, <2>1 DEF TypeOK
  <2>3. ~Over(current) \/ status[current] # "running"
    BY DEF Over
  <2> QED BY <1>2, <2>0, <2>1, <2>2, <2>3, FeedAnnounces
<1>4. CASE ~Pending(current)
  BY <1>2, <1>4, AnnouncedStill DEF Start
<1> QED BY <1>3, <1>4

LEMMA RunAnnounces ==
    ASSUME AInv, NEW r \in Run, TaskStep(r) \/ Yields(r) \/ EvictNow(r),
           NEW d \in Client, Announced(d)
    PROVE  Announced(d)'
<1>1. TypeOK
  BY DEF AInv
<1>2. LiveStays(d)
  BY DEF TaskStep, Yields, EvictNow, Begin, NeverBegins, PredecessorEnds, WaitCancelled,
         ShieldEnds, Unwind, Unwound, Text, Done, Exhausted, Fails, clients, LiveStays
<1>3. CASE Begin(r) \/ NeverBegins(r) \/ PredecessorEnds(r) \/ ShieldEnds(r) \/ Unwind(r)
           \/ Done(r) \/ EvictNow(r)
  <2>1. queue' = queue /\ status' = status
    BY <1>3 DEF Begin, NeverBegins, PredecessorEnds, ShieldEnds, Unwind, Done, DoneHeldBack,
                EvictNow, clients, runs
  <2> QED BY <1>2, <2>1, AnnouncedStill
<1>4. CASE Text(r)
  <2>1. Feed(r, <<"text">>, FALSE) /\ status' = status
    BY <1>4 DEF Text
  <2>2. <<"text">> \in Seq(Event)
    BY DEF Event
  <2> QED BY <1>2, <2>1, <2>2, FeedAnnounces
<1>5. ASSUME NEW evs \in Seq(Event), Feed(r, evs, TRUE), NEW new,
             status' = [status EXCEPT ![r] = new]
      PROVE  Announced(d)'
  <2>1. \A q \in Run \ {r} : status'[q] = status[q]
    BY <1>1, <1>5 DEF TypeOK
  <2> QED BY <1>2, <1>5, <2>1, FeedAnnounces
<1>6. <<>> \in Seq(Event) /\ <<"done">> \in Seq(Event) /\ <<"error", "done">> \in Seq(Event)
  BY DEF Event
<1>7. CASE WaitCancelled(r) \/ Unwound(r) \/ Fails(r)
  BY <1>5, <1>6, <1>7 DEF WaitCancelled, Unwound, Fails
<1>8. CASE Exhausted(r)
  BY <1>5, <1>6, <1>8 DEF Exhausted
<1> QED BY <1>3, <1>4, <1>7, <1>8 DEF TaskStep, Yields

LEMMA TakeAnnounces ==
    ASSUME AInv, NEW c \in Client, Take(c), Announced(c)
    PROVE  Announced(c)'
<1>1. /\ at[c] = "live" /\ queue[c] # <<>> /\ run' = run /\ status' = status
      /\ queue' = [queue EXCEPT ![c] = Tail(queue[c])]
      /\ IF Head(queue[c]) = Sentinel THEN Step(c, "flush") ELSE UNCHANGED at
  BY DEF Take, runs
<1>2. /\ queue[c] \in Seq(Nat) /\ Len(queue[c]) \in Nat /\ Head(queue[c]) = queue[c][1]
      /\ Len(Tail(queue[c])) = Len(queue[c]) - 1
      /\ \A i \in 1..(Len(queue[c]) - 1) : Tail(queue[c])[i] = queue[c][i + 1]
  BY <1>1 DEF AInv, TypeOK
<1>3. queue'[c] = Tail(queue[c])
  BY <1>1 DEF AInv, TypeOK
<1>4. CASE Head(queue[c]) = Sentinel
  BY <1>1, <1>4 DEF Step, Announced, AInv, TypeOK
<1>5. CASE Head(queue[c]) # Sentinel
  <2> SUFFICES ASSUME status[run[c]] # "running"
               PROVE  \E i \in 1..Len(queue'[c]) : queue'[c][i] = Sentinel
    BY <1>1 DEF Announced
  <2>1. PICK i \in 1..Len(queue[c]) : queue[c][i] = Sentinel
    BY <1>1 DEF Announced
  <2>2. i # 1 /\ i - 1 \in 1..(Len(queue[c]) - 1) /\ (i - 1) + 1 = i
    BY <1>2, <1>5, <2>1
  <2>3. i - 1 \in 1..Len(queue'[c]) /\ queue'[c][i - 1] = Sentinel
    BY <1>2, <1>3, <2>1, <2>2
  <2> QED BY <2>3
<1> QED BY <1>4, <1>5

LEMMA ClientAnnounces ==
    ASSUME AInv, NEW c \in Client, Resume(c) \/ BodyStep(c) \/ Disconnect(c),
           NEW d \in Client, Announced(d)
    PROVE  Announced(d)'
<1>1. TypeOK
  BY DEF AInv
<1>2. status' = status
  BY DEF Resume, BodyStep, Attach, Replay, ReplayEnds, Take, TimesOut, Flush, FlushEnds,
         Disconnect, runs
<1>3. CASE Resume(c)
  <2>1. LiveStays(d) /\ queue' = queue
    BY <1>1, <1>3, BindStays DEF Resume
  <2> QED BY <1>2, <2>1, AnnouncedStill
<1>4. ASSUME BodyStep(c) \/ Disconnect(c), d # c PROVE Announced(d)'
  <2>1. run' = run /\ at'[d] = at[d] /\ queue'[d] = queue[d]
    BY <1>1, <1>4 DEF BodyStep, Attach, Replay, ReplayEnds, Take, TimesOut, Flush, FlushEnds,
                      Disconnect, Detach, Step, TypeOK
  <2> QED BY <1>2, <2>1, AnnouncedStill DEF LiveStays
<1>5. CASE d = c /\ Take(c)
  BY <1>5, TakeAnnounces
<1>6. CASE d = c /\ (Attach(c) \/ ReplayEnds(c) \/ TimesOut(c) \/ FlushEnds(c) \/ Disconnect(c))
  <2>1. at'[c] = "live" => status'[run'[c]] = "running"
    BY <1>1, <1>6 DEF Attach, ReplayEnds, TimesOut, FlushEnds, Disconnect, Detach, Step, Over,
                      TypeOK, runs
  <2> QED BY <1>6, <2>1 DEF Announced
<1>7. CASE d = c /\ (Replay(c) \/ Flush(c))
  <2>1. LiveStays(d) /\ queue' = queue
    BY <1>7 DEF Replay, Flush, LiveStays
  <2> QED BY <1>2, <2>1, AnnouncedStill
<1> QED BY <1>3, <1>4, <1>5, <1>6, <1>7 DEF BodyStep

\* A client that follows a run which is over finds the end in its queue, however
\* the run came to its end (agent_runs.py:62-63).
THEOREM EndsAnnounced == Spec => []EndIsAnnounced
<1> DEFINE J == \A d \in Client : Announced(d)
<1>1. Init => J
  BY DEF Init, Announced
<1>2. AInv /\ J /\ [Next]_vars => J'
  <2> SUFFICES ASSUME AInv, J, [Next]_vars, NEW d \in Client PROVE Announced(d)'
    OBVIOUS
  <2>1. CASE Stop \/ UNCHANGED vars
    <3>1. UNCHANGED <<status, at, run, queue>>
      BY <2>1 DEF Stop, vars, runs, clients
    <3> QED BY <3>1, AnnouncedStill DEF LiveStays
  <2> QED BY <2>1, StartAnnounces, RunAnnounces, ClientAnnounces DEF Next
<1>3. J => EndIsAnnounced
  BY DEF Announced, EndIsAnnounced
<1> HIDE DEF J
<1> QED BY <1>1, <1>2, <1>3, RunsInvariant, PTL DEF Spec

-----------------------------------------------------------------------------
(***************************************************************************)
(* AgentRuns implements EventStream, for any number of runs, events and    *)
(* clients: each of its steps is a step of the stream or leaves it as it   *)
(* is.                                                                     *)
(***************************************************************************)

\* Buffers grow, and a run that is over stays over.
Produces ==
    \A r \in Run : /\ Stream!Extends(buffer[r], buffer'[r])
                   /\ status[r] # "running" => status'[r] # "running"

\* Nothing is published and no run comes to its end.
Silent == buffer' = buffer /\ status' = status

-----------------------------------------------------------------------------
(***************************************************************************)
(* Each kind of step, as the stream sees it.                               *)
(***************************************************************************)

\* What Produces says in the terms of the stream.
LEMMA StreamProduces ==
    ASSUME TypeOK', Produces
    PROVE  Stream!Produce
  BY DEF TypeOK, Produces, Stream!Produce

\* A publication, or the end of a run, that no client notices yet.
LEMMA EmitStep ==
    ASSUME TypeOK', Produces, UNCHANGED <<at, run, got>>
    PROVE  Stream!Next
<1>1. Stream!Emit
  BY StreamProduces DEF Stream!Emit
<1> QED BY <1>1 DEF Stream!Next

\* A response is bound to a run.
LEMMA ComeStep ==
    ASSUME TypeOK, TypeOK', Produces, NEW c \in Client, NEW r \in Run, Bind(c, r)
    PROVE  Stream!Next
<1>1. /\ at' = [at EXCEPT ![c] = "bound"] /\ run' = [run EXCEPT ![c] = r]
      /\ got' = [got EXCEPT ![c] = <<>>]
  BY DEF Bind
<1>2. Stream!Follow(c, r)
  BY <1>1 DEF TypeOK, Stream!Follow
<1>3. Stream!Come(c)
  BY <1>2, StreamProduces DEF Stream!Come
<1> QED BY <1>3 DEF Stream!Next

\* A client goes on within its response.
LEMMA StutterStep ==
    ASSUME Silent, UNCHANGED <<run, got>>,
           \A c \in Client : at'[c] # at[c] =>
               {at[c], at'[c]} \cap {"idle", "complete"} = {}
    PROVE  UNCHANGED Stream!vars
<1>1. \A c \in Client : /\ at[c] = "idle" <=> at'[c] = "idle"
                        /\ at[c] = "complete" <=> at'[c] = "complete"
  OBVIOUS
<1> QED BY <1>1 DEF Silent, Stream!vars

\* A client receives the next event of its run.
LEMMA ReceiveStep ==
    ASSUME TypeOK, Silent, NEW c \in Client, InOrder(c), More(c), Yield(c, next[c] + 1),
           at[c] \notin {"idle", "complete"}, UNCHANGED run,
           \A d \in Client : at'[d] # at[d] =>
               {at[d], at'[d]} \cap {"idle", "complete"} = {}
    PROVE  Stream!Next
<1>1. got' = [got EXCEPT ![c] = Append(got[c], next[c] + 1)]
  BY DEF Yield
<1>2. Len(got[c]) = next[c] /\ run[c] \in Run /\ run[c] # NoRun
  BY DEF InOrder, TypeOK, Run, NoRun
<1>3. \A d \in Client : at[d] = "idle" <=> at'[d] = "idle"
  OBVIOUS
<1>4. \A d \in Client : at[d] = "complete" <=> at'[d] = "complete"
  OBVIOUS
<1>5. Stream!Receive(c)
  BY <1>1, <1>2, <1>3, <1>4 DEF TypeOK, Silent, More, Stream!Receive
<1> QED BY <1>5 DEF Stream!Next

\* A response ends by itself.
LEMMA TellStep ==
    ASSUME TypeOK, Silent, NEW c \in Client, InOrder(c), Over(run[c]), ~More(c),
           at[c] # "idle", at' = [at EXCEPT ![c] = "complete"], UNCHANGED <<run, got>>
    PROVE  Stream!Next
<1>1. Len(got[c]) = next[c] /\ run[c] \in Run /\ next[c] = Len(buffer[run[c]])
  BY DEF InOrder, TypeOK, More
<1>2. Stream!Tell(c)
  BY <1>1 DEF TypeOK, Silent, Over, Stream!Tell
<1> QED BY <1>2 DEF Stream!Next

\* A client disconnects.
LEMMA LeaveStep ==
    ASSUME TypeOK, Silent, NEW c \in Client, at' = [at EXCEPT ![c] = "idle"],
           UNCHANGED <<run, got>>
    PROVE  Stream!Next
<1>1. Stream!Leave(c)
  BY DEF TypeOK, Silent, Stream!Leave, Stream!Follow
<1> QED BY <1>1 DEF Stream!Next

-----------------------------------------------------------------------------
(***************************************************************************)
(* The steps of AgentRuns.                                                 *)
(***************************************************************************)

\* The registry, tasks and timers are no concern of the stream.
LEMMA TasksUnseen ==
    ASSUME Silent, UNCHANGED <<at, run, got>>
    PROVE  UNCHANGED Stream!vars
  BY StutterStep

\* Feed only adds to buffers.
LEMMA FeedProduces ==
    ASSUME TypeOK, NEW r \in Run, NEW evs \in Seq(Event), NEW wake \in BOOLEAN,
           Feed(r, evs, wake),
           \A q \in Run : status[q] # "running" => status'[q] # "running"
    PROVE  Produces
<1>1. ASSUME NEW q \in Run PROVE Stream!Extends(buffer[q], buffer'[q])
  <2>1. buffer[q] \in Seq(Event) /\ Len(buffer[q]) \in Nat
    BY DEF TypeOK
  <2>2. CASE q = r
    BY <2>2, FeedFacts DEF Stream!Extends
  <2>3. CASE q # r
    BY <2>1, <2>3, FeedFacts DEF Stream!Extends
  <2> QED BY <2>2, <2>3
<1> QED BY <1>1 DEF Produces

\* Buffers that stay as they are grow in the sense of the stream.
LEMMA SilentProduces == ASSUME TypeOK, Silent PROVE Produces
<1>1. \A q \in Run : buffer[q] \in Seq(Event)
  BY DEF TypeOK
<1> QED BY <1>1 DEF Silent, Produces, Stream!Extends

\* start: the response of the request is bound, and the predecessor's end is
\* noticed later.
LEMMA StartStreams ==
    ASSUME AInv, AInv', NEW r \in Run, Start(r)
    PROVE  Stream!Next
<1>1. TypeOK /\ TypeOK'
  BY DEF AInv
<1>2. Produces
  <2>1. CASE Pending(current)
    <3>1. /\ current \in Run /\ <<>> \in Seq(Event) /\ (~Over(current)) \in BOOLEAN
          /\ Feed(current, <<>>, ~Over(current))
          /\ status' = [status EXCEPT ![current] =
                           IF Over(current) THEN status[current] ELSE "stopped"]
      BY <1>1, <2>1 DEF Start, Replace, Pending, TypeOK
    <3>2. \A q \in Run : status[q] # "running" => status'[q] # "running"
      BY <1>1, <3>1 DEF TypeOK, Over
    <3> QED BY <1>1, <3>1, <3>2, FeedProduces
  <2>2. CASE ~Pending(current)
    BY <1>1, <2>2, SilentProduces DEF Start, Silent
  <2> QED BY <2>1, <2>2
<1>3. CASE UNCHANGED <<at, run, next, got>>
  BY <1>1, <1>2, <1>3, EmitStep
<1>4. ASSUME NEW c \in Client, Bind(c, r) PROVE Stream!Next
  BY <1>1, <1>2, <1>4, ComeStep
<1> QED BY <1>3, <1>4 DEF Start

\* resume
LEMMA ResumeStreams ==
    ASSUME AInv, AInv', NEW c \in Client, Resume(c)
    PROVE  Stream!Next
<1>1. TypeOK /\ TypeOK'
  BY DEF AInv
<1>2. current \in Run /\ Bind(c, current) /\ Silent
  BY <1>1 DEF Resume, TypeOK, runs, Silent
<1> QED BY <1>1, <1>2, SilentProduces, ComeStep

\* The steps of the drain task that publish nothing and leave the status alone.
LEMMA QuietStreams ==
    ASSUME NEW r \in Run,
           \/ EvictNow(r) \/ Done(r) \/ Begin(r) \/ NeverBegins(r)
           \/ PredecessorEnds(r) \/ ShieldEnds(r) \/ Unwind(r)
    PROVE  UNCHANGED Stream!vars
<1>1. Silent /\ UNCHANGED <<at, run, got>>
  BY DEF EvictNow, Done, DoneHeldBack, Begin, NeverBegins, PredecessorEnds,
         ShieldEnds, Unwind, Silent, runs, clients
<1> QED BY <1>1, TasksUnseen

\* The steps that publish, or wake the clients.
LEMMA PublishStreams ==
    ASSUME AInv, AInv', NEW r \in Run,
           Text(r) \/ Exhausted(r) \/ Fails(r) \/ WaitCancelled(r) \/ Unwound(r)
    PROVE  Stream!Next
<1>1. TypeOK /\ TypeOK' /\ UNCHANGED <<at, run, got>>
  BY DEF AInv, Text, Exhausted, Fails, WaitCancelled, Unwound
<1>2. PICK evs \in Seq(Event), wake \in BOOLEAN : Feed(r, evs, wake)
  <2>1. <<>> \in Seq(Event) /\ <<"text">> \in Seq(Event) /\ <<"done">> \in Seq(Event)
        /\ <<"error", "done">> \in Seq(Event)
    BY DEF Event
  <2> QED BY <2>1 DEF Text, Exhausted, Fails, WaitCancelled, Unwound
<1>3. \A q \in Run : status[q] # "running" => status'[q] # "running"
  BY <1>1 DEF TypeOK, Over, Text, Exhausted, Fails, WaitCancelled, Unwound
<1> QED BY <1>1, <1>2, <1>3, FeedProduces, EmitStep

\* The iterations of a response body.
LEMMA BodyStreams ==
    ASSUME AInv, NEW c \in Client, BodyStep(c) \/ Disconnect(c)
    PROVE  Stream!Next \/ UNCHANGED Stream!vars
<1>1. TypeOK /\ InOrder(c) /\ EndsOver(c)
  BY DEF AInv, Served
<1>2. CASE Attach(c) \/ TimesOut(c)
  <2>1. Silent /\ UNCHANGED <<run, got>>
    BY <1>2 DEF Attach, TimesOut, runs, Silent
  <2>2. \A d \in Client : at'[d] # at[d] =>
            {at[d], at'[d]} \cap {"idle", "complete"} = {}
    BY <1>1, <1>2 DEF Attach, TimesOut, Step, TypeOK
  <2> QED BY <2>1, <2>2, StutterStep
<1>3. CASE Replay(c) \/ Flush(c)
  <2>1. /\ Silent /\ UNCHANGED <<at, run>> /\ at[c] \notin {"idle", "complete"}
        /\ More(c) /\ Yield(c, next[c] + 1)
    BY <1>3 DEF Replay, Flush, runs, Silent
  <2> QED BY <1>1, <2>1, ReceiveStep
<1>4. CASE Take(c)
  <2>1. Silent /\ UNCHANGED run /\ at[c] = "live"
    BY <1>4 DEF Take, runs, Silent
  <2>2. \A d \in Client : at'[d] # at[d] =>
            {at[d], at'[d]} \cap {"idle", "complete"} = {}
    BY <1>1, <1>4 DEF Take, Step, TypeOK
  <2>3. CASE Head(queue[c]) # Sentinel /\ Fresh(c, Head(queue[c]))
    <3>1. Head(queue[c]) = next[c] + 1 /\ next[c] + 1 <= Len(buffer[run[c]])
      BY <1>4, <2>3, TakesNext DEF Take
    <3>2. Yield(c, next[c] + 1)
      BY <1>4, <2>3, <3>1 DEF Take
    <3>3. More(c)
      BY <1>1, <2>1, <3>1 DEF More, TypeOK, InOrder
    <3> QED BY <1>1, <2>1, <2>2, <3>2, <3>3, ReceiveStep
  <2>4. CASE ~(Head(queue[c]) # Sentinel /\ Fresh(c, Head(queue[c])))
    <3>1. UNCHANGED got
      BY <1>4, <2>4 DEF Take
    <3> QED BY <2>1, <2>2, <3>1, StutterStep
  <2> QED BY <2>3, <2>4
<1>5. CASE ReplayEnds(c)
  <2>1. at[c] = "replay" /\ ~More(c) /\ Silent /\ UNCHANGED <<run, got>>
    BY <1>5 DEF ReplayEnds, runs, Silent
  <2>2. CASE Over(run[c])
    <3>1. at' = [at EXCEPT ![c] = "complete"]
      BY <1>5, <2>2 DEF ReplayEnds, Detach, Step
    <3> QED BY <1>1, <2>1, <2>2, <3>1, TellStep
  <2>3. CASE ~Over(run[c])
    <3>1. at' = [at EXCEPT ![c] = "live"]
      BY <1>5, <2>3 DEF ReplayEnds, Step
    <3> QED BY <1>1, <2>1, <3>1, StutterStep DEF TypeOK
  <2> QED BY <2>2, <2>3
<1>6. CASE FlushEnds(c)
  <2>1. /\ at[c] = "flush" /\ ~More(c) /\ Silent /\ UNCHANGED <<run, got>>
        /\ at' = [at EXCEPT ![c] = "complete"]
    BY <1>6 DEF FlushEnds, Detach, Step, runs, Silent
  <2>2. Over(run[c])
    BY <1>1, <2>1 DEF EndsOver, Over
  <2> QED BY <1>1, <2>1, <2>2, TellStep
<1>7. CASE Disconnect(c)
  <2>1. Silent /\ UNCHANGED <<run, got>> /\ at' = [at EXCEPT ![c] = "idle"]
    BY <1>7 DEF Disconnect, Detach, Step, runs, Silent
  <2> QED BY <1>1, <2>1, LeaveStep
<1> QED BY <1>2, <1>3, <1>4, <1>5, <1>6, <1>7 DEF BodyStep

-----------------------------------------------------------------------------
\* Clients of detached runs see the stream of events they are promised: each
\* receives the events of its run in order, none twice and none missing, and
\* is told that the run is over only when it is and with all of them received
\* (agent_runs.py:1-16).
THEOREM RunsImplementStream == Spec => ImplementsStream
<1>1. Init => Stream!Init
  BY DEF Init, Stream!Init
<1>2. AInv /\ AInv' /\ [Next]_vars => [Stream!Next]_(Stream!vars)
  <2> SUFFICES ASSUME AInv, AInv', [Next]_vars
               PROVE  Stream!Next \/ UNCHANGED Stream!vars
    OBVIOUS
  <2>1. CASE UNCHANGED vars
    BY <2>1, TasksUnseen DEF vars, runs, clients, Silent
  <2>2. CASE Stop
    <3>1. Silent /\ UNCHANGED <<at, run, got>>
      BY <2>2 DEF Stop, clients, Silent
    <3> QED BY <3>1, TasksUnseen
  <2>3. ASSUME NEW r \in Run, Start(r) \/ TaskStep(r) \/ Yields(r) \/ EvictNow(r)
        PROVE  Stream!Next \/ UNCHANGED Stream!vars
    BY <2>3, StartStreams, QuietStreams, PublishStreams DEF TaskStep, Yields
  <2>4. ASSUME NEW c \in Client, Resume(c) \/ BodyStep(c) \/ Disconnect(c)
        PROVE  Stream!Next \/ UNCHANGED Stream!vars
    BY <2>4, ResumeStreams, BodyStreams
  <2> QED BY <2>1, <2>2, <2>3, <2>4 DEF Next
<1> QED BY <1>1, <1>2, RunsInvariant, PTL DEF Spec, ImplementsStream, Stream!Spec
=============================================================================
