--------------------------- MODULE ToolApprovals ---------------------------
(***************************************************************************)
(* Approvals of single tool calls (src/tool_approvals.py) and those who    *)
(* ask, answer and run them: agent runs of chats (src/agent_loop.py,       *)
(* routes/chat_routes.py), manual skill tests (services/skills) and        *)
(* scheduled tasks (src/task_scheduler.py).                                *)
(*                                                                         *)
(* A run that has seen untrusted context seals the call it is about to     *)
(* make in a card and stops.  The store of pending cards lives in memory:  *)
(* a card leaves it when it is answered, superseded, retired by a message, *)
(* evicted, found expired, or when the process restarts.  An answer that   *)
(* allows the call starts a new run whose first step is the sealed call.   *)
(* The card itself is saved with the message of its run, and the answer is *)
(* recorded there: a chat whose history holds a card of its own resolved   *)
(* with "approve" is not asked again.                                      *)
(*                                                                         *)
(* A request handler does not await between peek and the record of the     *)
(* answer, so it is one action up to there.                                *)
(***************************************************************************)
EXTENDS Naturals, FiniteSets

CONSTANTS
    Chat,           \* chat sessions
    Test,           \* manual skill tests, one job each
    Nowhere,        \* the place of a run that does not exist
    Run,            \* agent runs that exist at a time (bound)
    MaxCards,       \* cards ever created (bound)
    MaxPending,     \* capacity of the store (tool_approvals.py:42)
    MaxUpsets       \* restarts, failed commits, forks and compactions (bound)

ApprovalConstants ==
    /\ Chat \cap Test = {} /\ Nowhere \notin Chat \cup Test
    /\ MaxCards \in Nat /\ MaxPending \in Nat \ {0} /\ MaxUpsets \in Nat
ASSUME ApprovalConstants

VARIABLES
    pending,        \* ToolApprovalStore._pending
    made,           \* cards are numbered in the order of created_at
    lapsed,         \* the cards up to this one have expired
    place,          \* the chat or the test a card belongs to
    at, grant,      \* of a run: its place, its ExactToolApproval
    bypass,         \* runs with approval_gate_bypassed
    tainted,        \* runs with external_untrusted_context_seen
    begun,          \* runs past their sealed call
    asked,          \* the cards among the tool events of a run
    stray,          \* runs whose test job was replaced
    slot,           \* job["approval"] of the job of a test
    mem, disk,      \* the cards in a chat's history, in memory and stored
    opened,         \* chats that exist
    answer,         \* the decision that consumed a card
    stale,          \* cards that ceased to be current before any decision
    ran,            \* how often the sealed call of a card was made
    upsets          \* how often something unusual happened (bounded)

store  == <<pending, made, lapsed, place>>
runs   == <<at, grant, bypass, tainted, begun, asked, stray>>
chats  == <<mem, disk, opened>>
record == <<answer, stale, ran>>
vars   == <<store, runs, slot, chats, record, upsets>>

Card     == 1..MaxCards
NoCard   == 0
Place    == Chat \cup Test
Allow    == {"approve", "approve_task"}
Decision == Allow \cup {"deny"}
Marks    == {"absent", "open"} \cup Decision

Init ==
    /\ pending = {} /\ made = 0 /\ lapsed = 0
    /\ place = [c \in Card |-> Nowhere]
    /\ at = [r \in Run |-> Nowhere] /\ grant = [r \in Run |-> NoCard]
    /\ bypass = {} /\ tainted = {} /\ begun = {} /\ stray = {}
    /\ asked = [r \in Run |-> {}]
    /\ slot = [t \in Test |-> NoCard]
    /\ mem = [s \in Chat |-> [c \in Card |-> "absent"]] /\ disk = mem
    /\ opened = {}
    /\ answer = [c \in Card |-> "none"] /\ stale = {} /\ ran = [c \in Card |-> 0]
    /\ upsets = 0

Upset  == upsets < MaxUpsets /\ upsets' = upsets + 1
Smooth == upsets' = upsets

-----------------------------------------------------------------------------
(***************************************************************************)
(* The store.  Every operation drops the expired cards first.              *)
(***************************************************************************)
Purged == {c \in pending : c > lapsed}
Of(s)  == {c \in Card : place[c] = s}

\* peek, and the check of owner and session before a card is consumed
Found(c, s) == c \in Purged /\ place[c] = s

\* mutated: an answered card stays pending
ConsumeKeeping(c) == pending' = Purged

Consume(c) == pending' = Purged \ {c}

\* Cards nobody has answered yet cease to be current.
Overtaken(cards) == stale' = stale \cup {c \in cards : answer[c] = "none"}

\* mutated: the tests, which all have the empty session id, share one card
SupersededByPlace(r) == Purged \cap Of(at[r])

\* mutated: a run replaces the cards it asked for itself, and no others
SupersededByRun(r) == Purged \cap asked[r]

\* A chat shows one card; skill tests have no session in common and are told
\* apart by the run that asks.
Superseded(r) == IF at[r] \in Chat THEN Purged \cap Of(at[r]) ELSE Purged \cap asked[r]

Newest(cards, n) == {c \in cards : Cardinality({d \in cards : d > c}) < n}

\* create: the new card supersedes, and the oldest ones make room
Create(r, c) ==
    /\ made < MaxCards /\ c = made + 1
    /\ made' = c
    /\ place' = [place EXCEPT ![c] = at[r]]
    /\ LET others == Purged \ Superseded(r)
           kept   == Newest(others, MaxPending - 1)
       IN /\ pending' = kept \cup {c}
          /\ Overtaken((IF at[r] \in Chat THEN Of(at[r]) ELSE asked[r]) \cup (others \ kept))
    /\ UNCHANGED <<lapsed, answer, ran>>

\* The time to live of the oldest cards is over; it is the same for all.
Lapse ==
    /\ \E c \in Purged : lapsed' = c /\ Overtaken((lapsed + 1)..c)
    /\ UNCHANGED <<pending, made, place, runs, slot, chats, answer, ran, upsets>>

\* An answer to a card that is not there, or not of this place, is refused.
Misses ==
    /\ pending # Purged
    /\ pending' = Purged
    /\ UNCHANGED <<made, lapsed, place, runs, slot, chats, record, upsets>>

-----------------------------------------------------------------------------
(***************************************************************************)
(* Runs.                                                                   *)
(***************************************************************************)
Starts(r, s, c, skips, taint) ==
    /\ at[r] = Nowhere
    /\ at' = [at EXCEPT ![r] = s]
    /\ grant' = [grant EXCEPT ![r] = c]
    /\ bypass' = IF skips THEN bypass \cup {r} ELSE bypass
    /\ tainted' = IF taint THEN tainted \cup {r} ELSE tainted
    /\ begun' = IF c = NoCard /\ s \in Chat THEN begun \cup {r} ELSE begun
    /\ asked' = asked

NoRun == UNCHANGED <<at, grant, bypass, tainted, begun, asked>>

Ends(r) ==
    /\ at' = [at EXCEPT ![r] = Nowhere]
    /\ grant' = [grant EXCEPT ![r] = NoCard]
    /\ bypass' = bypass \ {r} /\ tainted' = tainted \ {r}
    /\ begun' = begun \ {r} /\ stray' = stray \ {r}
    /\ asked' = [asked EXCEPT ![r] = {}]

\* The first step: the sealed call, unless its target, workspace or policy has
\* changed since it was sealed.
Begin(r) ==
    /\ at[r] # Nowhere /\ r \notin begun
    /\ begun' = begun \cup {r}
    /\ IF grant[r] = NoCard THEN ran' = ran
       ELSE \E claimed \in {0, 1} : ran' = [ran EXCEPT ![grant[r]] = @ + claimed]
    /\ UNCHANGED <<store, at, grant, bypass, tainted, asked, stray, slot, chats, answer, stale, upsets>>

\* A result from outside arms the gate.
Observe(r) ==
    /\ r \in begun \ tainted
    /\ tainted' = tainted \cup {r}
    /\ UNCHANGED <<store, at, grant, bypass, begun, asked, stray, slot, chats, record, upsets>>

\* decision_for refuses a call that needs approval.
Gated(r) == r \in (begun \cap tainted) \ bypass

\* A run of a chat finishes its round, in which it may ask again, and stops.
Propose(r, c) ==
    /\ at[r] \in Chat /\ Gated(r)
    /\ Create(r, c)
    /\ asked' = [asked EXCEPT ![r] = @ \cup {c}]
    /\ UNCHANGED <<at, grant, bypass, tainted, begun, stray, slot, chats, upsets>>

\* A run of a test stops at its first card; the job it belongs to shows it.
Pause(r, c) ==
    /\ at[r] \in Test /\ Gated(r)
    /\ Create(r, c)
    /\ slot' = IF r \in stray THEN slot ELSE [slot EXCEPT ![at[r]] = c]
    /\ Ends(r)
    /\ UNCHANGED <<chats, upsets>>

\* A scheduled task has nobody to ask: it consumes its card and ends.
Decline(r) ==
    /\ at[r] \in Chat
    /\ \E c \in Card :
        /\ asked[r] = {c}
        /\ Consume(c)
        /\ answer' = IF Found(c, at[r]) THEN [answer EXCEPT ![c] = "deny"] ELSE answer
    /\ Ends(r)
    /\ UNCHANGED <<made, lapsed, place, slot, chats, stale, ran, upsets>>

\* The turn of a chat is over: its message is saved with its cards, at least
\* in memory.
Finish(r) ==
    /\ at[r] \in Chat /\ r \in begun
    /\ LET saved == [c \in Card |-> IF c \in asked[r] THEN "open" ELSE mem[at[r]][c]]
       IN /\ mem' = [mem EXCEPT ![at[r]] = saved]
          /\ \/ Smooth /\ disk' = [disk EXCEPT ![at[r]] =
                            [c \in Card |-> IF c \in asked[r] THEN "open" ELSE @[c]]]
             \/ Upset /\ disk' = disk
    /\ Ends(r)
    /\ UNCHANGED <<store, slot, opened, record>>

\* Cancelled or failed: a partial message carries no tool events.
Interrupted(r) ==
    /\ at[r] \in Chat
    /\ Ends(r)
    /\ UNCHANGED <<store, slot, chats, record, upsets>>

\* A test run that comes to its end, or fails, leaves no card in its job.
TestEnds(r) ==
    /\ at[r] \in Test /\ r \in begun
    /\ slot' = IF r \in stray THEN slot ELSE [slot EXCEPT ![at[r]] = NoCard]
    /\ Ends(r)
    /\ UNCHANGED <<store, chats, record, upsets>>

-----------------------------------------------------------------------------
(***************************************************************************)
(* Requests of a chat.                                                     *)
(***************************************************************************)
\* mutated: whatever chat the card was shown in
GrantsInherited(s) == \E c \in Card : mem[s][c] = "approve"

\* _history_grants_chat_session_approval: a card of this very chat
Grants(s) == \E c \in Of(s) : mem[s][c] = "approve"

\* An ordinary message retires the card of the chat, whose taint the turn
\* inherits.  A turn driven by an API token takes no grant from the history.
\* The request may still be refused, for want of a model.
Message(s, r, token) ==
    LET retired == Purged \cap Of(s)
    IN  /\ pending' = Purged \ retired
        /\ Overtaken(Of(s))
        /\ Starts(r, s, NoCard, ~token /\ Grants(s), retired # {}) \/ NoRun
        /\ opened' = opened \cup {s}
        /\ UNCHANGED <<made, lapsed, place, stray, slot, mem, disk, answer, ran, upsets>>

\* The background monitor continues a chat, whose context carries the grant,
\* and the scheduler runs a task in it, with messages of its own.
Background(s, r, context) ==
    /\ s \in opened
    /\ Starts(r, s, NoCard, context /\ Grants(s), FALSE)
    /\ UNCHANGED <<store, stray, slot, chats, record, upsets>>

\* _mark_tool_approval_resolved: the latest saved event of the card, if the
\* message was saved before the answer came; the commit may fail.
Resolved(s, c, d) ==
    /\ mem' = [mem EXCEPT ![s][c] = IF @ = "absent" THEN @ ELSE d]
    /\ IF mem[s][c] # "absent" /\ disk[s][c] # "absent"
       THEN \/ Smooth /\ disk' = [disk EXCEPT ![s][c] = d]
            \/ Upset /\ disk' = disk
       ELSE Smooth /\ disk' = disk

\* Both ways to allow the call cover the rest of the task.  This request too
\* may still be refused, after the answer was recorded.
Approve(s, c, d, r) ==
    /\ Found(c, s) /\ d \in Allow
    /\ Consume(c)
    /\ answer' = [answer EXCEPT ![c] = d]
    /\ Resolved(s, c, d)
    /\ Starts(r, s, c, TRUE, TRUE) \/ NoRun
    /\ UNCHANGED <<made, lapsed, place, stray, slot, opened, stale, ran>>

Deny(s, c) ==
    /\ Found(c, s)
    /\ Consume(c)
    /\ answer' = [answer EXCEPT ![c] = "deny"]
    /\ Resolved(s, c, "deny")
    /\ UNCHANGED <<made, lapsed, place, runs, slot, opened, stale, ran>>

\* fork_session: a new chat starts with the first messages of another.  In
\* memory the copies share the events of their cards, which are those of other
\* chats for the fork: what becomes of them there is never read.
Fork(s, t, keep) ==
    /\ s \in opened /\ t \notin opened
    /\ LET kept == [c \in Card |-> IF c <= keep THEN mem[s][c] ELSE "absent"]
       IN mem' = [mem EXCEPT ![t] = kept] /\ disk' = [disk EXCEPT ![t] = kept]
    /\ opened' = opened \cup {t}
    /\ Upset
    /\ UNCHANGED <<store, runs, slot, record>>

\* Compaction replaces the older messages by a summary; if that cannot be
\* stored, in memory only.
Compact(s, upto) ==
    /\ LET rest(h) == [c \in Card |-> IF c <= upto THEN "absent" ELSE h[c]]
       IN /\ mem' = [mem EXCEPT ![s] = rest(@)]
          /\ disk' = [disk EXCEPT ![s] = rest(@)] \/ disk' = disk
    /\ Upset
    /\ UNCHANGED <<store, runs, slot, opened, record>>

\* get_session reads the messages again when there are more of them in the
\* database than in memory.
Rehydrate(s) ==
    /\ s \in opened
    /\ mem' = [mem EXCEPT ![s] = disk[s]]
    /\ UNCHANGED <<store, runs, slot, disk, opened, record, upsets>>

-----------------------------------------------------------------------------
(***************************************************************************)
(* Requests of a skill test.                                               *)
(***************************************************************************)
\* start_test_job: the card of the job that is replaced is denied.  A run that
\* has taken its first step keeps the old job.
StartTest(t, r) ==
    /\ IF slot[t] # NoCard
       THEN /\ Consume(slot[t])
            /\ answer' = IF Found(slot[t], t) THEN [answer EXCEPT ![slot[t]] = "deny"]
                                              ELSE answer
       ELSE UNCHANGED <<pending, answer>>
    /\ slot' = [slot EXCEPT ![t] = NoCard]
    /\ stray' = stray \cup {q \in begun : at[q] = t}
    /\ Starts(r, t, NoCard, FALSE, FALSE)
    /\ UNCHANGED <<made, lapsed, place, chats, stale, ran, upsets>>

\* allow_continuation: the gate is armed again behind the sealed call
SingleAction == FALSE

\* test-approval with "approve": the job resumes.  A request that still holds a
\* job replaced meanwhile finds its card consumed.
ApproveTest(t, r) ==
    /\ slot[t] # NoCard /\ Found(slot[t], t)
    /\ Consume(slot[t])
    /\ answer' = [answer EXCEPT ![slot[t]] = "approve"]
    /\ slot' = [slot EXCEPT ![t] = NoCard]
    /\ Starts(r, t, slot[t], SingleAction, TRUE)
    /\ UNCHANGED <<made, lapsed, place, stray, chats, stale, ran, upsets>>

DenyTest(t) ==
    /\ slot[t] # NoCard /\ Found(slot[t], t)
    /\ Consume(slot[t])
    /\ answer' = [answer EXCEPT ![slot[t]] = "deny"]
    /\ slot' = [slot EXCEPT ![t] = NoCard]
    /\ UNCHANGED <<made, lapsed, place, runs, chats, stale, ran, upsets>>

\* The process restarts: the store, the jobs and the runs are gone, the chats
\* are read from the database.
Restart ==
    /\ pending' = {}
    /\ Overtaken(Card \cap 1..made)
    /\ at' = [r \in Run |-> Nowhere] /\ grant' = [r \in Run |-> NoCard]
    /\ bypass' = {} /\ tainted' = {} /\ begun' = {} /\ stray' = {}
    /\ asked' = [r \in Run |-> {}]
    /\ slot' = [t \in Test |-> NoCard]
    /\ mem' = disk
    /\ Upset
    /\ UNCHANGED <<made, lapsed, place, disk, opened, answer, ran>>

RunStep(r) ==
    \/ Begin(r) \/ Observe(r)
    \/ \E c \in Card : Propose(r, c) \/ Pause(r, c)
    \/ Decline(r) \/ Finish(r) \/ Interrupted(r) \/ TestEnds(r)

ChatRequest(s) ==
    \/ \E r \in Run, token \in BOOLEAN : Message(s, r, token)
    \/ \E r \in Run, context \in BOOLEAN : Background(s, r, context)
    \/ \E c \in Card, d \in Allow, r \in Run : Approve(s, c, d, r)
    \/ \E c \in Card : Deny(s, c)
    \/ \E t \in Chat, keep \in Card : Fork(s, t, keep)
    \/ \E upto \in Card : Compact(s, upto)
    \/ Rehydrate(s)

TestRequest(t) == DenyTest(t) \/ \E r \in Run : StartTest(t, r) \/ ApproveTest(t, r)

Next ==
    \/ Lapse \/ Misses \/ Restart
    \/ \E r \in Run : RunStep(r)
    \/ \E s \in Chat : ChatRequest(s)
    \/ \E t \in Test : TestRequest(t)

Spec == Init /\ [][Next]_vars

-----------------------------------------------------------------------------
(***************************************************************************)
(* Properties.                                                             *)
(***************************************************************************)

TypeOK ==
    /\ pending \subseteq Card /\ made \in 0..MaxCards /\ lapsed \in 0..MaxCards
    /\ place \in [Card -> Place \cup {Nowhere}]
    /\ at \in [Run -> Place \cup {Nowhere}] /\ grant \in [Run -> Card \cup {NoCard}]
    /\ bypass \subseteq Run /\ tainted \subseteq Run
    /\ begun \subseteq Run /\ stray \subseteq Run
    /\ asked \in [Run -> SUBSET Card] /\ slot \in [Test -> Card \cup {NoCard}]
    /\ mem \in [Chat -> [Card -> Marks]] /\ disk \in [Chat -> [Card -> Marks]]
    /\ opened \subseteq Chat
    /\ answer \in [Card -> Decision \cup {"none"}] /\ stale \subseteq Card
    /\ ran \in [Card -> Nat]

\* A sealed call is made at most once, and only if its card was allowed while
\* it was the current one of its place: an answer that comes twice, after a
\* newer card or message, after the card expired or after a restart makes
\* nothing happen (tool_approvals.py:1-7, chat_routes.py:2911-2915).
RunsAsApproved ==
    \A c \in Card :
        /\ ran[c] <= 1
        /\ ran[c] = 1 => answer[c] \in Allow /\ c \notin stale

\* A run works without asking only when it continues a task its user allowed,
\* or in a chat where a card of that very chat was allowed for the whole chat:
\* neither forks nor restarts nor skill tests carry the permission further
\* (tool_approvals.py:163-165 and 576-580).
SkipsAreGranted ==
    \A r \in bypass :
        /\ at[r] \in Chat
        /\ \/ grant[r] # NoCard
           \/ \E c \in Of(at[r]) : answer[c] = "approve"

\* Tests do not invalidate each other's cards, nor do the two jobs of a test
\* that was started again: a test's card that has not expired leaves the store
\* answered, evicted by capacity, or with the process
\* (tool_approvals.py:522-525).
TestsIndependent ==
    [][\A c \in Purged \ pending' :
        place[c] \in Test => \/ answer'[c] # "none"
                             \/ c \notin Newest(Purged, MaxPending - 1)
                             \/ pending' = {}]_vars

\* What has become of a card.
CardState == [c \in Card |->
    IF c \in pending /\ c > lapsed THEN "current"
    ELSE IF ran[c] # 0             THEN "called"
    ELSE IF answer[c] \in Allow    THEN "allowed"
    ELSE IF answer[c] = "deny"     THEN "denied"
    ELSE IF c > made               THEN "unmade"
    ELSE "withdrawn"]

\* The store and those who use it keep the promise made for its cards.
Cards == INSTANCE ApprovalCards WITH state <- CardState, Capacity <- MaxPending

\* A card goes through one life only, in whatever order runs, answers, messages,
\* replaced jobs, expiry, eviction and restarts come; a chat shows one card at a
\* time; and only for want of room is a card given up, the oldest first
\* (tool_approvals.py:521-551).
ImplementsCards == Cards!Spec
=============================================================================
