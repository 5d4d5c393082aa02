---------------------------- MODULE Transcript ----------------------------
(***************************************************************************)
(* The transcript of one chat session: its rows in the database, the       *)
(* Session object the manager caches, the foreground turn that holds a     *)
(* Session object of its own across its awaits, and the two compactions    *)
(* that replace the transcript by a shorter one (core/session_manager.py,  *)
(* src/context_compactor.py, routes/session_routes.py).                    *)
(*                                                                         *)
(* A message is a tuple <<kind, whose>>.  Which messages a summary covers  *)
(* is kept; what it says is not.                                           *)
(***************************************************************************)
EXTENDS Naturals, Sequences, FiniteSets

CONSTANTS
    Old,              \* the messages of the chat before the server starts
    Preface,          \* system messages the chat route puts before a history
    MinToSummarise,   \* conversation messages a turn's compaction needs
    MinToCompact,     \* messages a compaction on request needs
    Keep,             \* messages a compaction on request keeps
    Rewind,           \* lengths the user or a tool cuts the chat to
    MaxTurns,         \* turns of the user
    MaxUnsaved        \* writes of a message the database may refuse

Elements(s) == {s[i] : i \in DOMAIN s}

ASSUME TranscriptAssumption ==
    /\ Old \in Seq(Elements(Old))
    /\ Preface \in Nat /\ MinToSummarise \in Nat /\ Keep \in Nat /\ MinToCompact \in Nat
    /\ Keep < MinToCompact
    /\ Rewind \subseteq Nat /\ MaxTurns \in Nat /\ MaxUnsaved \in Nat

VARIABLES
    alive,      \* the session has its row
    rows,       \* its messages in the database, in the order of their times
    cached,     \* the history of the cached Session; empty also when none is cached
    phase,      \* how far the current turn has come
    turns,      \* number of turns begun
    shared,     \* the turn's Session object is the cached one
    held,       \* the history of the turn's object once it is not
    auto,       \* the turn's compaction, from its summary on
    plan,       \* the compaction on request, from its summary on
    stored,     \* every message that was ever a row
    unsaved     \* every message whose write failed

turnVars == <<phase, turns, shared, held, auto>>
transcriptVars == <<alive, rows, cached, turnVars, plan, stored, unsaved>>

Asked(n) == <<"user", n>>
Answered(n) == <<"reply", n>>
Summary == <<"summary", 0>>

NoAuto == [system |-> 0, split |-> 0, older |-> {}]
NoPlan == [older |-> {}, recent |-> <<>>]

TranscriptInit ==
    /\ alive = TRUE /\ rows = Old /\ cached = <<>>
    /\ phase = "idle" /\ turns = 0 /\ shared = FALSE /\ held = <<>> /\ auto = NoAuto
    /\ plan = NoPlan
    /\ stored = Elements(Old) /\ unsaved = {}

\* agent_runs.is_active and _active_streams: the turn is past its preparation.
IsActive == phase \in {"streaming", "saved"}

-----------------------------------------------------------------------------
(* The session manager *)

\* mutated: a transcript is loaded once and never compared with the rows again
HydratesOnce == cached = <<>> /\ rows # <<>>

\* get_session loads the rows into a new Session object when the cached
\* history is shorter than they are.
Hydrates == Len(cached) < Len(rows)

\* The history get_session returns.
Loaded == IF Hydrates THEN rows ELSE cached

\* A turn whose Session object is replaced in the cache goes on with its own.
KeepsOwnObject(replaced) ==
    /\ shared' = (shared /\ ~replaced)
    /\ held' = IF shared /\ replaced THEN cached ELSE held

\* The history of the Session object the turn holds.
Mine == IF shared THEN cached ELSE held

\* _persist_message: the row is written, or the write fails and is only logged.
Persist(m) ==
    \/ /\ rows' = Append(rows, m)
       /\ stored' = stored \union {m}
       /\ UNCHANGED unsaved
    \/ /\ Cardinality(unsaved) < MaxUnsaved
       /\ unsaved' = unsaved \union {m}
       /\ UNCHANGED <<rows, stored>>

\* SessionManager.add_message
AddMessage(m) ==
    /\ alive
    /\ cached' = Append(Loaded, m)
    /\ KeepsOwnObject(Hydrates)
    /\ Persist(m)

\* Session.add_message, by the turn: its object grows whether or not the
\* session still has a row; without one the cached object is dropped.
TurnAdds(m) ==
    \/ /\ alive
       /\ IF shared THEN cached' = Append(cached, m) /\ UNCHANGED held
                    ELSE held' = Append(held, m) /\ UNCHANGED cached
       /\ Persist(m)
       /\ UNCHANGED shared
    \/ /\ ~alive
       /\ held' = Append(Mine, m) /\ shared' = FALSE /\ cached' = <<>>
       /\ UNCHANGED <<rows, stored, unsaved>>

\* replace_messages
ReplaceMessages(new) ==
    /\ rows' = new /\ cached' = new
    /\ KeepsOwnObject(Hydrates)
    /\ stored' = stored \union Elements(new)
    /\ UNCHANGED <<alive, unsaved>>

\* The first n messages of a history, or all it has.
FirstOf(n, h) == IF n < Len(h) THEN SubSeq(h, 1, n) ELSE h

\* mutated: the cached copy is not cut
TruncateRows(n) ==
    /\ alive
    /\ rows' = FirstOf(n, rows) /\ cached' = Loaded
    /\ KeepsOwnObject(Hydrates)
    /\ UNCHANGED <<alive, phase, turns, auto, plan, stored, unsaved>>

\* truncate_messages: both copies are cut to their first n messages.
Truncate(n) ==
    /\ alive
    /\ rows' = FirstOf(n, rows) /\ cached' = FirstOf(n, Loaded)
    /\ KeepsOwnObject(Hydrates)
    /\ UNCHANGED <<alive, phase, turns, auto, plan, stored, unsaved>>

\* delete_session; the turn keeps the object it holds.
DeleteSession ==
    /\ alive
    /\ alive' = FALSE /\ rows' = <<>> /\ cached' = <<>>
    /\ KeepsOwnObject(TRUE)
    /\ UNCHANGED <<phase, turns, auto, plan, stored, unsaved>>

-----------------------------------------------------------------------------
(* The turn of the user *)

OpenTurn ==
    /\ phase = "idle" /\ alive /\ turns < MaxTurns
    /\ cached' = Loaded
    /\ phase' = "opened" /\ turns' = turns + 1
    /\ shared' = TRUE /\ held' = <<>>
    /\ UNCHANGED <<alive, rows, auto, plan, stored, unsaved>>

\* maybe_compact, of a history with the preface ahead of it: where the system
\* messages end, and the older half of the others, which is summarised.
Spoken(h) == {i \in DOMAIN h : h[i] # Summary}
Split(h) == Cardinality(Spoken(h)) \div 2
SummaryOf(h) ==
    [system |-> Preface + Cardinality(DOMAIN h \ Spoken(h)),
     split  |-> Split(h),
     older  |-> {h[i] : i \in {m \in Spoken(h) : Cardinality(Spoken(h) \cap 1..m) <= Split(h)}}]

\* build_chat_context: the user's message joins the history; when the context
\* is nearly full the older half of it is handed to a summary.
Ask ==
    /\ phase = "opened"
    /\ TurnAdds(Asked(turns))
    /\ phase' = "asked"
    /\ LET history == Append(Mine, Asked(turns))
       IN  \/ UNCHANGED auto
           \/ /\ Cardinality(Spoken(history)) >= MinToSummarise
              /\ auto' = SummaryOf(history)
    /\ UNCHANGED <<alive, turns, plan>>

\* _update_session_history, of a Session object with history h: a summary at
\* its end or beyond changes nothing.
CutsInside(h) == auto.system + auto.split < Len(h)
Summarised(h) ==
    SubSeq(h, 1, auto.system) \o <<Summary>> \o SubSeq(h, auto.system + auto.split + 1, Len(h))

\* The summary is applied before the stream starts or, by the route that
\* answers, when it commits its answer: to the object the turn holds, or by an
\* agent loop that was given none to the one get_session returns.
AutoCompact ==
    /\ phase \in {"asked", "streaming"} /\ alive /\ auto # NoAuto
    /\ auto' = NoAuto
    /\ \/ /\ CutsInside(Mine)
          /\ ReplaceMessages(Summarised(Mine))
       \/ /\ ~CutsInside(Mine)
          /\ UNCHANGED <<alive, rows, cached, shared, held, stored, unsaved>>
       \/ /\ phase = "streaming" /\ CutsInside(Loaded)
          /\ ReplaceMessages(Summarised(Loaded))
       \/ /\ phase = "streaming" /\ ~CutsInside(Loaded)
          /\ cached' = Loaded /\ KeepsOwnObject(Hydrates)
          /\ UNCHANGED <<alive, rows, stored, unsaved>>
    /\ UNCHANGED <<phase, turns, plan>>

StartStream ==
    /\ phase = "asked"
    /\ phase' = "streaming"
    /\ UNCHANGED <<alive, rows, cached, turns, shared, held, auto, plan, stored, unsaved>>

\* The answer, or what there is of it when the user stops the turn, is saved.
Answer ==
    /\ phase = "streaming"
    /\ TurnAdds(Answered(turns))
    /\ phase' = "saved"
    /\ UNCHANGED <<alive, turns, auto, plan>>

\* The stream ends, or the turn fails or is stopped with nothing to save.
EndTurn ==
    /\ phase # "idle"
    /\ phase' = "idle" /\ auto' = NoAuto
    /\ shared' = FALSE /\ held' = <<>>
    /\ UNCHANGED <<alive, rows, cached, turns, plan, stored, unsaved>>

-----------------------------------------------------------------------------
(* The compaction on request *)

BeginCompact ==
    /\ alive /\ ~IsActive /\ plan = NoPlan
    /\ Len(Loaded) >= MinToCompact
    /\ cached' = Loaded
    /\ KeepsOwnObject(Hydrates)
    /\ LET n == Len(Loaded) - Keep
       IN  plan' = [older |-> Elements(SubSeq(Loaded, 1, n)), recent |-> SubSeq(Loaded, n + 1, Len(Loaded))]
    /\ UNCHANGED <<alive, rows, phase, turns, auto, stored, unsaved>>

\* The summary has come: it replaces what was read when it was asked for.
FinishCompact ==
    /\ alive /\ plan # NoPlan
    /\ ReplaceMessages(<<Summary>> \o plan.recent)
    /\ plan' = NoPlan
    /\ UNCHANGED <<phase, turns, auto>>

\* The summary failed, or the session is gone.
AbandonCompact ==
    /\ plan # NoPlan
    /\ plan' = NoPlan
    /\ UNCHANGED <<alive, rows, cached, turnVars, stored, unsaved>>

-----------------------------------------------------------------------------

\* What only memory held is lost.
LoseMemory ==
    /\ cached' = <<>> /\ shared' = FALSE /\ held' = <<>>
    /\ phase' = "idle" /\ auto' = NoAuto /\ plan' = NoPlan
    /\ UNCHANGED <<alive, rows, turns, stored, unsaved>>

TurnStep == Ask \/ AutoCompact \/ StartStream \/ Answer \/ EndTurn
TranscriptStep ==
    \/ OpenTurn \/ TurnStep
    \/ BeginCompact \/ FinishCompact \/ AbandonCompact
    \/ \E n \in Rewind : Truncate(n)

TranscriptNext == TranscriptStep \/ DeleteSession \/ LoseMemory
TranscriptSpec == TranscriptInit /\ [][TranscriptNext]_transcriptVars

-----------------------------------------------------------------------------

(* A compaction keeps every message its summary does not cover: "Keep the  *)
(* recent messages, prepend summary" (_update_session_history), "Keep a    *)
(* small recent tail verbatim" (compact_session).                          *)
CompactionKeeps ==
    [][\A m \in Elements(rows) \ Elements(rows') :
           auto' # auto \/ plan' # plan => m \in auto.older \union plan.older]_transcriptVars
=============================================================================
