------------------------- MODULE EffectLogInvariant -------------------------
(***************************************************************************)
(* The inductive invariant from which the safety of EffectLog follows.     *)
(***************************************************************************)
EXTENDS EffectLog

Holding(w) == pc[w] \in {"locked", "write", "partial", "sync"}
Writing(w) == pc[w] \in {"write", "partial", "sync"}

\* The flock excludes: whoever is past Acquire holds it, and only a live
\* process is inside an append.
Exclusion ==
    \A w \in Writer : /\ Holding(w) => lock = w
                      /\ pc[w] # "idle" => w \in live /\ pending[w] \in Record

\* Every line is a record that may follow the lines before it.
FileOrdered ==
    /\ \A i \in 1..Len(file) : file[i] \in Record
    /\ \A i, j \in 1..Len(file) : i < j => file[i].seq < file[j].seq
    /\ \A i \in 1..Len(file) : Accepts(Lines(i - 1), file[i])

\* What a process has merged is a prefix of the file; the lock holder has
\* merged all of it but the line it is about to acknowledge.
Prefixes ==
    \A w \in Writer :
        /\ offset[w] <= Len(file) /\ durable[w] = Lines(offset[w])
        /\ pc[w] \in {"locked", "write", "partial"} => offset[w] = Len(file)
        /\ pc[w] = "sync" => /\ Len(file) = offset[w] + 1
                             /\ file[Len(file)] = pending[w]
                             /\ synced <= offset[w]
                             /\ \A v \in Writer : offset[v] <= offset[w]

\* A partial line lies at the end of the file only while its writer goes on
\* with it, or while nobody holds the lock.
TornAside == torn => \A w \in Writer : pc[w] \notin {"locked", "write", "sync"}

\* The record being written fits behind all its process knows.
PendingFits ==
    \A w \in Writer : Writing(w) => /\ pending[w].seq > maxSeq[w]
                                    /\ Accepts(view[w], pending[w])
                                    /\ Accepts(durable[w], pending[w])

\* No record a process knows lies beyond its _max_sequence.
Positioned ==
    \A w \in Writer : \A r \in durable[w] \cup volatile[w] \cup view[w] :
        r.seq <= maxSeq[w]

\* Views hold nothing but records.
ViewsTyped == \A w \in Writer : view[w] \subseteq Record

\* Views are valid and contain what is durable; volatile records are never
\* claims and never share a position.
ViewsFit ==
    \A w \in Writer :
        /\ durable[w] \subseteq view[w]
        /\ HistoryValid(view[w])
        /\ \A r \in volatile[w] : r.kind # "claim"
        /\ PositionsUnique(volatile[w])

\* A process that is gone took its volatile records with it.
Forgotten == \A w \in Writer : w \notin live => volatile[w] = {}

\* What was acknowledged is durable, and its directory entry as well.
Acknowledged ==
    /\ synced <= Len(file)
    /\ ~entry => synced = 0
    /\ \A w \in Writer : dirSynced[w] => entry
    /\ \A e \in granted : \E i \in 1..synced : file[i].kind = "claim" /\ file[i].effect = e

\* A recovered outcome in the file is on its own: nothing reported the effect
\* before it, and it settles the effect.
ReplaysAlone ==
    \A i \in 1..Len(file) : file[i].kind = "outcome" /\ file[i].replayed =>
        /\ file[i].execution = Interrupted
        /\ ~HasOutcome(Lines(i - 1), file[i].effect)

\* So will be one that is being written.
ReplayFits ==
    \A w \in Writer : pending[w].kind = "outcome" /\ pending[w].replayed =>
        /\ pending[w].execution = Interrupted
        /\ Writing(w) => ~HasOutcome(durable[w], pending[w].effect)

IInv == /\ TypeOK /\ Exclusion /\ FileOrdered /\ Prefixes /\ TornAside /\ PendingFits
        /\ Positioned /\ ViewsTyped /\ ViewsFit /\ Forgotten /\ Acknowledged
        /\ ReplaysAlone /\ ReplayFits

-----------------------------------------------------------------------------
\* Whose claims a recovery may interrupt.  An effect is owned by nobody, by a
\* process that is alive, or by one that is gone.
OwnersLive == \A e \in Effect : owner[e] \in Writer => owner[e] \in live

\* Whatever was claimed has an owner.
Owned(r) == r.kind = "claim" => owner[r.effect] # NoWriter
ClaimsOwned ==
    /\ \A i \in 1..Len(file) : Owned(file[i])
    /\ \A w \in Writer : Owned(pending[w])

\* What a process recovers has an owner and was never its own.
Foreign(w, e) == owner[e] \notin {w, NoWriter}
RecoversOthers ==
    \A w \in Writer :
        /\ \A e \in todo[w] : Foreign(w, e)
        /\ pending[w].kind = "outcome" /\ pending[w].replayed => Foreign(w, pending[w].effect)

OwnersInv == OwnersLive /\ ClaimsOwned /\ RecoversOthers
=============================================================================
