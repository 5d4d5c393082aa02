-------------------------- MODULE EffectLifecycle --------------------------
(***************************************************************************)
(* What an effect log promises, without files, locks or processes          *)
(* (src/agent_runtime/effect_log.py:1-11): the durable status of an effect *)
(* only ever advances, and a backend is invoked at most once, at the very  *)
(* step that makes the claim of its effect durable.                        *)
(***************************************************************************)
EXTENDS Naturals

CONSTANT Effect

VARIABLES
    status,      \* what the durable history says of each effect
    invoked      \* the effects whose backend may have been invoked

vars == <<status, invoked>>

Status == {"unclaimed", "claimed", "running", "settled"}

Stage == [s \in Status |-> CASE s = "unclaimed" -> 0 [] s = "claimed" -> 1
                             [] s = "running"   -> 2 [] s = "settled" -> 3]

Init ==
    /\ status = [e \in Effect |-> "unclaimed"]
    /\ invoked = {}

\* Records become durable: one fsync may cover several of them.
Advance ==
    /\ status' \in [Effect -> Status]
    /\ \A e \in Effect : Stage[status[e]] <= Stage[status'[e]]

Settle == Advance /\ UNCHANGED invoked

Invoke(e) ==
    /\ Advance
    /\ status[e] = "unclaimed" /\ status'[e] = "claimed"
    /\ invoked' = invoked \cup {e}

Next == Settle \/ \E e \in Effect : Invoke(e)

Spec == Init /\ [][Next]_vars

-----------------------------------------------------------------------------
\* Both variables stay in their domains.
TypeOK == status \in [Effect -> Status] /\ invoked \in SUBSET Effect

\* No backend is invoked for an effect nothing durable speaks of
\* (effect_log.py:5-6).
InvokedIsClaimed == \A e \in invoked : status[e] # "unclaimed"
=============================================================================
