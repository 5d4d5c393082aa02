----------------------- MODULE EffectLifecycleProofs -----------------------
(***************************************************************************)
(* What every log that implements EffectLifecycle inherits.                *)
(***************************************************************************)
EXTENDS EffectLifecycle, TLAPS

\* The stages are ordered numbers, and only "unclaimed" is the first.
LEMMA Stages ==
    \A s \in Status : /\ Stage[s] \in Nat
                      /\ Stage[s] = 0 <=> s = "unclaimed"
  BY DEF Status, Stage

\* Statuses stay statuses, and what was invoked has been claimed: a backend
\* never runs for an effect of which nothing durable speaks.
THEOREM Claimed == Spec => [](TypeOK /\ InvokedIsClaimed)
<1>1. Init => TypeOK /\ InvokedIsClaimed
  BY DEF Init, TypeOK, InvokedIsClaimed, Status
<1>2. TypeOK /\ InvokedIsClaimed /\ [Next]_vars => (TypeOK /\ InvokedIsClaimed)'
  <2> SUFFICES ASSUME TypeOK, InvokedIsClaimed, [Next]_vars
               PROVE  (TypeOK /\ InvokedIsClaimed)'
    OBVIOUS
  <2>1. ASSUME Advance, NEW e \in Effect, status[e] # "unclaimed"
        PROVE  status'[e] # "unclaimed"
    <3>1. status[e] \in Status /\ status'[e] \in Status /\ Stage[status[e]] <= Stage[status'[e]]
      BY <2>1 DEF Advance, TypeOK
    <3> QED BY <2>1, <3>1, Stages
  <2>2. CASE Settle
    BY <2>1, <2>2 DEF Settle, Advance, TypeOK, InvokedIsClaimed
  <2>3. ASSUME NEW e \in Effect, Invoke(e) PROVE (TypeOK /\ InvokedIsClaimed)'
    <3>1. Advance /\ status'[e] = "claimed" /\ invoked' = invoked \cup {e}
      BY <2>3 DEF Invoke
    <3> QED BY <2>1, <3>1 DEF Advance, TypeOK, InvokedIsClaimed
  <2>4. CASE UNCHANGED vars
    BY <2>4 DEF vars, TypeOK, InvokedIsClaimed
  <2> QED BY <2>2, <2>3, <2>4 DEF Next
<1> QED BY <1>1, <1>2, PTL DEF Spec

\* A backend is invoked at most once: once invoked, no step invokes it again.
THEOREM InvokedOnce == Spec => [][\A e \in Effect : Invoke(e) => e \notin invoked]_vars
<1>1. TypeOK /\ InvokedIsClaimed /\ [Next]_vars =>
          [\A e \in Effect : Invoke(e) => e \notin invoked]_vars
  BY DEF Invoke, InvokedIsClaimed
<1> QED BY <1>1, Claimed, PTL DEF Spec
=============================================================================
