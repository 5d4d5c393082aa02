---------------------------- MODULE MCEffectLog ----------------------------
(* EffectLog and its inductive invariant on small sets of processes and     *)
(* effects, which the .cfg files give as model values.                      *)
EXTENDS EffectLogInvariant
=============================================================================
