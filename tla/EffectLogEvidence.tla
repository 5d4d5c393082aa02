------------------------- MODULE EffectLogEvidence -------------------------
(***************************************************************************)
(* The verdicts each process draws from its merged view of the log, when   *)
(* writes fail and writers interleave: EffectLog together with             *)
(* EffectVerdict (EffectLog.history and EffectLog.assessments).            *)
(***************************************************************************)
EXTENDS EffectLog, EffectVerdict

\* EffectLog.assessments, on the merged view
Assessment(w, e) == IF IsClaimed(view[w], e) THEN Verdict(view[w], e) ELSE "none"

\* A process that loses a record it could not persist, because another writer
\* took its position, is never the more confident for it: a verdict becomes
\* VERIFIED only with a sight the process did not have before
\* (effect_log.py:152-155).
LosingARecordIsConservative ==
    [][\A w \in live \cap live', e \in Effect :
          /\ Assessment(w, e) # "verified" /\ Assessment(w, e)' = "verified"
          => Observations(view'[w]) \ Observations(view[w]) # {}]_vars
=============================================================================
