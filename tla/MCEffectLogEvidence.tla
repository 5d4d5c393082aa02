------------------------ MODULE MCEffectLogEvidence ------------------------
(* EffectLogEvidence with a write to one file, which a read may confirm or  *)
(* contradict, and an effect elsewhere.                                     *)
EXTENDS EffectLogEvidence

CONSTANTS write, elsewhere, doc, other

MCOverlaps == {<<r, r>> : r \in Resource}
MCScope == [e \in Effect |-> IF e = write THEN {doc} ELSE {other}]
MCGoals == [e \in Effect |->
    IF e = write THEN {[target |-> doc, predicate |-> "content_sha256", expected |-> "new"]}
                 ELSE {}]
MCSight == {[resource |-> doc, incarnation |-> 1, verifying |-> TRUE,
             exists |-> "yes", content |-> c] : c \in Content}
=============================================================================
