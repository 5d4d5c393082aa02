---------------------------- MODULE MCEffectRun ----------------------------
(* EffectRun with one targeted write, one deletion and one command of       *)
(* unknown scope over a directory and a file in it; the write and the       *)
(* deletion are not mixed.                                                  *)
EXTENDS EffectRunInvariant

CONSTANTS write, remove, command, dir, doc

MCOverlaps == Resource \X Resource
MCSight == {s \in [resource : Resource, incarnation : {0, 1}, verifying : {TRUE},
                   exists : {"yes", "no"}, content : Content \cup {"unknown"}] :
               s.exists = "no" => s.incarnation = 0 /\ s.content = "unknown"}
MCScope == [e \in Effect |-> CASE e = write -> {doc} [] e = remove -> {doc, dir} \cap Resource
                               [] OTHER -> {}]
MCGoals == [e \in Effect |->
    CASE e = write  -> {[target |-> doc, predicate |-> "content_sha256", expected |-> "new"],
                        [target |-> doc, predicate |-> "content_changed", expected |-> "old"]}
      [] e = remove -> {[target |-> dir, predicate |-> "exists", expected |-> "old"],
                        [target |-> doc, predicate |-> "absent", expected |-> "old"]}
      [] OTHER      -> {}]

\* Two scenarios: a targeted write beside a command of unknown scope, where
\* only doc comes and goes; a deletion of dir beside that command, where
\* contents are told apart only by their absence and nothing is interrupted.
Claimed == {e \in Effect : IsClaimed(history, e)}
OneFile == remove \notin Claimed /\ content[dir] = "absent"
             /\ \A r \in Observations(history) : r.sight.resource = doc
Tree    == write \notin Claimed /\ content[dir] # "new" /\ content[doc] # "new"
             /\ \A r \in Outcomes(history) : r.execution # "interrupted"

MCInit == Init /\ (OneFile \/ Tree)
MCNext == Next /\ (OneFile \/ Tree)'
MCSpec == MCInit /\ [][MCNext]_vars
=============================================================================
