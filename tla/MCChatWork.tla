---------------------------- MODULE MCChatWork ----------------------------
(* One chat with a question and an answer from before the server started.   *)
EXTENDS ChatWorkInvariant

MCOld == <<<<"user", 0>>, <<"reply", 0>>>>

\* A second turn or a second fault comes only while no shell job and no restart
\* has touched the chat.
Untouched == crashes = 0 /\ slips = 0 /\ \A j \in Job : process[j] = "none" /\ shellJob[j] = "none"
Faults == Cardinality(unsaved) + slips + crashes

MCNext == Next /\ (turns > 1 \/ Faults > 1 => Untouched)'
MCSpec == Init /\ [][MCNext]_vars /\ Fairness
=============================================================================
