---------------------------- MODULE MCAgentRuns ----------------------------
\* Constant values and a bound for the model checking of AgentRuns.
EXTENDS AgentRunsInvariant

\* A third run is started only while nothing has been published yet, and
\* publishes no text then; everything else it does is as in Spec.  Both steps
\* are the client's and the model's: no fairness is stated of them.
Quiet == \A r \in Run : \A i \in 1..Len(buffer[r]) : buffer[r][i] # "text"
ShortChains == (\E r \in Run : r > 2 /\ task[r] # "none") => Quiet

MCNext == Next /\ ShortChains'
MCSpec == Init /\ [][MCNext]_vars /\ Fairness
=============================================================================
