---------------------------- MODULE EventStream ----------------------------
(***************************************************************************)
(* What a detached run promises to the clients that follow it              *)
(* (src/agent_runs.py:1-16): each follows one run, receives the events of  *)
(* that run from the first one on, in order, none twice and none missing,  *)
(* and is told that the run is over only when it has received all of them. *)
(***************************************************************************)
EXTENDS Naturals, Sequences

CONSTANTS Run, Client, Event, NoRun

VARIABLES
    log,         \* the events of each run
    over,        \* the runs that are over
    follows,     \* the run each client follows, or followed to its end
    received,    \* the positions of the events the client received, in order
    told         \* the clients that were told that their run is over

vars == <<log, over, follows, received, told>>

Init ==
    /\ log = [r \in Run |-> <<>>]
    /\ over = {}
    /\ follows = [c \in Client |-> NoRun]
    /\ received = [c \in Client |-> <<>>]
    /\ told = {}

\* The log of a run only grows.  A run that is over may still report that its
\* end failed.
Extends(s, t) == Len(s) <= Len(t) /\ \A i \in 1..Len(s) : t[i] = s[i]

Produce ==
    /\ log' \in [Run -> Seq(Event)]
    /\ \A r \in Run : Extends(log[r], log'[r])
    /\ over \subseteq over' /\ over' \subseteq Run

Emit == Produce /\ UNCHANGED <<follows, received, told>>

\* A client comes, possibly on a connection that is new to it, or it leaves.
Follow(c, r) ==
    /\ follows' = [follows EXCEPT ![c] = r]
    /\ received' = [received EXCEPT ![c] = <<>>]
    /\ told' = told \ {c}

Come(c) == Produce /\ \E r \in Run : Follow(c, r)
Leave(c) == Follow(c, NoRun) /\ UNCHANGED <<log, over>>

Receive(c) ==
    /\ c \notin told /\ follows[c] # NoRun
    /\ Len(received[c]) < Len(log[follows[c]])
    /\ received' = [received EXCEPT ![c] = Append(@, Len(@) + 1)]
    /\ UNCHANGED <<log, over, follows, told>>

Tell(c) ==
    /\ follows[c] \in over
    /\ Len(received[c]) = Len(log[follows[c]])
    /\ told' = told \cup {c}
    /\ UNCHANGED <<log, over, follows, received>>

Next == Emit \/ \E c \in Client : Come(c) \/ Leave(c) \/ Receive(c) \/ Tell(c)

Spec == Init /\ [][Next]_vars
=============================================================================
