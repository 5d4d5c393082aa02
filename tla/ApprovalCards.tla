--------------------------- MODULE ApprovalCards ---------------------------
(***************************************************************************)
(* What the approval store promises to those who ask and those who answer  *)
(* (src/tool_approvals.py:1-7, 521-551): a card is answered at most once   *)
(* and only while it is current, its call is made at most once and only    *)
(* after it was allowed, a chat shows one card at a time, and the store    *)
(* holds no more cards than its capacity, giving up the oldest ones, and   *)
(* those only for want of room.                                            *)
(***************************************************************************)
EXTENDS Naturals, FiniteSets

CONSTANTS
    Card,        \* cards, numbered in the order in which they are made
    Chat,        \* the places that show one card at a time
    Place,       \* all places where a call may be asked for
    Nowhere,     \* the place of a card that has not been made
    Capacity     \* how many cards may be current

VARIABLES
    state,       \* what has become of each card
    place        \* where it was asked for

vars == <<state, place>>

Init ==
    /\ state = [c \in Card |-> "unmade"]
    /\ place = [c \in Card |-> Nowhere]

Current == {c \in Card : state[c] = "current"}

Withdrawn(cards) == [c \in Card |-> IF c \in cards THEN "withdrawn" ELSE state[c]]

\* Of the cards that the new one does not supersede, the newest are kept.
Seal(c, s) ==
    LET others == {d \in Current : s \in Chat => place[d] # s}
    IN  /\ state[c] = "unmade"
        /\ \E kept \in SUBSET others :
            /\ Cardinality(kept) < Capacity
            /\ kept # others => Cardinality(kept) = Capacity - 1
            /\ \A d \in others \ kept, e \in kept : d < e
            /\ state' = [Withdrawn(Current \ kept) EXCEPT ![c] = "current"]
        /\ place' = [place EXCEPT ![c] = s]

\* Cards expire, are retired by a message, or are lost with the process.
Withdraw ==
    /\ \E cards \in SUBSET Current : state' = Withdrawn(cards)
    /\ UNCHANGED place

Answer(c, decision) ==
    /\ state[c] = "current"
    /\ state' = [state EXCEPT ![c] = decision]
    /\ UNCHANGED place

Call(c) ==
    /\ state[c] = "allowed"
    /\ state' = [state EXCEPT ![c] = "called"]
    /\ UNCHANGED place

Next ==
    \/ Withdraw
    \/ \E c \in Card :
        \/ \E s \in Place : Seal(c, s)
        \/ Answer(c, "allowed") \/ Answer(c, "denied")
        \/ Call(c)

Spec == Init /\ [][Next]_vars
=============================================================================
