--------------------------- MODULE SecureChannel ---------------------------
(***************************************************************************)
(* What a secure session promises its two users: a pair of directed        *)
(* channels, each of which delivers, in order and at most once, a prefix   *)
(* of what the other side submitted, and stops delivering for good once    *)
(* the receiving side is down.  No frames, keys, sequence numbers or       *)
(* sockets appear here.                                                    *)
(***************************************************************************)
EXTENDS Naturals, Sequences

CONSTANTS
    Body        \* what an application message may hold

VARIABLES
    sent,       \* sent[e]      : messages e submitted, oldest first
    delivered,  \* delivered[e] : messages handed to e's user, oldest first
    up          \* up[e]        : e still delivers

vars == <<sent, delivered, up>>

End == {"I", "R"}

Peer(e) == IF e = "I" THEN "R" ELSE "I"

Init ==
    /\ sent = [e \in End |-> <<>>]
    /\ delivered = [e \in End |-> <<>>]
    /\ up = [e \in End |-> TRUE]

(* A message submitted on a side that is down is accepted and goes nowhere. *)
Submit(e, b) ==
    /\ sent' = [sent EXCEPT ![e] = Append(@, b)]
    /\ UNCHANGED <<delivered, up>>

(* The next undelivered message; handling it may bring the receiver down. *)
Deliver(e) ==
    /\ up[e]
    /\ Len(delivered[e]) < Len(sent[Peer(e)])
    /\ delivered' =
         [delivered EXCEPT ![e] = Append(@, sent[Peer(e)][Len(@) + 1])]
    /\ \E stillUp \in BOOLEAN : up' = [up EXCEPT ![e] = stillUp]
    /\ UNCHANGED sent

Cut(e) ==
    /\ up[e]
    /\ up' = [up EXCEPT ![e] = FALSE]
    /\ UNCHANGED <<sent, delivered>>

Next ==
    \E e \in End :
        \/ \E b \in Body : Submit(e, b)
        \/ Deliver(e)
        \/ Cut(e)

Spec == Init /\ [][Next]_vars
============================================================================
