------------------------------ MODULE LossyFifo ------------------------------
(***************************************************************************)
(* What a scheduler promises to one flow.  Packets arrive in order.  A     *)
(* packet may be lost until it is accepted; an accepted one is sent, once, *)
(* and after every older accepted packet of its class.                     *)
(***************************************************************************)
EXTENDS Naturals, Sequences

CONSTANTS Class(_), MaxPackets

VARIABLES
    arrived,   \* packets that arrived so far, numbered from 1
    waiting,   \* those that may still be lost
    accepted,  \* those that may not
    out        \* those that were sent, in order

fifo == <<arrived, waiting, accepted, out>>

Init ==
    /\ arrived = 0
    /\ waiting = {} /\ accepted = {} /\ out = <<>>

Arrive(n) ==
    /\ arrived' = arrived + n
    /\ waiting' = waiting \cup (arrived + 1)..(arrived + n)
    /\ UNCHANGED <<accepted, out>>

(* Of the packets S some are accepted and the others are lost.  Nothing    *)
(* older of the same class is accepted later.                              *)
Decide(S, keep) ==
    /\ S \subseteq waiting /\ keep \subseteq S
    /\ \A p \in keep, q \in waiting \ S : Class(p) = Class(q) => p < q
    /\ waiting' = waiting \ S
    /\ accepted' = accepted \cup keep
    /\ UNCHANGED <<arrived, out>>

Send(p) ==
    /\ p \in accepted
    /\ \A q \in accepted : Class(p) = Class(q) => p <= q
    /\ accepted' = accepted \ {p}
    /\ out' = Append(out, p)
    /\ UNCHANGED <<arrived, waiting>>

Next ==
    \/ \E n \in 1..MaxPackets : Arrive(n)
    \/ \E S \in SUBSET waiting : \E keep \in SUBSET S : Decide(S, keep)
    \/ \E p \in accepted : Send(p)

Spec == Init /\ [][Next]_fifo
=============================================================================
