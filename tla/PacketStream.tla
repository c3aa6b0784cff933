---------------------------- MODULE PacketStream ----------------------------
(***************************************************************************)
(* What a connection promises to its client, without threads, IOContexts,  *)
(* buffers, pools and socket handles: packets arrive in the order in which *)
(* they were handed over, each one once and as it was, until the           *)
(* connection ends.  Sending implements it for every session.              *)
(***************************************************************************)
EXTENDS Naturals, Sequences

CONSTANT Items      \* what can be sent

VARIABLES
    sent,       \* what has been handed over
    arrived     \* what the client has

streamVars == <<sent, arrived>>

Init == sent = << >> /\ arrived = << >>

HandOver(p) == sent' = Append(sent, p) /\ UNCHANGED arrived

\* The first packet that has not arrived does.
Arrive ==
    /\ Len(arrived) < Len(sent)
    /\ arrived' = Append(arrived, sent[Len(arrived) + 1])
    /\ UNCHANGED sent

Next == Arrive \/ \E p \in Items : HandOver(p)

Spec == Init /\ [][Next]_streamVars
=============================================================================
