---------------------------- MODULE RoomContract ----------------------------
(***************************************************************************)
(* What a room promises its players, without queues, threads, accounts or  *)
(* clocks: the life of a match.  RoomServer implements it for every room,  *)
(* for as long as the room is there.                                       *)
(***************************************************************************)
CONSTANT Players

VARIABLES
    phase,   \* "WAITING", "IN_GAME" or "FINISHED"
    inside   \* the players in the room

contractVars == <<phase, inside>>

Init == phase = "WAITING" /\ inside = {}

\* A player comes in; into a running game only by reconnecting.
Join(p) == inside' = inside \cup {p} /\ UNCHANGED phase

\* Nobody leaves a running game this way.
Leave(p) ==
    /\ phase # "IN_GAME"
    /\ inside' = inside \ {p}
    /\ UNCHANGED phase

\* A game needs at least two players and starts with everybody who is there.
Start ==
    /\ phase = "WAITING"
    /\ \E p, q \in inside : p # q
    /\ phase' = "IN_GAME"
    /\ UNCHANGED inside

\* Leaving a running game ends it, and somebody is left to win.
Forfeit(p) ==
    /\ phase = "IN_GAME"
    /\ p \in inside
    /\ inside' = inside \ {p}
    /\ inside' # {}
    /\ phase' = "FINISHED"

\* The results have been shown.
Reset == phase = "FINISHED" /\ phase' = "WAITING" /\ UNCHANGED inside

Next ==
    \/ \E p \in Players : Join(p) \/ Leave(p) \/ Forfeit(p)
    \/ Start \/ Reset

Spec == Init /\ [][Next]_contractVars
=============================================================================
