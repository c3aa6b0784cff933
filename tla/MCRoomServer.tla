---------------------------- MODULE MCRoomServer ----------------------------
(* Small instances of RoomServer for TLC.  Sessions s1, s2, s3 belong to the
   players alice, bob and carol unless the instance says otherwise. *)
EXTENDS RoomServer

CONSTANTS s1, s2, s3, alice, bob, carol

\* Everybody has logged in under an account of their own.
OwnAccount == [s \in Sessions |-> CASE s = s1 -> alice [] s = s2 -> bob [] OTHER -> carol]

\* s1 and s2 have logged in; s3 is a new connection.
ThirdIsNew == [OwnAccount EXCEPT ![s3] = NoAccount]

NoLogins == [s \in Sessions |-> {}]

\* The new connection s3 is alice coming back.
ThirdAsAlice == [s \in Sessions |-> IF s = s3 THEN {alice} ELSE {}]

\* What the clients of an instance send.
Playing     == [s \in Sessions |-> {"C_ROOM_ENTER", "C_ROOM_LEAVE", "C_READY"}]
Moving      == [s \in Sessions |-> {"C_ROOM_ENTER", "C_ROOM_LEAVE"}]
\* s1 sends everything, s2 enters and gets ready, s3 logs in.
Returning   == [s \in Sessions |-> CASE s = s1 -> PacketTypes \ {"C_LOGIN"}
                                     [] s = s2 -> {"C_ROOM_ENTER", "C_READY"}
                                     [] OTHER -> {"C_LOGIN"}]
=============================================================================
