---------------------------- MODULE MCRecvBuffer ----------------------------
(* A small instance of RecvBuffer for TLC.  With a header of 2 bytes the
   packets have 2, 3, 5, 6 and 7 bytes: empty, short, as long as allowed, too
   long but fitting the buffer, and longer than the buffer. *)
EXTENDS RecvBuffer

SomePayloads == {0, 1, 3, 4, 5}
=============================================================================
