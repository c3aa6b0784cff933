----------------------------- MODULE RecvBuffer -----------------------------
(***************************************************************************)
(* The receive path of one connection: RecvBuffer.cpp and the HandleRecv / *)
(* PostRecv cycle of ServerCore.cpp that drives it.  Only one receive of a *)
(* session is posted at a time, so its steps follow each other; what       *)
(* varies is how TCP cuts the client's stream into receives.               *)
(*                                                                         *)
(* The bytes of the stream are numbered from 0, and a byte in the buffer   *)
(* is represented by its number.  What a header says is a property of the  *)
(* stream: front is the payload size written in the header of the first    *)
(* packet that has not been popped.                                        *)
(***************************************************************************)
EXTENDS Integers

CONSTANTS
    Capacity,       \* RECV_BUF_CAPACITY
    HeaderSize,     \* sizeof(PacketHeader)
    MaxPacketSize,  \* max_packet_size of server.cfg
    Payloads,       \* payload sizes that clients announce (a uint16_t)
    StreamEnd       \* bound: bytes the client sends

ASSUME CapacityType == Capacity \in Nat /\ HeaderSize \in 1 .. Capacity
ASSUME StreamType == MaxPacketSize \in Nat /\ Payloads \subseteq Nat /\ StreamEnd \in Nat

VARIABLES
    data,      \* m_data: the number of the byte in each place, -1 for none
    head,      \* m_head
    tail,      \* m_tail
    window,    \* wsaBuf.len of the posted receive
    pc,        \* where the connection is in the cycle
    received,  \* bytes received so far
    taken,     \* bytes popped so far
    front      \* what the header of the next packet says

vars == <<data, head, tail, window, pc, received, taken, front>>

Places == 0 .. Capacity - 1

Phases == {"handling",  \* in HandleRecv's loop, or before the first PostRecv
           "posted",    \* a receive is posted
           "closed",    \* HandleDisconnect, decided by the receive path
           "dropped"}   \* HandleDisconnect for any other reason

Init ==
    /\ data = [i \in Places |-> -1]
    /\ head = 0 /\ tail = 0 /\ window = 0
    /\ pc = "handling"
    /\ received = 0 /\ taken = 0
    /\ front \in Payloads

----------------------------------------------------------------------------
(* RecvBuffer.cpp.                                                          *)

GetDataSize == head - tail

\* Reading packetSize at m_tail gives what the client wrote if the bytes of
\* the header are there, and anything if they are not.
PacketSizeAtTail ==
    IF \A k \in 0 .. HeaderSize - 1 : data[tail + k] = taken + k THEN {front} ELSE Payloads

\* Mutant of TryGetPacket: the last byte must be followed by another one.
TryGetPacketLate(payload) ==
    /\ GetDataSize >= HeaderSize
    /\ payload \in PacketSizeAtTail
    /\ GetDataSize > HeaderSize + payload

\* Mutant of TryGetPacket: a header is taken for the whole packet.
TryGetPacketEarly(payload) ==
    /\ GetDataSize >= HeaderSize
    /\ payload \in PacketSizeAtTail

\* Returns true, for a packet with this payload size.
TryGetPacket(payload) ==
    /\ GetDataSize >= HeaderSize
    /\ payload \in PacketSizeAtTail
    /\ GetDataSize >= HeaderSize + payload

\* An emptied buffer starts again at 0.
Pop(size) ==
    IF tail + size = head THEN tail' = 0 /\ head' = 0
                          ELSE tail' = tail + size /\ head' = head

\* Mutant of Compact: the positions move and the bytes do not.
CompactWithoutMove == tail' = 0 /\ head' = GetDataSize /\ UNCHANGED data

\* memmove of the unread bytes to the front.
Compact ==
    /\ data' = [i \in Places |-> IF i < GetDataSize THEN data[tail + i] ELSE data[i]]
    /\ tail' = 0 /\ head' = GetDataSize

\* Mutant of GetWriteBufferPtr: space is never reclaimed.
NeverCompacts == UNCHANGED <<data, head, tail>>

\* The place to write to is head'.
GetWriteBufferPtr ==
    \/ head >= Capacity /\ Compact
    \/ head < Capacity /\ UNCHANGED <<data, head, tail>>

\* Mutant of GetWriteBufferSize: the whole buffer, wherever m_head is.
WholeBuffer(h) == Capacity

\* Asked for after GetWriteBufferPtr, with the new m_head.
GetWriteBufferSize(h) == Capacity - h

----------------------------------------------------------------------------
(* ServerCore.cpp.                                                          *)

\* No complete packet is left: the loop of HandleRecv ends and PostRecv posts
\* the next receive.
PostRecv ==
    /\ pc = "handling"
    /\ \/ GetDataSize < HeaderSize
       \/ /\ GetDataSize >= HeaderSize
          /\ \E payload \in PacketSizeAtTail : ~TryGetPacket(payload)
    /\ GetWriteBufferPtr
    /\ window' = GetWriteBufferSize(head')
    /\ pc' = "posted"
    /\ UNCHANGED <<received, taken, front>>

\* The receive completes with n bytes, and HandleRecv begins with Write(n).
RecvCompletes(n) ==
    /\ pc = "posted"
    /\ n <= window /\ received + n <= StreamEnd
    /\ data' = [i \in Places |-> IF i \in head .. head + n - 1 THEN received + i - head ELSE data[i]]
    /\ head' = head + n
    /\ received' = received + n
    /\ pc' = "handling"
    /\ UNCHANGED <<tail, window, taken, front>>

\* A receive into an empty window completes at once with 0 bytes, which
\* WorkerThread takes for the end of the connection.
EmptyRecv ==
    /\ pc = "posted" /\ window = 0
    /\ pc' = "closed"
    /\ UNCHANGED <<data, head, tail, window, received, taken, front>>

\* One turn of HandleRecv's loop: a packet that is not too large is handled
\* and popped.
HandlePacket ==
    /\ pc = "handling"
    /\ \E payload \in Payloads :
         /\ TryGetPacket(payload)
         /\ HeaderSize + payload <= MaxPacketSize
         /\ Pop(HeaderSize + payload)
         /\ taken' = taken + HeaderSize + payload
    /\ front' \in Payloads
    /\ UNCHANGED <<data, window, pc, received>>

\* A packet that is too large ends the connection.
RejectOversized ==
    /\ pc = "handling"
    /\ \E payload \in Payloads : TryGetPacket(payload) /\ HeaderSize + payload > MaxPacketSize
    /\ pc' = "closed"
    /\ UNCHANGED <<data, head, tail, window, received, taken, front>>

\* The client or the network ends the connection, or the rate limit, the
\* heartbeat or a failed send does.
Drop ==
    /\ pc \in {"handling", "posted"}
    /\ pc' = "dropped"
    /\ UNCHANGED <<data, head, tail, window, received, taken, front>>

Receives == \E n \in 1 .. Capacity : RecvCompletes(n)

Next == PostRecv \/ Receives \/ EmptyRecv \/ HandlePacket \/ RejectOversized \/ Drop

Spec == Init /\ [][Next]_vars

\* A worker goes on with what it has begun, an empty receive completes, and
\* the client's bytes arrive while the connection lasts.
Fairness ==
    /\ WF_vars(PostRecv) /\ WF_vars(HandlePacket) /\ WF_vars(RejectOversized)
    /\ WF_vars(Receives) /\ WF_vars(EmptyRecv)

FairSpec == Spec /\ Fairness

----------------------------------------------------------------------------
TypeOK ==
    /\ data \in [Places -> Int]
    /\ head \in 0 .. Capacity /\ tail \in 0 .. Capacity /\ window \in 0 .. Capacity
    /\ pc \in Phases
    /\ received \in Nat /\ taken \in Nat
    /\ front \in Payloads

\* The read position never passes the write position, and a posted receive
\* ends inside the buffer: WSARecv never writes outside m_data.
BufferBounds ==
    /\ tail <= head
    /\ pc = "posted" => head + window <= Capacity

\* The unread part of the buffer is exactly the part of the stream that has
\* been received and not been popped, in order, however it was cut into
\* receives and whenever the buffer was compacted: framing never slips.
HoldsStream ==
    /\ received = taken + GetDataSize
    /\ \A k \in 0 .. GetDataSize - 1 : data[tail + k] = taken + k

\* PostRecv gives WSARecv an empty window, and with it the connection up, only
\* if the packet at the front is larger than the whole buffer.
EmptyWindowMeansTooLarge ==
    pc = "posted" /\ window = 0 => HeaderSize + front > Capacity

\* What HandleRecv hands to a handler and pops is one packet as the client wrote
\* it: it begins where the packet before it ended, it has the length its header
\* was sent with, and its last byte has been received.
PacketsExact ==
    [][taken' # taken => taken' = taken + HeaderSize + front /\ taken' <= received]_vars

\* A packet within both limits is handled once it has been sent, unless the
\* connection ends for another reason.
Fits == HeaderSize + front <= MaxPacketSize /\ HeaderSize + front <= Capacity

LegalPacketHandled ==
    \A t \in 0 .. StreamEnd :
        taken = t /\ Fits /\ t + HeaderSize + front <= StreamEnd
            ~> taken > t \/ pc = "dropped"
=============================================================================
