-------------------------- MODULE RecvBufferProofs --------------------------
(***************************************************************************)
(* RecvBuffer's safety for every capacity, header size and stream.         *)
(***************************************************************************)
EXTENDS RecvBuffer, TLAPS

\* While a receive is posted its window is all that is left behind m_head,
\* and the packet at the front is not complete.
Waiting ==
    pc = "posted" => /\ window = Capacity - head
                     /\ GetDataSize < HeaderSize + front
                     /\ head = Capacity => tail = 0

IInv == TypeOK /\ BufferBounds /\ HoldsStream /\ Waiting

\* A header that has arrived is read as the client wrote it.
LEMMA HeaderIntact ==
    ASSUME IInv, GetDataSize >= HeaderSize
    PROVE  PacketSizeAtTail = {front}
  <1>1. \A k \in 0 .. HeaderSize - 1 : k \in 0 .. GetDataSize - 1
    BY CapacityType DEF IInv, TypeOK, GetDataSize
  <1> QED
    BY <1>1 DEF IInv, HoldsStream, PacketSizeAtTail

LEMMA InitIInv == Init => IInv
  BY CapacityType DEF Init, IInv, TypeOK, BufferBounds, HoldsStream, Waiting, GetDataSize,
     Phases, Places

\* Compact keeps the unread bytes, in order, and makes all of the rest room.
LEMMA CompactKeeps ==
    ASSUME IInv, Compact
    PROVE  /\ data' \in [Places -> Int]
           /\ tail' = 0 /\ head' = GetDataSize /\ head' \in 0 .. Capacity
           /\ \A k \in 0 .. GetDataSize - 1 : data'[k] = data[tail + k]
  <1>1. GetDataSize \in 0 .. Capacity /\ Capacity \in Nat
    BY CapacityType DEF IInv, TypeOK, BufferBounds, GetDataSize
  <1>2. \A i \in Places : i < GetDataSize => tail + i \in Places
    BY <1>1 DEF IInv, TypeOK, BufferBounds, GetDataSize, Places
  <1>3. data' \in [Places -> Int]
    BY <1>2 DEF IInv, TypeOK, Compact
  <1>4. \A k \in 0 .. GetDataSize - 1 : k \in Places /\ k < GetDataSize
    BY <1>1 DEF Places
  <1> QED
    BY <1>1, <1>3, <1>4 DEF Compact

LEMMA PostRecvKeeps ==
    ASSUME IInv, PostRecv
    PROVE  IInv'
  <1>1. GetDataSize < HeaderSize + front
    <2>1. CASE GetDataSize < HeaderSize
      BY <2>1, CapacityType, StreamType DEF IInv, TypeOK, GetDataSize
    <2>2. CASE GetDataSize >= HeaderSize
      <3>1. PacketSizeAtTail = {front} /\ ~TryGetPacket(front)
        <4>1. PacketSizeAtTail = {front} /\ ~(GetDataSize < HeaderSize)
          BY <2>2, HeaderIntact, CapacityType DEF IInv, TypeOK, GetDataSize
        <4> QED
          BY <4>1 DEF PostRecv
      <3> QED
        BY <2>2, <3>1, CapacityType, StreamType DEF TryGetPacket, IInv, TypeOK, GetDataSize
    <2> QED
      BY <2>1, <2>2, CapacityType DEF IInv, TypeOK, GetDataSize
  <1>2. UNCHANGED <<received, taken, front>> /\ pc' = "posted" /\ window' = Capacity - head'
    BY DEF PostRecv, GetWriteBufferSize
  <1>3. CASE head >= Capacity /\ Compact
    <2>1. /\ data' \in [Places -> Int]
          /\ tail' = 0 /\ head' = GetDataSize /\ head' \in 0 .. Capacity
          /\ \A k \in 0 .. GetDataSize - 1 : data'[k] = data[tail + k]
      BY <1>3, CompactKeeps
    <2>2. GetDataSize' = GetDataSize /\ GetDataSize \in Nat
      BY <2>1, CapacityType DEF GetDataSize
    <2>3. TypeOK' /\ BufferBounds'
      BY <1>2, <2>1, CapacityType DEF IInv, TypeOK, BufferBounds, Phases
    <2>4. HoldsStream'
      BY <1>2, <2>1, <2>2 DEF IInv, HoldsStream
    <2>5. Waiting'
      BY <1>1, <1>2, <2>1, <2>2 DEF Waiting
    <2> QED
      BY <2>3, <2>4, <2>5 DEF IInv
  <1>4. CASE head < Capacity /\ UNCHANGED <<data, head, tail>>
    <2>1. TypeOK' /\ BufferBounds'
      BY <1>2, <1>4, CapacityType DEF IInv, TypeOK, BufferBounds, Phases
    <2>2. HoldsStream'
      BY <1>2, <1>4 DEF IInv, HoldsStream, GetDataSize
    <2>3. Waiting'
      BY <1>1, <1>2, <1>4, CapacityType DEF IInv, TypeOK, Waiting, GetDataSize
    <2> QED
      BY <2>1, <2>2, <2>3 DEF IInv
  <1> QED
    BY <1>3, <1>4 DEF PostRecv, GetWriteBufferPtr

LEMMA RecvKeeps ==
    ASSUME IInv, NEW n \in 1 .. Capacity, RecvCompletes(n)
    PROVE  IInv'
  <1>1. /\ window = Capacity - head /\ head' = head + n /\ head' <= Capacity
        /\ received' = received + n /\ pc' = "handling"
        /\ UNCHANGED <<tail, window, taken, front>>
    BY CapacityType DEF IInv, TypeOK, Waiting, RecvCompletes
  <1>2. data' \in [Places -> Int]
    BY CapacityType DEF IInv, TypeOK, RecvCompletes, Places
  <1>3. TypeOK' /\ BufferBounds'
    BY <1>1, <1>2, CapacityType DEF IInv, TypeOK, BufferBounds, Phases
  <1>4. received' = taken' + GetDataSize'
    BY <1>1, CapacityType DEF IInv, TypeOK, HoldsStream, GetDataSize
  <1>5. ASSUME NEW k \in 0 .. GetDataSize' - 1 PROVE data'[tail' + k] = taken' + k
    <2> DEFINE i == tail + k
    <2>1. i \in Places /\ k \in Nat /\ i < head + n
      BY <1>1, <1>5, CapacityType DEF IInv, TypeOK, BufferBounds, GetDataSize, Places
    <2>2. data'[i] = IF i \in head .. head + n - 1 THEN received + i - head ELSE data[i]
      BY <2>1 DEF RecvCompletes
    <2>3. CASE i < head
      <3>1. k \in 0 .. GetDataSize - 1
        BY <2>1, <2>3, CapacityType DEF IInv, TypeOK, GetDataSize
      <3>2. data[i] = taken + k
        BY <3>1 DEF IInv, HoldsStream
      <3> QED
        BY <1>1, <2>1, <2>2, <2>3, <3>2, CapacityType DEF IInv, TypeOK
    <2>4. CASE i >= head
      BY <1>1, <2>1, <2>2, <2>4, CapacityType DEF IInv, TypeOK, HoldsStream, GetDataSize
    <2> QED
      BY <2>1, <2>3, <2>4, CapacityType DEF IInv, TypeOK
  <1>6. HoldsStream'
    BY <1>4, <1>5 DEF HoldsStream
  <1>7. Waiting'
    BY <1>1 DEF Waiting
  <1> QED
    BY <1>3, <1>6, <1>7 DEF IInv

LEMMA HandlePacketKeeps ==
    ASSUME IInv, HandlePacket
    PROVE  IInv'
  <1>1. PICK payload \in Payloads :
            /\ TryGetPacket(payload) /\ Pop(HeaderSize + payload)
            /\ taken' = taken + HeaderSize + payload
    BY DEF HandlePacket
  <1> DEFINE size == HeaderSize + payload
  <1>2. size \in Nat /\ size >= 1 /\ size <= GetDataSize
    BY <1>1, CapacityType, StreamType DEF TryGetPacket
  <1>3. /\ UNCHANGED <<data, window, pc, received>> /\ pc = "handling"
        /\ front' \in Payloads /\ taken' = taken + size
    BY <1>1, <1>2, CapacityType, StreamType DEF HandlePacket, IInv, TypeOK
  <1>4. Pop(size)
    BY <1>1
  <1> HIDE DEF size
  <1>5. CASE tail + size = head
    <2>1. tail' = 0 /\ head' = 0 /\ received' = taken'
      BY <1>2, <1>3, <1>4, <1>5, CapacityType DEF Pop, IInv, TypeOK, HoldsStream, GetDataSize
    <2> QED
      BY <1>2, <1>3, <2>1, CapacityType
      DEF IInv, TypeOK, BufferBounds, HoldsStream, Waiting, GetDataSize
  <1>6. CASE tail + size # head
    <2>1. tail' = tail + size /\ head' = head /\ tail' <= head
      BY <1>2, <1>4, <1>6, CapacityType DEF Pop, IInv, TypeOK, GetDataSize
    <2>2. TypeOK' /\ BufferBounds' /\ Waiting'
      BY <1>2, <1>3, <2>1, CapacityType DEF IInv, TypeOK, BufferBounds, Waiting
    <2>3. received' = taken' + GetDataSize'
      BY <1>2, <1>3, <2>1, CapacityType DEF IInv, TypeOK, HoldsStream, GetDataSize
    <2>4. ASSUME NEW k \in 0 .. GetDataSize' - 1 PROVE data'[tail' + k] = taken' + k
      <3>1. size + k \in 0 .. GetDataSize - 1 /\ tail' + k = tail + (size + k)
        BY <1>2, <2>1, <2>4, CapacityType DEF IInv, TypeOK, GetDataSize
      <3>2. data[tail + (size + k)] = taken + (size + k)
        BY <3>1 DEF IInv, HoldsStream
      <3> QED
        BY <1>2, <1>3, <2>4, <3>1, <3>2 DEF IInv, TypeOK
    <2> QED
      BY <2>2, <2>3, <2>4 DEF IInv, HoldsStream
  <1> QED
    BY <1>5, <1>6

LEMMA NextIInv == IInv /\ [Next]_vars => IInv'
  <1> SUFFICES ASSUME IInv, [Next]_vars PROVE IInv'
    OBVIOUS
  <1>1. CASE PostRecv
    BY <1>1, PostRecvKeeps
  <1>2. CASE Receives
    BY <1>2, RecvKeeps DEF Receives
  <1>3. CASE HandlePacket
    BY <1>3, HandlePacketKeeps
  <1>4. CASE EmptyRecv \/ RejectOversized \/ Drop
    BY <1>4
    DEF EmptyRecv, RejectOversized, Drop, IInv, TypeOK, BufferBounds, HoldsStream, Waiting,
        GetDataSize, Phases
  <1>5. CASE UNCHANGED vars
    BY <1>5 DEF vars, IInv, TypeOK, BufferBounds, HoldsStream, Waiting, GetDataSize
  <1> QED
    BY <1>1, <1>2, <1>3, <1>4, <1>5 DEF Next

LEMMA Invariance == Spec => []IInv
  BY InitIInv, NextIInv, PTL DEF Spec

\* Every variable keeps its type: m_head and m_tail are positions of the buffer.
THEOREM TypeCorrect == Spec => []TypeOK
  <1>1. IInv => TypeOK
    BY DEF IInv
  <1> QED
    BY <1>1, Invariance, PTL

\* The read position never passes the write position, and no posted receive
\* reaches past the end of m_data.
THEOREM BufferSafe == Spec => []BufferBounds
  <1>1. IInv => BufferBounds
    BY DEF IInv
  <1> QED
    BY <1>1, Invariance, PTL

\* Framing never slips: what is unread is the stream from the first byte that
\* has not been popped.
THEOREM FramingExact == Spec => []HoldsStream
  <1>1. IInv => HoldsStream
    BY DEF IInv
  <1> QED
    BY <1>1, Invariance, PTL

\* Only a packet larger than the buffer can starve the receive.
THEOREM OnlyTooLargeStarves == Spec => []EmptyWindowMeansTooLarge
  <1>1. IInv => EmptyWindowMeansTooLarge
    <2> SUFFICES ASSUME IInv, pc = "posted", window = 0
                 PROVE  HeaderSize + front > Capacity
      BY DEF EmptyWindowMeansTooLarge
    <2>1. head = Capacity /\ tail = 0 /\ GetDataSize < HeaderSize + front
      BY CapacityType DEF IInv, TypeOK, Waiting
    <2> QED
      BY <2>1, CapacityType, StreamType DEF IInv, TypeOK, GetDataSize
  <1> QED
    BY <1>1, Invariance, PTL
\* A packet is popped only when it is the client's next packet, whole.
THEOREM PoppedAsSent == Spec => PacketsExact
  <1>1. ASSUME IInv, [Next]_vars
        PROVE  [taken' # taken => taken' = taken + HeaderSize + front /\ taken' <= received]_vars
    <2>1. CASE HandlePacket
      <3>1. PICK payload \in Payloads :
                TryGetPacket(payload) /\ taken' = taken + HeaderSize + payload
        BY <2>1 DEF HandlePacket
      <3>2. payload = front
        BY <1>1, <3>1, HeaderIntact DEF TryGetPacket
      <3> QED
        BY <1>1, <3>1, <3>2, CapacityType, StreamType
        DEF TryGetPacket, IInv, TypeOK, HoldsStream, GetDataSize
    <2>2. CASE PostRecv \/ Receives \/ EmptyRecv \/ RejectOversized \/ Drop \/ UNCHANGED vars
      BY <2>2 DEF PostRecv, Receives, RecvCompletes, EmptyRecv, RejectOversized, Drop, vars
    <2> QED
      BY <1>1, <2>1, <2>2 DEF Next
  <1> QED
    BY <1>1, Invariance, PTL DEF Spec, PacketsExact
=============================================================================
