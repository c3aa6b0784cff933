SPECIFICATION FairSpec
CONSTANTS
    Capacity = 6
    HeaderSize = 2
    MaxPacketSize = 5
    Payloads <- SomePayloads
    StreamEnd = 14
INVARIANTS
    BufferBounds
    HoldsStream
    EmptyWindowMeansTooLarge
PROPERTIES
    PacketsExact
    LegalPacketHandled
CHECK_DEADLOCK FALSE
