SPECIFICATION LifeSpec
CONSTANTS
    Workers = {w1, w2}
    Requests = {q1}
    IOWorkers = {io1}
    MaxLines = 2
INVARIANTS
    NoSleepWhileQueued
    OneCallbackEach
    StoppedDrained
    LinesKept
    OutlivedByCore
    AbruptEnd
PROPERTIES
    EveryRequestAnswered
    StopsUnlessParking
CHECK_DEADLOCK FALSE
