SPECIFICATION Spec
CONSTANTS
    RatePerSec = 3
    PerSecond = 10
    MaxGap = 13
INVARIANTS
    TypeOK
    NeverAhead
PROPERTIES
    HalfRateAdmitted
CHECK_DEADLOCK FALSE
