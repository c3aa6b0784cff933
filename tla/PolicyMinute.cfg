SPECIFICATION MinuteSpec
CONSTANTS
    Sessions = {c1, c2}
    Limits = {1}
    MaxPulls = 2
INVARIANTS
    LimitPerMinute
