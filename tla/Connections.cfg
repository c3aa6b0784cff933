SPECIFICATION FairSpec
CONSTANTS
    Sessions = {c1, c2}
    Limits = {0, 1}
    MaxPulls = 1
INVARIANTS
    CountAgrees
    TokensCover
    OnlySendLeaks
PROPERTIES
    GoneIsForgotten
    SilentDropped
