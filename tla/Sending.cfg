SPECIFICATION Spec
CONSTANTS
    s1 = s1
    s2 = s2
    t1 = t1
    t2 = t2
    Sessions = {s1, s2}
    Senders = {t1, t2}
    Outgoing <- MCOutgoing
    Casts <- MCCasts
    Raws <- MCRaws
    MaxHandles = 1
    MaxContexts = 3
    MaxSends = 2
INVARIANTS OnePlace Intact StrayOnlyAfterClose DecodesAsSent
PROPERTIES StreamKept
SYMMETRY SenderSymmetry
CHECK_DEADLOCK FALSE
