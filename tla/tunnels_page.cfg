CONSTANTS
    r1 = r1
    r2 = r2
    s1 = s1
    s2 = s2
    n1 = n1
    x1 = x1
    t1 = t1
    NoTransit = NoTransit
    Nothing = Nothing
    Routers = {r1, r2}
    Master = r1
    Names = {t1}
    Settings = {s1, s2}
    Nets = {n1}
    MaxCopies = 1
    Transits = {x1}
    MaxSubnets = 1
    MaxRequests = 2
    Glimpses <- MCGlimpses
    Existing <- MCExisting
    OtherBodies <- MCOtherBodies
SPECIFICATION MCSpec
INVARIANTS
    TypeOK
    TunnelIsWhole
    AgreeUnlessTorn
    AcknowledgedIsShown
PROPERTIES
    SentIsValid
    SavingEnds
CHECK_DEADLOCK FALSE
