CONSTANTS
    forward = forward
    input = input
    accept = accept
    drop = drop
    a1 = a1
    blocked = blocked
    other = other
    tcp = tcp
    icmp = icmp
    p1 = p1
    p2 = p2
    p3 = p3
    gw = gw
    r1 = r1
    r2 = r2
    Nothing = Nothing
    NotLoaded = NotLoaded
    Bad = Bad
    BadPrefix = BadPrefix
    BadDestination = BadDestination
    Routers = {r1, r2}
    Master = r1
    MaxRequests = 3
    Chains = {forward, input}
    DefaultChain = forward
    Addresses = {a1}
    ListNames = {blocked}
    Ports = {p1}
    PortProtocols = {tcp}
    OtherProtocols = {icmp}
    Interfaces = {p1}
    ConnStates = {p1}
    Actions = {accept, drop}
    DefaultAction = accept
    Lists = {blocked, other}
    PrefixSet = {p1, p3}
    Imports <- MCImports
    Destinations = {p1}
    Gateways = {gw}
SPECIFICATION MCSpec
CONSTRAINT InScope
INVARIANTS
    TypeOK
    ItemsAgree
    OrderAgrees
    ListIsCurrent
    SentTextIsValid
    FormEntriesDistinct
CHECK_DEADLOCK FALSE
