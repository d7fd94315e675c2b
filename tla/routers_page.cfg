CONSTANTS
    a = a
    b = b
    h1 = h1
    h2 = h2
    h3 = h3
    NoHost = NoHost
    NoName = NoName
    NewRouter = NewRouter
    Names = {a, b}
    Hosts = {h1, h2, h3}
    RouterNames <- MCRouterNames
    MaxRequests = 2
SPECIFICATION MCSpec
INVARIANTS
    TypeOK
    RolesUnlessOverlap
    RouterlessOnlyAfterFailure
    BlankUserOnlyAsSent
    TestedMeansTested
CHECK_DEADLOCK FALSE
