SPECIFICATION FairSpec
CONSTANTS
    Routers = {1, 2}
    e1 = e1
    e2 = e2
    e3 = e3
    v0 = v0
    v1 = v1
    v2 = v2
    v3 = v3
    u1 = u1
    u2 = u2
    Executes = {e1, e2, e3}
    Undos = {u1}
    Ops <- CrossedOpsAndNone
    MaxOps = 2
    Ids <- MCIds
    FirstId <- MCFirstId
    Existing <- MCExisting
    Fields <- OneField
    Vals <- ThreeVals
    Unset = Unset
    Absent = Absent
    BodyOnly = BodyOnly
    NoRow = NoRow
    NoOne = NoOne
    FaultKinds = {"router", "db", "cancel", "crash"}
    MaxFaults = 1
    EarlyUndo = TRUE
PROPERTY EveryRequestEnds
