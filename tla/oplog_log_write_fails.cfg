SPECIFICATION Spec
CONSTANTS
    Routers = {1, 2}
    e1 = e1
    e2 = e2
    e3 = e3
    v0 = v0
    v1 = v1
    v2 = v2
    v3 = v3
    u1 = u1
    u2 = u2
    Executes = {e1, e2}
    Undos = {}
    Ops <- MixedOps
    MaxOps = 3
    Ids <- MCIds
    FirstId <- MCFirstId
    Existing <- MCExisting
    Fields <- OneField
    Vals <- ThreeVals
    Unset = Unset
    Absent = Absent
    BodyOnly = BodyOnly
    NoRow = NoRow
    NoOne = NoOne
    FaultKinds = {"db"}
    MaxFaults = 1
    EarlyUndo = FALSE
INVARIANT FailedLeavesNothing
