SPECIFICATION Spec
CONSTANTS
    Routers = {1, 2}
    e1 = e1
    e2 = e2
    e3 = e3
    v0 = v0
    v1 = v1
    v2 = v2
    v3 = v3
    u1 = u1
    u2 = u2
    Executes = {e1, e2}
    Undos = {u1}
    Ops <- CrossedOps
    MaxOps = 2
    Ids <- MCIds
    FirstId <- MCFirstId
    Existing <- MCExisting
    Fields <- OneField
    Vals <- ThreeVals
    Unset = Unset
    Absent = Absent
    BodyOnly = BodyOnly
    NoRow = NoRow
    NoOne = NoOne
    FaultKinds = {"router", "lost", "cancel", "crash", "edit"}
    MaxFaults = 2
    EarlyUndo = TRUE
INVARIANT TypeOK
INVARIANT NoCircularWait
INVARIANT UndoneRowsAreReversed
PROPERTY LocksAsOne
