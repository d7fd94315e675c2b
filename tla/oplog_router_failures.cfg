SPECIFICATION Spec
CONSTANTS
    Routers = {1, 2}
    e1 = e1
    e2 = e2
    e3 = e3
    v0 = v0
    v1 = v1
    v2 = v2
    v3 = v3
    u1 = u1
    u2 = u2
    Executes = {e1, e2}
    Undos = {u1, u2}
    Ops <- OverlappingOps
    MaxOps = 4
    Ids <- MCIds
    FirstId <- MCFirstId
    Existing <- MCExisting
    Fields <- OneField
    Vals <- FourVals
    Unset = Unset
    Absent = Absent
    BodyOnly = BodyOnly
    NoRow = NoRow
    NoOne = NoOne
    FaultKinds = {"router"}
    MaxFaults = 2
    EarlyUndo = FALSE
INVARIANT EveryMutationLogged
INVARIANT ChangesReversedOnce
PROPERTY RollbackRestores
PROPERTY UndoRestores
PROPERTY ReverseOnlyMatching
PROPERTY KeepsItsPromise
