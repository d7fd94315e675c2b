---------------------------- MODULE OperationLog ----------------------------
(***************************************************************************)
(* The operation service of the backend (internal/operation): Execute      *)
(* applies a group of router mutations while logging each of them, and     *)
(* Undo reverses a logged group after checking that nothing drifted.       *)
(* Both serialize on per-router mutexes, talk to the routers over HTTP     *)
(* and to Postgres one statement at a time, so every call below is a step  *)
(* of its own and every call can fail.                                     *)
(*                                                                         *)
(* An Execute request creates exactly one group, so the request also       *)
(* names its group.                                                        *)
(***************************************************************************)
EXTENDS Integers, Sequences, FiniteSets

CONSTANTS
    Routers,     \* router IDs; the order on them is the order of sort.Strings
    Executes,    \* Execute requests, and the groups they create
    Undos,       \* Undo requests
    Ops,         \* Ops[e]: the operations of request e, a sequence
    MaxOps,      \* the length of the longest of them
    Ids,         \* resource IDs a router may give out
    Existing,    \* Existing[r]: the resources router r starts with
    FirstId,     \* FirstId[r]: the first ID r has not given out yet
    Fields,      \* the non-volatile fields of a resource
    Vals,        \* the values of a field
    Unset,       \* a field a resource (or a request body) does not have
    Absent,      \* no resource under this ID
    BodyOnly,    \* an after state copied from a request body: it has no .id
    NoRow,       \* no row in the operations table
    NoOne,       \* a free mutex, an Undo that has not read its group
    FaultKinds,  \* which of the faults below the environment may inject
    MaxFaults,   \* how many of them
    EarlyUndo    \* may an Undo name a group whose Execute still runs

Procs == Executes \cup Undos
Positions == 1..MaxOps

\* A resource as RouterOS returns it, volatile fields left out.
State == [Fields -> Vals \cup {Unset}]
Operation == [router: Routers, type: {"add", "modify", "delete"},
              id: Ids, body: State]

GroupStatus == {"none", "applied", "undone", "failed", "requires_attention"}
OpStatus == {"applied", "undone", "failed"}
Draft == [id: Nat, before: State, after: State \cup {BodyOnly}]
Row == [status: OpStatus, id: Nat, before: State, after: State \cup {BodyOnly}]

Faults == {"router", "lost", "db", "cancel", "crash", "edit"}

ASSUME RoutersAssumption == Routers \subseteq Nat
ASSUME ProcsAssumption ==
    /\ Executes \cap Undos = {}
    /\ NoOne \notin Procs
ASSUME OpsAssumption ==
    /\ MaxOps \in Nat
    /\ Ops \in [Executes -> Seq(Operation)]
    /\ \A e \in Executes : Len(Ops[e]) <= MaxOps
ASSUME IdsAssumption ==
    /\ Ids \subseteq Nat
    /\ Existing \in [Routers -> [Ids -> State \cup {Absent}]]
    /\ FirstId \in [Routers -> Nat]
    /\ \A r \in Routers, id \in Ids : id >= FirstId[r] => Existing[r][id] = Absent
ASSUME NullAssumption ==
    /\ Unset \notin Vals
    /\ Absent \notin State
    /\ BodyOnly \notin State
    /\ NoRow \notin Row
ASSUME FaultAssumption ==
    /\ FaultKinds \subseteq Faults
    /\ MaxFaults \in Nat
    /\ EarlyUndo \in BOOLEAN

VARIABLES
    \* the routers
    config,      \* config[r][id]: the resource with that ID on router r
    nextId,      \* nextId[r]: the ID r gives to the next resource it creates
    \* the database
    groupStatus, \* operation_groups.status, "none" before the INSERT
    rows,        \* rows[g][i]: the row of operations with sequence i
    \* the backend process
    holder,      \* muMap: who holds the mutex of a router
    pc,          \* the call a request performs next
    idx,         \* the operation a request works on
    draft,       \* Execute: the Operation being built for position idx
    rolledBack,  \* Execute: allRolledBack of rollbackApplied
    target,      \* Undo: the group it was asked for
    snap,        \* Undo: the group read before locking: status and rows
    reply,       \* the status in the response, "none" before it is sent
    cancelled,   \* requests whose context is cancelled
    faults,      \* faults injected so far
    \* history
    balance      \* how often an operation was applied, less how often reversed

routerVars == <<config, nextId, balance>>
dbVars == <<groupStatus, rows>>
execVars == <<draft, rolledBack>>
undoVars == <<target, snap>>
envVars == <<cancelled, faults>>
vars == <<routerVars, dbVars, execVars, undoVars, envVars,
          holder, pc, idx, reply>>

ExecPC == {"idle", "lock", "create", "clients", "abandon", "before", "apply",
           "after", "insert", "recordFailure", "rollback", "markUndone",
           "markFailed", "respond", "succeed", "done"}
UndoPC == {"idle", "readOps", "lock", "clients", "match", "reverse", "mark",
           "attention", "done"}
Reply == {"none", "error", "applied", "undone", "failed",
          "requires_attention", "undo_blocked"}

RouterTypeOK ==
    /\ config \in [Routers -> [Ids -> State \cup {Absent}]]
    /\ nextId \in [Routers -> Nat]
    /\ balance \in [Executes -> [Positions -> Int]]
DbTypeOK ==
    /\ groupStatus \in [Executes -> GroupStatus]
    /\ rows \in [Executes -> [Positions -> Row \cup {NoRow}]]
ExecTypeOK ==
    /\ draft \in [Executes -> Draft]
    /\ rolledBack \in [Executes -> BOOLEAN]
UndoTypeOK ==
    /\ target \in [Undos -> Executes \cup {NoOne}]
    /\ snap \in [Undos -> [status: GroupStatus,
                           rows: [Positions -> Row \cup {NoRow}]]]
EnvTypeOK ==
    /\ cancelled \subseteq Procs
    /\ faults \in Nat
ControlTypeOK ==
    /\ holder \in [Routers -> Procs \cup {NoOne}]
    /\ pc \in [Procs -> ExecPC \cup UndoPC]
    /\ idx \in [Procs -> Nat]
    /\ reply \in [Procs -> Reply]

\* The type of every variable.
TypeOK ==
    /\ RouterTypeOK /\ DbTypeOK /\ ExecTypeOK
    /\ UndoTypeOK /\ EnvTypeOK /\ ControlTypeOK

-----------------------------------------------------------------------------
(* Helpers of both handlers                                                *)

\* A Go map that was never set: it has no fields.
Nothing == [f \in Fields |-> Unset]
NewDraft(id) == [id |-> id, before |-> Nothing, after |-> Nothing]
NoSnap == [status |-> "none", rows |-> [i \in Positions |-> NoRow]]
OpAt(g, i) == Ops[g][i]
Resource(r, id) == config[r][id]

\* uniqueRouterIDs: of the request's operations, or of the rows Undo read
\* (the failed rows included).
Needs(p) ==
    IF p \in Executes
    THEN {OpAt(p, i).router : i \in 1..Len(Ops[p])}
    ELSE {OpAt(target[p], i).router :
              i \in {j \in Positions : snap[p].rows[j] # NoRow}}

\* The rows Undo works on: those it read as applied.
Todo(u) == {i \in Positions : /\ snap[u].rows[i] # NoRow
                              /\ snap[u].rows[i].status = "applied"}
\* i is the next of them; both loops of Undo run from the last row down.
NextTodo(u, i) ==
    /\ i \in Todo(u)
    /\ i <= idx[u]
    /\ \A j \in Todo(u) : j <= idx[u] => j <= i
NothingTodo(u) == \A i \in Todo(u) : i > idx[u]

\* A remote call of request p that succeeds, and one that fails because its
\* context is cancelled or because the environment injects a fault.
CallOk(p) == p \notin cancelled /\ UNCHANGED envVars
Inject(kind) ==
    /\ kind \in FaultKinds
    /\ faults < MaxFaults
    /\ faults' = faults + 1
    /\ UNCHANGED cancelled
CallFails(p, kind) == (p \in cancelled /\ UNCHANGED envVars) \/ Inject(kind)
\* The router carried the mutation out but its answer never arrived.
AnswerLost(p) == p \notin cancelled /\ Inject("lost")

Goto(p, l) == pc' = [pc EXCEPT ![p] = l]

\* A return statement: the deferred unlock releases every mutex.
Return(p, answer) ==
    /\ Goto(p, "done")
    /\ reply' = [reply EXCEPT ![p] = answer]
    /\ holder' = [r \in Routers |-> IF holder[r] = p THEN NoOne ELSE holder[r]]

\* One statement whose error the code discards: "_ = s.repo.Update...".
BestEffort(p, written, unwritten) ==
    \/ CallOk(p) /\ written
    \/ CallFails(p, "db") /\ unwritten

\* Mutant: the status of the response, which the enum column does not have.
SetResponseStatus(p, g, s) ==
    BestEffort(p,
        groupStatus' = [groupStatus EXCEPT ![g] =
                            IF s = "requires_attention" THEN "undo_blocked" ELSE s],
        UNCHANGED groupStatus)

SetGroupStatus(p, g, s) ==
    BestEffort(p, groupStatus' = [groupStatus EXCEPT ![g] = s],
               UNCHANGED groupStatus)

SetRowStatus(p, g, i, s) ==
    BestEffort(p,
        rows' = [rows EXCEPT ![g][i] =
                     IF @ = NoRow THEN NoRow ELSE [@ EXCEPT !.status = s]],
        UNCHANGED rows)

-----------------------------------------------------------------------------
(* RouterOS                                                                *)

\* A PATCH sets the fields in its body and leaves the others alone.
Merge(state, body) ==
    [f \in Fields |-> IF body[f] = Unset THEN state[f] ELSE body[f]]

CreateResource(r, state) ==
    /\ nextId[r] \in Ids
    /\ config' = [config EXCEPT ![r][nextId[r]] = state]
    /\ nextId' = [nextId EXCEPT ![r] = @ + 1]
PatchResource(r, id, body) ==
    /\ Resource(r, id) # Absent
    /\ config' = [config EXCEPT ![r][id] = Merge(@, body)]
    /\ UNCHANGED nextId
DeleteResource(r, id) ==
    /\ Resource(r, id) # Absent
    /\ config' = [config EXCEPT ![r][id] = Absent]
    /\ UNCHANGED nextId

Count(g, i, n) == balance' = [balance EXCEPT ![g][i] = @ + n]

\* applyOperation, as carried out by the router.
Carry(e, i) ==
    LET op == OpAt(e, i) IN
    /\ \/ op.type = "add" /\ CreateResource(op.router, op.body)
       \/ op.type = "modify" /\ PatchResource(op.router, op.id, op.body)
       \/ op.type = "delete" /\ DeleteResource(op.router, op.id)
    /\ Count(e, i, 1)

\* Mutant: a modify is reversed with the body of the request.
CarryReverseFromBody(g, i, row) ==
    LET op == OpAt(g, i) IN
    /\ \/ op.type = "add" /\ DeleteResource(op.router, row.id)
       \/ op.type = "modify" /\ PatchResource(op.router, row.id, op.body)
       \/ op.type = "delete" /\ CreateResource(op.router, row.before)
    /\ Count(g, i, -1)

\* reverseOperation, as carried out by the router, from the row of the
\* operation: a deleted resource comes back under a new ID.
CarryReverse(g, i, row) ==
    LET op == OpAt(g, i) IN
    /\ \/ op.type = "add" /\ DeleteResource(op.router, row.id)
       \/ op.type = "modify" /\ PatchResource(op.router, row.id, row.before)
       \/ op.type = "delete" /\ CreateResource(op.router, row.before)
    /\ Count(g, i, -1)

\* The resource an operation is about is gone: the router answers 404.
NotFound(g, i, id) ==
    Resource(OpAt(g, i).router, id) = Absent

Init ==
    /\ config = Existing
    /\ nextId = FirstId
    /\ balance = [e \in Executes |-> [i \in Positions |-> 0]]
    /\ groupStatus = [e \in Executes |-> "none"]
    /\ rows = [e \in Executes |-> [i \in Positions |-> NoRow]]
    /\ holder = [r \in Routers |-> NoOne]
    /\ pc = [p \in Procs |-> "idle"]
    /\ idx = [p \in Procs |-> 0]
    /\ draft = [e \in Executes |-> NewDraft(0)]
    /\ rolledBack = [e \in Executes |-> TRUE]
    /\ target = [u \in Undos |-> NoOne]
    /\ snap = [u \in Undos |-> NoSnap]
    /\ reply = [p \in Procs |-> "none"]
    /\ cancelled = {}
    /\ faults = 0

-----------------------------------------------------------------------------
(* lockRouterIDs                                                           *)

\* Mutant: the mutexes are taken in the order of the request.
AcquireAny(p) ==
    /\ pc[p] = "lock"
    /\ \E r \in Needs(p) :
          /\ holder[r] = NoOne
          /\ holder' = [holder EXCEPT ![r] = p]
    /\ UNCHANGED <<routerVars, dbVars, execVars, undoVars, envVars, pc, idx, reply>>

\* mu.Lock() of the next mutex in sorted order, when it is free.
AcquireNext(p) ==
    /\ pc[p] = "lock"
    /\ \E r \in Needs(p) :
          /\ holder[r] = NoOne
          /\ \A s \in Needs(p) : s < r => holder[s] = p
          /\ holder' = [holder EXCEPT ![r] = p]
    /\ UNCHANGED <<routerVars, dbVars, execVars, undoVars, envVars, pc, idx, reply>>

\* Mutant: only the first router of the request is locked.
OneLocked(p) ==
    /\ pc[p] = "lock"
    /\ Needs(p) = {} \/ \E r \in Needs(p) : holder[r] = p
    /\ Goto(p, IF p \in Executes THEN "create" ELSE "clients")
    /\ UNCHANGED <<routerVars, dbVars, execVars, undoVars, envVars, holder, idx, reply>>

AllLocked(p) ==
    /\ pc[p] = "lock"
    /\ \A r \in Needs(p) : holder[r] = p
    /\ Goto(p, IF p \in Executes THEN "create" ELSE "clients")
    /\ UNCHANGED <<routerVars, dbVars, execVars, undoVars, envVars, holder, idx, reply>>

-----------------------------------------------------------------------------
(* Execute                                                                 *)

ExecuteStart(e) ==
    /\ pc[e] = "idle"
    /\ \/ Ops[e] = <<>> /\ Return(e, "error")
       \/ Ops[e] # <<>> /\ Goto(e, "lock") /\ UNCHANGED <<reply, holder>>
    /\ UNCHANGED <<routerVars, dbVars, execVars, undoVars, envVars, idx>>

CreateGroup(e) ==
    /\ pc[e] = "create"
    /\ \/ /\ CallOk(e)
          /\ groupStatus' = [groupStatus EXCEPT ![e] = "applied"]
          /\ Goto(e, "clients")
          /\ UNCHANGED <<reply, holder>>
       \/ /\ CallFails(e, "db")
          /\ Return(e, "error")
          /\ UNCHANGED groupStatus
    /\ UNCHANGED <<routerVars, rows, execVars, undoVars, idx>>

\* Begin the loop body for position i, or leave the loop after the last one.
Enter(e, i) ==
    /\ idx' = [idx EXCEPT ![e] = i]
    /\ IF i > Len(Ops[e])
       THEN Goto(e, "succeed") /\ UNCHANGED draft
       ELSE /\ Goto(e, IF OpAt(e, i).type = "add" THEN "apply" ELSE "before")
            /\ draft' = [draft EXCEPT ![e] = NewDraft(OpAt(e, i).id)]

\* Mutant: an error of GetClientForRouter is retried, whatever it is.
RetryClients(e) ==
    /\ pc[e] = "clients"
    /\ \/ CallOk(e) /\ Enter(e, 1)
       \/ CallFails(e, "db") /\ UNCHANGED <<pc, idx, draft>>
    /\ UNCHANGED <<routerVars, dbVars, rolledBack, undoVars, holder, reply>>

\* GetClientForRouter for every router; on an error the group is marked
\* failed in the next step.
GetClients(e) ==
    /\ pc[e] = "clients"
    /\ \/ CallOk(e) /\ Enter(e, 1)
       \/ CallFails(e, "db") /\ Goto(e, "abandon") /\ UNCHANGED <<idx, draft>>
    /\ UNCHANGED <<routerVars, dbVars, rolledBack, undoVars, holder, reply>>

Abandon(e) ==
    /\ pc[e] = "abandon"
    /\ SetGroupStatus(e, e, "failed")
    /\ Return(e, "error")
    /\ UNCHANGED <<routerVars, rows, execVars, undoVars, idx>>

\* 1. Capture the before state.
FetchBefore(e) ==
    LET op == OpAt(e, idx[e]) IN
    /\ pc[e] = "before"
    /\ \/ /\ CallOk(e)
          /\ ~NotFound(e, idx[e], op.id)
          /\ draft' = [draft EXCEPT ![e].before = Resource(op.router, op.id)]
          /\ Goto(e, "apply")
       \/ /\ \/ CallOk(e) /\ NotFound(e, idx[e], op.id)
             \/ CallFails(e, "router")
          /\ Goto(e, "recordFailure")
          /\ UNCHANGED draft
    /\ UNCHANGED <<routerVars, dbVars, rolledBack, undoVars, holder, idx, reply>>

\* 2. Apply the mutation.
ApplyOperation(e) ==
    LET op == OpAt(e, idx[e]) IN
    /\ pc[e] = "apply"
    /\ \/ /\ CallOk(e)
          /\ Carry(e, idx[e])
          /\ draft' = [draft EXCEPT ![e].id =
                           IF op.type = "add" THEN nextId[op.router] ELSE @]
          /\ Goto(e, IF op.type = "delete" THEN "insert" ELSE "after")
       \/ /\ AnswerLost(e)
          /\ Carry(e, idx[e])
          /\ Goto(e, "recordFailure")
          /\ UNCHANGED draft
       \/ /\ \/ CallOk(e) /\ op.type # "add" /\ NotFound(e, idx[e], op.id)
             \/ CallFails(e, "router")
          /\ Goto(e, "recordFailure")
          /\ UNCHANGED <<routerVars, draft>>
    /\ UNCHANGED <<dbVars, rolledBack, undoVars, holder, idx, reply>>

\* Mutant: an after state that cannot be read ends the request.
FetchAfterReturns(e) ==
    LET r == OpAt(e, idx[e]).router IN
    /\ pc[e] = "after"
    /\ \/ /\ CallOk(e)
          /\ draft' = [draft EXCEPT ![e].after = Resource(r, draft[e].id)]
          /\ Goto(e, "insert")
          /\ UNCHANGED <<reply, holder>>
       \/ CallFails(e, "router") /\ Return(e, "error") /\ UNCHANGED draft
    /\ UNCHANGED <<routerVars, dbVars, rolledBack, undoVars, idx>>

\* 3. Capture the after state, or fall back to the request body.
FetchAfter(e) ==
    LET r == OpAt(e, idx[e]).router
        id == draft[e].id
    IN
    /\ pc[e] = "after"
    /\ \/ /\ CallOk(e)
          /\ Resource(r, id) # Absent
          /\ draft' = [draft EXCEPT ![e].after = Resource(r, id)]
       \/ /\ \/ CallOk(e) /\ Resource(r, id) = Absent
             \/ CallFails(e, "router")
          /\ draft' = [draft EXCEPT ![e].after = BodyOnly]
    /\ Goto(e, "insert")
    /\ UNCHANGED <<routerVars, dbVars, rolledBack, undoVars, holder, idx, reply>>

RowOf(d, s) == [status |-> s, id |-> d.id, before |-> d.before, after |-> d.after]

\* 4. Persist the operation. When that fails the operation is handed to
\* rollbackApplied with status failed, which skips it.
InsertOperation(e) ==
    /\ pc[e] = "insert"
    /\ \/ /\ CallOk(e)
          /\ rows' = [rows EXCEPT ![e][idx[e]] = RowOf(draft[e], "applied")]
          /\ Enter(e, idx[e] + 1)
       \/ /\ CallFails(e, "db")
          /\ Goto(e, "rollback")
          /\ idx' = [idx EXCEPT ![e] = @ - 1]
          /\ UNCHANGED <<rows, draft>>
    /\ UNCHANGED <<routerVars, groupStatus, rolledBack, undoVars, holder, reply>>

Succeed(e) ==
    /\ pc[e] = "succeed"
    /\ Return(e, "applied")
    /\ UNCHANGED <<routerVars, dbVars, execVars, undoVars, envVars, idx>>

\* The failed operation and markRemainingFailed: each INSERT may fail and
\* its error is discarded; "missed" are the ones that did.
RecordFailure(e) ==
    /\ pc[e] = "recordFailure"
    /\ \E missed \in SUBSET (idx[e]..Len(Ops[e])) :
          /\ IF missed = {} THEN CallOk(e) ELSE CallFails(e, "db")
          /\ e \in cancelled => missed = idx[e]..Len(Ops[e])
          /\ rows' = [rows EXCEPT ![e] = [i \in Positions |->
                 IF i \in (idx[e]..Len(Ops[e])) \ missed
                 THEN RowOf(IF i = idx[e] THEN draft[e]
                                          ELSE NewDraft(OpAt(e, i).id), "failed")
                 ELSE @[i]]]
    /\ Goto(e, "rollback")
    /\ idx' = [idx EXCEPT ![e] = @ - 1]
    /\ UNCHANGED <<routerVars, groupStatus, execVars, undoVars, holder, reply>>

\* rollbackApplied reverses operations idx, idx - 1, ..., 1, all applied.
RollbackOne(e) ==
    LET row == rows[e][idx[e]] IN
    /\ pc[e] = "rollback"
    /\ idx[e] > 0
    /\ \/ /\ CallOk(e)
          /\ CarryReverse(e, idx[e], row)
          /\ Goto(e, "markUndone")
          /\ UNCHANGED rolledBack
       \/ /\ \/ AnswerLost(e) /\ CarryReverse(e, idx[e], row)
             \/ CallFails(e, "router") /\ UNCHANGED routerVars
             \/ /\ CallOk(e)
                /\ OpAt(e, idx[e]).type # "delete"
                /\ NotFound(e, idx[e], row.id)
                /\ UNCHANGED routerVars
          /\ Goto(e, "markFailed")
          /\ rolledBack' = [rolledBack EXCEPT ![e] = FALSE]
    /\ UNCHANGED <<dbVars, draft, undoVars, holder, idx, reply>>

\* Mutant: the row says undone although the reversal failed.
RollbackMarkUndone(e) ==
    /\ pc[e] \in {"markUndone", "markFailed"}
    /\ SetRowStatus(e, e, idx[e], "undone")
    /\ Goto(e, "rollback")
    /\ idx' = [idx EXCEPT ![e] = @ - 1]
    /\ UNCHANGED <<routerVars, groupStatus, execVars, undoVars, holder, reply>>

\* UpdateOperationStatus after a reversal in rollbackApplied.
RollbackMark(e) ==
    /\ \/ pc[e] = "markUndone" /\ SetRowStatus(e, e, idx[e], "undone")
       \/ pc[e] = "markFailed" /\ SetRowStatus(e, e, idx[e], "failed")
    /\ Goto(e, "rollback")
    /\ idx' = [idx EXCEPT ![e] = @ - 1]
    /\ UNCHANGED <<routerVars, groupStatus, execVars, undoVars, holder, reply>>

RollbackGroup(e) ==
    /\ pc[e] = "rollback"
    /\ idx[e] = 0
    /\ SetGroupStatus(e, e, IF rolledBack[e] THEN "failed" ELSE "requires_attention")
    /\ Goto(e, "respond")
    /\ UNCHANGED <<routerVars, rows, execVars, undoVars, holder, idx, reply>>

\* buildFailureResponse: the status is the one the database has now.
RespondFailure(e) ==
    /\ pc[e] = "respond"
    /\ \/ CallOk(e) /\ Return(e, groupStatus[e])
       \/ CallFails(e, "db") /\ Return(e, "failed")
    /\ UNCHANGED <<routerVars, dbVars, execVars, undoVars, idx>>

ExecuteStep(e) ==
    \/ ExecuteStart(e) \/ AcquireNext(e) \/ AllLocked(e) \/ CreateGroup(e)
    \/ GetClients(e) \/ Abandon(e) \/ FetchBefore(e) \/ ApplyOperation(e)
    \/ FetchAfter(e) \/ InsertOperation(e) \/ Succeed(e) \/ RecordFailure(e)
    \/ RollbackOne(e) \/ RollbackMark(e) \/ RollbackGroup(e) \/ RespondFailure(e)

-----------------------------------------------------------------------------
(* Undo                                                                    *)

\* GetGroupByID, first statement: the group row. It is read, and later
\* checked, before any mutex is taken.
UndoReadGroup(u, g) ==
    /\ pc[u] = "idle"
    /\ EarlyUndo \/ pc[g] = "done"
    /\ target' = [target EXCEPT ![u] = g]
    /\ \/ /\ CallOk(u)
          /\ groupStatus[g] # "none"
          /\ snap' = [snap EXCEPT ![u].status = groupStatus[g]]
          /\ Goto(u, "readOps")
          /\ UNCHANGED <<reply, holder>>
       \/ /\ CallFails(u, "db") \/ (CallOk(u) /\ groupStatus[g] = "none")
          /\ Return(u, "error")
          /\ UNCHANGED snap
    /\ UNCHANGED <<routerVars, dbVars, execVars, idx>>

\* GetGroupByID, second statement, and the checks that follow: tenant and
\* permission ("error"), status and expiry ("undo_blocked").  Who asks and
\* when is not modelled: those refusals are open to every Undo.
UndoReadOps(u) ==
    /\ pc[u] = "readOps"
    /\ \/ /\ CallOk(u)
          /\ snap[u].status = "applied"
          /\ snap' = [snap EXCEPT ![u].rows = rows[target[u]]]
          /\ Goto(u, "lock")
          /\ UNCHANGED <<reply, holder>>
       \/ /\ CallOk(u)
          /\ \E answer \in {"error", "undo_blocked"} : Return(u, answer)
          /\ UNCHANGED snap
       \/ /\ CallFails(u, "db")
          /\ Return(u, "error")
          /\ UNCHANGED snap
    /\ UNCHANGED <<routerVars, dbVars, execVars, target, idx>>

UndoClients(u) ==
    /\ pc[u] = "clients"
    /\ \/ /\ CallOk(u) \/ (Needs(u) = {} /\ UNCHANGED envVars)
          /\ Goto(u, "match")
          /\ UNCHANGED <<reply, holder>>
       \/ /\ Needs(u) # {}
          /\ CallFails(u, "db")
          /\ Return(u, "error")
    /\ idx' = [idx EXCEPT ![u] = MaxOps]
    /\ UNCHANGED <<routerVars, dbVars, execVars, undoVars>>

\* Mutant: a resource that still exists counts as a match.
MatchesIfPresent(g, i, row) ==
    LET now == Resource(OpAt(g, i).router, row.id) IN
    IF OpAt(g, i).type = "delete" THEN now = Absent ELSE now # Absent

\* checkStrictMatch on the state the GET returned.
Matches(g, i, row) ==
    LET now == Resource(OpAt(g, i).router, row.id) IN
    IF OpAt(g, i).type = "delete" THEN now = Absent ELSE now = row.after

\* Mutant: phase 1 is left out.
UndoMatchNothing(u) ==
    /\ pc[u] = "match"
    /\ Goto(u, "reverse")
    /\ UNCHANGED <<routerVars, dbVars, execVars, undoVars, envVars, idx, reply, holder>>

\* Phase 1. For a delete any error of the GET counts as a match.
UndoMatch(u) ==
    /\ pc[u] = "match"
    /\ \/ \E i \in Positions :
             LET g == target[u]
                 row == snap[u].rows[i]
                 isDelete == OpAt(g, i).type = "delete"
             IN
             /\ NextTodo(u, i)
             /\ \/ /\ \/ CallOk(u) /\ Matches(g, i, row)
                      \/ CallFails(u, "router") /\ isDelete
                   /\ idx' = [idx EXCEPT ![u] = i - 1]
                   /\ UNCHANGED <<pc, reply, holder>>
                \/ /\ \/ CallOk(u) /\ ~Matches(g, i, row)
                      \/ CallFails(u, "router") /\ ~isDelete
                   /\ Return(u, "undo_blocked")
                   /\ UNCHANGED idx
       \/ /\ NothingTodo(u)
          /\ Goto(u, "reverse")
          /\ idx' = [idx EXCEPT ![u] = MaxOps]
          /\ UNCHANGED <<envVars, reply, holder>>
    /\ UNCHANGED <<routerVars, dbVars, execVars, undoVars>>

\* Phase 2.
UndoReverse(u) ==
    /\ pc[u] = "reverse"
    /\ \E i \in Positions :
          LET g == target[u]
              row == snap[u].rows[i]
          IN
          /\ NextTodo(u, i)
          /\ idx' = [idx EXCEPT ![u] = i]
          /\ \/ CallOk(u) /\ CarryReverse(g, i, row) /\ Goto(u, "mark")
             \/ /\ \/ AnswerLost(u) /\ CarryReverse(g, i, row)
                   \/ CallFails(u, "router") /\ UNCHANGED routerVars
                   \/ /\ CallOk(u)
                      /\ OpAt(g, i).type # "delete"
                      /\ NotFound(g, i, row.id)
                      /\ UNCHANGED routerVars
                /\ Goto(u, "attention")
    /\ UNCHANGED <<dbVars, execVars, undoVars, holder, reply>>

UndoMark(u) ==
    /\ pc[u] = "mark"
    /\ SetRowStatus(u, target[u], idx[u], "undone")
    /\ idx' = [idx EXCEPT ![u] = @ - 1]
    /\ Goto(u, "reverse")
    /\ UNCHANGED <<routerVars, groupStatus, execVars, undoVars, holder, reply>>

\* Mutant: a reversal that failed half way leaves the group undone.
UndoGivesUp(u) ==
    /\ pc[u] = "attention"
    /\ SetGroupStatus(u, target[u], "undone")
    /\ Return(u, "undo_blocked")
    /\ UNCHANGED <<routerVars, rows, execVars, undoVars, idx>>

UndoAttention(u) ==
    /\ pc[u] = "attention"
    /\ SetGroupStatus(u, target[u], "requires_attention")
    /\ Return(u, "undo_blocked")
    /\ UNCHANGED <<routerVars, rows, execVars, undoVars, idx>>

UndoFinish(u) ==
    /\ pc[u] = "reverse"
    /\ NothingTodo(u)
    /\ SetGroupStatus(u, target[u], "undone")
    /\ Return(u, "undone")
    /\ UNCHANGED <<routerVars, rows, execVars, undoVars, idx>>

UndoStep(u) ==
    \/ \E g \in Executes : UndoReadGroup(u, g)
    \/ UndoReadOps(u) \/ AcquireNext(u) \/ AllLocked(u) \/ UndoClients(u)
    \/ UndoMatch(u) \/ UndoReverse(u) \/ UndoMark(u) \/ UndoAttention(u)
    \/ UndoFinish(u)

-----------------------------------------------------------------------------
(* The environment                                                         *)

Active(p) == pc[p] \notin {"idle", "done"}

\* The client disconnects: the context of its request is cancelled, and
\* every later call made with it fails.
ClientDisconnects(p) ==
    /\ Active(p)
    /\ p \notin cancelled
    /\ "cancel" \in FaultKinds
    /\ faults < MaxFaults
    /\ faults' = faults + 1
    /\ cancelled' = cancelled \cup {p}
    /\ UNCHANGED <<routerVars, dbVars, execVars, undoVars, holder, pc, idx, reply>>

\* The backend is killed: the requests in flight and the mutexes are gone,
\* the database and the routers keep what they have.
Crash ==
    /\ \E p \in Procs : Active(p)
    /\ Inject("crash")
    /\ pc' = [p \in Procs |-> IF Active(p) THEN "done" ELSE pc[p]]
    /\ reply' = [p \in Procs |-> IF Active(p) THEN "error" ELSE reply[p]]
    /\ holder' = [r \in Routers |-> NoOne]
    /\ UNCHANGED <<routerVars, dbVars, execVars, undoVars, idx>>

\* Somebody changes or removes a resource without going through Execute:
\* WinBox, the configure endpoint, the move endpoint of the firewall.
ExternalEdit(r, id) ==
    /\ Resource(r, id) # Absent
    /\ Inject("edit")
    /\ \E s \in (State \cup {Absent}) \ {Resource(r, id)} :
          config' = [config EXCEPT ![r][id] = s]
    /\ UNCHANGED <<nextId, balance, dbVars, execVars, undoVars, holder, pc, idx, reply>>

\* Every request that started has been answered.
Quiescent ==
    /\ \A p \in Procs : ~Active(p)
    /\ \A e \in Executes : pc[e] = "done"
    /\ UNCHANGED vars

Next ==
    \/ \E e \in Executes : ExecuteStep(e)
    \/ \E u \in Undos : UndoStep(u)
    \/ \E p \in Procs : ClientDisconnects(p)
    \/ Crash
    \/ \E r \in Routers, id \in Ids : ExternalEdit(r, id)
    \/ Quiescent

Spec == Init /\ [][Next]_vars

\* Every remote call ends within its timeout (the HTTP client has one of ten
\* seconds) and a free mutex goes to somebody waiting for it, so a request
\* that started keeps going. That a client asks for an Undo is not promised.
Fairness ==
    /\ \A e \in Executes : WF_vars(ExecuteStep(e))
    /\ \A u \in Undos : WF_vars(pc[u] # "idle" /\ UndoStep(u))
FairSpec == Spec /\ Fairness

-----------------------------------------------------------------------------
(* Properties                                                              *)

\* Between lockRouterIDs and the deferred unlock.
Critical(p) == pc[p] \notin {"idle", "readOps", "lock", "done"}

\* "Per-router mutex serializes concurrent operations": two requests past
\* lockRouterIDs have no router in common, although an Undo computes its set
\* of routers from rows it read before locking.
MutualExclusion ==
    \A p, q \in Procs :
        p # q /\ Critical(p) /\ Critical(q) => Needs(p) \cap Needs(q) = {}

Waits(p, r) ==
    /\ pc[p] = "lock"
    /\ r \in Needs(p)
    /\ holder[r] # p
    /\ \A s \in Needs(p) : s < r => holder[s] = p

\* "in sorted order to prevent deadlocks": along a chain of requests waiting
\* for each other's mutexes the routers only grow, so no chain closes.
NoCircularWait ==
    \A p, q \in Procs : \A r, s \in Routers :
        Waits(p, r) /\ holder[r] = q /\ Waits(q, s) => r < s

\* The state operation i of group g left behind is gone: what it added is
\* removed, what it changed is as it was, what it removed is back.
Restored(g, i, row) ==
    LET r == OpAt(g, i).router IN
    CASE OpAt(g, i).type = "add"    -> config[r][row.id] = Absent
      [] OpAt(g, i).type = "modify" -> config[r][row.id] = row.before
      [] OpAt(g, i).type = "delete" -> \E id \in Ids : config[r][id] = row.before

\* Operation i is the first of its group on its resource: only its before
\* state is the state before the group.
FirstOn(g, i) ==
    \/ OpAt(g, i).type = "add"
    \/ \A j \in 1..(i - 1) :
          \/ OpAt(g, j).type = "add"
          \/ OpAt(g, j).router # OpAt(g, i).router
          \/ OpAt(g, j).id # OpAt(g, i).id

\* When rollbackApplied reports that everything was rolled back, every
\* resource the group touched is as it was before the group.
RollbackRestores ==
    [][\A e \in Executes :
          (pc[e] = "rollback" /\ pc'[e] = "respond" /\ rolledBack[e]) =>
              \A i \in Positions :
                  (/\ rows[e][i] # NoRow
                   /\ rows[e][i].status # "failed"
                   /\ FirstOn(e, i)) => Restored(e, i, rows[e][i])]_vars

\* A group in status failed has no mutation in force on any router: they all
\* failed or were rolled back, the one whose row could not be written too.
FailedLeavesNothing ==
    \A e \in Executes :
        groupStatus[e] = "failed" => \A i \in Positions : balance[e][i] = 0

\* A mutation in force on a router is in the log, once its request is over.
EveryMutationLogged ==
    \A e \in Executes : \A i \in Positions :
        balance[e][i] > 0 /\ pc[e] = "done" => rows[e][i] # NoRow

\* Undo reverses a mutation only while its resource still is in the logged
\* after state: nothing written since phase 1 or since Execute is lost.
ReverseOnlyMatching ==
    [][\A u \in Undos :
          (pc[u] = "reverse" /\ pc'[u] = "mark") =>
              Matches(target[u], idx'[u], snap[u].rows[idx'[u]])]_vars

\* When Undo answers "undone" the resources of the group are as they were
\* before Execute touched them.
UndoRestores ==
    [][\A u \in Undos :
          (reply[u] = "none" /\ reply'[u] = "undone") =>
              \A i \in Todo(u) :
                  FirstOn(target[u], i) =>
                      Restored(target[u], i, snap[u].rows[i])]_vars

\* "Undo reverses all operations in a group": in a group with status undone
\* no mutation is in force.
UndoneMeansReversed ==
    \A g \in Executes :
        groupStatus[g] = "undone" => \A i \in Positions : balance[g][i] <= 0

\* Operation i of group g was never reversed more often than applied.
Balanced(g, i) == balance[g][i] \in {0, 1}

\* No other operation writes what modify i of group g writes.
OnlyWriter(g, i) ==
    \A h \in Executes : \A j \in 1..Len(Ops[h]) :
        <<h, j>> # <<g, i>> =>
            \/ OpAt(h, j).router # OpAt(g, i).router
            \/ OpAt(h, j).id # OpAt(g, i).id
            \/ OpAt(h, j).body # OpAt(g, i).body

\* An addition or a change is reversed at most once, however many Undos of the
\* same group passed the status check together: strict matching blocks all of
\* them but one, as long as nobody writes the value of the change again.
ChangesReversedOnce ==
    \A g \in Executes : \A i \in 1..Len(Ops[g]) :
        \/ OpAt(g, i).type = "add"
        \/ OpAt(g, i).type = "modify" /\ OnlyWriter(g, i)
        => Balanced(g, i)

\* A row that says undone is about a mutation that is not in force any more,
\* whatever failed on the way.
UndoneRowsAreReversed ==
    \A g \in Executes : \A i \in Positions :
        (rows[g][i] # NoRow /\ rows[g][i].status = "undone") => balance[g][i] <= 0

\* Every request that started is answered and holds no mutex any more.
EveryRequestEnds ==
    \A p \in Procs :
        Active(p) ~> (pc[p] = "done" /\ \A r \in Routers : holder[r] # p)

-----------------------------------------------------------------------------
(* Refinements                                                             *)

\* The routers a request has for itself once it passed lockRouterIDs.
Owned == [p \in Procs |-> IF Critical(p) THEN Needs(p) ELSE {}]
Locks == INSTANCE RouterLocks WITH Requests <- Procs, owned <- Owned

\* The mutexes taken one after the other behave like one lock over sets of
\* routers, taken and given back in one step: nobody works with half of his
\* routers, or keeps some of them after a return or a crash.
LocksAsOne == Locks!Spec

\* The status of a group and what is in force of it. A group has status
\* "applied" from the moment its row is inserted; while its request runs it
\* is open.
Fate ==
    [g \in Executes |->
        IF groupStatus[g] = "applied" /\ pc[g] # "done" THEN "open" ELSE groupStatus[g]]
InForce == [g \in Executes |-> {i \in Positions : balance[g][i] > 0}]
Size == [g \in Executes |-> Len(Ops[g])]
Promise == INSTANCE GroupPromise
           WITH Groups <- Executes, fate <- Fate, inForce <- InForce

\* "Undo reverses all operations in a group" (service.go:264), and a failed
\* Execute its own: with routers that fail, requests that cross each other
\* and several Undos of one group, a group is all there when the log starts
\* to call it applied and all gone when it calls it failed or undone, and
\* what was reversed never comes into force again.
KeepsItsPromise == Promise!Spec

=============================================================================
