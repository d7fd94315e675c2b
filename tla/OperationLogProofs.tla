------------------------- MODULE OperationLogProofs -------------------------
(***************************************************************************)
(* What holds of the operation service for every set of routers, requests  *)
(* and operations, whatever faults the environment injects: its variables  *)
(* keep their types, the per-router mutexes exclude, and the requests that *)
(* wait for each other never form a cycle.                                 *)
(***************************************************************************)
EXTENDS OperationLog, TLAPS

-----------------------------------------------------------------------------
(* The inductive invariant behind TypeOK                                   *)

\* Inside the loop of Execute the position is one of the request, the draft
\* is about an ID the router can have, and the earlier positions are logged.
ExecuteLoopAt(e) ==
    pc[e] \in {"before", "apply", "after", "insert", "recordFailure"} =>
        /\ idx[e] \in 1..Len(Ops[e])
        /\ draft[e].id \in Ids
        /\ \A i \in 1..(idx[e] - 1) : rows[e][i] # NoRow

\* The operations left to roll back are logged.
RollbackLoopAt(e) ==
    pc[e] \in {"rollback", "markUndone", "markFailed"} =>
        /\ idx[e] <= Len(Ops[e])
        /\ pc[e] \in {"markUndone", "markFailed"} => idx[e] > 0
        /\ \A i \in 1..idx[e] : rows[e][i] # NoRow

\* An Undo past its first read works on a group, and marks a row of it.
UndoLoopAt(u) ==
    /\ pc[u] \notin {"idle", "done"} => target[u] \in Executes
    /\ pc[u] = "mark" => idx[u] > 0

LoopsOK ==
    /\ \A e \in Executes : ExecuteLoopAt(e) /\ RollbackLoopAt(e)
    /\ \A u \in Undos : UndoLoopAt(u)

TypeInv == TypeOK /\ LoopsOK

-----------------------------------------------------------------------------
(* What the helpers do                                                     *)

\* A remote call of a request, however it ends, leaves the fault counter a
\* number and cancels requests only.
LEMMA CallsKeepEnv ==
    ASSUME EnvTypeOK, NEW p, NEW kind,
           CallOk(p) \/ CallFails(p, kind) \/ AnswerLost(p)
    PROVE  EnvTypeOK'
BY DEF EnvTypeOK, CallOk, CallFails, AnswerLost, Inject, envVars

\* Writing the status of a group, or failing to.
LEMMA SetGroupStatusType ==
    ASSUME DbTypeOK, EnvTypeOK, UNCHANGED rows,
           NEW p, NEW g, NEW s \in GroupStatus, SetGroupStatus(p, g, s)
    PROVE  DbTypeOK' /\ EnvTypeOK'
<1>1. groupStatus' \in [Executes -> GroupStatus]
  BY DEF SetGroupStatus, BestEffort, DbTypeOK
<1>2. EnvTypeOK'
  BY CallsKeepEnv DEF SetGroupStatus, BestEffort
<1> QED  BY <1>1, <1>2 DEF DbTypeOK

\* Writing the status of a row, or failing to, keeps which rows there are.
LEMMA SetRowStatusType ==
    ASSUME DbTypeOK, EnvTypeOK, UNCHANGED groupStatus,
           NEW p, NEW g, NEW i, NEW s \in OpStatus, SetRowStatus(p, g, i, s)
    PROVE  /\ DbTypeOK' /\ EnvTypeOK'
           /\ \A e \in Executes, j \in Positions :
                  rows[e][j] # NoRow => rows'[e][j] # NoRow
<1>1. EnvTypeOK'
  BY CallsKeepEnv DEF SetRowStatus, BestEffort
<1>2. CASE UNCHANGED rows
  BY <1>1, <1>2 DEF DbTypeOK
<1>3. CASE rows' = [rows EXCEPT ![g][i] =
                       IF @ = NoRow THEN NoRow ELSE [@ EXCEPT !.status = s]]
  <2>1. \A e \in Executes, j \in Positions :
            rows[e][j] # NoRow => [rows[e][j] EXCEPT !.status = s] \in Row
    <3>1. \A r \in Row : [r EXCEPT !.status = s] \in Row
      BY DEF Row
    <3> QED  BY <3>1 DEF DbTypeOK
  <2>2. \A e \in Executes, j \in Positions :
            rows'[e][j] \in {rows[e][j], [rows[e][j] EXCEPT !.status = s]}
    BY <1>3 DEF DbTypeOK
  <2>3. \A e \in Executes, j \in Positions :
            rows[e][j] = NoRow => rows'[e][j] = NoRow
    BY <1>3 DEF DbTypeOK
  <2>4. rows' \in [Executes -> [Positions -> Row \cup {NoRow}]]
    <3>1. rows' = [e \in Executes |-> rows'[e]]
      BY <1>3 DEF DbTypeOK
    <3>2. \A e \in Executes : rows'[e] = [j \in Positions |-> rows'[e][j]]
      BY <1>3 DEF DbTypeOK
    <3> QED  BY <2>1, <2>2, <2>3, <3>1, <3>2 DEF DbTypeOK
  <2> QED  BY <1>1, <2>1, <2>2, <2>4, NullAssumption DEF DbTypeOK
<1> QED  BY <1>2, <1>3 DEF SetRowStatus, BestEffort

\* The operation at a position of a request.
LEMMA OpAtType ==
    ASSUME NEW e \in Executes, NEW i \in 1..Len(Ops[e])
    PROVE  OpAt(e, i) \in Operation
BY OpsAssumption DEF OpAt

\* A PATCH makes a resource of a resource.
LEMMA MergeType ==
    ASSUME NEW state \in State, NEW body \in State
    PROVE  Merge(state, body) \in State
BY DEF Merge, State

\* What the router does with a request about a resource keeps its
\* configuration a table of resources.
LEMMA RouterCallsType ==
    ASSUME RouterTypeOK, NEW r, NEW id, NEW state \in State,
           \/ CreateResource(r, state)
           \/ PatchResource(r, id, state)
           \/ DeleteResource(r, id)
    PROVE  /\ config' \in [Routers -> [Ids -> State \cup {Absent}]]
           /\ nextId' \in [Routers -> Nat]
<1>1. CASE CreateResource(r, state)
  <2>1. nextId' \in [Routers -> Nat]
    <3>1. nextId[r] \in Nat
      BY <1>1, IdsAssumption DEF CreateResource
    <3>2. nextId' = [nextId EXCEPT ![r] = nextId[r] + 1]
      BY <1>1 DEF CreateResource
    <3>3. nextId \in [Routers -> Nat] /\ nextId[r] + 1 \in Nat
      BY <3>1 DEF RouterTypeOK
    <3> QED  BY <3>2, <3>3
  <2>2. config' \in [Routers -> [Ids -> State \cup {Absent}]]
    BY <1>1 DEF CreateResource, RouterTypeOK
  <2> QED  BY <2>1, <2>2
<1>2. CASE PatchResource(r, id, state)
  <2>1. r \in Routers /\ id \in Ids => Merge(config[r][id], state) \in State
    BY <1>2, MergeType DEF PatchResource, Resource, RouterTypeOK
  <2> QED  BY <1>2, <2>1 DEF PatchResource, RouterTypeOK
<1>3. CASE DeleteResource(r, id)
  BY <1>3 DEF DeleteResource, RouterTypeOK
<1> QED  BY <1>1, <1>2, <1>3

\* Counting an application or a reversal keeps the counts integers.
LEMMA CountType ==
    ASSUME RouterTypeOK, NEW g, NEW i, NEW n \in Int, Count(g, i, n)
    PROVE  balance' \in [Executes -> [Positions -> Int]]
<1>1. CASE g \in Executes /\ i \in Positions
  BY <1>1 DEF Count, RouterTypeOK
<1>2. CASE ~(g \in Executes /\ i \in Positions)
  <2>1. \A e \in Executes : balance'[e] = balance[e]
    BY <1>2 DEF Count, RouterTypeOK
  <2> QED  BY <2>1 DEF Count, RouterTypeOK
<1> QED  BY <1>1, <1>2

\* Applying an operation of a request.
LEMMA CarryType ==
    ASSUME RouterTypeOK, NEW e \in Executes, NEW i \in 1..Len(Ops[e]), Carry(e, i)
    PROVE  RouterTypeOK'
<1>1. OpAt(e, i) \in Operation
  BY OpAtType
<1>2. /\ config' \in [Routers -> [Ids -> State \cup {Absent}]]
      /\ nextId' \in [Routers -> Nat]
  BY <1>1, RouterCallsType DEF Carry, Operation
<1>3. balance' \in [Executes -> [Positions -> Int]]
  BY CountType DEF Carry
<1> QED  BY <1>2, <1>3 DEF RouterTypeOK

\* Reversing an operation from its row.
LEMMA CarryReverseType ==
    ASSUME RouterTypeOK, NEW g, NEW i, NEW row \in Row, CarryReverse(g, i, row)
    PROVE  RouterTypeOK'
<1>1. row.before \in State
  BY DEF Row
<1>2. /\ config' \in [Routers -> [Ids -> State \cup {Absent}]]
      /\ nextId' \in [Routers -> Nat]
  BY <1>1, RouterCallsType DEF CarryReverse
<1>3. balance' \in [Executes -> [Positions -> Int]]
  BY CountType DEF CarryReverse
<1> QED  BY <1>2, <1>3 DEF RouterTypeOK

\* A return statement of a request.
LEMMA ReturnType ==
    ASSUME ControlTypeOK, NEW p \in Procs, NEW answer \in Reply,
           Return(p, answer), UNCHANGED idx
    PROVE  ControlTypeOK'
BY DEF ControlTypeOK, Return, Goto, ExecPC, UndoPC

-----------------------------------------------------------------------------
(* TypeOK is an invariant                                                  *)

\* The service starts in the invariant.
THEOREM InitTypeInv == Init => TypeInv
<1> SUFFICES ASSUME Init PROVE TypeInv
  OBVIOUS
<1>1. Nothing \in State
  BY DEF Nothing, State
<1>2. RouterTypeOK
  BY IdsAssumption DEF Init, RouterTypeOK
<1>3. DbTypeOK
  BY DEF Init, DbTypeOK, GroupStatus
<1>4. ExecTypeOK
  BY <1>1 DEF Init, ExecTypeOK, Draft, NewDraft
<1>5. UndoTypeOK
  BY DEF Init, UndoTypeOK, NoSnap, GroupStatus
<1>6. EnvTypeOK
  BY DEF Init, EnvTypeOK
<1>7. ControlTypeOK
  BY DEF Init, ControlTypeOK, ExecPC, Reply
<1>8. LoopsOK
  BY DEF Init, LoopsOK, ExecuteLoopAt, RollbackLoopAt, UndoLoopAt, Procs
<1> QED  BY <1>2, <1>3, <1>4, <1>5, <1>6, <1>7, <1>8 DEF TypeInv, TypeOK

\* A step of request p that keeps the rows there are and the loop facts of p
\* keeps those of every other request.
LEMMA OthersKeepLoops ==
    ASSUME TypeInv, TypeOK', NEW p \in Procs,
           \A q \in Procs \ {p} : pc'[q] = pc[q] /\ idx'[q] = idx[q],
           \A f \in Executes \ {p} : draft'[f] = draft[f],
           \A v \in Undos \ {p} : target'[v] = target[v],
           \A f \in Executes, j \in Positions :
               rows[f][j] # NoRow => rows'[f][j] # NoRow,
           p \in Executes => ExecuteLoopAt(p)' /\ RollbackLoopAt(p)',
           p \in Undos => UndoLoopAt(p)'
    PROVE  TypeInv'
<1>1. ASSUME NEW f \in Executes \ {p} PROVE ExecuteLoopAt(f)' /\ RollbackLoopAt(f)'
  <2>1. f \in Procs /\ ExecuteLoopAt(f) /\ RollbackLoopAt(f)
    BY DEF Procs, TypeInv, LoopsOK
  <2>2. /\ pc'[f] = pc[f] /\ idx'[f] = idx[f] /\ draft'[f] = draft[f]
        /\ idx[f] \in Nat /\ Len(Ops[f]) \in Nat /\ Len(Ops[f]) <= MaxOps
        /\ MaxOps \in Nat
    BY <2>1, OpsAssumption DEF TypeInv, TypeOK, ControlTypeOK
  <2>3. \A j \in 1..Len(Ops[f]) : rows[f][j] # NoRow => rows'[f][j] # NoRow
    BY <2>2 DEF Positions
  <2> QED  BY <2>1, <2>2, <2>3 DEF ExecuteLoopAt, RollbackLoopAt
<1>2. ASSUME NEW v \in Undos \ {p} PROVE UndoLoopAt(v)'
  BY DEF Procs, TypeInv, LoopsOK, UndoLoopAt
<1> QED  BY <1>1, <1>2 DEF TypeInv, LoopsOK

\* Request e stands at the first call of a position of its loop, or left it.
Entered(e) ==
    /\ draft' \in [Executes -> Draft]
    /\ pc' \in [Procs -> ExecPC \cup UndoPC]
    /\ idx' \in [Procs -> Nat]
    /\ pc'[e] \in {"before", "apply", "succeed"}
    /\ pc'[e] # "succeed" =>
          /\ idx'[e] \in 1..Len(Ops[e])
          /\ draft'[e].id \in Ids
          /\ \A j \in 1..(idx'[e] - 1) : rows'[e][j] # NoRow
    /\ \A p \in Procs \ {e} : pc'[p] = pc[p] /\ idx'[p] = idx[p]
    /\ \A f \in Executes \ {e} : draft'[f] = draft[f]

\* Entering position i of the loop of Execute, or leaving the loop.
LEMMA EnterType ==
    ASSUME TypeInv, NEW e \in Executes, NEW i \in Nat \ {0}, Enter(e, i),
           \A j \in 1..(i - 1) : rows'[e][j] # NoRow
    PROVE  Entered(e)
<1>1. e \in Procs /\ Len(Ops[e]) \in Nat
  BY OpsAssumption DEF Procs
<1>2. CASE i > Len(Ops[e])
  BY <1>1, <1>2
     DEF Entered, Enter, Goto, TypeInv, TypeOK, ControlTypeOK, ExecTypeOK,
         ExecPC, UndoPC
<1>3. CASE ~(i > Len(Ops[e]))
  <2>1. i \in 1..Len(Ops[e])
    BY <1>1, <1>3
  <2>2. OpAt(e, i).id \in Ids
    BY <2>1, OpAtType DEF Operation
  <2>3. NewDraft(OpAt(e, i).id) \in Draft
    BY <2>2, IdsAssumption DEF NewDraft, Draft, Nothing, State
  <2>4. draft' = [draft EXCEPT ![e] = NewDraft(OpAt(e, i).id)]
    BY <1>3 DEF Enter
  <2>5. draft' \in [Executes -> Draft] /\ draft'[e].id \in Ids
    BY <2>2, <2>3, <2>4 DEF TypeInv, TypeOK, ExecTypeOK, NewDraft
  <2>6. \A f \in Executes \ {e} : draft'[f] = draft[f]
    BY <2>4 DEF TypeInv, TypeOK, ExecTypeOK
  <2>7. /\ idx' = [idx EXCEPT ![e] = i]
        /\ pc' = [pc EXCEPT ![e] = IF OpAt(e, i).type = "add" THEN "apply" ELSE "before"]
    BY <1>3 DEF Enter, Goto
  <2> QED
    BY <1>1, <2>1, <2>5, <2>6, <2>7
       DEF Entered, TypeInv, TypeOK, ControlTypeOK, ExecPC, UndoPC
<1> QED  BY <1>2, <1>3

\* An empty request is refused at once, another goes to the lock.
LEMMA ExecuteStartType ==
    ASSUME TypeInv, NEW e \in Executes, ExecuteStart(e)
    PROVE  TypeInv'
<1>1. e \in Procs
  BY DEF Procs
<1>2. ControlTypeOK' /\ pc'[e] \in {"lock", "done"}
  BY <1>1 DEF ExecuteStart, Return, Goto, TypeInv, TypeOK, ControlTypeOK,
             ExecPC, UndoPC, Reply
<1>3. TypeOK'
  BY <1>2 DEF ExecuteStart, TypeInv, TypeOK, routerVars, dbVars, execVars,
              undoVars, envVars, RouterTypeOK, DbTypeOK, ExecTypeOK,
              UndoTypeOK, EnvTypeOK
<1>4. \A q \in Procs \ {e} : pc'[q] = pc[q] /\ idx'[q] = idx[q]
  BY <1>1 DEF ExecuteStart, Return, Goto, TypeInv, TypeOK, ControlTypeOK
<1>5. ExecuteLoopAt(e)' /\ RollbackLoopAt(e)' /\ e \notin Undos
  BY <1>2, ProcsAssumption DEF ExecuteLoopAt, RollbackLoopAt
<1> QED
  BY <1>1, <1>3, <1>4, <1>5, OthersKeepLoops
     DEF ExecuteStart, execVars, undoVars, dbVars

\* Taking a mutex changes nothing but its holder.
LEMMA AcquireNextType ==
    ASSUME TypeInv, NEW p \in Procs, AcquireNext(p)
    PROVE  TypeInv'
<1>1. ControlTypeOK'
  BY DEF AcquireNext, TypeInv, TypeOK, ControlTypeOK
<1>2. TypeOK'
  BY <1>1 DEF AcquireNext, TypeInv, TypeOK, routerVars, dbVars, execVars,
              undoVars, envVars, RouterTypeOK, DbTypeOK, ExecTypeOK,
              UndoTypeOK, EnvTypeOK
<1> QED
  BY <1>2 DEF AcquireNext, TypeInv, LoopsOK, ExecuteLoopAt, RollbackLoopAt,
              UndoLoopAt, dbVars, execVars, undoVars

\* An Undo keeps its group when it enters the critical section.
LEMMA AllLockedType ==
    ASSUME TypeInv, NEW p \in Procs, AllLocked(p)
    PROVE  TypeInv'
<1>1. /\ pc[p] = "lock"
      /\ pc' = [pc EXCEPT ![p] = IF p \in Executes THEN "create" ELSE "clients"]
      /\ UNCHANGED <<routerVars, dbVars, execVars, undoVars, envVars, holder, idx, reply>>
  BY DEF AllLocked, Goto
<1>2. ControlTypeOK' /\ pc'[p] \in {"create", "clients"}
  BY <1>1 DEF TypeInv, TypeOK, ControlTypeOK, ExecPC, UndoPC
<1>3. TypeOK'
  BY <1>1, <1>2 DEF TypeInv, TypeOK, routerVars, dbVars, execVars,
              undoVars, envVars, RouterTypeOK, DbTypeOK, ExecTypeOK,
              UndoTypeOK, EnvTypeOK
<1>4. \A q \in Procs \ {p} : pc'[q] = pc[q] /\ idx'[q] = idx[q]
  BY <1>1 DEF TypeInv, TypeOK, ControlTypeOK
<1>5. p \in Executes => ExecuteLoopAt(p)' /\ RollbackLoopAt(p)'
  BY <1>2 DEF ExecuteLoopAt, RollbackLoopAt
<1>6. p \in Undos => UndoLoopAt(p)'
  BY <1>1, <1>2 DEF UndoLoopAt, TypeInv, LoopsOK, undoVars
<1> QED
  BY <1>1, <1>3, <1>4, <1>5, <1>6, OthersKeepLoops DEF execVars, undoVars, dbVars

\* A group starts with a status of the enum column.
LEMMA CreateGroupType ==
    ASSUME TypeInv, NEW e \in Executes, CreateGroup(e)
    PROVE  TypeInv'
<1>1. e \in Procs /\ e \notin Undos
  BY ProcsAssumption DEF Procs
<1>2. ControlTypeOK' /\ pc'[e] \in {"clients", "done"}
  BY <1>1 DEF CreateGroup, Return, Goto, TypeInv, TypeOK, ControlTypeOK,
             ExecPC, UndoPC, Reply
<1>3. DbTypeOK'
  BY DEF CreateGroup, TypeInv, TypeOK, DbTypeOK, GroupStatus
<1>4. EnvTypeOK'
  BY CallsKeepEnv DEF CreateGroup, TypeInv, TypeOK
<1>5. TypeOK'
  BY <1>2, <1>3, <1>4 DEF CreateGroup, TypeInv, TypeOK, routerVars, execVars,
              undoVars, RouterTypeOK, ExecTypeOK, UndoTypeOK
<1>6. \A q \in Procs \ {e} : pc'[q] = pc[q] /\ idx'[q] = idx[q]
  BY <1>1 DEF CreateGroup, Return, Goto, TypeInv, TypeOK, ControlTypeOK
<1>7. ExecuteLoopAt(e)' /\ RollbackLoopAt(e)'
  BY <1>2 DEF ExecuteLoopAt, RollbackLoopAt
<1> QED
  BY <1>1, <1>5, <1>6, <1>7, OthersKeepLoops DEF CreateGroup, execVars, undoVars

\* With its clients at hand a request enters the loop at position 1.
LEMMA GetClientsType ==
    ASSUME TypeInv, NEW e \in Executes, GetClients(e)
    PROVE  TypeInv'
<1>1. e \in Procs /\ e \notin Undos
  BY ProcsAssumption DEF Procs
<1>2. UNCHANGED <<routerVars, dbVars, rolledBack, undoVars, holder, reply>>
  BY DEF GetClients
<1>3. EnvTypeOK'
  BY CallsKeepEnv DEF GetClients, TypeInv, TypeOK
<1>4. CASE Enter(e, 1)
  <2>1. \A j \in 1..(1 - 1) : rows'[e][j] # NoRow
    OBVIOUS
  <2>2. Entered(e)
    BY <1>4, <2>1, EnterType
  <2>3. TypeOK'
    BY <1>2, <1>3, <2>2 DEF Entered, TypeInv, TypeOK, routerVars, dbVars, undoVars,
       RouterTypeOK, DbTypeOK, ExecTypeOK, UndoTypeOK, ControlTypeOK
  <2>4. ExecuteLoopAt(e)' /\ RollbackLoopAt(e)'
    BY <2>2 DEF Entered, ExecuteLoopAt, RollbackLoopAt
  <2> QED  BY <1>1, <1>2, <2>2, <2>3, <2>4, OthersKeepLoops
     DEF Entered, undoVars, dbVars
<1>5. CASE Goto(e, "abandon") /\ UNCHANGED <<idx, draft>>
  <2>1. ControlTypeOK' /\ pc'[e] = "abandon"
    BY <1>1, <1>2, <1>5 DEF Goto, TypeInv, TypeOK, ControlTypeOK, ExecPC
  <2>2. TypeOK'
    BY <1>2, <1>3, <1>5, <2>1 DEF TypeInv, TypeOK, routerVars, dbVars, undoVars,
       RouterTypeOK, DbTypeOK, ExecTypeOK, UndoTypeOK
  <2>3. \A q \in Procs \ {e} : pc'[q] = pc[q] /\ idx'[q] = idx[q]
    BY <1>1, <1>5 DEF Goto, TypeInv, TypeOK, ControlTypeOK
  <2>4. ExecuteLoopAt(e)' /\ RollbackLoopAt(e)'
    BY <2>1 DEF ExecuteLoopAt, RollbackLoopAt
  <2> QED
    BY <1>1, <1>2, <1>5, <2>2, <2>3, <2>4, OthersKeepLoops DEF undoVars, dbVars
<1> QED  BY <1>4, <1>5 DEF GetClients

\* Without a client the group fails and the request returns.
LEMMA AbandonType ==
    ASSUME TypeInv, NEW e \in Executes, Abandon(e)
    PROVE  TypeInv'
<1>1. e \in Procs /\ e \notin Undos
  BY ProcsAssumption DEF Procs
<1>2. /\ SetGroupStatus(e, e, "failed")
      /\ Return(e, "error")
      /\ UNCHANGED <<routerVars, rows, execVars, undoVars, idx>>
  BY DEF Abandon
<1>3. ControlTypeOK' /\ pc'[e] = "done"
  BY <1>1, <1>2 DEF Return, Goto, TypeInv, TypeOK, ControlTypeOK,
             ExecPC, UndoPC, Reply
<1>4. DbTypeOK' /\ EnvTypeOK'
  BY <1>2, SetGroupStatusType DEF TypeInv, TypeOK, GroupStatus
<1>5. TypeOK'
  BY <1>2, <1>3, <1>4 DEF TypeInv, TypeOK, routerVars, execVars,
              undoVars, RouterTypeOK, ExecTypeOK, UndoTypeOK
<1>6. \A q \in Procs \ {e} : pc'[q] = pc[q] /\ idx'[q] = idx[q]
  BY <1>1, <1>2 DEF Return, Goto, TypeInv, TypeOK, ControlTypeOK
<1>7. ExecuteLoopAt(e)' /\ RollbackLoopAt(e)'
  BY <1>3 DEF ExecuteLoopAt, RollbackLoopAt
<1> QED
  BY <1>1, <1>2, <1>5, <1>6, <1>7, OthersKeepLoops DEF execVars, undoVars

\* The before state is a resource: a missing one ends the loop instead.
LEMMA FetchBeforeType ==
    ASSUME TypeInv, NEW e \in Executes, FetchBefore(e)
    PROVE  TypeInv'
<1>1. e \in Procs /\ e \notin Undos
  BY ProcsAssumption DEF Procs
<1>2. /\ pc[e] = "before"
      /\ UNCHANGED <<routerVars, dbVars, rolledBack, undoVars, holder, idx, reply>>
  BY DEF FetchBefore
<1>3. EnvTypeOK'
  BY CallsKeepEnv DEF FetchBefore, TypeInv, TypeOK
<1>4. ExecuteLoopAt(e) /\ draft[e] \in Draft
  BY DEF TypeInv, TypeOK, LoopsOK, ExecTypeOK
<1>5. OpAt(e, idx[e]) \in Operation
  BY <1>2, <1>4, OpAtType DEF ExecuteLoopAt
<1>6. /\ ControlTypeOK' /\ pc'[e] \in {"apply", "recordFailure"}
      /\ \A q \in Procs \ {e} : pc'[q] = pc[q] /\ idx'[q] = idx[q]
  BY <1>1, <1>2 DEF FetchBefore, Goto, TypeInv, TypeOK, ControlTypeOK, ExecPC
<1>7. /\ draft' \in [Executes -> Draft] /\ draft'[e].id = draft[e].id
      /\ \A f \in Executes \ {e} : draft'[f] = draft[f]
  <2>1. CASE UNCHANGED draft
    BY <2>1 DEF TypeInv, TypeOK, ExecTypeOK
  <2>2. CASE /\ ~NotFound(e, idx[e], OpAt(e, idx[e]).id)
             /\ draft' = [draft EXCEPT ![e].before =
                    Resource(OpAt(e, idx[e]).router, OpAt(e, idx[e]).id)]
    <3>1. Resource(OpAt(e, idx[e]).router, OpAt(e, idx[e]).id) \in State
      BY <1>5, <2>2 DEF NotFound, Resource, Operation, TypeInv, TypeOK, RouterTypeOK
    <3> QED  BY <1>4, <2>2, <3>1 DEF TypeInv, TypeOK, ExecTypeOK, Draft
  <2> QED  BY <2>1, <2>2 DEF FetchBefore
<1>8. TypeOK'
  BY <1>2, <1>3, <1>6, <1>7 DEF TypeInv, TypeOK, routerVars, dbVars, undoVars,
     RouterTypeOK, DbTypeOK, ExecTypeOK, UndoTypeOK
<1>9. ExecuteLoopAt(e)' /\ RollbackLoopAt(e)'
  BY <1>2, <1>4, <1>6, <1>7 DEF ExecuteLoopAt, RollbackLoopAt, dbVars
<1> QED
  BY <1>1, <1>2, <1>6, <1>7, <1>8, <1>9, OthersKeepLoops DEF undoVars, dbVars

\* The ID in the draft is one the router gave out or the request named.
LEMMA ApplyOperationType ==
    ASSUME TypeInv, NEW e \in Executes, ApplyOperation(e)
    PROVE  TypeInv'
<1>1. e \in Procs /\ e \notin Undos
  BY ProcsAssumption DEF Procs
<1>2. /\ pc[e] = "apply"
      /\ UNCHANGED <<dbVars, rolledBack, undoVars, holder, idx, reply>>
  BY DEF ApplyOperation
<1>3. EnvTypeOK'
  BY CallsKeepEnv DEF ApplyOperation, TypeInv, TypeOK
<1>4. ExecuteLoopAt(e) /\ draft[e] \in Draft /\ idx[e] \in 1..Len(Ops[e])
  BY <1>2 DEF TypeInv, TypeOK, LoopsOK, ExecTypeOK, ExecuteLoopAt
<1>5. OpAt(e, idx[e]) \in Operation
  BY <1>4, OpAtType
<1>6. /\ ControlTypeOK' /\ pc'[e] \in {"insert", "after", "recordFailure"}
      /\ \A q \in Procs \ {e} : pc'[q] = pc[q] /\ idx'[q] = idx[q]
  BY <1>1, <1>2 DEF ApplyOperation, Goto, TypeInv, TypeOK, ControlTypeOK, ExecPC
<1>7. RouterTypeOK'
  <2>1. CASE Carry(e, idx[e])
    BY <1>4, <2>1, CarryType DEF TypeInv, TypeOK
  <2>2. CASE UNCHANGED routerVars
    BY <2>2 DEF TypeInv, TypeOK, RouterTypeOK, routerVars
  <2> QED  BY <2>1, <2>2 DEF ApplyOperation
<1>8. /\ draft' \in [Executes -> Draft] /\ draft'[e].id \in Ids
      /\ \A f \in Executes \ {e} : draft'[f] = draft[f]
  <2>1. CASE UNCHANGED draft
    BY <1>2, <1>4, <2>1 DEF TypeInv, TypeOK, ExecTypeOK, ExecuteLoopAt
  <2>2. CASE /\ Carry(e, idx[e])
             /\ draft' = [draft EXCEPT ![e].id =
                    IF OpAt(e, idx[e]).type = "add"
                    THEN nextId[OpAt(e, idx[e]).router] ELSE @]
    <3> DEFINE id == IF OpAt(e, idx[e]).type = "add"
                     THEN nextId[OpAt(e, idx[e]).router] ELSE draft[e].id
    <3>1. id \in Ids
      BY <1>2, <1>4, <2>2 DEF Carry, CreateResource, ExecuteLoopAt
    <3>2. id \in Nat
      BY <3>1, IdsAssumption
    <3>3. draft' = [draft EXCEPT ![e].id = id]
      BY <2>2
    <3> HIDE DEF id
    <3> QED  BY <1>4, <3>1, <3>2, <3>3 DEF TypeInv, TypeOK, ExecTypeOK, Draft
  <2> QED  BY <2>1, <2>2 DEF ApplyOperation
<1>9. TypeOK'
  BY <1>2, <1>3, <1>6, <1>7, <1>8 DEF TypeInv, TypeOK, dbVars, undoVars,
     DbTypeOK, ExecTypeOK, UndoTypeOK
<1>10. ExecuteLoopAt(e)' /\ RollbackLoopAt(e)'
  BY <1>2, <1>4, <1>6, <1>8 DEF ExecuteLoopAt, RollbackLoopAt, dbVars
<1> QED
  BY <1>1, <1>2, <1>6, <1>8, <1>9, <1>10, OthersKeepLoops DEF undoVars, dbVars

\* The after state is a resource or the body of the request.
LEMMA FetchAfterType ==
    ASSUME TypeInv, NEW e \in Executes, FetchAfter(e)
    PROVE  TypeInv'
<1>1. e \in Procs /\ e \notin Undos
  BY ProcsAssumption DEF Procs
<1>2. /\ pc[e] = "after"
      /\ UNCHANGED <<routerVars, dbVars, rolledBack, undoVars, holder, idx, reply>>
  BY DEF FetchAfter
<1>3. EnvTypeOK'
  BY CallsKeepEnv DEF FetchAfter, TypeInv, TypeOK
<1>4. ExecuteLoopAt(e) /\ draft[e] \in Draft /\ draft[e].id \in Ids
  BY <1>2 DEF TypeInv, TypeOK, LoopsOK, ExecTypeOK, ExecuteLoopAt
<1>5. OpAt(e, idx[e]) \in Operation
  BY <1>2, <1>4, OpAtType DEF ExecuteLoopAt
<1>6. /\ ControlTypeOK' /\ pc'[e] = "insert"
      /\ \A q \in Procs \ {e} : pc'[q] = pc[q] /\ idx'[q] = idx[q]
  BY <1>1, <1>2 DEF FetchAfter, Goto, TypeInv, TypeOK, ControlTypeOK, ExecPC
<1>7. PICK after \in State \cup {BodyOnly} : draft' = [draft EXCEPT ![e].after = after]
  <2>1. Resource(OpAt(e, idx[e]).router, draft[e].id) \in State \cup {Absent}
    BY <1>4, <1>5 DEF Resource, Operation, TypeInv, TypeOK, RouterTypeOK
  <2> QED  BY <2>1 DEF FetchAfter
<1>8. /\ draft' \in [Executes -> Draft] /\ draft'[e].id = draft[e].id
      /\ \A f \in Executes \ {e} : draft'[f] = draft[f]
  BY <1>4, <1>7 DEF TypeInv, TypeOK, ExecTypeOK, Draft
<1>9. TypeOK'
  BY <1>2, <1>3, <1>6, <1>8 DEF TypeInv, TypeOK, routerVars, dbVars, undoVars,
     RouterTypeOK, DbTypeOK, ExecTypeOK, UndoTypeOK
<1>10. ExecuteLoopAt(e)' /\ RollbackLoopAt(e)'
  BY <1>2, <1>4, <1>6, <1>8 DEF ExecuteLoopAt, RollbackLoopAt, dbVars
<1> QED
  BY <1>1, <1>2, <1>6, <1>8, <1>9, <1>10, OthersKeepLoops DEF undoVars, dbVars

\* A position is logged before the loop goes on to the next one; when the
\* INSERT fails the positions before it are left to roll back, all logged.
LEMMA InsertOperationType ==
    ASSUME TypeInv, NEW e \in Executes, InsertOperation(e)
    PROVE  TypeInv'
<1>1. e \in Procs /\ e \notin Undos
  BY ProcsAssumption DEF Procs
<1>2. /\ pc[e] = "insert"
      /\ UNCHANGED <<routerVars, groupStatus, rolledBack, undoVars, holder, reply>>
  BY DEF InsertOperation
<1>3. EnvTypeOK'
  BY CallsKeepEnv DEF InsertOperation, TypeInv, TypeOK
<1>4. /\ idx[e] \in 1..Len(Ops[e]) /\ Len(Ops[e]) \in Nat /\ draft[e] \in Draft
      /\ idx[e] \in Positions
      /\ \A i \in 1..(idx[e] - 1) : rows[e][i] # NoRow
  BY <1>2, OpsAssumption
     DEF TypeInv, TypeOK, LoopsOK, ExecTypeOK, ExecuteLoopAt, Positions
<1>5. CASE /\ rows' = [rows EXCEPT ![e][idx[e]] = RowOf(draft[e], "applied")]
           /\ Enter(e, idx[e] + 1)
  <2>1. RowOf(draft[e], "applied") \in Row
    BY <1>4 DEF RowOf, Draft, Row, OpStatus
  <2>2. RowOf(draft[e], "applied") # NoRow
    BY <2>1, NullAssumption
  <2>3. /\ rows' \in [Executes -> [Positions -> Row \cup {NoRow}]]
        /\ rows'[e][idx[e]] # NoRow
        /\ \A f \in Executes, j \in Positions :
               rows[f][j] # NoRow => rows'[f][j] # NoRow
    BY <1>4, <1>5, <2>1, <2>2 DEF TypeInv, TypeOK, DbTypeOK
  <2>4. \A j \in 1..((idx[e] + 1) - 1) : rows'[e][j] # NoRow
    <3> SUFFICES ASSUME NEW j \in 1..idx[e] PROVE rows'[e][j] # NoRow
      BY <1>4
    <3>1. j \in Positions
      BY <1>4, OpsAssumption DEF Positions
    <3>2. CASE j = idx[e]
      BY <2>3, <3>2
    <3>3. CASE j # idx[e]
      BY <1>4, <2>3, <3>1, <3>3
    <3> QED  BY <3>2, <3>3
  <2>5. Entered(e)
    BY <1>4, <1>5, <2>4, EnterType
  <2>6. TypeOK'
    BY <1>2, <1>3, <2>3, <2>5 DEF Entered, TypeInv, TypeOK, routerVars, undoVars,
       RouterTypeOK, DbTypeOK, ExecTypeOK, UndoTypeOK, ControlTypeOK
  <2>7. ExecuteLoopAt(e)' /\ RollbackLoopAt(e)'
    BY <2>5 DEF Entered, ExecuteLoopAt, RollbackLoopAt
  <2> QED
    BY <1>1, <1>2, <2>3, <2>5, <2>6, <2>7, OthersKeepLoops DEF Entered, undoVars
<1>6. CASE /\ Goto(e, "rollback")
           /\ idx' = [idx EXCEPT ![e] = @ - 1]
           /\ UNCHANGED <<rows, draft>>
  <2>1. /\ ControlTypeOK' /\ pc'[e] = "rollback" /\ idx'[e] = idx[e] - 1
        /\ \A q \in Procs \ {e} : pc'[q] = pc[q] /\ idx'[q] = idx[q]
    BY <1>1, <1>2, <1>4, <1>6 DEF Goto, TypeInv, TypeOK, ControlTypeOK, ExecPC
  <2>2. TypeOK'
    BY <1>2, <1>3, <1>6, <2>1 DEF TypeInv, TypeOK, routerVars, undoVars,
       RouterTypeOK, DbTypeOK, ExecTypeOK, UndoTypeOK
  <2>3. ExecuteLoopAt(e)' /\ RollbackLoopAt(e)'
    BY <1>4, <1>6, <2>1 DEF ExecuteLoopAt, RollbackLoopAt
  <2> QED
    BY <1>1, <1>2, <1>6, <2>1, <2>2, <2>3, OthersKeepLoops DEF undoVars
<1> QED  BY <1>5, <1>6 DEF InsertOperation

\* Leaving the loop after the last position.
LEMMA SucceedType ==
    ASSUME TypeInv, NEW e \in Executes, Succeed(e)
    PROVE  TypeInv'
<1>1. e \in Procs /\ e \notin Undos
  BY ProcsAssumption DEF Procs
<1>2. /\ Return(e, "applied")
      /\ UNCHANGED <<routerVars, dbVars, execVars, undoVars, envVars, idx>>
  BY DEF Succeed
<1>3. /\ ControlTypeOK' /\ pc'[e] = "done"
      /\ \A q \in Procs \ {e} : pc'[q] = pc[q] /\ idx'[q] = idx[q]
  BY <1>1, <1>2 DEF Return, Goto, TypeInv, TypeOK, ControlTypeOK, ExecPC,
             UndoPC, Reply
<1>4. TypeOK'
  BY <1>2, <1>3 DEF TypeInv, TypeOK, routerVars, dbVars, execVars, undoVars,
     envVars, RouterTypeOK, DbTypeOK, ExecTypeOK, UndoTypeOK, EnvTypeOK
<1>5. ExecuteLoopAt(e)' /\ RollbackLoopAt(e)'
  BY <1>3 DEF ExecuteLoopAt, RollbackLoopAt
<1> QED
  BY <1>1, <1>2, <1>3, <1>4, <1>5, OthersKeepLoops DEF execVars, undoVars, dbVars

\* Logging the failed and the unattempted operations leaves the rows before
\* them as they are.
LEMMA RecordFailureType ==
    ASSUME TypeInv, NEW e \in Executes, RecordFailure(e)
    PROVE  TypeInv'
<1>1. e \in Procs /\ e \notin Undos
  BY ProcsAssumption DEF Procs
<1>2. /\ pc[e] = "recordFailure"
      /\ Goto(e, "rollback")
      /\ idx' = [idx EXCEPT ![e] = @ - 1]
      /\ UNCHANGED <<routerVars, groupStatus, execVars, undoVars, holder, reply>>
  BY DEF RecordFailure
<1>3. EnvTypeOK'
  BY CallsKeepEnv DEF RecordFailure, TypeInv, TypeOK
<1>4. /\ idx[e] \in 1..Len(Ops[e]) /\ Len(Ops[e]) \in Nat /\ draft[e] \in Draft
      /\ \A i \in 1..(idx[e] - 1) : rows[e][i] # NoRow
  BY <1>2, OpsAssumption DEF TypeInv, TypeOK, LoopsOK, ExecTypeOK, ExecuteLoopAt
<1>5. PICK missed \in SUBSET (idx[e]..Len(Ops[e])) :
          rows' = [rows EXCEPT ![e] = [i \in Positions |->
                     IF i \in (idx[e]..Len(Ops[e])) \ missed
                     THEN RowOf(IF i = idx[e] THEN draft[e]
                                              ELSE NewDraft(OpAt(e, i).id), "failed")
                     ELSE @[i]]]
  BY DEF RecordFailure
<1>6. \A i \in idx[e]..Len(Ops[e]) :
          RowOf(IF i = idx[e] THEN draft[e] ELSE NewDraft(OpAt(e, i).id), "failed") \in Row
  <2> SUFFICES ASSUME NEW i \in idx[e]..Len(Ops[e])
               PROVE  RowOf(IF i = idx[e] THEN draft[e]
                            ELSE NewDraft(OpAt(e, i).id), "failed") \in Row
    OBVIOUS
  <2>1. NewDraft(OpAt(e, i).id) \in Draft
    <3>1. i \in 1..Len(Ops[e])
      BY <1>4
    <3>2. OpAt(e, i).id \in Nat
      BY <3>1, OpAtType, IdsAssumption DEF Operation
    <3> QED  BY <3>2 DEF NewDraft, Draft, Nothing, State
  <2> QED  BY <1>4, <2>1 DEF RowOf, Draft, Row, OpStatus
<1>7. DbTypeOK'
  BY <1>2, <1>5, <1>6 DEF TypeInv, TypeOK, DbTypeOK
<1>8. \A f \in Executes, j \in Positions : rows[f][j] # NoRow => rows'[f][j] # NoRow
  BY <1>5, <1>6, NullAssumption DEF TypeInv, TypeOK, DbTypeOK
<1>9. /\ ControlTypeOK' /\ pc'[e] = "rollback" /\ idx'[e] = idx[e] - 1
      /\ \A q \in Procs \ {e} : pc'[q] = pc[q] /\ idx'[q] = idx[q]
  BY <1>1, <1>2, <1>4 DEF Goto, TypeInv, TypeOK, ControlTypeOK, ExecPC
<1>10. TypeOK'
  BY <1>2, <1>3, <1>7, <1>9 DEF TypeInv, TypeOK, routerVars, execVars, undoVars,
     RouterTypeOK, ExecTypeOK, UndoTypeOK
<1>11. ExecuteLoopAt(e)' /\ RollbackLoopAt(e)'
  <2>1. \A i \in 1..idx'[e] : i \in Positions /\ rows[e][i] # NoRow
    BY <1>4, <1>9, OpsAssumption DEF Positions
  <2> QED  BY <1>4, <1>8, <1>9, <2>1 DEF ExecuteLoopAt, RollbackLoopAt
<1> QED
  BY <1>1, <1>2, <1>8, <1>9, <1>10, <1>11, OthersKeepLoops DEF execVars, undoVars

\* A rollback reverses from a row that exists.
LEMMA RollbackOneType ==
    ASSUME TypeInv, NEW e \in Executes, RollbackOne(e)
    PROVE  TypeInv'
<1>1. e \in Procs /\ e \notin Undos
  BY ProcsAssumption DEF Procs
<1>2. /\ pc[e] = "rollback" /\ idx[e] > 0
      /\ UNCHANGED <<dbVars, draft, undoVars, holder, idx, reply>>
  BY DEF RollbackOne
<1>3. EnvTypeOK'
  BY CallsKeepEnv DEF RollbackOne, TypeInv, TypeOK
<1>4. RollbackLoopAt(e) /\ idx[e] \in Nat
  BY <1>1 DEF TypeInv, TypeOK, LoopsOK, ControlTypeOK
<1>5. rows[e][idx[e]] \in Row
  <2>1. rows[e][idx[e]] # NoRow /\ idx[e] \in Positions
    BY <1>2, <1>4, OpsAssumption DEF RollbackLoopAt, Positions
  <2> QED  BY <2>1 DEF TypeInv, TypeOK, DbTypeOK
<1>6. RouterTypeOK'
  <2>1. CASE CarryReverse(e, idx[e], rows[e][idx[e]])
    BY <1>5, <2>1, CarryReverseType DEF TypeInv, TypeOK
  <2>2. CASE UNCHANGED routerVars
    BY <2>2 DEF TypeInv, TypeOK, RouterTypeOK, routerVars
  <2> QED  BY <2>1, <2>2 DEF RollbackOne
<1>7. /\ ControlTypeOK' /\ pc'[e] \in {"markUndone", "markFailed"}
      /\ \A q \in Procs \ {e} : pc'[q] = pc[q] /\ idx'[q] = idx[q]
  BY <1>1, <1>2 DEF RollbackOne, Goto, TypeInv, TypeOK, ControlTypeOK, ExecPC
<1>8. ExecTypeOK'
  BY <1>2 DEF RollbackOne, TypeInv, TypeOK, ExecTypeOK
<1>9. TypeOK'
  BY <1>2, <1>3, <1>6, <1>7, <1>8 DEF TypeInv, TypeOK, dbVars, undoVars,
     DbTypeOK, UndoTypeOK
<1>10. ExecuteLoopAt(e)' /\ RollbackLoopAt(e)'
  BY <1>2, <1>4, <1>7 DEF ExecuteLoopAt, RollbackLoopAt, dbVars
<1> QED
  BY <1>1, <1>2, <1>7, <1>9, <1>10, OthersKeepLoops DEF dbVars, undoVars

\* The rollback moves down by one position.
LEMMA RollbackMarkType ==
    ASSUME TypeInv, NEW e \in Executes, RollbackMark(e)
    PROVE  TypeInv'
<1>1. e \in Procs /\ e \notin Undos
  BY ProcsAssumption DEF Procs
<1>2. /\ pc[e] \in {"markUndone", "markFailed"}
      /\ Goto(e, "rollback")
      /\ idx' = [idx EXCEPT ![e] = @ - 1]
      /\ UNCHANGED <<routerVars, groupStatus, execVars, undoVars, holder, reply>>
  BY DEF RollbackMark
<1>3. PICK s \in OpStatus : SetRowStatus(e, e, idx[e], s)
  BY DEF RollbackMark, OpStatus
<1>4. /\ DbTypeOK' /\ EnvTypeOK'
      /\ \A f \in Executes, j \in Positions : rows[f][j] # NoRow => rows'[f][j] # NoRow
  BY <1>2, <1>3, SetRowStatusType DEF TypeInv, TypeOK
<1>5. RollbackLoopAt(e) /\ idx[e] \in Nat
  BY <1>1 DEF TypeInv, TypeOK, LoopsOK, ControlTypeOK
<1>6. /\ ControlTypeOK' /\ pc'[e] = "rollback" /\ idx'[e] = idx[e] - 1
      /\ \A q \in Procs \ {e} : pc'[q] = pc[q] /\ idx'[q] = idx[q]
  BY <1>1, <1>2, <1>5 DEF Goto, TypeInv, TypeOK, ControlTypeOK, ExecPC, RollbackLoopAt
<1>7. TypeOK'
  BY <1>2, <1>4, <1>6 DEF TypeInv, TypeOK, routerVars, execVars, undoVars,
     RouterTypeOK, ExecTypeOK, UndoTypeOK
<1>8. ExecuteLoopAt(e)' /\ RollbackLoopAt(e)'
  <2>1. \A i \in 1..idx'[e] : i \in Positions /\ rows[e][i] # NoRow
    BY <1>2, <1>5, <1>6, OpsAssumption DEF Positions, RollbackLoopAt
  <2> QED
    BY <1>2, <1>4, <1>5, <1>6, <2>1, OpsAssumption DEF ExecuteLoopAt, RollbackLoopAt
<1> QED
  BY <1>1, <1>2, <1>4, <1>6, <1>7, <1>8, OthersKeepLoops DEF execVars, undoVars

\* A rollback ends with a status of the enum column.
LEMMA RollbackGroupType ==
    ASSUME TypeInv, NEW e \in Executes, RollbackGroup(e)
    PROVE  TypeInv'
<1>1. e \in Procs /\ e \notin Undos
  BY ProcsAssumption DEF Procs
<1>2. /\ Goto(e, "respond")
      /\ UNCHANGED <<routerVars, rows, execVars, undoVars, holder, idx, reply>>
  BY DEF RollbackGroup
<1>3. PICK s \in GroupStatus : SetGroupStatus(e, e, s)
  BY DEF RollbackGroup, GroupStatus
<1>4. DbTypeOK' /\ EnvTypeOK'
  BY <1>2, <1>3, SetGroupStatusType DEF TypeInv, TypeOK
<1>5. /\ ControlTypeOK' /\ pc'[e] = "respond"
      /\ \A q \in Procs \ {e} : pc'[q] = pc[q] /\ idx'[q] = idx[q]
  BY <1>1, <1>2 DEF Goto, TypeInv, TypeOK, ControlTypeOK, ExecPC
<1>6. TypeOK'
  BY <1>2, <1>4, <1>5 DEF TypeInv, TypeOK, routerVars, execVars, undoVars,
     RouterTypeOK, ExecTypeOK, UndoTypeOK
<1>7. ExecuteLoopAt(e)' /\ RollbackLoopAt(e)'
  BY <1>5 DEF ExecuteLoopAt, RollbackLoopAt
<1> QED
  BY <1>1, <1>2, <1>5, <1>6, <1>7, OthersKeepLoops DEF execVars, undoVars

\* The status the database has is one of those a response carries.
LEMMA RespondFailureType ==
    ASSUME TypeInv, NEW e \in Executes, RespondFailure(e)
    PROVE  TypeInv'
<1>1. e \in Procs /\ e \notin Undos
  BY ProcsAssumption DEF Procs
<1>2. UNCHANGED <<routerVars, dbVars, execVars, undoVars, idx>>
  BY DEF RespondFailure
<1>3. EnvTypeOK'
  BY CallsKeepEnv DEF RespondFailure, TypeInv, TypeOK
<1>4. PICK answer \in Reply : Return(e, answer)
  BY DEF RespondFailure, TypeInv, TypeOK, DbTypeOK, GroupStatus, Reply
<1>5. /\ ControlTypeOK' /\ pc'[e] = "done"
      /\ \A q \in Procs \ {e} : pc'[q] = pc[q] /\ idx'[q] = idx[q]
  BY <1>1, <1>2, <1>4 DEF Return, Goto, TypeInv, TypeOK, ControlTypeOK, ExecPC
<1>6. TypeOK'
  BY <1>2, <1>3, <1>5 DEF TypeInv, TypeOK, routerVars, dbVars, execVars, undoVars,
     RouterTypeOK, DbTypeOK, ExecTypeOK, UndoTypeOK
<1>7. ExecuteLoopAt(e)' /\ RollbackLoopAt(e)'
  BY <1>5 DEF ExecuteLoopAt, RollbackLoopAt
<1> QED
  BY <1>1, <1>2, <1>5, <1>6, <1>7, OthersKeepLoops DEF dbVars, execVars, undoVars

\* An Undo works on the group it was asked for.
LEMMA UndoReadGroupType ==
    ASSUME TypeInv, NEW u \in Undos, NEW g \in Executes, UndoReadGroup(u, g)
    PROVE  TypeInv'
<1>1. u \in Procs /\ u \notin Executes
  BY ProcsAssumption DEF Procs
<1>2. /\ target' = [target EXCEPT ![u] = g]
      /\ UNCHANGED <<routerVars, dbVars, execVars, idx>>
  BY DEF UndoReadGroup
<1>3. EnvTypeOK'
  BY CallsKeepEnv DEF UndoReadGroup, TypeInv, TypeOK
<1>4. UndoTypeOK'
  <2>1. target' \in [Undos -> Executes \cup {NoOne}]
    BY <1>2 DEF TypeInv, TypeOK, UndoTypeOK
  <2>2. CASE snap' = [snap EXCEPT ![u].status = groupStatus[g]]
    BY <2>1, <2>2 DEF TypeInv, TypeOK, UndoTypeOK, DbTypeOK
  <2>3. CASE UNCHANGED snap
    BY <2>1, <2>3 DEF TypeInv, TypeOK, UndoTypeOK
  <2> QED  BY <2>2, <2>3 DEF UndoReadGroup
<1>5. /\ ControlTypeOK' /\ pc'[u] \in {"readOps", "done"}
      /\ \A q \in Procs \ {u} : pc'[q] = pc[q] /\ idx'[q] = idx[q]
  BY <1>1, <1>2 DEF UndoReadGroup, Return, Goto, TypeInv, TypeOK, ControlTypeOK,
     ExecPC, UndoPC, Reply
<1>6. TypeOK'
  BY <1>2, <1>3, <1>4, <1>5 DEF TypeInv, TypeOK, routerVars, dbVars, execVars,
     RouterTypeOK, DbTypeOK, ExecTypeOK
<1>7. UndoLoopAt(u)' /\ \A v \in Undos \ {u} : target'[v] = target[v]
  BY <1>2, <1>5 DEF UndoLoopAt, TypeInv, TypeOK, UndoTypeOK
<1> QED
  BY <1>1, <1>2, <1>5, <1>6, <1>7, OthersKeepLoops DEF dbVars, execVars

\* The rows an Undo works on are rows of the table.
LEMMA UndoReadOpsType ==
    ASSUME TypeInv, NEW u \in Undos, UndoReadOps(u)
    PROVE  TypeInv'
<1>1. u \in Procs /\ u \notin Executes
  BY ProcsAssumption DEF Procs
<1>2. /\ pc[u] = "readOps"
      /\ UNCHANGED <<routerVars, dbVars, execVars, target, idx>>
  BY DEF UndoReadOps
<1>3. EnvTypeOK'
  BY CallsKeepEnv DEF UndoReadOps, TypeInv, TypeOK
<1>4. UndoLoopAt(u) /\ target[u] \in Executes
  BY <1>2 DEF TypeInv, LoopsOK, UndoLoopAt
<1>5. UndoTypeOK'
  <2>1. CASE snap' = [snap EXCEPT ![u].rows = rows[target[u]]]
    BY <1>2, <1>4, <2>1 DEF TypeInv, TypeOK, UndoTypeOK, DbTypeOK
  <2>2. CASE UNCHANGED snap
    BY <1>2, <2>2 DEF TypeInv, TypeOK, UndoTypeOK
  <2> QED  BY <2>1, <2>2 DEF UndoReadOps
<1>6. /\ ControlTypeOK' /\ pc'[u] \in {"lock", "done"}
      /\ \A q \in Procs \ {u} : pc'[q] = pc[q] /\ idx'[q] = idx[q]
  BY <1>1, <1>2 DEF UndoReadOps, Return, Goto, TypeInv, TypeOK, ControlTypeOK,
     ExecPC, UndoPC, Reply
<1>7. TypeOK'
  BY <1>2, <1>3, <1>5, <1>6 DEF TypeInv, TypeOK, routerVars, dbVars, execVars,
     RouterTypeOK, DbTypeOK, ExecTypeOK
<1>8. UndoLoopAt(u)'
  BY <1>2, <1>4, <1>6 DEF UndoLoopAt
<1> QED
  BY <1>1, <1>2, <1>6, <1>7, <1>8, OthersKeepLoops DEF dbVars, execVars

\* Phase 1 starts from the last position.
LEMMA UndoClientsType ==
    ASSUME TypeInv, NEW u \in Undos, UndoClients(u)
    PROVE  TypeInv'
<1>1. u \in Procs /\ u \notin Executes
  BY ProcsAssumption DEF Procs
<1>2. /\ pc[u] = "clients" /\ idx' = [idx EXCEPT ![u] = MaxOps]
      /\ UNCHANGED <<routerVars, dbVars, execVars, undoVars>>
  BY DEF UndoClients
<1>3. EnvTypeOK'
  <2>1. CASE UNCHANGED envVars
    BY <2>1 DEF envVars, TypeInv, TypeOK, EnvTypeOK
  <2> QED  BY <2>1, CallsKeepEnv DEF UndoClients, TypeInv, TypeOK
<1>4. /\ ControlTypeOK' /\ pc'[u] \in {"match", "done"}
      /\ \A q \in Procs \ {u} : pc'[q] = pc[q] /\ idx'[q] = idx[q]
  BY <1>1, <1>2, OpsAssumption DEF UndoClients, Return, Goto, TypeInv, TypeOK,
     ControlTypeOK, ExecPC, UndoPC, Reply
<1>5. TypeOK'
  BY <1>2, <1>3, <1>4 DEF TypeInv, TypeOK, routerVars, dbVars, execVars, undoVars,
     RouterTypeOK, DbTypeOK, ExecTypeOK, UndoTypeOK
<1>6. UndoLoopAt(u)'
  BY <1>2, <1>4 DEF UndoLoopAt, TypeInv, LoopsOK, undoVars
<1> QED
  BY <1>1, <1>2, <1>4, <1>5, <1>6, OthersKeepLoops DEF dbVars, execVars, undoVars

\* Phase 1 moves down the positions, or gives up.
LEMMA UndoMatchType ==
    ASSUME TypeInv, NEW u \in Undos, UndoMatch(u)
    PROVE  TypeInv'
<1>1. u \in Procs /\ u \notin Executes
  BY ProcsAssumption DEF Procs
<1>2. /\ pc[u] = "match"
      /\ UNCHANGED <<routerVars, dbVars, execVars, undoVars>>
  BY DEF UndoMatch
<1>3. EnvTypeOK'
  <2>1. CASE UNCHANGED envVars
    BY <2>1 DEF envVars, TypeInv, TypeOK, EnvTypeOK
  <2> QED  BY <2>1, CallsKeepEnv DEF UndoMatch, TypeInv, TypeOK
<1>4. /\ ControlTypeOK' /\ pc'[u] \in {"match", "reverse", "done"}
      /\ \A q \in Procs \ {u} : pc'[q] = pc[q] /\ idx'[q] = idx[q]
  <2>1. \A i \in Positions : i - 1 \in Nat
    BY DEF Positions
  <2>2. CASE \E i \in Positions : /\ idx' = [idx EXCEPT ![u] = i - 1]
                                  /\ UNCHANGED <<pc, reply, holder>>
    BY <1>1, <1>2, <2>1, <2>2 DEF TypeInv, TypeOK, ControlTypeOK
  <2>3. CASE Return(u, "undo_blocked") /\ UNCHANGED idx
    BY <1>1, <2>3 DEF Return, Goto, TypeInv, TypeOK, ControlTypeOK, UndoPC, Reply
  <2>4. CASE /\ Goto(u, "reverse") /\ idx' = [idx EXCEPT ![u] = MaxOps]
             /\ UNCHANGED <<envVars, reply, holder>>
    BY <1>1, <2>4, OpsAssumption DEF Goto, TypeInv, TypeOK, ControlTypeOK, UndoPC
  <2> QED  BY <2>2, <2>3, <2>4 DEF UndoMatch
<1>5. TypeOK'
  BY <1>2, <1>3, <1>4 DEF TypeInv, TypeOK, routerVars, dbVars, execVars, undoVars,
     RouterTypeOK, DbTypeOK, ExecTypeOK, UndoTypeOK
<1>6. UndoLoopAt(u)'
  BY <1>2, <1>4 DEF UndoLoopAt, TypeInv, LoopsOK, undoVars
<1> QED
  BY <1>1, <1>2, <1>4, <1>5, <1>6, OthersKeepLoops DEF dbVars, execVars, undoVars

\* Phase 2 reverses from a row the Undo read.
LEMMA UndoReverseType ==
    ASSUME TypeInv, NEW u \in Undos, UndoReverse(u)
    PROVE  TypeInv'
<1>1. u \in Procs /\ u \notin Executes
  BY ProcsAssumption DEF Procs
<1>2. /\ pc[u] = "reverse"
      /\ UNCHANGED <<dbVars, execVars, undoVars, holder, reply>>
  BY DEF UndoReverse
<1>3. PICK i \in Positions :
          /\ NextTodo(u, i)
          /\ idx' = [idx EXCEPT ![u] = i]
          /\ \/ CallOk(u) /\ CarryReverse(target[u], i, snap[u].rows[i]) /\ Goto(u, "mark")
             \/ /\ \/ AnswerLost(u) /\ CarryReverse(target[u], i, snap[u].rows[i])
                   \/ CallFails(u, "router") /\ UNCHANGED routerVars
                   \/ CallOk(u) /\ UNCHANGED routerVars
                /\ Goto(u, "attention")
  BY <1>2 DEF UndoReverse
<1>4. EnvTypeOK'
  BY <1>3, CallsKeepEnv DEF TypeInv, TypeOK
<1>5. RouterTypeOK'
  <2>1. snap[u].rows[i] \in Row
    BY <1>3 DEF NextTodo, Todo, TypeInv, TypeOK, UndoTypeOK
  <2>2. CASE CarryReverse(target[u], i, snap[u].rows[i])
    BY <2>1, <2>2, CarryReverseType DEF TypeInv, TypeOK
  <2>3. CASE UNCHANGED routerVars
    BY <2>3 DEF TypeInv, TypeOK, RouterTypeOK, routerVars
  <2> QED  BY <1>3, <2>2, <2>3
<1>6. /\ ControlTypeOK' /\ pc'[u] \in {"mark", "attention"} /\ idx'[u] > 0
      /\ \A q \in Procs \ {u} : pc'[q] = pc[q] /\ idx'[q] = idx[q]
  <2>1. i \in Nat /\ i > 0
    BY DEF Positions
  <2>2. \/ pc' = [pc EXCEPT ![u] = "mark"]
        \/ pc' = [pc EXCEPT ![u] = "attention"]
    BY <1>3 DEF Goto
  <2>3. idx' = [idx EXCEPT ![u] = i]
    BY <1>3
  <2> QED
    BY <1>1, <1>2, <2>1, <2>2, <2>3 DEF TypeInv, TypeOK, ControlTypeOK, UndoPC
<1>7. TypeOK'
  BY <1>2, <1>4, <1>5, <1>6 DEF TypeInv, TypeOK, dbVars, execVars, undoVars,
     DbTypeOK, ExecTypeOK, UndoTypeOK
<1>8. UndoLoopAt(u)'
  BY <1>2, <1>6 DEF UndoLoopAt, TypeInv, LoopsOK, undoVars
<1> QED
  BY <1>1, <1>2, <1>6, <1>7, <1>8, OthersKeepLoops DEF dbVars, execVars, undoVars

\* Phase 2 moves down by one position.
LEMMA UndoMarkType ==
    ASSUME TypeInv, NEW u \in Undos, UndoMark(u)
    PROVE  TypeInv'
<1>1. u \in Procs /\ u \notin Executes
  BY ProcsAssumption DEF Procs
<1>2. /\ pc[u] = "mark"
      /\ SetRowStatus(u, target[u], idx[u], "undone")
      /\ idx' = [idx EXCEPT ![u] = @ - 1]
      /\ Goto(u, "reverse")
      /\ UNCHANGED <<routerVars, groupStatus, execVars, undoVars, holder, reply>>
  BY DEF UndoMark
<1>3. /\ DbTypeOK' /\ EnvTypeOK'
      /\ \A f \in Executes, j \in Positions : rows[f][j] # NoRow => rows'[f][j] # NoRow
  BY <1>2, SetRowStatusType DEF TypeInv, TypeOK, OpStatus
<1>4. UndoLoopAt(u) /\ idx[u] \in Nat
  BY <1>1 DEF TypeInv, TypeOK, LoopsOK, ControlTypeOK
<1>5. /\ ControlTypeOK' /\ pc'[u] = "reverse"
      /\ \A q \in Procs \ {u} : pc'[q] = pc[q] /\ idx'[q] = idx[q]
  BY <1>1, <1>2, <1>4 DEF Goto, TypeInv, TypeOK, ControlTypeOK, UndoPC, UndoLoopAt
<1>6. TypeOK'
  BY <1>2, <1>3, <1>5 DEF TypeInv, TypeOK, routerVars, execVars, undoVars,
     RouterTypeOK, ExecTypeOK, UndoTypeOK
<1>7. UndoLoopAt(u)'
  BY <1>2, <1>4, <1>5 DEF UndoLoopAt, undoVars
<1> QED
  BY <1>1, <1>2, <1>3, <1>5, <1>6, <1>7, OthersKeepLoops DEF execVars, undoVars

\* An Undo ends with a status of the enum column.
LEMMA UndoEndType ==
    ASSUME TypeInv, NEW u \in Undos, UndoAttention(u) \/ UndoFinish(u)
    PROVE  TypeInv'
<1>1. u \in Procs /\ u \notin Executes
  BY ProcsAssumption DEF Procs
<1>2. UNCHANGED <<routerVars, rows, execVars, undoVars, idx>>
  BY DEF UndoAttention, UndoFinish
<1>3. PICK s \in GroupStatus, answer \in Reply :
          SetGroupStatus(u, target[u], s) /\ Return(u, answer)
  BY DEF UndoAttention, UndoFinish, GroupStatus, Reply
<1>4. DbTypeOK' /\ EnvTypeOK'
  BY <1>2, <1>3, SetGroupStatusType DEF TypeInv, TypeOK
<1>5. /\ ControlTypeOK' /\ pc'[u] = "done"
      /\ \A q \in Procs \ {u} : pc'[q] = pc[q] /\ idx'[q] = idx[q]
  BY <1>1, <1>2, <1>3 DEF Return, Goto, TypeInv, TypeOK, ControlTypeOK, UndoPC
<1>6. TypeOK'
  BY <1>2, <1>4, <1>5 DEF TypeInv, TypeOK, routerVars, execVars, undoVars,
     RouterTypeOK, ExecTypeOK, UndoTypeOK
<1>7. UndoLoopAt(u)'
  BY <1>5 DEF UndoLoopAt
<1> QED
  BY <1>1, <1>2, <1>5, <1>6, <1>7, OthersKeepLoops DEF execVars, undoVars

\* A crash leaves every request finished or not yet started.
LEMMA CrashType ==
    ASSUME TypeInv, Crash
    PROVE  TypeInv'
<1>1. /\ Inject("crash")
      /\ pc' = [p \in Procs |-> IF Active(p) THEN "done" ELSE pc[p]]
      /\ reply' = [p \in Procs |-> IF Active(p) THEN "error" ELSE reply[p]]
      /\ holder' = [r \in Routers |-> NoOne]
      /\ UNCHANGED <<routerVars, dbVars, execVars, undoVars, idx>>
  BY DEF Crash
<1>2. EnvTypeOK'
  BY <1>1 DEF Inject, TypeInv, TypeOK, EnvTypeOK
<1>3. ControlTypeOK'
  BY <1>1 DEF TypeInv, TypeOK, ControlTypeOK, UndoPC, Reply
<1>4. TypeOK'
  BY <1>1, <1>2, <1>3 DEF TypeInv, TypeOK, routerVars, dbVars, execVars, undoVars,
     RouterTypeOK, DbTypeOK, ExecTypeOK, UndoTypeOK
<1>5. \A p \in Procs : pc'[p] \in {"idle", "done"}
  BY <1>1 DEF Active
<1>6. LoopsOK'
  BY <1>5 DEF LoopsOK, ExecuteLoopAt, RollbackLoopAt, UndoLoopAt, Procs
<1> QED  BY <1>4, <1>6 DEF TypeInv

\* Disconnecting clients and edits behind the back of the service keep the
\* types too.
LEMMA EnvironmentType ==
    ASSUME TypeInv,
           \/ \E p \in Procs : ClientDisconnects(p)
           \/ \E r \in Routers, id \in Ids : ExternalEdit(r, id)
    PROVE  TypeInv'
<1>1. CASE \E p \in Procs : ClientDisconnects(p)
  <2>1. UNCHANGED <<routerVars, dbVars, execVars, undoVars, holder, pc, idx, reply>>
    BY <1>1 DEF ClientDisconnects
  <2>2. EnvTypeOK'
    BY <1>1 DEF ClientDisconnects, TypeInv, TypeOK, EnvTypeOK
  <2> QED
    BY <2>1, <2>2 DEF TypeInv, TypeOK, routerVars, dbVars, execVars, undoVars,
       RouterTypeOK, DbTypeOK, ExecTypeOK, UndoTypeOK, ControlTypeOK,
       LoopsOK, ExecuteLoopAt, RollbackLoopAt, UndoLoopAt
<1>2. CASE \E r \in Routers, id \in Ids : ExternalEdit(r, id)
  <2>1. UNCHANGED <<nextId, balance, dbVars, execVars, undoVars, holder, pc, idx, reply>>
    BY <1>2 DEF ExternalEdit
  <2>2. EnvTypeOK'
    BY <1>2 DEF ExternalEdit, Inject, TypeInv, TypeOK, EnvTypeOK
  <2>3. RouterTypeOK'
    BY <1>2, <2>1 DEF ExternalEdit, TypeInv, TypeOK, RouterTypeOK
  <2> QED
    BY <2>1, <2>2, <2>3 DEF TypeInv, TypeOK, dbVars, execVars, undoVars,
       DbTypeOK, ExecTypeOK, UndoTypeOK, ControlTypeOK,
       LoopsOK, ExecuteLoopAt, RollbackLoopAt, UndoLoopAt
<1> QED  BY <1>1, <1>2

\* Steps of others keep the invariant.
LEMMA StutterType ==
    ASSUME TypeInv, UNCHANGED vars
    PROVE  TypeInv'
BY DEF TypeInv, TypeOK, vars, routerVars, dbVars, execVars, undoVars, envVars,
   RouterTypeOK, DbTypeOK, ExecTypeOK, UndoTypeOK, EnvTypeOK, ControlTypeOK,
   LoopsOK, ExecuteLoopAt, RollbackLoopAt, UndoLoopAt

\* Every step of the service keeps the invariant.
THEOREM NextTypeInv == TypeInv /\ [Next]_vars => TypeInv'
<1> SUFFICES ASSUME TypeInv, [Next]_vars PROVE TypeInv'
  OBVIOUS
<1>1. ASSUME NEW e \in Executes, ExecuteStep(e) PROVE TypeInv'
  <2>1. e \in Procs
    BY DEF Procs
  <2> QED
    BY <1>1, <2>1, ExecuteStartType, AcquireNextType, AllLockedType, CreateGroupType,
       GetClientsType, AbandonType, FetchBeforeType, ApplyOperationType,
       FetchAfterType, InsertOperationType, SucceedType, RecordFailureType,
       RollbackOneType, RollbackMarkType, RollbackGroupType, RespondFailureType
       DEF ExecuteStep
<1>2. ASSUME NEW u \in Undos, UndoStep(u) PROVE TypeInv'
  <2>1. u \in Procs
    BY DEF Procs
  <2> QED
    BY <1>2, <2>1, UndoReadGroupType, UndoReadOpsType, AcquireNextType,
       AllLockedType, UndoClientsType, UndoMatchType, UndoReverseType,
       UndoMarkType, UndoEndType DEF UndoStep
<1> QED
  BY <1>1, <1>2, CrashType, EnvironmentType, StutterType DEF Next, Quiescent

\* In every behaviour of the service, whatever fails, every variable has its
\* type: among others every group and row status is one the enum column of
\* the database accepts, and every resource on a router is well formed.
THEOREM TypeCorrect == Spec => []TypeOK
<1>1. TypeInv => TypeOK
  BY DEF TypeInv
<1> QED  BY <1>1, InitTypeInv, NextTypeInv, PTL DEF Spec

-----------------------------------------------------------------------------
(* The per-router mutexes of the operation service (lockRouterIDs): two     *)
(* requests in their critical sections have no router in common, and no     *)
(* requests wait for each other in a circle. Both need more than the lock   *)
(* itself: an Undo computes the routers it locks from the rows it read      *)
(* before.                                                                  *)

-----------------------------------------------------------------------------
(* The inductive invariant                                                 *)

\* A row, in the table or as an Undo read it, is about an operation of its
\* group; an Undo that has not read the rows yet has none.
RowsFit ==
    \A e \in Executes, i \in Positions : rows[e][i] # NoRow => i <= Len(Ops[e])
SnapFits ==
    \A u \in Undos :
        /\ pc[u] \in {"idle", "readOps"} =>
              \A i \in Positions : snap[u].rows[i] = NoRow
        /\ \A i \in Positions : snap[u].rows[i] # NoRow =>
              target[u] \in Executes /\ i <= Len(Ops[target[u]])

\* A request that has not come to the lock, or that returned, holds no mutex;
\* one that is taking its mutexes holds the first ones of its set; one in its
\* critical section holds all of its set.
HoldsRight(p) ==
    /\ pc[p] \in {"idle", "readOps", "done"} => \A r \in Routers : holder[r] # p
    /\ pc[p] = "lock" =>
          \A r \in Routers : holder[r] = p =>
              /\ r \in Needs(p)
              /\ \A s \in Needs(p) : s < r => holder[s] = p
    /\ Critical(p) => \A r \in Needs(p) : holder[r] = p

FitsOK == RowsFit /\ SnapFits
LocksOK == \A p \in Procs : HoldsRight(p)
LockInv == TypeInv /\ FitsOK /\ LocksOK

\* The routers of a request are routers.
LEMMA NeedsAreRouters ==
    ASSUME FitsOK, NEW p \in Procs
    PROVE  Needs(p) \subseteq Routers
<1>1. CASE p \in Executes
  <2>1. \A i \in 1..Len(Ops[p]) : OpAt(p, i).router \in Routers
    BY <1>1, OpAtType DEF Operation
  <2> QED  BY <1>1, <2>1 DEF Needs
<1>2. CASE p \notin Executes
  <2>1. p \in Undos
    BY <1>2 DEF Procs
  <2>2. ASSUME NEW i \in Positions, snap[p].rows[i] # NoRow
        PROVE  OpAt(target[p], i).router \in Routers
    <3>1. target[p] \in Executes /\ i \in 1..Len(Ops[target[p]])
      BY <2>1, <2>2, OpsAssumption DEF FitsOK, SnapFits, Positions
    <3> QED  BY <3>1, OpAtType DEF Operation
  <2> QED  BY <1>2, <2>2 DEF Needs
<1> QED  BY <1>1, <1>2

-----------------------------------------------------------------------------
(* FitsOK is invariant                                                     *)

\* Writing the status of a row adds no row.
LEMMA SetRowStatusFits ==
    ASSUME DbTypeOK, RowsFit, NEW p, NEW g, NEW i, NEW s, SetRowStatus(p, g, i, s)
    PROVE  RowsFit'
<1>1. CASE UNCHANGED rows
  BY <1>1 DEF RowsFit
<1>2. CASE rows' = [rows EXCEPT ![g][i] =
                       IF @ = NoRow THEN NoRow ELSE [@ EXCEPT !.status = s]]
  <2>1. \A e \in Executes, j \in Positions : rows[e][j] = NoRow => rows'[e][j] = NoRow
    BY <1>2 DEF DbTypeOK
  <2> QED  BY <2>1 DEF RowsFit
<1> QED  BY <1>1, <1>2 DEF SetRowStatus, BestEffort

\* The position in the code of every request but e is untouched.
OthersStay(e) == \A q \in Procs \ {e} : pc'[q] = pc[q]

\* Moving on in the code moves one request.
LEMMA GotoMovesOne ==
    ASSUME ControlTypeOK, NEW e \in Procs, NEW l, Goto(e, l)
    PROVE  OthersStay(e) /\ pc'[e] = l
BY DEF OthersStay, Goto, ControlTypeOK

\* And so does returning.
LEMMA ReturnMovesOne ==
    ASSUME ControlTypeOK, NEW e \in Procs, NEW answer, Return(e, answer)
    PROVE  OthersStay(e) /\ pc'[e] = "done"
BY GotoMovesOne DEF Return

\* A step of Execute moves its own request only.
LEMMA ExecuteMovesOne ==
    ASSUME ControlTypeOK, NEW e \in Executes, ExecuteStep(e)
    PROVE  OthersStay(e)
<1>1. e \in Procs
  BY DEF Procs
<1>2. CASE ExecuteStart(e) \/ CreateGroup(e) \/ RespondFailure(e) \/ Abandon(e) \/ Succeed(e)
  BY <1>1, <1>2, GotoMovesOne, ReturnMovesOne
     DEF ExecuteStart, CreateGroup, RespondFailure, Abandon, Succeed
<1>3. CASE GetClients(e) \/ InsertOperation(e)
  <2>1. ASSUME NEW i, Enter(e, i) PROVE OthersStay(e)
    BY <1>1, <2>1, GotoMovesOne DEF Enter
  <2> QED  BY <1>1, <1>3, <2>1, GotoMovesOne DEF GetClients, InsertOperation
<1>4. CASE \/ AllLocked(e) \/ FetchBefore(e) \/ ApplyOperation(e) \/ FetchAfter(e)
           \/ RecordFailure(e) \/ RollbackOne(e) \/ RollbackMark(e) \/ RollbackGroup(e)
  BY <1>1, <1>4, GotoMovesOne
     DEF AllLocked, FetchBefore, ApplyOperation, FetchAfter, RecordFailure,
         RollbackOne, RollbackMark, RollbackGroup
<1>5. CASE AcquireNext(e)
  BY <1>5 DEF AcquireNext, OthersStay
<1> QED  BY <1>2, <1>3, <1>4, <1>5 DEF ExecuteStep

\* A step of Execute logs operations of its request only.
LEMMA ExecuteFits ==
    ASSUME TypeInv, FitsOK, NEW e \in Executes, ExecuteStep(e)
    PROVE  FitsOK'
<1>1. e \in Procs /\ e \notin Undos
  BY ProcsAssumption DEF Procs
<1>2. RowsFit'
  <2>1. CASE InsertOperation(e)
    <3>1. idx[e] \in 1..Len(Ops[e]) /\ Len(Ops[e]) \in Nat
      BY <2>1, OpsAssumption DEF InsertOperation, TypeInv, LoopsOK, ExecuteLoopAt
    <3>2. CASE UNCHANGED rows
      BY <3>2 DEF FitsOK, RowsFit
    <3>3. CASE rows' = [rows EXCEPT ![e][idx[e]] = RowOf(draft[e], "applied")]
      <4>1. \A f \in Executes, j \in Positions :
                rows'[f][j] # rows[f][j] => f = e /\ j = idx[e]
        BY <3>3 DEF TypeInv, TypeOK, DbTypeOK
      <4> QED  BY <3>1, <4>1 DEF FitsOK, RowsFit
    <3> QED  BY <2>1, <3>2, <3>3 DEF InsertOperation
  <2>2. CASE RecordFailure(e)
    <3>1. \A f \in Executes, j \in Positions :
              rows'[f][j] # rows[f][j] => f = e /\ j \in idx[e]..Len(Ops[e])
      BY <2>2 DEF RecordFailure, TypeInv, TypeOK, DbTypeOK
    <3>2. idx[e] \in 1..Len(Ops[e]) /\ Len(Ops[e]) \in Nat
      BY <2>2, OpsAssumption DEF RecordFailure, TypeInv, LoopsOK, ExecuteLoopAt
    <3> QED  BY <3>1, <3>2 DEF FitsOK, RowsFit, Positions
  <2>3. CASE RollbackMark(e)
    BY <2>3, SetRowStatusFits DEF RollbackMark, FitsOK, TypeInv, TypeOK
  <2>4. CASE UNCHANGED rows
    BY <2>4 DEF FitsOK, RowsFit
  <2> QED
    BY <2>1, <2>2, <2>3, <2>4
       DEF ExecuteStep, ExecuteStart, AcquireNext, AllLocked, CreateGroup,
           GetClients, Abandon, FetchBefore, ApplyOperation, FetchAfter, Succeed,
           RollbackOne, RollbackGroup, RespondFailure, dbVars
<1>3. UNCHANGED <<target, snap>>
  BY DEF ExecuteStep, ExecuteStart, AcquireNext, AllLocked, CreateGroup,
         GetClients, Abandon, FetchBefore, ApplyOperation, FetchAfter,
         InsertOperation, Succeed, RecordFailure, RollbackOne, RollbackMark,
         RollbackGroup, RespondFailure, undoVars
<1>4. \A u \in Undos : pc'[u] = pc[u]
  BY <1>1, ExecuteMovesOne DEF OthersStay, Procs, TypeInv, TypeOK
<1> QED  BY <1>2, <1>3, <1>4 DEF FitsOK, SnapFits

\* A step of Undo moves its own request only.
LEMMA UndoMovesOne ==
    ASSUME ControlTypeOK, NEW u \in Undos, UndoStep(u)
    PROVE  OthersStay(u)
<1>1. u \in Procs
  BY DEF Procs
<1>2. CASE \/ \E g \in Executes : UndoReadGroup(u, g)
           \/ UndoReadOps(u) \/ UndoClients(u) \/ UndoAttention(u) \/ UndoFinish(u)
  BY <1>1, <1>2, GotoMovesOne, ReturnMovesOne
     DEF UndoReadGroup, UndoReadOps, UndoClients, UndoAttention, UndoFinish
<1>3. CASE AllLocked(u) \/ UndoReverse(u) \/ UndoMark(u)
  BY <1>1, <1>3, GotoMovesOne DEF AllLocked, UndoReverse, UndoMark
<1>4. CASE UndoMatch(u)
  <2>1. CASE UNCHANGED pc
    BY <2>1 DEF OthersStay
  <2> QED
    BY <1>1, <1>4, <2>1, GotoMovesOne, ReturnMovesOne DEF UndoMatch
<1>5. CASE AcquireNext(u)
  BY <1>5 DEF AcquireNext, OthersStay
<1> QED  BY <1>2, <1>3, <1>4, <1>5 DEF UndoStep

\* A step of Undo adds no row, and the rows it reads are those of its group.
LEMMA UndoFits ==
    ASSUME TypeInv, FitsOK, NEW u \in Undos, UndoStep(u)
    PROVE  FitsOK'
<1>1. u \in Procs /\ OthersStay(u)
  BY UndoMovesOne DEF Procs, TypeInv, TypeOK
<1>2. RowsFit'
  <2>1. CASE UndoMark(u)
    BY <2>1, SetRowStatusFits DEF UndoMark, FitsOK, TypeInv, TypeOK
  <2>2. CASE UNCHANGED rows
    BY <2>2 DEF FitsOK, RowsFit
  <2> QED
    BY <2>1, <2>2
       DEF UndoStep, UndoReadGroup, UndoReadOps, AcquireNext, AllLocked, UndoClients,
           UndoMatch, UndoReverse, UndoAttention, UndoFinish, dbVars
<1>3. CASE \E g \in Executes : UndoReadGroup(u, g)
  <2>1. PICK g \in Executes : UndoReadGroup(u, g)
    BY <1>3
  <2>2. pc[u] = "idle" /\ target' = [target EXCEPT ![u] = g]
    BY <2>1 DEF UndoReadGroup
  <2>3. \A i \in Positions : snap[u].rows[i] = NoRow
    BY <2>2 DEF FitsOK, SnapFits
  <2>4. snap'[u].rows = snap[u].rows /\ \A v \in Undos \ {u} : snap'[v] = snap[v]
    BY <2>1 DEF UndoReadGroup, TypeInv, TypeOK, UndoTypeOK
  <2>5. \A v \in Undos \ {u} : target'[v] = target[v] /\ pc'[v] = pc[v]
    BY <1>1, <2>2 DEF OthersStay, Procs, TypeInv, TypeOK, UndoTypeOK
  <2> QED  BY <1>2, <2>3, <2>4, <2>5 DEF FitsOK, SnapFits
<1>4. CASE UndoReadOps(u)
  <2>1. UNCHANGED <<target, rows>> /\ pc[u] = "readOps" /\ pc'[u] \in {"lock", "done"}
    BY <1>1, <1>4, GotoMovesOne, ReturnMovesOne
       DEF UndoReadOps, dbVars, TypeInv, TypeOK
  <2>2. target[u] \in Executes
    BY <2>1 DEF TypeInv, LoopsOK, UndoLoopAt
  <2>3. \/ snap'[u].rows = rows[target[u]]
        \/ snap'[u] = snap[u]
    BY <1>4 DEF UndoReadOps, TypeInv, TypeOK, UndoTypeOK
  <2>4. \A i \in Positions : snap'[u].rows[i] # NoRow => i <= Len(Ops[target[u]])
    BY <2>1, <2>2, <2>3 DEF FitsOK, RowsFit, SnapFits
  <2>5. \A v \in Undos \ {u} : snap'[v] = snap[v] /\ pc'[v] = pc[v]
    BY <1>1, <1>4 DEF UndoReadOps, OthersStay, Procs, TypeInv, TypeOK, UndoTypeOK
  <2> QED  BY <1>2, <2>1, <2>2, <2>4, <2>5 DEF FitsOK, SnapFits
<1>5. CASE \/ AcquireNext(u) \/ AllLocked(u) \/ UndoClients(u) \/ UndoMatch(u)
           \/ UndoReverse(u) \/ UndoMark(u) \/ UndoAttention(u) \/ UndoFinish(u)
  <2>1. UNCHANGED <<target, snap>>
    BY <1>5 DEF AcquireNext, AllLocked, UndoClients, UndoMatch, UndoReverse,
       UndoMark, UndoAttention, UndoFinish, undoVars
  <2>2. pc[u] \notin {"idle", "readOps"} /\ pc'[u] \notin {"idle", "readOps"}
    <3>1. CASE AcquireNext(u)
      BY <3>1 DEF AcquireNext
    <3>2. CASE UndoMatch(u)
      <4>1. CASE UNCHANGED pc
        BY <3>2, <4>1 DEF UndoMatch
      <4> QED
        BY <1>1, <3>2, <4>1, GotoMovesOne, ReturnMovesOne DEF UndoMatch, TypeInv, TypeOK
    <3>3. CASE \/ AllLocked(u) \/ UndoClients(u) \/ UndoReverse(u)
               \/ UndoMark(u) \/ UndoAttention(u) \/ UndoFinish(u)
      BY <1>1, <3>3, GotoMovesOne, ReturnMovesOne
         DEF AllLocked, UndoClients, UndoReverse, UndoMark, UndoAttention,
             UndoFinish, TypeInv, TypeOK
    <3> QED  BY <1>5, <3>1, <3>2, <3>3
  <2>3. \A v \in Undos \ {u} : pc'[v] = pc[v]
    BY <1>1 DEF OthersStay, Procs
  <2> QED  BY <1>2, <2>1, <2>2, <2>3 DEF FitsOK, SnapFits
<1> QED  BY <1>3, <1>4, <1>5 DEF UndoStep

\* Nor does anything in the environment disturb the rows.
LEMMA EnvironmentFits ==
    ASSUME TypeInv, FitsOK,
           \/ \E p \in Procs : ClientDisconnects(p)
           \/ Crash
           \/ \E r \in Routers, id \in Ids : ExternalEdit(r, id)
           \/ UNCHANGED vars
    PROVE  FitsOK'
<1>1. UNCHANGED <<rows, target, snap>>
  BY DEF ClientDisconnects, Crash, ExternalEdit, vars, dbVars, undoVars
<1>2. \A u \in Undos : pc'[u] \in {"idle", "readOps"} => pc'[u] = pc[u]
  <2>1. CASE Crash
    BY <2>1 DEF Crash, Procs
  <2> QED  BY <2>1 DEF ClientDisconnects, ExternalEdit, vars
<1> QED  BY <1>1, <1>2 DEF FitsOK, RowsFit, SnapFits

-----------------------------------------------------------------------------
(* LocksOK is invariant                                                    *)

\* The routers of a request depend on what the request read only.
LEMMA NeedsStable ==
    ASSUME NEW p \in Procs,
           p \in Undos => target'[p] = target[p] /\ snap'[p] = snap[p]
    PROVE  Needs(p)' = Needs(p)
BY DEF Needs, Procs, OpAt

\* What the other requests read is untouched.
OthersData(p) ==
    \A v \in Undos \ {p} : target'[v] = target[v] /\ snap'[v] = snap[v]

\* The other requests keep what they have when p keeps its hands off their
\* mutexes and off their data.
LEMMA OthersHoldRight ==
    ASSUME LockInv, NEW p \in Procs, OthersStay(p), OthersData(p),
           \A r \in Routers, q \in Procs \ {p} : (holder'[r] = q) <=> (holder[r] = q)
    PROVE  \A q \in Procs \ {p} : HoldsRight(q)'
<1> SUFFICES ASSUME NEW q \in Procs \ {p} PROVE HoldsRight(q)'
  OBVIOUS
<1>1. HoldsRight(q) /\ pc'[q] = pc[q] /\ Needs(q) \subseteq Routers
  BY NeedsAreRouters DEF LockInv, LocksOK, OthersStay
<1>2. Needs(q)' = Needs(q)
  BY NeedsStable DEF OthersData
<1> QED  BY <1>1, <1>2 DEF HoldsRight, Critical

\* Before the lock: a request that holds nothing goes on to the lock.
LEMMA BeforeLock ==
    ASSUME LockInv, NEW p \in Procs, OthersStay(p), OthersData(p), UNCHANGED holder,
           pc[p] \in {"idle", "readOps"}, pc'[p] \in {"readOps", "lock"}
    PROVE  LocksOK'
<1>1. HoldsRight(p)'
  BY DEF LockInv, LocksOK, HoldsRight, Critical
<1> QED  BY <1>1, OthersHoldRight DEF LocksOK

\* Inside the critical section: nothing the lock depends on changes.
LEMMA InsideLock ==
    ASSUME LockInv, NEW p \in Procs, OthersStay(p),
           UNCHANGED <<holder, target, snap>>,
           Critical(p), Critical(p)'
    PROVE  LocksOK'
<1>1. Needs(p)' = Needs(p) /\ OthersData(p)
  BY NeedsStable DEF OthersData
<1>2. HoldsRight(p)'
  BY <1>1 DEF LockInv, LocksOK, HoldsRight, Critical
<1> QED  BY <1>1, <1>2, OthersHoldRight DEF LocksOK

\* A return releases the mutexes of the request and no others.
LEMMA AfterLock ==
    ASSUME LockInv, NEW p \in Procs, NEW answer, Return(p, answer), OthersData(p)
    PROVE  LocksOK'
<1>1. OthersStay(p) /\ pc'[p] = "done"
  BY ReturnMovesOne DEF LockInv, TypeInv, TypeOK
<1>2. holder' = [r \in Routers |-> IF holder[r] = p THEN NoOne ELSE holder[r]]
  BY DEF Return
<1>3. HoldsRight(p)'
  BY <1>1, <1>2, ProcsAssumption DEF HoldsRight, Critical
<1>4. \A r \in Routers, q \in Procs \ {p} : (holder'[r] = q) <=> (holder[r] = q)
  BY <1>2, ProcsAssumption
<1> QED  BY <1>1, <1>3, <1>4, OthersHoldRight DEF LocksOK

\* lockRouterIDs: the next mutex in order, when it is free.
LEMMA AcquireNextLocks ==
    ASSUME LockInv, NEW p \in Procs, AcquireNext(p)
    PROVE  LocksOK'
<1>1. PICK r \in Needs(p) : /\ holder[r] = NoOne
                            /\ \A s \in Needs(p) : s < r => holder[s] = p
                            /\ holder' = [holder EXCEPT ![r] = p]
  BY DEF AcquireNext
<1>2. pc[p] = "lock" /\ UNCHANGED <<pc, target, snap>>
  BY DEF AcquireNext, undoVars
<1>3. r \in Routers /\ Needs(p) \subseteq Routers
  BY NeedsAreRouters DEF LockInv
<1>4. /\ holder'[r] = p
      /\ \A s \in Routers \ {r} : holder'[s] = holder[s]
  BY <1>1, <1>3 DEF LockInv, TypeInv, TypeOK, ControlTypeOK
<1>5. Needs(p)' = Needs(p) /\ OthersData(p) /\ OthersStay(p)
  BY <1>2, NeedsStable DEF OthersData, OthersStay
<1>6. HoldsRight(p)'
  <2>1. ASSUME NEW t \in Routers, holder'[t] = p
        PROVE  t \in Needs(p) /\ \A s \in Needs(p) : s < t => holder'[s] = p
    <3>1. CASE t = r
      BY <1>1, <1>3, <1>4, <3>1
    <3>2. CASE t # r
      BY <1>1, <1>2, <1>3, <1>4, <2>1, <3>2 DEF LockInv, LocksOK, HoldsRight
    <3> QED  BY <3>1, <3>2
  <2> QED  BY <1>2, <1>5, <2>1 DEF HoldsRight, Critical
<1>7. ASSUME NEW s \in Routers, NEW q \in Procs \ {p}
      PROVE  (holder'[s] = q) <=> (holder[s] = q)
  <2>1. q # NoOne
    BY ProcsAssumption
  <2>2. CASE s = r
    BY <1>1, <1>4, <2>1, <2>2
  <2>3. CASE s # r
    BY <1>4, <2>3
  <2> QED  BY <2>2, <2>3
<1> QED  BY <1>5, <1>6, <1>7, OthersHoldRight DEF LocksOK

\* A request enters its critical section with all of its mutexes.
LEMMA AllLockedLocks ==
    ASSUME LockInv, NEW p \in Procs, AllLocked(p)
    PROVE  LocksOK'
<1>1. /\ \A r \in Needs(p) : holder[r] = p
      /\ UNCHANGED <<holder, target, snap>>
  BY DEF AllLocked, undoVars
<1>2. OthersStay(p) /\ pc'[p] \in {"create", "clients"}
  BY GotoMovesOne DEF AllLocked, LockInv, TypeInv, TypeOK
<1>3. Needs(p)' = Needs(p) /\ OthersData(p)
  BY <1>1, NeedsStable DEF OthersData
<1>4. HoldsRight(p)'
  BY <1>1, <1>2, <1>3 DEF HoldsRight
<1> QED  BY <1>1, <1>2, <1>3, <1>4, OthersHoldRight DEF LocksOK

\* Every step of Execute keeps the mutexes right.
LEMMA ExecuteLocks ==
    ASSUME LockInv, NEW e \in Executes, ExecuteStep(e)
    PROVE  LocksOK'
<1>1. e \in Procs /\ OthersStay(e) /\ ControlTypeOK
  BY ExecuteMovesOne DEF Procs, LockInv, TypeInv, TypeOK
<1>2. UNCHANGED <<target, snap>> /\ OthersData(e)
  BY DEF ExecuteStep, ExecuteStart, AcquireNext, AllLocked, CreateGroup,
         GetClients, Abandon, FetchBefore, ApplyOperation, FetchAfter,
         InsertOperation, Succeed, RecordFailure, RollbackOne, RollbackMark,
         RollbackGroup, RespondFailure, undoVars, OthersData
<1>3. ASSUME NEW answer, Return(e, answer) PROVE LocksOK'
  BY <1>1, <1>2, <1>3, AfterLock
<1>4. ASSUME UNCHANGED holder, Critical(e), NEW l, Goto(e, l),
             l \notin {"idle", "readOps", "lock", "done"}
      PROVE  LocksOK'
  BY <1>1, <1>2, <1>4, GotoMovesOne, InsideLock DEF Critical
<1>5. ASSUME UNCHANGED holder, Critical(e), NEW i, Enter(e, i) PROVE LocksOK'
  BY <1>4, <1>5 DEF Enter
<1>6. CASE ExecuteStart(e)
  <2>1. CASE Goto(e, "lock") /\ UNCHANGED holder
    BY <1>1, <1>2, <1>6, <2>1, GotoMovesOne, BeforeLock DEF ExecuteStart
  <2> QED  BY <1>3, <1>6, <2>1 DEF ExecuteStart
<1>7. CASE CreateGroup(e) \/ RespondFailure(e) \/ Abandon(e) \/ Succeed(e)
  BY <1>3, <1>4, <1>7 DEF CreateGroup, RespondFailure, Abandon, Succeed, Critical
<1>8. CASE GetClients(e) \/ InsertOperation(e)
  BY <1>4, <1>5, <1>8 DEF GetClients, InsertOperation, Critical
<1>9. CASE \/ FetchBefore(e) \/ ApplyOperation(e) \/ FetchAfter(e) \/ RecordFailure(e)
           \/ RollbackOne(e) \/ RollbackMark(e) \/ RollbackGroup(e)
  <2>1. UNCHANGED holder /\ Critical(e)
    BY <1>9 DEF FetchBefore, ApplyOperation, FetchAfter, RecordFailure, RollbackOne,
       RollbackMark, RollbackGroup, Critical
  <2>2. \E l \in ExecPC \ {"idle", "lock", "done"} : Goto(e, l)
    BY <1>9 DEF FetchBefore, ApplyOperation, FetchAfter, RecordFailure, RollbackOne,
       RollbackMark, RollbackGroup, ExecPC
  <2> QED  BY <1>4, <2>1, <2>2 DEF ExecPC
<1> QED
  BY <1>1, <1>6, <1>7, <1>8, <1>9, AcquireNextLocks, AllLockedLocks DEF ExecuteStep

\* Every step of Undo keeps the mutexes right: the routers it needs change
\* only before it comes to the lock.
LEMMA UndoLocks ==
    ASSUME LockInv, NEW u \in Undos, UndoStep(u)
    PROVE  LocksOK'
<1>1. u \in Procs /\ OthersStay(u) /\ ControlTypeOK
  BY UndoMovesOne DEF Procs, LockInv, TypeInv, TypeOK
<1>2. OthersData(u)
  BY DEF UndoStep, UndoReadGroup, UndoReadOps, AcquireNext, AllLocked, UndoClients,
         UndoMatch, UndoReverse, UndoMark, UndoAttention, UndoFinish, undoVars,
         OthersData, LockInv, TypeInv, TypeOK, UndoTypeOK
<1>3. ASSUME NEW answer, Return(u, answer) PROVE LocksOK'
  BY <1>1, <1>2, <1>3, AfterLock
<1>4. ASSUME UNCHANGED <<holder, target, snap>>, Critical(u), NEW l, Goto(u, l),
             l \notin {"idle", "readOps", "lock", "done"}
      PROVE  LocksOK'
  BY <1>1, <1>4, GotoMovesOne, InsideLock DEF Critical
<1>5. CASE (\E g \in Executes : UndoReadGroup(u, g)) \/ UndoReadOps(u)
  <2>1. CASE \E l \in {"readOps", "lock"} : Goto(u, l) /\ UNCHANGED holder
    <3>1. pc[u] \in {"idle", "readOps"}
      BY <1>5 DEF UndoReadGroup, UndoReadOps
    <3>2. pc'[u] \in {"readOps", "lock"}
      BY <1>1, <2>1, GotoMovesOne
    <3> QED  BY <1>1, <1>2, <2>1, <3>1, <3>2, BeforeLock
  <2> QED  BY <1>3, <1>5, <2>1 DEF UndoReadGroup, UndoReadOps
<1>6. CASE UndoClients(u) \/ UndoReverse(u) \/ UndoMark(u)
  BY <1>3, <1>4, <1>6 DEF UndoClients, UndoReverse, UndoMark, Critical, undoVars
<1>7. CASE UndoAttention(u) \/ UndoFinish(u)
  BY <1>3, <1>7 DEF UndoAttention, UndoFinish
<1>8. CASE UndoMatch(u)
  <2>1. UNCHANGED <<target, snap>> /\ Critical(u)
    BY <1>8 DEF UndoMatch, undoVars, Critical
  <2>2. CASE UNCHANGED <<pc, holder>>
    BY <1>1, <2>1, <2>2, InsideLock DEF Critical
  <2>3. CASE Goto(u, "reverse") /\ UNCHANGED holder
    BY <1>4, <2>1, <2>3
  <2> QED  BY <1>3, <1>8, <2>2, <2>3 DEF UndoMatch
<1> QED
  BY <1>1, <1>5, <1>6, <1>7, <1>8, AcquireNextLocks, AllLockedLocks DEF UndoStep

\* A crash empties the mutexes together with the requests; the rest of the
\* environment does not know them.
LEMMA EnvironmentLocks ==
    ASSUME LockInv,
           \/ \E p \in Procs : ClientDisconnects(p)
           \/ Crash
           \/ \E r \in Routers, id \in Ids : ExternalEdit(r, id)
           \/ UNCHANGED vars
    PROVE  LocksOK'
<1>1. CASE Crash
  <2>1. \A p \in Procs : pc'[p] \in {"idle", "done"}
    BY <1>1 DEF Crash, Active
  <2>2. \A r \in Routers, p \in Procs : holder'[r] # p
    BY <1>1, ProcsAssumption DEF Crash
  <2> QED  BY <2>1, <2>2 DEF LocksOK, HoldsRight, Critical
<1>2. CASE UNCHANGED <<pc, holder, target, snap>>
  <2>1. \A p \in Procs : Needs(p)' = Needs(p)
    BY <1>2, NeedsStable
  <2> QED  BY <1>2, <2>1 DEF LockInv, LocksOK, HoldsRight, Critical
<1> QED
  BY <1>1, <1>2 DEF ClientDisconnects, ExternalEdit, vars, undoVars

-----------------------------------------------------------------------------
(* What follows                                                            *)

\* No mutex is held at the start.
THEOREM InitLockInv == Init => LockInv
<1> SUFFICES ASSUME Init PROVE LockInv
  OBVIOUS
<1>1. TypeInv
  BY InitTypeInv
<1>2. FitsOK
  BY DEF Init, FitsOK, RowsFit, SnapFits, NoSnap
<1>3. LocksOK
  BY ProcsAssumption DEF Init, LocksOK, HoldsRight, Critical
<1> QED  BY <1>1, <1>2, <1>3 DEF LockInv

\* Every step of the service keeps the mutexes right.
THEOREM NextLockInv == LockInv /\ [Next]_vars => LockInv'
<1> SUFFICES ASSUME LockInv, [Next]_vars PROVE LockInv'
  OBVIOUS
<1>1. TypeInv'
  BY NextTypeInv DEF LockInv
<1>2. FitsOK'
  BY ExecuteFits, UndoFits, EnvironmentFits DEF LockInv, Next, Quiescent
<1>3. LocksOK'
  BY ExecuteLocks, UndoLocks, EnvironmentLocks DEF Next, Quiescent
<1> QED  BY <1>1, <1>2, <1>3 DEF LockInv

\* Two requests past lockRouterIDs never have a router in common, for every
\* set of routers and requests, whatever fails and whoever crashes.
THEOREM Exclusion == Spec => []MutualExclusion
<1>1. LockInv => MutualExclusion
  <2> SUFFICES ASSUME LockInv, NEW p \in Procs, NEW q \in Procs, p # q,
                      Critical(p), Critical(q)
               PROVE  Needs(p) \cap Needs(q) = {}
    BY DEF MutualExclusion
  <2>1. \A r \in Needs(p) : holder[r] = p
    BY DEF LockInv, LocksOK, HoldsRight
  <2>2. \A r \in Needs(q) : holder[r] = q
    BY DEF LockInv, LocksOK, HoldsRight
  <2> QED  BY <2>1, <2>2
<1> QED  BY <1>1, InitLockInv, NextLockInv, PTL DEF Spec

\* Requests that wait for each other's mutexes wait for ever larger routers,
\* so they never form a circle: sorting the IDs prevents the deadlock.
THEOREM SortedLocksNeverCircle == Spec => []NoCircularWait
<1>1. LockInv => NoCircularWait
  <2> SUFFICES ASSUME LockInv, NEW p \in Procs, NEW q \in Procs,
                      NEW r \in Routers, NEW s \in Routers,
                      Waits(p, r), holder[r] = q, Waits(q, s)
               PROVE  r < s
    BY DEF NoCircularWait
  <2>1. /\ r \in Needs(q)
        /\ \A t \in Needs(q) : t < r => holder[t] = q
    BY DEF Waits, LockInv, LocksOK, HoldsRight
  <2>2. s \in Needs(q) /\ holder[s] # q
    BY DEF Waits
  <2> QED  BY <2>1, <2>2, RoutersAssumption
<1> QED  BY <1>1, InitLockInv, NextLockInv, PTL DEF Spec

-----------------------------------------------------------------------------
(* The mutexes implement one lock over sets of routers                     *)

\* A step that moves one request, and leaves what the requests in their
\* critical sections read as it is.
MovesOnly(p) ==
    /\ OthersStay(p)
    /\ OthersData(p)
    /\ Critical(p) => UNCHANGED <<target, snap>>

LEMMA ExecuteMovesOnly ==
    ASSUME LockInv, NEW e \in Executes, ExecuteStep(e)
    PROVE  MovesOnly(e)
<1>1. OthersStay(e)
  BY ExecuteMovesOne DEF LockInv, TypeInv, TypeOK
<1>2. UNCHANGED <<target, snap>>
  BY DEF ExecuteStep, ExecuteStart, AcquireNext, AllLocked, CreateGroup, GetClients,
         Abandon, FetchBefore, ApplyOperation, FetchAfter, InsertOperation, Succeed,
         RecordFailure, RollbackOne, RollbackMark, RollbackGroup, RespondFailure, undoVars
<1> QED  BY <1>1, <1>2 DEF MovesOnly, OthersData

\* An Undo reads its group and its rows before it takes a mutex.
LEMMA UndoMovesOnly ==
    ASSUME LockInv, NEW u \in Undos, UndoStep(u)
    PROVE  MovesOnly(u)
<1>1. OthersStay(u)
  BY UndoMovesOne DEF LockInv, TypeInv, TypeOK
<1>2. CASE (\E g \in Executes : UndoReadGroup(u, g)) \/ UndoReadOps(u)
  <2>1. ~Critical(u)
    BY <1>2 DEF UndoReadGroup, UndoReadOps, Critical
  <2>2. OthersData(u)
    BY <1>2 DEF UndoReadGroup, UndoReadOps, OthersData, LockInv, TypeInv, TypeOK, UndoTypeOK
  <2> QED  BY <1>1, <2>1, <2>2 DEF MovesOnly
<1>3. CASE \/ AcquireNext(u) \/ AllLocked(u) \/ UndoClients(u) \/ UndoMatch(u)
           \/ UndoReverse(u) \/ UndoMark(u) \/ UndoAttention(u) \/ UndoFinish(u)
  <2>1. UNCHANGED <<target, snap>>
    BY <1>3 DEF AcquireNext, AllLocked, UndoClients, UndoMatch, UndoReverse, UndoMark,
                UndoAttention, UndoFinish, undoVars
  <2> QED  BY <1>1, <2>1 DEF MovesOnly, OthersData
<1> QED  BY <1>2, <1>3 DEF UndoStep

\* The sets of routers of the requests, as the abstract lock sees them.
OwnedApart ==
    /\ \A p \in Procs : Owned[p] \subseteq Routers
    /\ \A p, q \in Procs : p # q => Owned[p] \cap Owned[q] = {}

LEMMA LockInvApart == LockInv => OwnedApart
<1> SUFFICES ASSUME LockInv PROVE OwnedApart
  OBVIOUS
<1>1. ASSUME NEW p \in Procs PROVE Owned[p] \subseteq Routers
  BY NeedsAreRouters DEF LockInv, Owned
<1>2. ASSUME NEW p \in Procs, NEW q \in Procs, p # q
      PROVE  Owned[p] \cap Owned[q] = {}
  <2>1. \A r \in Owned[p] : holder[r] = p
    BY DEF LockInv, LocksOK, HoldsRight, Owned
  <2>2. \A r \in Owned[q] : holder[r] = q
    BY DEF LockInv, LocksOK, HoldsRight, Owned
  <2> QED  BY <1>2, <2>1, <2>2
<1> QED  BY <1>1, <1>2 DEF OwnedApart

\* What the abstract lock sees of a request.
LEMMA OwnedBy ==
    /\ \A p \in Procs : Owned[p] = IF Critical(p) THEN Needs(p) ELSE {}
    /\ \A p \in Procs : Owned'[p] = IF Critical(p)' THEN Needs(p)' ELSE {}
    /\ Owned = [p \in Procs |-> Owned[p]]
    /\ Owned' = [p \in Procs |-> Owned'[p]]
BY DEF Owned

\* Such a step takes a set of routers at once, gives one back at once, or
\* shows nothing to the abstract lock.
LEMMA MoveRefines ==
    ASSUME OwnedApart', NEW p \in Procs, MovesOnly(p)
    PROVE  [Locks!Next]_Owned
<1>1. \A q \in Procs \ {p} : Owned'[q] = Owned[q]
  <2> SUFFICES ASSUME NEW q \in Procs \ {p} PROVE Owned'[q] = Owned[q]
    OBVIOUS
  <2>1. Needs(q)' = Needs(q)
    BY NeedsStable DEF MovesOnly, OthersData
  <2>2. Critical(q)' <=> Critical(q)
    BY DEF MovesOnly, OthersStay, Critical
  <2> QED  BY <2>1, <2>2, OwnedBy
<1>2. Owned' = [Owned EXCEPT ![p] = Owned'[p]]
  BY <1>1, OwnedBy
<1>3. CASE Critical(p) /\ Critical(p)'
  <2>1. Needs(p)' = Needs(p)
    BY <1>3, NeedsStable DEF MovesOnly
  <2>2. Owned'[p] = Owned[p]
    BY <1>3, <2>1, OwnedBy
  <2> QED  BY <1>2, <2>2, OwnedBy
<1>4. CASE ~Critical(p)'
  <2>1. Owned'[p] = {}
    BY <1>4, OwnedBy
  <2>2. Locks!GiveBack(p)
    BY <1>2, <2>1 DEF Locks!GiveBack
  <2> QED  BY <2>2 DEF Locks!Next
<1>5. CASE ~Critical(p) /\ Critical(p)'
  <2>1. Owned[p] = {}
    BY <1>5, OwnedBy
  <2>2. Owned'[p] \in SUBSET Routers
    BY DEF OwnedApart
  <2>3. \A q \in Procs \ {p} : Owned[q] \cap Owned'[p] = {}
    BY <1>1 DEF OwnedApart
  <2>4. Locks!Take(p)
    BY <1>2, <2>1, <2>2, <2>3 DEF Locks!Take
  <2> QED  BY <2>4 DEF Locks!Next
<1> QED  BY <1>3, <1>4, <1>5

\* A crash gives everything back; a client that leaves and an edit from
\* outside show nothing to the abstract lock.
LEMMA EnvironmentRefines ==
    ASSUME \/ \E p \in Procs : ClientDisconnects(p)
           \/ Crash
           \/ \E r \in Routers, id \in Ids : ExternalEdit(r, id)
           \/ UNCHANGED vars
    PROVE  [Locks!Next]_Owned
<1>1. CASE Crash
  <2>1. \A p \in Procs : ~Critical(p)'
    BY <1>1 DEF Crash, Active, Critical
  <2>2. Locks!GiveAllBack
    BY <2>1 DEF Locks!GiveAllBack, Owned
  <2> QED  BY <2>2 DEF Locks!Next
<1>2. CASE UNCHANGED <<pc, target, snap>>
  <2>1. \A p \in Procs : Needs(p)' = Needs(p)
    BY <1>2, NeedsStable
  <2>2. \A p \in Procs : Critical(p)' <=> Critical(p)
    BY <1>2 DEF Critical
  <2>3. UNCHANGED Owned
    BY <2>1, <2>2, OwnedBy
  <2> QED  BY <2>3
<1> QED
  BY <1>1, <1>2 DEF ClientDisconnects, ExternalEdit, vars, undoVars

\* The sorted mutexes implement the abstract lock: what a request works with
\* it got as a whole, shares with nobody, and gives back as a whole, for every
\* set of routers and requests.
THEOREM LocksRefine == Spec => LocksAsOne
<1>1. Init => Locks!Init
  BY DEF Init, Locks!Init, Owned, Critical
<1>2. LockInv /\ OwnedApart' /\ [Next]_vars => [Locks!Next]_Owned
  <2> SUFFICES ASSUME LockInv, OwnedApart', [Next]_vars PROVE [Locks!Next]_Owned
    OBVIOUS
  <2>1. ASSUME NEW e \in Executes, ExecuteStep(e) PROVE [Locks!Next]_Owned
    BY <2>1, ExecuteMovesOnly, MoveRefines DEF Procs
  <2>2. ASSUME NEW u \in Undos, UndoStep(u) PROVE [Locks!Next]_Owned
    BY <2>2, UndoMovesOnly, MoveRefines DEF Procs
  <2> QED  BY <2>1, <2>2, EnvironmentRefines DEF Next, Quiescent
<1> QED
  BY <1>1, <1>2, LockInvApart, InitLockInv, NextLockInv, PTL
     DEF Spec, LocksAsOne, Locks!Spec

=============================================================================
