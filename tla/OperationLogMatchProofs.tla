------------------------ MODULE OperationLogMatchProofs ------------------------
(***************************************************************************)
(* Undo checks all resources of its group in a first phase and reverses    *)
(* them in a second one, without looking again. That a resource still is   *)
(* in the state that was checked needs the mutexes, which keep everybody   *)
(* else away, and what the log says of several operations on one resource: *)
(* the reversal of the later one leaves the state the earlier one left.    *)
(*                                                                         *)
(* The second part is about what rollbacks and Undos leave on the routers  *)
(* when they report success, and the third about how often an operation is *)
(* reversed.                                                               *)
(***************************************************************************)
EXTENDS OperationLogReversalProofs

On(g, i) == OpAt(g, i).router
Type(g, i) == OpAt(g, i).type

\* Rows of group g about one resource.
SameRes(g, i, k) == On(g, i) = On(g, k) /\ rows[g][i].id = rows[g][k].id

\* Operation i left a state, and so did the operations on its resource between
\* it and position n.
Chain(g, i, n) ==
    /\ Type(g, i) # "delete" /\ rows[g][i].after # BodyOnly
    /\ \A k \in 1..Len(Ops[g]) :
          i < k /\ k < n /\ SameRes(g, i, k) =>
              Type(g, k) # "delete" /\ rows[g][k].after = rows[g][i].after

\* What the rows of group g tell, up to position n: a resource that was
\* removed is gone, one that was added is no other one, and a change found
\* the state that the last one left.
RowsTell(g, n) ==
    \A i \in 1..Len(Ops[g]) : i < n =>
        /\ rows[g][i] # NoRow /\ rows[g][i].id \in Ids /\ rows[g][i].id < nextId[On(g, i)]
        /\ Type(g, i) = "delete" => config[On(g, i)][rows[g][i].id] = Absent
        /\ \A k \in 1..Len(Ops[g]) : k < i /\ SameRes(g, k, i) =>
              /\ Type(g, i) # "add"
              /\ Chain(g, k, i) => rows[g][i].before = rows[g][k].after

\* Row numbers, once undone, are undone up to the end.
UndoneUpwards(g) ==
    \A i, k \in 1..Len(Ops[g]) :
        i < k /\ rows[g][i].status = "undone" => rows[g][k].status = "undone"

\* IDs the router has not given out yet are free.
IdsOK == \A r \in Routers, id \in Ids : id >= nextId[r] => config[r][id] = Absent

Working == {"before", "apply", "after", "insert", "succeed"}

\* The resource of operation i of request e is as it was left.
Left(e, i) == config[On(e, i)][rows[e][i].id] = rows[e][i].after
\* Operation i, logged already, is about the resource request e works on.
Again(e, i) == On(e, i) = On(e, idx[e]) /\ rows[e][i].id = draft[e].id

WorkTells(e) ==
    /\ pc[e] \in Working => RowsTell(e, idx[e])
    /\ pc[e] \in {"before", "apply"} =>
          \A i \in 1..Len(Ops[e]) : i < idx[e] /\ Chain(e, i, idx[e]) => Left(e, i)
    /\ pc[e] \in {"before", "apply"} => draft[e].id = OpAt(e, idx[e]).id
    /\ pc[e] = "apply" /\ Type(e, idx[e]) # "add" =>
          draft[e].before = config[On(e, idx[e])][draft[e].id]
    /\ pc[e] \in {"after", "insert"} =>
          /\ draft[e].id \in Ids /\ draft[e].id < nextId[On(e, idx[e])]
          /\ Type(e, idx[e]) = "delete" => config[On(e, idx[e])][draft[e].id] = Absent
          /\ \A i \in 1..Len(Ops[e]) : i < idx[e] =>
                /\ Again(e, i) => Type(e, idx[e]) # "add"
                /\ Chain(e, i, idx[e]) =>
                      IF Again(e, i) THEN draft[e].before = rows[e][i].after ELSE Left(e, i)
    /\ pc[e] = "insert" /\ Type(e, idx[e]) # "delete" =>
          \/ draft[e].after = BodyOnly
          \/ draft[e].after = config[On(e, idx[e])][draft[e].id]
    /\ pc[e] = "done" /\ groupStatus[e] = "applied" =>
          RowsTell(e, Len(Ops[e]) + 1) /\ UndoneUpwards(e)

\* Undo u has got the rows of its group.
Same(a, b) == a.id = b.id /\ a.before = b.before /\ a.after = b.after
MatchTells(u) ==
    /\ Started(u) \/ (pc[u] = "readOps" /\ snap[u].status = "applied") =>
          RowsTell(target[u], Len(Ops[target[u]]) + 1) /\ UndoneUpwards(target[u])
    /\ Started(u) =>
          \A i \in 1..Len(Ops[target[u]]) :
              /\ snap[u].rows[i] # NoRow /\ Same(snap[u].rows[i], rows[target[u]][i])
              /\ i \in Todo(u) \/ rows[target[u]][i].status = "undone"
    /\ Started(u) =>
          \A i \in Todo(u) : \A k \in 1..Len(Ops[target[u]]) : k < i => k \in Todo(u)
    /\ pc[u] = "match" =>
          \A i \in Todo(u) : i > idx[u] => Matches(target[u], i, snap[u].rows[i])
    /\ pc[u] \in {"reverse", "mark"} =>
          \A i \in Todo(u) :
              \/ i > idx[u] /\ rows[target[u]][i].status = "undone"
              \/ i = idx[u] /\ pc[u] = "mark"
              \/ i <= idx[u] /\ Matches(target[u], i, snap[u].rows[i])

MatchOK ==
    /\ IdsOK
    /\ \A e \in Executes : WorkTells(e)
    /\ \A u \in Undos : MatchTells(u)
MatchInv == PromiseInv /\ LockInv /\ MatchOK

-----------------------------------------------------------------------------
(* What a step does to the routers.                                        *)

\* Only resource id of router r is written.
Only(r, id) ==
    /\ \A s \in Routers \ {r} : config'[s] = config[s] /\ nextId'[s] = nextId[s]
    /\ \A x \in Ids \ {id} : config'[r][x] = config[r][x]

\* The three calls.
LEMMA CreateMakes ==
    ASSUME RouterTypeOK, NEW r \in Routers, NEW s, CreateResource(r, s)
    PROVE  /\ Only(r, nextId[r]) /\ nextId[r] \in Ids
           /\ nextId'[r] = nextId[r] + 1 /\ config'[r][nextId[r]] = s
BY DEF CreateResource, Only, RouterTypeOK

\* A PATCH finds its resource and merges the body into it.
LEMMA PatchSets ==
    ASSUME RouterTypeOK, NEW r \in Routers, NEW id, NEW body, PatchResource(r, id, body)
    PROVE  /\ Only(r, id) /\ nextId' = nextId /\ config[r][id] # Absent
           /\ id \in Ids => config'[r][id] = Merge(config[r][id], body)
BY DEF PatchResource, Resource, Only, RouterTypeOK

\* A DELETE finds its resource and removes it.
LEMMA DeleteRemoves ==
    ASSUME RouterTypeOK, NEW r \in Routers, NEW id, DeleteResource(r, id)
    PROVE  /\ Only(r, id) /\ nextId' = nextId /\ config[r][id] # Absent
           /\ id \in Ids => config'[r][id] = Absent
BY DEF DeleteResource, Resource, Only, RouterTypeOK

\* Router r is written; IDs are given out once.
Wrote(r) ==
    /\ \A s \in Routers \ {r} : config'[s] = config[s] /\ nextId'[s] = nextId[s]
    /\ nextId'[r] >= nextId[r]
    /\ \A id \in Ids :
          /\ id < nextId[r] /\ config[r][id] = Absent => config'[r][id] = Absent
          /\ id >= nextId'[r] => config'[r][id] = Absent

\* Each of the calls writes one router only.
LEMMA CallsWrite ==
    ASSUME RouterTypeOK, IdsOK, NEW r \in Routers,
           \/ \E s : CreateResource(r, s)
           \/ \E id, body : PatchResource(r, id, body)
           \/ \E id : DeleteResource(r, id)
    PROVE  Wrote(r)
<1>1. /\ nextId[r] \in Nat
      /\ \A x \in Ids : x \in Nat /\ (x >= nextId[r] => config[r][x] = Absent)
  BY IdsAssumption DEF RouterTypeOK, IdsOK
<1>2. CASE \E s : CreateResource(r, s)
  <2>1. Only(r, nextId[r]) /\ nextId'[r] = nextId[r] + 1
    BY <1>2, CreateMakes
  <2> QED  BY <1>1, <2>1 DEF Only, Wrote
<1>3. CASE \E id, body : PatchResource(r, id, body)
  <2>1. PICK id : Only(r, id) /\ nextId' = nextId /\ config[r][id] # Absent
    BY <1>3, PatchSets
  <2> QED  BY <1>1, <2>1 DEF Only, Wrote
<1>4. CASE \E id : DeleteResource(r, id)
  <2>1. PICK id : Only(r, id) /\ nextId' = nextId /\ (id \in Ids => config'[r][id] = Absent)
    BY <1>4, DeleteRemoves
  <2> QED  BY <1>1, <2>1 DEF Only, Wrote
<1> QED  BY <1>2, <1>3, <1>4

\* A request writes one router at a time, one of those it has for itself.
WritesOwn(p) ==
    \/ UNCHANGED <<config, nextId>>
    \/ Critical(p) /\ \E r \in Needs(p) : r \in Routers /\ Wrote(r)

\* An operation and its reversal write the router of the operation.
LEMMA CarryWrites ==
    ASSUME RouterTypeOK, IdsOK, NEW g \in Executes, NEW i \in 1..Len(Ops[g]), NEW row,
           Carry(g, i) \/ CarryReverse(g, i, row)
    PROVE  On(g, i) \in Routers /\ Wrote(On(g, i))
<1>1. On(g, i) \in Routers
  BY OpAtType DEF Operation, On
<1> QED  BY <1>1, CallsWrite DEF Carry, CarryReverse, On

\* A step of Execute writes routers it has for itself.
LEMMA ExecuteWrites ==
    ASSUME TypeInv, IdsOK, NEW e \in Executes, ExecuteStep(e)
    PROVE  WritesOwn(e)
<1>1. CASE ApplyOperation(e) \/ RollbackOne(e)
  <2>1. pc[e] = "apply" \/ (pc[e] = "rollback" /\ idx[e] > 0)
    BY <1>1 DEF ApplyOperation, RollbackOne
  <2>2. idx[e] \in 1..Len(Ops[e])
    BY <2>1, LoopPosition
  <2>3. Critical(e) /\ On(e, idx[e]) \in Needs(e)
    BY <2>1, <2>2 DEF Critical, Needs, On
  <2>4. \/ UNCHANGED <<config, nextId>>
        \/ Carry(e, idx[e]) \/ CarryReverse(e, idx[e], rows[e][idx[e]])
    BY <1>1 DEF ApplyOperation, RollbackOne, routerVars
  <2> QED  BY <2>2, <2>3, <2>4, CarryWrites DEF WritesOwn, TypeInv, TypeOK
<1>2. CASE ~(ApplyOperation(e) \/ RollbackOne(e))
  <2>1. UNCHANGED routerVars
    BY <1>2 DEF ExecuteStep, ExecuteStart, AcquireNext, AllLocked, CreateGroup,
       GetClients, Abandon, FetchBefore, FetchAfter, InsertOperation, Succeed,
       RecordFailure, RollbackMark, RollbackGroup, RespondFailure
  <2> QED  BY <2>1 DEF WritesOwn, routerVars
<1> QED  BY <1>1, <1>2

\* The operations that Undo u has to reverse are operations of its group, on
\* routers it locked.
LEMMA TodoFits ==
    ASSUME TypeInv, FitsOK, NEW u \in Undos, NEW i \in Todo(u)
    PROVE  /\ target[u] \in Executes /\ i \in 1..Len(Ops[target[u]]) /\ i \in Positions
           /\ i \in Nat /\ On(target[u], i) \in Routers /\ On(target[u], i) \in Needs(u)
           /\ snap[u].rows[i] \in Row
<1>1. i \in Positions /\ snap[u].rows[i] # NoRow
  BY DEF Todo
<1>2. target[u] \in Executes /\ i \in 1..Len(Ops[target[u]]) /\ i \in Nat
  BY <1>1, OpsAssumption DEF FitsOK, SnapFits, Positions
<1>3. On(target[u], i) \in Routers
  BY <1>2, OpAtType DEF Operation, On
<1>4. On(target[u], i) \in Needs(u)
  BY <1>1, ProcsAssumption DEF Needs, On
<1>5. snap[u].rows[i] \in Row
  BY <1>1 DEF TypeInv, TypeOK, UndoTypeOK
<1> QED  BY <1>1, <1>2, <1>3, <1>4, <1>5

\* A step of Undo writes routers it has for itself.
LEMMA UndoWrites ==
    ASSUME TypeInv, FitsOK, IdsOK, NEW u \in Undos, UndoStep(u)
    PROVE  WritesOwn(u)
<1>1. CASE UndoReverse(u)
  <2>1. PICK i \in Positions :
            /\ NextTodo(u, i)
            /\ \/ CarryReverse(target[u], i, snap[u].rows[i])
               \/ UNCHANGED routerVars
    BY <1>1 DEF UndoReverse
  <2>2. i \in Todo(u)
    BY <2>1 DEF NextTodo
  <2>3. Critical(u)
    BY <1>1 DEF UndoReverse, Critical
  <2>4. CASE UNCHANGED routerVars
    BY <2>4 DEF WritesOwn, routerVars
  <2>5. CASE CarryReverse(target[u], i, snap[u].rows[i])
    <3>1. /\ target[u] \in Executes /\ i \in 1..Len(Ops[target[u]])
          /\ On(target[u], i) \in Routers /\ On(target[u], i) \in Needs(u)
      BY <2>2, TodoFits
    <3>2. Wrote(On(target[u], i))
      BY <2>5, <3>1, CarryWrites DEF TypeInv, TypeOK
    <3> QED  BY <2>3, <3>1, <3>2 DEF WritesOwn
  <2> QED  BY <2>1, <2>4, <2>5
<1>2. CASE ~UndoReverse(u)
  <2>1. UNCHANGED routerVars
    BY <1>2 DEF UndoStep, UndoReadGroup, UndoReadOps, AcquireNext, AllLocked, UndoClients,
         UndoMatch, UndoMark, UndoAttention, UndoFinish
  <2> QED  BY <2>1 DEF WritesOwn, routerVars
<1> QED  BY <1>1, <1>2

\* IDs grow, and what is gone stays gone.
RoutersGrow ==
    /\ \A r \in Routers : nextId'[r] >= nextId[r]
    /\ \A r \in Routers, id \in Ids :
          id < nextId[r] /\ config[r][id] = Absent => config'[r][id] = Absent

\* So a request that is past its lock finds its routers as it left them.
LEMMA OwnWrites ==
    ASSUME LockInv, IdsOK, NEW p \in Procs, WritesOwn(p)
    PROVE  /\ IdsOK' /\ RoutersGrow
           /\ \A q \in Procs \ {p} : Critical(q) => \A r \in Needs(q) : config'[r] = config[r]
<1>1. /\ \A r \in Routers : nextId[r] \in Nat
      /\ \A r \in Routers, x \in Ids : x \in Nat /\ (x >= nextId[r] => config[r][x] = Absent)
  BY IdsAssumption DEF LockInv, TypeInv, TypeOK, RouterTypeOK, IdsOK
<1>2. CASE UNCHANGED <<config, nextId>>
  BY <1>1, <1>2 DEF IdsOK, RoutersGrow
<1>3. CASE Critical(p) /\ \E r \in Needs(p) : r \in Routers /\ Wrote(r)
  <2>1. PICK r \in Needs(p) : r \in Routers /\ Wrote(r)
    BY <1>3
  <2>2. IdsOK' /\ RoutersGrow
    BY <1>1, <2>1 DEF Wrote, IdsOK, RoutersGrow
  <2>3. ASSUME NEW q \in Procs \ {p}, Critical(q), NEW s \in Needs(q)
        PROVE  config'[s] = config[s]
    <3>1. OwnedApart /\ Owned[p] = Needs(p) /\ Owned[q] = Needs(q)
      BY <1>3, <2>3, LockInvApart DEF Owned
    <3>2. s # r /\ s \in Routers
      BY <2>1, <2>3, <3>1 DEF OwnedApart
    <3> QED  BY <2>1, <3>2 DEF Wrote
  <2> QED  BY <2>2, <2>3
<1> QED  BY <1>2, <1>3 DEF WritesOwn

-----------------------------------------------------------------------------
(* What a step does to the rows.                                           *)

\* Rows keep what they say of their operation.
RowsStay ==
    \A g \in Executes, i \in Positions :
        rows[g][i] # NoRow => rows'[g][i] # NoRow /\ Same(rows'[g][i], rows[g][i])

\* Writing the status of a row leaves the rest of it alone.
LEMMA SetRowStatusStays ==
    ASSUME DbTypeOK, NEW p, NEW g \in Executes, NEW i, NEW s \in OpStatus,
           SetRowStatus(p, g, i, s)
    PROVE  RowsStay
<1>1. CASE UNCHANGED rows
  BY <1>1 DEF RowsStay, Same
<1>2. CASE rows' = [rows EXCEPT ![g][i] = IF @ = NoRow THEN NoRow ELSE [@ EXCEPT !.status = s]]
  <2>1. \A r \in Row : [r EXCEPT !.status = s] \in Row /\ Same([r EXCEPT !.status = s], r)
    BY DEF Row, Same
  <2>2. ASSUME NEW f \in Executes, NEW j \in Positions, rows[f][j] # NoRow
        PROVE  rows'[f][j] # NoRow /\ Same(rows'[f][j], rows[f][j])
    <3>1. rows[f][j] \in Row
      BY <2>2 DEF DbTypeOK
    <3>2. CASE f = g /\ j = i
      <4>1. rows'[f][j] = [rows[f][j] EXCEPT !.status = s]
        BY <1>2, <2>2, <3>2 DEF DbTypeOK
      <4> QED  BY <2>1, <3>1, <4>1, NullAssumption
    <3>3. CASE ~(f = g /\ j = i)
      <4>1. rows'[f][j] = rows[f][j]
        BY <1>2, <3>3 DEF DbTypeOK
      <4> QED  BY <2>2, <4>1 DEF Same
    <3> QED  BY <3>2, <3>3
  <2> QED  BY <2>2 DEF RowsStay
<1> QED  BY <1>1, <1>2 DEF SetRowStatus, BestEffort

\* Execute writes new rows, and the status of the ones it has.
LEMMA ExecuteRowsStay ==
    ASSUME BooksInv, NEW e \in Executes, ExecuteStep(e)
    PROVE  RowsStay
<1>1. /\ DbTypeOK /\ e \in Procs /\ ExecuteBooks(e) /\ TypeInv
      /\ \A f \in Executes : ExecuteBooks(f)
  BY DEF BooksInv, BooksOK, TypeInv, TypeOK, Procs
<1>2. CASE RollbackMark(e)
  BY <1>1, <1>2, SetRowStatusStays DEF RollbackMark, OpStatus
<1>3. CASE InsertOperation(e) \/ RecordFailure(e)
  <2>1. ExecuteDoes(e) /\ pc[e] \in {"insert", "recordFailure"}
    BY <1>1, <1>3, ExecuteStepDoes DEF InsertOperation, RecordFailure
  <2>2. Logs(e) \/ Records(e)
    BY <2>1 DEF ExecuteDoes, Arrives, Creates, GetsClients, Looks, Applies, Reverses, Marks,
       Concludes, Leaves, Moves
  <2>3. idx[e] \in 1..Len(Ops[e]) /\ Len(Ops[e]) \in Nat
    BY <1>1, <2>1, LoopPosition
  <2>4. ASSUME NEW j \in Positions, rows[e][j] # NoRow PROVE rows'[e][j] = rows[e][j]
    <3>1. ~Unlogged(e, j)
      BY <1>1, <2>4 DEF ExecuteBooks
    <3>2. j < idx[e]
      BY <2>1, <2>3, <3>1, OpsAssumption DEF Unlogged, Positions
    <3> QED  BY <2>2, <2>3, <3>2, OpsAssumption DEF Logs, Logged, Records, Positions
  <2>5. \A f \in Executes \ {e} : rows'[f] = rows[f]
    BY <2>2 DEF Logs, Logged, Records
  <2> QED  BY <2>4, <2>5 DEF RowsStay, Same
<1>4. CASE ~(RollbackMark(e) \/ InsertOperation(e) \/ RecordFailure(e))
  <2>1. UNCHANGED rows
    BY <1>4 DEF ExecuteStep, ExecuteStart, AcquireNext, AllLocked, CreateGroup,
       GetClients, Abandon, FetchBefore, ApplyOperation, FetchAfter, Succeed,
       RollbackOne, RollbackGroup, RespondFailure, dbVars
  <2> QED  BY <2>1 DEF RowsStay, Same
<1> QED  BY <1>2, <1>3, <1>4

\* Undo writes the status of rows.
LEMMA UndoRowsStay ==
    ASSUME TypeInv, NEW u \in Undos, UndoStep(u)
    PROVE  RowsStay
<1>1. CASE UndoMark(u)
  <2>1. target[u] \in Executes
    BY <1>1 DEF UndoMark, TypeInv, LoopsOK, UndoLoopAt
  <2> QED  BY <1>1, <2>1, SetRowStatusStays DEF UndoMark, OpStatus, TypeInv, TypeOK
<1>2. CASE ~UndoMark(u)
  <2>1. UNCHANGED rows
    BY <1>2 DEF UndoStep, UndoReadGroup, UndoReadOps, AcquireNext, AllLocked, UndoClients,
         UndoMatch, UndoReverse, UndoAttention, UndoFinish, dbVars
  <2> QED  BY <2>1 DEF RowsStay, Same
<1> QED  BY <1>1, <1>2

\* What the rows tell lasts.
LEMMA RowsTellStays ==
    ASSUME TypeInv, RowsStay, RoutersGrow, NEW g \in Executes, NEW n \in Nat,
           RowsTell(g, n), TypeInv'
    PROVE  RowsTell(g, n)'
<1>1. \A i \in 1..Len(Ops[g]) : i \in Positions /\ i \in Nat /\ On(g, i) \in Routers
  BY OpsAssumption, OpAtType DEF Positions, Operation, On
<1>2. ASSUME NEW i \in 1..Len(Ops[g]), i < n
      PROVE  /\ rows'[g][i] # NoRow /\ Same(rows'[g][i], rows[g][i])
             /\ rows[g][i].id \in Ids /\ rows[g][i].id < nextId[On(g, i)]
             /\ Type(g, i) = "delete" => config[On(g, i)][rows[g][i].id] = Absent
  BY <1>1, <1>2 DEF RowsTell, RowsStay
<1>3. \A r \in Routers : nextId[r] \in Nat /\ nextId'[r] \in Nat
  BY DEF TypeInv, TypeOK, RouterTypeOK
<1>4. ASSUME NEW i \in 1..Len(Ops[g]), i < n
      PROVE  /\ rows'[g][i].id \in Ids /\ rows'[g][i].id < nextId'[On(g, i)]
             /\ Type(g, i) = "delete" => config'[On(g, i)][rows'[g][i].id] = Absent
  <2>1. rows'[g][i].id = rows[g][i].id /\ rows[g][i].id \in Ids /\ rows[g][i].id \in Nat
    BY <1>2, <1>4, IdsAssumption DEF Same
  <2>2. /\ nextId[On(g, i)] \in Nat /\ nextId'[On(g, i)] \in Nat
        /\ nextId'[On(g, i)] >= nextId[On(g, i)]
    BY <1>1, <1>3 DEF RoutersGrow
  <2>3. rows[g][i].id < nextId[On(g, i)]
    BY <1>2, <1>4
  <2>4. Type(g, i) = "delete" => config'[On(g, i)][rows[g][i].id] = Absent
    BY <1>1, <1>2, <1>4, <2>1 DEF RoutersGrow
  <2> QED  BY <2>1, <2>2, <2>3, <2>4
<1>5. ASSUME NEW i \in 1..Len(Ops[g]), i < n, NEW k \in 1..Len(Ops[g]), k < i, SameRes(g, k, i)'
      PROVE  /\ Type(g, i) # "add"
             /\ Chain(g, k, i)' => rows'[g][i].before = rows'[g][k].after
  <2>1. k < n
    BY <1>1, <1>5
  <2>2. SameRes(g, k, i)
    BY <1>2, <1>5, <2>1 DEF SameRes, Same
  <2>3. ASSUME Chain(g, k, i)' PROVE Chain(g, k, i)
    <3>1. ASSUME NEW m \in 1..Len(Ops[g]), k < m, m < i, SameRes(g, k, m)
          PROVE  Type(g, m) # "delete" /\ rows[g][m].after = rows[g][k].after
      <4>1. m < n
        BY <1>1, <1>5, <3>1
      <4>2. Same(rows'[g][m], rows[g][m]) /\ Same(rows'[g][k], rows[g][k])
        BY <1>2, <2>1, <4>1
      <4>3. SameRes(g, k, m)'
        BY <3>1, <4>2 DEF SameRes, Same
      <4> QED  BY <2>3, <3>1, <4>2, <4>3 DEF Chain, Same
    <3>2. Same(rows'[g][k], rows[g][k])
      BY <1>2, <2>1
    <3> QED  BY <2>3, <3>1, <3>2 DEF Chain, Same
  <2> QED  BY <1>2, <1>5, <2>1, <2>2, <2>3 DEF RowsTell, Same
<1> QED  BY <1>2, <1>4, <1>5 DEF RowsTell

-----------------------------------------------------------------------------
(* A request that works on its operations                                  *)

\* The draft of the operation whose loop body begins.
LEMMA EnterDrafts ==
    ASSUME TypeInv, NEW e \in Executes, NEW i, Enter(e, i)
    PROVE  /\ idx'[e] = i
           /\ IF i > Len(Ops[e]) THEN pc'[e] = "succeed"
              ELSE /\ pc'[e] = IF Type(e, i) = "add" THEN "apply" ELSE "before"
                   /\ draft'[e].id = OpAt(e, i).id
BY DEF Enter, Goto, NewDraft, Type, TypeInv, TypeOK, ControlTypeOK, ExecTypeOK, Procs

\* Before its first operation a request has told nothing yet.
LEMMA ClientsWork ==
    ASSUME MatchInv, NEW e \in Executes, GetClients(e)
    PROVE  WorkTells(e)'
<1>1. TypeInv /\ e \in Procs /\ ControlTypeOK
  BY DEF MatchInv, LockInv, TypeInv, TypeOK, Procs
<1>2. CASE Enter(e, 1)
  <2>1. /\ idx'[e] = 1 /\ pc'[e] \in {"succeed", "before", "apply"}
        /\ pc'[e] \in {"before", "apply"} => draft'[e].id = OpAt(e, 1).id
        /\ pc'[e] = "apply" => Type(e, 1) = "add"
    BY <1>1, <1>2, EnterDrafts
  <2>2. \A i \in 1..Len(Ops[e]) : ~(i < 1)
    BY OpsAssumption
  <2> QED  BY <2>1, <2>2 DEF WorkTells, RowsTell
<1>3. CASE Goto(e, "abandon")
  <2>1. pc'[e] = "abandon"
    BY <1>1, <1>3, GotoMovesOne
  <2> QED  BY <2>1 DEF WorkTells, Working
<1> QED  BY <1>2, <1>3 DEF GetClients

\* Fetching a state leaves everything but the draft alone.
LEMMA FetchWorks ==
    ASSUME MatchInv, NEW e \in Executes, FetchBefore(e) \/ FetchAfter(e)
    PROVE  WorkTells(e)'
<1>1. /\ TypeInv /\ e \in Procs /\ ControlTypeOK /\ ExecTypeOK /\ WorkTells(e)
  BY DEF MatchInv, MatchOK, LockInv, TypeInv, TypeOK, Procs
<1>2. UNCHANGED <<rows, config, nextId, idx>>
  BY DEF FetchBefore, FetchAfter, routerVars, dbVars
<1>3. \A n : RowsTell(e, n) => RowsTell(e, n)'
  BY <1>2 DEF RowsTell, SameRes, Chain
<1>4. \A i, n : /\ Chain(e, i, n)' <=> Chain(e, i, n)
                /\ Left(e, i)' <=> Left(e, i)
  BY <1>2 DEF Chain, SameRes, Left
<1>5. pc[e] \in Working => (RowsTell(e, idx[e]))'
  BY <1>1, <1>2 DEF WorkTells, RowsTell, SameRes, Chain
<1>6. CASE FetchBefore(e)
  <2>1. pc[e] = "before" /\ draft[e].id = OpAt(e, idx[e]).id
    BY <1>1, <1>6 DEF FetchBefore, WorkTells
  <2>2. CASE /\ Goto(e, "apply")
             /\ draft' = [draft EXCEPT ![e].before = Resource(OpAt(e, idx[e]).router, OpAt(e, idx[e]).id)]
    <3>1. /\ pc'[e] = "apply" /\ draft'[e].id = draft[e].id
          /\ draft'[e].before = config[On(e, idx[e])][OpAt(e, idx[e]).id]
      BY <1>1, <2>2, GotoMovesOne DEF ExecTypeOK, Draft, Resource, On
    <3>2. \A i \in 1..Len(Ops[e]) : /\ Chain(e, i, idx[e])' <=> Chain(e, i, idx[e])
                                    /\ Left(e, i)' <=> Left(e, i)
      BY <1>2 DEF Chain, SameRes, Left
    <3>3. \A i \in 1..Len(Ops[e]) : i < idx[e] /\ Chain(e, i, idx[e]) => Left(e, i)
      BY <1>1, <2>1 DEF WorkTells
    <3>4. \A i \in 1..Len(Ops[e]) : i < idx'[e] /\ Chain(e, i, idx[e])' => Left(e, i)'
      BY <1>2, <3>2, <3>3
    <3>5. (RowsTell(e, idx[e]))' /\ draft'[e].id = OpAt(e, idx'[e]).id
      BY <1>2, <1>5, <2>1, <3>1 DEF Working
    <3>6. draft'[e].before = config'[On(e, idx'[e])][draft'[e].id]
      BY <1>2, <2>1, <3>1
    <3> QED  BY <3>1, <3>4, <3>5, <3>6 DEF WorkTells, Working
  <2>3. CASE Goto(e, "recordFailure")
    <3>1. pc'[e] = "recordFailure"
      BY <1>1, <2>3, GotoMovesOne
    <3> QED  BY <3>1 DEF WorkTells, Working
  <2> QED  BY <1>6, <2>2, <2>3 DEF FetchBefore
<1>7. CASE FetchAfter(e)
  <2>1. pc[e] = "after" /\ pc'[e] = "insert"
    BY <1>1, <1>7, GotoMovesOne DEF FetchAfter
  <2>2. /\ draft'[e].id = draft[e].id /\ draft'[e].before = draft[e].before
        /\ \/ draft'[e].after = BodyOnly
           \/ draft'[e].after = config[On(e, idx[e])][draft[e].id]
    BY <1>1, <1>7 DEF FetchAfter, ExecTypeOK, Draft, Resource, On
  <2>3. \A i \in 1..Len(Ops[e]) : i < idx[e] =>
            /\ Again(e, i)' <=> Again(e, i)
            /\ Again(e, i) => Type(e, idx[e]) # "add"
            /\ Chain(e, i, idx[e])' =>
                   IF Again(e, i) THEN draft[e].before = rows[e][i].after ELSE Left(e, i)'
    BY <1>1, <1>2, <1>4, <2>1, <2>2 DEF WorkTells, Again
  <2> QED
    BY <1>1, <1>2, <1>5, <2>1, <2>2, <2>3 DEF WorkTells, Working, Chain, SameRes, Left, Again
<1> QED  BY <1>6, <1>7

\* Applying an operation writes its own resource only.
LEMMA ApplyWorks ==
    ASSUME MatchInv, TypeInv', NEW e \in Executes, ApplyOperation(e), RowsStay, RoutersGrow
    PROVE  WorkTells(e)'
<1>1. /\ TypeInv /\ e \in Procs /\ ControlTypeOK /\ ExecTypeOK /\ RouterTypeOK /\ WorkTells(e)
      /\ IdsOK
  BY DEF MatchInv, MatchOK, LockInv, TypeInv, TypeOK, Procs
<1>2. pc[e] = "apply" /\ UNCHANGED <<rows, idx>>
  BY DEF ApplyOperation, dbVars
<1>3. idx[e] \in 1..Len(Ops[e]) /\ idx[e] \in Nat /\ Len(Ops[e]) \in Nat
  BY <1>1, <1>2, LoopPosition
<1>4. /\ On(e, idx[e]) \in Routers /\ OpAt(e, idx[e]).id \in Ids
      /\ OpAt(e, idx[e]).type \in {"add", "modify", "delete"}
  BY <1>3, OpAtType DEF On, Operation
<1>5. CASE Goto(e, "recordFailure")
  <2>1. pc'[e] = "recordFailure"
    BY <1>1, <1>5, GotoMovesOne
  <2> QED  BY <2>1 DEF WorkTells, Working
<1>6. CASE /\ Carry(e, idx[e])
           /\ draft' = [draft EXCEPT ![e].id =
                           IF OpAt(e, idx[e]).type = "add" THEN nextId[OpAt(e, idx[e]).router] ELSE @]
           /\ Goto(e, IF OpAt(e, idx[e]).type = "delete" THEN "insert" ELSE "after")
  <2> DEFINE r == On(e, idx[e])
  <2>1. /\ pc'[e] = IF Type(e, idx[e]) = "delete" THEN "insert" ELSE "after"
        /\ draft'[e].before = draft[e].before
        /\ draft'[e].id = IF Type(e, idx[e]) = "add" THEN nextId[r] ELSE draft[e].id
    BY <1>1, <1>6, GotoMovesOne DEF ExecTypeOK, Draft, On, Type
  <2>2. /\ RowsTell(e, idx[e]) /\ draft[e].id = OpAt(e, idx[e]).id
        /\ Type(e, idx[e]) # "add" => draft[e].before = config[r][draft[e].id]
        /\ \A i \in 1..Len(Ops[e]) : i < idx[e] /\ Chain(e, i, idx[e]) => Left(e, i)
    BY <1>1, <1>2 DEF WorkTells, Working
  <2>3. (RowsTell(e, idx[e]))'
    <3>1. PICK n \in Nat : n = idx[e]
      BY <1>3
    <3>2. RowsTell(e, n)'
      BY <1>1, <2>2, <3>1, RowsTellStays
    <3> QED  BY <1>2, <3>1, <3>2 DEF RowsTell
  <2>4. /\ Only(r, draft'[e].id) /\ draft'[e].id \in Ids /\ draft'[e].id < nextId'[r]
        /\ Type(e, idx[e]) = "delete" => config'[r][draft'[e].id] = Absent
    <3>1. nextId[r] \in Nat /\ \A x \in Ids : x \in Nat
      BY <1>1, <1>4, IdsAssumption DEF RouterTypeOK
    <3>2. CASE Type(e, idx[e]) = "add"
      <4>1. CreateResource(r, OpAt(e, idx[e]).body)
        BY <1>6, <3>2 DEF Carry, On, Type
      <4>2. Only(r, nextId[r]) /\ nextId[r] \in Ids /\ nextId'[r] = nextId[r] + 1
        BY <1>1, <1>4, <4>1, CreateMakes
      <4> QED  BY <2>1, <3>1, <3>2, <4>2
    <3>3. CASE Type(e, idx[e]) = "modify"
      <4>1. PatchResource(r, draft[e].id, OpAt(e, idx[e]).body)
        BY <1>6, <2>2, <3>3 DEF Carry, On, Type
      <4>2. Only(r, draft[e].id) /\ nextId' = nextId /\ config[r][draft[e].id] # Absent
        BY <1>1, <1>4, <4>1, PatchSets
      <4>3. draft[e].id < nextId[r]
        BY <1>1, <1>4, <2>2, <3>1, <4>2 DEF IdsOK
      <4> QED  BY <1>4, <2>1, <2>2, <3>3, <4>2, <4>3
    <3>4. CASE Type(e, idx[e]) = "delete"
      <4>1. DeleteResource(r, draft[e].id)
        BY <1>6, <2>2, <3>4 DEF Carry, On, Type
      <4>2. /\ Only(r, draft[e].id) /\ nextId' = nextId /\ config[r][draft[e].id] # Absent
            /\ config'[r][draft[e].id] = Absent
        BY <1>1, <1>4, <2>2, <4>1, DeleteRemoves
      <4>3. draft[e].id < nextId[r]
        BY <1>1, <1>4, <2>2, <3>1, <4>2 DEF IdsOK
      <4> QED  BY <1>4, <2>1, <2>2, <3>4, <4>2, <4>3
    <3> QED  BY <1>4, <3>2, <3>3, <3>4 DEF Type
  <2>5. ASSUME NEW i \in 1..Len(Ops[e]), i < idx[e]
        PROVE  /\ Again(e, i)' => Type(e, idx[e]) # "add"
               /\ Chain(e, i, idx[e]) =>
                     IF Again(e, i)' THEN draft'[e].before = rows[e][i].after ELSE Left(e, i)'
    <3>1. /\ rows[e][i].id \in Ids /\ rows[e][i].id < nextId[On(e, i)] /\ rows[e][i].id \in Nat
          /\ On(e, i) \in Routers /\ nextId[On(e, i)] \in Nat
      BY <1>1, <2>2, <2>5, OpAtType, IdsAssumption DEF RowsTell, RouterTypeOK, Operation, On
    <3>2. Again(e, i)' <=> On(e, i) = r /\ rows[e][i].id = draft'[e].id
      BY <1>2 DEF Again
    <3>3. Again(e, i)' => Type(e, idx[e]) # "add"
      BY <2>1, <3>1, <3>2
    <3>4. ~Again(e, i)' => config'[On(e, i)][rows[e][i].id] = config[On(e, i)][rows[e][i].id]
      BY <2>4, <3>1, <3>2 DEF Only
    <3>5. Left(e, i)' <=> config'[On(e, i)][rows[e][i].id] = rows[e][i].after
      BY <1>2 DEF Left
    <3>6. CASE Again(e, i)'
      BY <2>1, <2>2, <2>5, <3>2, <3>3, <3>6 DEF Left
    <3>7. CASE ~Again(e, i)'
      BY <2>2, <2>5, <3>4, <3>5, <3>7 DEF Left
    <3> QED  BY <3>3, <3>6, <3>7
  <2>6. \A i \in 1..Len(Ops[e]) : Chain(e, i, idx[e])' <=> Chain(e, i, idx[e])
    BY <1>2 DEF Chain, SameRes
  <2> HIDE DEF r
  <2>7. \A i \in 1..Len(Ops[e]) : i < idx[e] =>
            /\ Again(e, i)' => Type(e, idx[e]) # "add"
            /\ Chain(e, i, idx[e])' =>
                  IF Again(e, i)' THEN draft'[e].before = rows[e][i].after ELSE Left(e, i)'
    BY <2>5, <2>6
  <2>8. /\ draft'[e].id \in Ids /\ draft'[e].id < nextId'[On(e, idx[e])]
        /\ Type(e, idx[e]) = "delete" => config'[On(e, idx[e])][draft'[e].id] = Absent
    BY <2>4 DEF r
  <2>9. pc'[e] \in {"after", "insert"} /\ (pc'[e] = "insert" => Type(e, idx[e]) = "delete")
    BY <2>1
  <2> QED  BY <1>2, <2>3, <2>7, <2>8, <2>9 DEF WorkTells, Chain, SameRes, Left, Again
<1> QED  BY <1>5, <1>6 DEF ApplyOperation

\* The row of the operation that was just carried out tells the truth.
LEMMA InsertWorks ==
    ASSUME MatchInv, NEW e \in Executes, InsertOperation(e)
    PROVE  WorkTells(e)'
<1>1. /\ TypeInv /\ e \in Procs /\ ControlTypeOK /\ ExecTypeOK /\ DbTypeOK /\ WorkTells(e)
  BY DEF MatchInv, MatchOK, LockInv, TypeInv, TypeOK, Procs
<1>2. pc[e] = "insert" /\ UNCHANGED <<config, nextId>>
  BY DEF InsertOperation, routerVars
<1>3. CASE Goto(e, "rollback")
  <2>1. pc'[e] = "rollback"
    BY <1>1, <1>3, GotoMovesOne
  <2> QED  BY <2>1 DEF WorkTells, Working
<1>4. CASE /\ rows' = [rows EXCEPT ![e][idx[e]] = RowOf(draft[e], "applied")]
           /\ Enter(e, idx[e] + 1)
  <2>1. PICK n \in Nat : n = idx[e] /\ n \in 1..Len(Ops[e]) /\ n \in Positions /\ Len(Ops[e]) \in Nat
    BY <1>1, <1>2, LoopPosition
  <2> DEFINE r == On(e, n)
             id == draft[e].id
  <2>2. \A i \in 1..Len(Ops[e]) : i \in Nat /\ i \in Positions
    BY OpsAssumption DEF Positions
  <2>3. \A i \in Positions : i # n => rows'[e][i] = rows[e][i]
    BY <1>1, <1>4, <2>1 DEF DbTypeOK
  <2>4. rows'[e][n] # NoRow /\ rows'[e][n].id = id /\ rows'[e][n].before = draft[e].before
        /\ rows'[e][n].after = draft[e].after
    <3>1. rows'[e][n] = RowOf(draft[e], "applied")
      BY <1>1, <1>4, <2>1 DEF DbTypeOK
    <3>2. RowOf(draft[e], "applied") \in Row
      BY <1>1 DEF ExecTypeOK, Draft, Row, RowOf, OpStatus
    <3> QED  BY <3>1, <3>2, NullAssumption DEF RowOf
  <2>5. /\ RowsTell(e, n) /\ id \in Ids /\ id < nextId[r]
        /\ Type(e, n) = "delete" => config[r][id] = Absent
        /\ Type(e, n) # "delete" => draft[e].after = BodyOnly \/ draft[e].after = config[r][id]
    BY <1>1, <1>2, <2>1 DEF WorkTells, Working
  <2>6. \A i \in 1..Len(Ops[e]) : i < n =>
            /\ Again(e, i) <=> On(e, i) = r /\ rows[e][i].id = id
            /\ Again(e, i) => Type(e, n) # "add"
            /\ Chain(e, i, n) =>
                  IF Again(e, i) THEN draft[e].before = rows[e][i].after ELSE Left(e, i)
    BY <1>1, <1>2, <2>1 DEF WorkTells, Again
  <2>7. \A i, k \in 1..Len(Ops[e]) : i < n /\ k < n => (SameRes(e, i, k)' <=> SameRes(e, i, k))
    BY <2>1, <2>2, <2>3 DEF SameRes
  <2>8. \A i \in 1..Len(Ops[e]) : i < n => (SameRes(e, i, n)' <=> Again(e, i))
    BY <2>1, <2>2, <2>3, <2>4, <2>6 DEF SameRes
  <2>9. ASSUME NEW i \in 1..Len(Ops[e]), NEW k \in Nat, i < n, k <= n
        PROVE  Chain(e, i, k)' <=> Chain(e, i, k)
    <3>1. rows'[e][i] = rows[e][i]
      BY <2>1, <2>2, <2>3, <2>9
    <3>2. ASSUME NEW m \in 1..Len(Ops[e]), i < m, m < k
          PROVE  rows'[e][m] = rows[e][m] /\ (SameRes(e, i, m)' <=> SameRes(e, i, m))
      <4>1. m < n /\ m # n
        BY <2>1, <2>2, <2>9, <3>2
      <4> QED  BY <2>2, <2>3, <2>7, <2>9, <4>1
    <3> QED  BY <3>1, <3>2 DEF Chain
  <2>10. RowsTell(e, n + 1)'
    <3>1. ASSUME NEW i \in 1..Len(Ops[e]), i < n + 1
          PROVE  /\ rows'[e][i] # NoRow /\ rows'[e][i].id \in Ids
                 /\ rows'[e][i].id < nextId'[On(e, i)]
                 /\ Type(e, i) = "delete" => config'[On(e, i)][rows'[e][i].id] = Absent
      <4>1. CASE i = n
        BY <1>2, <2>4, <2>5, <4>1
      <4>2. CASE i < n
        BY <1>2, <2>1, <2>2, <2>3, <2>5, <4>2 DEF RowsTell
      <4> QED  BY <2>1, <2>2, <3>1, <4>1, <4>2
    <3>2. ASSUME NEW i \in 1..Len(Ops[e]), i < n + 1, NEW k \in 1..Len(Ops[e]), k < i,
                 SameRes(e, k, i)'
          PROVE  /\ Type(e, i) # "add"
                 /\ Chain(e, k, i)' => rows'[e][i].before = rows'[e][k].after
      <4>1. k < n /\ rows'[e][k] = rows[e][k] /\ i <= n
        BY <2>1, <2>2, <2>3, <3>2
      <4>2. Chain(e, k, i)' <=> Chain(e, k, i)
        BY <2>2, <2>9, <4>1
      <4>3. CASE i = n
        BY <2>4, <2>6, <2>8, <3>2, <4>1, <4>2, <4>3
      <4>4. CASE i < n
        BY <2>1, <2>2, <2>3, <2>5, <2>7, <3>2, <4>1, <4>2, <4>4 DEF RowsTell
      <4> QED  BY <2>1, <2>2, <4>1, <4>3, <4>4
    <3> QED  BY <3>1, <3>2 DEF RowsTell
  <2>11. ASSUME NEW i \in 1..Len(Ops[e]), i < n + 1, Chain(e, i, n + 1)'
         PROVE  Left(e, i)'
    <3>1. CASE i = n
      <4>1. Type(e, n) # "delete" /\ draft[e].after # BodyOnly
        BY <2>4, <2>11, <3>1 DEF Chain
      <4> QED  BY <1>2, <2>4, <2>5, <3>1, <4>1 DEF Left
    <3>2. CASE i < n
      <4>1. Chain(e, i, n)' /\ rows'[e][i] = rows[e][i]
        BY <2>1, <2>2, <2>3, <2>11, <3>2 DEF Chain
      <4>2. Chain(e, i, n)
        BY <2>1, <2>9, <3>2, <4>1
      <4>3. CASE Again(e, i)
        <5>1. SameRes(e, i, n)'
          BY <2>8, <3>2, <4>3
        <5>2. Type(e, n) # "delete" /\ rows'[e][n].after = rows'[e][i].after
          BY <2>1, <2>11, <3>2, <5>1 DEF Chain
        <5>3. rows[e][i].after # BodyOnly
          BY <4>2 DEF Chain
        <5> QED  BY <1>2, <2>4, <2>5, <2>6, <3>2, <4>1, <4>3, <5>2, <5>3 DEF Left
      <4>4. CASE ~Again(e, i)
        BY <1>2, <2>6, <3>2, <4>1, <4>2, <4>4 DEF Left
      <4> QED  BY <4>3, <4>4
    <3> QED  BY <2>1, <2>2, <2>11, <3>1, <3>2
  <2>12. idx'[e] = n + 1
    BY <1>1, <1>4, <2>1, EnterDrafts
  <2>13. /\ pc'[e] \in {"succeed", "before", "apply"}
         /\ pc'[e] \in {"before", "apply"} => draft'[e].id = OpAt(e, n + 1).id
         /\ pc'[e] = "apply" => Type(e, n + 1) = "add"
    BY <1>1, <1>4, <2>1, EnterDrafts
  <2>14. (RowsTell(e, idx[e]))'
    BY <2>10, <2>12 DEF RowsTell
  <2>15. \A i \in 1..Len(Ops[e]) : i < idx'[e] /\ Chain(e, i, idx[e])' => Left(e, i)'
    BY <2>11, <2>12 DEF Chain
  <2> QED  BY <2>12, <2>13, <2>14, <2>15 DEF WorkTells, Working
<1> QED  BY <1>3, <1>4 DEF InsertOperation

\* A request that answers "applied" has told everything in its rows, and one
\* that is over in another way has no group with this status.
LEMMA EndWorks ==
    ASSUME MatchInv, NEW e \in Executes,
           \/ ExecuteStart(e) \/ AcquireNext(e) \/ AllLocked(e) \/ CreateGroup(e)
           \/ Abandon(e) \/ Succeed(e) \/ RecordFailure(e) \/ RollbackOne(e)
           \/ RollbackMark(e) \/ RollbackGroup(e) \/ RespondFailure(e)
    PROVE  WorkTells(e)'
<1>1. /\ TypeInv /\ e \in Procs /\ ControlTypeOK /\ WorkTells(e) /\ StatusTells(e) /\ LoopTells(e)
      /\ PromiseInv
  BY DEF MatchInv, MatchOK, PromiseInv, PromiseOK, LockInv, TypeInv, TypeOK, Procs
<1>2. CASE Succeed(e)
  <2>1. pc[e] = "succeed" /\ pc'[e] = "done"
    BY <1>1, <1>2, ReturnMovesOne DEF Succeed
  <2>2. /\ UNCHANGED <<rows, config, nextId>> /\ RowsTell(e, idx[e])
    BY <1>1, <1>2, <2>1 DEF Succeed, routerVars, dbVars, WorkTells, Working
  <2>3. \A i \in 1..Len(Ops[e]) : i < idx[e] /\ rows[e][i].status = "applied"
    BY <1>1, <2>1, BooksOfExecute DEF LoopTells, Looping
  <2>4. RowsTell(e, Len(Ops[e]) + 1) /\ UndoneUpwards(e)
    BY <2>2, <2>3 DEF RowsTell, UndoneUpwards
  <2>5. (RowsTell(e, Len(Ops[e]) + 1) /\ UndoneUpwards(e))'
    BY <2>2, <2>4 DEF RowsTell, UndoneUpwards, SameRes, Chain
  <2> QED  BY <2>1, <2>5 DEF WorkTells, Working
<1>3. CASE ~Succeed(e)
  <2>1. ExecuteDoes(e) /\ pc[e] \notin {"clients", "before", "apply", "after", "insert", "succeed"}
    BY <1>1, <1>3, ExecuteMovesOn, ExecuteWorksOn
       DEF ExecuteStart, AcquireNext, AllLocked, CreateGroup, Abandon, RecordFailure,
           RollbackOne, RollbackMark, RollbackGroup, RespondFailure
  <2>2. pc'[e] \notin Working
    BY <2>1 DEF Working, ExecuteDoes, Arrives, Creates, GetsClients, Looks, Applies, Logs,
       Records, Reverses, Marks, Concludes, Leaves, Moves
  <2>3. pc'[e] = "done" =>
            pc[e] \in {"idle", "create", "respond"} /\ groupStatus'[e] = groupStatus[e]
    BY <1>1, <2>1 DEF StatusTells, ExecuteDoes, Arrives, Creates, GetsClients, Looks, Applies,
       Logs, Records, Reverses, Marks, Concludes, Leaves, Moves
  <2>4. pc'[e] = "done" => groupStatus'[e] # "applied"
    BY <1>1, <2>3 DEF StatusTells
  <2> QED  BY <2>2, <2>4 DEF WorkTells, Working
<1> QED  BY <1>2, <1>3

\* A request that another one's step leaves alone.
LEMMA OthersWork ==
    ASSUME MatchInv, TypeInv', RowsStay, RoutersGrow, NEW e \in Executes,
           pc'[e] = pc[e], idx'[e] = idx[e], draft'[e] = draft[e],
           Critical(e) => rows'[e] = rows[e] /\ \A r \in Needs(e) : config'[r] = config[r],
           pc[e] = "done" /\ groupStatus'[e] = "applied" =>
              groupStatus[e] = "applied" /\ (UndoneUpwards(e) => UndoneUpwards(e)')
    PROVE  WorkTells(e)'
<1>1. /\ TypeInv /\ e \in Procs /\ WorkTells(e) /\ Len(Ops[e]) \in Nat /\ idx[e] \in Nat
  BY OpsAssumption
     DEF MatchInv, MatchOK, LockInv, TypeInv, TypeOK, ControlTypeOK, Procs
<1>2. \A n \in Nat : RowsTell(e, n) => RowsTell(e, n)'
  BY <1>1, RowsTellStays
<1>3. CASE pc[e] = "done"
  <2>1. (RowsTell(e, Len(Ops[e]) + 1) => RowsTell(e, Len(Ops[e]) + 1)')
    <3>1. PICK n \in Nat : n = Len(Ops[e]) + 1
      BY <1>1
    <3> QED  BY <1>2, <3>1
  <2> QED  BY <1>1, <1>3, <2>1 DEF WorkTells, Working
<1>4. CASE pc[e] \in {"before", "apply", "after", "insert"}
  <2>1. /\ rows'[e] = rows[e] /\ \A r \in Needs(e) : config'[r] = config[r]
    BY <1>4 DEF Critical
  <2>2. \A i \in 1..Len(Ops[e]) :
            /\ config'[On(e, i)] = config[On(e, i)]
            /\ On(e, i) \in Routers
            /\ nextId'[On(e, i)] >= nextId[On(e, i)]
            /\ nextId[On(e, i)] \in Nat /\ nextId'[On(e, i)] \in Nat
    BY <1>1, <2>1, OpAtType
       DEF Needs, On, Operation, RoutersGrow, TypeInv, TypeOK, RouterTypeOK
  <2>3. idx[e] \in 1..Len(Ops[e])
    BY <1>1, <1>4, LoopPosition
  <2>4. RowsTell(e, idx[e]) /\ (RowsTell(e, idx[e]) => (RowsTell(e, idx[e]))')
    <3>1. PICK n \in Nat : n = idx[e]
      BY <1>1
    <3>2. (RowsTell(e, idx[e]))' <=> RowsTell(e, n)'
      BY <3>1 DEF RowsTell
    <3> QED  BY <1>1, <1>2, <1>4, <3>1, <3>2 DEF WorkTells, Working
  <2>5. \A i \in 1..Len(Ops[e]) : /\ Left(e, i)' <=> Left(e, i)
                                  /\ Again(e, i)' <=> Again(e, i)
                                  /\ (Chain(e, i, idx[e]))' <=> Chain(e, i, idx[e])
    BY <2>1, <2>2 DEF Left, Again, Chain, SameRes
  <2>6. draft[e].id \in Ids => draft[e].id \in Nat
    BY IdsAssumption
  <2>7. pc[e] \in {"before", "apply"} =>
          /\ \A i \in 1..Len(Ops[e]) : i < idx'[e] /\ (Chain(e, i, idx[e]))' => Left(e, i)'
          /\ draft'[e].id = OpAt(e, idx'[e]).id
    BY <1>1, <2>5 DEF WorkTells
  <2>8. pc[e] = "apply" /\ Type(e, idx'[e]) # "add" =>
          draft'[e].before = config'[On(e, idx'[e])][draft'[e].id]
    BY <1>1, <2>2, <2>3 DEF WorkTells
  <2>9. pc[e] \in {"after", "insert"} =>
          /\ draft'[e].id \in Ids /\ draft'[e].id < nextId'[On(e, idx'[e])]
          /\ Type(e, idx'[e]) = "delete" => config'[On(e, idx'[e])][draft'[e].id] = Absent
    BY <1>1, <2>2, <2>3, <2>6 DEF WorkTells
  <2>10. pc[e] \in {"after", "insert"} =>
          \A i \in 1..Len(Ops[e]) : i < idx'[e] =>
                /\ Again(e, i)' => Type(e, idx'[e]) # "add"
                /\ (Chain(e, i, idx[e]))' =>
                      IF Again(e, i)' THEN draft'[e].before = rows'[e][i].after ELSE Left(e, i)'
    BY <1>1, <2>1, <2>5 DEF WorkTells
  <2>11. pc[e] = "insert" /\ Type(e, idx'[e]) # "delete" =>
          \/ draft'[e].after = BodyOnly
          \/ draft'[e].after = config'[On(e, idx'[e])][draft'[e].id]
    BY <1>1, <2>2, <2>3 DEF WorkTells
  <2> QED  BY <1>4, <2>4, <2>7, <2>8, <2>9, <2>10, <2>11 DEF WorkTells, Working
<1>5. CASE pc[e] = "succeed"
  <2>1. PICK n \in Nat : n = idx[e]
    BY <1>1
  <2>2. (RowsTell(e, idx[e]))' <=> RowsTell(e, n)'
    BY <2>1 DEF RowsTell
  <2>3. (RowsTell(e, idx[e]))'
    BY <1>1, <1>2, <1>5, <2>1, <2>2 DEF WorkTells, Working
  <2> QED  BY <1>5, <2>3 DEF WorkTells, Working
<1>6. CASE pc[e] \notin Working \cup {"done"}
  BY <1>6 DEF WorkTells, Working
<1> QED  BY <1>3, <1>4, <1>5, <1>6 DEF Working

-----------------------------------------------------------------------------
(* An Undo that another request's step leaves alone                        *)

\* The rows an Undo works on, its group over, under a step of others.
LEMMA OthersMatch ==
    ASSUME MatchInv, TypeInv', RowsStay, RoutersGrow, NEW u \in Undos,
           pc'[u] = pc[u], idx'[u] = idx[u], target'[u] = target[u], snap'[u] = snap[u],
           Critical(u) => \A r \in Needs(u) : config'[r] = config[r],
           target[u] \in Executes =>
              /\ UndoneUpwards(target[u]) => UndoneUpwards(target[u])'
              /\ \A i \in Positions : rows[target[u]][i].status = "undone" =>
                    rows'[target[u]][i].status = "undone"
    PROVE  MatchTells(u)'
<1>1. /\ TypeInv /\ FitsOK /\ u \in Procs /\ MatchTells(u) /\ UNCHANGED pc[u]
      /\ pc[u] \notin {"idle", "done"} => target[u] \in Executes
  BY DEF MatchInv, MatchOK, LockInv, TypeInv, LoopsOK, UndoLoopAt, Procs
<1>2. Todo(u)' = Todo(u)
  BY DEF Todo
<1>3. CASE pc[u] \in {"idle", "done"}
  BY <1>1, <1>3 DEF MatchTells, Started
<1>4. CASE pc[u] \notin {"idle", "done"}
  <2>1. PICK g \in Executes : g = target[u] /\ g = target'[u] /\ Len(Ops[g]) \in Nat
    BY <1>1, <1>4, OpsAssumption
  <2>2. ASSUME RowsTell(g, Len(Ops[g]) + 1) /\ UndoneUpwards(g)
        PROVE  (RowsTell(g, Len(Ops[g]) + 1) /\ UndoneUpwards(g))'
    <3>1. PICK n \in Nat : n = Len(Ops[g]) + 1
      BY <2>1
    <3>2. RowsTell(g, n)'
      BY <1>1, <2>2, <3>1, RowsTellStays
    <3>3. UndoneUpwards(g)'
      BY <2>1, <2>2 DEF UndoneUpwards
    <3> QED  BY <3>1, <3>2, <3>3
  <2>3. Started(u) \/ (pc[u] = "readOps" /\ snap[u].status = "applied") =>
            RowsTell(g, Len(Ops[g]) + 1) /\ UndoneUpwards(g)
    BY <1>1, <2>1 DEF MatchTells
  <2>4. ASSUME Started(u), NEW i \in 1..Len(Ops[g])
        PROVE  /\ snap[u].rows[i] # NoRow /\ Same(snap[u].rows[i], rows'[g][i])
               /\ i \in Todo(u) \/ rows'[g][i].status = "undone"
    <3>1. /\ snap[u].rows[i] # NoRow /\ Same(snap[u].rows[i], rows[g][i])
          /\ i \in Todo(u) \/ rows[g][i].status = "undone"
      BY <1>1, <2>1, <2>4 DEF MatchTells
    <3>2. i \in Positions /\ rows[g][i] # NoRow
      <4>1. i \in Positions /\ i < Len(Ops[g]) + 1
        BY OpsAssumption DEF Positions
      <4> QED  BY <2>3, <2>4, <4>1 DEF RowsTell
    <3>3. Same(rows'[g][i], rows[g][i])
      BY <3>2 DEF RowsStay
    <3> QED  BY <2>1, <3>1, <3>2, <3>3 DEF Same
  <2>5. ASSUME Critical(u), NEW i \in Todo(u)
        PROVE  Matches(g, i, snap[u].rows[i])' <=> Matches(g, i, snap[u].rows[i])
    <3>1. On(g, i) \in Needs(u)
      BY <1>1, <2>1, TodoFits
    <3> QED  BY <2>5, <3>1 DEF Matches, Resource, On
  <2>6. Started(u) => \A i \in Todo(u) : \A k \in 1..Len(Ops[g]) : k < i => k \in Todo(u)
    BY <1>1, <2>1 DEF MatchTells
  <2>7. pc[u] = "match" =>
            \A i \in Todo(u) : i > idx[u] => Matches(g, i, snap[u].rows[i])'
    BY <1>1, <2>1, <2>5 DEF MatchTells, Critical
  <2>8. pc[u] \in {"reverse", "mark"} =>
            \A i \in Todo(u) :
                \/ i > idx[u] /\ rows'[g][i].status = "undone"
                \/ i = idx[u] /\ pc[u] = "mark"
                \/ i <= idx[u] /\ Matches(g, i, snap[u].rows[i])'
    <3>1. \A i \in Todo(u) : i \in Positions
      BY DEF Todo
    <3> QED  BY <1>1, <2>1, <2>5, <3>1 DEF MatchTells, Critical
  <2>9. Started(u)' <=> Started(u)
    BY <1>1 DEF Started
  <2>10. \A i \in Todo(u) : Matches(target[u], i, snap[u].rows[i])' <=> Matches(g, i, snap[u].rows[i])'
    BY <2>1 DEF Matches
  <2>11. (RowsTell(target[u], Len(Ops[target[u]]) + 1) /\ UndoneUpwards(target[u]))'
            <=> (RowsTell(g, Len(Ops[g]) + 1) /\ UndoneUpwards(g))'
    BY <2>1 DEF RowsTell, UndoneUpwards, SameRes, Chain
  <2> QED
    BY <1>1, <1>2, <2>1, <2>2, <2>3, <2>4, <2>6, <2>7, <2>8, <2>9, <2>10, <2>11 DEF MatchTells
<1> QED  BY <1>3, <1>4

\* A step of Execute builds its own draft only, one of Undo none.
LEMMA DraftsOfOthersStay ==
    ASSUME TypeInv
    PROVE  /\ \A e \in Executes : ExecuteStep(e) =>
                  \A f \in Executes \ {e} : draft'[f] = draft[f]
           /\ \A u \in Undos : UndoStep(u) => UNCHANGED draft
<1>1. ASSUME NEW e \in Executes, ExecuteStep(e), NEW f \in Executes \ {e}
      PROVE  draft'[f] = draft[f]
  <2>1. \A i : Enter(e, i) => draft'[f] = draft[f]
    BY DEF Enter, TypeInv, TypeOK, ExecTypeOK
  <2> QED
    BY <1>1, <2>1
       DEF ExecuteStep, ExecuteStart, AcquireNext, AllLocked, CreateGroup, GetClients, Abandon,
           FetchBefore, ApplyOperation, FetchAfter, InsertOperation, Succeed, RecordFailure,
           RollbackOne, RollbackMark, RollbackGroup, RespondFailure, execVars,
           TypeInv, TypeOK, ExecTypeOK
<1>2. ASSUME NEW u \in Undos, UndoStep(u)
      PROVE  UNCHANGED draft
  BY <1>2
     DEF UndoStep, UndoReadGroup, UndoReadOps, AcquireNext, AllLocked, UndoClients, UndoMatch,
         UndoReverse, UndoMark, UndoAttention, UndoFinish, execVars
<1> QED  BY <1>1, <1>2

\* A step of Execute.
LEMMA ExecuteKeepsMatch ==
    ASSUME MatchInv, TypeInv', NEW e \in Executes, ExecuteStep(e)
    PROVE  MatchOK'
<1>1. /\ TypeInv /\ IdsOK /\ LockInv /\ BooksInv /\ PromiseInv /\ e \in Procs
      /\ \A f \in Executes : f \in Procs
      /\ \A u \in Undos : u \in Procs /\ u # e
  BY ProcsAssumption
     DEF MatchInv, MatchOK, LockInv, PromiseInv, LoggedInv, Procs
<1>2. ExecuteDoes(e) /\ UNCHANGED <<target, snap>>
  BY <1>1, ExecuteStepDoes
<1>3. /\ OthersStay(e)
      /\ \A q \in Procs \ {e} : idx'[q] = idx[q]
      /\ \A f \in Executes \ {e} : rows'[f] = rows[f] /\ groupStatus'[f] = groupStatus[f]
  BY <1>1, <1>2, ExecuteDoesOwn
<1>4. WritesOwn(e)
  BY <1>1, ExecuteWrites
<1>5. /\ IdsOK' /\ RoutersGrow
      /\ \A q \in Procs \ {e} : Critical(q) => \A r \in Needs(q) : config'[r] = config[r]
  BY <1>1, <1>4, OwnWrites
<1>6. RowsStay
  BY <1>1, ExecuteRowsStay
<1>7. WorkTells(e)'
  BY <1>5, <1>6, ClientsWork, FetchWorks, ApplyWorks, InsertWorks, EndWorks DEF ExecuteStep
<1>8. ASSUME NEW f \in Executes \ {e} PROVE WorkTells(f)'
  <2>1. /\ f \in Procs /\ pc'[f] = pc[f] /\ idx'[f] = idx[f] /\ draft'[f] = draft[f]
        /\ rows'[f] = rows[f] /\ groupStatus'[f] = groupStatus[f]
    BY <1>1, <1>3, DraftsOfOthersStay DEF OthersStay
  <2>2. UndoneUpwards(f) => UndoneUpwards(f)'
    BY <2>1 DEF UndoneUpwards
  <2>3. Critical(f) => \A r \in Needs(f) : config'[r] = config[r]
    BY <1>5, <2>1
  <2> QED  BY <1>5, <1>6, <2>1, <2>2, <2>3, OthersWork
<1>9. ASSUME NEW u \in Undos PROVE MatchTells(u)'
  <2>1. /\ u \in Procs /\ pc'[u] = pc[u] /\ idx'[u] = idx[u]
        /\ target'[u] = target[u] /\ snap'[u] = snap[u]
    BY <1>1, <1>2, <1>3 DEF OthersStay
  <2>2. CASE pc[u] \in {"idle", "done"}
    BY <2>1, <2>2 DEF MatchTells, Started
  <2>3. CASE pc[u] \notin {"idle", "done"}
    <3>1. pc[e] # "done"
      BY <1>2 DEF ExecuteDoes, Arrives, Creates, GetsClients, Looks, Applies, Logs, Records,
         Reverses, Marks, Concludes, Leaves, Moves
    <3>2. target[u] # e
      BY <1>1, <2>3, <3>1 DEF PromiseInv, PromiseOK, UndoTells
    <3>3. target[u] \in Executes => rows'[target[u]] = rows[target[u]]
      BY <1>3, <3>2
    <3>4. target[u] \in Executes =>
            /\ UndoneUpwards(target[u]) => UndoneUpwards(target[u])'
            /\ \A i \in Positions : rows[target[u]][i].status = "undone" =>
                  rows'[target[u]][i].status = "undone"
      BY <2>1, <3>3 DEF UndoneUpwards
    <3>5. Critical(u) => \A r \in Needs(u) : config'[r] = config[r]
      BY <1>1, <1>5
    <3> QED  BY <1>5, <1>6, <2>1, <3>4, <3>5, OthersMatch
  <2> QED  BY <2>2, <2>3
<1> QED  BY <1>5, <1>7, <1>8, <1>9 DEF MatchOK

-----------------------------------------------------------------------------
(* An Undo that takes a step of its own                                    *)

\* What MatchTells says of a request that works on its rows.
Ready(u) ==
    /\ RowsTell(target[u], Len(Ops[target[u]]) + 1) /\ UndoneUpwards(target[u])
    /\ \A i \in 1..Len(Ops[target[u]]) :
          /\ snap[u].rows[i] # NoRow /\ Same(snap[u].rows[i], rows[target[u]][i])
          /\ i \in Todo(u) \/ rows[target[u]][i].status = "undone"
    /\ \A i \in Todo(u) : \A k \in 1..Len(Ops[target[u]]) : k < i => k \in Todo(u)

\* Reading the group, which is over, and its rows.
LEMMA ReadsMatch ==
    ASSUME OnlyRoutersFail, MatchInv, NEW u \in Undos,
           (\E g \in Executes : UndoReadGroup(u, g)) \/ UndoReadOps(u)
    PROVE  MatchTells(u)'
<1>1. /\ TypeInv /\ UndoTypeOK /\ ControlTypeOK /\ DbTypeOK /\ u \in Procs /\ MatchTells(u)
      /\ UndoTells(u)
      /\ pc[u] \notin {"idle", "done"} => target[u] \in Executes
  BY DEF MatchInv, MatchOK, PromiseInv, PromiseOK, LockInv, TypeInv, TypeOK, LoopsOK,
     UndoLoopAt, Procs
<1>2. UNCHANGED <<rows, config, nextId>>
  BY DEF UndoReadGroup, UndoReadOps, routerVars, dbVars
<1>3. CASE pc'[u] = "done"
  BY <1>3 DEF MatchTells, Started
<1>4. CASE \E g \in Executes : UndoReadGroup(u, g) /\ pc'[u] # "done"
  <2>1. PICK g \in Executes : UndoReadGroup(u, g) /\ pc'[u] # "done"
    BY <1>4
  <2>2. /\ pc'[u] = "readOps" /\ target'[u] = g /\ snap'[u].status = groupStatus[g]
        /\ pc[g] = "done"
    BY <1>1, <2>1, GotoMovesOne, ReturnMovesOne
       DEF UndoReadGroup, UndoTypeOK, OnlyRoutersFail
  <2>3. groupStatus[g] = "applied" => RowsTell(g, Len(Ops[g]) + 1) /\ UndoneUpwards(g)
    BY <2>2 DEF MatchInv, MatchOK, WorkTells
  <2>4. groupStatus[g] = "applied" => (RowsTell(target[u], Len(Ops[target[u]]) + 1)
                                        /\ UndoneUpwards(target[u]))'
    BY <1>2, <2>2, <2>3 DEF RowsTell, UndoneUpwards, SameRes, Chain
  <2> QED  BY <2>2, <2>4 DEF MatchTells, Started
<1>5. CASE UndoReadOps(u) /\ pc'[u] # "done"
  <2>1. /\ pc[u] = "readOps" /\ pc'[u] = "lock" /\ snap[u].status = "applied"
        /\ snap'[u].rows = rows[target[u]] /\ UNCHANGED target
    BY <1>1, <1>5, GotoMovesOne, ReturnMovesOne DEF UndoReadOps, UndoTypeOK
  <2>2. PICK g \in Executes : g = target[u] /\ g = target'[u] /\ Len(Ops[g]) \in Nat
    BY <1>1, <2>1, OpsAssumption
  <2>3. RowsTell(g, Len(Ops[g]) + 1) /\ UndoneUpwards(g) /\ Whole(g)
    BY <1>1, <2>1, <2>2 DEF MatchTells, UndoTells
  <2>4. (RowsTell(target[u], Len(Ops[target[u]]) + 1) /\ UndoneUpwards(target[u]))'
    BY <1>2, <2>2, <2>3 DEF RowsTell, UndoneUpwards, SameRes, Chain
  <2>5. \A i \in 1..Len(Ops[g]) : i \in Positions /\ i \in Nat
    BY OpsAssumption DEF Positions
  <2>6. \A i \in Positions : i \in Todo(u)' <=> rows[g][i] # NoRow /\ rows[g][i].status = "applied"
    BY <2>1, <2>2 DEF Todo
  <2>7. ASSUME NEW i \in 1..Len(Ops[g])
        PROVE  /\ snap'[u].rows[i] # NoRow /\ Same(snap'[u].rows[i], rows'[g][i])
               /\ i \in Todo(u)' \/ rows'[g][i].status = "undone"
    BY <1>2, <2>1, <2>2, <2>3, <2>5, <2>6 DEF Whole, Same
  <2>8. ASSUME NEW i \in Todo(u)', NEW k \in 1..Len(Ops[g]), k < i
        PROVE  k \in Todo(u)'
    <3>1. i \in Positions /\ rows[g][i] # NoRow /\ rows[g][i].status = "applied"
      BY <2>1, <2>2 DEF Todo
    <3>2. i \in 1..Len(Ops[g])
      BY <2>2, <3>1, OpsAssumption DEF MatchInv, LockInv, FitsOK, RowsFit, Positions
    <3> QED  BY <2>3, <2>5, <2>6, <2>8, <3>1, <3>2 DEF Whole, UndoneUpwards
  <2> QED  BY <2>1, <2>2, <2>4, <2>7, <2>8 DEF MatchTells
<1> QED  BY <1>3, <1>4, <1>5

\* What is not about the routers or the rows of the group stays.
LEMMA ReadyStays ==
    ASSUME NEW u \in Undos, Ready(u), UNCHANGED <<rows, config, nextId, target, snap>>
    PROVE  Ready(u)'
BY DEF Ready, RowsTell, UndoneUpwards, SameRes, Chain, Same, Todo

\* An Undo past its reads is ready.
LEMMA StartedIsReady ==
    ASSUME NEW u \in Undos, MatchTells(u), Started(u)
    PROVE  Ready(u)
BY DEF Ready, MatchTells

\* Locking, finding the routers, the first phase, and the end.
LEMMA PhaseOneMatches ==
    ASSUME OnlyRoutersFail, MatchInv, NEW u \in Undos,
           \/ AcquireNext(u) \/ AllLocked(u) \/ UndoClients(u) \/ UndoMatch(u)
           \/ UndoAttention(u) \/ UndoFinish(u)
    PROVE  MatchTells(u)'
<1>1. /\ TypeInv /\ FitsOK /\ ControlTypeOK /\ u \in Procs /\ u \notin Executes /\ MatchTells(u)
      /\ idx[u] \in Nat
      /\ pc[u] \notin {"idle", "done"} => target[u] \in Executes
  BY ProcsAssumption
     DEF MatchInv, MatchOK, LockInv, TypeInv, TypeOK, ControlTypeOK, LoopsOK, UndoLoopAt, Procs
<1>2. CASE pc'[u] = "done"
  BY <1>2 DEF MatchTells, Started
<1>3. CASE pc'[u] # "done"
  <2>1. ~UndoAttention(u) /\ ~UndoFinish(u)
    BY <1>1, <1>3, ReturnMovesOne DEF UndoAttention, UndoFinish
  <2>2. UNCHANGED <<rows, config, nextId, target, snap>>
    BY <2>1 DEF AcquireNext, AllLocked, UndoClients, UndoMatch, routerVars, dbVars, undoVars
  <2>3. Started(u)
    BY <2>1 DEF AcquireNext, AllLocked, UndoClients, UndoMatch, Started
  <2>4. Ready(u) /\ Ready(u)'
    BY <1>1, <2>2, <2>3, StartedIsReady, ReadyStays
  <2>5. /\ Todo(u)' = Todo(u)
        /\ \A i : Matches(target[u], i, snap[u].rows[i])' <=> Matches(target[u], i, snap[u].rows[i])
    BY <2>2 DEF Todo, Matches, Resource
  <2>6. \A i \in Todo(u) : i \in Positions /\ i \in Nat /\ i <= MaxOps /\ MaxOps \in Nat
    BY OpsAssumption DEF Todo, Positions
  <2>7. CASE AcquireNext(u) \/ AllLocked(u)
    <3>1. pc'[u] \in {"lock", "clients"}
      BY <1>1, <2>7, GotoMovesOne DEF AcquireNext, AllLocked
    <3> QED  BY <2>4, <3>1 DEF MatchTells, Ready
  <2>8. CASE UndoClients(u)
    <3>1. pc'[u] = "match" /\ idx'[u] = MaxOps
      BY <1>1, <1>3, <2>8, GotoMovesOne, ReturnMovesOne DEF UndoClients, ControlTypeOK
    <3>2. \A i \in Todo(u) : ~(i > MaxOps)
      BY <2>6
    <3> QED  BY <2>4, <2>5, <3>1, <3>2 DEF MatchTells, Ready
  <2>9. CASE UndoMatch(u) /\ NothingTodo(u) /\ Goto(u, "reverse") /\ idx' = [idx EXCEPT ![u] = MaxOps]
    <3>1. pc[u] = "match" /\ pc'[u] = "reverse" /\ idx'[u] = MaxOps
      BY <1>1, <2>9, GotoMovesOne DEF UndoMatch, ControlTypeOK
    <3>2. \A i \in Todo(u) : i <= MaxOps /\ Matches(target[u], i, snap[u].rows[i])
      BY <1>1, <2>6, <2>9, <3>1 DEF NothingTodo, MatchTells
    <3>3. \A i \in Todo(u)' : i <= idx'[u] /\ Matches(target[u], i, snap[u].rows[i])'
      BY <2>5, <3>1, <3>2
    <3> QED  BY <2>4, <3>1, <3>3 DEF MatchTells, Ready
  <2>10. CASE UndoMatch(u) /\ ~(NothingTodo(u) /\ Goto(u, "reverse") /\ idx' = [idx EXCEPT ![u] = MaxOps])
    <3>1. PICK i \in Positions :
              /\ NextTodo(u, i)
              /\ \/ CallOk(u) /\ Matches(target[u], i, snap[u].rows[i])
                 \/ CallFails(u, "router") /\ OpAt(target[u], i).type = "delete"
              /\ idx' = [idx EXCEPT ![u] = i - 1] /\ UNCHANGED pc
      BY <1>1, <1>3, <2>10, ReturnMovesOne DEF UndoMatch
    <3>2. i \in Todo(u) /\ i \in 1..Len(Ops[target[u]]) /\ target[u] \in Executes
      BY <1>1, <3>1, TodoFits DEF NextTodo
    <3>3. Matches(target[u], i, snap[u].rows[i])
      <4>1. CASE OpAt(target[u], i).type = "delete"
        <5>1. /\ i < Len(Ops[target[u]]) + 1 /\ Same(snap[u].rows[i], rows[target[u]][i])
          BY <2>4, <3>2, OpsAssumption DEF Ready
        <5>2. config[On(target[u], i)][rows[target[u]][i].id] = Absent
          BY <2>4, <3>2, <4>1, <5>1 DEF Ready, RowsTell, Type
        <5> QED  BY <4>1, <5>1, <5>2 DEF Matches, Resource, On, Same
      <4> QED  BY <3>1, <4>1
    <3>4. pc[u] = "match" /\ pc'[u] = "match" /\ idx'[u] = i - 1
      BY <1>1, <2>10, <3>1 DEF UndoMatch, ControlTypeOK
    <3>5. ASSUME NEW j \in Todo(u), j > i - 1
          PROVE  Matches(target[u], j, snap[u].rows[j])
      <4>1. i \in Nat /\ j \in Nat /\ idx[u] \in Nat
        BY <1>1, <2>6, <3>2
      <4>2. j <= idx[u] => j <= i
        BY <3>1 DEF NextTodo
      <4>3. j = i \/ j > idx[u]
        BY <3>5, <4>1, <4>2
      <4> QED  BY <1>1, <3>3, <3>4, <4>3 DEF MatchTells
    <3> QED  BY <2>4, <2>5, <3>4, <3>5 DEF MatchTells, Ready
  <2> QED  BY <2>1, <2>7, <2>8, <2>9, <2>10
<1> QED  BY <1>2, <1>3

\* A PATCH that sets a resource to the state it is in.
LEMMA MergeItself ==
    ASSUME NEW state \in State
    PROVE  Merge(state, state) = state
BY DEF Merge, State

\* The reversal of an operation leaves the resources of the earlier ones of
\* its group as they are: another resource is not touched, and a change is
\* reversed to the state that the earlier operation left.
LEMMA ReversalSpares ==
    ASSUME TypeInv, FitsOK, NEW u \in Undos, Ready(u),
           NEW i \in Todo(u), NEW j \in Todo(u), j < i,
           \A k \in Todo(u) : k <= i => Matches(target[u], k, snap[u].rows[k]),
           CarryReverse(target[u], i, snap[u].rows[i])
    PROVE  config'[On(target[u], j)][snap[u].rows[j].id]
              = config[On(target[u], j)][snap[u].rows[j].id]
<1> DEFINE g == target[u]
           r == On(g, i)
           a == snap[u].rows[j]
           b == snap[u].rows[i]
<1>1. /\ g \in Executes /\ i \in 1..Len(Ops[g]) /\ j \in 1..Len(Ops[g]) /\ i \in Nat /\ j \in Nat
      /\ r \in Routers /\ On(g, j) \in Routers /\ a \in Row /\ b \in Row
  BY TodoFits
<1>2. /\ RouterTypeOK /\ nextId[r] \in Nat /\ OpAt(g, i).type \in {"add", "modify", "delete"}
  BY <1>1, OpAtType DEF TypeInv, TypeOK, RouterTypeOK, Operation
<1>3. /\ Same(a, rows[g][j]) /\ Same(b, rows[g][i])
      /\ a.id \in Ids /\ b.id \in Ids /\ a.id < nextId[On(g, j)] /\ a.id \in Nat
  <2>1. Same(a, rows[g][j]) /\ Same(b, rows[g][i]) /\ RowsTell(g, Len(Ops[g]) + 1)
    BY <1>1 DEF Ready
  <2>2. i < Len(Ops[g]) + 1 /\ j < Len(Ops[g]) + 1
    BY <1>1, OpsAssumption
  <2>3. rows[g][i].id \in Ids /\ rows[g][j].id \in Ids /\ rows[g][j].id < nextId[On(g, j)]
    BY <1>1, <2>1, <2>2 DEF RowsTell
  <2> QED  BY <2>1, <2>3, IdsAssumption DEF Same
<1>4. CASE On(g, j) = r /\ a.id = b.id
  <2>1. SameRes(g, j, i)
    BY <1>3, <1>4 DEF SameRes, Same
  <2>2. /\ Type(g, i) # "add"
        /\ Chain(g, j, i) => rows[g][i].before = rows[g][j].after
    <3>1. i < Len(Ops[g]) + 1 /\ RowsTell(g, Len(Ops[g]) + 1)
      BY <1>1, OpsAssumption DEF Ready
    <3> QED  BY <1>1, <2>1, <3>1 DEF RowsTell
  <2>3. CASE Type(g, i) = "modify"
    <3> DEFINE now == config[r][b.id]
    <3>1. PatchResource(r, b.id, b.before)
      BY <2>3 DEF CarryReverse, On, Type
    <3>2. now # Absent /\ config'[r][b.id] = Merge(now, b.before)
      BY <1>1, <1>2, <1>3, <3>1, PatchSets
    <3>3. now \in State
      BY <1>1, <1>2, <1>3, <3>2 DEF RouterTypeOK
    <3>4. ASSUME NEW k \in Todo(u), k <= i, On(g, k) = r, snap[u].rows[k].id = b.id
          PROVE  Type(g, k) # "delete" /\ snap[u].rows[k].after = now
      <4>1. Matches(g, k, snap[u].rows[k])
        BY <3>4
      <4> QED  BY <3>2, <3>4, <4>1 DEF Matches, Resource, On, Type
    <3>5. Type(g, j) # "delete" /\ a.after = now
      BY <1>1, <1>4, <3>4
    <3>6. ASSUME NEW k \in 1..Len(Ops[g]), j < k, k < i, SameRes(g, j, k)
          PROVE  Type(g, k) # "delete" /\ rows[g][k].after = now
      <4>1. k \in Todo(u) /\ Same(snap[u].rows[k], rows[g][k]) /\ k <= i
        BY <1>1, <3>6 DEF Ready
      <4>2. On(g, k) = r /\ snap[u].rows[k].id = b.id
        BY <1>3, <1>4, <3>6, <4>1 DEF SameRes, Same
      <4> QED  BY <3>4, <4>1, <4>2 DEF Same
    <3>7. Chain(g, j, i)
      <4>1. now # BodyOnly
        BY <3>3, NullAssumption
      <4>2. rows[g][j].after = now
        BY <1>3, <3>5 DEF Same
      <4> QED  BY <3>5, <3>6, <4>1, <4>2 DEF Chain
    <3>8. b.before = now
      BY <1>3, <2>2, <3>5, <3>7 DEF Same
    <3> HIDE DEF now
    <3>9. config'[r][b.id] = now
      BY <3>2, <3>3, <3>8, MergeItself
    <3> QED  BY <1>4, <3>9 DEF now
  <2>4. CASE Type(g, i) = "delete"
    <3>1. CreateResource(r, b.before)
      BY <2>4 DEF CarryReverse, On, Type
    <3>2. Only(r, nextId[r])
      BY <1>1, <1>2, <3>1, CreateMakes
    <3>3. b.id # nextId[r]
      BY <1>2, <1>3, <1>4
    <3> QED  BY <1>3, <1>4, <3>2, <3>3 DEF Only
  <2> QED  BY <1>2, <2>2, <2>3, <2>4 DEF Type
<1>5. CASE ~(On(g, j) = r /\ a.id = b.id)
  <2>1. CASE Type(g, i) = "add"
    <3>1. DeleteResource(r, b.id)
      BY <2>1 DEF CarryReverse, On, Type
    <3>2. Only(r, b.id)
      BY <1>1, <1>2, <3>1, DeleteRemoves
    <3> QED  BY <1>1, <1>3, <1>5, <3>2 DEF Only
  <2>2. CASE Type(g, i) = "modify"
    <3>1. PatchResource(r, b.id, b.before)
      BY <2>2 DEF CarryReverse, On, Type
    <3>2. Only(r, b.id)
      BY <1>1, <1>2, <3>1, PatchSets
    <3> QED  BY <1>1, <1>3, <1>5, <3>2 DEF Only
  <2>3. CASE Type(g, i) = "delete"
    <3>1. CreateResource(r, b.before)
      BY <2>3 DEF CarryReverse, On, Type
    <3>2. Only(r, nextId[r])
      BY <1>1, <1>2, <3>1, CreateMakes
    <3>3. On(g, j) = r => a.id # nextId[r]
      BY <1>2, <1>3
    <3> QED  BY <1>1, <1>3, <3>2, <3>3 DEF Only
  <2> QED  BY <1>2, <2>1, <2>2, <2>3 DEF Type
<1> QED  BY <1>4, <1>5

\* The reversal of an operation.
LEMMA ReverseMatches ==
    ASSUME MatchInv, TypeInv', RowsStay, RoutersGrow, NEW u \in Undos, UndoReverse(u)
    PROVE  /\ MatchTells(u)'
           /\ pc'[u] = "mark" => Matches(target[u], idx'[u], snap[u].rows[idx'[u]])
<1>1. /\ TypeInv /\ FitsOK /\ ControlTypeOK /\ u \in Procs /\ MatchTells(u)
      /\ pc[u] = "reverse" /\ target[u] \in Executes /\ idx[u] \in Nat
  BY DEF MatchInv, MatchOK, LockInv, TypeInv, TypeOK, ControlTypeOK, LoopsOK, UndoLoopAt,
     Procs, UndoReverse
<1>2. UNCHANGED <<rows, target, snap>>
  BY DEF UndoReverse, dbVars, undoVars
<1>3. PICK g \in Executes : g = target[u] /\ g = target'[u] /\ Len(Ops[g]) \in Nat
  BY <1>1, <1>2, OpsAssumption
<1>4. Ready(u)
  BY <1>1, StartedIsReady DEF Started
<1>5. Ready(u)'
  <2>1. PICK n \in Nat : n = Len(Ops[g]) + 1
    BY <1>3
  <2>2. RowsTell(g, n)'
    BY <1>1, <1>3, <1>4, <2>1, RowsTellStays DEF Ready
  <2>3. (RowsTell(target[u], Len(Ops[target[u]]) + 1))' <=> RowsTell(g, n)'
    BY <1>3, <2>1 DEF RowsTell
  <2>4. UndoneUpwards(target[u])'
    BY <1>2, <1>4 DEF Ready, UndoneUpwards
  <2> QED  BY <1>2, <1>4, <2>2, <2>3, <2>4 DEF Ready, Todo
<1>6. PICK i \in Positions :
          /\ NextTodo(u, i) /\ idx' = [idx EXCEPT ![u] = i]
          /\ \/ CarryReverse(g, i, snap[u].rows[i]) /\ Goto(u, "mark")
             \/ Goto(u, "attention")
  BY <1>3 DEF UndoReverse
<1>7. i \in Todo(u) /\ i \in Nat /\ i <= idx[u] /\ idx'[u] = i
  BY <1>1, <1>6, TodoFits DEF NextTodo, ControlTypeOK
<1>8. \A k \in Todo(u) : k \in Nat /\ (k <= idx[u] => k <= i)
  BY <1>1, <1>6, TodoFits DEF NextTodo
<1>9. \A k \in Todo(u) : k <= i => Matches(g, k, snap[u].rows[k])
  BY <1>1, <1>3, <1>7, <1>8 DEF MatchTells
<1>10. \A k \in Todo(u) : k > i => rows[g][k].status = "undone"
  BY <1>1, <1>3, <1>7, <1>8 DEF MatchTells
<1>11. CASE Goto(u, "attention")
  <2>1. pc'[u] = "attention"
    BY <1>1, <1>11, GotoMovesOne
  <2> QED  BY <1>5, <2>1 DEF MatchTells, Ready
<1>12. CASE CarryReverse(g, i, snap[u].rows[i]) /\ Goto(u, "mark")
  <2>1. pc'[u] = "mark"
    BY <1>1, <1>12, GotoMovesOne
  <2>2. ASSUME NEW j \in Todo(u), j < i
        PROVE  Matches(target[u], j, snap[u].rows[j])'
    <3>1. /\ \A k \in Todo(u) : k <= i => Matches(target[u], k, snap[u].rows[k])
          /\ CarryReverse(target[u], i, snap[u].rows[i])
      BY <1>3, <1>9, <1>12
    <3>2. config'[On(target[u], j)][snap[u].rows[j].id] = config[On(target[u], j)][snap[u].rows[j].id]
      BY <1>1, <1>4, <1>7, <2>2, <3>1, ReversalSpares
    <3>3. j <= i
      <4>1. j \in Nat
        BY <1>8
      <4>2. i \in Nat
        BY <1>7
      <4> QED  BY <2>2, <4>1, <4>2
    <3>4. Matches(target[u], j, snap[u].rows[j])
      BY <3>1, <3>3
    <3> QED  BY <1>2, <3>2, <3>4 DEF Matches, Resource, On
  <2>3. Todo(u)' = Todo(u)
    BY <1>2 DEF Todo
  <2>4. \A j \in Todo(u) :
            \/ j > i /\ rows[g][j].status = "undone"
            \/ j = i
            \/ j <= i /\ Matches(target[u], j, snap[u].rows[j])'
    BY <1>7, <1>8, <1>10, <2>2
  <2>5. \A j \in Todo(u)' :
            \/ j > idx'[u] /\ rows'[target'[u]][j].status = "undone"
            \/ j = idx'[u]
            \/ j <= idx'[u] /\ Matches(target[u], j, snap[u].rows[j])'
    BY <1>2, <1>3, <1>7, <2>3, <2>4
  <2>6. Matches(target[u], idx'[u], snap[u].rows[idx'[u]])
    BY <1>3, <1>7, <1>9
  <2> QED  BY <1>5, <2>1, <2>5, <2>6 DEF MatchTells, Ready
<1> QED  BY <1>6, <1>11, <1>12

\* The mark on a row whose operation was reversed.
LEMMA MarkMatches ==
    ASSUME OnlyRoutersFail, MatchInv, TypeInv', RowsStay, RoutersGrow, NEW u \in Undos, UndoMark(u)
    PROVE  /\ MatchTells(u)'
           /\ \A g \in Executes : UndoneUpwards(g) => UndoneUpwards(g)'
           /\ \A g \in Executes, i \in Positions :
                 rows[g][i].status = "undone" => rows'[g][i].status = "undone"
<1>1. /\ TypeInv /\ FitsOK /\ ControlTypeOK /\ DbTypeOK /\ u \in Procs /\ MatchTells(u)
      /\ pc[u] = "mark" /\ idx[u] \in Nat /\ PromiseInv
      /\ \E g \in Executes : g = target[u] /\ g = target'[u]
  BY DEF MatchInv, MatchOK, LockInv, TypeInv, TypeOK, ControlTypeOK, LoopsOK, UndoLoopAt,
     Procs, UndoMark, undoVars
<1>2. PICK g \in Executes : g = target[u] /\ g = target'[u]
  BY <1>1
<1>3. /\ UNCHANGED <<config, nextId, target, snap>>
      /\ pc'[u] = "reverse" /\ idx'[u] = idx[u] - 1
  BY <1>1, GotoMovesOne DEF UndoMark, routerVars, undoVars, ControlTypeOK
<1>4. Marked(u, g, idx[u], "undone") /\ ~MayFail(u, "db")
  BY <1>1, <1>2, SetRowStatusMarks, NothingElseFails DEF UndoMark, OpStatus
<1>5. Ready(u) /\ Len(Ops[g]) \in Nat
  BY <1>1, StartedIsReady, OpsAssumption DEF Started
<1>6. \A i \in 1..Len(Ops[g]) : i \in Positions /\ i \in Nat /\ rows[g][i] # NoRow
  <2>1. \A i \in 1..Len(Ops[g]) : i \in Positions /\ i \in Nat /\ i < Len(Ops[g]) + 1
    BY OpsAssumption DEF Positions
  <2> QED  BY <1>2, <1>5, <2>1 DEF Ready, RowsTell
<1>7. \A i \in 1..Len(Ops[g]) : i > idx[u] => rows[g][i].status = "undone"
  BY <1>1, <1>2, <1>5, <1>6 DEF Ready, MatchTells
<1>8. \A f \in Executes, i \in Positions :
          rows[f][i].status = "undone" => rows'[f][i].status = "undone"
  BY <1>4 DEF Marked
<1>9. \A i \in 1..Len(Ops[g]) : i = idx[u] => rows'[g][i].status = "undone"
  BY <1>4, <1>6 DEF Marked
<1>10. UndoneUpwards(g)'
  <2>1. ASSUME NEW i \in 1..Len(Ops[g]), NEW k \in 1..Len(Ops[g]), i < k,
               rows'[g][i].status = "undone"
        PROVE  rows[g][k].status = "undone"
    <3>1. CASE i = idx[u]
      BY <1>7, <2>1, <3>1
    <3>2. CASE i # idx[u]
      <4>1. rows'[g][i] = rows[g][i]
        BY <1>4, <1>6, <3>2 DEF Marked
      <4> QED  BY <1>2, <1>5, <2>1, <4>1 DEF Ready, UndoneUpwards
    <3> QED  BY <3>1, <3>2
  <2> QED  BY <1>6, <1>8, <2>1 DEF UndoneUpwards
<1>11. \A f \in Executes : UndoneUpwards(f) => UndoneUpwards(f)'
  <2>1. \A f \in Executes \ {g} : rows'[f] = rows[f]
    BY <1>4 DEF Marked
  <2> QED  BY <1>10, <2>1 DEF UndoneUpwards
<1>12. (RowsTell(target[u], Len(Ops[target[u]]) + 1))'
  <2>1. PICK n \in Nat : n = Len(Ops[g]) + 1
    BY <1>5
  <2>2. RowsTell(g, n)'
    BY <1>1, <1>2, <1>5, <2>1, RowsTellStays DEF Ready
  <2> QED  BY <1>2, <2>1, <2>2 DEF RowsTell
<1>13. Todo(u)' = Todo(u)
  BY <1>3 DEF Todo
<1>14. ASSUME NEW i \in 1..Len(Ops[g])
       PROVE  /\ snap'[u].rows[i] # NoRow /\ Same(snap'[u].rows[i], rows'[g][i])
              /\ i \in Todo(u) \/ rows'[g][i].status = "undone"
  <2>1. /\ snap[u].rows[i] # NoRow /\ Same(snap[u].rows[i], rows[g][i])
        /\ i \in Todo(u) \/ rows[g][i].status = "undone"
    BY <1>2, <1>5 DEF Ready
  <2>2. Same(rows'[g][i], rows[g][i]) /\ i \in Positions
    BY <1>6 DEF RowsStay
  <2> QED  BY <1>3, <1>8, <2>1, <2>2 DEF Same
<1>15. \A i \in Todo(u) :
           \/ i > idx'[u] /\ rows'[g][i].status = "undone"
           \/ i <= idx'[u] /\ Matches(g, i, snap[u].rows[i])
  <2>1. ASSUME NEW i \in Todo(u)
        PROVE  \/ i > idx'[u] /\ rows'[g][i].status = "undone"
               \/ i <= idx'[u] /\ Matches(g, i, snap[u].rows[i])
    <3>1. i \in Nat /\ i \in 1..Len(Ops[g]) /\ i \in Positions
      BY <1>1, <1>2, TodoFits
    <3>2. CASE i >= idx[u]
      BY <1>1, <1>3, <1>7, <1>8, <1>9, <3>1, <3>2
    <3>3. CASE i < idx[u]
      <4>1. Matches(g, i, snap[u].rows[i])
        BY <1>1, <1>2, <3>1, <3>3 DEF MatchTells
      <4> QED  BY <1>1, <1>3, <3>1, <3>3, <4>1
    <3> QED  BY <1>1, <3>1, <3>2, <3>3
  <2> QED  BY <2>1
<1>16. \A i \in Todo(u)' :
           \/ i > idx'[u] /\ rows'[target'[u]][i].status = "undone"
           \/ i <= idx'[u] /\ Matches(target[u], i, snap[u].rows[i])'
  BY <1>2, <1>3, <1>13, <1>15 DEF Matches, Resource
<1>17. \A i \in Todo(u)' : \A k \in 1..Len(Ops[target'[u]]) : k < i => k \in Todo(u)'
  BY <1>2, <1>5, <1>13 DEF Ready
<1> QED
  BY <1>2, <1>3, <1>8, <1>10, <1>11, <1>12, <1>13, <1>14, <1>16, <1>17
     DEF MatchTells, UndoneUpwards

\* A step of Undo, for itself and for the other requests.
LEMMA UndoKeepsMatch ==
    ASSUME OnlyRoutersFail, MatchInv, TypeInv', NEW u \in Undos, UndoStep(u)
    PROVE  MatchOK'
<1>1. /\ TypeInv /\ IdsOK /\ FitsOK /\ LockInv /\ PromiseInv /\ u \in Procs /\ UndoTells(u)
      /\ \A e \in Executes : e \in Procs /\ e # u
      /\ \A v \in Undos : v \in Procs
  BY ProcsAssumption
     DEF MatchInv, MatchOK, LockInv, PromiseInv, PromiseOK, Procs
<1>2. UndoDoes(u)
  BY <1>1, UndoStepDoes
<1>3. /\ \A f \in Executes : pc'[f] = pc[f] /\ idx'[f] = idx[f]
      /\ \A v \in Undos \ {u} :
            /\ pc'[v] = pc[v] /\ idx'[v] = idx[v]
            /\ target'[v] = target[v] /\ snap'[v] = snap[v]
      /\ \A f \in Executes : groupStatus'[f] = "applied" => groupStatus[f] = "applied"
      /\ \A f \in Executes : pc[f] # "done" => rows'[f] = rows[f]
  BY <1>1, <1>2, UndoTouches
<1>4. WritesOwn(u)
  BY <1>1, UndoWrites
<1>5. /\ IdsOK' /\ RoutersGrow
      /\ \A q \in Procs \ {u} : Critical(q) => \A r \in Needs(q) : config'[r] = config[r]
  BY <1>1, <1>4, OwnWrites
<1>6. RowsStay
  BY <1>1, UndoRowsStay
<1>7. /\ MatchTells(u)'
      /\ \A g \in Executes : UndoneUpwards(g) => UndoneUpwards(g)'
      /\ \A g \in Executes, i \in Positions :
            rows[g][i].status = "undone" => rows'[g][i].status = "undone"
  <2>1. CASE UndoMark(u)
    BY <1>5, <1>6, <2>1, MarkMatches
  <2>2. CASE ~UndoMark(u)
    <3>1. UNCHANGED rows
      BY <2>2 DEF UndoStep, UndoReadGroup, UndoReadOps, AcquireNext, AllLocked, UndoClients,
         UndoMatch, UndoReverse, UndoAttention, UndoFinish, dbVars
    <3>2. MatchTells(u)'
      BY <1>5, <1>6, <2>2, ReadsMatch, PhaseOneMatches, ReverseMatches DEF UndoStep
    <3> QED  BY <3>1, <3>2 DEF UndoneUpwards
  <2> QED  BY <2>1, <2>2
<1>8. ASSUME NEW e \in Executes PROVE WorkTells(e)'
  <2>1. /\ e \in Procs /\ e # u /\ pc'[e] = pc[e] /\ idx'[e] = idx[e] /\ draft'[e] = draft[e]
    BY <1>1, <1>3, DraftsOfOthersStay
  <2>2. Critical(e) => rows'[e] = rows[e] /\ \A r \in Needs(e) : config'[r] = config[r]
    BY <1>3, <1>5, <2>1 DEF Critical
  <2> QED  BY <1>3, <1>5, <1>6, <1>7, <2>1, <2>2, OthersWork
<1>9. ASSUME NEW v \in Undos \ {u} PROVE MatchTells(v)'
  <2>1. /\ v \in Procs /\ pc'[v] = pc[v] /\ idx'[v] = idx[v]
        /\ target'[v] = target[v] /\ snap'[v] = snap[v]
    BY <1>1, <1>3
  <2>2. Critical(v) => \A r \in Needs(v) : config'[r] = config[r]
    BY <1>5, <2>1
  <2>3. target[v] \in Executes =>
            /\ UndoneUpwards(target[v]) => UndoneUpwards(target[v])'
            /\ \A i \in Positions : rows[target[v]][i].status = "undone" =>
                  rows'[target[v]][i].status = "undone"
    <3>1. ASSUME NEW g \in Executes, g = target[v]
          PROVE  /\ UndoneUpwards(target[v]) => UndoneUpwards(target[v])'
                 /\ \A i \in Positions : rows[target[v]][i].status = "undone" =>
                       rows'[target[v]][i].status = "undone"
      BY <1>7, <2>1, <3>1 DEF UndoneUpwards
    <3> QED  BY <3>1
  <2> QED  BY <1>5, <1>6, <2>1, <2>2, <2>3, OthersMatch
<1> QED  BY <1>5, <1>7, <1>8, <1>9 DEF MatchOK

\* While only routers fail every step is one of a request.
LEMMA OnlyRequestsStep ==
    ASSUME OnlyRoutersFail, [Next]_vars
    PROVE  \/ \E e \in Executes : ExecuteStep(e)
           \/ \E u \in Undos : UndoStep(u)
           \/ UNCHANGED vars
BY DEF OnlyRoutersFail, Next, ClientDisconnects, Crash, ExternalEdit, Quiescent, Inject

\* A state that does not change.
LEMMA StutterKeepsMatch ==
    ASSUME MatchOK, UNCHANGED vars
    PROVE  MatchOK'
<1>1. UNCHANGED <<config, nextId, groupStatus, rows, pc, idx, draft, target, snap>>
  BY DEF vars, routerVars, dbVars, execVars, undoVars
<1>2. IdsOK'
  BY <1>1 DEF MatchOK, IdsOK
<1>3. ASSUME NEW e \in Executes PROVE WorkTells(e)'
  BY <1>1 DEF MatchOK, WorkTells, RowsTell, UndoneUpwards, Left, Again, Chain, SameRes
<1>4. ASSUME NEW u \in Undos PROVE MatchTells(u)'
  <2>1. MatchTells(u) /\ Todo(u)' = Todo(u)
    BY <1>1 DEF MatchOK, Todo
  <2>2. (RowsTell(target[u], Len(Ops[target[u]]) + 1))'
            <=> RowsTell(target[u], Len(Ops[target[u]]) + 1)
    BY <1>1 DEF RowsTell, SameRes, Chain
  <2>3. UndoneUpwards(target[u])' <=> UndoneUpwards(target[u])
    BY <1>1 DEF UndoneUpwards
  <2> QED  BY <1>1, <2>1, <2>2, <2>3 DEF MatchTells, Same, Matches, Resource, Started
<1> QED  BY <1>2, <1>3, <1>4 DEF MatchOK

\* Every step keeps what the rows tell.
LEMMA NextKeepsMatch ==
    ASSUME OnlyRoutersFail, MatchInv, [Next]_vars
    PROVE  MatchInv'
<1>1. PromiseInv' /\ LockInv'
  BY NextKeepsPromise, NextLockInv DEF MatchInv
<1>2. TypeInv'
  BY <1>1 DEF LockInv
<1>3. MatchOK'
  BY <1>2, OnlyRequestsStep, ExecuteKeepsMatch, UndoKeepsMatch, StutterKeepsMatch DEF MatchInv
<1> QED  BY <1>1, <1>3 DEF MatchInv

\* At the start nobody works and nothing is logged.
LEMMA InitMatch == Init => MatchInv
<1> SUFFICES ASSUME Init PROVE MatchInv
  OBVIOUS
<1>1. PromiseInv /\ LockInv
  BY InitPromise, InitLockInv
<1>2. IdsOK
  BY IdsAssumption DEF Init, IdsOK
<1>3. \A p \in Procs : pc[p] = "idle"
  BY DEF Init
<1>4. \A e \in Executes : WorkTells(e)
  BY <1>3 DEF WorkTells, Working, Procs
<1>5. \A u \in Undos : MatchTells(u)
  BY <1>3 DEF MatchTells, Started, Procs
<1> QED  BY <1>1, <1>2, <1>4, <1>5 DEF MatchInv, MatchOK

\* Undo never writes over a state that is not the one its log has
\* (checkStrictMatch), although it checks all operations before it reverses
\* the first one and changes a resource again and again when its group did:
\* while only routers fail, and every write goes through the service.
THEOREM ReversalsMatch == OnlyRoutersFail => (Spec => ReverseOnlyMatching)
<1> SUFFICES ASSUME OnlyRoutersFail PROVE Spec => ReverseOnlyMatching
  OBVIOUS
<1>1. MatchInv /\ [Next]_vars => MatchInv'
  BY NextKeepsMatch
<1>2. MatchInv /\ [Next]_vars =>
          [\A u \in Undos :
              (pc[u] = "reverse" /\ pc'[u] = "mark") =>
                  Matches(target[u], idx'[u], snap[u].rows[idx'[u]])]_vars
  <2> SUFFICES ASSUME MatchInv, [Next]_vars, NEW u \in Undos, pc[u] = "reverse", pc'[u] = "mark"
               PROVE  Matches(target[u], idx'[u], snap[u].rows[idx'[u]])
    OBVIOUS
  <2>1. /\ u \in Procs /\ ControlTypeOK /\ TypeInv /\ TypeInv' /\ IdsOK /\ LockInv /\ FitsOK
        /\ \A e \in Executes : e \in Procs /\ e # u
        /\ \A v \in Undos : v \in Procs
    BY <1>1, ProcsAssumption DEF MatchInv, MatchOK, LockInv, TypeInv, TypeOK, Procs
  <2>2. \A e \in Executes : ExecuteStep(e) => pc'[u] = pc[u]
    BY <2>1, ExecuteMovesOne DEF OthersStay
  <2>3. \A v \in Undos \ {u} : UndoStep(v) => pc'[u] = pc[u]
    BY <2>1, UndoMovesOne DEF OthersStay
  <2>4. UndoStep(u)
    <3>1. ~UNCHANGED vars
      BY DEF vars
    <3> QED  BY <2>2, <2>3, <3>1, OnlyRequestsStep
  <2>5. UndoReverse(u)
    BY <2>1, <2>4, ReturnMovesOne
       DEF UndoStep, UndoReadGroup, UndoReadOps, AcquireNext, AllLocked, UndoClients, UndoMatch,
           UndoMark, UndoAttention, UndoFinish
  <2>6. RowsStay /\ WritesOwn(u)
    BY <2>1, <2>4, UndoRowsStay, UndoWrites
  <2>7. RoutersGrow
    BY <2>1, <2>6, OwnWrites
  <2> QED  BY <2>1, <2>5, <2>6, <2>7, ReverseMatches
<1> QED  BY InitMatch, <1>1, <1>2, PTL DEF Spec, ReverseOnlyMatching


-----------------------------------------------------------------------------
(* What reversals restore. A request has its routers for itself, so what   *)
(* it reversed stays reversed until it answers, and going from the last    *)
(* operation to the first leaves every resource in the state before its    *)
(* first change. This holds whatever fails, of groups that only change     *)
(* what was there before them, and only fields it has: a PATCH with an old *)
(* state does not remove a field.                                          *)

SetFields(s) == {f \in Fields : s[f] # Unset}

NothingElseWrites == "edit" \notin FaultKinds
ChangesWhatIsThere ==
    \A e \in Executes : \A i \in 1..Len(Ops[e]) :
        LET old == Existing[On(e, i)][OpAt(e, i).id] IN
        Type(e, i) # "add" =>
            /\ OpAt(e, i).id < FirstId[On(e, i)]
            /\ Type(e, i) = "modify" /\ old # Absent =>
                  SetFields(OpAt(e, i).body) \subseteq SetFields(old)
Restorable == NothingElseWrites /\ ChangesWhatIsThere

\* State s has the fields that resource id of router r had at the start.
Alike(r, id, s) ==
    Existing[r][id] # Absent /\ SetFields(s) = SetFields(Existing[r][id])

RoutersTell ==
    /\ IdsOK
    /\ \A r \in Routers : FirstId[r] <= nextId[r]
    /\ \A r \in Routers, id \in Ids :
          id < FirstId[r] /\ config[r][id] # Absent => Alike(r, id, config[r][id])

\* The draft or row d is about the resource of operation i of group g.
Describes(d, g, i) ==
    /\ d.id \in Ids /\ d.id < nextId[On(g, i)]
    /\ Type(g, i) = "add" => d.id >= FirstId[On(g, i)]
    /\ Type(g, i) # "add" => d.id = OpAt(g, i).id /\ Alike(On(g, i), d.id, d.before)

\* Rows t of group g say that operation i is in force.
Applied(t, i) == t[i] # NoRow /\ t[i].status = "applied"
TableTells(t, g) == \A i \in Positions : Applied(t, i) => Describes(t[i], g, i)

\* With the resources c and the next IDs n, operation i of group g is taken
\* back, and nothing that is still to be reversed touches its resource.
BackIn(c, n, t, g, i) ==
    LET r == On(g, i)
        id == t[i].id
    IN
    /\ Type(g, i) = "add" => id \in Ids /\ id < n[r] /\ c[r][id] = Absent
    /\ Type(g, i) = "modify" => id = OpAt(g, i).id /\ c[r][id] = t[i].before
    /\ Type(g, i) = "delete" =>
          \E x \in Ids :
              /\ x < n[r] /\ c[r][x] = t[i].before
              /\ \A k \in Positions : Applied(t, k) /\ On(g, k) = r => t[k].id # x
Back(t, g, i) == BackIn(config, nextId, t, g, i)

\* What request e knows: of the operation it works on, of the ones it may
\* still have to roll back, and of the ones it did roll back.
DraftTells(e) ==
    /\ pc[e] \in {"before", "apply"} => draft[e].id = OpAt(e, idx[e]).id
    /\ \/ pc[e] = "apply" /\ Type(e, idx[e]) # "add"
       \/ pc[e] \in {"after", "insert"}
       => Describes(draft[e], e, idx[e])
LogTells(e) ==
    \A i \in 1..Len(Ops[e]) :
        \/ pc[e] \in {"before", "apply", "after", "insert", "recordFailure"} /\ i < idx[e]
        \/ pc[e] \in RollingBack /\ i <= idx[e]
        => Applied(rows[e], i)
RollbackTells(e) ==
    /\ pc[e] = "markFailed" => ~rolledBack[e]
    /\ pc[e] \in RollingBack /\ rolledBack[e] =>
          \A i \in Positions :
              /\ i > idx[e] \/ (i = idx[e] /\ pc[e] = "markUndone")
              /\ rows[e][i] # NoRow /\ rows[e][i].status # "failed" /\ FirstOn(e, i)
              => Back(rows[e], e, i)

\* And what Undo u knows.
ReverseTells(u) ==
    /\ Started(u) => TableTells(snap[u].rows, target[u])
    /\ pc[u] \in {"reverse", "mark"} =>
          \A i \in Todo(u) :
              /\ i > idx[u] \/ (i = idx[u] /\ pc[u] = "mark")
              /\ FirstOn(target[u], i)
              => Back(snap[u].rows, target[u], i)

ExecuteTells(e) ==
    TableTells(rows[e], e) /\ DraftTells(e) /\ LogTells(e) /\ RollbackTells(e)
RestoreOK ==
    /\ RoutersTell
    /\ \A e \in Executes : ExecuteTells(e)
    /\ \A u \in Undos : ReverseTells(u)
RestoreInv == BooksInv /\ LockInv /\ RestoreOK

-----------------------------------------------------------------------------
(* The reversal of one operation.                                          *)

\* What was taken back stays so while its router is left alone, and while the
\* rows only change their status, away from applied.
LEMMA BackStays ==
    ASSUME NEW g \in Executes, NEW i \in 1..Len(Ops[g]), NEW c, NEW n, NEW d, NEW m, NEW s, NEW t,
           On(g, i) \in Routers, d[On(g, i)] = c[On(g, i)],
           n[On(g, i)] \in Nat, m[On(g, i)] \in Nat, n[On(g, i)] <= m[On(g, i)],
           t[i].id = s[i].id, t[i].before = s[i].before,
           \A k \in Positions : Applied(t, k) => Applied(s, k) /\ t[k].id = s[k].id,
           BackIn(c, n, s, g, i)
    PROVE  BackIn(d, m, t, g, i)
<1> DEFINE r == On(g, i)
<1>1. \A x \in Ids : x \in Nat /\ (x < n[r] => x < m[r])
  BY IdsAssumption
<1>2. CASE Type(g, i) = "add"
  BY <1>1, <1>2 DEF BackIn
<1>3. CASE Type(g, i) = "modify"
  BY <1>3 DEF BackIn
<1>4. CASE Type(g, i) = "delete"
  <2>1. PICK x \in Ids :
            /\ x < n[r] /\ c[r][x] = s[i].before
            /\ \A k \in Positions : Applied(s, k) /\ On(g, k) = r => s[k].id # x
    BY <1>4 DEF BackIn
  <2>2. /\ x < m[r] /\ d[r][x] = t[i].before
        /\ \A k \in Positions : Applied(t, k) /\ On(g, k) = r => t[k].id # x
    BY <1>1, <2>1
  <2> QED  BY <1>4, <2>2 DEF BackIn
<1>5. Type(g, i) \in {"add", "modify", "delete"}
  BY OpAtType DEF Operation, Type
<1> QED  BY <1>2, <1>3, <1>4, <1>5

\* A PATCH with a state that has the fields of the resource sets it to it.
LEMMA MergeAlike ==
    ASSUME NEW now \in State, NEW old \in State, SetFields(now) = SetFields(old)
    PROVE  Merge(now, old) = old
<1>1. \A f \in Fields : old[f] = Unset => now[f] = Unset
  BY DEF SetFields
<1>2. \A f \in Fields : (IF old[f] = Unset THEN now[f] ELSE old[f]) = old[f]
  BY <1>1
<1>3. old = [f \in Fields |-> old[f]]
  BY DEF State
<1> QED  BY <1>2, <1>3 DEF Merge

\* And a PATCH that sets only fields the resource has adds none.
LEMMA MergeKeepsFields ==
    ASSUME NEW now \in State, NEW body \in State, SetFields(body) \subseteq SetFields(now)
    PROVE  SetFields(Merge(now, body)) = SetFields(now)
BY DEF SetFields, Merge, State

\* The reversal of an operation takes it back.
LEMMA ReversalBrings ==
    ASSUME ChangesWhatIsThere, RouterTypeOK, RoutersTell,
           NEW g \in Executes, NEW k \in 1..Len(Ops[g]), k \in Positions, NEW t, t[k] \in Row,
           TableTells(t, g), Applied(t, k), CarryReverse(g, k, t[k])
    PROVE  BackIn(config', nextId', t, g, k)
<1> DEFINE r == On(g, k)
           id == t[k].id
<1>1. /\ r \in Routers /\ Type(g, k) \in {"add", "modify", "delete"} /\ nextId[r] \in Nat
      /\ \A x \in Ids : x \in Nat
      /\ t[k].before \in State
  BY OpAtType, IdsAssumption DEF Operation, On, Type, RouterTypeOK, Row
<1>2. Describes(t[k], g, k)
  BY DEF TableTells
<1>3. CASE Type(g, k) = "add"
  <2>1. DeleteResource(r, id)
    BY <1>3 DEF CarryReverse, On, Type
  <2>2. nextId' = nextId /\ config'[r][id] = Absent
    BY <1>1, <1>2, <2>1, DeleteRemoves DEF Describes
  <2> QED  BY <1>2, <1>3, <2>2 DEF BackIn, Describes
<1>4. CASE Type(g, k) = "modify"
  <2>1. PatchResource(r, id, t[k].before)
    BY <1>4 DEF CarryReverse, On, Type
  <2>2. /\ id = OpAt(g, k).id /\ id \in Ids /\ Alike(r, id, t[k].before)
    BY <1>2, <1>4 DEF Describes
  <2>3. config[r][id] # Absent /\ config'[r][id] = Merge(config[r][id], t[k].before)
    BY <1>1, <2>1, <2>2, PatchSets
  <2>4. config[r][id] \in State
    BY <1>1, <2>2, <2>3 DEF RouterTypeOK
  <2>5. id < FirstId[r]
    BY <1>4, <2>2 DEF ChangesWhatIsThere
  <2>6. SetFields(config[r][id]) = SetFields(t[k].before)
    BY <1>1, <2>2, <2>3, <2>5 DEF RoutersTell, Alike
  <2>7. config'[r][id] = t[k].before
    BY <1>1, <2>3, <2>4, <2>6, MergeAlike
  <2> QED  BY <1>4, <2>2, <2>7 DEF BackIn
<1>5. CASE Type(g, k) = "delete"
  <2>1. CreateResource(r, t[k].before)
    BY <1>5 DEF CarryReverse, On, Type
  <2>2. /\ nextId[r] \in Ids /\ nextId'[r] = nextId[r] + 1
        /\ config'[r][nextId[r]] = t[k].before
    BY <1>1, <2>1, CreateMakes
  <2>3. ASSUME NEW j \in Positions, Applied(t, j), On(g, j) = r PROVE t[j].id # nextId[r]
    <3>1. t[j].id \in Ids /\ t[j].id < nextId[r]
      BY <2>3 DEF TableTells, Describes
    <3> QED  BY <1>1, <3>1
  <2>4. nextId[r] < nextId'[r]
    BY <1>1, <2>2
  <2> QED  BY <1>5, <2>2, <2>3, <2>4 DEF BackIn
<1> QED  BY <1>1, <1>3, <1>4, <1>5

\* It touches no resource of a later operation that was taken back already,
\* when that one was the first of its group on its resource.
LEMMA ReversalKeeps ==
    ASSUME ChangesWhatIsThere, RouterTypeOK, RoutersTell,
           NEW g \in Executes, NEW k \in 1..Len(Ops[g]), k \in Positions,
           NEW i \in 1..Len(Ops[g]), k < i, FirstOn(g, i),
           NEW t, TableTells(t, g), Applied(t, k), CarryReverse(g, k, t[k]),
           BackIn(config, nextId, t, g, i)
    PROVE  BackIn(config', nextId', t, g, i)
<1> DEFINE r == On(g, k)
           id == t[k].id
<1>1. /\ r \in Routers /\ On(g, i) \in Routers
      /\ Type(g, k) \in {"add", "modify", "delete"} /\ Type(g, i) \in {"add", "modify", "delete"}
      /\ OpAt(g, i).id \in Ids /\ OpAt(g, k).id \in Ids
      /\ nextId[r] \in Nat /\ FirstId[r] \in Nat /\ FirstId[r] <= nextId[r]
      /\ k \in Nat /\ i \in Nat /\ k \in 1..(i - 1)
      /\ \A x \in Ids : x \in Nat
  BY OpAtType, IdsAssumption, OpsAssumption DEF Operation, On, Type, RouterTypeOK, RoutersTell
<1>2. /\ id \in Ids /\ id < nextId[r]
      /\ Type(g, k) = "add" => id >= FirstId[r]
      /\ Type(g, k) # "add" => id = OpAt(g, k).id
  BY DEF TableTells, Describes
\* One resource is written: that of operation k, or one with a new ID.
<1>3. PICK w :
          /\ Only(r, w) /\ nextId'[r] \in Nat /\ nextId'[r] >= nextId[r]
          /\ \/ w = id /\ (config'[r][w] = Absent \/ config[r][w] # Absent)
             \/ w = nextId[r]
  <2>1. CASE Type(g, k) = "add"
    <3>1. DeleteResource(r, id)
      BY <2>1 DEF CarryReverse, On, Type
    <3>2. Only(r, id) /\ nextId' = nextId /\ config'[r][id] = Absent
      BY <1>1, <1>2, <3>1, DeleteRemoves
    <3> QED  BY <1>1, <3>2
  <2>2. CASE Type(g, k) = "modify"
    <3>1. PatchResource(r, id, t[k].before)
      BY <2>2 DEF CarryReverse, On, Type
    <3>2. Only(r, id) /\ nextId' = nextId /\ config[r][id] # Absent
      BY <1>1, <1>2, <3>1, PatchSets
    <3> QED  BY <1>1, <3>2
  <2>3. CASE Type(g, k) = "delete"
    <3>1. CreateResource(r, t[k].before)
      BY <2>3 DEF CarryReverse, On, Type
    <3>2. Only(r, nextId[r]) /\ nextId'[r] = nextId[r] + 1
      BY <1>1, <3>1, CreateMakes
    <3> QED  BY <1>1, <3>2
  <2> QED  BY <1>1, <2>1, <2>2, <2>3
<1>4. CASE On(g, i) # r
  <2>1. config'[On(g, i)] = config[On(g, i)] /\ nextId'[On(g, i)] = nextId[On(g, i)]
    BY <1>1, <1>3, <1>4 DEF Only
  <2> QED  BY <2>1 DEF BackIn
<1>5. CASE On(g, i) = r
  <2>1. \A x \in Ids : x # w => config'[r][x] = config[r][x]
    BY <1>3 DEF Only
  <2>2. CASE Type(g, i) = "add"
    <3>1. t[i].id \in Ids /\ t[i].id < nextId[r] /\ config[r][t[i].id] = Absent
      BY <1>5, <2>2 DEF BackIn
    <3>2. t[i].id < nextId'[r]
      BY <1>1, <1>3, <3>1
    <3>3. CASE t[i].id # w
      BY <1>5, <2>1, <2>2, <3>1, <3>2, <3>3 DEF BackIn
    <3>4. CASE t[i].id = w
      <4>1. w # nextId[r]
        BY <1>1, <3>1, <3>4
      <4>2. config'[r][t[i].id] = Absent
        BY <1>3, <3>1, <3>4, <4>1
      <4> QED  BY <1>5, <2>2, <3>1, <3>2, <4>2 DEF BackIn
    <3> QED  BY <3>3, <3>4
  <2>3. CASE Type(g, i) = "modify"
    <3>1. t[i].id = OpAt(g, i).id /\ config[r][t[i].id] = t[i].before
      BY <1>5, <2>3 DEF BackIn
    <3>2. OpAt(g, i).id < FirstId[r]
      BY <1>5, <2>3 DEF ChangesWhatIsThere
    <3>3. OpAt(g, k).type = "add" \/ OpAt(g, k).id # OpAt(g, i).id
      BY <1>1, <1>5, <2>3 DEF FirstOn, On, Type
    <3>4. t[i].id # id
      <4>1. CASE Type(g, k) = "add"
        BY <1>1, <1>2, <3>1, <3>2, <4>1
      <4>2. CASE Type(g, k) # "add"
        BY <1>2, <3>1, <3>3, <4>2 DEF Type
      <4> QED  BY <4>1, <4>2
    <3>5. t[i].id # nextId[r]
      BY <1>1, <3>1, <3>2
    <3>6. config'[r][t[i].id] = config[r][t[i].id]
      BY <1>1, <1>3, <2>1, <3>1, <3>4, <3>5
    <3> QED  BY <1>5, <2>3, <3>1, <3>6 DEF BackIn
  <2>4. CASE Type(g, i) = "delete"
    <3>1. PICK x \in Ids :
              /\ x < nextId[r] /\ config[r][x] = t[i].before
              /\ \A j \in Positions : Applied(t, j) /\ On(g, j) = r => t[j].id # x
      BY <1>5, <2>4 DEF BackIn
    <3>2. x # id /\ x # nextId[r] /\ x < nextId'[r]
      <4>1. x # id
        BY <3>1
      <4>2. x # nextId[r]
        BY <1>1, <3>1
      <4>3. x < nextId'[r]
        BY <1>1, <1>3, <3>1
      <4> QED  BY <4>1, <4>2, <4>3
    <3>3. config'[r][x] = t[i].before
      BY <1>3, <2>1, <3>1, <3>2
    <3> QED  BY <1>5, <2>4, <3>1, <3>2, <3>3 DEF BackIn
  <2> QED  BY <1>1, <2>2, <2>3, <2>4
<1> QED  BY <1>4, <1>5

\* Operations and reversals leave the resources that were there at the start
\* with the fields they had.
LEMMA CallsTell ==
    ASSUME ChangesWhatIsThere, RouterTypeOK, RoutersTell,
           NEW g \in Executes, NEW k \in 1..Len(Ops[g]), NEW d \in Row,
           Carry(g, k) \/ (CarryReverse(g, k, d) /\ Describes(d, g, k))
    PROVE  RoutersTell'
<1> DEFINE r == On(g, k)
           op == OpAt(g, k)
<1>1. /\ r \in Routers /\ Type(g, k) \in {"add", "modify", "delete"}
      /\ op.id \in Ids /\ op.body \in State /\ d.before \in State
      /\ nextId[r] \in Nat /\ FirstId[r] \in Nat /\ FirstId[r] <= nextId[r] /\ IdsOK
      /\ \A x \in Ids : x \in Nat
  BY OpAtType, IdsAssumption DEF Operation, On, Type, RouterTypeOK, RoutersTell, Row
<1>2. Wrote(r) /\ nextId'[r] \in Nat
  <2>1. Wrote(r)
    BY <1>1, CarryWrites
  <2>2. nextId' = nextId \/ nextId'[r] = nextId[r] + 1
    BY <1>1, CreateMakes, PatchSets, DeleteRemoves DEF Carry, CarryReverse, On
  <2> QED  BY <1>1, <2>1, <2>2
<1>3. IdsOK' /\ \A s \in Routers : FirstId[s] <= nextId'[s]
  <2>1. IdsOK'
    BY <1>1, <1>2 DEF Wrote, IdsOK
  <2>2. ASSUME NEW s \in Routers PROVE FirstId[s] <= nextId'[s]
    <3>1. CASE s = r
      BY <1>1, <1>2, <3>1 DEF Wrote
    <3>2. CASE s # r
      BY <1>2, <3>2 DEF Wrote, RoutersTell
    <3> QED  BY <3>1, <3>2
  <2> QED  BY <2>1, <2>2
\* Only a PATCH puts a state where one was before.
<1>4. ASSUME NEW x \in Ids, x < FirstId[r], config'[r][x] # Absent
      PROVE  Alike(r, x, config'[r][x])
  <2>1. CASE config'[r][x] = config[r][x]
    BY <1>1, <1>4, <2>1 DEF RoutersTell
  <2>2. CASE config'[r][x] # config[r][x]
    <3>1. x # nextId[r]
      BY <1>1, <1>4
    <3>2. ~ \E s : CreateResource(r, s)
      BY <1>1, <2>2, <3>1, CreateMakes DEF Only
    <3>3. ~ \E y : DeleteResource(r, y)
      BY <1>1, <1>4, <2>2, DeleteRemoves DEF Only
    <3>4. CASE Carry(g, k)
      <4>1. Type(g, k) = "modify" /\ PatchResource(r, op.id, op.body)
        BY <3>2, <3>3, <3>4 DEF Carry, On, Type
      <4>2. x = op.id /\ config[r][x] # Absent /\ config'[r][x] = Merge(config[r][x], op.body)
        BY <1>1, <2>2, <4>1, PatchSets DEF Only
      <4>3. config[r][x] \in State /\ Alike(r, x, config[r][x])
        BY <1>1, <1>4, <4>2 DEF RouterTypeOK, RoutersTell
      <4>4. SetFields(op.body) \subseteq SetFields(config[r][x])
        BY <4>1, <4>2, <4>3 DEF ChangesWhatIsThere, Alike
      <4>5. SetFields(config'[r][x]) = SetFields(config[r][x])
        BY <1>1, <4>2, <4>3, <4>4, MergeKeepsFields
      <4> QED  BY <4>3, <4>5 DEF Alike
    <3>5. CASE CarryReverse(g, k, d) /\ Describes(d, g, k)
      <4>1. Type(g, k) = "modify" /\ PatchResource(r, d.id, d.before)
        BY <3>2, <3>3, <3>5 DEF CarryReverse, On, Type
      <4>2. d.id \in Ids /\ Alike(r, d.id, d.before)
        BY <3>5, <4>1 DEF Describes
      <4>3. x = d.id /\ config[r][x] # Absent /\ config'[r][x] = Merge(config[r][x], d.before)
        BY <1>1, <2>2, <4>1, <4>2, PatchSets DEF Only
      <4>4. config[r][x] \in State /\ Alike(r, x, config[r][x])
        BY <1>1, <1>4, <4>3 DEF RouterTypeOK, RoutersTell
      <4>5. config'[r][x] = d.before
        BY <1>1, <4>2, <4>3, <4>4, MergeAlike DEF Alike
      <4> QED  BY <4>2, <4>3, <4>5
    <3> QED  BY <3>4, <3>5
  <2> QED  BY <2>1, <2>2
<1>5. \A s \in Routers, x \in Ids :
          x < FirstId[s] /\ config'[s][x] # Absent => Alike(s, x, config'[s][x])
  <2>1. \A s \in Routers : s # r => config'[s] = config[s]
    BY <1>2 DEF Wrote
  <2> QED  BY <1>4, <2>1 DEF RoutersTell
<1> QED  BY <1>3, <1>5 DEF RoutersTell, Alike

\* A step that leaves the routers alone.
LEMMA RoutersTellStays ==
    ASSUME RoutersTell, UNCHANGED <<config, nextId>>
    PROVE  RoutersTell'
BY DEF RoutersTell, IdsOK, Alike

\* The row that request e rolls back.
LEMMA RollbackRow ==
    ASSUME RestoreInv, NEW e \in Executes, RollbackOne(e)
    PROVE  /\ idx[e] \in 1..Len(Ops[e]) /\ idx[e] \in Positions /\ idx[e] \in Nat
           /\ Applied(rows[e], idx[e]) /\ rows[e][idx[e]] \in Row
           /\ Describes(rows[e][idx[e]], e, idx[e])
<1>1. /\ TypeInv /\ LogTells(e) /\ TableTells(rows[e], e) /\ pc[e] = "rollback" /\ idx[e] > 0
  BY DEF RestoreInv, LockInv, RestoreOK, ExecuteTells, RollbackOne
<1>2. idx[e] \in 1..Len(Ops[e]) /\ idx[e] \in Positions /\ idx[e] \in Nat
  BY <1>1, LoopPosition
<1>3. Applied(rows[e], idx[e])
  BY <1>1, <1>2 DEF LogTells, RollingBack
<1> QED  BY <1>1, <1>2, <1>3 DEF TableTells, Applied, TypeInv, TypeOK, DbTypeOK

\* The rows that Undo u reverses.
LEMMA UndoRow ==
    ASSUME RestoreInv, NEW u \in Undos, Started(u), NEW i \in Todo(u)
    PROVE  /\ target[u] \in Executes /\ i \in 1..Len(Ops[target[u]]) /\ i \in Positions
           /\ i \in Nat /\ On(target[u], i) \in Routers /\ On(target[u], i) \in Needs(u)
           /\ Applied(snap[u].rows, i) /\ snap[u].rows[i] \in Row
           /\ Describes(snap[u].rows[i], target[u], i)
<1>1. /\ TypeInv /\ FitsOK /\ TableTells(snap[u].rows, target[u])
  BY DEF RestoreInv, LockInv, RestoreOK, ReverseTells
<1>2. Applied(snap[u].rows, i) /\ i \in Positions
  BY DEF Todo, Applied
<1> QED  BY <1>1, <1>2, TodoFits DEF TableTells

\* What the steps of Execute do to the routers.
LEMMA ExecuteRouters ==
    ASSUME ChangesWhatIsThere, RestoreInv, NEW e \in Executes, ExecuteStep(e)
    PROVE  RoutersTell'
<1>1. TypeInv /\ RouterTypeOK /\ RoutersTell
  BY DEF RestoreInv, LockInv, RestoreOK, TypeInv, TypeOK
<1>2. CASE RollbackOne(e)
  <2>1. UNCHANGED <<config, nextId>> \/ CarryReverse(e, idx[e], rows[e][idx[e]])
    BY <1>2 DEF RollbackOne, routerVars
  <2> QED  BY <1>1, <1>2, <2>1, RollbackRow, CallsTell, RoutersTellStays
<1>3. CASE ApplyOperation(e)
  <2>1. UNCHANGED <<config, nextId>> \/ Carry(e, idx[e])
    BY <1>3 DEF ApplyOperation, routerVars
  <2>2. idx[e] \in 1..Len(Ops[e])
    BY <1>1, <1>3, LoopPosition DEF ApplyOperation
  <2>3. \E d : d \in Row
    <3>1. OpAt(e, idx[e]).body \in State
      BY <2>2, OpAtType DEF Operation
    <3>2. [status |-> "failed", id |-> 0, before |-> OpAt(e, idx[e]).body, after |-> BodyOnly] \in Row
      BY <3>1 DEF Row, OpStatus
    <3> QED  BY <3>2
  <2> QED  BY <1>1, <2>1, <2>2, <2>3, CallsTell, RoutersTellStays
<1>4. CASE ~(ApplyOperation(e) \/ RollbackOne(e))
  <2>1. UNCHANGED <<config, nextId>>
    BY <1>4 DEF ExecuteStep, ExecuteStart, AcquireNext, AllLocked, CreateGroup,
       GetClients, Abandon, FetchBefore, FetchAfter, InsertOperation, Succeed,
       RecordFailure, RollbackMark, RollbackGroup, RespondFailure, routerVars
  <2> QED  BY <1>1, <2>1, RoutersTellStays
<1> QED  BY <1>2, <1>3, <1>4

\* What the steps of Undo do to them.
LEMMA UndoRouters ==
    ASSUME ChangesWhatIsThere, RestoreInv, NEW u \in Undos, UndoStep(u)
    PROVE  RoutersTell'
<1>1. TypeInv /\ RouterTypeOK /\ RoutersTell
  BY DEF RestoreInv, LockInv, RestoreOK, TypeInv, TypeOK
<1>2. CASE UndoReverse(u)
  <2>1. PICK i \in Positions :
            /\ NextTodo(u, i)
            /\ \/ CarryReverse(target[u], i, snap[u].rows[i])
               \/ UNCHANGED routerVars
    BY <1>2 DEF UndoReverse
  <2>2. i \in Todo(u) /\ Started(u)
    BY <1>2, <2>1 DEF NextTodo, UndoReverse, Started
  <2>3. UNCHANGED <<config, nextId>> \/ CarryReverse(target[u], i, snap[u].rows[i])
    BY <2>1 DEF routerVars
  <2> QED  BY <1>1, <2>2, <2>3, UndoRow, CallsTell, RoutersTellStays
<1>3. CASE ~UndoReverse(u)
  <2>1. UNCHANGED <<config, nextId>>
    BY <1>3 DEF UndoStep, UndoReadGroup, UndoReadOps, AcquireNext, AllLocked, UndoClients,
         UndoMatch, UndoMark, UndoAttention, UndoFinish, routerVars
  <2> QED  BY <1>1, <2>1, RoutersTellStays
<1> QED  BY <1>2, <1>3

-----------------------------------------------------------------------------
(* A request that another one's step leaves alone.                         *)

\* What a draft or row is about does not change while IDs grow.
LEMMA DescribesStays ==
    ASSUME TypeInv, TypeInv', RoutersGrow, NEW g \in Executes, NEW i \in 1..Len(Ops[g]), NEW d, NEW b,
           b.id = d.id, b.before = d.before, Describes(d, g, i)
    PROVE  /\ b.id \in Ids /\ b.id < nextId'[On(g, i)]
           /\ Type(g, i) = "add" => b.id >= FirstId[On(g, i)]
           /\ Type(g, i) # "add" => b.id = OpAt(g, i).id /\ Alike(On(g, i), b.id, b.before)
<1>1. /\ On(g, i) \in Routers /\ nextId[On(g, i)] \in Nat /\ nextId'[On(g, i)] \in Nat
      /\ nextId'[On(g, i)] >= nextId[On(g, i)]
      /\ d.id \in Ids /\ d.id \in Nat /\ d.id < nextId[On(g, i)]
  BY OpAtType, IdsAssumption
     DEF Operation, On, TypeInv, TypeOK, RouterTypeOK, RoutersGrow, Describes
<1>2. b.id < nextId'[On(g, i)]
  BY <1>1
<1> QED  BY <1>1, <1>2 DEF Describes

\* The rows of a group, when none of them becomes applied.
LEMMA TableStays ==
    ASSUME TypeInv, TypeInv', FitsOK, RowsStay, RoutersGrow, NEW f \in Executes,
           \A i \in Positions : Applied(rows'[f], i) => Applied(rows[f], i),
           TableTells(rows[f], f)
    PROVE  TableTells(rows[f], f)'
<1> SUFFICES ASSUME NEW i \in Positions, Applied(rows'[f], i)
             PROVE  Describes(rows[f][i], f, i)'
  BY DEF TableTells, Applied
<1>1. Applied(rows[f], i) /\ Describes(rows[f][i], f, i)
  BY DEF TableTells
<1>2. i \in 1..Len(Ops[f])
  BY <1>1, OpsAssumption DEF Applied, FitsOK, RowsFit, Positions
<1>3. Same(rows'[f][i], rows[f][i])
  BY <1>1 DEF Applied, RowsStay
<1> QED  BY <1>1, <1>2, <1>3, DescribesStays DEF Describes, Same, Alike

\* An Execute that another request's step leaves alone.
LEMMA OthersExecuteTell ==
    ASSUME RestoreInv, TypeInv', RowsStay, RoutersGrow, NEW f \in Executes,
           pc'[f] = pc[f], idx'[f] = idx[f], draft'[f] = draft[f], rolledBack'[f] = rolledBack[f],
           \A i \in Positions : Applied(rows'[f], i) => Applied(rows[f], i),
           Critical(f) => rows'[f] = rows[f] /\ \A r \in Needs(f) : config'[r] = config[r]
    PROVE  ExecuteTells(f)'
<1>1. TypeInv /\ FitsOK /\ ExecuteTells(f)
  BY DEF RestoreInv, LockInv, RestoreOK
<1>2. TableTells(rows[f], f)'
  BY <1>1, TableStays DEF ExecuteTells
<1>3. DraftTells(f)'
  <2>1. CASE pc[f] \in {"before", "apply", "after", "insert"}
    <3>1. idx[f] \in 1..Len(Ops[f])
      BY <1>1, <2>1, LoopPosition
    <3>2. Describes(draft[f], f, idx[f]) => Describes(draft[f], f, idx[f])'
      BY <1>1, <3>1, DescribesStays DEF Describes, Alike
    <3> QED  BY <1>1, <3>2 DEF ExecuteTells, DraftTells
  <2>2. CASE pc[f] \notin {"before", "apply", "after", "insert"}
    BY <2>2 DEF DraftTells
  <2> QED  BY <2>1, <2>2
<1>4. LogTells(f)'
  <2>1. CASE Critical(f)
    BY <1>1, <2>1 DEF ExecuteTells, LogTells, Applied
  <2>2. CASE ~Critical(f)
    BY <2>2 DEF Critical, LogTells, RollingBack
  <2> QED  BY <2>1, <2>2
<1>5. RollbackTells(f)'
  <2>1. CASE pc[f] \notin RollingBack
    BY <2>1 DEF RollbackTells, RollingBack
  <2>2. CASE pc[f] \in RollingBack
    <3>1. rows'[f] = rows[f] /\ \A r \in Needs(f) : config'[r] = config[r]
      BY <2>2 DEF RollingBack, Critical
    <3>2. ASSUME NEW i \in Positions, rows[f][i] # NoRow, Back(rows[f], f, i)
          PROVE  BackIn(config', nextId', rows[f], f, i)
      <4>1. i \in 1..Len(Ops[f])
        BY <1>1, <3>2, OpsAssumption DEF FitsOK, RowsFit, Positions
      <4>2. /\ On(f, i) \in Routers /\ On(f, i) \in Needs(f)
            /\ nextId[On(f, i)] \in Nat /\ nextId'[On(f, i)] \in Nat
            /\ nextId[On(f, i)] <= nextId'[On(f, i)]
        BY <1>1, <4>1, OpAtType
           DEF Operation, On, Needs, TypeInv, TypeOK, RouterTypeOK, RoutersGrow
      <4> QED  BY <3>1, <3>2, <4>1, <4>2, BackStays DEF Back
    <3> QED  BY <1>1, <3>1, <3>2 DEF ExecuteTells, RollbackTells, Back
  <2> QED  BY <2>1, <2>2
<1> QED  BY <1>2, <1>3, <1>4, <1>5 DEF ExecuteTells

\* The rows that an Undo read.
LEMMA SnapStays ==
    ASSUME RestoreInv, TypeInv', RoutersGrow, NEW u \in Undos, Started(u),
           target'[u] = target[u], snap'[u] = snap[u]
    PROVE  TableTells(snap[u].rows, target[u])'
<1> SUFFICES ASSUME NEW i \in Positions, Applied(snap[u].rows, i)
             PROVE  Describes(snap[u].rows[i], target[u], i)'
  BY DEF TableTells, Applied
<1>1. TypeInv /\ i \in Todo(u)
  BY DEF RestoreInv, LockInv, Todo, Applied
<1>2. /\ target[u] \in Executes /\ i \in 1..Len(Ops[target[u]])
      /\ Describes(snap[u].rows[i], target[u], i)
  BY <1>1, UndoRow
<1> QED  BY <1>1, <1>2, DescribesStays DEF Describes, Alike, On, Type

\* An Undo that another request's step leaves alone.
LEMMA OthersReverseTell ==
    ASSUME RestoreInv, TypeInv', RoutersGrow, NEW u \in Undos,
           pc'[u] = pc[u], idx'[u] = idx[u], target'[u] = target[u], snap'[u] = snap[u],
           Critical(u) => \A r \in Needs(u) : config'[r] = config[r]
    PROVE  ReverseTells(u)'
<1>1. /\ TypeInv /\ FitsOK /\ ReverseTells(u) /\ Todo(u)' = Todo(u)
  BY DEF RestoreInv, LockInv, RestoreOK, Todo
<1>2. Started(u) => TableTells(snap[u].rows, target[u])'
  BY SnapStays
<1>3. pc[u] \in {"reverse", "mark"} =>
          \A i \in Todo(u) :
              Back(snap[u].rows, target[u], i) => Back(snap[u].rows, target[u], i)'
  <2> SUFFICES ASSUME pc[u] \in {"reverse", "mark"}, NEW i \in Todo(u), Back(snap[u].rows, target[u], i)
               PROVE  BackIn(config', nextId', snap[u].rows, target[u], i)
    BY DEF Back
  <2>1. Started(u) /\ Critical(u)
    BY DEF Started, Critical
  <2>2. /\ target[u] \in Executes /\ i \in 1..Len(Ops[target[u]])
        /\ On(target[u], i) \in Routers /\ On(target[u], i) \in Needs(u)
    BY <2>1, UndoRow
  <2>3. /\ nextId[On(target[u], i)] \in Nat /\ nextId'[On(target[u], i)] \in Nat
        /\ nextId[On(target[u], i)] <= nextId'[On(target[u], i)]
    BY <1>1, <2>2 DEF TypeInv, TypeOK, RouterTypeOK, RoutersGrow
  <2> QED  BY <2>1, <2>2, <2>3, BackStays DEF Back
<1> QED  BY <1>1, <1>2, <1>3 DEF ReverseTells, Started

-----------------------------------------------------------------------------
(* An Execute that takes a step of its own.                                *)

\* Before the loop and after it.
LEMMA EndsTell ==
    ASSUME RestoreInv, TypeInv', RowsStay, RoutersGrow, NEW e \in Executes,
           \/ ExecuteStart(e) \/ AcquireNext(e) \/ AllLocked(e) \/ CreateGroup(e)
           \/ Abandon(e) \/ Succeed(e) \/ RollbackGroup(e) \/ RespondFailure(e)
    PROVE  ExecuteTells(e)'
<1>1. /\ TypeInv /\ FitsOK /\ ExecuteTells(e) /\ ControlTypeOK /\ e \in Procs
  BY DEF RestoreInv, LockInv, RestoreOK, TypeInv, TypeOK, Procs
<1>2. UNCHANGED rows
  BY DEF ExecuteStart, AcquireNext, AllLocked, CreateGroup, Abandon, Succeed, RollbackGroup,
         RespondFailure, dbVars
<1>3. TableTells(rows[e], e)'
  BY <1>1, <1>2, TableStays DEF ExecuteTells
<1>4. pc'[e] \in {"lock", "done", "create", "clients", "respond"}
  BY <1>1, GotoMovesOne, ReturnMovesOne
     DEF ExecuteStart, AcquireNext, AllLocked, CreateGroup, Abandon, Succeed, RollbackGroup,
         RespondFailure
<1> QED  BY <1>3, <1>4 DEF ExecuteTells, DraftTells, LogTells, RollbackTells, RollingBack

\* A new draft has the ID of the operation of the request.
LEMMA EnterTells ==
    ASSUME TypeInv, NEW e \in Executes, NEW i \in Nat, Enter(e, i)
    PROVE  /\ pc'[e] \in {"before", "apply", "succeed"} /\ idx'[e] = i
           /\ pc'[e] # "succeed" => draft'[e].id = OpAt(e, i).id
           /\ pc'[e] = "apply" => Type(e, i) = "add"
<1>1. /\ e \in Procs /\ ControlTypeOK /\ ExecTypeOK /\ idx'[e] = i
  BY DEF TypeInv, TypeOK, Procs, Enter, ControlTypeOK
<1>2. CASE i > Len(Ops[e])
  BY <1>1, <1>2, GotoMovesOne DEF Enter
<1>3. CASE ~(i > Len(Ops[e]))
  <2>1. pc'[e] = IF OpAt(e, i).type = "add" THEN "apply" ELSE "before"
    BY <1>1, <1>3, GotoMovesOne DEF Enter
  <2>2. draft'[e].id = OpAt(e, i).id
    BY <1>1, <1>3 DEF Enter, ExecTypeOK, NewDraft
  <2> QED  BY <1>1, <2>1, <2>2 DEF Type
<1> QED  BY <1>2, <1>3

\* The clients of the routers, and the first position.
LEMMA ClientsTell ==
    ASSUME RestoreInv, TypeInv', RowsStay, RoutersGrow, NEW e \in Executes, GetClients(e)
    PROVE  ExecuteTells(e)'
<1>1. /\ TypeInv /\ FitsOK /\ ExecuteTells(e) /\ ControlTypeOK /\ e \in Procs
  BY DEF RestoreInv, LockInv, RestoreOK, TypeInv, TypeOK, Procs
<1>2. TableTells(rows[e], e)'
  <2>1. UNCHANGED rows
    BY DEF GetClients, dbVars
  <2> QED  BY <1>1, <2>1, TableStays DEF ExecuteTells
<1>3. CASE Enter(e, 1)
  <2>1. /\ pc'[e] \in {"before", "apply", "succeed"} /\ idx'[e] = 1
        /\ pc'[e] # "succeed" => draft'[e].id = OpAt(e, 1).id
        /\ pc'[e] = "apply" => Type(e, 1) = "add"
    BY <1>1, <1>3, EnterTells
  <2> QED  BY <1>2, <2>1 DEF ExecuteTells, DraftTells, LogTells, RollbackTells, RollingBack
<1>4. CASE Goto(e, "abandon")
  <2>1. pc'[e] = "abandon"
    BY <1>1, <1>4, GotoMovesOne
  <2> QED  BY <1>2, <2>1 DEF ExecuteTells, DraftTells, LogTells, RollbackTells, RollingBack
<1> QED  BY <1>3, <1>4 DEF GetClients

\* Both fetches: the before state is one of the resource, which exists, and
\* the after state does not matter.
LEMMA FetchTells ==
    ASSUME ChangesWhatIsThere, RestoreInv, TypeInv', RowsStay, RoutersGrow, NEW e \in Executes,
           FetchBefore(e) \/ FetchAfter(e)
    PROVE  ExecuteTells(e)'
<1>1. /\ TypeInv /\ FitsOK /\ ExecuteTells(e) /\ ControlTypeOK /\ ExecTypeOK /\ RouterTypeOK
      /\ e \in Procs /\ RoutersTell
  BY DEF RestoreInv, LockInv, RestoreOK, TypeInv, TypeOK, Procs
<1>2. UNCHANGED <<rows, idx, config, nextId>>
  BY DEF FetchBefore, FetchAfter, dbVars, routerVars
<1>3. TableTells(rows[e], e)'
  BY <1>1, <1>2, TableStays DEF ExecuteTells
<1>4. idx[e] \in 1..Len(Ops[e])
  BY <1>1, LoopPosition DEF FetchBefore, FetchAfter
<1>5. LogTells(e) /\ pc[e] \in {"before", "after"}
  BY <1>1 DEF ExecuteTells, FetchBefore, FetchAfter
<1>6. CASE Goto(e, "recordFailure")
  <2>1. pc'[e] = "recordFailure"
    BY <1>1, <1>6, GotoMovesOne
  <2> QED
    BY <1>2, <1>3, <1>5, <2>1
       DEF ExecuteTells, DraftTells, LogTells, RollbackTells, RollingBack, Applied
<1>7. CASE /\ FetchBefore(e) /\ Goto(e, "apply") /\ ~NotFound(e, idx[e], OpAt(e, idx[e]).id)
           /\ draft' = [draft EXCEPT ![e].before =
                            Resource(OpAt(e, idx[e]).router, OpAt(e, idx[e]).id)]
  <2> DEFINE r == On(e, idx[e])
             id == OpAt(e, idx[e]).id
  <2>1. /\ pc'[e] = "apply" /\ draft'[e].id = draft[e].id /\ draft'[e].before = config[r][id]
        /\ config[r][id] # Absent
    BY <1>1, <1>7, GotoMovesOne DEF ExecTypeOK, Draft, Resource, NotFound, On
  <2>2. draft[e].id = id
    BY <1>1, <1>7 DEF ExecuteTells, DraftTells, FetchBefore
  <2>3. r \in Routers /\ id \in Ids /\ nextId[r] \in Nat /\ \A x \in Ids : x \in Nat
    BY <1>1, <1>4, OpAtType, IdsAssumption DEF Operation, On, RouterTypeOK
  <2>4. id < nextId[r]
    BY <1>1, <2>1, <2>3 DEF RoutersTell, IdsOK
  <2>5. Type(e, idx[e]) # "add" => Alike(r, id, config[r][id])
    BY <1>1, <1>4, <2>1, <2>3 DEF RoutersTell, ChangesWhatIsThere
  <2>6. Type(e, idx[e]) # "add" => Describes(draft[e], e, idx[e])'
    BY <1>2, <2>1, <2>2, <2>3, <2>4, <2>5 DEF Describes, Alike
  <2>7. DraftTells(e)'
    BY <1>2, <2>1, <2>2, <2>6 DEF DraftTells
  <2> QED
    BY <1>2, <1>3, <1>5, <2>1, <2>7
       DEF ExecuteTells, LogTells, RollbackTells, RollingBack, Applied
<1>8. CASE FetchAfter(e)
  <2>1. /\ pc'[e] = "insert" /\ draft'[e].id = draft[e].id /\ draft'[e].before = draft[e].before
    BY <1>1, <1>8, GotoMovesOne DEF FetchAfter, ExecTypeOK, Draft
  <2>2. Describes(draft[e], e, idx[e])
    BY <1>1, <1>8 DEF ExecuteTells, DraftTells, FetchAfter
  <2>3. Describes(draft[e], e, idx[e])'
    BY <1>2, <2>1, <2>2 DEF Describes, Alike
  <2> QED
    BY <1>2, <1>3, <1>5, <2>1, <2>3
       DEF ExecuteTells, DraftTells, LogTells, RollbackTells, RollingBack, Applied
<1> QED  BY <1>6, <1>7, <1>8 DEF FetchBefore

\* The mutation: a resource that was added has a new ID.
LEMMA ApplyTells ==
    ASSUME RestoreInv, TypeInv', RowsStay, RoutersGrow, NEW e \in Executes, ApplyOperation(e)
    PROVE  ExecuteTells(e)'
<1>1. /\ TypeInv /\ FitsOK /\ ExecuteTells(e) /\ ControlTypeOK /\ ExecTypeOK /\ RouterTypeOK
      /\ e \in Procs /\ RoutersTell
  BY DEF RestoreInv, LockInv, RestoreOK, TypeInv, TypeOK, Procs
<1>2. UNCHANGED <<rows, idx>> /\ pc[e] = "apply"
  BY DEF ApplyOperation, dbVars
<1>3. TableTells(rows[e], e)'
  BY <1>1, <1>2, TableStays DEF ExecuteTells
<1>4. idx[e] \in 1..Len(Ops[e])
  BY <1>1, <1>2, LoopPosition
<1>5. CASE Goto(e, "recordFailure")
  <2>1. pc'[e] = "recordFailure"
    BY <1>1, <1>5, GotoMovesOne
  <2> QED
    BY <1>1, <1>2, <1>3, <2>1
       DEF ExecuteTells, DraftTells, LogTells, RollbackTells, RollingBack, Applied
<1>6. CASE /\ Carry(e, idx[e])
           /\ draft' = [draft EXCEPT ![e].id =
                           IF OpAt(e, idx[e]).type = "add" THEN nextId[OpAt(e, idx[e]).router] ELSE @]
           /\ Goto(e, IF OpAt(e, idx[e]).type = "delete" THEN "insert" ELSE "after")
  <2> DEFINE r == On(e, idx[e])
  <2>1. /\ pc'[e] \in {"insert", "after"}
        /\ draft'[e].before = draft[e].before
        /\ draft'[e].id = IF Type(e, idx[e]) = "add" THEN nextId[r] ELSE draft[e].id
    BY <1>1, <1>6, GotoMovesOne DEF ExecTypeOK, Draft, On, Type
  <2>2. Describes(draft[e], e, idx[e])'
    <3>1. CASE Type(e, idx[e]) = "add"
      <4>1. CreateResource(r, OpAt(e, idx[e]).body)
        BY <1>6, <3>1 DEF Carry, On, Type
      <4>2. r \in Routers /\ nextId[r] \in Nat /\ FirstId[r] \in Nat /\ FirstId[r] <= nextId[r]
        BY <1>1, <1>4, OpAtType, IdsAssumption DEF Operation, On, RouterTypeOK, RoutersTell
      <4>3. nextId[r] \in Ids /\ nextId'[r] = nextId[r] + 1
        BY <1>1, <4>1, <4>2, CreateMakes
      <4>4. draft'[e].id \in Ids /\ draft'[e].id < nextId'[r] /\ draft'[e].id >= FirstId[r]
        BY <2>1, <3>1, <4>2, <4>3
      <4> QED  BY <1>2, <3>1, <4>4 DEF Describes
    <3>2. CASE Type(e, idx[e]) # "add"
      <4>1. Describes(draft[e], e, idx[e]) /\ draft'[e].id = draft[e].id
        BY <1>1, <1>2, <2>1, <3>2 DEF ExecuteTells, DraftTells
      <4> QED  BY <1>1, <1>2, <1>4, <2>1, <4>1, DescribesStays DEF Describes, Alike
    <3> QED  BY <3>1, <3>2
  <2> QED
    BY <1>1, <1>2, <1>3, <2>1, <2>2
       DEF ExecuteTells, DraftTells, LogTells, RollbackTells, RollingBack, Applied
<1> QED  BY <1>5, <1>6 DEF ApplyOperation

\* The row of an operation that was carried out.
LEMMA InsertTells ==
    ASSUME RestoreInv, TypeInv', RowsStay, RoutersGrow, NEW e \in Executes, InsertOperation(e)
    PROVE  ExecuteTells(e)'
<1>1. /\ TypeInv /\ FitsOK /\ ExecuteTells(e) /\ ControlTypeOK /\ ExecTypeOK /\ DbTypeOK
      /\ e \in Procs /\ ExecuteBooks(e)
  BY DEF RestoreInv, LockInv, RestoreOK, BooksInv, BooksOK, TypeInv, TypeOK, Procs
<1>2. pc[e] = "insert" /\ UNCHANGED <<config, nextId>>
  BY DEF InsertOperation, routerVars
<1>3. idx[e] \in 1..Len(Ops[e]) /\ idx[e] \in Positions /\ idx[e] \in Nat /\ Len(Ops[e]) \in Nat
  BY <1>1, <1>2, LoopPosition
<1>4. \A i \in 1..Len(Ops[e]) : i < idx[e] => Applied(rows[e], i)
  BY <1>1, <1>2 DEF ExecuteTells, LogTells
<1>5. CASE /\ rows' = [rows EXCEPT ![e][idx[e]] = RowOf(draft[e], "applied")]
           /\ Enter(e, idx[e] + 1)
  <2>1. /\ pc'[e] \in {"before", "apply", "succeed"} /\ idx'[e] = idx[e] + 1
        /\ pc'[e] # "succeed" => draft'[e].id = OpAt(e, idx[e] + 1).id
        /\ pc'[e] = "apply" => Type(e, idx[e] + 1) = "add"
    BY <1>1, <1>3, <1>5, EnterTells
  <2>2. /\ rows'[e][idx[e]] = RowOf(draft[e], "applied")
        /\ \A j \in Positions : j # idx[e] => rows'[e][j] = rows[e][j]
    BY <1>1, <1>3, <1>5 DEF DbTypeOK
  <2>3. /\ rows'[e][idx[e]].id = draft[e].id /\ rows'[e][idx[e]].before = draft[e].before
        /\ Applied(rows'[e], idx[e])
    <3>1. RowOf(draft[e], "applied") \in Row
      BY <1>1 DEF RowOf, Row, OpStatus, ExecTypeOK, Draft
    <3> QED  BY <2>2, <3>1, NullAssumption DEF RowOf, Applied
  <2>4. TableTells(rows[e], e)'
    <3> SUFFICES ASSUME NEW i \in Positions, Applied(rows'[e], i)
                 PROVE  Describes(rows[e][i], e, i)'
      BY DEF TableTells, Applied
    <3>1. CASE i = idx[e]
      <4>1. Describes(draft[e], e, idx[e])
        BY <1>1, <1>2 DEF ExecuteTells, DraftTells
      <4> QED  BY <1>2, <2>3, <3>1, <4>1 DEF Describes, Alike
    <3>2. CASE i # idx[e]
      <4>1. rows'[e][i] = rows[e][i] /\ Applied(rows[e], i)
        BY <2>2, <3>2 DEF Applied
      <4>2. Describes(rows[e][i], e, i)
        BY <1>1, <4>1 DEF ExecuteTells, TableTells
      <4> QED  BY <1>2, <4>1, <4>2 DEF Describes, Alike
    <3> QED  BY <3>1, <3>2
  <2>5. \A i \in 1..Len(Ops[e]) : i < idx'[e] => Applied(rows'[e], i)
    <3>1. \A i \in 1..Len(Ops[e]) : i \in Positions /\ i \in Nat
      BY OpsAssumption DEF Positions
    <3>2. \A i \in 1..Len(Ops[e]) : i < idx'[e] => i < idx[e] \/ i = idx[e]
      BY <1>3, <2>1, <3>1
    <3>3. \A i \in 1..Len(Ops[e]) : i < idx[e] => Applied(rows'[e], i)
      <4>1. \A i \in 1..Len(Ops[e]) : i < idx[e] => i # idx[e]
        BY <1>3, <3>1
      <4> QED  BY <1>4, <2>2, <3>1, <4>1 DEF Applied
    <3> QED  BY <2>3, <3>2, <3>3
  <2>6. DraftTells(e)'
    BY <2>1 DEF DraftTells
  <2>7. LogTells(e)'
    BY <2>1, <2>5 DEF LogTells, RollingBack, Applied
  <2> QED  BY <2>1, <2>4, <2>6, <2>7 DEF ExecuteTells, RollbackTells, RollingBack
<1>6. CASE UNCHANGED rows /\ Goto(e, "rollback") /\ idx' = [idx EXCEPT ![e] = @ - 1]
  <2>1. pc'[e] = "rollback" /\ idx'[e] = idx[e] - 1
    BY <1>1, <1>6, GotoMovesOne DEF ControlTypeOK
  <2>2. TableTells(rows[e], e)'
    BY <1>1, <1>6, TableStays DEF ExecuteTells
  <2>3. \A i \in 1..Len(Ops[e]) : i <= idx'[e] => Applied(rows[e], i)
    <3>1. \A i \in 1..Len(Ops[e]) : i \in Nat /\ (i <= idx'[e] => i < idx[e])
      BY <1>3, <2>1
    <3> QED  BY <1>4, <3>1
  <2>4. \A i \in Positions : i > idx'[e] => rows[e][i] = NoRow
    <3>1. \A i \in Positions : i \in Nat /\ (i > idx'[e] => i >= idx[e])
      BY <1>3, <2>1 DEF Positions
    <3> QED  BY <1>1, <1>2, <3>1 DEF ExecuteBooks, Unlogged
  <2>5. DraftTells(e)'
    BY <2>1 DEF DraftTells
  <2>6. LogTells(e)'
    BY <1>6, <2>1, <2>3 DEF LogTells, RollingBack, Applied
  <2>7. RollbackTells(e)'
    BY <1>6, <2>1, <2>4 DEF RollbackTells, RollingBack
  <2> QED  BY <2>2, <2>5, <2>6, <2>7 DEF ExecuteTells
<1> QED  BY <1>5, <1>6 DEF InsertOperation

\* The rows of the operations that failed, or were not tried.
LEMMA RecordTells ==
    ASSUME RestoreInv, TypeInv', RowsStay, RoutersGrow, NEW e \in Executes, RecordFailure(e)
    PROVE  ExecuteTells(e)'
<1>1. /\ TypeInv /\ FitsOK /\ ExecuteTells(e) /\ e \in Procs /\ ExecuteBooks(e)
  BY DEF RestoreInv, LockInv, RestoreOK, BooksInv, BooksOK, TypeInv, TypeOK, Procs
<1>2. pc[e] = "recordFailure" /\ Records(e)
  <2>1. ExecuteDoes(e) /\ pc[e] = "recordFailure"
    BY <1>1, ExecuteWorksOn DEF RecordFailure
  <2> QED  BY <2>1 DEF ExecuteDoes, Arrives, Creates, GetsClients, Looks, Applies, Logs, Reverses,
       Marks, Concludes, Leaves, Moves
<1>3. /\ idx[e] \in 1..Len(Ops[e]) /\ idx[e] \in Positions /\ idx[e] \in Nat /\ Len(Ops[e]) \in Nat
  BY <1>1, <1>2, LoopPosition
<1>4. pc'[e] = "rollback" /\ idx'[e] = idx[e] - 1
  BY <1>2 DEF Records, Moves, Turns
<1>5. \A i \in Positions : \/ i < idx[e] /\ rows'[e][i] = rows[e][i]
                           \/ i >= idx[e] /\ rows'[e][i] = NoRow
                           \/ i >= idx[e] /\ rows'[e][i].status = "failed"
  <2> SUFFICES ASSUME NEW i \in Positions
               PROVE  \/ i < idx[e] /\ rows'[e][i] = rows[e][i]
                      \/ i >= idx[e] /\ rows'[e][i] = NoRow
                      \/ i >= idx[e] /\ rows'[e][i].status = "failed"
    OBVIOUS
  <2>1. i \in Nat
    BY DEF Positions
  <2>2. CASE i < idx[e]
    <3>1. i \notin idx[e]..Len(Ops[e])
      BY <1>3, <2>1, <2>2
    <3> QED  BY <1>2, <2>2, <3>1 DEF Records
  <2>3. CASE i >= idx[e]
    <3>1. rows[e][i] = NoRow
      BY <1>1, <1>2, <2>3 DEF ExecuteBooks, Unlogged
    <3> QED  BY <1>2, <2>3, <3>1 DEF Records
  <2> QED  BY <1>3, <2>1, <2>2, <2>3
<1>6. \A i \in Positions : Applied(rows'[e], i) => Applied(rows[e], i)
  BY <1>5 DEF Applied
<1>7. TableTells(rows[e], e)'
  BY <1>1, <1>6, TableStays DEF ExecuteTells
<1>8. LogTells(e)'
  <2>1. \A i \in 1..Len(Ops[e]) : i \in Positions /\ i \in Nat /\ (i <= idx'[e] => i < idx[e])
    BY <1>3, <1>4, OpsAssumption DEF Positions
  <2>2. \A i \in 1..Len(Ops[e]) : i < idx[e] => Applied(rows[e], i)
    BY <1>1, <1>2 DEF ExecuteTells, LogTells
  <2>3. \A i \in 1..Len(Ops[e]) : i < idx[e] => rows'[e][i] = rows[e][i]
    <3>1. \A i \in 1..Len(Ops[e]) : i < idx[e] => ~(i >= idx[e])
      BY <1>3, <2>1
    <3> QED  BY <1>5, <2>1, <3>1
  <2> QED  BY <1>4, <2>1, <2>2, <2>3 DEF LogTells, RollingBack, Applied
<1>9. RollbackTells(e)'
  <2>1. \A i \in Positions : i > idx'[e] => ~(i < idx[e])
    BY <1>3, <1>4 DEF Positions
  <2>2. \A i \in Positions : i > idx'[e] => rows'[e][i] = NoRow \/ rows'[e][i].status = "failed"
    BY <1>5, <2>1
  <2> QED  BY <1>4, <2>2 DEF RollbackTells, RollingBack
<1> QED  BY <1>4, <1>7, <1>8, <1>9 DEF ExecuteTells, DraftTells

\* The reversal of an operation in the rollback.
LEMMA RollbackOneTells ==
    ASSUME ChangesWhatIsThere, RestoreInv, TypeInv', RowsStay, RoutersGrow,
           NEW e \in Executes, RollbackOne(e)
    PROVE  ExecuteTells(e)'
<1>1. /\ TypeInv /\ FitsOK /\ ExecuteTells(e) /\ ControlTypeOK /\ ExecTypeOK /\ RouterTypeOK
      /\ e \in Procs /\ RoutersTell
  BY DEF RestoreInv, LockInv, RestoreOK, TypeInv, TypeOK, Procs
<1>2. UNCHANGED <<rows, idx>> /\ pc[e] = "rollback"
  BY DEF RollbackOne, dbVars
<1>3. PICK k : /\ k = idx[e] /\ k \in 1..Len(Ops[e]) /\ k \in Positions /\ k \in Nat
               /\ Applied(rows[e], k) /\ rows[e][k] \in Row
  BY RollbackRow
<1>4. TableTells(rows[e], e)'
  BY <1>1, <1>2, TableStays DEF ExecuteTells
<1>5. pc'[e] \in {"markUndone", "markFailed"}
  BY <1>1, GotoMovesOne DEF RollbackOne
<1>6. LogTells(e)'
  BY <1>1, <1>2, <1>5 DEF ExecuteTells, LogTells, RollingBack, Applied
<1>7. RollbackTells(e)'
  <2>1. CASE rolledBack' = [rolledBack EXCEPT ![e] = FALSE]
    BY <1>1, <2>1 DEF ExecTypeOK, RollbackTells
  <2>2. CASE CarryReverse(e, k, rows[e][k]) /\ Goto(e, "markUndone") /\ UNCHANGED rolledBack
    <3>1. pc'[e] = "markUndone"
      BY <1>1, <2>2, GotoMovesOne
    <3>2. TableTells(rows[e], e)
      BY <1>1 DEF ExecuteTells
    <3>3. BackIn(config', nextId', rows[e], e, k)
      BY <1>1, <1>3, <2>2, <3>2, ReversalBrings
    <3>4. ASSUME rolledBack[e], NEW i \in Positions, i > k, rows[e][i] # NoRow,
                 rows[e][i].status # "failed", FirstOn(e, i)
          PROVE  BackIn(config', nextId', rows[e], e, i)
      <4>1. i \in 1..Len(Ops[e])
        BY <1>1, <3>4, OpsAssumption DEF FitsOK, RowsFit, Positions
      <4>2. BackIn(config, nextId, rows[e], e, i)
        BY <1>1, <1>2, <1>3, <3>4 DEF ExecuteTells, RollbackTells, RollingBack, Back
      <4>3. k < i
        BY <1>3, <3>4 DEF Positions
      <4> QED  BY <1>1, <1>3, <2>2, <3>2, <3>4, <4>1, <4>2, <4>3, ReversalKeeps
    <3> QED  BY <1>2, <1>3, <2>2, <3>1, <3>3, <3>4 DEF RollbackTells, Back
  <2> QED  BY <1>3, <2>1, <2>2 DEF RollbackOne
<1> QED  BY <1>4, <1>5, <1>6, <1>7 DEF ExecuteTells, DraftTells

\* Its mark in the log.
LEMMA RollbackMarkTells ==
    ASSUME RestoreInv, TypeInv', RowsStay, RoutersGrow, NEW e \in Executes, RollbackMark(e)
    PROVE  ExecuteTells(e)'
<1>1. /\ TypeInv /\ FitsOK /\ ExecuteTells(e) /\ ControlTypeOK /\ DbTypeOK /\ RouterTypeOK
      /\ e \in Procs /\ RouterTypeOK'
  BY DEF RestoreInv, LockInv, RestoreOK, TypeInv, TypeOK, Procs
<1>2. UNCHANGED <<config, nextId, rolledBack>> /\ pc[e] \in {"markUndone", "markFailed"}
  BY DEF RollbackMark, routerVars, execVars
<1>3. PICK k : /\ k = idx[e] /\ k \in 1..Len(Ops[e]) /\ k \in Positions /\ k \in Nat
               /\ Len(Ops[e]) \in Nat
  BY <1>1, <1>2, LoopPosition
<1>4. pc'[e] = "rollback" /\ idx'[e] = k - 1
  BY <1>1, <1>3, GotoMovesOne DEF RollbackMark, ControlTypeOK
<1>5. /\ \/ pc[e] = "markUndone" /\ Marked(e, e, k, "undone")
         \/ pc[e] = "markFailed" /\ Marked(e, e, k, "failed")
  BY <1>1, <1>3, SetRowStatusMarks DEF RollbackMark, OpStatus
<1>6. \A j \in Positions : j # k => rows'[e][j] = rows[e][j]
  BY <1>5 DEF Marked
<1>7. \A j \in Positions :
          /\ Applied(rows'[e], j) => Applied(rows[e], j)
          /\ rows[e][j] # NoRow => Same(rows'[e][j], rows[e][j])
          /\ rows'[e][j] = NoRow <=> rows[e][j] = NoRow
  <2>1. \A j \in Positions : Applied(rows'[e], j) => Applied(rows[e], j)
    BY <1>5 DEF Marked, Applied
  <2>2. \A j \in Positions : rows'[e][j] = NoRow <=> rows[e][j] = NoRow
    BY <1>5 DEF Marked
  <2> QED  BY <2>1, <2>2 DEF RowsStay
<1>8. TableTells(rows[e], e)'
  BY <1>1, <1>7, TableStays DEF ExecuteTells
<1>9. LogTells(e)'
  <2>1. \A i \in 1..Len(Ops[e]) : /\ i \in Positions
                                  /\ i <= idx'[e] => i <= idx[e] /\ i # k
    BY <1>3, <1>4, OpsAssumption DEF Positions
  <2>2. \A i \in 1..Len(Ops[e]) : i <= idx[e] => Applied(rows[e], i)
    BY <1>1, <1>2 DEF ExecuteTells, LogTells, RollingBack
  <2> QED  BY <1>4, <1>6, <2>1, <2>2 DEF LogTells, RollingBack, Applied
<1>10. RollbackTells(e)'
  <2> SUFFICES ASSUME rolledBack'[e], NEW i \in Positions, i > idx'[e], rows'[e][i] # NoRow,
                      rows'[e][i].status # "failed", FirstOn(e, i)
               PROVE  BackIn(config', nextId', rows'[e], e, i)
    BY <1>4 DEF RollbackTells, Back
  <2>1. pc[e] = "markUndone" /\ rolledBack[e]
    BY <1>1, <1>2 DEF ExecuteTells, RollbackTells
  <2>2. rows[e][i] # NoRow /\ rows[e][i].status # "failed" /\ (i > k \/ i = k)
    <3>1. i > k \/ i = k
      BY <1>3, <1>4 DEF Positions
    <3>2. rows[e][i] # NoRow
      BY <1>7
    <3>3. rows[e][i].status # "failed"
      <4>1. CASE i = k
        <5>1. Applied(rows[e], k)
          BY <1>1, <1>2, <1>3 DEF ExecuteTells, LogTells, RollingBack
        <5> QED  BY <4>1, <5>1 DEF Applied
      <4>2. CASE i # k
        BY <1>6, <4>2
      <4> QED  BY <4>1, <4>2
    <3> QED  BY <3>1, <3>2, <3>3
  <2>3. BackIn(config, nextId, rows[e], e, i)
    BY <1>1, <1>3, <2>1, <2>2 DEF ExecuteTells, RollbackTells, RollingBack, Back
  <2>4. i \in 1..Len(Ops[e])
    BY <1>1, <2>2, OpsAssumption DEF FitsOK, RowsFit, Positions
  <2>5. On(e, i) \in Routers /\ nextId[On(e, i)] \in Nat
    BY <1>1, <2>4, OpAtType DEF Operation, On, RouterTypeOK
  <2>6. /\ Same(rows'[e][i], rows[e][i])
        /\ \A j \in Positions : Applied(rows'[e], j) =>
              Applied(rows[e], j) /\ rows'[e][j].id = rows[e][j].id
    BY <1>7, <2>2 DEF Same, Applied
  <2> QED  BY <1>2, <2>3, <2>4, <2>5, <2>6, BackStays DEF Same
<1> QED  BY <1>4, <1>8, <1>9, <1>10 DEF ExecuteTells, DraftTells

\* A step of Execute, for itself and for the other requests.
LEMMA ExecuteKeepsRestore ==
    ASSUME ChangesWhatIsThere, RestoreInv, TypeInv', NEW e \in Executes, ExecuteStep(e)
    PROVE  RestoreOK'
<1>1. /\ TypeInv /\ IdsOK /\ LockInv /\ BooksInv /\ e \in Procs
      /\ \A f \in Executes : f \in Procs
      /\ \A u \in Undos : u \in Procs /\ u # e
  BY ProcsAssumption DEF RestoreInv, RestoreOK, RoutersTell, LockInv, Procs
<1>2. ExecuteDoes(e) /\ UNCHANGED <<target, snap>>
  BY <1>1, ExecuteStepDoes
<1>3. /\ OthersStay(e)
      /\ \A q \in Procs \ {e} : idx'[q] = idx[q]
      /\ \A f \in Executes \ {e} : rows'[f] = rows[f] /\ rolledBack'[f] = rolledBack[f]
  BY <1>1, <1>2, ExecuteDoesOwn
<1>4. WritesOwn(e)
  BY <1>1, ExecuteWrites
<1>5. /\ RoutersGrow
      /\ \A q \in Procs \ {e} : Critical(q) => \A r \in Needs(q) : config'[r] = config[r]
  BY <1>1, <1>4, OwnWrites
<1>6. RowsStay
  BY <1>1, ExecuteRowsStay
<1>7. RoutersTell'
  BY ExecuteRouters
<1>8. ExecuteTells(e)'
  BY <1>5, <1>6, EndsTell, ClientsTell, FetchTells, ApplyTells, InsertTells, RecordTells,
     RollbackOneTells, RollbackMarkTells DEF ExecuteStep
<1>9. ASSUME NEW f \in Executes \ {e} PROVE ExecuteTells(f)'
  <2>1. /\ f \in Procs /\ pc'[f] = pc[f] /\ idx'[f] = idx[f] /\ draft'[f] = draft[f]
        /\ rows'[f] = rows[f] /\ rolledBack'[f] = rolledBack[f]
    BY <1>1, <1>3, DraftsOfOthersStay DEF OthersStay
  <2>2. \A i \in Positions : Applied(rows'[f], i) => Applied(rows[f], i)
    BY <2>1
  <2>3. Critical(f) => rows'[f] = rows[f] /\ \A r \in Needs(f) : config'[r] = config[r]
    BY <1>5, <2>1
  <2> QED  BY <1>5, <1>6, <2>1, <2>2, <2>3, OthersExecuteTell
<1>10. ASSUME NEW u \in Undos PROVE ReverseTells(u)'
  <2>1. /\ u \in Procs /\ pc'[u] = pc[u] /\ idx'[u] = idx[u]
        /\ target'[u] = target[u] /\ snap'[u] = snap[u]
    BY <1>1, <1>2, <1>3 DEF OthersStay
  <2>2. Critical(u) => \A r \in Needs(u) : config'[r] = config[r]
    BY <1>1, <1>5
  <2> QED  BY <1>5, <2>1, <2>2, OthersReverseTell
<1> QED  BY <1>7, <1>8, <1>9, <1>10 DEF RestoreOK

-----------------------------------------------------------------------------
(* An Undo that takes a step of its own.                                   *)

\* Reading the group: its rows are what the table has.
LEMMA ReadsTell ==
    ASSUME RestoreInv, NEW u \in Undos,
           (\E g \in Executes : UndoReadGroup(u, g)) \/ UndoReadOps(u)
    PROVE  ReverseTells(u)'
<1>1. /\ ControlTypeOK /\ UndoTypeOK /\ u \in Procs
      /\ pc[u] \notin {"idle", "done"} => target[u] \in Executes
      /\ \A g \in Executes : TableTells(rows[g], g)
  BY DEF RestoreInv, LockInv, RestoreOK, ExecuteTells, TypeInv, TypeOK, LoopsOK, UndoLoopAt, Procs
<1>2. UNCHANGED <<rows, config, nextId>>
  BY DEF UndoReadGroup, UndoReadOps, routerVars, dbVars
<1>3. CASE \E g \in Executes : UndoReadGroup(u, g)
  <2>1. pc'[u] \in {"readOps", "done"}
    BY <1>1, <1>3, GotoMovesOne, ReturnMovesOne DEF UndoReadGroup
  <2> QED  BY <2>1 DEF ReverseTells, Started
<1>4. CASE UndoReadOps(u)
  <2>1. pc'[u] \in {"lock", "done"}
    BY <1>1, <1>4, GotoMovesOne, ReturnMovesOne DEF UndoReadOps
  <2>2. CASE pc'[u] = "done"
    BY <2>2 DEF ReverseTells, Started
  <2>3. CASE pc'[u] = "lock"
    <3>1. snap'[u].rows = rows[target[u]] /\ target'[u] = target[u] /\ target[u] \in Executes
      BY <1>1, <1>4, <2>3, ReturnMovesOne DEF UndoReadOps, UndoTypeOK
    <3>2. TableTells(rows[target[u]], target[u])
      BY <1>1, <3>1
    <3>3. TableTells(snap[u].rows, target[u])'
      BY <1>2, <3>1, <3>2 DEF TableTells, Applied, Describes, Alike
    <3> QED  BY <2>3, <3>3 DEF ReverseTells
  <2> QED  BY <2>1, <2>2, <2>3
<1> QED  BY <1>3, <1>4

\* The mutexes, the clients, the first phase, and the end.
LEMMA PhaseOneTells ==
    ASSUME RestoreInv, NEW u \in Undos,
           \/ AcquireNext(u) \/ AllLocked(u) \/ UndoClients(u) \/ UndoMatch(u)
           \/ UndoAttention(u) \/ UndoFinish(u)
    PROVE  ReverseTells(u)'
<1>1. /\ ControlTypeOK /\ u \in Procs /\ u \notin Executes /\ TypeInv /\ FitsOK /\ ReverseTells(u)
  BY ProcsAssumption DEF RestoreInv, LockInv, RestoreOK, TypeInv, TypeOK, Procs
<1>2. UNCHANGED <<config, nextId, target, snap>>
  BY DEF AcquireNext, AllLocked, UndoClients, UndoMatch, UndoAttention, UndoFinish, routerVars,
         undoVars
<1>3. /\ pc'[u] \in {"lock", "clients", "match", "reverse", "done"}
      /\ pc[u] \in {"lock", "clients", "match", "attention", "reverse"}
      /\ pc'[u] = "reverse" => idx'[u] = MaxOps
  <2>1. CASE AcquireNext(u)
    BY <2>1 DEF AcquireNext
  <2>2. CASE AllLocked(u)
    BY <1>1, <2>2, GotoMovesOne DEF AllLocked
  <2>3. CASE UndoClients(u)
    BY <1>1, <2>3, GotoMovesOne, ReturnMovesOne DEF UndoClients
  <2>4. CASE UndoMatch(u)
    BY <1>1, <2>4, GotoMovesOne, ReturnMovesOne DEF UndoMatch, ControlTypeOK
  <2>5. CASE UndoAttention(u) \/ UndoFinish(u)
    BY <1>1, <2>5, ReturnMovesOne DEF UndoAttention, UndoFinish
  <2> QED  BY <2>1, <2>2, <2>3, <2>4, <2>5
<1>4. TableTells(snap[u].rows, target[u])'
  <2>1. TableTells(snap[u].rows, target[u])
    BY <1>1, <1>3 DEF ReverseTells, Started
  <2> QED  BY <1>2, <2>1 DEF TableTells, Applied, Describes, Alike, On, Type
<1>5. pc'[u] = "reverse" => \A i \in Todo(u)' : ~(i > idx'[u])
  <2>1. \A i \in Todo(u)' : i \in 1..MaxOps
    BY DEF Todo, Positions
  <2> QED  BY <1>3, <2>1, OpsAssumption
<1> QED  BY <1>3, <1>4, <1>5 DEF ReverseTells

\* The second phase: what was reversed stays so.
LEMMA ReverseTellsOn ==
    ASSUME ChangesWhatIsThere, RestoreInv, TypeInv', RoutersGrow, NEW u \in Undos, UndoReverse(u)
    PROVE  ReverseTells(u)'
<1>1. /\ TypeInv /\ FitsOK /\ ControlTypeOK /\ RouterTypeOK /\ RoutersTell /\ ReverseTells(u)
      /\ u \in Procs /\ Started(u) /\ pc[u] = "reverse" /\ idx[u] \in Nat
  BY DEF RestoreInv, LockInv, RestoreOK, TypeInv, TypeOK, ControlTypeOK, Procs, UndoReverse, Started
<1>2. UNCHANGED <<target, snap>>
  BY DEF UndoReverse, undoVars
<1>3. PICK g, t : g = target[u] /\ t = snap[u].rows
  OBVIOUS
<1>4. TableTells(snap[u].rows, target[u])'
  BY <1>1, <1>2, SnapStays
<1>5. PICK k \in Positions :
          /\ NextTodo(u, k) /\ idx' = [idx EXCEPT ![u] = k]
          /\ \/ CarryReverse(g, k, t[k]) /\ Goto(u, "mark")
             \/ Goto(u, "attention")
  BY <1>3 DEF UndoReverse
<1>6. /\ k \in Todo(u) /\ k \in Nat /\ k <= idx[u] /\ idx'[u] = k
      /\ g \in Executes /\ k \in 1..Len(Ops[g]) /\ Applied(t, k) /\ t[k] \in Row
  BY <1>1, <1>3, <1>5, UndoRow DEF NextTodo, ControlTypeOK
<1>7. CASE Goto(u, "attention")
  <2>1. pc'[u] = "attention"
    BY <1>1, <1>7, GotoMovesOne
  <2> QED  BY <1>4, <2>1 DEF ReverseTells
<1>8. CASE CarryReverse(g, k, t[k]) /\ Goto(u, "mark")
  <2>1. pc'[u] = "mark"
    BY <1>1, <1>8, GotoMovesOne
  <2>2. TableTells(t, g)
    BY <1>1, <1>3 DEF ReverseTells
  <2>3. BackIn(config', nextId', t, g, k)
    BY <1>1, <1>6, <1>8, <2>2, ReversalBrings
  <2>4. ASSUME NEW i \in Todo(u), i > k, FirstOn(g, i)
        PROVE  BackIn(config', nextId', t, g, i)
    <3>1. i \in 1..Len(Ops[g]) /\ i \in Nat
      BY <1>1, <1>3, UndoRow
    <3>2. i > idx[u] /\ k < i
      BY <1>1, <1>5, <1>6, <2>4, <3>1 DEF NextTodo
    <3>3. BackIn(config, nextId, t, g, i)
      BY <1>1, <1>3, <2>4, <3>2 DEF ReverseTells, Back
    <3> QED  BY <1>1, <1>6, <1>8, <2>2, <2>4, <3>1, <3>2, <3>3, ReversalKeeps
  <2>5. \A i \in Todo(u) : (i > k \/ i = k) /\ FirstOn(g, i) => BackIn(config', nextId', t, g, i)
    BY <2>3, <2>4
  <2>6. Todo(u)' = Todo(u) /\ g = target'[u] /\ t = snap'[u].rows
    BY <1>2, <1>3 DEF Todo
  <2> QED  BY <1>4, <1>6, <2>1, <2>5, <2>6 DEF ReverseTells, Back
<1> QED  BY <1>5, <1>7, <1>8

\* The mark in the log.
LEMMA MarkTells ==
    ASSUME RestoreInv, TypeInv', RoutersGrow, NEW u \in Undos, UndoMark(u)
    PROVE  ReverseTells(u)'
<1>1. /\ TypeInv /\ FitsOK /\ ControlTypeOK /\ ReverseTells(u)
      /\ u \in Procs /\ Started(u) /\ pc[u] = "mark" /\ idx[u] \in Nat
  BY DEF RestoreInv, LockInv, RestoreOK, TypeInv, TypeOK, ControlTypeOK, Procs, UndoMark, Started
<1>2. /\ UNCHANGED <<config, nextId, target, snap>>
      /\ pc'[u] = "reverse" /\ idx'[u] = idx[u] - 1
  BY <1>1, GotoMovesOne DEF UndoMark, routerVars, undoVars, ControlTypeOK
<1>3. TableTells(snap[u].rows, target[u])'
  BY <1>1, <1>2, SnapStays
<1>4. Todo(u)' = Todo(u)
  BY <1>2 DEF Todo
<1>5. ASSUME NEW i \in Todo(u), i > idx'[u], FirstOn(target[u], i)
      PROVE  Back(snap[u].rows, target[u], i)
  <2>1. i \in Nat
    BY <1>1, UndoRow
  <2>2. i > idx[u] \/ i = idx[u]
    BY <1>1, <1>2, <1>5, <2>1
  <2> QED  BY <1>1, <1>5, <2>2 DEF ReverseTells
<1> QED  BY <1>2, <1>3, <1>4, <1>5 DEF ReverseTells, Back

\* The rows of a request in its critical section are its own: an Undo that is
\* in its critical section too has got another router.
LEMMA MarksOfOthers ==
    ASSUME BooksInv, LockInv, NEW u \in Undos, UndoStep(u), NEW f \in Executes
    PROVE  /\ \A i \in Positions : Applied(rows'[f], i) => Applied(rows[f], i)
           /\ Critical(f) => rows'[f] = rows[f]
<1>1. /\ TypeInv /\ FitsOK /\ DbTypeOK /\ LockInv /\ UndoBooks(u)
      /\ u \in Procs /\ f \in Procs /\ u # f
  BY ProcsAssumption DEF LockInv, BooksInv, BooksOK, TypeInv, TypeOK, Procs
<1>2. CASE ~UndoMark(u)
  <2>1. UNCHANGED rows
    BY <1>2 DEF UndoStep, UndoReadGroup, UndoReadOps, AcquireNext, AllLocked, UndoClients,
         UndoMatch, UndoReverse, UndoAttention, UndoFinish, dbVars
  <2> QED  BY <2>1
<1>3. CASE UndoMark(u)
  <2>1. pc[u] = "mark" /\ target[u] \in Executes /\ Critical(u)
    BY <1>1, <1>3 DEF UndoMark, TypeInv, LoopsOK, UndoLoopAt, Critical
  <2>2. Marked(u, target[u], idx[u], "undone")
    BY <1>1, <1>3, <2>1, SetRowStatusMarks DEF UndoMark, OpStatus
  <2>3. \A i \in Positions : Applied(rows'[f], i) => Applied(rows[f], i)
    BY <2>2 DEF Marked, Applied
  <2>4. ASSUME Critical(f) PROVE rows'[f] = rows[f]
    <3>1. CASE f # target[u]
      BY <2>2, <3>1 DEF Marked
    <3>2. CASE f = target[u]
      <4>1. CASE idx[u] \in Positions
        <5>1. snap[u].rows[idx[u]] # NoRow
          BY <1>1, <2>1, <4>1 DEF UndoBooks
        <5>2. idx[u] \in 1..Len(Ops[f])
          BY <1>1, <3>2, <4>1, <5>1, OpsAssumption DEF FitsOK, SnapFits, Positions
        <5>3. On(f, idx[u]) \in Needs(f) /\ On(f, idx[u]) \in Needs(u)
          BY <1>1, <3>2, <4>1, <5>1, <5>2, ProcsAssumption DEF Needs, On
        <5>4. Owned[f] = Needs(f) /\ Owned[u] = Needs(u)
          BY <1>1, <2>1, <2>4 DEF Owned
        <5> QED  BY <1>1, <5>3, <5>4, LockInvApart DEF OwnedApart
      <4>2. CASE idx[u] \notin Positions
        BY <1>3, <3>2, <4>2, <1>1, <2>1 DEF UndoMark, SetRowStatus, BestEffort, DbTypeOK
      <4> QED  BY <4>1, <4>2
    <3> QED  BY <3>1, <3>2
  <2> QED  BY <2>3, <2>4
<1> QED  BY <1>2, <1>3

\* A step of Undo, for itself and for the other requests.
LEMMA UndoKeepsRestore ==
    ASSUME ChangesWhatIsThere, RestoreInv, TypeInv', NEW u \in Undos, UndoStep(u)
    PROVE  RestoreOK'
<1>1. /\ TypeInv /\ FitsOK /\ IdsOK /\ LockInv /\ BooksInv /\ u \in Procs
      /\ \A f \in Executes : f \in Procs /\ f # u
      /\ \A v \in Undos : v \in Procs
  BY ProcsAssumption DEF RestoreInv, RestoreOK, RoutersTell, LockInv, Procs
<1>2. UndoDoes(u) /\ UNCHANGED <<rolledBack, draft>>
  BY <1>1, UndoStepDoes, DraftsOfOthersStay
<1>3. OthersStay(u) /\ OthersData(u)
  BY <1>1, UndoMovesOnly DEF MovesOnly
<1>4. \A q \in Procs \ {u} : idx'[q] = idx[q]
  BY <1>2
     DEF UndoDoes, ReadsGroup, ReadsRows, GoesOn, TakesBack, MarksUndone, Finishes, Turns
<1>5. WritesOwn(u)
  BY <1>1, UndoWrites
<1>6. /\ RoutersGrow
      /\ \A q \in Procs \ {u} : Critical(q) => \A r \in Needs(q) : config'[r] = config[r]
  BY <1>1, <1>5, OwnWrites
<1>7. RowsStay
  BY <1>1, UndoRowsStay
<1>8. RoutersTell'
  BY UndoRouters
<1>9. ReverseTells(u)'
  BY <1>6, ReadsTell, PhaseOneTells, ReverseTellsOn, MarkTells DEF UndoStep
<1>10. ASSUME NEW f \in Executes PROVE ExecuteTells(f)'
  <2>1. /\ f \in Procs /\ pc'[f] = pc[f] /\ idx'[f] = idx[f] /\ draft'[f] = draft[f]
        /\ rolledBack'[f] = rolledBack[f]
    BY <1>1, <1>2, <1>3, <1>4 DEF OthersStay
  <2>2. \A i \in Positions : Applied(rows'[f], i) => Applied(rows[f], i)
    BY <1>1, MarksOfOthers
  <2>3. Critical(f) => rows'[f] = rows[f] /\ \A r \in Needs(f) : config'[r] = config[r]
    BY <1>1, <1>6, MarksOfOthers
  <2> QED  BY <1>6, <1>7, <2>1, <2>2, <2>3, OthersExecuteTell
<1>11. ASSUME NEW v \in Undos \ {u} PROVE ReverseTells(v)'
  <2>1. /\ v \in Procs /\ pc'[v] = pc[v] /\ idx'[v] = idx[v]
        /\ target'[v] = target[v] /\ snap'[v] = snap[v]
    BY <1>1, <1>3, <1>4 DEF OthersStay, OthersData
  <2>2. Critical(v) => \A r \in Needs(v) : config'[r] = config[r]
    BY <1>6, <2>1
  <2> QED  BY <1>6, <2>1, <2>2, OthersReverseTell
<1> QED  BY <1>8, <1>9, <1>10, <1>11 DEF RestoreOK

\* The environment: it ends requests, and it writes nothing.
LEMMA EnvironmentKeepsRestore ==
    ASSUME NothingElseWrites, RestoreInv, TypeInv',
           \/ \E p \in Procs : ClientDisconnects(p)
           \/ Crash
           \/ \E r \in Routers, id \in Ids : ExternalEdit(r, id)
           \/ UNCHANGED vars
    PROVE  RestoreOK'
<1>1. RestoreOK /\ \A f \in Executes : f \in Procs
  BY DEF RestoreInv, Procs
<1>2. UNCHANGED <<config, nextId, rows, idx, draft, rolledBack, target, snap>>
  <2>1. ~ \E r \in Routers, id \in Ids : ExternalEdit(r, id)
    BY DEF ExternalEdit, Inject, NothingElseWrites
  <2> QED  BY <2>1 DEF ClientDisconnects, Crash, vars, routerVars, dbVars, execVars, undoVars
<1>3. \A p \in Procs : pc'[p] = pc[p] \/ pc'[p] = "done"
  BY EnvironmentStepDoes DEF EnvironmentDoes
<1>4. RoutersTell'
  BY <1>1, <1>2, RoutersTellStays DEF RestoreOK
<1>5. ASSUME NEW f \in Executes PROVE ExecuteTells(f)'
  <2>1. ExecuteTells(f) /\ (pc'[f] = pc[f] \/ pc'[f] = "done")
    BY <1>1, <1>3 DEF RestoreOK
  <2>2. TableTells(rows[f], f)'
    BY <1>2, <2>1 DEF ExecuteTells, TableTells, Applied, Describes, Alike
  <2>3. DraftTells(f)'
    BY <1>2, <2>1 DEF ExecuteTells, DraftTells, Describes, Alike
  <2>4. LogTells(f)'
    BY <1>2, <2>1 DEF ExecuteTells, LogTells, RollingBack, Applied
  <2>5. RollbackTells(f)'
    BY <1>2, <2>1 DEF ExecuteTells, RollbackTells, RollingBack, Back
  <2> QED  BY <2>2, <2>3, <2>4, <2>5 DEF ExecuteTells
<1>6. ASSUME NEW u \in Undos PROVE ReverseTells(u)'
  <2>1. ReverseTells(u) /\ (pc'[u] = pc[u] \/ pc'[u] = "done")
    BY <1>1, <1>3 DEF RestoreOK, Procs
  <2>2. Started(u)' => TableTells(snap[u].rows, target[u])'
    BY <1>2, <2>1 DEF ReverseTells, Started, TableTells, Applied, Describes, Alike, On, Type
  <2> QED  BY <1>2, <2>1, <2>2 DEF ReverseTells, Todo, Back
<1> QED  BY <1>4, <1>5, <1>6 DEF RestoreOK

\* Every step keeps what was taken back.
LEMMA NextKeepsRestore ==
    ASSUME Restorable, RestoreInv, [Next]_vars
    PROVE  RestoreInv'
<1>1. BooksInv' /\ LockInv'
  BY NextKeepsBooks, NextLockInv DEF RestoreInv
<1>2. TypeInv'
  BY <1>1 DEF LockInv
<1>3. RestoreOK'
  <2>1. Quiescent => UNCHANGED vars
    BY DEF Quiescent
  <2> QED
    BY <1>2, <2>1, ExecuteKeepsRestore, UndoKeepsRestore, EnvironmentKeepsRestore
       DEF Next, Restorable
<1> QED  BY <1>1, <1>3 DEF RestoreInv

\* At the start the routers have what they have, and nothing is logged.
LEMMA InitRestore == Init => RestoreInv
<1> SUFFICES ASSUME Init PROVE RestoreInv
  OBVIOUS
<1>1. BooksInv /\ LockInv
  BY InitBooks, InitLockInv
<1>2. RoutersTell
  BY IdsAssumption DEF Init, RoutersTell, IdsOK, Alike
<1>3. ASSUME NEW e \in Executes PROVE ExecuteTells(e)
  <2>1. pc[e] = "idle" /\ \A i \in Positions : rows[e][i] = NoRow
    BY DEF Init, Procs
  <2> QED
    BY <2>1
       DEF ExecuteTells, TableTells, Applied, DraftTells, LogTells, RollbackTells, RollingBack
<1>4. ASSUME NEW u \in Undos PROVE ReverseTells(u)
  <2>1. pc[u] = "idle"
    BY DEF Init, Procs
  <2> QED  BY <2>1 DEF ReverseTells, Started
<1> QED  BY <1>1, <1>2, <1>3, <1>4 DEF RestoreInv, RestoreOK

\* What is taken back is restored.
LEMMA BackRestores ==
    ASSUME NEW g \in Executes, NEW i \in 1..Len(Ops[g]), NEW t, Back(t, g, i)
    PROVE  Restored(g, i, t[i])
<1>1. Type(g, i) \in {"add", "modify", "delete"}
  BY OpAtType DEF Operation, Type
<1> QED  BY <1>1 DEF Back, BackIn, Restored, On, Type

\* When rollbackApplied tells that it rolled back everything, the resources of
\* the group are in the state before it (rollback.go): whatever fails, and even
\* when Undos of the group come while its request is running.
THEOREM RollbacksRestore == Restorable => (Spec => RollbackRestores)
<1> SUFFICES ASSUME Restorable PROVE Spec => RollbackRestores
  OBVIOUS
<1>1. RestoreInv /\ [Next]_vars => RestoreInv'
  BY NextKeepsRestore
<1>2. RestoreInv /\ [Next]_vars =>
          [\A e \in Executes :
              (pc[e] = "rollback" /\ pc'[e] = "respond" /\ rolledBack[e]) =>
                  \A i \in Positions :
                      (/\ rows[e][i] # NoRow
                       /\ rows[e][i].status # "failed"
                       /\ FirstOn(e, i)) => Restored(e, i, rows[e][i])]_vars
  <2> SUFFICES ASSUME RestoreInv, [Next]_vars, NEW e \in Executes,
                      pc[e] = "rollback", pc'[e] = "respond", rolledBack[e],
                      NEW i \in Positions, rows[e][i] # NoRow, rows[e][i].status # "failed",
                      FirstOn(e, i)
               PROVE  Restored(e, i, rows[e][i])
    OBVIOUS
  <2>1. /\ TypeInv /\ ControlTypeOK /\ FitsOK /\ RollbackTells(e) /\ e \in Procs
        /\ \A f \in Executes : f \in Procs
        /\ \A u \in Undos : u \in Procs /\ u # e
    BY ProcsAssumption
       DEF RestoreInv, RestoreOK, ExecuteTells, LockInv, TypeInv, TypeOK, Procs
  <2>2. ExecuteStep(e)
    <3>1. \A f \in Executes \ {e} : ~ExecuteStep(f)
      BY <2>1, ExecuteMovesOne DEF OthersStay
    <3>2. \A u \in Undos : ~UndoStep(u)
      BY <2>1, UndoMovesOne DEF OthersStay
    <3>3. ~(\/ \E p \in Procs : ClientDisconnects(p)
            \/ Crash
            \/ \E r \in Routers, id \in Ids : ExternalEdit(r, id)
            \/ UNCHANGED vars)
      BY <2>1, EnvironmentStepDoes DEF EnvironmentDoes
    <3> QED  BY <3>1, <3>2, <3>3 DEF Next, Quiescent
  <2>3. idx[e] = 0
    <3>1. ExecuteDoes(e)
      BY <2>1, <2>2, ExecuteStepDoes
    <3> QED
      BY <3>1 DEF ExecuteDoes, Arrives, Creates, GetsClients, Enters, Looks, Applies, Logs, Records,
         Reverses, Marks, Concludes, Leaves, Moves
  <2>4. i > idx[e] /\ i \in 1..Len(Ops[e])
    BY <2>1, <2>3, OpsAssumption DEF FitsOK, RowsFit, Positions
  <2>5. Back(rows[e], e, i)
    BY <2>1, <2>4 DEF RollbackTells, RollingBack
  <2> QED  BY <2>4, <2>5, BackRestores
<1> QED  BY InitRestore, <1>1, <1>2, PTL DEF Spec, RollbackRestores

\* When an Undo answers that the group is undone, the resources that it
\* reversed are in the state before the group (service.go), whatever fails and
\* however many Undos of the group there are.
THEOREM UndosRestore == Restorable => (Spec => UndoRestores)
<1> SUFFICES ASSUME Restorable PROVE Spec => UndoRestores
  OBVIOUS
<1>1. RestoreInv /\ [Next]_vars => RestoreInv'
  BY NextKeepsRestore
<1>2. RestoreInv /\ [Next]_vars =>
          [\A u \in Undos :
              (reply[u] = "none" /\ reply'[u] = "undone") =>
                  \A i \in Todo(u) :
                      FirstOn(target[u], i) =>
                          Restored(target[u], i, snap[u].rows[i])]_vars
  <2> SUFFICES ASSUME RestoreInv, [Next]_vars, NEW u \in Undos,
                      reply[u] = "none", reply'[u] = "undone",
                      NEW i \in Todo(u), FirstOn(target[u], i)
               PROVE  Restored(target[u], i, snap[u].rows[i])
    OBVIOUS
  <2>1. /\ ReverseTells(u) /\ u \in Procs /\ reply \in [Procs -> Reply]
        /\ \A e \in Executes : e \in Procs /\ e # u
    BY ProcsAssumption
       DEF RestoreInv, RestoreOK, LockInv, TypeInv, TypeOK, ControlTypeOK, Procs
  <2>2. /\ \A p \in Procs \ {u} : \A answer : Return(p, answer) => reply'[u] = reply[u]
        /\ \A answer : Return(u, answer) => reply'[u] = answer
    BY <2>1 DEF Return
  <2>3. ASSUME NEW p \in Procs \ {u}, ExecuteStep(p) \/ UndoStep(p) PROVE FALSE
    BY <2>2, <2>3
       DEF ExecuteStep, ExecuteStart, AcquireNext, AllLocked, CreateGroup, GetClients, Abandon,
           FetchBefore, ApplyOperation, FetchAfter, InsertOperation, Succeed, RecordFailure,
           RollbackOne, RollbackMark, RollbackGroup, RespondFailure,
           UndoStep, UndoReadGroup, UndoReadOps, UndoClients, UndoMatch, UndoReverse, UndoMark,
           UndoAttention, UndoFinish
  <2>4. UndoStep(u)
    <3>1. ~Crash /\ ~UNCHANGED vars
      BY <2>1 DEF Crash, vars
    <3> QED
      BY <2>1, <2>3, <3>1 DEF Next, Procs, ClientDisconnects, ExternalEdit, Quiescent
  <2>5. UndoFinish(u)
    BY <2>2, <2>4
       DEF UndoStep, UndoReadGroup, UndoReadOps, AcquireNext, AllLocked, UndoClients, UndoMatch,
           UndoReverse, UndoMark, UndoAttention
  <2>6. i > idx[u] /\ pc[u] = "reverse"
    BY <2>5 DEF UndoFinish, NothingTodo
  <2>7. Back(snap[u].rows, target[u], i)
    BY <2>1, <2>6 DEF ReverseTells
  <2>8. target[u] \in Executes /\ i \in 1..Len(Ops[target[u]])
    BY <2>6, UndoRow DEF Started
  <2> QED  BY <2>7, <2>8, BackRestores
<1> QED  BY InitRestore, <1>1, <1>2, PTL DEF Spec, UndoRestores
-----------------------------------------------------------------------------
(* An addition is reversed at most once, whatever fails: a DELETE needs    *)
(* the resource, no ID is given out twice, and the request, the log and    *)
(* the Undos have one ID for what an operation added.                      *)

LogInv == BooksInv /\ LockInv /\ IdsOK /\ \A e \in Executes : LogTells(e)

\* The drafts and rows that tell about operation i of group g in force.
DraftOf(g, i) == IF pc[g] \in {"after", "insert"} /\ idx[g] = i THEN {draft[g]} ELSE {}
RowsOf(g, i) ==
    (IF Applied(rows[g], i) THEN {rows[g][i]} ELSE {})
    \cup {snap[u].rows[i] : u \in {v \in Undos : target[v] = g /\ Applied(snap[v].rows, i)}}
Told(g, i) == DraftOf(g, i) \cup RowsOf(g, i)

AdditionTells(g, i) ==
    /\ Balanced(g, i)
    /\ \A d \in Told(g, i) :
          /\ d.id \in Ids /\ d.id < nextId[On(g, i)]
          /\ config[On(g, i)][d.id] # Absent => balance[g][i] = 1
          /\ \A c \in Told(g, i) : c.id = d.id
AdditionsOK ==
    \A g \in Executes : \A i \in 1..Len(Ops[g]) : Type(g, i) = "add" => AdditionTells(g, i)

\* A step of Execute writes its rows in the order of its loops.
LEMMA ExecuteKeepsLog ==
    ASSUME TypeInv, NEW e \in Executes, LogTells(e), ExecuteDoes(e)
    PROVE  LogTells(e)'
<1>1. /\ idx[e] \in Nat /\ \A i \in 1..Len(Ops[e]) : i \in Positions /\ i \in Nat
  BY OpsAssumption DEF TypeInv, TypeOK, ControlTypeOK, Procs, Positions
<1>2. CASE Arrives(e) \/ Creates(e) \/ Concludes(e) \/ Leaves(e)
  BY <1>2 DEF Arrives, Creates, Concludes, Leaves, Moves, LogTells, RollingBack
<1>3. CASE GetsClients(e)
  <2>1. pc'[e] \in {"abandon", "succeed"} \/ (pc'[e] \in {"before", "apply"} /\ idx'[e] = 1)
    BY <1>3 DEF GetsClients, Enters, Moves, Turns
  <2>2. \A i \in 1..Len(Ops[e]) : ~(i < 1)
    BY <1>1
  <2> QED  BY <2>1, <2>2 DEF LogTells, RollingBack
<1>4. CASE Looks(e) \/ Applies(e)
  <2>1. /\ pc[e] \in {"before", "apply", "after"}
        /\ pc'[e] \in {"apply", "after", "insert", "recordFailure"}
        /\ UNCHANGED <<idx, rows>>
    BY <1>4 DEF Looks, Applies, Moves
  <2> QED  BY <2>1 DEF LogTells, RollingBack, Applied
<1>5. CASE Logs(e)
  <2>1. pc[e] = "insert"
    BY <1>5 DEF Logs
  <2>2. \A i \in 1..Len(Ops[e]) : i < idx[e] => Applied(rows[e], i)
    BY <2>1 DEF LogTells
  <2>3. CASE Enters(e, idx[e] + 1) /\ Logged(e, idx[e])
    <3>1. idx'[e] = idx[e] + 1 /\ pc'[e] \in {"succeed", "before", "apply"}
      BY <2>3 DEF Enters, Turns
    <3>2. \A i \in 1..Len(Ops[e]) : i < idx'[e] => i = idx[e] \/ (i < idx[e] /\ i # idx[e])
      BY <1>1, <3>1
    <3>3. \A i \in 1..Len(Ops[e]) : i < idx'[e] => Applied(rows'[e], i)
      BY <1>1, <2>2, <2>3, <3>2 DEF Logged, Applied
    <3> QED  BY <3>1, <3>3 DEF LogTells, RollingBack, Applied
  <2>4. CASE Moves(e, {"insert"}, {"rollback"}) /\ Turns(e, idx[e] - 1) /\ UNCHANGED rows
    <3>1. \A i \in 1..Len(Ops[e]) : i <= idx'[e] => i < idx[e]
      BY <1>1, <2>4 DEF Turns
    <3> QED  BY <2>2, <2>4, <3>1 DEF Moves, LogTells, RollingBack, Applied
  <2> QED  BY <1>5, <2>3, <2>4 DEF Logs
<1>6. CASE Records(e)
  <2>1. /\ pc[e] = "recordFailure" /\ pc'[e] = "rollback" /\ idx'[e] = idx[e] - 1
    BY <1>6 DEF Records, Moves, Turns
  <2>2. \A i \in 1..Len(Ops[e]) : i <= idx'[e] => i < idx[e] /\ i \notin idx[e]..Len(Ops[e])
    BY <1>1, <2>1
  <2>3. \A i \in 1..Len(Ops[e]) : i <= idx'[e] => rows'[e][i] = rows[e][i]
    BY <1>1, <1>6, <2>2 DEF Records
  <2> QED  BY <2>1, <2>2, <2>3 DEF LogTells, RollingBack, Applied
<1>7. CASE Reverses(e)
  BY <1>7 DEF Reverses, Moves, LogTells, RollingBack, Applied
<1>8. CASE Marks(e)
  <2>1. /\ pc[e] \in RollingBack /\ pc'[e] = "rollback" /\ idx'[e] = idx[e] - 1
        /\ \E s : Marked(e, e, idx[e], s)
    BY <1>8 DEF Marks, Moves, Turns, RollingBack
  <2>2. \A i \in 1..Len(Ops[e]) : i <= idx'[e] => i <= idx[e] /\ i # idx[e]
    BY <1>1, <2>1
  <2>3. \A i \in 1..Len(Ops[e]) : i <= idx'[e] => rows'[e][i] = rows[e][i]
    BY <1>1, <2>1, <2>2 DEF Marked
  <2> QED  BY <2>1, <2>2, <2>3 DEF LogTells, RollingBack, Applied
<1> QED
  BY <1>2, <1>3, <1>4, <1>5, <1>6, <1>7, <1>8 DEF ExecuteDoes

\* An edit that goes past the service changes or removes a resource that is
\* there.
LEMMA EditsWrite ==
    ASSUME RouterTypeOK, IdsOK, NEW r \in Routers, NEW id \in Ids, ExternalEdit(r, id)
    PROVE  IdsOK' /\ RoutersGrow
<1>1. /\ \A s \in Routers : nextId[s] \in Nat
      /\ config[r][id] # Absent /\ nextId' = nextId
      /\ \A x \in Ids : x \in Nat
  BY IdsAssumption DEF RouterTypeOK, ExternalEdit, Resource
<1>2. \A s \in Routers, x \in Ids : (s = r /\ x = id) \/ config'[s][x] = config[s][x]
  BY DEF ExternalEdit, RouterTypeOK
<1>3. IdsOK'
  BY <1>1, <1>2 DEF IdsOK
<1>4. RoutersGrow
  BY <1>1, <1>2 DEF RoutersGrow
<1> QED  BY <1>3, <1>4

\* Every step keeps the log in order, whatever fails, and no resource that is
\* gone comes back.
LEMMA NextKeepsLog ==
    ASSUME LogInv, [Next]_vars
    PROVE  LogInv' /\ RoutersGrow
<1>1. BooksInv' /\ LockInv' /\ TypeInv /\ FitsOK /\ IdsOK /\ RouterTypeOK
  BY NextKeepsBooks, NextLockInv DEF LogInv, LockInv, TypeInv, TypeOK
<1>2. CASE \E e \in Executes : ExecuteStep(e)
  <2>1. PICK e \in Executes : ExecuteStep(e)
    BY <1>2
  <2>2. ExecuteDoes(e) /\ e \in Procs
    BY <1>1, <2>1, ExecuteStepDoes DEF Procs
  <2>3. IdsOK' /\ RoutersGrow
    BY <1>1, <2>1, <2>2, ExecuteWrites, OwnWrites DEF LogInv
  <2>4. ASSUME NEW f \in Executes PROVE LogTells(f)'
    <3>1. CASE f = e
      BY <1>1, <2>2, <3>1, ExecuteKeepsLog DEF LogInv
    <3>2. CASE f # e
      <4>1. pc'[f] = pc[f] /\ idx'[f] = idx[f] /\ rows'[f] = rows[f]
        BY <1>1, <2>2, <3>2, ExecuteDoesOwn DEF OthersStay, Procs
      <4> QED  BY <4>1 DEF LogInv, LogTells, Applied
    <3> QED  BY <3>1, <3>2
  <2> QED  BY <1>1, <2>3, <2>4 DEF LogInv
<1>3. CASE \E u \in Undos : UndoStep(u)
  <2>1. PICK u \in Undos : UndoStep(u)
    BY <1>3
  <2>2. UndoDoes(u) /\ u \in Procs
    BY <1>1, <2>1, UndoStepDoes DEF Procs
  <2>3. IdsOK' /\ RoutersGrow
    BY <1>1, <2>1, <2>2, UndoWrites, OwnWrites DEF LogInv
  <2>4. ASSUME NEW f \in Executes PROVE LogTells(f)'
    <3>1. pc'[f] = pc[f] /\ idx'[f] = idx[f]
      BY <2>2, ProcsAssumption
         DEF UndoDoes, ReadsGroup, ReadsRows, GoesOn, TakesBack, MarksUndone, Finishes, Turns,
             Moves, OthersStay, Procs
    <3>2. Critical(f) => rows'[f] = rows[f]
      BY <2>1, MarksOfOthers DEF LogInv
    <3> QED  BY <3>1, <3>2 DEF LogInv, LogTells, Applied, Critical, RollingBack
  <2> QED  BY <1>1, <2>3, <2>4 DEF LogInv
<1>4. CASE \/ \E p \in Procs : ClientDisconnects(p)
           \/ Crash
           \/ \E r \in Routers, id \in Ids : ExternalEdit(r, id)
           \/ UNCHANGED vars
  <2>1. EnvironmentDoes
    BY <1>4, EnvironmentStepDoes
  <2>2. ASSUME NEW f \in Executes PROVE LogTells(f)'
    <3>1. UNCHANGED <<idx, rows>> /\ (pc'[f] = pc[f] \/ pc'[f] = "done")
      BY <2>1 DEF EnvironmentDoes, Procs
    <3> QED  BY <3>1 DEF LogInv, LogTells, RollingBack, Applied
  <2>3. IdsOK' /\ RoutersGrow
    <3>1. CASE \E r \in Routers, id \in Ids : ExternalEdit(r, id)
      BY <1>1, <3>1, EditsWrite
    <3>2. CASE UNCHANGED <<config, nextId>>
      <4>1. \A r \in Routers : nextId[r] \in Nat
        BY <1>1 DEF RouterTypeOK
      <4> QED  BY <1>1, <3>2, <4>1 DEF IdsOK, RoutersGrow
    <3> QED  BY <1>4, <3>1, <3>2 DEF ClientDisconnects, Crash, vars, routerVars
  <2> QED  BY <1>1, <2>2, <2>3 DEF LogInv
<1> QED  BY <1>2, <1>3, <1>4 DEF Next, Quiescent

\* At the start nothing is logged.
LEMMA InitLog == Init => LogInv
<1> SUFFICES ASSUME Init PROVE LogInv
  OBVIOUS
<1>1. BooksInv /\ LockInv
  BY InitBooks, InitLockInv
<1>2. IdsOK /\ \A e \in Executes : LogTells(e)
  BY IdsAssumption DEF Init, IdsOK, LogTells, RollingBack, Procs
<1> QED  BY <1>1, <1>2 DEF LogInv

\* A request that has carried out an operation has just done so, has just read
\* what it left, or did not move.
LEMMA DraftTold ==
    ASSUME TypeInv, [Next]_vars, NEW g \in Executes, pc'[g] \in {"after", "insert"}
    PROVE  /\ idx'[g] = idx[g] /\ idx[g] \in 1..Len(Ops[g])
           /\ \/ pc'[g] = pc[g] /\ draft'[g] = draft[g]
              \/ /\ FetchAfter(g) /\ pc[g] = "after"
                 /\ draft'[g].id = draft[g].id /\ draft'[g].before = draft[g].before
              \/ /\ ApplyOperation(g) /\ pc[g] = "apply" /\ Carry(g, idx[g])
                 /\ draft'[g].before = draft[g].before
                 /\ draft'[g].id = IF Type(g, idx[g]) = "add" THEN nextId[On(g, idx[g])]
                                                              ELSE draft[g].id
<1>1. /\ ControlTypeOK /\ ExecTypeOK /\ g \in Procs
      /\ \A f \in Executes : f \in Procs
      /\ \A u \in Undos : u \in Procs /\ u # g
  BY ProcsAssumption DEF TypeInv, TypeOK, Procs
<1>2. CASE ExecuteStep(g)
  <2>1. /\ pc[g] \in {"after", "apply"} /\ idx'[g] = idx[g]
        /\ pc[g] = "after" => pc'[g] = "insert"
    <3>1. ExecuteDoes(g)
      BY <1>2, ExecuteStepDoes
    <3> QED
      BY <3>1 DEF ExecuteDoes, Arrives, Creates, GetsClients, Enters, Looks, Applies, Logs, Records,
         Reverses, Marks, Concludes, Leaves, Moves
  <2>2. idx[g] \in 1..Len(Ops[g])
    BY <2>1, LoopPosition
  <2>3. CASE pc[g] = "after"
    <3>1. FetchAfter(g)
      BY <1>2, <2>3 DEF ExecuteStep, ExecuteStart, AcquireNext, AllLocked, CreateGroup, GetClients,
         Abandon, FetchBefore, ApplyOperation, InsertOperation, Succeed, RecordFailure, RollbackOne,
         RollbackMark, RollbackGroup, RespondFailure
    <3>2. draft'[g].id = draft[g].id /\ draft'[g].before = draft[g].before
      BY <1>1, <3>1 DEF FetchAfter, ExecTypeOK, Draft
    <3> QED  BY <2>1, <2>2, <2>3, <3>1, <3>2
  <2>4. CASE pc[g] = "apply"
    <3>1. ApplyOperation(g)
      BY <1>2, <2>4 DEF ExecuteStep, ExecuteStart, AcquireNext, AllLocked, CreateGroup, GetClients,
         Abandon, FetchBefore, FetchAfter, InsertOperation, Succeed, RecordFailure, RollbackOne,
         RollbackMark, RollbackGroup, RespondFailure
    <3>2. ~Goto(g, "recordFailure")
      BY <1>1, GotoMovesOne
    <3>3. /\ Carry(g, idx[g])
          /\ draft' = [draft EXCEPT ![g].id =
                           IF OpAt(g, idx[g]).type = "add" THEN nextId[OpAt(g, idx[g]).router] ELSE @]
      BY <3>1, <3>2 DEF ApplyOperation
    <3>4. /\ draft'[g].before = draft[g].before
          /\ draft'[g].id = IF Type(g, idx[g]) = "add" THEN nextId[On(g, idx[g])] ELSE draft[g].id
      BY <1>1, <3>3 DEF ExecTypeOK, Draft, On, Type
    <3> QED  BY <2>1, <2>2, <2>4, <3>1, <3>3, <3>4
  <2> QED  BY <2>1, <2>3, <2>4
<1>3. CASE ~ExecuteStep(g)
  <2>1. pc'[g] = pc[g] /\ idx'[g] = idx[g] /\ draft'[g] = draft[g]
    <3>1. CASE \E e \in Executes : ExecuteStep(e)
      <4>1. PICK e \in Executes \ {g} : ExecuteStep(e)
        BY <1>3, <3>1
      <4>2. ExecuteDoes(e) /\ OthersStay(e) /\ \A q \in Procs \ {e} : idx'[q] = idx[q]
        BY <4>1, ExecuteStepDoes, ExecuteDoesOwn
      <4> QED  BY <1>1, <4>1, <4>2, DraftsOfOthersStay DEF OthersStay
    <3>2. CASE \E u \in Undos : UndoStep(u)
      <4>1. PICK u \in Undos : UndoStep(u)
        BY <3>2
      <4>2. pc'[g] = pc[g] /\ idx'[g] = idx[g]
        <5>1. UndoDoes(u)
          BY <4>1, UndoStepDoes
        <5> QED
          BY <1>1, <5>1 DEF UndoDoes, ReadsGroup, ReadsRows, GoesOn, TakesBack, MarksUndone,
             Finishes, Turns, Moves, OthersStay
      <4> QED  BY <1>1, <4>1, <4>2, DraftsOfOthersStay
    <3>3. CASE \/ \E p \in Procs : ClientDisconnects(p)
               \/ Crash
               \/ \E r \in Routers, id \in Ids : ExternalEdit(r, id)
               \/ UNCHANGED vars
      <4>1. UNCHANGED idx /\ (pc'[g] = pc[g] \/ pc'[g] = "done")
        BY <1>1, <3>3, EnvironmentStepDoes DEF EnvironmentDoes
      <4>2. UNCHANGED draft
        BY <3>3 DEF ClientDisconnects, Crash, ExternalEdit, vars, execVars
      <4> QED  BY <4>1, <4>2
    <3> QED  BY <3>1, <3>2, <3>3 DEF Next, Quiescent
  <2> QED  BY <2>1, LoopPosition
<1> QED  BY <1>2, <1>3

\* The rows that say that an operation is in force are the one in the table
\* and those that Undos of the group read.
LEMMA RowsOfAre ==
    ASSUME NEW g, NEW i
    PROVE  /\ \A d : d \in RowsOf(g, i) <=>
                  \/ Applied(rows[g], i) /\ d = rows[g][i]
                  \/ \E u \in Undos : /\ target[u] = g /\ Applied(snap[u].rows, i)
                                      /\ d = snap[u].rows[i]
           /\ \A d : d \in RowsOf(g, i)' <=>
                  \/ Applied(rows'[g], i) /\ d = rows'[g][i]
                  \/ \E u \in Undos : /\ target'[u] = g /\ Applied(snap'[u].rows, i)
                                      /\ d = snap'[u].rows[i]
<1>1. \A d : d \in RowsOf(g, i) <=>
          \/ Applied(rows[g], i) /\ d = rows[g][i]
          \/ \E u \in Undos : /\ target[u] = g /\ Applied(snap[u].rows, i)
                              /\ d = snap[u].rows[i]
  BY DEF RowsOf
<1>2. \A d : d \in RowsOf(g, i)' <=>
          \/ Applied(rows'[g], i) /\ d = rows'[g][i]
          \/ \E u \in Undos : /\ target'[u] = g /\ Applied(snap'[u].rows, i)
                              /\ d = snap'[u].rows[i]
  BY DEF RowsOf, Applied
<1> QED  BY <1>1, <1>2

\* A row in the table becomes applied when it is inserted, by its request.
LEMMA TableTold ==
    ASSUME LogInv, [Next]_vars, NEW g \in Executes, NEW i \in 1..Len(Ops[g]), Applied(rows'[g], i)
    PROVE  \/ Applied(rows[g], i) /\ Same(rows'[g][i], rows[g][i])
           \/ pc[g] = "insert" /\ idx[g] = i /\ Same(rows'[g][i], draft[g])
<1>1. /\ TypeInv /\ BooksInv /\ LockInv /\ DbTypeOK /\ i \in Positions
  BY OpsAssumption DEF LogInv, LockInv, TypeInv, TypeOK, Positions
<1>2. CASE \E e \in Executes : ExecuteStep(e)
  <2>1. PICK e \in Executes : ExecuteStep(e)
    BY <1>2
  <2>2. ExecuteDoes(e) /\ RowsStay
    BY <1>1, <2>1, ExecuteStepDoes, ExecuteRowsStay
  <2>3. CASE Applied(rows[g], i)
    BY <1>1, <2>2, <2>3 DEF RowsStay, Applied
  <2>4. CASE ~Applied(rows[g], i)
    <3>1. e = g
      BY <1>1, <2>2, <2>4, ExecuteDoesOwn DEF Applied
    <3>2. Logs(g) /\ Logged(g, idx[g]) /\ i = idx[g]
      <4>1. rows'[g][i] # rows[g][i]
        BY <2>4 DEF Applied
      <4> QED
        BY <1>1, <2>2, <2>4, <3>1, <4>1
           DEF ExecuteDoes, Arrives, Creates, GetsClients, Looks, Applies, Logs, Logged, Records,
               Reverses, Marks, Marked, Concludes, Leaves, Moves, Applied
    <3>3. pc[g] = "insert" /\ ~UNCHANGED rows
      BY <2>4, <3>2 DEF Logs, Applied
    <3>4. rows' = [rows EXCEPT ![g][idx[g]] = RowOf(draft[g], "applied")]
      BY <2>1, <3>1, <3>3
         DEF ExecuteStep, ExecuteStart, AcquireNext, AllLocked, CreateGroup, GetClients,
             Abandon, FetchBefore, ApplyOperation, FetchAfter, InsertOperation, Succeed,
             RecordFailure, RollbackOne, RollbackMark, RollbackGroup, RespondFailure
    <3> QED  BY <1>1, <3>2, <3>3, <3>4 DEF DbTypeOK, RowOf, Same
  <2> QED  BY <2>3, <2>4
<1>3. CASE \E u \in Undos : UndoStep(u)
  <2>1. Applied(rows[g], i) /\ RowsStay
    BY <1>1, <1>3, MarksOfOthers, UndoRowsStay
  <2> QED  BY <1>1, <2>1 DEF RowsStay, Applied
<1>4. CASE \/ \E p \in Procs : ClientDisconnects(p)
           \/ Crash
           \/ \E r \in Routers, id \in Ids : ExternalEdit(r, id)
           \/ UNCHANGED vars
  BY <1>4, EnvironmentStepDoes DEF EnvironmentDoes, Applied, Same
<1> QED  BY <1>2, <1>3, <1>4 DEF Next, Quiescent

\* A row that tells of an operation told so before, or was just inserted.
LEMMA RowsTold ==
    ASSUME LogInv, [Next]_vars, NEW g \in Executes, NEW i \in 1..Len(Ops[g]),
           NEW d, d \in RowsOf(g, i)'
    PROVE  \/ \E c \in RowsOf(g, i) : Same(d, c)
           \/ pc[g] = "insert" /\ idx[g] = i /\ Same(d, draft[g])
<1>1. /\ TypeInv /\ SnapFits /\ UndoTypeOK /\ i \in Positions
      /\ \A e \in Executes : e \in Procs
      /\ \A u \in Undos : u \in Procs
  BY OpsAssumption DEF LogInv, LockInv, FitsOK, TypeInv, TypeOK, Positions, Procs
<1>2. CASE Applied(rows'[g], i) /\ d = rows'[g][i]
  BY <1>2, TableTold, RowsOfAre
<1>3. ASSUME NEW u \in Undos, target'[u] = g, Applied(snap'[u].rows, i), d = snap'[u].rows[i]
      PROVE  \E c \in RowsOf(g, i) : Same(d, c)
  <2>1. \/ target'[u] = target[u] /\ snap'[u] = snap[u]
        \/ UndoDoes(u)
    <3>1. CASE \E e \in Executes : ExecuteStep(e)
      BY <1>1, <3>1, ExecuteStepDoes
    <3>2. CASE UndoStep(u)
      BY <1>1, <3>2, UndoStepDoes
    <3>3. CASE \E v \in Undos \ {u} : UndoStep(v)
      <4>1. \E v \in Undos \ {u} : OthersData(v)
        BY <3>3, UndoMovesOnly DEF MovesOnly, LogInv
      <4> QED  BY <1>1, <4>1 DEF OthersData
    <3>4. CASE \/ \E p \in Procs : ClientDisconnects(p)
               \/ Crash
               \/ \E r \in Routers, id \in Ids : ExternalEdit(r, id)
               \/ UNCHANGED vars
      BY <3>4, EnvironmentStepDoes DEF EnvironmentDoes
    <3> QED  BY <3>1, <3>2, <3>3, <3>4 DEF Next, Quiescent
  <2>2. CASE target'[u] = target[u] /\ snap'[u] = snap[u]
    <3>1. snap[u].rows[i] \in RowsOf(g, i)
      BY <1>3, <2>2, RowsOfAre
    <3> QED  BY <1>3, <2>2, <3>1 DEF Same
  <2>3. CASE ReadsGroup(u)
    <3>1. snap'[u].rows = snap[u].rows /\ pc[u] = "idle"
      BY <1>1, <2>3 DEF ReadsGroup, Moves, UndoTypeOK
    <3> QED  BY <1>1, <1>3, <3>1 DEF SnapFits, Applied
  <2>4. CASE ReadsRows(u) /\ snap' = [snap EXCEPT ![u].rows = rows[target[u]]]
    <3>1. snap'[u].rows = rows[g]
      BY <1>1, <1>3, <2>4 DEF ReadsRows, UndoTypeOK
    <3>2. rows[g][i] \in RowsOf(g, i)
      BY <1>3, <3>1, RowsOfAre
    <3> QED  BY <1>3, <3>1, <3>2 DEF Same
  <2> QED
    BY <2>1, <2>2, <2>3, <2>4
       DEF UndoDoes, ReadsRows, GoesOn, TakesBack, MarksUndone, Finishes
<1> QED  BY <1>2, <1>3, RowsOfAre

\* The router carries out operation i of group g, or the reversal of it.
Carrying(g, i) == ApplyOperation(g) /\ idx[g] = i /\ Carry(g, i)
Reversing(g, i) ==
    \E d \in RowsOf(g, i) :
        /\ d \in Row /\ CarryReverse(g, i, d)
        /\ \/ RollbackOne(g) /\ idx[g] = i /\ d = rows[g][i]
           \/ \E u \in Undos : /\ UndoReverse(u) /\ target[u] = g /\ d = snap[u].rows[i]
                              /\ NextTodo(u, i) /\ idx'[u] = i

\* The counts of what is in force change with these calls only, and without
\* them nobody but an edit writes a router.
LEMMA CallsCount ==
    ASSUME LogInv, [Next]_vars
    PROVE  \/ UNCHANGED balance /\ (UNCHANGED <<config, nextId>> \/ ~NothingElseWrites)
           \/ \E g \in Executes : \E i \in 1..Len(Ops[g]) : Carrying(g, i) \/ Reversing(g, i)
<1>1. /\ TypeInv /\ FitsOK /\ DbTypeOK /\ UndoTypeOK /\ ControlTypeOK
      /\ \A u \in Undos : u \in Procs
  BY DEF LogInv, LockInv, TypeInv, TypeOK, Procs
<1>2. ASSUME NEW e \in Executes, ApplyOperation(e), ~UNCHANGED routerVars
      PROVE  \E i \in 1..Len(Ops[e]) : Carrying(e, i)
  BY <1>1, <1>2, LoopPosition DEF ApplyOperation, Carrying
<1>3. ASSUME NEW e \in Executes, RollbackOne(e), ~UNCHANGED routerVars
      PROVE  \E i \in 1..Len(Ops[e]) : Reversing(e, i)
  <2>1. pc[e] = "rollback" /\ idx[e] > 0 /\ CarryReverse(e, idx[e], rows[e][idx[e]])
    BY <1>3 DEF RollbackOne
  <2>2. idx[e] \in 1..Len(Ops[e]) /\ idx[e] \in Positions /\ idx[e] \in Nat
    BY <1>1, <2>1, LoopPosition
  <2>3. Applied(rows[e], idx[e])
    BY <2>1, <2>2 DEF LogInv, LogTells, RollingBack
  <2>4. rows[e][idx[e]] \in Row /\ rows[e][idx[e]] \in RowsOf(e, idx[e])
    BY <1>1, <2>2, <2>3, RowsOfAre DEF Applied, DbTypeOK
  <2> QED  BY <1>3, <2>1, <2>2, <2>4 DEF Reversing
<1>4. ASSUME NEW u \in Undos, UndoReverse(u), ~UNCHANGED routerVars
      PROVE  \E g \in Executes : \E i \in 1..Len(Ops[g]) : Reversing(g, i)
  <2>1. PICK i \in Positions :
            /\ NextTodo(u, i) /\ idx' = [idx EXCEPT ![u] = i]
            /\ CarryReverse(target[u], i, snap[u].rows[i])
    BY <1>4 DEF UndoReverse
  <2>2. i \in Todo(u) /\ idx'[u] = i
    BY <1>1, <2>1 DEF NextTodo, ControlTypeOK
  <2>3. target[u] \in Executes /\ i \in 1..Len(Ops[target[u]]) /\ snap[u].rows[i] \in Row
    BY <1>1, <2>2, TodoFits
  <2>4. Applied(snap[u].rows, i)
    BY <2>2 DEF Todo, Applied
  <2>5. snap[u].rows[i] \in RowsOf(target[u], i)
    BY <2>4, RowsOfAre
  <2> QED  BY <1>4, <2>1, <2>2, <2>3, <2>5 DEF Reversing
<1>5. CASE \E e \in Executes : ExecuteStep(e)
  <2>1. PICK e \in Executes : ExecuteStep(e)
    BY <1>5
  <2>2. UNCHANGED routerVars \/ ApplyOperation(e) \/ RollbackOne(e)
    BY <2>1 DEF ExecuteStep, ExecuteStart, AcquireNext, AllLocked, CreateGroup,
       GetClients, Abandon, FetchBefore, FetchAfter, InsertOperation, Succeed,
       RecordFailure, RollbackMark, RollbackGroup, RespondFailure
  <2> QED  BY <1>2, <1>3, <2>2 DEF routerVars
<1>6. CASE \E u \in Undos : UndoStep(u)
  <2>1. PICK u \in Undos : UndoStep(u)
    BY <1>6
  <2>2. UNCHANGED routerVars \/ UndoReverse(u)
    BY <2>1 DEF UndoStep, UndoReadGroup, UndoReadOps, AcquireNext, AllLocked, UndoClients,
         UndoMatch, UndoMark, UndoAttention, UndoFinish
  <2> QED  BY <1>4, <2>2 DEF routerVars
<1>7. CASE \/ \E p \in Procs : ClientDisconnects(p)
           \/ Crash
           \/ \E r \in Routers, id \in Ids : ExternalEdit(r, id)
           \/ UNCHANGED vars
  BY <1>7 DEF ClientDisconnects, Crash, ExternalEdit, Inject, NothingElseWrites, vars, routerVars
<1> QED  BY <1>5, <1>6, <1>7 DEF Next, Quiescent

\* What they count.
LEMMA CallCounts ==
    ASSUME TypeInv, NEW g \in Executes, NEW i \in 1..Len(Ops[g])
    PROVE  /\ Carrying(g, i) => Counted(g, i, 1)
           /\ Reversing(g, i) => Counted(g, i, -1)
<1>1. RouterTypeOK
  BY DEF TypeInv, TypeOK
<1>2. Carrying(g, i) => Count(g, i, 1)
  BY DEF Carrying, Carry
<1>3. Reversing(g, i) => Count(g, i, -1)
  BY DEF Reversing, CarryReverse
<1> QED  BY <1>1, <1>2, <1>3, CountCounts

\* The count of an operation changes with its own calls.
LEMMA CountStays ==
    ASSUME LogInv, [Next]_vars, NEW g \in Executes, NEW i \in 1..Len(Ops[g]),
           ~Carrying(g, i), ~Reversing(g, i)
    PROVE  balance'[g][i] = balance[g][i]
<1>1. TypeInv /\ i \in Positions
  BY OpsAssumption DEF LogInv, LockInv, Positions
<1>2. CASE UNCHANGED balance
  BY <1>2
<1>3. ASSUME NEW h \in Executes, NEW j \in 1..Len(Ops[h]), Carrying(h, j) \/ Reversing(h, j)
      PROVE  balance'[g][i] = balance[g][i]
  <2>1. \E n : Counted(h, j, n)
    BY <1>1, <1>3, CallCounts
  <2> QED  BY <1>1, <1>3, <2>1 DEF Counted
<1> QED  BY <1>2, <1>3, CallsCount

\* Before a request applies an operation nobody tells of it.
LEMMA NothingTold ==
    ASSUME LogInv, NEW g \in Executes, NEW i \in 1..Len(Ops[g]), pc[g] = "apply", idx[g] = i
    PROVE  Told(g, i) = {} /\ balance[g][i] = 0
<1>1. i \in Positions /\ i \in Nat /\ ExecuteBooks(g) /\ \A u \in Undos : UndoBooks(u)
  BY OpsAssumption DEF LogInv, BooksInv, BooksOK, Positions
<1>2. rows[g][i] = NoRow /\ balance[g][i] = 0
  BY <1>1 DEF ExecuteBooks, Unlogged, Unapplied
<1>3. \A u \in Undos : target[u] = g => snap[u].rows[i] = NoRow
  BY <1>1, <1>2 DEF UndoBooks
<1>4. RowsOf(g, i) = {}
  BY <1>2, <1>3, RowsOfAre DEF Applied
<1> QED  BY <1>2, <1>4 DEF Told, DraftOf

\* An operation is told of as before, or a request has just carried it out.
LEMMA ToldStays ==
    ASSUME LogInv, [Next]_vars, NEW g \in Executes, NEW i \in 1..Len(Ops[g]), NEW d, d \in Told(g, i)'
    PROVE  \/ \E c \in Told(g, i) : c.id = d.id /\ c.before = d.before
           \/ /\ Carrying(g, i) /\ d.before = draft[g].before
              /\ d.id = IF Type(g, i) = "add" THEN nextId[On(g, i)] ELSE draft[g].id
<1>1. TypeInv
  BY DEF LogInv, LockInv
<1>2. CASE d \in DraftOf(g, i)'
  <2>1. pc'[g] \in {"after", "insert"} /\ idx'[g] = i /\ d = draft'[g]
    BY <1>2 DEF DraftOf
  <2> QED  BY <1>1, <2>1, DraftTold DEF Told, DraftOf, Carrying
<1>3. CASE d \in RowsOf(g, i)'
  <2>1. CASE \E c \in RowsOf(g, i) : Same(d, c)
    BY <2>1 DEF Told, Same
  <2>2. CASE pc[g] = "insert" /\ idx[g] = i /\ Same(d, draft[g])
    BY <2>2 DEF Told, DraftOf, Same
  <2> QED  BY <1>3, <2>1, <2>2, RowsTold
<1> QED  BY <1>2, <1>3 DEF Told

\* What was added has one ID; while it is there the operation is in force.
LEMMA AdditionStays ==
    ASSUME LogInv, [Next]_vars, NEW g \in Executes, NEW i \in 1..Len(Ops[g]), Type(g, i) = "add",
           AdditionTells(g, i)
    PROVE  AdditionTells(g, i)'
<1> DEFINE r == On(g, i)
<1>1. /\ TypeInv /\ RouterTypeOK /\ i \in Positions /\ RoutersGrow
      /\ r \in Routers /\ nextId[r] \in Nat /\ nextId'[r] \in Nat /\ nextId'[r] >= nextId[r]
      /\ balance[g][i] \in {0, 1}
      /\ \A x \in Ids : x \in Nat
  <2>1. LogInv' /\ RoutersGrow
    BY NextKeepsLog
  <2>2. TypeInv /\ RouterTypeOK /\ RouterTypeOK'
    BY <2>1 DEF LogInv, LockInv, TypeInv, TypeOK
  <2>3. r \in Routers /\ i \in Positions
    BY OpsAssumption, OpAtType DEF Positions, Operation, On
  <2>4. nextId[r] \in Nat /\ nextId'[r] \in Nat /\ nextId'[r] >= nextId[r]
    BY <2>1, <2>2, <2>3 DEF RouterTypeOK, RoutersGrow
  <2> QED  BY <2>1, <2>2, <2>3, <2>4, IdsAssumption DEF AdditionTells, Balanced
<1>2. CASE Carrying(g, i)
  <2>1. Told(g, i) = {} /\ balance[g][i] = 0
    BY <1>2, NothingTold DEF Carrying, ApplyOperation
  <2>2. balance'[g][i] = 1
    BY <1>1, <1>2, <2>1, CallCounts DEF Counted
  <2>3. CreateResource(r, OpAt(g, i).body)
    BY <1>2 DEF Carrying, Carry, On, Type
  <2>4. nextId[r] \in Ids /\ nextId[r] < nextId'[r]
    BY <1>1, <2>3, CreateMakes
  <2>5. \A d \in Told(g, i)' : d.id = nextId[r]
    BY <2>1, ToldStays
  <2> QED  BY <2>2, <2>4, <2>5 DEF AdditionTells, Balanced
<1>3. CASE ~Carrying(g, i)
  <2>1. \A d \in Told(g, i)' : \E c \in Told(g, i) : c.id = d.id
    BY <1>3, ToldStays
  <2>2. \A d \in Told(g, i)' : \A c \in Told(g, i)' : c.id = d.id
    BY <2>1 DEF AdditionTells
  <2>3. \A d \in Told(g, i)' : d.id \in Ids /\ d.id < nextId'[r]
    <3> SUFFICES ASSUME NEW d \in Told(g, i)' PROVE d.id \in Ids /\ d.id < nextId'[r]
      OBVIOUS
    <3>1. d.id \in Ids /\ d.id < nextId[r]
      BY <2>1 DEF AdditionTells
    <3> QED  BY <1>1, <3>1
  <2>4. CASE Reversing(g, i)
    <3>1. PICK d \in RowsOf(g, i) : CarryReverse(g, i, d)
      BY <2>4 DEF Reversing
    <3>2. d \in Told(g, i) /\ DeleteResource(r, d.id)
      BY <3>1 DEF Told, CarryReverse, On, Type
    <3>3. d.id \in Ids /\ config[r][d.id] # Absent /\ config'[r][d.id] = Absent
      BY <1>1, <3>2, DeleteRemoves DEF AdditionTells
    <3>4. balance[g][i] = 1
      BY <3>2, <3>3 DEF AdditionTells
    <3>5. balance'[g][i] = 0
      BY <1>1, <2>4, <3>4, CallCounts DEF Counted
    <3>6. \A c \in Told(g, i)' : c.id = d.id
      BY <2>1, <3>2 DEF AdditionTells
    <3> QED  BY <2>2, <2>3, <3>3, <3>5, <3>6 DEF AdditionTells, Balanced
  <2>5. CASE ~Reversing(g, i)
    <3>1. balance'[g][i] = balance[g][i]
      BY <1>3, <2>5, CountStays
    <3>2. ASSUME NEW d \in Told(g, i)', config'[r][d.id] # Absent
          PROVE  balance[g][i] = 1
      <4>1. PICK c \in Told(g, i) : c.id = d.id
        BY <2>1
      <4>2. c.id \in Ids /\ c.id < nextId[r]
        BY DEF AdditionTells
      <4>3. config[r][c.id] # Absent
        BY <1>1, <3>2, <4>1, <4>2 DEF RoutersGrow
      <4> QED  BY <4>3 DEF AdditionTells
    <3> QED  BY <1>1, <2>2, <2>3, <3>1, <3>2 DEF AdditionTells, Balanced
  <2> QED  BY <2>4, <2>5
<1> QED  BY <1>2, <1>3

\* Nothing is told of at the start.
LEMMA InitAdditions == Init => AdditionsOK
<1> SUFFICES ASSUME Init, NEW g \in Executes, NEW i \in 1..Len(Ops[g])
             PROVE  AdditionTells(g, i)
  BY DEF AdditionsOK
<1>1. i \in Positions
  BY OpsAssumption DEF Positions
<1>2. balance[g][i] = 0 /\ rows[g][i] = NoRow /\ pc[g] = "idle"
  BY <1>1 DEF Init, Procs
<1>3. \A u \in Undos : snap[u].rows[i] = NoRow
  BY <1>1 DEF Init, NoSnap
<1>4. Told(g, i) = {}
  BY <1>2, <1>3, RowsOfAre DEF Told, DraftOf, Applied
<1> QED  BY <1>2, <1>4 DEF AdditionTells, Balanced

\* A resource that an operation added is removed at most once, and only after
\* it was added, whatever fails, however many Undos of the group there are,
\* and whatever is edited past the service: the half of ChangesReversedOnce
\* (service.go, rollback.go) that needs no strict matching.
THEOREM AdditionsRemovedOnce ==
    Spec => [](\A g \in Executes : \A i \in 1..Len(Ops[g]) :
                  OpAt(g, i).type = "add" => Balanced(g, i))
<1>1. Init => LogInv /\ AdditionsOK
  BY InitLog, InitAdditions
<1>2. LogInv /\ AdditionsOK /\ [Next]_vars => (LogInv /\ AdditionsOK)'
  <2> SUFFICES ASSUME LogInv, AdditionsOK, [Next]_vars PROVE LogInv' /\ AdditionsOK'
    OBVIOUS
  <2> QED  BY NextKeepsLog, AdditionStays DEF AdditionsOK, Type
<1>3. AdditionsOK => \A g \in Executes : \A i \in 1..Len(Ops[g]) :
                        OpAt(g, i).type = "add" => Balanced(g, i)
  BY DEF AdditionsOK, AdditionTells, Type
<1> QED  BY <1>1, <1>2, <1>3, PTL DEF Spec

-----------------------------------------------------------------------------
(* Nor is a change reversed twice, where no other operation is about its   *)
(* resource: it is in force as long as the resource is in the state it     *)
(* left, which an Undo checks before it reverses it.                       *)

Old(g, i) == Existing[On(g, i)][OpAt(g, i).id]
Changed(g, i) == Merge(Old(g, i), OpAt(g, i).body)

\* Operation i of group g changes its resource, and no other operation of the
\* requests is about it.
Lone(g, i) ==
    /\ Type(g, i) = "modify"
    /\ Old(g, i) # Absent => Changed(g, i) # Old(g, i)
    /\ \A h \in Executes : \A j \in 1..Len(Ops[h]) :
          <<h, j>> # <<g, i>> /\ Type(h, j) # "add" =>
              On(h, j) # On(g, i) \/ OpAt(h, j).id # OpAt(g, i).id
WritersAreAlone ==
    \A g \in Executes : \A i \in 1..Len(Ops[g]) :
        Type(g, i) = "modify" /\ OnlyWriter(g, i) => Lone(g, i)

\* Where request g has not reversed operation i, and where Undo u found it in
\* force and has not reversed it.
Due(g, i) ==
    \/ /\ pc[g] \in {"before", "apply", "after", "insert", "recordFailure", "markUndone", "markFailed"}
       /\ i < idx[g]
    \/ pc[g] \in {"after", "insert", "rollback"} /\ i <= idx[g]
DueFor(u, i) ==
    /\ i \in Todo(u)
    /\ \/ pc[u] = "match" /\ i > idx[u]
       \/ pc[u] = "reverse" /\ i <= idx[u]
       \/ pc[u] = "mark" /\ i < idx[u]

\* The resource, the code and the log agree on whether operation i is in force.
ResourceTells(g, i) ==
    /\ Balanced(g, i)
    /\ config[On(g, i)][OpAt(g, i).id] = IF balance[g][i] = 1 THEN Changed(g, i) ELSE Old(g, i)
CodeTells(g, i) ==
    /\ Due(g, i) => balance[g][i] = 1
    /\ \A u \in Undos : target[u] = g /\ DueFor(u, i) => balance[g][i] = 1
RecordsTell(g, i) ==
    /\ pc[g] = "apply" /\ idx[g] = i => draft[g].before = Old(g, i)
    /\ pc[g] = "insert" /\ idx[g] = i => draft[g].after \in {Changed(g, i), BodyOnly}
    /\ \A d \in Told(g, i) : d.id = OpAt(g, i).id /\ d.before = Old(g, i)
    /\ \A d \in RowsOf(g, i) : d.after \in {Changed(g, i), BodyOnly}
ChangeTells(g, i) ==
    IF Old(g, i) = Absent THEN balance[g][i] = 0
    ELSE ResourceTells(g, i) /\ CodeTells(g, i) /\ RecordsTell(g, i)
ChangesOK ==
    \A g \in Executes : \A i \in 1..Len(Ops[g]) : Lone(g, i) => ChangeTells(g, i)

\* What restoring needs covers the log.
LEMMA RestoreLog == RestoreInv => LogInv
BY DEF RestoreInv, LogInv, RestoreOK, RoutersTell, ExecuteTells

\* A step is one of request p, or it leaves what p works on alone, or p ends.
LEMMA OwnStep ==
    ASSUME LogInv, [Next]_vars, NEW p \in Procs
    PROVE  \/ p \in Executes /\ ExecuteStep(p)
           \/ p \in Undos /\ UndoStep(p)
           \/ pc'[p] = "done"
           \/ /\ pc'[p] = pc[p] /\ idx'[p] = idx[p]
              /\ p \in Executes => draft'[p] = draft[p]
              /\ p \in Undos => target'[p] = target[p] /\ snap'[p] = snap[p]
<1>1. TypeInv /\ LockInv
  BY DEF LogInv, LockInv
<1>2. ASSUME NEW e \in Executes, ExecuteStep(e), e # p
      PROVE  /\ pc'[p] = pc[p] /\ idx'[p] = idx[p]
             /\ p \in Executes => draft'[p] = draft[p]
             /\ p \in Undos => target'[p] = target[p] /\ snap'[p] = snap[p]
  <2>1. ExecuteDoes(e) /\ UNCHANGED <<target, snap>>
    BY <1>1, <1>2, ExecuteStepDoes
  <2>2. OthersStay(e) /\ \A q \in Procs \ {e} : idx'[q] = idx[q]
    BY <1>1, <2>1, ExecuteDoesOwn
  <2> QED  BY <1>1, <1>2, <2>1, <2>2, DraftsOfOthersStay DEF OthersStay
<1>3. ASSUME NEW u \in Undos, UndoStep(u), u # p
      PROVE  /\ pc'[p] = pc[p] /\ idx'[p] = idx[p]
             /\ p \in Executes => draft'[p] = draft[p]
             /\ p \in Undos => target'[p] = target[p] /\ snap'[p] = snap[p]
  <2>1. UndoDoes(u)
    BY <1>1, <1>3, UndoStepDoes
  <2>2. idx'[p] = idx[p]
    BY <1>3, <2>1
       DEF UndoDoes, ReadsGroup, ReadsRows, GoesOn, TakesBack, MarksUndone, Finishes, Turns
  <2>3. OthersStay(u) /\ OthersData(u)
    BY <1>1, <1>3, UndoMovesOnly DEF MovesOnly
  <2> QED  BY <1>1, <1>3, <2>2, <2>3, DraftsOfOthersStay DEF OthersStay, OthersData
<1>4. CASE \/ \E q \in Procs : ClientDisconnects(q)
           \/ Crash
           \/ \E r \in Routers, id \in Ids : ExternalEdit(r, id)
           \/ UNCHANGED vars
  <2>1. UNCHANGED <<idx, target, snap>> /\ (pc'[p] = pc[p] \/ pc'[p] = "done")
    BY <1>4, EnvironmentStepDoes DEF EnvironmentDoes
  <2>2. UNCHANGED draft
    BY <1>4 DEF ClientDisconnects, Crash, ExternalEdit, vars, execVars
  <2> QED  BY <2>1, <2>2
<1> QED  BY <1>2, <1>3, <1>4, ProcsAssumption DEF Next, Quiescent, Procs

\* A request that does not move and has the router of an operation for itself
\* sees nobody carry it out or reverse it.
LEMMA NobodyCalls ==
    ASSUME LogInv, NEW g \in Executes, NEW i \in 1..Len(Ops[g]),
           NEW p \in Procs, Critical(p), On(g, i) \in Needs(p), pc'[p] = pc[p]
    PROVE  ~Carrying(g, i) /\ ~Reversing(g, i)
<1>1. /\ ControlTypeOK /\ TypeInv /\ FitsOK /\ OwnedApart /\ g \in Procs
      /\ On(g, i) \in Needs(g)
      /\ \A u \in Undos : u \in Procs
  BY LockInvApart DEF LogInv, LockInv, TypeInv, TypeOK, Procs, Needs, On
<1>2. ASSUME NEW q \in Procs, Critical(q), On(g, i) \in Needs(q)
      PROVE  q = p
  BY <1>1, <1>2 DEF OwnedApart, Owned
<1>3. ASSUME ApplyOperation(g) \/ RollbackOne(g) PROVE FALSE
  <2>1. Critical(g) /\ pc'[g] # pc[g]
    BY <1>1, <1>3, GotoMovesOne DEF ApplyOperation, RollbackOne, Critical
  <2> QED  BY <1>1, <1>2, <2>1
<1>4. ASSUME NEW u \in Undos, UndoReverse(u), target[u] = g, NextTodo(u, i) PROVE FALSE
  <2>1. Critical(u) /\ pc'[u] # pc[u]
    BY <1>1, <1>4, GotoMovesOne DEF UndoReverse, Critical
  <2>2. On(g, i) \in Needs(u)
    BY <1>1, <1>4, TodoFits DEF NextTodo
  <2> QED  BY <1>1, <1>2, <2>1, <2>2
<1> QED  BY <1>3, <1>4 DEF Carrying, Reversing

\* A row that is reversed describes its operation.
LEMMA ReversedRow ==
    ASSUME RestoreInv, NEW g \in Executes, NEW i \in 1..Len(Ops[g]), Reversing(g, i)
    PROVE  \E d \in RowsOf(g, i) : d \in Row /\ CarryReverse(g, i, d) /\ Describes(d, g, i)
<1>1. PICK d \in RowsOf(g, i) :
          /\ d \in Row /\ CarryReverse(g, i, d)
          /\ \/ RollbackOne(g) /\ idx[g] = i /\ d = rows[g][i]
             \/ \E u \in Undos : /\ UndoReverse(u) /\ target[u] = g /\ d = snap[u].rows[i]
                                /\ NextTodo(u, i)
  BY DEF Reversing
<1>2. CASE RollbackOne(g) /\ idx[g] = i /\ d = rows[g][i]
  BY <1>1, <1>2, RollbackRow
<1>3. ASSUME NEW u \in Undos, UndoReverse(u), target[u] = g, d = snap[u].rows[i], NextTodo(u, i)
      PROVE  Describes(d, g, i)
  <2>1. Started(u) /\ i \in Todo(u)
    BY <1>3 DEF UndoReverse, Started, NextTodo
  <2> QED  BY <1>3, <2>1, UndoRow
<1> QED  BY <1>1, <1>2, <1>3

\* No other call is about the resource of an operation that is alone with it.
LEMMA LoneSpared ==
    ASSUME ChangesWhatIsThere, RestoreInv, NEW g \in Executes, NEW i \in 1..Len(Ops[g]), Lone(g, i),
           NEW h \in Executes, NEW j \in 1..Len(Ops[h]), <<h, j>> # <<g, i>>,
           Carrying(h, j) \/ Reversing(h, j)
    PROVE  config'[On(g, i)][OpAt(g, i).id] = config[On(g, i)][OpAt(g, i).id]
<1> DEFINE r == On(h, j)
           x == OpAt(g, i).id
<1>1. /\ RouterTypeOK /\ r \in Routers /\ On(g, i) \in Routers /\ x \in Ids /\ x \in Nat
      /\ nextId[r] \in Nat /\ FirstId[r] \in Nat /\ FirstId[r] <= nextId[r]
      /\ x < FirstId[On(g, i)] /\ OpAt(h, j).id \in Ids
      /\ \A y \in Ids : y \in Nat
  BY OpAtType, IdsAssumption
     DEF RestoreInv, LockInv, RestoreOK, TypeInv, TypeOK, RouterTypeOK, RoutersTell, Operation, On,
         ChangesWhatIsThere, Lone
<1>2. Type(h, j) # "add" => On(g, i) # r \/ OpAt(h, j).id # x
  BY DEF Lone
<1>3. SUFFICES ASSUME NEW w, Only(r, w), On(g, i) = r => w # x
               PROVE  config'[On(g, i)][x] = config[On(g, i)][x]
  <2>1. CASE Carrying(h, j)
    <3>1. CASE Type(h, j) = "add"
      <4>1. CreateResource(r, OpAt(h, j).body)
        BY <2>1, <3>1 DEF Carrying, Carry, On, Type
      <4>2. Only(r, nextId[r]) /\ (On(g, i) = r => nextId[r] # x)
        BY <1>1, <4>1, CreateMakes
      <4> QED  BY <1>3, <4>2
    <3>2. CASE Type(h, j) # "add"
      <4>1. \/ PatchResource(r, OpAt(h, j).id, OpAt(h, j).body)
            \/ DeleteResource(r, OpAt(h, j).id)
        BY <2>1, <3>2 DEF Carrying, Carry, On, Type
      <4>2. Only(r, OpAt(h, j).id)
        BY <1>1, <4>1, PatchSets, DeleteRemoves
      <4> QED  BY <1>2, <1>3, <3>2, <4>2
    <3> QED  BY <3>1, <3>2
  <2>2. CASE Reversing(h, j)
    <3>1. PICK d \in RowsOf(h, j) : CarryReverse(h, j, d) /\ Describes(d, h, j)
      BY <2>2, ReversedRow
    <3>2. CASE Type(h, j) = "delete"
      <4>1. CreateResource(r, d.before)
        BY <3>1, <3>2 DEF CarryReverse, On, Type
      <4>2. Only(r, nextId[r]) /\ (On(g, i) = r => nextId[r] # x)
        BY <1>1, <4>1, CreateMakes
      <4> QED  BY <1>3, <4>2
    <3>3. CASE Type(h, j) # "delete"
      <4>1. DeleteResource(r, d.id) \/ PatchResource(r, d.id, d.before)
        BY <3>1, <3>3 DEF CarryReverse, On, Type
      <4>2. Only(r, d.id)
        BY <1>1, <4>1, PatchSets, DeleteRemoves
      <4>3. On(g, i) = r => d.id # x
        BY <1>1, <1>2, <3>1 DEF Describes
      <4> QED  BY <1>3, <4>2, <4>3
    <3> QED  BY <3>2, <3>3
  <2> QED  BY <2>1, <2>2
<1> QED  BY <1>1, <1>3 DEF Only

\* What an operation that is alone with its resource is about.
LEMMA LoneFacts ==
    ASSUME ChangesWhatIsThere, RestoreInv, NEW g \in Executes, NEW i \in 1..Len(Ops[g]), Lone(g, i)
    PROVE  /\ LogInv /\ TypeInv /\ RouterTypeOK /\ i \in Positions /\ i \in Nat
           /\ On(g, i) \in Routers /\ OpAt(g, i).id \in Ids /\ OpAt(g, i).body \in State
           /\ Type(g, i) = "modify"
           /\ config[On(g, i)][OpAt(g, i).id] # Absent => Old(g, i) # Absent
           /\ Old(g, i) # Absent =>
                 /\ Old(g, i) \in State /\ Changed(g, i) \in State /\ Changed(g, i) # Old(g, i)
                 /\ Merge(Changed(g, i), Old(g, i)) = Old(g, i)
<1> DEFINE r == On(g, i)
           x == OpAt(g, i).id
<1>1. /\ LogInv /\ TypeInv /\ RouterTypeOK /\ RoutersTell
      /\ i \in Positions /\ i \in Nat /\ r \in Routers /\ x \in Ids /\ OpAt(g, i).body \in State
      /\ Type(g, i) = "modify"
  BY RestoreLog, OpAtType, OpsAssumption
     DEF RestoreInv, LockInv, RestoreOK, TypeInv, TypeOK, Positions, Operation, On, Lone
<1>2. config[r][x] # Absent => Old(g, i) # Absent
  <2>1. x < FirstId[r]
    BY <1>1 DEF ChangesWhatIsThere
  <2> QED  BY <1>1, <2>1 DEF RoutersTell, Alike, Old
<1>3. ASSUME Old(g, i) # Absent
      PROVE  /\ Old(g, i) \in State /\ Changed(g, i) \in State /\ Changed(g, i) # Old(g, i)
             /\ Merge(Changed(g, i), Old(g, i)) = Old(g, i)
  <2>1. Old(g, i) \in State
    <3>1. Existing[r] \in [Ids -> State \cup {Absent}]
      BY <1>1, IdsAssumption
    <3>2. Existing[r][x] \in State \cup {Absent}
      BY <1>1, <3>1
    <3> QED  BY <1>3, <3>2 DEF Old
  <2>2. Changed(g, i) \in State
    BY <1>1, <2>1, MergeType DEF Changed
  <2>3. SetFields(OpAt(g, i).body) \subseteq SetFields(Old(g, i))
    BY <1>1, <1>3 DEF ChangesWhatIsThere, Old
  <2>4. SetFields(Changed(g, i)) = SetFields(Old(g, i))
    BY <1>1, <2>1, <2>3, MergeKeepsFields DEF Changed
  <2>5. Merge(Changed(g, i), Old(g, i)) = Old(g, i)
    BY <2>1, <2>2, <2>4, MergeAlike
  <2> QED  BY <1>3, <2>1, <2>2, <2>5 DEF Lone
<1> QED  BY <1>1, <1>2, <1>3

\* What is not there at the start is never changed.
LEMMA AbsentStays ==
    ASSUME ChangesWhatIsThere, RestoreInv, [Next]_vars, NEW g \in Executes,
           NEW i \in 1..Len(Ops[g]), Lone(g, i), Old(g, i) = Absent
    PROVE  balance'[g][i] = balance[g][i]
<1>1. /\ LogInv /\ RouterTypeOK /\ On(g, i) \in Routers /\ Type(g, i) = "modify"
      /\ config[On(g, i)][OpAt(g, i).id] = Absent
  BY LoneFacts
<1>2. ~Carrying(g, i)
  <2>1. ~PatchResource(On(g, i), OpAt(g, i).id, OpAt(g, i).body)
    BY <1>1, PatchSets
  <2> QED  BY <1>1, <2>1 DEF Carrying, Carry, On, Type
<1>3. ~Reversing(g, i)
  BY <1>1, ReversedRow DEF Describes, Alike, Old
<1> QED  BY <1>1, <1>2, <1>3, CountStays

\* The resource tells whether the operation is in force.
LEMMA ResourceStays ==
    ASSUME NothingElseWrites, ChangesWhatIsThere, RestoreInv, [Next]_vars, NEW g \in Executes,
           NEW i \in 1..Len(Ops[g]), Lone(g, i), Old(g, i) # Absent,
           ResourceTells(g, i), CodeTells(g, i), RecordsTell(g, i)
    PROVE  ResourceTells(g, i)'
<1> DEFINE r == On(g, i)
           x == OpAt(g, i).id
           b == balance[g][i]
<1>1. /\ LogInv /\ TypeInv /\ RouterTypeOK /\ r \in Routers /\ x \in Ids /\ i \in Positions
      /\ Type(g, i) = "modify" /\ i \in Nat
      /\ Old(g, i) \in State /\ Merge(Changed(g, i), Old(g, i)) = Old(g, i)
      /\ b \in {0, 1}
  BY LoneFacts DEF ResourceTells, Balanced
<1>2. CASE Carrying(g, i)
  <2>1. b = 0
    BY <1>1, <1>2, NothingTold DEF Carrying, ApplyOperation
  <2>2. b' = 1
    BY <1>1, <1>2, <2>1, CallCounts DEF Counted
  <2>3. PatchResource(r, x, OpAt(g, i).body)
    BY <1>1, <1>2 DEF Carrying, Carry, On, Type
  <2>4. config'[r][x] = Changed(g, i)
    BY <1>1, <2>1, <2>3, PatchSets DEF ResourceTells, Changed
  <2> QED  BY <2>2, <2>4 DEF ResourceTells, Balanced, Changed, Old
<1>3. CASE Reversing(g, i)
  <2>1. PICK d \in RowsOf(g, i) :
            /\ CarryReverse(g, i, d)
            /\ \/ RollbackOne(g) /\ idx[g] = i
               \/ \E u \in Undos : UndoReverse(u) /\ target[u] = g /\ NextTodo(u, i)
    BY <1>3 DEF Reversing
  <2>2. Due(g, i) \/ \E u \in Undos : target[u] = g /\ DueFor(u, i)
    <3>1. CASE RollbackOne(g) /\ idx[g] = i
      BY <1>1, <3>1 DEF RollbackOne, Due
    <3>2. CASE \E u \in Undos : UndoReverse(u) /\ target[u] = g /\ NextTodo(u, i)
      BY <3>2 DEF UndoReverse, DueFor, NextTodo
    <3> QED  BY <2>1, <3>1, <3>2
  <2>3. b = 1
    BY <2>2 DEF CodeTells
  <2>4. b' = 0
    BY <1>1, <1>3, <2>3, CallCounts DEF Counted
  <2>5. d.id = x /\ d.before = Old(g, i)
    BY <2>1 DEF RecordsTell, Told
  <2>6. PatchResource(r, x, Old(g, i))
    BY <1>1, <2>1, <2>5 DEF CarryReverse, On, Type
  <2>7. config'[r][x] = Old(g, i)
    BY <1>1, <2>3, <2>6, PatchSets DEF ResourceTells
  <2> QED  BY <2>4, <2>7 DEF ResourceTells, Balanced, Changed, Old
<1>4. CASE ~Carrying(g, i) /\ ~Reversing(g, i)
  <2>1. b' = b
    BY <1>1, <1>4, CountStays
  <2>2. config'[r][x] = config[r][x]
    <3>1. CASE UNCHANGED config
      BY <3>1
    <3>2. ASSUME NEW h \in Executes, NEW j \in 1..Len(Ops[h]), Carrying(h, j) \/ Reversing(h, j)
          PROVE  config'[r][x] = config[r][x]
      BY <1>4, <3>2, LoneSpared
    <3> QED  BY <1>1, <3>1, <3>2, CallsCount
  <2> QED  BY <2>1, <2>2 DEF ResourceTells, Balanced, Changed, Old
<1> QED  BY <1>2, <1>3, <1>4

\* Of the requests that reverse operations of group g only one is past its
\* lock on the router of operation i.
LEMMA AloneAtWork ==
    ASSUME LogInv, NEW g \in Executes, NEW i \in 1..Len(Ops[g]),
           NEW u \in Undos, Critical(u), target[u] = g, i \in Todo(u)
    PROVE  /\ ~Critical(g)
           /\ \A v \in Undos \ {u} : ~(Critical(v) /\ target[v] = g /\ i \in Todo(v))
<1>1. TypeInv /\ FitsOK /\ OwnedApart /\ g \in Procs /\ \A v \in Undos : v \in Procs /\ v # g
  BY LockInvApart, ProcsAssumption DEF LogInv, LockInv, Procs
<1>2. On(g, i) \in Needs(g) /\ On(g, i) \in Needs(u)
  <2>1. On(g, i) \in Needs(g)
    BY DEF Needs, On
  <2> QED  BY <1>1, <2>1, TodoFits
<1>3. ~Critical(g)
  BY <1>1, <1>2 DEF OwnedApart, Owned
<1>4. ASSUME NEW v \in Undos \ {u}, Critical(v), target[v] = g, i \in Todo(v) PROVE FALSE
  <2>1. On(g, i) \in Needs(v)
    BY <1>1, <1>4, TodoFits
  <2> QED  BY <1>1, <1>2, <1>4, <2>1 DEF OwnedApart, Owned
<1> QED  BY <1>3, <1>4

\* Where request g has an operation to reverse it had it before, or it has
\* just carried it out.
LEMMA DueStays ==
    ASSUME LogInv, [Next]_vars, NEW g \in Executes, NEW i \in 1..Len(Ops[g]), Due(g, i)'
    PROVE  Carrying(g, i) \/ (Due(g, i) /\ ~Carrying(g, i) /\ ~Reversing(g, i))
<1>1. /\ TypeInv /\ ControlTypeOK /\ g \in Procs /\ i \in Nat /\ idx[g] \in Nat
      /\ On(g, i) \in Needs(g)
  BY OpsAssumption DEF LogInv, LockInv, TypeInv, TypeOK, ControlTypeOK, Procs, Needs, On
<1>2. ASSUME NEW u \in Undos, UndoReverse(u), target[u] = g, NextTodo(u, i), Critical(g)
      PROVE  FALSE
  BY <1>2, AloneAtWork DEF UndoReverse, Critical, NextTodo
<1>3. CASE ExecuteStep(g)
  <2>1. ExecuteDoes(g)
    BY <1>1, <1>3, ExecuteStepDoes
  <2>2. Critical(g)
    BY <2>1 DEF ExecuteDoes, Arrives, Creates, GetsClients, Enters, Looks, Applies, Logs, Records,
         Reverses, Marks, Concludes, Leaves, Moves, Due, Critical
  <2>3. ~Reversing(g, i)
    <3>1. ASSUME RollbackOne(g), idx[g] = i PROVE FALSE
      <4>1. pc'[g] \in {"markUndone", "markFailed"} /\ idx'[g] = idx[g]
        BY <1>1, <3>1, GotoMovesOne DEF RollbackOne
      <4> QED  BY <1>1, <3>1, <4>1 DEF Due
    <3> QED  BY <1>2, <2>2, <3>1 DEF Reversing
  <2>4. CASE pc[g] = "apply" /\ idx[g] = i
    <3>1. pc'[g] \in {"after", "insert", "recordFailure"} /\ idx'[g] = idx[g]
      BY <1>1, <2>1, <2>4
         DEF ExecuteDoes, Arrives, Creates, GetsClients, Looks, Applies, Logs, Records,
             Reverses, Marks, Concludes, Leaves, Moves
    <3>2. pc'[g] \in {"after", "insert"}
      BY <1>1, <2>4, <3>1 DEF Due
    <3> QED  BY <1>1, <2>4, <3>2, DraftTold DEF Carrying
  <2>5. CASE ~(pc[g] = "apply" /\ idx[g] = i)
    <3>1. ~Carrying(g, i)
      BY <2>5 DEF Carrying, ApplyOperation
    <3>2. Due(g, i)
      <4>1. CASE Arrives(g) \/ Creates(g) \/ Concludes(g) \/ Leaves(g)
        BY <4>1 DEF Arrives, Creates, Concludes, Leaves, Moves, Due
      <4>2. CASE GetsClients(g)
        <5>1. pc'[g] = "abandon" \/ (pc'[g] \in {"succeed", "before", "apply"} /\ idx'[g] = 1)
          BY <4>2 DEF GetsClients, Enters, Moves, Turns
        <5> QED  BY <1>1, <5>1 DEF Due
      <4>3. CASE Looks(g) \/ Applies(g) \/ Reverses(g)
        <5>1. /\ idx'[g] = idx[g]
              /\ \/ pc[g] = "before" /\ pc'[g] \in {"apply", "recordFailure"}
                 \/ pc[g] = "after" /\ pc'[g] = "insert"
                 \/ pc[g] = "apply" /\ pc'[g] \in {"after", "insert", "recordFailure"}
                 \/ pc[g] = "rollback" /\ pc'[g] \in {"markUndone", "markFailed"}
          BY <4>3 DEF Looks, Applies, Reverses, Moves
        <5> QED  BY <1>1, <2>5, <5>1 DEF Due
      <4>4. CASE Logs(g)
        <5>1. /\ pc[g] = "insert"
              /\ \/ pc'[g] \in {"succeed", "before", "apply"} /\ idx'[g] = idx[g] + 1
                 \/ pc'[g] = "rollback" /\ idx'[g] = idx[g] - 1
          BY <4>4 DEF Logs, Enters, Moves, Turns
        <5> QED  BY <1>1, <5>1 DEF Due
      <4>5. CASE Records(g) \/ Marks(g)
        <5>1. /\ pc[g] \in {"recordFailure", "markUndone", "markFailed"}
              /\ pc'[g] = "rollback" /\ idx'[g] = idx[g] - 1
          BY <4>5 DEF Records, Marks, Moves, Turns
        <5> QED  BY <1>1, <5>1 DEF Due
      <4> QED  BY <2>1, <4>1, <4>2, <4>3, <4>4, <4>5 DEF ExecuteDoes
    <3> QED  BY <2>3, <3>1, <3>2
  <2> QED  BY <2>4, <2>5
<1>4. CASE pc'[g] = pc[g] /\ idx'[g] = idx[g]
  <2>1. Due(g, i) /\ Critical(g)
    BY <1>4 DEF Due, Critical
  <2> QED  BY <1>1, <1>4, <2>1, NobodyCalls
<1>5. pc'[g] # "done" /\ g \notin Undos
  BY ProcsAssumption DEF Due
<1> QED  BY <1>1, <1>3, <1>4, <1>5, OwnStep

\* Where an Undo has an operation to reverse it had it before, or it has just
\* found its resource in the state the operation left.
LEMMA DueForStays ==
    ASSUME LogInv, [Next]_vars, NEW g \in Executes, NEW i \in 1..Len(Ops[g]), NEW u \in Undos,
           target'[u] = g, DueFor(u, i)'
    PROVE  /\ ~Carrying(g, i) /\ ~Reversing(g, i) /\ target[u] = g
           /\ \/ DueFor(u, i)
              \/ /\ UndoMatch(u) /\ i \in Todo(u)
                 /\ \/ Matches(g, i, snap[u].rows[i])
                    \/ Type(g, i) = "delete"
<1>1. /\ TypeInv /\ FitsOK /\ ControlTypeOK /\ UndoTypeOK /\ u \in Procs /\ idx[u] \in Nat
      /\ \A v \in Undos : v \in Procs
  BY DEF LogInv, LockInv, TypeInv, TypeOK, ControlTypeOK, Procs
<1>2. i \in Positions /\ i \in Nat /\ i <= MaxOps /\ MaxOps \in Nat
  BY OpsAssumption DEF Positions
<1>3. pc'[u] \in {"match", "reverse", "mark"} /\ i \in Todo(u)'
  BY DEF DueFor
<1>4. CASE UndoStep(u)
  <2>1. UndoClients(u) \/ UndoMatch(u) \/ UndoReverse(u) \/ UndoMark(u)
    <3>1. ~ \E h \in Executes : UndoReadGroup(u, h)
      BY <1>1, <1>3, GotoMovesOne, ReturnMovesOne DEF UndoReadGroup
    <3>2. ~UndoReadOps(u)
      BY <1>1, <1>3, GotoMovesOne, ReturnMovesOne DEF UndoReadOps
    <3>3. ~AcquireNext(u)
      BY <1>3 DEF AcquireNext
    <3>4. ~AllLocked(u)
      BY <1>1, <1>3, GotoMovesOne, ProcsAssumption DEF AllLocked
    <3>5. ~UndoAttention(u) /\ ~UndoFinish(u)
      BY <1>1, <1>3, ReturnMovesOne DEF UndoAttention, UndoFinish
    <3> QED  BY <1>4, <3>1, <3>2, <3>3, <3>4, <3>5 DEF UndoStep
  <2>2. /\ UNCHANGED <<target, snap>> /\ target[u] = g /\ i \in Todo(u) /\ Todo(u)' = Todo(u)
        /\ Critical(u)
    <3>1. UNCHANGED <<target, snap>> /\ Critical(u)
      BY <2>1 DEF UndoClients, UndoMatch, UndoReverse, UndoMark, undoVars, Critical
    <3> QED  BY <1>3, <3>1 DEF Todo
  <2>3. \A j \in Todo(u) : j \in Nat
    BY <1>1, TodoFits
  <2>4. \/ DueFor(u, i)
        \/ /\ UndoMatch(u)
           /\ Matches(g, i, snap[u].rows[i]) \/ Type(g, i) = "delete"
    <3>1. CASE UndoClients(u)
      <4>1. pc'[u] \in {"match", "done"} /\ idx'[u] = MaxOps
        BY <1>1, <3>1, GotoMovesOne, ReturnMovesOne DEF UndoClients, ControlTypeOK
      <4> QED  BY <1>2, <1>3, <4>1 DEF DueFor
    <3>2. CASE UndoMatch(u)
      <4>1. pc[u] = "match" /\ pc'[u] \in {"match", "reverse"}
        BY <1>1, <1>3, <3>2, GotoMovesOne, ReturnMovesOne DEF UndoMatch
      <4>2. CASE NothingTodo(u)
        BY <2>2, <4>1, <4>2 DEF DueFor, NothingTodo
      <4>3. CASE \E k \in Positions :
                    /\ NextTodo(u, k)
                    /\ Matches(g, k, snap[u].rows[k]) \/ Type(g, k) = "delete"
                    /\ idx' = [idx EXCEPT ![u] = k - 1] /\ UNCHANGED pc
        <5>1. PICK k \in Todo(u) :
                  /\ k <= idx[u] /\ \A j \in Todo(u) : j <= idx[u] => j <= k
                  /\ Matches(g, k, snap[u].rows[k]) \/ Type(g, k) = "delete"
                  /\ idx' = [idx EXCEPT ![u] = k - 1] /\ UNCHANGED pc
          BY <4>3 DEF NextTodo
        <5>2. idx'[u] = k - 1 /\ pc'[u] = "match" /\ k \in Nat
          BY <1>1, <2>3, <4>1, <5>1 DEF ControlTypeOK
        <5>3. i > k - 1
          BY <5>2 DEF DueFor
        <5>4. i > idx[u] \/ i = k
          BY <1>1, <1>2, <2>2, <5>1, <5>2, <5>3
        <5> QED  BY <2>2, <3>2, <4>1, <5>1, <5>4 DEF DueFor
      <4>4. ~ \E answer : Return(u, answer)
        BY <1>1, <4>1, ReturnMovesOne
      <4> QED  BY <2>2, <3>2, <4>2, <4>3, <4>4 DEF UndoMatch, Type
    <3>3. CASE UndoReverse(u)
      <4>1. pc'[u] \in {"mark", "attention"} /\ pc[u] = "reverse"
        BY <1>1, <3>3, GotoMovesOne DEF UndoReverse
      <4>2. PICK k \in Todo(u) : k <= idx[u] /\ idx'[u] = k
        BY <1>1, <3>3 DEF UndoReverse, NextTodo, ControlTypeOK
      <4>3. k \in Nat /\ i < k
        BY <1>3, <2>3, <4>1, <4>2 DEF DueFor
      <4>4. i <= idx[u]
        BY <1>1, <1>2, <4>2, <4>3
      <4> QED  BY <2>2, <4>1, <4>4 DEF DueFor
    <3>4. CASE UndoMark(u)
      <4>1. pc'[u] = "reverse" /\ pc[u] = "mark" /\ idx'[u] = idx[u] - 1
        BY <1>1, <3>4, GotoMovesOne DEF UndoMark, ControlTypeOK
      <4>2. i < idx[u]
        BY <1>1, <1>2, <4>1 DEF DueFor
      <4> QED  BY <2>2, <4>1, <4>2 DEF DueFor
    <3> QED  BY <2>1, <3>1, <3>2, <3>3, <3>4
  <2>5. ~Critical(g) /\ \A v \in Undos \ {u} : ~(Critical(v) /\ target[v] = g /\ i \in Todo(v))
    BY <2>2, AloneAtWork
  <2>6. ~Carrying(g, i) /\ ~RollbackOne(g)
    BY <2>5 DEF Carrying, ApplyOperation, RollbackOne, Critical
  <2>7. ASSUME NEW v \in Undos, UndoReverse(v), target[v] = g, NextTodo(v, i), idx'[v] = i
        PROVE  FALSE
    <3>1. v = u
      BY <2>5, <2>7 DEF UndoReverse, Critical, NextTodo
    <3>2. pc'[u] \in {"mark", "attention"}
      BY <1>1, <2>7, <3>1, GotoMovesOne DEF UndoReverse
    <3> QED  BY <1>2, <2>7, <3>1, <3>2 DEF DueFor
  <2>8. ~Reversing(g, i)
    BY <2>6, <2>7 DEF Reversing
  <2> QED  BY <2>2, <2>4, <2>6, <2>8
<1>5. CASE pc'[u] = pc[u] /\ idx'[u] = idx[u] /\ target'[u] = target[u] /\ snap'[u] = snap[u]
  <2>1. target[u] = g /\ DueFor(u, i) /\ Critical(u) /\ i \in Todo(u)
    BY <1>3, <1>5 DEF DueFor, Todo, Critical
  <2>2. On(g, i) \in Needs(u)
    BY <1>1, <2>1, TodoFits
  <2> QED  BY <1>1, <1>5, <2>1, <2>2, NobodyCalls
<1>6. pc'[u] # "done" /\ u \notin Executes
  BY <1>3, ProcsAssumption
<1> QED  BY <1>1, <1>4, <1>5, <1>6, OwnStep

\* A request that is about to change a resource has just read it.
LEMMA DraftRead ==
    ASSUME LogInv, [Next]_vars, NEW g \in Executes, NEW i \in 1..Len(Ops[g]), Type(g, i) # "add",
           pc'[g] = "apply", idx'[g] = i
    PROVE  /\ pc[g] \in {"before", "apply"} /\ idx[g] = i
           /\ \/ pc[g] = "apply" /\ draft'[g] = draft[g]
              \/ pc[g] = "before" /\ draft'[g].before = config[On(g, i)][OpAt(g, i).id]
<1>1. /\ TypeInv /\ ControlTypeOK /\ ExecTypeOK /\ g \in Procs /\ g \notin Undos
      /\ idx[g] \in Nat
  BY ProcsAssumption DEF LogInv, LockInv, TypeInv, TypeOK, ControlTypeOK, Procs
<1>2. CASE ExecuteStep(g)
  <2>1. ASSUME NEW n \in Nat, Enter(g, n) PROVE FALSE
    BY <1>1, <2>1, EnterTells
  <2>2. FetchBefore(g)
    <3>1. ~GetClients(g)
      BY <1>1, <2>1, GotoMovesOne DEF GetClients
    <3>2. ~InsertOperation(g)
      <4>1. idx[g] + 1 \in Nat
        BY <1>1
      <4> QED  BY <1>1, <2>1, <4>1, GotoMovesOne DEF InsertOperation
    <3>3. ~(ExecuteStart(g) \/ AcquireNext(g) \/ AllLocked(g) \/ CreateGroup(g) \/ Abandon(g))
      BY <1>1, GotoMovesOne, ReturnMovesOne
         DEF ExecuteStart, AcquireNext, AllLocked, CreateGroup, Abandon
    <3>4. ~(ApplyOperation(g) \/ FetchAfter(g) \/ Succeed(g) \/ RecordFailure(g))
      BY <1>1, GotoMovesOne, ReturnMovesOne
         DEF ApplyOperation, FetchAfter, Succeed, RecordFailure
    <3>5. ~(RollbackOne(g) \/ RollbackMark(g) \/ RollbackGroup(g) \/ RespondFailure(g))
      BY <1>1, GotoMovesOne, ReturnMovesOne
         DEF RollbackOne, RollbackMark, RollbackGroup, RespondFailure
    <3> QED  BY <1>2, <3>1, <3>2, <3>3, <3>4, <3>5 DEF ExecuteStep
  <2>3. ~Goto(g, "recordFailure")
    BY <1>1, GotoMovesOne
  <2>4. /\ pc[g] = "before" /\ idx[g] = i
        /\ draft' = [draft EXCEPT ![g].before = config[On(g, i)][OpAt(g, i).id]]
    BY <2>2, <2>3 DEF FetchBefore, Resource, On
  <2>5. draft'[g].before = config[On(g, i)][OpAt(g, i).id]
    BY <1>1, <2>4 DEF ExecTypeOK, Draft
  <2> QED  BY <2>4, <2>5
<1> QED  BY <1>1, <1>2, OwnStep DEF Procs

\* The code knows that an operation is in force.
LEMMA CodeStays ==
    ASSUME ChangesWhatIsThere, RestoreInv, [Next]_vars, NEW g \in Executes,
           NEW i \in 1..Len(Ops[g]), Lone(g, i), Old(g, i) # Absent,
           ResourceTells(g, i), CodeTells(g, i), RecordsTell(g, i)
    PROVE  CodeTells(g, i)'
<1>1. /\ LogInv /\ TypeInv /\ i \in Positions /\ Type(g, i) = "modify"
      /\ Old(g, i) \in State /\ Changed(g, i) \in State
  BY LoneFacts
<1>2. ASSUME Due(g, i)' PROVE balance'[g][i] = 1
  <2>1. CASE Carrying(g, i)
    <3>1. balance[g][i] = 0
      BY <1>1, <2>1, NothingTold DEF Carrying, ApplyOperation
    <3> QED  BY <1>1, <2>1, <3>1, CallCounts DEF Counted
  <2>2. CASE Due(g, i) /\ ~Carrying(g, i) /\ ~Reversing(g, i)
    BY <1>1, <2>2, CountStays DEF CodeTells
  <2> QED  BY <1>1, <1>2, <2>1, <2>2, DueStays
<1>3. ASSUME NEW u \in Undos, target'[u] = g, DueFor(u, i)' PROVE balance'[g][i] = 1
  <2>1. /\ ~Carrying(g, i) /\ ~Reversing(g, i) /\ target[u] = g
        /\ \/ DueFor(u, i)
           \/ i \in Todo(u) /\ Matches(g, i, snap[u].rows[i])
    BY <1>1, <1>3, DueForStays
  <2>2. ASSUME i \in Todo(u), Matches(g, i, snap[u].rows[i]) PROVE balance[g][i] = 1
    <3>1. snap[u].rows[i] \in RowsOf(g, i)
      BY <2>1, <2>2, RowsOfAre DEF Todo, Applied
    <3>2. config[On(g, i)][OpAt(g, i).id] \in {Changed(g, i), BodyOnly}
      BY <1>1, <2>2, <3>1 DEF RecordsTell, Told, Matches, Resource, On, Type
    <3> QED  BY <1>1, <3>2, NullAssumption, LoneFacts DEF ResourceTells, Balanced
  <2>3. balance[g][i] = 1
    BY <2>1, <2>2 DEF CodeTells
  <2> QED  BY <1>1, <2>1, <2>3, CountStays
<1> QED  BY <1>2, <1>3 DEF CodeTells

\* The log tells the state before and after an operation.
LEMMA RecordsStay ==
    ASSUME ChangesWhatIsThere, RestoreInv, [Next]_vars, NEW g \in Executes,
           NEW i \in 1..Len(Ops[g]), Lone(g, i), Old(g, i) # Absent,
           ResourceTells(g, i), CodeTells(g, i), RecordsTell(g, i)
    PROVE  RecordsTell(g, i)'
<1> DEFINE r == On(g, i)
           x == OpAt(g, i).id
<1>1. /\ LogInv /\ TypeInv /\ ControlTypeOK /\ ExecTypeOK /\ ExecuteBooks(g) /\ DraftTells(g)
      /\ g \in Procs /\ i \in Positions /\ i \in Nat /\ Type(g, i) = "modify"
  BY LoneFacts
     DEF RestoreInv, RestoreOK, ExecuteTells, BooksInv, BooksOK, TypeInv, TypeOK, Procs
<1>2. ASSUME pc'[g] = "apply", idx'[g] = i PROVE draft'[g].before = Old(g, i)
  <2>1. CASE pc[g] = "apply" /\ idx[g] = i /\ draft'[g] = draft[g]
    BY <2>1 DEF RecordsTell
  <2>2. CASE pc[g] = "before" /\ idx[g] = i /\ draft'[g].before = config[r][x]
    <3>1. balance[g][i] = 0
      BY <1>1, <2>2 DEF ExecuteBooks, Unlogged, Unapplied
    <3> QED  BY <2>2, <3>1 DEF ResourceTells
  <2> QED  BY <1>1, <1>2, <2>1, <2>2, DraftRead
<1>3. ASSUME pc'[g] = "insert", idx'[g] = i PROVE draft'[g].after \in {Changed(g, i), BodyOnly}
  <2>1. idx[g] = i
    BY <1>1, <1>3, DraftTold
  <2>2. CASE pc'[g] = pc[g] /\ draft'[g] = draft[g]
    BY <1>3, <2>1, <2>2 DEF RecordsTell
  <2>3. CASE FetchAfter(g) /\ pc[g] = "after"
    <3>1. draft'[g].after \in {config[r][draft[g].id], BodyOnly}
      BY <1>1, <2>1, <2>3 DEF FetchAfter, Resource, ExecTypeOK, Draft, On
    <3>2. draft[g].id = x
      BY <2>1, <2>3 DEF RecordsTell, Told, DraftOf
    <3>3. balance[g][i] = 1
      BY <1>1, <2>1, <2>3 DEF CodeTells, Due
    <3> QED  BY <3>1, <3>2, <3>3 DEF ResourceTells
  <2>4. CASE ApplyOperation(g)
    BY <1>1, <1>3, <2>1, <2>4, GotoMovesOne DEF ApplyOperation, Type
  <2> QED  BY <1>1, <1>3, <2>2, <2>3, <2>4, DraftTold
<1>4. ASSUME NEW d \in Told(g, i)' PROVE d.id = x /\ d.before = Old(g, i)
  <2>1. CASE \E c \in Told(g, i) : c.id = d.id /\ c.before = d.before
    BY <2>1 DEF RecordsTell
  <2>2. CASE Carrying(g, i) /\ d.before = draft[g].before /\ d.id = draft[g].id
    <3>1. pc[g] = "apply" /\ idx[g] = i
      BY <2>2 DEF Carrying, ApplyOperation
    <3> QED  BY <1>1, <2>2, <3>1 DEF DraftTells, RecordsTell
  <2> QED  BY <1>1, <2>1, <2>2, ToldStays
<1>5. ASSUME NEW d \in RowsOf(g, i)' PROVE d.after \in {Changed(g, i), BodyOnly}
  BY <1>1, RowsTold DEF Same, RecordsTell
<1> QED  BY <1>2, <1>3, <1>4, <1>5 DEF RecordsTell, Changed, Old

\* So an operation that is alone with its resource stays told of.
LEMMA ChangeStays ==
    ASSUME Restorable, RestoreInv, [Next]_vars, NEW g \in Executes, NEW i \in 1..Len(Ops[g]),
           Lone(g, i), ChangeTells(g, i)
    PROVE  ChangeTells(g, i)'
<1>1. CASE Old(g, i) = Absent
  <2>1. balance'[g][i] = 0
    BY <1>1, AbsentStays DEF ChangeTells, Restorable
  <2> QED  BY <1>1, <2>1 DEF ChangeTells, Old
<1>2. CASE Old(g, i) # Absent
  <2>1. ResourceTells(g, i) /\ CodeTells(g, i) /\ RecordsTell(g, i)
    BY <1>2 DEF ChangeTells
  <2>2. ResourceTells(g, i)' /\ CodeTells(g, i)' /\ RecordsTell(g, i)'
    BY <1>2, <2>1, ResourceStays, CodeStays, RecordsStay DEF Restorable
  <2> QED  BY <1>2, <2>2 DEF ChangeTells, Old
<1> QED  BY <1>1, <1>2

\* At the start no operation is in force.
LEMMA InitChanges == Init => ChangesOK
<1> SUFFICES ASSUME Init, NEW g \in Executes, NEW i \in 1..Len(Ops[g]) PROVE ChangeTells(g, i)
  BY DEF ChangesOK
<1>1. i \in Positions
  BY OpsAssumption DEF Positions
<1>2. /\ balance[g][i] = 0 /\ rows[g][i] = NoRow /\ pc[g] = "idle"
      /\ config[On(g, i)][OpAt(g, i).id] = Old(g, i)
      /\ \A u \in Undos : pc[u] = "idle"
  BY <1>1 DEF Init, Procs, Old
<1>3. \A u \in Undos : snap[u].rows[i] = NoRow
  BY <1>1 DEF Init, NoSnap
<1>4. RowsOf(g, i) = {} /\ Told(g, i) = {}
  BY <1>2, <1>3, RowsOfAre DEF Told, DraftOf, Applied
<1>5. CodeTells(g, i)
  BY <1>2 DEF CodeTells, Due, DueFor
<1> QED  BY <1>2, <1>4, <1>5 DEF ChangeTells, ResourceTells, RecordsTell, Balanced

\* A change to a resource that no other operation is about is reversed at most
\* once, however many Undos of its group passed the status check together and
\* whatever fails (service.go): the first phase lets one of them through.
THEOREM LoneChangesOnce ==
    Restorable =>
        (Spec => [](\A g \in Executes : \A i \in 1..Len(Ops[g]) : Lone(g, i) => Balanced(g, i)))
<1> SUFFICES ASSUME Restorable
             PROVE  Spec => [](\A g \in Executes : \A i \in 1..Len(Ops[g]) :
                                  Lone(g, i) => Balanced(g, i))
  OBVIOUS
<1>1. Init => RestoreInv /\ ChangesOK
  BY InitRestore, InitChanges
<1>2. RestoreInv /\ ChangesOK /\ [Next]_vars => (RestoreInv /\ ChangesOK)'
  <2> SUFFICES ASSUME RestoreInv, ChangesOK, [Next]_vars PROVE RestoreInv' /\ ChangesOK'
    OBVIOUS
  <2>1. \A g \in Executes : \A i \in 1..Len(Ops[g]) : Lone(g, i) => ChangeTells(g, i)'
    BY ChangeStays DEF ChangesOK
  <2>2. ChangesOK'
    BY <2>1 DEF ChangesOK, Lone, Type, On, Old, Changed
  <2> QED  BY <2>2, NextKeepsRestore
<1>3. ChangesOK => \A g \in Executes : \A i \in 1..Len(Ops[g]) : Lone(g, i) => Balanced(g, i)
  BY DEF ChangesOK, ChangeTells, ResourceTells, Balanced
<1> QED  BY <1>1, <1>2, <1>3, PTL DEF Spec

\* So additions and changes are reversed at most once (service.go), where a
\* change that alone writes its value also has its resource for itself.
THEOREM ChangesOnce == Restorable /\ WritersAreAlone => (Spec => []ChangesReversedOnce)
<1> SUFFICES ASSUME Restorable, WritersAreAlone PROVE Spec => []ChangesReversedOnce
  OBVIOUS
<1>1. /\ \A g \in Executes : \A i \in 1..Len(Ops[g]) : OpAt(g, i).type = "add" => Balanced(g, i)
      /\ \A g \in Executes : \A i \in 1..Len(Ops[g]) : Lone(g, i) => Balanced(g, i)
      => ChangesReversedOnce
  BY DEF ChangesReversedOnce, WritersAreAlone, Type
<1> QED  BY <1>1, AdditionsRemovedOnce, LoneChangesOnce, PTL

=============================================================================
