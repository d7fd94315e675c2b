---------------------- MODULE OperationLogReversalProofs ----------------------
(***************************************************************************)
(* What the operation log says of a mutation and what is in force on the   *)
(* routers, for every set of routers, requests and operations, in three    *)
(* parts of growing hypotheses: a row that says undone is right, whatever  *)
(* fails; a mutation in force has a row, unless the database, the client   *)
(* or the backend fails; and while only routers fail the status of a group *)
(* is right too, and the log keeps the promise of module GroupPromise.     *)
(* All three start from what a step does to the rows and to the counts of  *)
(* what is in force.                                                       *)
(***************************************************************************)
EXTENDS OperationLogProofs

-----------------------------------------------------------------------------
(* What the steps do to the log and to the counts of what is in force.     *)

\* A call of request p can fail in this way.
MayFail(p, kind) == p \in cancelled \/ kind \in FaultKinds

\* The count of operation i of group g changes by n.
Counted(g, i, n) ==
    /\ \A f \in Executes \ {g} : balance'[f] = balance[f]
    /\ \A j \in Positions :
          balance'[g][j] = IF j = i THEN balance[g][j] + n ELSE balance[g][j]

\* Row i of group g gets a status, or request p fails to write it.
Marked(p, g, i, s) ==
    /\ \A f \in Executes \ {g} : rows'[f] = rows[f]
    /\ \A j \in Positions :
          /\ rows'[g][j] = NoRow <=> rows[g][j] = NoRow
          /\ rows'[g][j] = rows[g][j] \/ (j = i /\ rows'[g][j].status = s)
          /\ j = i /\ rows[g][j] # NoRow /\ ~MayFail(p, "db") => rows'[g][j].status = s

\* Group g gets a status, or request p fails to write it.
Settled(p, g, s) ==
    /\ \A f \in Executes \ {g} : groupStatus'[f] = groupStatus[f]
    /\ groupStatus'[g] = s \/ (groupStatus'[g] = groupStatus[g] /\ MayFail(p, "db"))

\* Request p moves on in the code, and no other does.
Moves(p, from, to) ==
    /\ OthersStay(p)
    /\ pc[p] \in from /\ pc'[p] \in to
Stands(p) == \A q \in Procs : idx'[q] = idx[q]
Turns(p, i) == idx'[p] = i /\ \A q \in Procs \ {p} : idx'[q] = idx[q]

\* Counting changes the count of one operation.
LEMMA CountCounts ==
    ASSUME RouterTypeOK, NEW g \in Executes, NEW i, NEW n, Count(g, i, n)
    PROVE  Counted(g, i, n)
BY DEF Count, Counted, RouterTypeOK

\* A failing call is one that may fail.
LEMMA FailingMayFail ==
    ASSUME NEW p, NEW kind, CallFails(p, kind)
    PROVE  MayFail(p, kind)
BY DEF MayFail, CallFails, Inject

\* Writing the status of a row writes that of one row.
LEMMA SetRowStatusMarks ==
    ASSUME DbTypeOK, NEW p, NEW g \in Executes, NEW i, NEW s \in OpStatus,
           SetRowStatus(p, g, i, s)
    PROVE  Marked(p, g, i, s)
<1>1. CASE UNCHANGED rows /\ CallFails(p, "db")
  BY <1>1, FailingMayFail DEF Marked
<1>2. CASE rows' = [rows EXCEPT ![g][i] = IF @ = NoRow THEN NoRow ELSE [@ EXCEPT !.status = s]]
  <2>1. \A r \in Row : [r EXCEPT !.status = s].status = s /\ [r EXCEPT !.status = s] \in Row
    BY DEF Row
  <2>2. \A f \in Executes \ {g} : rows'[f] = rows[f]
    BY <1>2 DEF DbTypeOK
  <2>3. \A j \in Positions : j # i => rows'[g][j] = rows[g][j]
    BY <1>2 DEF DbTypeOK
  <2>4. i \in Positions =>
            rows'[g][i] = IF rows[g][i] = NoRow THEN NoRow ELSE [rows[g][i] EXCEPT !.status = s]
    BY <1>2 DEF DbTypeOK
  <2>5. i \in Positions => rows[g][i] \in Row \cup {NoRow}
    BY DEF DbTypeOK
  <2> QED  BY <2>1, <2>2, <2>3, <2>4, <2>5, NullAssumption DEF Marked
<1> QED  BY <1>1, <1>2 DEF SetRowStatus, BestEffort

\* Writing the status of a group writes that of one group.
LEMMA SetGroupStatusSettles ==
    ASSUME DbTypeOK, NEW p, NEW g \in Executes, NEW s, SetGroupStatus(p, g, s)
    PROVE  Settled(p, g, s)
<1>1. CASE UNCHANGED groupStatus /\ CallFails(p, "db")
  BY <1>1, FailingMayFail DEF Settled
<1>2. CASE groupStatus' = [groupStatus EXCEPT ![g] = s]
  BY <1>2 DEF Settled, DbTypeOK
<1> QED  BY <1>1, <1>2 DEF SetGroupStatus, BestEffort

\* The steps of Execute, as far as the log and the counts are concerned.
Arrives(e) ==
    /\ \/ Moves(e, {"idle"}, {"lock", "done"})
       \/ Moves(e, {"lock"}, {"lock", "create"})
    /\ UNCHANGED <<idx, balance, rows, groupStatus, rolledBack>>
Creates(e) ==
    /\ \/ /\ Moves(e, {"create"}, {"clients"})
          /\ groupStatus' = [groupStatus EXCEPT ![e] = "applied"]
       \/ Moves(e, {"create"}, {"done"}) /\ UNCHANGED groupStatus
    /\ UNCHANGED <<idx, balance, rows, rolledBack>>
Enters(e, i) ==
    /\ OthersStay(e) /\ Turns(e, i)
    /\ pc'[e] \in IF i > Len(Ops[e]) THEN {"succeed"} ELSE {"before", "apply"}
GetsClients(e) ==
    /\ pc[e] = "clients"
    /\ \/ Enters(e, 1)
       \/ Moves(e, {"clients"}, {"abandon"}) /\ UNCHANGED idx /\ MayFail(e, "db")
    /\ UNCHANGED <<balance, rows, groupStatus, rolledBack>>
Looks(e) ==
    /\ \/ Moves(e, {"before"}, {"apply", "recordFailure"})
       \/ Moves(e, {"after"}, {"insert"})
    /\ UNCHANGED <<idx, balance, rows, groupStatus, rolledBack>>
Applies(e) ==
    /\ \/ Moves(e, {"apply"}, {"after", "insert"}) /\ Counted(e, idx[e], 1)
       \/ /\ Moves(e, {"apply"}, {"recordFailure"})
          /\ UNCHANGED balance \/ (Counted(e, idx[e], 1) /\ MayFail(e, "lost"))
    /\ UNCHANGED <<idx, rows, groupStatus, rolledBack>>
Logged(e, i) ==
    /\ \A f \in Executes \ {e} : rows'[f] = rows[f]
    /\ \A j \in Positions : j # i => rows'[e][j] = rows[e][j]
    /\ rows'[e][i] # NoRow /\ rows'[e][i].status = "applied"
Logs(e) ==
    /\ pc[e] = "insert"
    /\ \/ Enters(e, idx[e] + 1) /\ Logged(e, idx[e])
       \/ /\ Moves(e, {"insert"}, {"rollback"}) /\ Turns(e, idx[e] - 1)
          /\ UNCHANGED rows /\ MayFail(e, "db")
    /\ UNCHANGED <<balance, groupStatus, rolledBack>>
Records(e) ==
    /\ Moves(e, {"recordFailure"}, {"rollback"}) /\ Turns(e, idx[e] - 1)
    /\ \A f \in Executes \ {e} : rows'[f] = rows[f]
    /\ \A j \in Positions :
          \/ /\ rows'[e][j] = rows[e][j]
             /\ j \in idx[e]..Len(Ops[e]) => MayFail(e, "db")
          \/ /\ j \in idx[e]..Len(Ops[e])
             /\ rows'[e][j] # NoRow /\ rows'[e][j].status = "failed"
    /\ UNCHANGED <<balance, groupStatus, rolledBack>>
Reverses(e) ==
    /\ idx[e] > 0
    /\ \/ /\ Moves(e, {"rollback"}, {"markUndone"})
          /\ Counted(e, idx[e], -1) /\ UNCHANGED rolledBack
       \/ /\ Moves(e, {"rollback"}, {"markFailed"})
          /\ UNCHANGED balance \/ Counted(e, idx[e], -1)
          /\ rolledBack' = [rolledBack EXCEPT ![e] = FALSE]
    /\ UNCHANGED <<idx, rows, groupStatus>>
Marks(e) ==
    /\ \/ Moves(e, {"markUndone"}, {"rollback"}) /\ Marked(e, e, idx[e], "undone")
       \/ Moves(e, {"markFailed"}, {"rollback"}) /\ Marked(e, e, idx[e], "failed")
    /\ Turns(e, idx[e] - 1)
    /\ UNCHANGED <<balance, groupStatus, rolledBack>>
Concludes(e) ==
    /\ Moves(e, {"rollback"}, {"respond"}) /\ idx[e] = 0
    /\ Settled(e, e, IF rolledBack[e] THEN "failed" ELSE "requires_attention")
    /\ UNCHANGED <<idx, balance, rows, rolledBack>>
Leaves(e) ==
    /\ \/ Moves(e, {"succeed", "respond"}, {"done"}) /\ UNCHANGED groupStatus
       \/ Moves(e, {"abandon"}, {"done"}) /\ Settled(e, e, "failed")
    /\ UNCHANGED <<idx, balance, rows, rolledBack>>

ExecuteDoes(e) ==
    \/ Arrives(e) \/ Creates(e) \/ GetsClients(e) \/ Looks(e) \/ Applies(e) \/ Logs(e)
    \/ Records(e) \/ Reverses(e) \/ Marks(e) \/ Concludes(e) \/ Leaves(e)

\* Moving on in the code and returning.
LEMMA GotoMoves ==
    ASSUME TypeInv, NEW p \in Procs, NEW l, NEW m, pc[p] = l, Goto(p, m)
    PROVE  Moves(p, {l}, {m})
BY GotoMovesOne DEF Moves, TypeInv, TypeOK

LEMMA ReturnMoves ==
    ASSUME TypeInv, NEW p \in Procs, NEW l, NEW answer, pc[p] = l, Return(p, answer)
    PROVE  Moves(p, {l}, {"done"})
BY GotoMoves DEF Return

\* Entering a position of the loop.
LEMMA EnterEnters ==
    ASSUME TypeInv, NEW e \in Executes, NEW i, Enter(e, i)
    PROVE  Enters(e, i)
<1>1. e \in Procs
  BY DEF Procs
<1>2. idx' = [idx EXCEPT ![e] = i] /\ idx \in [Procs -> Nat]
  BY DEF Enter, TypeInv, TypeOK, ControlTypeOK
<1>3. Turns(e, i)
  BY <1>1, <1>2 DEF Turns
<1>4. CASE i > Len(Ops[e])
  <2>1. Goto(e, "succeed")
    BY <1>4 DEF Enter
  <2> QED  BY <1>1, <1>3, <1>4, <2>1, GotoMovesOne DEF Enters, TypeInv, TypeOK
<1>5. CASE ~(i > Len(Ops[e]))
  <2>1. PICK l \in {"before", "apply"} : Goto(e, l)
    BY <1>5 DEF Enter
  <2> QED  BY <1>1, <1>3, <1>5, <2>1, GotoMovesOne DEF Enters, TypeInv, TypeOK
<1> QED  BY <1>4, <1>5

\* What the steps of Execute that leave the rows and the counts alone do.
LEMMA ExecuteMovesOn ==
    ASSUME TypeInv, NEW e \in Executes,
           \/ ExecuteStart(e) \/ AcquireNext(e) \/ AllLocked(e) \/ CreateGroup(e)
           \/ GetClients(e) \/ Abandon(e) \/ FetchBefore(e) \/ FetchAfter(e)
           \/ Succeed(e) \/ RollbackGroup(e) \/ RespondFailure(e)
    PROVE  ExecuteDoes(e)
<1>1. e \in Procs /\ DbTypeOK
  BY DEF Procs, TypeInv, TypeOK
<1>2. CASE ExecuteStart(e) \/ AcquireNext(e) \/ AllLocked(e)
  <2>1. UNCHANGED <<idx, balance, rows, groupStatus, rolledBack>>
    BY <1>2 DEF ExecuteStart, AcquireNext, AllLocked, routerVars, dbVars, execVars
  <2>2. CASE ExecuteStart(e)
    <3>1. Moves(e, {"idle"}, {"lock"}) \/ Moves(e, {"idle"}, {"done"})
      BY <1>1, <2>2, GotoMoves, ReturnMoves DEF ExecuteStart
    <3> QED  BY <2>1, <3>1 DEF ExecuteDoes, Arrives, Moves
  <2>3. CASE AcquireNext(e)
    BY <2>1, <2>3 DEF ExecuteDoes, Arrives, Moves, AcquireNext, OthersStay
  <2>4. CASE AllLocked(e)
    <3>1. Moves(e, {"lock"}, {"create"})
      BY <1>1, <2>4, GotoMoves DEF AllLocked
    <3> QED  BY <2>1, <3>1 DEF ExecuteDoes, Arrives, Moves
  <2> QED  BY <1>2, <2>2, <2>3, <2>4
<1>3. CASE CreateGroup(e)
  <2>1. UNCHANGED <<idx, balance, rows, rolledBack>>
    BY <1>3 DEF CreateGroup, routerVars, execVars
  <2>2. \/ /\ Moves(e, {"create"}, {"clients"})
           /\ groupStatus' = [groupStatus EXCEPT ![e] = "applied"]
        \/ Moves(e, {"create"}, {"done"}) /\ UNCHANGED groupStatus
    BY <1>1, <1>3, GotoMoves, ReturnMoves DEF CreateGroup
  <2> QED  BY <2>1, <2>2 DEF ExecuteDoes, Creates
<1>4. CASE GetClients(e)
  <2>1. UNCHANGED <<balance, rows, groupStatus, rolledBack>> /\ pc[e] = "clients"
    BY <1>4 DEF GetClients, routerVars, dbVars
  <2>2. \/ Enters(e, 1)
        \/ Moves(e, {"clients"}, {"abandon"}) /\ UNCHANGED idx /\ MayFail(e, "db")
    BY <1>1, <1>4, GotoMoves, EnterEnters, FailingMayFail DEF GetClients
  <2> QED  BY <2>1, <2>2 DEF ExecuteDoes, GetsClients
<1>5. CASE FetchBefore(e) \/ FetchAfter(e)
  <2>1. UNCHANGED <<idx, balance, rows, groupStatus, rolledBack>>
    BY <1>5 DEF FetchBefore, FetchAfter, routerVars, dbVars
  <2>2. \/ Moves(e, {"before"}, {"apply"}) \/ Moves(e, {"before"}, {"recordFailure"})
        \/ Moves(e, {"after"}, {"insert"})
    BY <1>1, <1>5, GotoMoves DEF FetchBefore, FetchAfter
  <2> QED  BY <2>1, <2>2 DEF ExecuteDoes, Looks, Moves
<1>6. CASE RollbackGroup(e)
  <2>1. UNCHANGED <<idx, balance, rows, rolledBack>> /\ idx[e] = 0
    BY <1>6 DEF RollbackGroup, routerVars, execVars
  <2>2. Settled(e, e, IF rolledBack[e] THEN "failed" ELSE "requires_attention")
    BY <1>1, <1>6, SetGroupStatusSettles DEF RollbackGroup
  <2>3. Moves(e, {"rollback"}, {"respond"})
    BY <1>1, <1>6, GotoMoves DEF RollbackGroup
  <2> QED  BY <2>1, <2>2, <2>3 DEF ExecuteDoes, Concludes
<1>7. CASE Succeed(e) \/ RespondFailure(e)
  <2>1. UNCHANGED <<idx, balance, rows, groupStatus, rolledBack>>
    BY <1>7 DEF Succeed, RespondFailure, routerVars, dbVars, execVars
  <2>2. Moves(e, {"succeed"}, {"done"}) \/ Moves(e, {"respond"}, {"done"})
    BY <1>1, <1>7, ReturnMoves DEF Succeed, RespondFailure
  <2> QED  BY <2>1, <2>2 DEF ExecuteDoes, Leaves, Moves
<1>8. CASE Abandon(e)
  <2>1. UNCHANGED <<idx, balance, rows, rolledBack>>
    BY <1>8 DEF Abandon, routerVars, execVars
  <2>2. Moves(e, {"abandon"}, {"done"}) /\ Settled(e, e, "failed")
    BY <1>1, <1>8, ReturnMoves, SetGroupStatusSettles DEF Abandon
  <2> QED  BY <2>1, <2>2 DEF ExecuteDoes, Leaves
<1> QED  BY <1>2, <1>3, <1>4, <1>5, <1>6, <1>7, <1>8

\* A position of the loop that request e works on.
LEMMA LoopPosition ==
    ASSUME TypeInv, NEW e \in Executes,
           \/ pc[e] \in {"before", "apply", "after", "insert", "recordFailure",
                         "markUndone", "markFailed"}
           \/ pc[e] = "rollback" /\ idx[e] > 0
    PROVE  /\ idx[e] \in 1..Len(Ops[e]) /\ idx[e] \in Positions /\ idx[e] \in Nat
           /\ Len(Ops[e]) \in Nat
<1>1. /\ e \in Procs /\ idx[e] \in Nat /\ ExecuteLoopAt(e) /\ RollbackLoopAt(e)
      /\ Len(Ops[e]) \in Nat /\ Len(Ops[e]) <= MaxOps /\ MaxOps \in Nat
  BY OpsAssumption DEF Procs, TypeInv, TypeOK, LoopsOK, ControlTypeOK
<1> QED  BY <1>1 DEF ExecuteLoopAt, RollbackLoopAt, Positions

\* What the steps of Execute that apply, log and reverse do.
LEMMA ExecuteWorksOn ==
    ASSUME TypeInv, NEW e \in Executes,
           \/ ApplyOperation(e) \/ InsertOperation(e) \/ RecordFailure(e)
           \/ RollbackOne(e) \/ RollbackMark(e)
    PROVE  ExecuteDoes(e)
<1>1. e \in Procs /\ DbTypeOK /\ RouterTypeOK /\ ExecTypeOK /\ ControlTypeOK
  BY DEF Procs, TypeInv, TypeOK
<1>2. \A i : idx' = [idx EXCEPT ![e] = i] => Turns(e, i)
  BY <1>1 DEF Turns, ControlTypeOK
<1>3. CASE ApplyOperation(e)
  <2>1. UNCHANGED <<idx, rows, groupStatus, rolledBack>> /\ pc[e] = "apply"
    BY <1>3 DEF ApplyOperation, dbVars
  <2>2. ASSUME Carry(e, idx[e]) PROVE Counted(e, idx[e], 1)
    BY <1>1, <2>2, CountCounts DEF Carry
  <2>3. \/ Moves(e, {"apply"}, {"after"}) /\ Counted(e, idx[e], 1)
        \/ Moves(e, {"apply"}, {"insert"}) /\ Counted(e, idx[e], 1)
        \/ Moves(e, {"apply"}, {"recordFailure"}) /\ UNCHANGED balance
        \/ /\ Moves(e, {"apply"}, {"recordFailure"}) /\ Counted(e, idx[e], 1)
           /\ AnswerLost(e)
    BY <1>1, <1>3, <2>1, <2>2, GotoMoves DEF ApplyOperation, routerVars
  <2>4. AnswerLost(e) => MayFail(e, "lost")
    BY DEF AnswerLost, Inject, MayFail
  <2> QED  BY <2>1, <2>3, <2>4 DEF ExecuteDoes, Applies, Moves
<1>4. CASE InsertOperation(e)
  <2>1. UNCHANGED <<balance, groupStatus, rolledBack>> /\ pc[e] = "insert"
    BY <1>4 DEF InsertOperation, routerVars
  <2>2. CASE Enter(e, idx[e] + 1) /\ rows' = [rows EXCEPT ![e][idx[e]] = RowOf(draft[e], "applied")]
    <3>1. idx[e] \in Positions
      BY <2>1, LoopPosition
    <3>2. RowOf(draft[e], "applied").status = "applied" /\ RowOf(draft[e], "applied") # NoRow
      BY <1>1, NullAssumption DEF RowOf, Row, Draft, ExecTypeOK, OpStatus
    <3>3. Logged(e, idx[e])
      BY <1>1, <2>2, <3>1, <3>2 DEF Logged, DbTypeOK
    <3> QED  BY <2>1, <2>2, <3>3, EnterEnters DEF ExecuteDoes, Logs
  <2>3. CASE Goto(e, "rollback") /\ idx' = [idx EXCEPT ![e] = @ - 1] /\ UNCHANGED rows /\ CallFails(e, "db")
    <3>1. Moves(e, {"insert"}, {"rollback"}) /\ Turns(e, idx[e] - 1) /\ MayFail(e, "db")
      BY <1>1, <1>2, <2>1, <2>3, GotoMoves, FailingMayFail
    <3> QED  BY <2>1, <2>3, <3>1 DEF ExecuteDoes, Logs
  <2> QED  BY <1>4, <2>2, <2>3 DEF InsertOperation
<1>5. CASE RecordFailure(e)
  <2>1. /\ UNCHANGED <<balance, groupStatus, rolledBack>>
        /\ Moves(e, {"recordFailure"}, {"rollback"}) /\ Turns(e, idx[e] - 1)
    BY <1>1, <1>2, <1>5, GotoMoves DEF RecordFailure, routerVars, execVars
  <2>2. PICK missed \in SUBSET (idx[e]..Len(Ops[e])) :
            /\ missed = {} \/ CallFails(e, "db")
            /\ rows' = [rows EXCEPT ![e] = [i \in Positions |->
                 IF i \in (idx[e]..Len(Ops[e])) \ missed
                 THEN RowOf(IF i = idx[e] THEN draft[e]
                                          ELSE NewDraft(OpAt(e, i).id), "failed")
                 ELSE @[i]]]
    BY <1>5 DEF RecordFailure
  <2>3. \A f \in Executes \ {e} : rows'[f] = rows[f]
    BY <1>1, <2>2 DEF DbTypeOK
  <2>4. missed = {} \/ MayFail(e, "db")
    BY <2>2, FailingMayFail
  <2>5. ASSUME NEW j \in Positions
        PROVE  \/ /\ rows'[e][j] = rows[e][j]
                  /\ j \in idx[e]..Len(Ops[e]) => MayFail(e, "db")
               \/ /\ j \in idx[e]..Len(Ops[e])
                  /\ rows'[e][j] # NoRow /\ rows'[e][j].status = "failed"
    <3>1. CASE j \in (idx[e]..Len(Ops[e])) \ missed
      <4>1. PICK d : rows'[e][j] = RowOf(d, "failed")
        BY <1>1, <2>2, <3>1 DEF DbTypeOK
      <4>2. rows'[e][j].status = "failed"
        BY <4>1 DEF RowOf
      <4>3. rows'[e][j] \in Row \cup {NoRow}
        BY <1>5, RecordFailureType DEF TypeInv, TypeOK, DbTypeOK
      <4>4. j \in 1..Len(Ops[e]) /\ idx[e] \in 1..Len(Ops[e]) /\ Len(Ops[e]) \in Nat
        BY <2>1, <3>1, LoopPosition DEF Moves
      <4>5. rows'[e][j] # NoRow
        <5>1. OpAt(e, j).id \in Ids
          BY <4>4, OpAtType DEF Operation
        <5>2. NewDraft(OpAt(e, j).id) \in Draft
          BY <5>1, IdsAssumption DEF NewDraft, Draft, Nothing, State
        <5>3. \A x \in Draft : RowOf(x, "failed") \in Row
          BY DEF RowOf, Draft, Row, OpStatus
        <5>4. rows'[e][j] = RowOf(IF j = idx[e] THEN draft[e] ELSE NewDraft(OpAt(e, j).id), "failed")
          BY <1>1, <2>2, <3>1 DEF DbTypeOK
        <5>5. (IF j = idx[e] THEN draft[e] ELSE NewDraft(OpAt(e, j).id)) \in Draft
          BY <1>1, <5>2 DEF ExecTypeOK
        <5> QED  BY <5>3, <5>4, <5>5, NullAssumption
      <4> QED  BY <3>1, <4>2, <4>5
    <3>2. CASE j \notin (idx[e]..Len(Ops[e])) \ missed
      <4>1. rows'[e][j] = rows[e][j]
        BY <1>1, <2>2, <3>2 DEF DbTypeOK
      <4> QED  BY <2>4, <3>2, <4>1
    <3> QED  BY <3>1, <3>2
  <2> QED  BY <2>1, <2>3, <2>5 DEF ExecuteDoes, Records
<1>6. CASE RollbackOne(e)
  <2>1. UNCHANGED <<idx, rows, groupStatus>> /\ pc[e] = "rollback" /\ idx[e] > 0
    BY <1>6 DEF RollbackOne, dbVars
  <2>2. ASSUME CarryReverse(e, idx[e], rows[e][idx[e]]) PROVE Counted(e, idx[e], -1)
    BY <1>1, <2>2, CountCounts DEF CarryReverse
  <2>3. \/ /\ Moves(e, {"rollback"}, {"markUndone"})
           /\ Counted(e, idx[e], -1) /\ UNCHANGED rolledBack
        \/ /\ Moves(e, {"rollback"}, {"markFailed"})
           /\ UNCHANGED balance \/ Counted(e, idx[e], -1)
           /\ rolledBack' = [rolledBack EXCEPT ![e] = FALSE]
    BY <1>1, <1>6, <2>1, <2>2, GotoMoves DEF RollbackOne, routerVars
  <2> QED  BY <2>1, <2>3 DEF ExecuteDoes, Reverses
<1>7. CASE RollbackMark(e)
  <2>1. UNCHANGED <<balance, groupStatus, rolledBack>> /\ Turns(e, idx[e] - 1)
    BY <1>2, <1>7 DEF RollbackMark, routerVars, execVars
  <2>2. \/ Moves(e, {"markUndone"}, {"rollback"}) /\ Marked(e, e, idx[e], "undone")
        \/ Moves(e, {"markFailed"}, {"rollback"}) /\ Marked(e, e, idx[e], "failed")
    BY <1>1, <1>7, GotoMoves, SetRowStatusMarks DEF RollbackMark, OpStatus
  <2> QED  BY <2>1, <2>2 DEF ExecuteDoes, Marks
<1> QED  BY <1>3, <1>4, <1>5, <1>6, <1>7

\* What a step of Execute does.
LEMMA ExecuteStepDoes ==
    ASSUME TypeInv, NEW e \in Executes, ExecuteStep(e)
    PROVE  ExecuteDoes(e) /\ UNCHANGED <<target, snap>>
<1>1. UNCHANGED <<target, snap>>
  BY DEF ExecuteStep, ExecuteStart, AcquireNext, AllLocked, CreateGroup,
         GetClients, Abandon, FetchBefore, ApplyOperation, FetchAfter,
         InsertOperation, Succeed, RecordFailure, RollbackOne, RollbackMark,
         RollbackGroup, RespondFailure, undoVars
<1> QED  BY <1>1, ExecuteMovesOn, ExecuteWorksOn DEF ExecuteStep

\* The steps of Undo.
ReadsGroup(u) ==
    /\ \E g \in Executes :
          /\ EarlyUndo \/ pc[g] = "done"
          /\ target' = [target EXCEPT ![u] = g]
          /\ \/ /\ Moves(u, {"idle"}, {"readOps"})
                /\ snap' = [snap EXCEPT ![u].status = groupStatus[g]]
             \/ Moves(u, {"idle"}, {"done"}) /\ UNCHANGED snap
    /\ UNCHANGED <<idx, balance, rows, groupStatus>>
ReadsRows(u) ==
    /\ \/ /\ Moves(u, {"readOps"}, {"lock"}) /\ snap[u].status = "applied"
          /\ snap' = [snap EXCEPT ![u].rows = rows[target[u]]]
       \/ Moves(u, {"readOps"}, {"done"}) /\ UNCHANGED snap
    /\ UNCHANGED <<idx, balance, rows, groupStatus, target>>
GoesOn(u) ==
    /\ \/ Moves(u, {"lock"}, {"lock", "clients"})
       \/ Moves(u, {"clients", "match"}, {"match", "done"})
       \/ Moves(u, {"match"}, {"reverse"}) /\ idx'[u] = MaxOps
    /\ \A q \in Procs \ {u} : idx'[q] = idx[q]
    /\ UNCHANGED <<balance, rows, groupStatus, target, snap>>
TakesBack(u) ==
    /\ \E i \in Positions :
          /\ NextTodo(u, i) /\ Turns(u, i)
          /\ \/ Moves(u, {"reverse"}, {"mark"}) /\ Counted(target[u], i, -1)
             \/ /\ Moves(u, {"reverse"}, {"attention"})
                /\ UNCHANGED balance \/ Counted(target[u], i, -1)
    /\ UNCHANGED <<rows, groupStatus, target, snap>>
MarksUndone(u) ==
    /\ Moves(u, {"mark"}, {"reverse"}) /\ Turns(u, idx[u] - 1)
    /\ Marked(u, target[u], idx[u], "undone")
    /\ UNCHANGED <<balance, groupStatus, target, snap>>
Finishes(u) ==
    /\ \/ /\ Moves(u, {"attention"}, {"done"})
          /\ Settled(u, target[u], "requires_attention")
       \/ /\ Moves(u, {"reverse"}, {"done"}) /\ NothingTodo(u)
          /\ Settled(u, target[u], "undone")
    /\ UNCHANGED <<idx, balance, rows, target, snap>>

UndoDoes(u) ==
    \/ ReadsGroup(u) \/ ReadsRows(u) \/ GoesOn(u)
    \/ TakesBack(u) \/ MarksUndone(u) \/ Finishes(u)

\* What a step of Undo does.
LEMMA UndoStepDoes ==
    ASSUME TypeInv, NEW u \in Undos, UndoStep(u)
    PROVE  UndoDoes(u) /\ UNCHANGED rolledBack
<1>1. /\ u \in Procs /\ DbTypeOK /\ RouterTypeOK /\ ControlTypeOK /\ UndoTypeOK
      /\ pc[u] \notin {"idle", "done"} => target[u] \in Executes
  BY DEF Procs, TypeInv, TypeOK, LoopsOK, UndoLoopAt
<1>2. /\ \A i : idx' = [idx EXCEPT ![u] = i] => Turns(u, i)
      /\ \A i : UNCHANGED idx => \A q \in Procs \ {u} : idx'[q] = idx[q]
  BY <1>1 DEF Turns, ControlTypeOK
<1>3. UNCHANGED rolledBack
  BY DEF UndoStep, UndoReadGroup, UndoReadOps, AcquireNext, AllLocked, UndoClients,
         UndoMatch, UndoReverse, UndoMark, UndoAttention, UndoFinish, execVars
<1>4. CASE \E g \in Executes : UndoReadGroup(u, g)
  <2>1. PICK g \in Executes : UndoReadGroup(u, g)
    BY <1>4
  <2>2. /\ UNCHANGED <<idx, balance, rows, groupStatus>>
        /\ EarlyUndo \/ pc[g] = "done"
        /\ target' = [target EXCEPT ![u] = g]
    BY <2>1 DEF UndoReadGroup, routerVars, dbVars
  <2>3. \/ /\ Moves(u, {"idle"}, {"readOps"})
           /\ snap' = [snap EXCEPT ![u].status = groupStatus[g]]
        \/ Moves(u, {"idle"}, {"done"}) /\ UNCHANGED snap
    BY <1>1, <2>1, GotoMoves, ReturnMoves DEF UndoReadGroup
  <2> QED  BY <1>3, <2>2, <2>3 DEF UndoDoes, ReadsGroup
<1>5. CASE UndoReadOps(u)
  <2>1. UNCHANGED <<idx, balance, rows, groupStatus, target>>
    BY <1>5 DEF UndoReadOps, routerVars, dbVars
  <2>2. \/ /\ Moves(u, {"readOps"}, {"lock"}) /\ snap[u].status = "applied"
           /\ snap' = [snap EXCEPT ![u].rows = rows[target[u]]]
        \/ Moves(u, {"readOps"}, {"done"}) /\ UNCHANGED snap
    BY <1>1, <1>5, GotoMoves, ReturnMoves DEF UndoReadOps
  <2> QED  BY <1>3, <2>1, <2>2 DEF UndoDoes, ReadsRows
<1>6. CASE AcquireNext(u) \/ AllLocked(u)
  <2>1. UNCHANGED <<idx, balance, rows, groupStatus, target, snap>>
    BY <1>6 DEF AcquireNext, AllLocked, routerVars, dbVars, undoVars
  <2>2. CASE AcquireNext(u)
    <3>1. Moves(u, {"lock"}, {"lock", "clients"})
      BY <2>2 DEF AcquireNext, Moves, OthersStay
    <3> QED  BY <1>2, <1>3, <2>1, <3>1 DEF UndoDoes, GoesOn
  <2>3. CASE AllLocked(u)
    <3>1. Moves(u, {"lock"}, {"clients"})
      BY <1>1, <2>3, GotoMoves, ProcsAssumption DEF AllLocked
    <3>2. Moves(u, {"lock"}, {"lock", "clients"})
      BY <3>1 DEF Moves
    <3> QED  BY <1>2, <1>3, <2>1, <3>2 DEF UndoDoes, GoesOn
  <2> QED  BY <1>6, <2>2, <2>3
<1>7. CASE UndoClients(u)
  <2>1. /\ UNCHANGED <<balance, rows, groupStatus, target, snap>>
        /\ idx' = [idx EXCEPT ![u] = MaxOps]
    BY <1>7 DEF UndoClients, routerVars, dbVars, undoVars
  <2>2. Moves(u, {"clients"}, {"match"}) \/ Moves(u, {"clients"}, {"done"})
    BY <1>1, <1>7, GotoMoves, ReturnMoves DEF UndoClients
  <2>3. Moves(u, {"clients", "match"}, {"match", "done"})
    BY <2>2 DEF Moves
  <2> QED  BY <1>2, <1>3, <2>1, <2>3 DEF UndoDoes, GoesOn, Turns
<1>8. CASE UndoMatch(u)
  <2>1. UNCHANGED <<balance, rows, groupStatus, target, snap>> /\ pc[u] = "match"
    BY <1>8 DEF UndoMatch, routerVars, dbVars, undoVars
  <2>2. \/ \E i \in Nat \cup {-1} : idx' = [idx EXCEPT ![u] = i - 1] /\ UNCHANGED pc
        \/ (\E a : Return(u, a)) /\ UNCHANGED idx
        \/ Goto(u, "reverse") /\ idx' = [idx EXCEPT ![u] = MaxOps]
    BY <1>8 DEF UndoMatch, Positions
  <2>3. CASE \E i \in Nat \cup {-1} : idx' = [idx EXCEPT ![u] = i - 1] /\ UNCHANGED pc
    <3>1. Moves(u, {"clients", "match"}, {"match", "done"})
      BY <2>1, <2>3 DEF Moves, OthersStay
    <3> QED  BY <1>2, <1>3, <2>1, <2>3, <3>1 DEF UndoDoes, GoesOn, Turns
  <2>4. CASE (\E a : Return(u, a)) /\ UNCHANGED idx
    <3>1. Moves(u, {"match"}, {"done"})
      BY <1>1, <2>1, <2>4, ReturnMoves
    <3>2. Moves(u, {"clients", "match"}, {"match", "done"})
      BY <3>1 DEF Moves
    <3> QED  BY <1>2, <1>3, <2>1, <2>4, <3>2 DEF UndoDoes, GoesOn
  <2>5. CASE Goto(u, "reverse") /\ idx' = [idx EXCEPT ![u] = MaxOps]
    <3>1. Moves(u, {"match"}, {"reverse"})
      BY <1>1, <2>1, <2>5, GotoMoves
    <3> QED  BY <1>2, <1>3, <2>1, <2>5, <3>1 DEF UndoDoes, GoesOn, Turns
  <2> QED  BY <2>2, <2>3, <2>4, <2>5
<1>9. CASE UndoReverse(u)
  <2>1. UNCHANGED <<rows, groupStatus, target, snap>> /\ pc[u] = "reverse"
    BY <1>9 DEF UndoReverse, dbVars, undoVars
  <2>2. PICK i \in Positions :
            /\ NextTodo(u, i)
            /\ idx' = [idx EXCEPT ![u] = i]
            /\ \/ CarryReverse(target[u], i, snap[u].rows[i]) /\ Goto(u, "mark")
               \/ /\ UNCHANGED balance \/ CarryReverse(target[u], i, snap[u].rows[i])
                  /\ Goto(u, "attention")
    BY <1>9 DEF UndoReverse, routerVars
  <2>3. CarryReverse(target[u], i, snap[u].rows[i]) => Counted(target[u], i, -1)
    BY <1>1, <2>1, CountCounts DEF CarryReverse
  <2>4. \/ Moves(u, {"reverse"}, {"mark"}) /\ Counted(target[u], i, -1)
        \/ /\ Moves(u, {"reverse"}, {"attention"})
           /\ UNCHANGED balance \/ Counted(target[u], i, -1)
    BY <1>1, <2>1, <2>2, <2>3, GotoMoves
  <2>5. Turns(u, i)
    BY <1>2, <2>2
  <2> QED  BY <1>3, <2>1, <2>2, <2>4, <2>5 DEF UndoDoes, TakesBack
<1>10. CASE UndoMark(u)
  <2>1. UNCHANGED <<balance, groupStatus, target, snap>> /\ Turns(u, idx[u] - 1)
    BY <1>2, <1>10 DEF UndoMark, routerVars, undoVars
  <2>2. Moves(u, {"mark"}, {"reverse"})
    BY <1>1, <1>10, GotoMoves DEF UndoMark
  <2>3. Marked(u, target[u], idx[u], "undone")
    BY <1>1, <1>10, SetRowStatusMarks DEF UndoMark, OpStatus
  <2> QED  BY <1>3, <2>1, <2>2, <2>3 DEF UndoDoes, MarksUndone
<1>11. CASE UndoAttention(u) \/ UndoFinish(u)
  <2>1. UNCHANGED <<idx, balance, rows, target, snap>>
    BY <1>11 DEF UndoAttention, UndoFinish, routerVars, undoVars
  <2>2. \/ /\ Moves(u, {"attention"}, {"done"})
           /\ Settled(u, target[u], "requires_attention")
        \/ /\ Moves(u, {"reverse"}, {"done"}) /\ NothingTodo(u)
           /\ Settled(u, target[u], "undone")
    BY <1>1, <1>11, ReturnMoves, SetGroupStatusSettles DEF UndoAttention, UndoFinish
  <2> QED  BY <1>3, <2>1, <2>2 DEF UndoDoes, Finishes
<1> QED
  BY <1>3, <1>4, <1>5, <1>6, <1>7, <1>8, <1>9, <1>10, <1>11 DEF UndoStep

\* What happens around the requests: some of them may end, with a crash.
EnvironmentDoes ==
    /\ UNCHANGED <<idx, balance, rows, groupStatus, rolledBack, target, snap>>
    /\ \A p \in Procs :
          \/ pc'[p] = pc[p]
          \/ pc'[p] = "done" /\ "crash" \in FaultKinds

LEMMA EnvironmentStepDoes ==
    ASSUME \/ \E p \in Procs : ClientDisconnects(p)
           \/ Crash
           \/ \E r \in Routers, id \in Ids : ExternalEdit(r, id)
           \/ UNCHANGED vars
    PROVE  EnvironmentDoes
<1>1. CASE Crash
  BY <1>1 DEF Crash, EnvironmentDoes, Inject, routerVars, dbVars, execVars, undoVars
<1>2. CASE UNCHANGED vars
  BY <1>2 DEF vars, EnvironmentDoes, routerVars, dbVars, execVars, undoVars
<1>3. CASE \/ \E p \in Procs : ClientDisconnects(p)
           \/ \E r \in Routers, id \in Ids : ExternalEdit(r, id)
  BY <1>3 DEF ClientDisconnects, ExternalEdit, EnvironmentDoes, routerVars, dbVars, execVars, undoVars
<1> QED  BY <1>1, <1>2, <1>3

-----------------------------------------------------------------------------
(* A row that says undone is right, whatever fails.  An operation is       *)
(* applied once and logged once, in the order of its request, and only     *)
(* what was logged is ever reversed.                                       *)

\* Request e has not applied, has not logged operation i.
Unapplied(e, i) ==
    \/ pc[e] \in {"idle", "lock", "create", "clients"}
    \/ pc[e] \in {"before", "apply"} /\ i >= idx[e]
    \/ pc[e] \in {"after", "insert", "recordFailure"} /\ i > idx[e]
Unlogged(e, i) ==
    \/ pc[e] \in {"idle", "lock", "create", "clients"}
    \/ pc[e] \in {"before", "apply", "after", "insert", "recordFailure"} /\ i >= idx[e]

ExecuteBooks(e) ==
    \A i \in Positions :
        /\ Unapplied(e, i) => balance[e][i] = 0
        /\ Unlogged(e, i) => rows[e][i] = NoRow
        /\ balance[e][i] <= 1
        /\ i > Len(Ops[e]) => balance[e][i] <= 0
        /\ rows[e][i] # NoRow /\ rows[e][i].status = "undone" => balance[e][i] <= 0
        /\ pc[e] = "markUndone" /\ i = idx[e] => balance[e][i] <= 0

UndoBooks(u) ==
    \A i \in Positions :
        /\ snap[u].rows[i] # NoRow => rows[target[u]][i] # NoRow
        /\ pc[u] = "mark" /\ i = idx[u] =>
              snap[u].rows[i] # NoRow /\ balance[target[u]][i] <= 0

BooksOK ==
    /\ \A e \in Executes : ExecuteBooks(e)
    /\ \A u \in Undos : UndoBooks(u)
BooksInv == TypeInv /\ FitsOK /\ BooksOK

\* The service starts with nothing applied and nothing logged.
LEMMA InitBooks == Init => BooksInv
<1> SUFFICES ASSUME Init PROVE BooksInv
  OBVIOUS
<1>1. TypeInv
  BY InitTypeInv
<1>2. FitsOK
  BY DEF Init, FitsOK, RowsFit, SnapFits, NoSnap
<1>3. BooksOK
  BY DEF Init, BooksOK, ExecuteBooks, UndoBooks, NoSnap, Procs
<1> QED  BY <1>1, <1>2, <1>3 DEF BooksInv

\* A step of Execute leaves the other groups alone, keeps its rows and
\* counts up at the operation it applies only.
LEMMA ExecuteDoesOwn ==
    ASSUME TypeInv, NEW e \in Executes, ExecuteDoes(e)
    PROVE  /\ OthersStay(e)
           /\ \A q \in Procs \ {e} : idx'[q] = idx[q]
           /\ \A f \in Executes \ {e} :
                 /\ rows'[f] = rows[f] /\ balance'[f] = balance[f]
                 /\ groupStatus'[f] = groupStatus[f] /\ rolledBack'[f] = rolledBack[f]
           /\ \A i \in Positions : rows[e][i] # NoRow => rows'[e][i] # NoRow
           /\ \A i \in Positions :
                 \/ balance'[e][i] <= balance[e][i]
                 \/ pc[e] = "apply" /\ i = idx[e]
<1>1. \A i \in Positions : balance[e][i] \in Int
  BY DEF TypeInv, TypeOK, RouterTypeOK
<1>2. groupStatus = [f \in Executes |-> groupStatus[f]] /\ rolledBack = [f \in Executes |-> rolledBack[f]]
  BY DEF TypeInv, TypeOK, DbTypeOK, ExecTypeOK
<1>3. CASE Arrives(e) \/ Looks(e)
  BY <1>1, <1>3 DEF Arrives, Looks, Moves
<1>4. CASE Creates(e)
  BY <1>1, <1>2, <1>4 DEF Creates, Moves
<1>5. CASE GetsClients(e)
  BY <1>1, <1>5 DEF GetsClients, Moves, Enters, Turns
<1>6. CASE Applies(e)
  BY <1>1, <1>6 DEF Applies, Moves, Counted
<1>7. CASE Logs(e)
  BY <1>1, <1>7 DEF Logs, Logged, Moves, Enters, Turns
<1>8. CASE Records(e)
  BY <1>1, <1>8 DEF Records, Moves, Turns
<1>9. CASE Reverses(e)
  BY <1>1, <1>2, <1>9 DEF Reverses, Moves, Counted
<1>10. CASE Marks(e)
  BY <1>1, <1>10 DEF Marks, Marked, Moves, Turns
<1>11. CASE Concludes(e) \/ Leaves(e)
  BY <1>1, <1>11 DEF Concludes, Leaves, Settled, Moves
<1> QED
  BY <1>3, <1>4, <1>5, <1>6, <1>7, <1>8, <1>9, <1>10, <1>11 DEF ExecuteDoes

\* A step of Execute keeps the books of its own group.
LEMMA ExecuteKeepsOwnBooks ==
    ASSUME BooksInv, NEW e \in Executes, ExecuteDoes(e)
    PROVE  ExecuteBooks(e)'
<1>1. /\ ExecuteBooks(e)
      /\ \A i \in Positions : balance[e][i] \in Int /\ i \in Nat
      /\ idx[e] \in Nat /\ Len(Ops[e]) \in Nat
  BY OpsAssumption DEF BooksInv, BooksOK, TypeInv, TypeOK, RouterTypeOK, ControlTypeOK, Procs, Positions
<1>2. CASE Arrives(e)
  BY <1>1, <1>2 DEF Arrives, Moves, ExecuteBooks, Unapplied, Unlogged
<1>3. CASE Creates(e)
  BY <1>1, <1>3 DEF Creates, Moves, ExecuteBooks, Unapplied, Unlogged
<1>4. CASE GetsClients(e)
  BY <1>1, <1>4 DEF GetsClients, Enters, Turns, Moves, ExecuteBooks, Unapplied, Unlogged
<1>5. CASE Looks(e)
  BY <1>1, <1>5 DEF Looks, Moves, ExecuteBooks, Unapplied, Unlogged
<1>6. CASE Applies(e)
  <2>1. idx[e] \in 1..Len(Ops[e])
    BY <1>6, LoopPosition DEF BooksInv, Applies, Moves
  <2> QED
    BY <1>1, <1>6, <2>1 DEF Applies, Counted, Moves, ExecuteBooks, Unapplied, Unlogged
<1>7. CASE Logs(e)
  <2>1. CASE Enters(e, idx[e] + 1) /\ Logged(e, idx[e])
    <3>1. /\ idx'[e] = idx[e] + 1 /\ pc[e] = "insert" /\ balance' = balance
          /\ pc'[e] \in {"succeed", "before", "apply"}
      BY <1>7, <2>1 DEF Logs, Enters, Turns
    <3> QED
      BY <1>1, <2>1, <3>1 DEF Logged, ExecuteBooks, Unapplied, Unlogged
  <2> QED
    BY <1>1, <1>7, <2>1 DEF Logs, Turns, Moves, ExecuteBooks, Unapplied, Unlogged
<1>8. CASE Records(e)
  <2>1. pc'[e] = "rollback" /\ pc[e] = "recordFailure" /\ balance' = balance
    BY <1>8 DEF Records, Moves
  <2>2. ASSUME NEW i \in Positions, rows'[e][i] # NoRow, rows'[e][i].status = "undone"
        PROVE  balance[e][i] <= 0
    <3>1. rows'[e][i] = rows[e][i]
      BY <1>8, <2>2 DEF Records
    <3> QED  BY <1>1, <2>2, <3>1 DEF ExecuteBooks
  <2> QED
    BY <1>1, <2>1, <2>2 DEF ExecuteBooks, Unapplied, Unlogged
<1>9. CASE Reverses(e)
  BY <1>1, <1>9 DEF Reverses, Counted, Moves, ExecuteBooks, Unapplied, Unlogged
<1>10. CASE Marks(e)
  <2>1. pc'[e] = "rollback" /\ balance' = balance
    BY <1>10 DEF Marks, Moves
  <2>2. ASSUME NEW i \in Positions, rows'[e][i] # NoRow, rows'[e][i].status = "undone"
        PROVE  balance[e][i] <= 0
    BY <1>1, <1>10, <2>2 DEF Marks, Marked, Moves, ExecuteBooks
  <2> QED  BY <1>1, <2>1, <2>2 DEF ExecuteBooks, Unapplied, Unlogged
<1>11. CASE Concludes(e) \/ Leaves(e)
  BY <1>1, <1>11 DEF Concludes, Leaves, Moves, ExecuteBooks, Unapplied, Unlogged
<1> QED
  BY <1>2, <1>3, <1>4, <1>5, <1>6, <1>7, <1>8, <1>9, <1>10, <1>11 DEF ExecuteDoes

\* And those of everybody else.
LEMMA ExecuteKeepsBooks ==
    ASSUME BooksInv, NEW e \in Executes, ExecuteStep(e)
    PROVE  BooksInv'
<1>1. ExecuteDoes(e) /\ UNCHANGED <<target, snap>> /\ TypeInv
  BY ExecuteStepDoes DEF BooksInv
<1>2. ExecuteBooks(e)'
  BY <1>1, ExecuteKeepsOwnBooks
<1>3. /\ OthersStay(e)
      /\ \A q \in Procs \ {e} : idx'[q] = idx[q]
      /\ \A f \in Executes \ {e} : rows'[f] = rows[f] /\ balance'[f] = balance[f]
      /\ \A i \in Positions : rows[e][i] # NoRow => rows'[e][i] # NoRow
      /\ \A i \in Positions :
            \/ balance'[e][i] <= balance[e][i]
            \/ pc[e] = "apply" /\ i = idx[e]
  BY <1>1, ExecuteDoesOwn
<1>4. ASSUME NEW f \in Executes \ {e} PROVE ExecuteBooks(f)'
  <2>1. ExecuteBooks(f) /\ pc'[f] = pc[f] /\ idx'[f] = idx[f]
    BY <1>3 DEF BooksInv, BooksOK, OthersStay, Procs
  <2> QED  BY <1>3, <2>1 DEF ExecuteBooks, Unapplied, Unlogged
<1>5. ASSUME NEW u \in Undos PROVE UndoBooks(u)'
  <2>1. /\ UndoBooks(u) /\ pc'[u] = pc[u] /\ idx'[u] = idx[u]
        /\ target'[u] = target[u] /\ snap'[u] = snap[u]
    BY <1>1, <1>3, ProcsAssumption DEF BooksInv, BooksOK, OthersStay, Procs
  <2>2. ASSUME NEW i \in Positions, snap[u].rows[i] # NoRow
        PROVE  rows'[target[u]][i] # NoRow
    <3>1. target[u] \in Executes /\ rows[target[u]][i] # NoRow
      BY <2>1, <2>2 DEF BooksInv, FitsOK, SnapFits, UndoBooks
    <3> QED  BY <1>3, <3>1
  <2>3. ASSUME NEW i \in Positions, pc[u] = "mark", i = idx[u]
        PROVE  snap[u].rows[i] # NoRow /\ balance'[target[u]][i] <= 0
    <3>1. snap[u].rows[i] # NoRow /\ balance[target[u]][i] <= 0
      BY <2>1, <2>3 DEF UndoBooks
    <3>2. target[u] \in Executes /\ rows[target[u]][i] # NoRow
      BY <2>1, <3>1 DEF BooksInv, FitsOK, SnapFits, UndoBooks
    <3>3. CASE target[u] = e
      <4>1. ~(pc[e] = "apply" /\ i = idx[e])
        BY <3>2, <3>3 DEF BooksInv, BooksOK, ExecuteBooks, Unlogged, Positions
      <4>2. balance'[e][i] <= balance[e][i] /\ balance[e][i] \in Int
        BY <1>3, <4>1 DEF BooksInv, TypeInv, TypeOK, RouterTypeOK
      <4>3. balance'[e][i] \in Int
        BY NextTypeInv DEF BooksInv, TypeInv, TypeOK, RouterTypeOK, Next
      <4> QED  BY <3>1, <3>3, <4>2, <4>3
    <3> QED  BY <1>3, <3>1, <3>2, <3>3
  <2> QED  BY <2>1, <2>2, <2>3 DEF UndoBooks
<1>6. TypeInv' /\ FitsOK'
  BY NextTypeInv, ExecuteFits DEF BooksInv, Next
<1> QED  BY <1>2, <1>4, <1>5, <1>6 DEF BooksInv, BooksOK

\* A step of Undo reverses and marks what was logged.
LEMMA UndoKeepsBooks ==
    ASSUME BooksInv, NEW u \in Undos, UndoStep(u)
    PROVE  BooksInv'
<1>1. UndoDoes(u) /\ TypeInv /\ u \in Procs
  BY UndoStepDoes DEF BooksInv, Procs
<1>2. TypeInv' /\ FitsOK'
  BY NextTypeInv, UndoFits DEF BooksInv, Next
<1>3. /\ \A f \in Executes : ExecuteBooks(f)
      /\ \A v \in Undos : UndoBooks(v)
      /\ \A f \in Executes, i \in Positions : balance[f][i] \in Int /\ balance'[f][i] \in Int
  BY <1>1, <1>2 DEF BooksInv, BooksOK, TypeInv, TypeOK, RouterTypeOK
<1>4. /\ OthersStay(u)
      /\ \A q \in Procs \ {u} : idx'[q] = idx[q]
      /\ \A v \in Undos \ {u} : target'[v] = target[v] /\ snap'[v] = snap[v]
      /\ \A f \in Executes, i \in Positions : rows[f][i] = NoRow <=> rows'[f][i] = NoRow
  <2>1. CASE ReadsGroup(u)
    BY <1>1, <2>1 DEF ReadsGroup, Moves, TypeInv, TypeOK, UndoTypeOK
  <2>2. CASE ReadsRows(u)
    BY <1>1, <2>2 DEF ReadsRows, Moves, TypeInv, TypeOK, UndoTypeOK
  <2>3. CASE GoesOn(u) \/ TakesBack(u) \/ Finishes(u)
    BY <1>1, <2>3 DEF GoesOn, TakesBack, Finishes, Moves, Turns
  <2>4. CASE MarksUndone(u)
    BY <1>1, <2>4 DEF MarksUndone, Moves, Turns, Marked
  <2> QED  BY <1>1, <2>1, <2>2, <2>3, <2>4 DEF UndoDoes
<1>5. \A f \in Executes : pc'[f] = pc[f] /\ idx'[f] = idx[f]
  BY <1>4, ProcsAssumption DEF OthersStay, Procs
<1>6. \A f \in Executes, i \in Positions :
          balance'[f][i] <= balance[f][i] /\ (rows[f][i] = NoRow => balance'[f][i] = balance[f][i])
  <2>1. CASE TakesBack(u)
    <3>1. PICK i \in Positions : NextTodo(u, i) /\ (UNCHANGED balance \/ Counted(target[u], i, -1))
      BY <2>1 DEF TakesBack
    <3>2. snap[u].rows[i] # NoRow
      BY <3>1 DEF NextTodo, Todo
    <3>3. rows[target[u]][i] # NoRow /\ target[u] \in Executes
      BY <1>3, <3>2 DEF UndoBooks, BooksInv, FitsOK, SnapFits
    <3> QED  BY <1>3, <3>1, <3>3 DEF Counted
  <2>2. CASE UNCHANGED balance
    BY <1>3, <2>2
  <2> QED
    BY <1>1, <2>1, <2>2
       DEF UndoDoes, ReadsGroup, ReadsRows, GoesOn, MarksUndone, Finishes
<1>7. ASSUME NEW f \in Executes, NEW i \in Positions,
             rows'[f][i] # NoRow, rows'[f][i].status = "undone"
      PROVE  balance'[f][i] <= 0
  <2>1. CASE rows'[f][i] = rows[f][i]
    BY <1>3, <1>6, <1>7, <2>1 DEF ExecuteBooks
  <2>2. CASE rows'[f][i] # rows[f][i]
    <3>1. MarksUndone(u)
      BY <1>1, <2>2 DEF UndoDoes, ReadsGroup, ReadsRows, GoesOn, TakesBack, Finishes
    <3>2. f = target[u] /\ i = idx[u] /\ pc[u] = "mark" /\ balance' = balance
      BY <2>2, <3>1 DEF MarksUndone, Marked, Moves
    <3> QED  BY <1>3, <3>2 DEF UndoBooks
  <2> QED  BY <2>1, <2>2
<1>8. ASSUME NEW f \in Executes PROVE ExecuteBooks(f)'
  <2>1. ASSUME NEW i \in Positions, Unlogged(f, i) PROVE rows'[f][i] = NoRow
    BY <1>3, <1>4, <2>1 DEF ExecuteBooks
  <2>2. ASSUME NEW i \in Positions, Unapplied(f, i) PROVE balance'[f][i] = 0
    <3>1. i \in Nat /\ idx[f] \in Nat
      BY <1>1 DEF Positions, TypeInv, TypeOK, ControlTypeOK, Procs
    <3>2. Unlogged(f, i)
      BY <2>2, <3>1 DEF Unapplied, Unlogged
    <3> QED  BY <1>3, <1>6, <2>2, <3>2 DEF ExecuteBooks
  <2>3. (\A i \in Positions : Unapplied(f, i)' => Unapplied(f, i))
        /\ (\A i \in Positions : Unlogged(f, i)' => Unlogged(f, i))
    BY <1>5 DEF Unapplied, Unlogged
  <2>4. ASSUME NEW i \in Positions
        PROVE  /\ balance'[f][i] <= 1
               /\ i > Len(Ops[f]) => balance'[f][i] <= 0
               /\ pc'[f] = "markUndone" /\ i = idx'[f] => balance'[f][i] <= 0
    BY <1>3, <1>5, <1>6 DEF ExecuteBooks
  <2> QED  BY <1>7, <2>1, <2>2, <2>3, <2>4 DEF ExecuteBooks
<1>9. ASSUME NEW v \in Undos \ {u} PROVE UndoBooks(v)'
  <2>1. /\ pc'[v] = pc[v] /\ idx'[v] = idx[v] /\ target'[v] = target[v] /\ snap'[v] = snap[v]
        /\ UndoBooks(v)
    BY <1>3, <1>4 DEF OthersStay, Procs
  <2>2. \A i \in Positions : snap[v].rows[i] # NoRow => target[v] \in Executes
    BY DEF BooksInv, FitsOK, SnapFits
  <2> QED  BY <1>3, <1>4, <1>6, <2>1, <2>2 DEF UndoBooks
<1>10. UndoBooks(u)'
  <2>1. CASE ReadsGroup(u)
    <3>1. pc[u] = "idle" /\ pc'[u] # "mark"
      BY <2>1 DEF ReadsGroup, Moves
    <3>2. \A i \in Positions : snap[u].rows[i] = NoRow
      BY <3>1 DEF BooksInv, FitsOK, SnapFits
    <3>3. snap'[u].rows = snap[u].rows
      BY <1>1, <2>1 DEF ReadsGroup, TypeInv, TypeOK, UndoTypeOK
    <3> QED  BY <3>1, <3>2, <3>3 DEF UndoBooks
  <2>2. CASE ReadsRows(u)
    <3>1. pc'[u] # "mark" /\ UNCHANGED <<rows, target>>
      BY <2>2 DEF ReadsRows, Moves
    <3>2. snap'[u].rows = rows[target[u]] \/ snap'[u] = snap[u]
      BY <1>1, <2>2 DEF ReadsRows, TypeInv, TypeOK, UndoTypeOK
    <3> QED  BY <1>3, <3>1, <3>2 DEF UndoBooks
  <2>3. CASE GoesOn(u) \/ Finishes(u)
    <3>1. pc'[u] # "mark" /\ UNCHANGED <<rows, target, snap>>
      BY <2>3 DEF GoesOn, Finishes, Moves
    <3> QED  BY <1>3, <3>1 DEF UndoBooks
  <2>4. CASE TakesBack(u)
    <3>1. UNCHANGED <<rows, target, snap>>
      BY <2>4 DEF TakesBack
    <3>2. PICK i \in Positions :
              /\ NextTodo(u, i) /\ idx'[u] = i
              /\ pc'[u] = "mark" => Counted(target[u], i, -1)
      BY <2>4 DEF TakesBack, Turns, Moves
    <3>3. snap[u].rows[i] # NoRow
      BY <3>2 DEF NextTodo, Todo
    <3>4. target[u] \in Executes
      BY <3>3 DEF BooksInv, FitsOK, SnapFits
    <3>5. pc'[u] = "mark" => balance'[target[u]][i] <= 0
      BY <1>3, <3>2, <3>4 DEF Counted, ExecuteBooks
    <3> QED  BY <1>3, <3>1, <3>2, <3>3, <3>5 DEF UndoBooks
  <2>5. CASE MarksUndone(u)
    <3>1. pc'[u] # "mark" /\ UNCHANGED <<target, snap>>
      BY <2>5 DEF MarksUndone, Moves
    <3>2. \A i \in Positions : snap[u].rows[i] # NoRow => target[u] \in Executes
      BY DEF BooksInv, FitsOK, SnapFits
    <3> QED  BY <1>3, <1>4, <3>1, <3>2 DEF UndoBooks
  <2> QED  BY <1>1, <2>1, <2>2, <2>3, <2>4, <2>5 DEF UndoDoes
<1> QED  BY <1>2, <1>8, <1>9, <1>10 DEF BooksInv, BooksOK

\* Nor does anything around the requests touch the books.
LEMMA EnvironmentKeepsBooks ==
    ASSUME BooksInv, EnvironmentDoes, TypeInv', FitsOK'
    PROVE  BooksInv'
<1>1. UNCHANGED <<idx, balance, rows, target, snap>>
  BY DEF EnvironmentDoes
<1>2. \A p \in Procs : pc'[p] = pc[p] \/ pc'[p] = "done"
  BY DEF EnvironmentDoes
<1>3. \A e \in Executes : ExecuteBooks(e)'
  BY <1>1, <1>2 DEF BooksInv, BooksOK, ExecuteBooks, Unapplied, Unlogged, Procs
<1>4. \A u \in Undos : UndoBooks(u)'
  BY <1>1, <1>2 DEF BooksInv, BooksOK, UndoBooks, Procs
<1> QED  BY <1>3, <1>4 DEF BooksInv, BooksOK

\* Every step keeps the books.
LEMMA NextKeepsBooks ==
    ASSUME BooksInv, [Next]_vars
    PROVE  BooksInv'
<1>1. CASE \E e \in Executes : ExecuteStep(e)
  BY <1>1, ExecuteKeepsBooks
<1>2. CASE \E u \in Undos : UndoStep(u)
  BY <1>2, UndoKeepsBooks
<1>3. CASE \/ \E p \in Procs : ClientDisconnects(p)
           \/ Crash
           \/ \E r \in Routers, id \in Ids : ExternalEdit(r, id)
           \/ UNCHANGED vars
  <2>1. EnvironmentDoes
    BY <1>3, EnvironmentStepDoes
  <2>2. TypeInv'
    BY NextTypeInv DEF BooksInv
  <2>3. FitsOK'
    BY <1>3, EnvironmentFits DEF BooksInv
  <2> QED  BY <2>1, <2>2, <2>3, EnvironmentKeepsBooks
<1> QED  BY <1>1, <1>2, <1>3 DEF Next, Quiescent

\* A row that says undone is about a mutation that is not in force any more,
\* whatever failed on the way, lost UPDATEs and early Undos included.
THEOREM UndoneIsReversed == Spec => []UndoneRowsAreReversed
<1>1. BooksInv => UndoneRowsAreReversed
  BY DEF BooksInv, BooksOK, ExecuteBooks, UndoneRowsAreReversed
<1>2. BooksInv /\ [Next]_vars => BooksInv'
  BY NextKeepsBooks
<1> QED  BY InitBooks, <1>1, <1>2, PTL DEF Spec

-----------------------------------------------------------------------------
(* While the database answers, clients wait and the backend stays up,      *)
(* every mutation in force is in the log once its request is over, even    *)
(* the one whose answer was lost.                                          *)

LogIsReachable == FaultKinds \cap {"db", "cancel", "crash"} = {}

LoggedOK ==
    /\ cancelled = {}
    /\ \A e \in Executes : \A i \in Positions :
          balance[e][i] > 0 /\ rows[e][i] = NoRow =>
              pc[e] \in {"after", "insert", "recordFailure"} /\ i = idx[e]
LoggedInv == BooksInv /\ LoggedOK

\* Only a client that goes away cancels its request.
LEMMA CancelledStays ==
    ASSUME [Next]_vars
    PROVE  cancelled' = cancelled \/ "cancel" \in FaultKinds
<1>1. \A p, kind : CallOk(p) \/ CallFails(p, kind) \/ AnswerLost(p) => cancelled' = cancelled
  BY DEF CallOk, CallFails, AnswerLost, Inject, envVars
<1>2. \A p, g, s : SetGroupStatus(p, g, s) => cancelled' = cancelled
  BY <1>1 DEF SetGroupStatus, BestEffort
<1>3. \A p, g, i, s : SetRowStatus(p, g, i, s) => cancelled' = cancelled
  BY <1>1 DEF SetRowStatus, BestEffort
<1>4. ASSUME NEW e \in Executes, ExecuteStep(e) PROVE cancelled' = cancelled
  <2>1. CASE ExecuteStart(e) \/ AcquireNext(e) \/ AllLocked(e) \/ Succeed(e)
    BY <2>1 DEF ExecuteStart, AcquireNext, AllLocked, Succeed, envVars
  <2>2. CASE CreateGroup(e) \/ GetClients(e) \/ FetchBefore(e) \/ FetchAfter(e) \/ InsertOperation(e)
    BY <1>1, <2>2 DEF CreateGroup, GetClients, FetchBefore, FetchAfter, InsertOperation
  <2>3. CASE ApplyOperation(e) \/ RollbackOne(e) \/ RecordFailure(e) \/ RespondFailure(e)
    BY <1>1, <2>3 DEF ApplyOperation, RollbackOne, RecordFailure, RespondFailure
  <2>4. CASE Abandon(e) \/ RollbackMark(e) \/ RollbackGroup(e)
    BY <1>2, <1>3, <2>4 DEF Abandon, RollbackMark, RollbackGroup
  <2> QED  BY <1>4, <2>1, <2>2, <2>3, <2>4 DEF ExecuteStep
<1>5. ASSUME NEW u \in Undos, UndoStep(u) PROVE cancelled' = cancelled
  <2>1. CASE AcquireNext(u) \/ AllLocked(u)
    BY <2>1 DEF AcquireNext, AllLocked, envVars
  <2>2. CASE (\E g \in Executes : UndoReadGroup(u, g)) \/ UndoReadOps(u) \/ UndoClients(u)
    BY <1>1, <2>2 DEF UndoReadGroup, UndoReadOps, UndoClients, envVars
  <2>3. CASE UndoMatch(u) \/ UndoReverse(u)
    BY <1>1, <2>3 DEF UndoMatch, UndoReverse, envVars
  <2>4. CASE UndoMark(u) \/ UndoAttention(u) \/ UndoFinish(u)
    BY <1>2, <1>3, <2>4 DEF UndoMark, UndoAttention, UndoFinish
  <2> QED  BY <1>5, <2>1, <2>2, <2>3, <2>4 DEF UndoStep
<1>6. CASE \E p \in Procs : ClientDisconnects(p)
  BY <1>6 DEF ClientDisconnects
<1>7. CASE Crash \/ (\E r \in Routers, id \in Ids : ExternalEdit(r, id)) \/ UNCHANGED vars
  BY <1>7 DEF Crash, ExternalEdit, Inject, vars, envVars
<1> QED  BY <1>4, <1>5, <1>6, <1>7 DEF Next, Quiescent

\* Every step logs what it has applied.
LEMMA NextLogs ==
    ASSUME LogIsReachable, LoggedInv, [Next]_vars
    PROVE  LoggedInv'
<1>1. BooksInv'
  BY NextKeepsBooks DEF LoggedInv
<1>2. cancelled' = {}
  BY CancelledStays DEF LoggedInv, LoggedOK, LogIsReachable
<1>3. \A p : ~MayFail(p, "db")
  BY DEF MayFail, LoggedInv, LoggedOK, LogIsReachable
<1>4. \A f \in Executes, i \in Positions :
          /\ balance[f][i] \in Int /\ balance'[f][i] \in Int
          /\ balance[f][i] > 0 /\ rows[f][i] = NoRow =>
                 pc[f] \in {"after", "insert", "recordFailure"} /\ i = idx[f]
  BY <1>1 DEF LoggedInv, LoggedOK, BooksInv, TypeInv, TypeOK, RouterTypeOK
<1>5. ASSUME NEW e \in Executes, ExecuteStep(e), NEW f \in Executes, NEW i \in Positions,
             balance'[f][i] > 0, rows'[f][i] = NoRow
      PROVE  pc'[f] \in {"after", "insert", "recordFailure"} /\ i = idx'[f]
  <2>1. ExecuteDoes(e) /\ TypeInv
    BY <1>5, ExecuteStepDoes DEF LoggedInv, BooksInv
  <2>2. /\ OthersStay(e)
        /\ \A q \in Procs \ {e} : idx'[q] = idx[q]
        /\ \A g \in Executes \ {e} : rows'[g] = rows[g] /\ balance'[g] = balance[g]
        /\ \A j \in Positions : rows[e][j] # NoRow => rows'[e][j] # NoRow
        /\ \A j \in Positions :
              \/ balance'[e][j] <= balance[e][j]
              \/ pc[e] = "apply" /\ j = idx[e]
    BY <2>1, ExecuteDoesOwn
  <2>3. CASE f # e
    BY <1>4, <1>5, <2>2, <2>3 DEF OthersStay, Procs
  <2>4. CASE f = e /\ Applies(e)
    BY <1>4, <1>5, <2>2, <2>4 DEF Applies, Moves
  <2>5. CASE f = e /\ ~Applies(e)
    <3>1. pc[e] # "apply"
      BY <2>1, <2>5 DEF ExecuteDoes, Arrives, Creates, GetsClients, Looks, Logs,
         Records, Reverses, Marks, Concludes, Leaves, Moves
    <3>2. pc[e] \in {"after", "insert", "recordFailure"} /\ i = idx[e]
      BY <1>4, <1>5, <2>2, <2>5, <3>1
    <3>3. CASE Looks(e)
      BY <2>5, <3>2, <3>3 DEF Looks, Moves
    <3>4. CASE Logs(e)
      BY <1>3, <1>5, <2>5, <3>2, <3>4 DEF Logs, Logged
    <3>5. CASE Records(e)
      <4>1. idx[e] \in idx[e]..Len(Ops[e])
        BY <2>1, <3>5, LoopPosition DEF Records, Moves
      <4> QED  BY <1>3, <1>5, <2>5, <3>2, <3>5, <4>1 DEF Records
    <3> QED
      BY <2>1, <2>5, <3>2, <3>3, <3>4, <3>5
         DEF ExecuteDoes, Arrives, Creates, GetsClients, Reverses, Marks, Concludes, Leaves, Moves
  <2> QED  BY <2>3, <2>4, <2>5
<1>6. ASSUME NEW u \in Undos, UndoStep(u), NEW f \in Executes, NEW i \in Positions,
             balance'[f][i] > 0, rows'[f][i] = NoRow
      PROVE  pc'[f] \in {"after", "insert", "recordFailure"} /\ i = idx'[f]
  <2>1. UndoDoes(u) /\ TypeInv /\ (pc[u] \notin {"idle", "done"} => target[u] \in Executes)
    BY <1>6, UndoStepDoes DEF LoggedInv, BooksInv, TypeInv, LoopsOK, UndoLoopAt
  <2>2. pc'[f] = pc[f] /\ idx'[f] = idx[f]
    BY <2>1, ProcsAssumption
       DEF UndoDoes, ReadsGroup, ReadsRows, GoesOn, TakesBack, MarksUndone, Finishes,
           Moves, Turns, OthersStay, Procs
  <2>3. balance'[f][i] <= balance[f][i]
    BY <1>4, <2>1 DEF UndoDoes, ReadsGroup, ReadsRows, GoesOn, TakesBack, MarksUndone, Finishes,
       Moves, Counted
  <2>4. rows[f][i] = NoRow
    BY <1>6, <2>1 DEF UndoDoes, ReadsGroup, ReadsRows, GoesOn, TakesBack, MarksUndone, Finishes,
       Marked
  <2> QED  BY <1>4, <1>6, <2>2, <2>3, <2>4
<1>7. ASSUME EnvironmentDoes, NEW f \in Executes, NEW i \in Positions,
             balance'[f][i] > 0, rows'[f][i] = NoRow
      PROVE  pc'[f] \in {"after", "insert", "recordFailure"} /\ i = idx'[f]
  BY <1>4, <1>7 DEF EnvironmentDoes, LogIsReachable, Procs
<1>8. LoggedOK'
  BY <1>2, <1>5, <1>6, <1>7, EnvironmentStepDoes DEF LoggedOK, Next, Quiescent
<1> QED  BY <1>1, <1>8 DEF LoggedInv

\* Nothing is applied at the start, and nobody has gone away.
LEMMA InitLogged == Init => LoggedInv
  BY InitBooks DEF Init, LoggedInv, LoggedOK

\* A mutation in force on a router is in the log, once its request is over.
THEOREM MutationsAreLogged == LogIsReachable => (Spec => []EveryMutationLogged)
<1> SUFFICES ASSUME LogIsReachable PROVE Spec => []EveryMutationLogged
  OBVIOUS
<1>1. LoggedInv => EveryMutationLogged
  BY DEF LoggedInv, LoggedOK, EveryMutationLogged
<1>2. LoggedInv /\ [Next]_vars => LoggedInv'
  BY NextLogs
<1> QED  BY InitLogged, <1>1, <1>2, PTL DEF Spec

-----------------------------------------------------------------------------
(* While only routers fail, and an Undo names a group whose request is     *)
(* over, the status of a group tells what of it is in force.               *)

OnlyRoutersFail == FaultKinds \subseteq {"router"} /\ ~EarlyUndo

Unsettled == {"clients", "before", "apply", "after", "insert", "recordFailure",
              "rollback", "markUndone", "markFailed", "succeed"}
Looping == {"before", "apply", "after", "insert", "recordFailure", "succeed"}
RollingBack == {"rollback", "markUndone", "markFailed"}

\* Every operation of group g is logged, as applied or as undone.
Whole(g) ==
    \A i \in 1..Len(Ops[g]) :
        rows[g][i] # NoRow /\ rows[g][i].status \in {"applied", "undone"}

\* The status of the group of request e.
StatusTells(e) ==
    /\ pc[e] # "abandon"
    /\ pc[e] \in {"idle", "lock", "create"} => groupStatus[e] = "none"
    /\ pc[e] \in Unsettled => groupStatus[e] = "applied"
    /\ pc[e] = "respond" => groupStatus[e] \in {"failed", "requires_attention"}
    /\ groupStatus[e] = "failed" => \A i \in Positions : balance[e][i] = 0
    /\ groupStatus[e] = "undone" => \A i \in Positions : balance[e][i] <= 0
    /\ pc[e] = "done" /\ groupStatus[e] = "applied" => Whole(e)

\* What request e has done of its operations.
LoopTells(e) ==
    /\ pc[e] \in Looping =>
          \A i \in 1..Len(Ops[e]) : i < idx[e] =>
              balance[e][i] = 1 /\ rows[e][i] # NoRow /\ rows[e][i].status = "applied"
    /\ pc[e] = "succeed" => idx[e] > Len(Ops[e])
    /\ pc[e] \in {"after", "insert"} => balance[e][idx[e]] = 1
    /\ pc[e] = "recordFailure" => balance[e][idx[e]] = 0
    /\ pc[e] = "markFailed" => ~rolledBack[e]
    /\ pc[e] \in RollingBack =>
          \A i \in Positions :
              i < idx[e] \/ (i = idx[e] /\ pc[e] = "rollback") => balance[e][i] = 1
    /\ pc[e] \in RollingBack /\ rolledBack[e] =>
          \A i \in Positions :
              i > idx[e] \/ (i = idx[e] /\ pc[e] = "markUndone") => balance[e][i] = 0

\* Undo u is about a group that is over and that was applied.
Started(u) == pc[u] \notin {"idle", "readOps", "done"}
UndoTells(u) ==
    /\ pc[u] \notin {"idle", "done"} => pc[target[u]] = "done"
    /\ Started(u) \/ (pc[u] = "readOps" /\ snap[u].status = "applied") =>
          /\ groupStatus[target[u]] \in {"applied", "undone", "requires_attention"}
          /\ Whole(target[u])
    /\ Started(u) =>
          \A i \in 1..Len(Ops[target[u]]) :
              \/ i \in Todo(u)
              \/ snap[u].rows[i] # NoRow /\ balance[target[u]][i] <= 0
    /\ pc[u] \in {"reverse", "mark"} =>
          \A i \in Todo(u) :
              i > idx[u] \/ (i = idx[u] /\ pc[u] = "mark") => balance[target[u]][i] <= 0

PromiseOK ==
    /\ \A e \in Executes : StatusTells(e) /\ LoopTells(e)
    /\ \A u \in Undos : UndoTells(u)
PromiseInv == LoggedInv /\ PromiseOK

\* What cannot fail while only routers fail.
LEMMA NothingElseFails ==
    ASSUME OnlyRoutersFail, PromiseInv
    PROVE  \A p : ~MayFail(p, "db") /\ ~MayFail(p, "lost")
BY DEF OnlyRoutersFail, PromiseInv, LoggedInv, LoggedOK, MayFail

\* What a position of a loop means for the counts.
LEMMA BooksOfExecute ==
    ASSUME PromiseInv, NEW e \in Executes
    PROVE  /\ \A i \in Positions :
                 /\ balance[e][i] \in Int /\ balance[e][i] <= 1
                 /\ i \in Nat /\ i > 0 /\ i <= MaxOps
                 /\ i > Len(Ops[e]) => balance[e][i] <= 0
                 /\ Unapplied(e, i) => balance[e][i] = 0
           /\ \A i \in 1..Len(Ops[e]) : i \in Positions
           /\ idx[e] \in Nat /\ Len(Ops[e]) \in Nat
           /\ StatusTells(e) /\ LoopTells(e)
BY OpsAssumption DEF PromiseInv, PromiseOK, LoggedInv, BooksInv, BooksOK, ExecuteBooks,
   TypeInv, TypeOK, RouterTypeOK, ControlTypeOK, Procs, Positions

\* A step of Execute keeps what its status and its loop tell.
LEMMA ExecuteKeepsOwnPromise ==
    ASSUME OnlyRoutersFail, PromiseInv, NEW e \in Executes, ExecuteDoes(e)
    PROVE  StatusTells(e)' /\ LoopTells(e)'
<1>1. /\ \A i \in Positions :
            /\ balance[e][i] \in Int /\ balance[e][i] <= 1
            /\ i \in Nat /\ i > 0 /\ i <= MaxOps
            /\ i > Len(Ops[e]) => balance[e][i] <= 0
            /\ Unapplied(e, i) => balance[e][i] = 0
      /\ \A i \in 1..Len(Ops[e]) : i \in Positions
      /\ idx[e] \in Nat /\ Len(Ops[e]) \in Nat
      /\ StatusTells(e) /\ LoopTells(e)
  BY BooksOfExecute
<1>2. \A p : ~MayFail(p, "db") /\ ~MayFail(p, "lost")
  BY NothingElseFails
<1>3. TypeInv /\ groupStatus \in [Executes -> GroupStatus] /\ rolledBack \in [Executes -> BOOLEAN]
  BY DEF PromiseInv, LoggedInv, BooksInv, TypeInv, TypeOK, DbTypeOK, ExecTypeOK
<1>4. CASE Arrives(e)
  BY <1>1, <1>4 DEF Arrives, Moves, StatusTells, LoopTells, Whole, Unsettled, Looping, RollingBack
<1>5. CASE Creates(e)
  <2>1. groupStatus'[e] = IF pc'[e] = "clients" THEN "applied" ELSE groupStatus[e]
    BY <1>3, <1>5 DEF Creates, Moves
  <2>2. pc[e] = "create" /\ pc'[e] \in {"clients", "done"} /\ UNCHANGED <<balance, rows, rolledBack, idx>>
    BY <1>5 DEF Creates, Moves
  <2> QED
    BY <1>1, <2>1, <2>2 DEF StatusTells, LoopTells, Whole, Unsettled, Looping, RollingBack
<1>6. CASE GetsClients(e)
  <2>1. /\ pc[e] = "clients" /\ UNCHANGED <<balance, rows, groupStatus, rolledBack>>
        /\ pc'[e] \in IF 1 > Len(Ops[e]) THEN {"succeed"} ELSE {"before", "apply"}
        /\ idx'[e] = 1
    BY <1>2, <1>6 DEF GetsClients, Enters, Turns
  <2> QED
    BY <1>1, <2>1 DEF StatusTells, LoopTells, Whole, Unsettled, Looping, RollingBack
<1>7. CASE Looks(e)
  <2>1. idx[e] \in Positions /\ (pc[e] = "before" => Unapplied(e, idx[e]))
    BY <1>1, <1>3, <1>7, LoopPosition DEF Looks, Moves, Unapplied
  <2> QED
    BY <1>1, <1>7, <2>1
       DEF Looks, Moves, StatusTells, LoopTells, Whole, Unsettled, Looping, RollingBack
<1>8. CASE Applies(e)
  <2>1. idx[e] \in Positions /\ Unapplied(e, idx[e]) /\ pc[e] = "apply"
    BY <1>1, <1>3, <1>8, LoopPosition DEF Applies, Moves, Unapplied
  <2>2. /\ UNCHANGED <<idx, rows, groupStatus, rolledBack>>
        /\ pc'[e] \in {"after", "insert", "recordFailure"}
        /\ \A i \in Positions : i # idx[e] => balance'[e][i] = balance[e][i]
        /\ balance'[e][idx[e]] = IF pc'[e] = "recordFailure" THEN 0 ELSE 1
    BY <1>1, <1>2, <1>8, <2>1 DEF Applies, Moves, Counted
  <2>3. groupStatus[e] = "applied"
    BY <1>1, <2>1 DEF StatusTells, Unsettled
  <2>4. \A i \in 1..Len(Ops[e]) : i < idx[e] => balance'[e][i] = balance[e][i]
    BY <1>1, <2>2
  <2> QED
    BY <1>1, <2>1, <2>2, <2>3, <2>4
       DEF StatusTells, LoopTells, Unsettled, Looping, RollingBack
<1>9. CASE Logs(e)
  <2>1. idx[e] \in 1..Len(Ops[e]) /\ pc[e] = "insert"
    BY <1>3, <1>9, LoopPosition DEF Logs
  <2>2. /\ Logged(e, idx[e]) /\ idx'[e] = idx[e] + 1
        /\ pc'[e] \in IF idx[e] + 1 > Len(Ops[e]) THEN {"succeed"} ELSE {"before", "apply"}
        /\ UNCHANGED <<balance, groupStatus, rolledBack>>
    BY <1>2, <1>9 DEF Logs, Enters, Turns
  <2>3. ASSUME NEW i \in 1..Len(Ops[e]), i < idx[e] + 1
        PROVE  balance[e][i] = 1 /\ rows'[e][i] # NoRow /\ rows'[e][i].status = "applied"
    <3>1. CASE i = idx[e]
      BY <1>1, <2>1, <2>2, <3>1 DEF Logged, LoopTells
    <3>2. CASE i # idx[e]
      <4>1. i < idx[e] /\ i \in Positions
        BY <1>1, <2>3, <3>2
      <4> QED  BY <1>1, <2>1, <2>2, <3>2, <4>1 DEF Logged, LoopTells, Looping
    <3> QED  BY <3>1, <3>2
  <2>4. groupStatus[e] = "applied" /\ pc'[e] \in {"succeed", "before", "apply"}
    BY <1>1, <2>1, <2>2 DEF StatusTells, Unsettled
  <2>5. pc'[e] = "succeed" => idx[e] + 1 > Len(Ops[e])
    BY <2>2
  <2> QED
    BY <2>2, <2>3, <2>4, <2>5 DEF StatusTells, LoopTells, Unsettled, Looping, RollingBack
<1>10. CASE Records(e)
  <2>1. /\ pc[e] = "recordFailure" /\ pc'[e] = "rollback" /\ idx'[e] = idx[e] - 1
        /\ UNCHANGED <<balance, groupStatus, rolledBack>>
    BY <1>10 DEF Records, Moves, Turns
  <2>2. ASSUME NEW i \in Positions, i > idx[e] - 1 PROVE balance[e][i] = 0
    <3>1. CASE i = idx[e]
      BY <1>1, <2>1, <3>1 DEF LoopTells
    <3>2. CASE i > idx[e]
      BY <1>1, <2>1, <3>2 DEF Unapplied
    <3> QED  BY <1>1, <2>2, <3>1, <3>2
  <2>3. groupStatus[e] = "applied"
    BY <1>1, <2>1 DEF StatusTells, Unsettled
  <2>4. ASSUME NEW i \in Positions, i < idx[e] - 1 \/ i = idx[e] - 1 PROVE balance[e][i] = 1
    <3>1. idx[e] \in 1..Len(Ops[e])
      BY <1>3, <2>1, LoopPosition
    <3>2. i \in 1..Len(Ops[e]) /\ i < idx[e]
      BY <1>1, <2>4, <3>1
    <3> QED  BY <1>1, <2>1, <3>2 DEF LoopTells, Looping
  <2> QED
    BY <2>1, <2>2, <2>3, <2>4 DEF StatusTells, LoopTells, Unsettled, Looping, RollingBack
<1>11. CASE Reverses(e)
  <2>1. /\ pc[e] = "rollback" /\ pc'[e] \in {"markUndone", "markFailed"}
        /\ UNCHANGED <<idx, rows, groupStatus>>
        /\ pc'[e] = "markUndone" => Counted(e, idx[e], -1) /\ rolledBack'[e] = rolledBack[e]
        /\ pc'[e] = "markFailed" => ~rolledBack'[e]
    BY <1>3, <1>11 DEF Reverses, Moves
  <2>2. groupStatus[e] = "applied"
    BY <1>1, <2>1 DEF StatusTells, Unsettled
  <2>3. ASSUME NEW i \in Positions, pc'[e] = "markUndone", rolledBack'[e], i >= idx[e]
        PROVE  balance'[e][i] = 0
    <3>1. balance'[e][i] = IF i = idx[e] THEN balance[e][i] + (-1) ELSE balance[e][i]
      BY <2>1, <2>3 DEF Counted
    <3>2. CASE i = idx[e]
      <4>1. balance[e][i] = 1
        BY <1>1, <2>1, <3>2 DEF LoopTells, RollingBack
      <4> QED  BY <3>1, <3>2, <4>1
    <3>3. CASE i # idx[e]
      <4>1. i > idx[e]
        BY <1>1, <2>3, <3>3
      <4>2. rolledBack[e] /\ pc[e] \in RollingBack
        BY <2>1, <2>3 DEF RollingBack
      <4>3. balance[e][i] = 0
        BY <1>1, <4>1, <4>2 DEF LoopTells
      <4> QED  BY <3>1, <3>3, <4>3
    <3> QED  BY <3>2, <3>3
  <2>4. \A i \in Positions : i > idx[e] \/ i = idx[e] => i >= idx[e]
    BY <1>1
  <2>5. ASSUME NEW i \in Positions, i < idx[e] PROVE balance'[e][i] = 1
    <3>1. balance'[e][i] = balance[e][i]
      BY <1>1, <1>11, <2>5 DEF Reverses, Counted
    <3> QED  BY <1>1, <2>1, <2>5, <3>1 DEF LoopTells, RollingBack
  <2> QED
    BY <2>1, <2>2, <2>3, <2>4, <2>5 DEF StatusTells, LoopTells, Unsettled, Looping, RollingBack
<1>12. CASE Marks(e)
  <2>1. /\ pc[e] \in {"markUndone", "markFailed"} /\ pc'[e] = "rollback" /\ idx'[e] = idx[e] - 1
        /\ UNCHANGED <<balance, groupStatus, rolledBack>>
    BY <1>12 DEF Marks, Moves, Turns
  <2>2. groupStatus[e] = "applied"
    BY <1>1, <2>1 DEF StatusTells, Unsettled
  <2>3. ASSUME NEW i \in Positions, i > idx[e] - 1, rolledBack[e] PROVE balance[e][i] = 0
    <3>1. i > idx[e] \/ i = idx[e]
      BY <1>1, <2>3
    <3> QED  BY <1>1, <2>1, <2>3, <3>1 DEF LoopTells, RollingBack
  <2>4. ASSUME NEW i \in Positions, i < idx[e] - 1 \/ i = idx[e] - 1 PROVE balance[e][i] = 1
    <3>1. i < idx[e]
      BY <1>1, <2>4
    <3> QED  BY <1>1, <2>1, <3>1 DEF LoopTells, RollingBack
  <2> QED
    BY <2>1, <2>2, <2>3, <2>4 DEF StatusTells, LoopTells, Unsettled, Looping, RollingBack
<1>13. CASE Concludes(e)
  <2>1. /\ pc[e] = "rollback" /\ pc'[e] = "respond" /\ idx[e] = 0
        /\ UNCHANGED <<idx, balance, rows, rolledBack>>
        /\ groupStatus'[e] = IF rolledBack[e] THEN "failed" ELSE "requires_attention"
    BY <1>2, <1>13 DEF Concludes, Moves, Settled
  <2>2. rolledBack[e] => \A i \in Positions : balance[e][i] = 0
    BY <1>1, <2>1 DEF LoopTells, RollingBack
  <2> QED
    BY <2>1, <2>2 DEF StatusTells, LoopTells, Unsettled, Looping, RollingBack
<1>14. CASE Leaves(e)
  <2>1. /\ pc[e] \in {"succeed", "respond"} /\ pc'[e] = "done"
        /\ UNCHANGED <<idx, balance, rows, rolledBack, groupStatus>>
    BY <1>1, <1>14 DEF Leaves, Moves, StatusTells
  <2>2. pc[e] = "succeed" => Whole(e)
    BY <1>1 DEF LoopTells, Looping, Whole
  <2> QED
    BY <1>1, <2>1, <2>2 DEF StatusTells, LoopTells, Whole, Unsettled, Looping, RollingBack
<1> QED
  BY <1>4, <1>5, <1>6, <1>7, <1>8, <1>9, <1>10, <1>11, <1>12, <1>13, <1>14 DEF ExecuteDoes

\* A step of Execute: the groups that an Undo is about are over.
LEMMA ExecuteKeepsPromise ==
    ASSUME OnlyRoutersFail, PromiseInv, NEW e \in Executes, ExecuteStep(e)
    PROVE  PromiseOK'
<1>1. ExecuteDoes(e) /\ UNCHANGED <<target, snap>> /\ TypeInv
  BY ExecuteStepDoes DEF PromiseInv, LoggedInv, BooksInv
<1>2. StatusTells(e)' /\ LoopTells(e)'
  BY <1>1, ExecuteKeepsOwnPromise
<1>3. /\ OthersStay(e)
      /\ \A q \in Procs \ {e} : idx'[q] = idx[q]
      /\ \A f \in Executes \ {e} :
            /\ rows'[f] = rows[f] /\ balance'[f] = balance[f]
            /\ groupStatus'[f] = groupStatus[f] /\ rolledBack'[f] = rolledBack[f]
  BY <1>1, ExecuteDoesOwn
<1>4. ASSUME NEW f \in Executes \ {e} PROVE StatusTells(f)' /\ LoopTells(f)'
  <2>1. pc'[f] = pc[f] /\ idx'[f] = idx[f] /\ StatusTells(f) /\ LoopTells(f)
    BY <1>3 DEF PromiseInv, PromiseOK, OthersStay, Procs
  <2> QED  BY <1>3, <2>1 DEF StatusTells, LoopTells, Whole
<1>5. pc[e] # "done"
  BY <1>1 DEF ExecuteDoes, Arrives, Creates, GetsClients, Looks, Applies, Logs, Records,
     Reverses, Marks, Concludes, Leaves, Moves
<1>6. ASSUME NEW u \in Undos PROVE UndoTells(u)'
  <2>1. /\ pc'[u] = pc[u] /\ idx'[u] = idx[u] /\ target'[u] = target[u] /\ snap'[u] = snap[u]
        /\ UndoTells(u)
    BY <1>1, <1>3, ProcsAssumption DEF PromiseInv, PromiseOK, OthersStay, Procs
  <2>2. CASE pc[u] \in {"idle", "done"}
    BY <2>1, <2>2 DEF UndoTells, Started
  <2>3. CASE pc[u] \notin {"idle", "done"}
    <3>1. target[u] \in Executes \ {e}
      BY <1>1, <1>5, <2>1, <2>3 DEF UndoTells, TypeInv, LoopsOK, UndoLoopAt
    <3>2. pc'[target[u]] = pc[target[u]]
      BY <1>3, <3>1 DEF OthersStay, Procs
    <3>3. Todo(u)' = Todo(u)
      BY <2>1 DEF Todo
    <3> QED  BY <1>3, <2>1, <3>1, <3>2, <3>3 DEF UndoTells, Started, Whole
  <2> QED  BY <2>2, <2>3
<1> QED  BY <1>2, <1>4, <1>6 DEF PromiseOK

\* An Undo that finds nothing more to do has reversed its whole group.
LEMMA NothingLeft ==
    ASSUME PromiseInv, NEW u \in Undos, pc[u] = "reverse", NothingTodo(u)
    PROVE  \A i \in Positions : balance[target[u]][i] <= 0
<1>1. UndoTells(u) /\ target[u] \in Executes
  BY DEF PromiseInv, PromiseOK, LoggedInv, BooksInv, TypeInv, LoopsOK, UndoLoopAt
<1>2. ASSUME NEW i \in Positions PROVE balance[target[u]][i] <= 0
  <2>1. CASE i > Len(Ops[target[u]])
    BY <1>1, <2>1, BooksOfExecute
  <2>2. CASE i \in 1..Len(Ops[target[u]])
    BY <1>1, <2>2 DEF UndoTells, Started, NothingTodo
  <2> QED  BY <1>1, <2>1, <2>2, BooksOfExecute
<1> QED  BY <1>2

\* What a step of Undo does to the groups.
LEMMA UndoTouches ==
    ASSUME OnlyRoutersFail, PromiseInv, NEW u \in Undos, UndoDoes(u)
    PROVE  /\ \A f \in Executes : pc'[f] = pc[f] /\ idx'[f] = idx[f]
           /\ \A v \in Undos \ {u} :
                 /\ pc'[v] = pc[v] /\ idx'[v] = idx[v]
                 /\ target'[v] = target[v] /\ snap'[v] = snap[v]
           /\ \A f \in Executes, i \in Positions : balance'[f][i] <= balance[f][i]
           /\ \A f \in Executes : Whole(f) => Whole(f)'
           /\ \A f \in Executes :
                 \/ groupStatus'[f] = groupStatus[f]
                 \/ /\ f = target[u] /\ pc[f] = "done"
                    /\ groupStatus'[f] \in {"undone", "requires_attention"}
                    /\ groupStatus'[f] = "undone" =>
                          \A i \in Positions : balance'[f][i] <= 0
           /\ \A f \in Executes : pc[f] # "done" =>
                 rows'[f] = rows[f] /\ balance'[f] = balance[f]
           /\ \A f \in Executes : groupStatus[f] = "failed" => balance'[f] = balance[f]
<1>1. /\ TypeInv /\ u \in Procs /\ UndoTells(u)
      /\ pc[u] \notin {"idle", "done"} => target[u] \in Executes
      /\ \A f \in Executes, i \in Positions : balance[f][i] \in Int
  BY DEF PromiseInv, PromiseOK, LoggedInv, BooksInv, TypeInv, TypeOK, RouterTypeOK,
     LoopsOK, UndoLoopAt, Procs
<1>2. \A p : ~MayFail(p, "db")
  BY NothingElseFails
<1>3. \A f \in Executes : f \in Procs /\ f # u
  BY ProcsAssumption DEF Procs
<1>4. \A v \in Undos : v \in Procs
  BY DEF Procs
<1>5. CASE ReadsGroup(u)
  BY <1>1, <1>3, <1>4, <1>5
     DEF ReadsGroup, Moves, OthersStay, TypeInv, TypeOK, UndoTypeOK, Whole
<1>6. CASE ReadsRows(u)
  BY <1>1, <1>3, <1>4, <1>6
     DEF ReadsRows, Moves, OthersStay, TypeInv, TypeOK, UndoTypeOK, Whole
<1>7. CASE GoesOn(u)
  BY <1>1, <1>3, <1>4, <1>7 DEF GoesOn, Moves, OthersStay, Whole
<1>8. CASE TakesBack(u)
  <2>1. /\ UNCHANGED <<rows, groupStatus, target, snap>>
        /\ OthersStay(u) /\ \A q \in Procs \ {u} : idx'[q] = idx[q]
        /\ pc[u] = "reverse"
    BY <1>8 DEF TakesBack, Moves, Turns
  <2>2. PICK i \in Positions : UNCHANGED balance \/ Counted(target[u], i, -1)
    BY <1>8 DEF TakesBack
  <2>3. pc[target[u]] = "done" /\ target[u] \in Executes /\ groupStatus[target[u]] # "failed"
    BY <1>1, <2>1 DEF UndoTells, Started
  <2> QED
    BY <1>1, <1>3, <1>4, <2>1, <2>2, <2>3 DEF OthersStay, Counted, Whole
<1>9. CASE MarksUndone(u)
  <2>1. /\ UNCHANGED <<balance, groupStatus, target, snap>>
        /\ OthersStay(u) /\ \A q \in Procs \ {u} : idx'[q] = idx[q]
        /\ pc[u] = "mark" /\ Marked(u, target[u], idx[u], "undone")
    BY <1>9 DEF MarksUndone, Moves, Turns
  <2>2. pc[target[u]] = "done" /\ target[u] \in Executes
    BY <1>1, <2>1 DEF UndoTells
  <2>3. ASSUME NEW f \in Executes, Whole(f) PROVE Whole(f)'
    <3>1. ASSUME NEW i \in 1..Len(Ops[f])
          PROVE  rows'[f][i] # NoRow /\ rows'[f][i].status \in {"applied", "undone"}
      <4>1. i \in Positions
        BY BooksOfExecute
      <4> QED  BY <2>1, <2>3, <4>1 DEF Marked, Whole
    <3> QED  BY <3>1 DEF Whole
  <2> QED
    BY <1>1, <1>3, <1>4, <2>1, <2>2, <2>3 DEF OthersStay, Marked
<1>10. CASE Finishes(u)
  <2>1. /\ UNCHANGED <<idx, balance, rows, target, snap>> /\ OthersStay(u)
        /\ \/ pc[u] = "attention" /\ Settled(u, target[u], "requires_attention")
           \/ pc[u] = "reverse" /\ NothingTodo(u) /\ Settled(u, target[u], "undone")
    BY <1>10 DEF Finishes, Moves
  <2>2. pc[target[u]] = "done" /\ target[u] \in Executes
    BY <1>1, <2>1 DEF UndoTells
  <2>3. pc[u] = "reverse" /\ NothingTodo(u) => \A i \in Positions : balance[target[u]][i] <= 0
    BY NothingLeft
  <2> QED
    BY <1>1, <1>2, <1>3, <1>4, <2>1, <2>2, <2>3 DEF OthersStay, Settled, Whole
<1> QED  BY <1>5, <1>6, <1>7, <1>8, <1>9, <1>10 DEF UndoDoes

\* A step of Undo keeps what it has reversed.
LEMMA UndoKeepsOwnPromise ==
    ASSUME OnlyRoutersFail, PromiseInv, NEW u \in Undos, UndoDoes(u)
    PROVE  UndoTells(u)'
<1>1. /\ TypeInv /\ u \in Procs /\ UndoTells(u)
      /\ pc[u] \notin {"idle", "done"} => target[u] \in Executes
      /\ idx[u] \in Nat
  BY DEF PromiseInv, PromiseOK, LoggedInv, BooksInv, TypeInv, TypeOK, ControlTypeOK,
     LoopsOK, UndoLoopAt, Procs
<1>2. /\ \A f \in Executes : pc'[f] = pc[f] /\ idx'[f] = idx[f]
      /\ \A f \in Executes, i \in Positions : balance'[f][i] <= balance[f][i]
      /\ \A f \in Executes : Whole(f) => Whole(f)'
  BY UndoTouches
<1>3. \A f \in Executes, i \in Positions :
          balance[f][i] \in Int /\ balance[f][i] <= 1 /\ i \in Nat
  BY BooksOfExecute
<1>4. CASE ReadsGroup(u)
  <2>1. CASE Moves(u, {"idle"}, {"done"})
    BY <2>1 DEF Moves, UndoTells, Started
  <2>2. CASE ~Moves(u, {"idle"}, {"done"})
    <3>1. PICK g \in Executes :
              /\ pc[g] = "done"
              /\ target' = [target EXCEPT ![u] = g]
              /\ Moves(u, {"idle"}, {"readOps"})
              /\ snap' = [snap EXCEPT ![u].status = groupStatus[g]]
              /\ UNCHANGED <<rows, groupStatus>>
      BY <1>4, <2>2 DEF ReadsGroup, OnlyRoutersFail
    <3>2. target'[u] = g /\ snap'[u].status = groupStatus[g] /\ pc'[u] = "readOps"
      BY <1>1, <3>1 DEF Moves, TypeInv, TypeOK, UndoTypeOK
    <3>3. groupStatus[g] = "applied" => Whole(g)'
      BY <1>2, <3>1 DEF PromiseInv, PromiseOK, StatusTells
    <3>4. (Whole(target[u]))' <=> Whole(g)'
      BY <3>2 DEF Whole
    <3> QED  BY <1>2, <3>1, <3>2, <3>3, <3>4 DEF UndoTells, Started
  <2> QED  BY <2>1, <2>2
<1>5. CASE ReadsRows(u)
  <2>1. CASE Moves(u, {"readOps"}, {"done"})
    BY <2>1 DEF Moves, UndoTells, Started
  <2>2. CASE ~Moves(u, {"readOps"}, {"done"})
    <3>1. /\ Moves(u, {"readOps"}, {"lock"}) /\ snap[u].status = "applied"
          /\ snap' = [snap EXCEPT ![u].rows = rows[target[u]]]
          /\ UNCHANGED <<balance, rows, groupStatus, target>>
      BY <1>5, <2>2 DEF ReadsRows
    <3>2. pc[u] = "readOps" /\ pc'[u] = "lock" /\ target[u] \in Executes
      BY <1>1, <3>1 DEF Moves
    <3>3. snap'[u].rows = rows[target[u]]
      BY <1>1, <3>1 DEF TypeInv, TypeOK, UndoTypeOK
    <3>4. /\ pc[target[u]] = "done" /\ Whole(target[u])
          /\ groupStatus[target[u]] \in {"applied", "undone", "requires_attention"}
      BY <1>1, <3>1, <3>2 DEF UndoTells
    <3>5. ASSUME NEW i \in 1..Len(Ops[target[u]])
          PROVE  i \in Todo(u)' \/ (snap'[u].rows[i] # NoRow /\ balance[target[u]][i] <= 0)
      <4>1. i \in Positions
        BY <3>2, BooksOfExecute
      <4>2. rows[target[u]][i] # NoRow /\ rows[target[u]][i].status \in {"applied", "undone"}
        BY <3>4 DEF Whole
      <4>3. rows[target[u]][i].status = "undone" => balance[target[u]][i] <= 0
        BY <3>2, <4>1, <4>2 DEF PromiseInv, LoggedInv, BooksInv, BooksOK, ExecuteBooks
      <4> QED  BY <3>3, <4>1, <4>2, <4>3 DEF Todo
    <3>6. (Whole(target[u]))'
      BY <3>1, <3>4 DEF Whole
    <3> QED  BY <1>2, <3>1, <3>2, <3>4, <3>5, <3>6 DEF UndoTells, Started
  <2> QED  BY <2>1, <2>2
<1>6. CASE GoesOn(u)
  <2>1. /\ UNCHANGED <<balance, rows, groupStatus, target, snap>>
        /\ pc[u] \in {"lock", "clients", "match"}
        /\ pc'[u] \in {"lock", "clients", "match", "done", "reverse"}
        /\ pc'[u] = "reverse" => idx'[u] = MaxOps
    BY <1>6 DEF GoesOn, Moves
  <2>2. Todo(u)' = Todo(u) /\ (Whole(target[u])' <=> Whole(target[u]))
    BY <2>1 DEF Todo, Whole
  <2>3. pc[target[u]] = "done" /\ pc'[target[u]] = "done"
    BY <1>1, <1>2, <2>1 DEF UndoTells
  <2>4. \A i \in Todo(u) : ~(i > MaxOps)
    BY OpsAssumption DEF Todo, Positions
  <2> QED  BY <1>1, <2>1, <2>2, <2>3, <2>4 DEF UndoTells, Started
<1>7. CASE TakesBack(u)
  <2>1. PICK i \in Positions :
            /\ NextTodo(u, i) /\ idx'[u] = i
            /\ pc'[u] = "mark" => Counted(target[u], i, -1)
            /\ pc[u] = "reverse" /\ pc'[u] \in {"mark", "attention"}
            /\ UNCHANGED <<rows, groupStatus, target, snap>>
    BY <1>7 DEF TakesBack, Turns, Moves
  <2>2. target[u] \in Executes /\ pc[target[u]] = "done" /\ pc'[target[u]] = "done"
    BY <1>1, <1>2, <2>1 DEF UndoTells
  <2>3. Todo(u)' = Todo(u) /\ (Whole(target[u])' <=> Whole(target[u]))
    BY <2>1 DEF Todo, Whole
  <2>4. \A j \in 1..Len(Ops[target[u]]) : j \in Positions
    BY <2>2, BooksOfExecute
  <2>5. \A j \in Positions : balance[target[u]][j] <= 0 => balance'[target[u]][j] <= 0
    <3>1. \A j \in Positions : balance'[target[u]][j] \in Int
      BY <1>1, <1>3, <2>1, <2>2, <1>7 DEF TakesBack, Counted
    <3> QED  BY <1>2, <1>3, <2>2, <3>1
  <2>6. ASSUME NEW j \in Todo(u), pc'[u] = "mark", j >= i
        PROVE  balance'[target[u]][j] <= 0
    <3>1. j \in Positions
      BY DEF Todo
    <3>2. CASE j = i
      BY <1>3, <2>1, <2>2, <2>6, <3>2 DEF Counted
    <3>3. CASE j # i
      <4>1. j > idx[u]
        BY <1>1, <1>3, <2>1, <2>2, <2>6, <3>1, <3>3 DEF NextTodo
      <4>2. balance[target[u]][j] <= 0
        BY <1>1, <2>1, <4>1 DEF UndoTells
      <4> QED  BY <2>5, <3>1, <4>2
    <3> QED  BY <3>2, <3>3
  <2>7. ASSUME NEW j \in Todo(u), j > i \/ j = i PROVE j >= i
    BY <2>7, OpsAssumption DEF Todo, Positions
  <2> QED
    BY <1>1, <2>1, <2>2, <2>3, <2>4, <2>5, <2>6, <2>7 DEF UndoTells, Started
<1>8. CASE MarksUndone(u)
  <2>1. /\ UNCHANGED <<balance, groupStatus, target, snap>>
        /\ pc[u] = "mark" /\ pc'[u] = "reverse" /\ idx'[u] = idx[u] - 1
    BY <1>8 DEF MarksUndone, Moves, Turns
  <2>2. target[u] \in Executes /\ pc[target[u]] = "done" /\ pc'[target[u]] = "done"
    BY <1>1, <1>2, <2>1 DEF UndoTells
  <2>3. Todo(u)' = Todo(u)
    BY <2>1 DEF Todo
  <2>4. (Whole(target[u]))'
    <3>1. Whole(target[u])
      BY <1>1, <2>1 DEF UndoTells, Started
    <3>2. \A i \in 1..Len(Ops[target[u]]) :
              rows'[target[u]][i] # NoRow /\ rows'[target[u]][i].status \in {"applied", "undone"}
      BY <1>2, <2>2, <3>1 DEF Whole
    <3> QED  BY <2>1, <3>2 DEF Whole
  <2>5. \A i \in Todo(u) : i > idx[u] - 1 => i > idx[u] \/ i = idx[u]
    BY <1>1, OpsAssumption DEF Todo, Positions
  <2> QED  BY <1>1, <2>1, <2>2, <2>3, <2>4, <2>5 DEF UndoTells, Started
<1>9. CASE Finishes(u)
  BY <1>9 DEF Finishes, Moves, UndoTells, Started
<1> QED  BY <1>4, <1>5, <1>6, <1>7, <1>8, <1>9 DEF UndoDoes

\* A step of Undo keeps what the groups and the other Undos tell.
LEMMA UndoKeepsPromise ==
    ASSUME OnlyRoutersFail, PromiseInv, NEW u \in Undos, UndoStep(u)
    PROVE  PromiseOK'
<1>1. UndoDoes(u) /\ UNCHANGED rolledBack /\ TypeInv
  BY UndoStepDoes DEF PromiseInv, LoggedInv, BooksInv
<1>2. UndoTells(u)'
  BY <1>1, UndoKeepsOwnPromise
<1>3. /\ \A f \in Executes : pc'[f] = pc[f] /\ idx'[f] = idx[f]
      /\ \A v \in Undos \ {u} :
            /\ pc'[v] = pc[v] /\ idx'[v] = idx[v]
            /\ target'[v] = target[v] /\ snap'[v] = snap[v]
      /\ \A f \in Executes, i \in Positions : balance'[f][i] <= balance[f][i]
      /\ \A f \in Executes : Whole(f) => Whole(f)'
      /\ \A f \in Executes :
            \/ groupStatus'[f] = groupStatus[f]
            \/ /\ f = target[u] /\ pc[f] = "done"
               /\ groupStatus'[f] \in {"undone", "requires_attention"}
               /\ groupStatus'[f] = "undone" =>
                     \A i \in Positions : balance'[f][i] <= 0
      /\ \A f \in Executes : pc[f] # "done" =>
            rows'[f] = rows[f] /\ balance'[f] = balance[f]
      /\ \A f \in Executes : groupStatus[f] = "failed" => balance'[f] = balance[f]
  BY <1>1, UndoTouches
<1>4. \A f \in Executes, i \in Positions : balance[f][i] <= 0 => balance'[f][i] <= 0
  <2>1. TypeInv'
    BY NextTypeInv DEF Next, PromiseInv, LoggedInv, BooksInv
  <2>2. \A f \in Executes, i \in Positions : balance[f][i] \in Int /\ balance'[f][i] \in Int
    BY <1>1, <2>1 DEF TypeInv, TypeOK, RouterTypeOK
  <2> QED  BY <1>3, <2>2
<1>5. ASSUME NEW f \in Executes PROVE StatusTells(f)' /\ LoopTells(f)'
  <2>1. StatusTells(f) /\ LoopTells(f) /\ pc'[f] = pc[f] /\ idx'[f] = idx[f] /\ rolledBack' = rolledBack
    BY <1>1, <1>3 DEF PromiseInv, PromiseOK
  <2>2. CASE pc[f] = "done"
    BY <1>3, <1>4, <2>1, <2>2 DEF StatusTells, LoopTells, Unsettled, Looping, RollingBack
  <2>3. CASE pc[f] # "done"
    <3>1. /\ rows'[f] = rows[f] /\ balance'[f] = balance[f] /\ groupStatus'[f] = groupStatus[f]
      BY <1>3, <2>3
    <3> QED  BY <2>1, <2>3, <3>1 DEF StatusTells, LoopTells
  <2> QED  BY <2>2, <2>3
<1>6. ASSUME NEW v \in Undos \ {u} PROVE UndoTells(v)'
  <2>1. /\ pc'[v] = pc[v] /\ idx'[v] = idx[v] /\ target'[v] = target[v] /\ snap'[v] = snap[v]
        /\ UndoTells(v) /\ (pc[v] \notin {"idle", "done"} => target[v] \in Executes)
    BY <1>1, <1>3 DEF PromiseInv, PromiseOK, TypeInv, LoopsOK, UndoLoopAt
  <2>2. CASE pc[v] \in {"idle", "done"}
    BY <2>1, <2>2 DEF UndoTells, Started
  <2>3. CASE pc[v] \notin {"idle", "done"}
    <3>1. Todo(v)' = Todo(v) /\ (Whole(target[v]) => Whole(target[v])')
      <4>1. Whole(target[v]) => \A i \in 1..Len(Ops[target[v]]) :
                rows'[target[v]][i] # NoRow /\ rows'[target[v]][i].status \in {"applied", "undone"}
        BY <1>3, <2>1, <2>3 DEF Whole
      <4> QED  BY <2>1, <4>1 DEF Todo, Whole
    <3>2. /\ pc'[target[v]] = pc[target[v]]
          /\ groupStatus[target[v]] \in {"applied", "undone", "requires_attention"} =>
                 groupStatus'[target[v]] \in {"applied", "undone", "requires_attention"}
          /\ \A i \in Positions : balance[target[v]][i] <= 0 => balance'[target[v]][i] <= 0
      BY <1>3, <1>4, <2>1, <2>3
    <3>3. /\ \A i \in Todo(v) : i \in Positions
          /\ \A i \in 1..Len(Ops[target[v]]) : i \in Positions
      BY <2>1, <2>3, BooksOfExecute DEF Todo
    <3> QED  BY <2>1, <2>3, <3>1, <3>2, <3>3 DEF UndoTells, Started
  <2> QED  BY <2>2, <2>3
<1> QED  BY <1>2, <1>5, <1>6 DEF PromiseOK

\* Every step keeps the promise.
LEMMA NextKeepsPromise ==
    ASSUME OnlyRoutersFail, PromiseInv, [Next]_vars
    PROVE  PromiseInv'
<1>1. LoggedInv'
  BY NextLogs DEF PromiseInv, OnlyRoutersFail, LogIsReachable
<1>2. ASSUME EnvironmentDoes PROVE PromiseOK'
  <2>1. UNCHANGED <<idx, balance, rows, groupStatus, rolledBack, target, snap>>
    BY <1>2 DEF EnvironmentDoes
  <2>2. \A p \in Procs : pc'[p] = pc[p]
    BY <1>2 DEF EnvironmentDoes, OnlyRoutersFail
  <2>3. ASSUME NEW e \in Executes PROVE StatusTells(e)' /\ LoopTells(e)'
    BY <2>1, <2>2 DEF PromiseInv, PromiseOK, StatusTells, LoopTells, Whole, Procs
  <2>4. ASSUME NEW u \in Undos PROVE UndoTells(u)'
    <3>1. UndoTells(u) /\ pc'[u] = pc[u] /\ (pc[u] \notin {"idle", "done"} => target[u] \in Executes)
      BY <2>2 DEF PromiseInv, PromiseOK, LoggedInv, BooksInv, TypeInv, LoopsOK, UndoLoopAt, Procs
    <3>2. Todo(u)' = Todo(u) /\ (Whole(target[u])' <=> Whole(target[u]))
      BY <2>1 DEF Todo, Whole
    <3>3. target[u] \in Executes => pc'[target[u]] = pc[target[u]]
      BY <2>2 DEF Procs
    <3> QED  BY <2>1, <3>1, <3>2, <3>3 DEF UndoTells, Started
  <2> QED  BY <2>3, <2>4 DEF PromiseOK
<1>3. PromiseOK'
  BY <1>2, ExecuteKeepsPromise, UndoKeepsPromise, EnvironmentStepDoes DEF Next, Quiescent
<1> QED  BY <1>1, <1>3 DEF PromiseInv

\* At the start no group has a status and nothing is in force.
LEMMA InitPromise == Init => PromiseInv
<1> SUFFICES ASSUME Init PROVE PromiseInv
  OBVIOUS
<1>1. LoggedInv
  BY InitLogged
<1>2. \A e \in Executes : pc[e] = "idle" /\ groupStatus[e] = "none"
  BY DEF Init, Procs
<1>3. \A u \in Undos : pc[u] = "idle"
  BY DEF Init, Procs
<1>4. \A e \in Executes : StatusTells(e) /\ LoopTells(e)
  BY <1>2 DEF StatusTells, LoopTells, Unsettled, Looping, RollingBack
<1>5. \A u \in Undos : UndoTells(u)
  BY <1>3 DEF UndoTells, Started
<1> QED  BY <1>1, <1>4, <1>5 DEF PromiseInv, PromiseOK

\* A failed group has nothing in force on any router, while only routers fail.
THEOREM FailedIsReversed == OnlyRoutersFail => (Spec => []FailedLeavesNothing)
<1> SUFFICES ASSUME OnlyRoutersFail PROVE Spec => []FailedLeavesNothing
  OBVIOUS
<1>1. PromiseInv => FailedLeavesNothing
  BY DEF PromiseInv, PromiseOK, StatusTells, FailedLeavesNothing
<1>2. PromiseInv /\ [Next]_vars => PromiseInv'
  BY NextKeepsPromise
<1> QED  BY InitPromise, <1>1, <1>2, PTL DEF Spec


-----------------------------------------------------------------------------
(* The refinement: nobody sees a group that is applied, failed or undone   *)
(* in between.                                                             *)

\* A step is about group g.
About(g) ==
    /\ \A f \in Executes \ {g} :
          balance'[f] = balance[f] /\ groupStatus'[f] = groupStatus[f]
    /\ \A f \in Executes \ {g} : pc'[f] = pc[f]

\* A step about group g changes what is said and what is in force of it only.
LEMMA AboutOne ==
    ASSUME NEW g \in Executes, About(g)
    PROVE  /\ Fate' = [Fate EXCEPT ![g] = Fate'[g]]
           /\ InForce' = [InForce EXCEPT ![g] = InForce'[g]]
           /\ Fate'[g] = Fate[g] => UNCHANGED Fate
           /\ InForce'[g] = InForce[g] => UNCHANGED InForce
           /\ Fate[g] = (IF groupStatus[g] = "applied" /\ pc[g] # "done"
                         THEN "open" ELSE groupStatus[g])
           /\ Fate'[g] = (IF groupStatus'[g] = "applied" /\ pc'[g] # "done"
                          THEN "open" ELSE groupStatus'[g])
<1>1. /\ \A f \in Executes \ {g} : Fate'[f] = Fate[f] /\ InForce'[f] = InForce[f]
      /\ DOMAIN Fate = Executes /\ DOMAIN InForce = Executes
      /\ DOMAIN Fate' = Executes /\ DOMAIN InForce' = Executes
      /\ Fate = [f \in Executes |-> Fate[f]] /\ InForce = [f \in Executes |-> InForce[f]]
      /\ Fate' = [f \in Executes |-> Fate'[f]] /\ InForce' = [f \in Executes |-> InForce'[f]]
  BY DEF About, Fate, InForce
<1>2. /\ Fate[g] = (IF groupStatus[g] = "applied" /\ pc[g] # "done"
                    THEN "open" ELSE groupStatus[g])
      /\ Fate'[g] = (IF groupStatus'[g] = "applied" /\ pc'[g] # "done"
                     THEN "open" ELSE groupStatus'[g])
  BY DEF Fate
<1>3. Fate' = [Fate EXCEPT ![g] = Fate'[g]] /\ InForce' = [InForce EXCEPT ![g] = InForce'[g]]
  BY <1>1
<1>4. /\ Fate'[g] = Fate[g] => UNCHANGED Fate
      /\ InForce'[g] = InForce[g] => UNCHANGED InForce
  BY <1>1
<1> QED  BY <1>2, <1>3, <1>4

\* A step about group g that says the same of it and leaves the same in force.
LEMMA NothingHappens ==
    ASSUME NEW g \in Executes, About(g),
           groupStatus'[g] = groupStatus[g], balance'[g] = balance[g],
           pc'[g] = "done" <=> pc[g] = "done"
    PROVE  UNCHANGED <<Fate, InForce>>
<1>1. InForce'[g] = InForce[g]
  BY DEF InForce
<1> QED  BY <1>1, AboutOne

\* A step about group g that changes what is said of it.
LEMMA OneSettles ==
    ASSUME NEW g \in Executes, About(g), balance'[g] = balance[g],
           \/ Fate[g] = "none" /\ Fate'[g] = "open"
           \/ Fate[g] = "open" /\ Fate'[g] = "applied" /\ InForce[g] = 1..Len(Ops[g])
           \/ Fate[g] = "open" /\ Fate'[g] = "failed" /\ InForce[g] = {}
           \/ /\ Fate[g] \in {"applied", "requires_attention"} /\ Fate'[g] = "undone"
              /\ InForce[g] = {}
           \/ /\ Fate[g] \in {"open", "applied", "undone"}
              /\ Fate'[g] = "requires_attention"
    PROVE  Promise!Next
<1>1. UNCHANGED InForce
  <2>1. InForce'[g] = InForce[g]
    BY DEF InForce
  <2> QED  BY <2>1, AboutOne
<1>2. Fate' = [Fate EXCEPT ![g] = Fate'[g]]
  BY AboutOne
<1>3. Size[g] = Len(Ops[g])
  BY DEF Size
<1>4. \/ Promise!Begin(g) \/ Promise!Applied(g) \/ Promise!Failed(g)
      \/ Promise!Undone(g) \/ Promise!Stuck(g)
  BY <1>1, <1>2, <1>3
     DEF Promise!Begin, Promise!Applied, Promise!Failed, Promise!Undone, Promise!Stuck,
         Promise!Settle
<1> QED  BY <1>4 DEF Promise!Next

\* While its request runs anything may happen to what is in force of a group.
LEMMA OneWorks ==
    ASSUME PromiseInv', NEW g \in Executes, About(g), Fate[g] = "open", Fate'[g] = "open"
    PROVE  Promise!Next
<1>1. UNCHANGED Fate /\ InForce' = [InForce EXCEPT ![g] = InForce'[g]]
  BY AboutOne
<1>2. ASSUME NEW i \in InForce'[g] PROVE i \in 1..Size[g]
  <2>1. i \in Positions /\ balance'[g][i] > 0
    BY <1>2 DEF InForce
  <2>2. balance'[g][i] \in Int /\ (i > Len(Ops[g]) => balance'[g][i] <= 0)
    BY <2>1 DEF PromiseInv, LoggedInv, BooksInv, BooksOK, ExecuteBooks, TypeInv, TypeOK,
       RouterTypeOK
  <2>3. Len(Ops[g]) \in Nat /\ i \in Nat /\ i >= 1
    BY <2>1, OpsAssumption DEF Positions
  <2> QED  BY <2>1, <2>2, <2>3 DEF Size
<1>3. Promise!Work(g)
  BY <1>1, <1>2 DEF Promise!Work
<1> QED  BY <1>3 DEF Promise!Next

\* Reversing operation i takes it out of force and nothing else.
LEMMA OneReverses ==
    ASSUME PromiseInv, NEW g \in Executes, About(g), NEW i \in Positions, Counted(g, i, -1),
           groupStatus'[g] = groupStatus[g], pc'[g] = "done", pc[g] = "done",
           groupStatus[g] \in {"applied", "undone", "requires_attention"}
    PROVE  [Promise!Next]_<<Fate, InForce>>
<1>1. \A j \in Positions : balance[g][j] \in Int /\ balance[g][j] <= 1
  BY BooksOfExecute
<1>2. UNCHANGED Fate /\ InForce' = [InForce EXCEPT ![g] = InForce'[g]]
  BY AboutOne
<1>3. /\ InForce[g] = {j \in Positions : balance[g][j] > 0}
      /\ InForce'[g] = {j \in Positions : balance'[g][j] > 0}
  BY DEF InForce
<1>4. \A j \in Positions : balance'[g][j] > 0 <=> balance[g][j] > 0 /\ j # i
  BY <1>1 DEF Counted
<1>5. InForce'[g] = InForce[g] \ {i}
  BY <1>3, <1>4
<1>6. CASE i \in InForce[g]
  <2>1. groupStatus[g] # "undone"
    BY <1>1, <1>3, <1>6 DEF PromiseInv, PromiseOK, StatusTells
  <2>2. Fate[g] \in {"applied", "requires_attention"}
    BY <2>1, AboutOne
  <2>3. InForce' = [InForce EXCEPT ![g] = InForce[g] \ {i}]
    BY <1>2, <1>5
  <2>4. Promise!Reverse(g)
    BY <1>2, <1>6, <2>2, <2>3 DEF Promise!Reverse
  <2> QED  BY <2>4 DEF Promise!Next
<1>7. CASE i \notin InForce[g]
  <2>1. InForce'[g] = InForce[g]
    BY <1>5, <1>7
  <2> QED  BY <1>2, <2>1, AboutOne
<1> QED  BY <1>6, <1>7

\* Every step of Execute is a step of the promise, or none.
LEMMA ExecuteRefines ==
    ASSUME OnlyRoutersFail, PromiseInv, PromiseInv', NEW e \in Executes, ExecuteDoes(e)
    PROVE  [Promise!Next]_<<Fate, InForce>>
<1>1. /\ TypeInv /\ StatusTells(e) /\ LoopTells(e)
      /\ StatusTells(e)' /\ Len(Ops[e]) \in Nat
      /\ \A i \in Positions :
            /\ balance[e][i] \in Int /\ i \in Nat /\ i > 0
            /\ i > Len(Ops[e]) => balance[e][i] <= 0
      /\ \A i \in 1..Len(Ops[e]) : i \in Positions
  BY BooksOfExecute DEF PromiseInv, PromiseOK, LoggedInv, BooksInv
<1>2. About(e)
  BY <1>1, ExecuteDoesOwn, ProcsAssumption DEF About, OthersStay, Procs
<1>3. \A p : ~MayFail(p, "db")
  BY NothingElseFails
<1>4. /\ Fate[e] = (IF groupStatus[e] = "applied" /\ pc[e] # "done"
                    THEN "open" ELSE groupStatus[e])
      /\ Fate'[e] = (IF groupStatus'[e] = "applied" /\ pc'[e] # "done"
                     THEN "open" ELSE groupStatus'[e])
  BY <1>2, AboutOne
<1>5. CASE Arrives(e)
  <2>1. /\ UNCHANGED <<balance, groupStatus>> /\ groupStatus[e] = "none"
        /\ pc[e] # "done"
    BY <1>1, <1>5 DEF Arrives, Moves, StatusTells
  <2>2. Fate'[e] = Fate[e] /\ InForce'[e] = InForce[e]
    BY <1>4, <2>1 DEF InForce
  <2> QED  BY <1>2, <2>2, AboutOne
<1>6. CASE Creates(e)
  <2>1. balance'[e] = balance[e] /\ groupStatus[e] = "none" /\ pc[e] = "create"
    BY <1>1, <1>6 DEF Creates, Moves, StatusTells
  <2>2. \/ pc'[e] = "clients" /\ groupStatus'[e] = "applied"
        \/ groupStatus'[e] = "none"
    BY <1>1, <1>6, <2>1 DEF Creates, Moves, StatusTells, Unsettled
  <2>3. CASE pc'[e] = "clients" /\ groupStatus'[e] = "applied"
    BY <1>2, <1>4, <2>1, <2>3, OneSettles
  <2>4. CASE groupStatus'[e] = "none"
    <3>1. Fate'[e] = Fate[e] /\ InForce'[e] = InForce[e]
      BY <1>4, <2>1, <2>4 DEF InForce
    <3> QED  BY <1>2, <3>1, AboutOne
  <2> QED  BY <2>2, <2>3, <2>4
<1>7. CASE GetsClients(e) \/ Looks(e) \/ Applies(e) \/ Logs(e) \/ Records(e) \/ Reverses(e) \/ Marks(e)
  <2>1. pc[e] \in Unsettled /\ pc'[e] \in Unsettled \cup {"abandon"}
    BY <1>7
       DEF GetsClients, Looks, Applies, Logs, Records, Reverses, Marks, Enters, Moves, Unsettled
  <2>2. pc'[e] # "abandon"
    BY <1>1 DEF StatusTells
  <2>3. groupStatus[e] = "applied" /\ groupStatus'[e] = "applied"
    BY <1>1, <2>1, <2>2 DEF StatusTells
  <2>4. Fate[e] = "open" /\ Fate'[e] = "open"
    BY <1>4, <2>1, <2>2, <2>3 DEF Unsettled
  <2> QED  BY <1>2, <2>4, OneWorks
<1>8. CASE Concludes(e)
  <2>1. /\ pc[e] = "rollback" /\ pc'[e] = "respond" /\ idx[e] = 0 /\ balance' = balance
        /\ groupStatus'[e] = IF rolledBack[e] THEN "failed" ELSE "requires_attention"
    BY <1>3, <1>8 DEF Concludes, Moves, Settled
  <2>2. groupStatus[e] = "applied"
    BY <1>1, <2>1 DEF StatusTells, Unsettled
  <2>3. rolledBack[e] => InForce[e] = {}
    <3>1. rolledBack[e] => \A i \in Positions : balance[e][i] = 0
      BY <1>1, <2>1 DEF LoopTells, RollingBack
    <3> QED  BY <3>1 DEF InForce
  <2>4. /\ Fate[e] = "open"
        /\ Fate'[e] = IF rolledBack[e] THEN "failed" ELSE "requires_attention"
    BY <1>4, <2>1, <2>2
  <2> QED  BY <1>2, <2>1, <2>3, <2>4, OneSettles
<1>9. CASE Leaves(e)
  <2>1. /\ pc[e] \in {"succeed", "respond"} /\ pc'[e] = "done"
        /\ UNCHANGED <<balance, groupStatus>>
    BY <1>1, <1>9 DEF Leaves, Moves, StatusTells
  <2>2. CASE pc[e] = "respond"
    <3>1. groupStatus[e] # "applied"
      BY <1>1, <2>2 DEF StatusTells
    <3>2. Fate'[e] = Fate[e] /\ InForce'[e] = InForce[e]
      BY <1>4, <2>1, <3>1 DEF InForce
    <3> QED  BY <1>2, <3>2, AboutOne
  <2>3. CASE pc[e] = "succeed"
    <3>1. groupStatus[e] = "applied" /\ idx[e] > Len(Ops[e])
      BY <1>1, <2>3 DEF StatusTells, LoopTells, Unsettled
    <3>2. idx[e] \in Nat
      BY <1>1 DEF TypeInv, TypeOK, ControlTypeOK, Procs
    <3>3. \A i \in 1..Len(Ops[e]) : balance[e][i] = 1
      BY <1>1, <2>3, <3>1, <3>2 DEF LoopTells, Looping
    <3>4. InForce[e] = 1..Len(Ops[e])
      <4>1. InForce[e] = {i \in Positions : balance[e][i] > 0}
        BY DEF InForce
      <4>2. \A i \in Positions : balance[e][i] > 0 => i \in 1..Len(Ops[e])
        BY <1>1
      <4>3. \A i \in 1..Len(Ops[e]) : i \in Positions /\ balance[e][i] > 0
        BY <1>1, <3>3
      <4> QED  BY <4>1, <4>2, <4>3
    <3>5. Fate[e] = "open" /\ Fate'[e] = "applied"
      BY <1>4, <2>1, <2>3, <3>1
    <3> QED  BY <1>2, <2>1, <3>4, <3>5, OneSettles
  <2> QED  BY <2>1, <2>2, <2>3
<1> QED  BY <1>5, <1>6, <1>7, <1>8, <1>9 DEF ExecuteDoes

\* Every step of Undo is a step of the promise, or none.
LEMMA UndoRefines ==
    ASSUME OnlyRoutersFail, PromiseInv, NEW u \in Undos, UndoDoes(u)
    PROVE  [Promise!Next]_<<Fate, InForce>>
<1>1. /\ TypeInv /\ UndoTells(u)
      /\ pc[u] \notin {"idle", "done"} => target[u] \in Executes
  BY DEF PromiseInv, PromiseOK, LoggedInv, BooksInv, TypeInv, LoopsOK, UndoLoopAt
<1>2. \A f \in Executes : pc'[f] = pc[f]
  BY UndoTouches
<1>3. CASE ReadsGroup(u) \/ ReadsRows(u) \/ GoesOn(u) \/ MarksUndone(u)
  <2>1. UNCHANGED <<balance, groupStatus>>
    BY <1>3 DEF ReadsGroup, ReadsRows, GoesOn, MarksUndone
  <2>2. UNCHANGED <<Fate, InForce>>
    BY <1>2, <2>1 DEF Fate, InForce
  <2> QED  BY <2>2
<1>4. CASE TakesBack(u)
  <2>1. PICK i \in Positions :
            /\ UNCHANGED balance \/ Counted(target[u], i, -1)
            /\ UNCHANGED groupStatus /\ pc[u] = "reverse"
    BY <1>4 DEF TakesBack, Moves
  <2>2. /\ target[u] \in Executes /\ pc[target[u]] = "done"
        /\ groupStatus[target[u]] \in {"applied", "undone", "requires_attention"}
    BY <1>1, <2>1 DEF UndoTells, Started
  <2>3. CASE UNCHANGED balance
    BY <1>2, <2>1, <2>3 DEF Fate, InForce
  <2>4. CASE Counted(target[u], i, -1)
    <3>1. About(target[u])
      BY <1>2, <2>1, <2>4 DEF About, Counted
    <3> QED  BY <1>2, <2>1, <2>2, <2>4, <3>1, OneReverses
  <2> QED  BY <2>1, <2>3, <2>4
<1>5. CASE Finishes(u)
  <2>1. /\ balance' = balance
        /\ \/ pc[u] = "attention" /\ Settled(u, target[u], "requires_attention")
           \/ pc[u] = "reverse" /\ NothingTodo(u) /\ Settled(u, target[u], "undone")
    BY <1>5 DEF Finishes, Moves
  <2>2. /\ target[u] \in Executes /\ pc[target[u]] = "done" /\ pc'[target[u]] = "done"
        /\ groupStatus[target[u]] \in {"applied", "undone", "requires_attention"}
    BY <1>1, <1>2, <2>1 DEF UndoTells, Started
  <2>3. About(target[u])
    BY <1>2, <2>1 DEF About, Settled
  <2>4. /\ Fate[target[u]] = groupStatus[target[u]]
        /\ Fate'[target[u]] = groupStatus'[target[u]]
    BY <2>2, <2>3, AboutOne
  <2>5. ~MayFail(u, "db")
    BY NothingElseFails
  <2>6. CASE groupStatus'[target[u]] = groupStatus[target[u]]
    BY <2>1, <2>2, <2>3, <2>6, NothingHappens
  <2>7. CASE groupStatus'[target[u]] # groupStatus[target[u]]
    <3>1. CASE pc[u] = "attention"
      <4>1. groupStatus'[target[u]] = "requires_attention"
        BY <2>1, <2>7, <3>1 DEF Settled
      <4> QED  BY <2>1, <2>2, <2>3, <2>4, <2>7, <4>1, OneSettles
    <3>2. CASE pc[u] = "reverse" /\ NothingTodo(u)
      <4>1. groupStatus'[target[u]] = "undone"
        BY <2>1, <2>7, <3>2 DEF Settled
      <4>2. \A i \in Positions : balance[target[u]][i] <= 0
        BY <3>2, NothingLeft
      <4>3. \A i \in Positions : balance[target[u]][i] \in Int
        BY <2>2, BooksOfExecute
      <4>4. InForce[target[u]] = {}
        BY <2>2, <4>2, <4>3 DEF InForce
      <4> QED  BY <2>1, <2>2, <2>3, <2>4, <2>7, <4>1, <4>4, OneSettles
    <3> QED  BY <2>1, <3>1, <3>2
  <2> QED  BY <2>6, <2>7
<1> QED  BY <1>3, <1>4, <1>5 DEF UndoDoes

\* The operation log keeps its promise about a group while only routers fail:
\* whatever requests cross each other, and however many Undos of one group, a
\* group is all there when the log starts to call it applied and all gone when
\* it calls it failed or undone.
THEOREM PromiseKept == OnlyRoutersFail => (Spec => KeepsItsPromise)
<1> SUFFICES ASSUME OnlyRoutersFail PROVE Spec => KeepsItsPromise
  OBVIOUS
<1>1. Init => Promise!Init
  <2> SUFFICES ASSUME Init PROVE Promise!Init
    OBVIOUS
  <2>1. \A e \in Executes : groupStatus[e] = "none" /\ \A i \in Positions : balance[e][i] = 0
    BY DEF Init
  <2>2. \A e \in Executes : {i \in Positions : balance[e][i] > 0} = {}
    BY <2>1
  <2>3. Fate = [g \in Executes |-> "none"]
    BY <2>1 DEF Fate
  <2>4. InForce = [g \in Executes |-> {}]
    BY <2>2 DEF InForce
  <2> QED  BY <2>3, <2>4 DEF Promise!Init
<1>2. PromiseInv /\ PromiseInv' /\ [Next]_vars => [Promise!Next]_<<Fate, InForce>>
  <2> SUFFICES ASSUME PromiseInv, PromiseInv', [Next]_vars
               PROVE  [Promise!Next]_<<Fate, InForce>>
    OBVIOUS
  <2>1. TypeInv
    BY DEF PromiseInv, LoggedInv, BooksInv
  <2>2. ASSUME NEW e \in Executes, ExecuteStep(e) PROVE [Promise!Next]_<<Fate, InForce>>
    BY <2>1, <2>2, ExecuteStepDoes, ExecuteRefines
  <2>3. ASSUME NEW u \in Undos, UndoStep(u) PROVE [Promise!Next]_<<Fate, InForce>>
    BY <2>1, <2>3, UndoStepDoes, UndoRefines
  <2>4. ASSUME EnvironmentDoes PROVE [Promise!Next]_<<Fate, InForce>>
    <3>1. UNCHANGED <<balance, groupStatus>> /\ \A f \in Executes : pc'[f] = pc[f]
      BY <2>4 DEF EnvironmentDoes, OnlyRoutersFail, Procs
    <3>2. UNCHANGED <<Fate, InForce>>
      BY <3>1 DEF Fate, InForce
    <3> QED  BY <3>2
  <2> QED  BY <2>2, <2>3, <2>4, EnvironmentStepDoes DEF Next, Quiescent
<1>3. PromiseInv /\ [Next]_vars => PromiseInv'
  BY NextKeepsPromise
<1> QED
  BY InitPromise, <1>1, <1>2, <1>3, PTL DEF Spec, KeepsItsPromise, Promise!Spec, Promise!vars

=============================================================================
