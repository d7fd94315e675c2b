---------------------------- MODULE ClusterProofs ----------------------------
(***************************************************************************)
(* What the cluster service and the routers page keep, for any names,      *)
(* addresses and number of requests.                                       *)
(*                                                                         *)
(* The requests are sound (RequestsInv): what the validation of a request  *)
(* leaves behind until its last statement, the inputs it has still to      *)
(* insert come with both credentials, and the input it is at exists.       *)
(*                                                                         *)
(* A connection test that is shown is for what the form says (TestedInv).  *)
(*                                                                         *)
(* A cluster has its roles: RolesInv says that the router its create       *)
(* inserted first stays the master and that no update takes it out,        *)
(* OverlapInv what requests that do not overlap know of its backup.        *)
(*                                                                         *)
(* The tables keep their keys (TypesInv): what a form was validated for is *)
(* what the statements of its request store.                               *)
(*                                                                         *)
(* No form of the page blanks a user name (BlankInv): a form taken past    *)
(* the step of a router does not hold a password alone, requests keep      *)
(* their inputs, and a row with a blank user name was named by another's.  *)
(***************************************************************************)
EXTENDS RoutersPage, TLAPS, FiniteSetTheorems

IsRequest(q) ==
    DOMAIN q = {"op", "by", "cluster", "name", "inputs", "next", "drop", "at", "overlap"}
IsSequence(s) == s \in Seq({s[k] : k \in DOMAIN s})

\* The statements before a request has written its last router.
Writing == {"insert", "get", "rename", "list", "drop", "routers"}

SoundInputs(q) ==
    /\ IsSequence(q.inputs)
    /\ q.at \in DOMAIN q.inputs
    /\ \A k \in DOMAIN q.inputs : q.inputs[k].id = NewRouter => q.inputs[k].cred = "both"

RequestsOK ==
    \A i \in DOMAIN requests :
        /\ IsRequest(requests[i])
        /\ requests[i].next \in Writing => SoundInputs(requests[i])
RowsOK ==
    \A r \in routers : DOMAIN r = {"id", "cluster", "name", "host", "role", "cred"}

RequestsInv == IsSequence(requests) /\ RequestsOK /\ RowsOK

-----------------------------------------------------------------------------
(* Sequences.                                                              *)

\* A function on the first numbers is a sequence of its values.
LEMMA FunctionIsSequence ==
    ASSUME NEW n \in Nat, NEW f, f = [k \in 1..n |-> f[k]]
    PROVE  IsSequence(f) /\ Len(f) = n
<1> DEFINE S == {f[k] : k \in DOMAIN f}
<1>1. \A k \in 1..n : f[k] \in S
  OBVIOUS
<1>2. f \in [1..n -> S]
  BY <1>1
<1> HIDE DEF S
<1>3. f \in Seq(S) /\ Len(f) = n
  BY <1>2
<1> QED  BY <1>3 DEF IsSequence, S

\* What Append does to a sequence of anything.
LEMMA AppendToSequence ==
    ASSUME NEW s, IsSequence(s), NEW e
    PROVE  /\ IsSequence(Append(s, e))
           /\ DOMAIN Append(s, e) = DOMAIN s \cup {Len(s) + 1}
           /\ \A k \in DOMAIN s : Append(s, e)[k] = s[k]
           /\ Append(s, e)[Len(s) + 1] = e
           /\ Len(s) \in Nat /\ DOMAIN s = 1..Len(s)
<1> DEFINE S == {s[k] : k \in DOMAIN s} \cup {e}
<1>1. s \in Seq(S)
  BY DEF IsSequence
<1>2. /\ Append(s, e) \in Seq(S)
      /\ Len(Append(s, e)) = Len(s) + 1
      /\ \A k \in 1..Len(s) : Append(s, e)[k] = s[k]
      /\ Append(s, e)[Len(s) + 1] = e
  BY <1>1
<1>3. /\ DOMAIN s = 1..Len(s) /\ Len(s) \in Nat
      /\ DOMAIN Append(s, e) = 1..(Len(s) + 1)
  BY <1>1, <1>2
<1>4. IsSequence(Append(s, e))
  <2>1. \A k \in 1..(Len(s) + 1) : Append(s, e)[k] \in {Append(s, e)[j] : j \in DOMAIN Append(s, e)}
    BY <1>3
  <2> QED  BY <1>2, <1>3, <2>1 DEF IsSequence
<1> QED  BY <1>2, <1>3, <1>4

-----------------------------------------------------------------------------
(* Requests.                                                               *)

\* The roles of a request leave one or two inputs.
LEMMA OneOrTwo ==
    ASSUME NEW inputs, IsSequence(inputs), ValidRoles(inputs)
    PROVE  DOMAIN inputs = 1..Len(inputs) /\ Len(inputs) \in {1, 2} /\ 1 \in DOMAIN inputs
  BY DEF IsSequence, ValidRoles

\* The validation of the service lets only inputs through that can be stored.
LEMMA RequestIsSound ==
    ASSUME NEW op, NEW by, NEW cluster, NEW name, NEW inputs, IsSequence(inputs),
           NEW q, q = Request(op, by, cluster, name, inputs)
    PROVE  IsRequest(q) /\ (q.next \in Writing => SoundInputs(q))
<1>1. IsRequest(q) /\ q.inputs = inputs /\ q.at = 1
  BY DEF Request, IsRequest
<1>2. q.next \in {"insert", "get", "delete", "error"}
  BY DEF Request
<1>3. q.next = "insert" => ValidCreate(inputs)
  BY DEF Request
<1>4. q.next = "get" => ValidUpdate(inputs)
  BY DEF Request
<1>5. ASSUME q.next \in Writing PROVE SoundInputs(q)
  <2>1. ValidCreate(inputs) \/ ValidUpdate(inputs)
    BY <1>2, <1>3, <1>4, <1>5 DEF Writing
  <2>2. 1 \in DOMAIN inputs
    BY <2>1, OneOrTwo DEF ValidCreate, ValidUpdate
  <2>3. \A k \in DOMAIN inputs : inputs[k].id = NewRouter => inputs[k].cred = "both"
    BY <2>1 DEF ValidCreate, ValidUpdate
  <2> QED  BY <1>1, <2>2, <2>3 DEF SoundInputs
<1> QED  BY <1>1, <1>5

\* A change of requests that keeps their inputs and positions, and brings
\* none back to its statements, keeps them sound.
LEMMA SameInputs ==
    ASSUME NEW q, NEW p, IsRequest(q), q.next \in Writing => SoundInputs(q),
           IsRequest(p), p.inputs = q.inputs, p.at = q.at,
           p.next \in Writing => q.next \in Writing
    PROVE  p.next \in Writing => SoundInputs(p)
  BY DEF SoundInputs

\* A new request, whatever it asks for.
LEMMA ArriveKeeps ==
    ASSUME RequestsInv, NEW op, NEW by, NEW c, NEW name, NEW inputs, IsSequence(inputs),
           Arrive(op, by, c, name, inputs)
    PROVE  IsSequence(requests)' /\ RequestsOK'
<1> DEFINE cluster == IF op = "create" THEN Len(requests) + 1 ELSE c
           old == [j \in DOMAIN requests |->
                     IF Running(requests[j]) /\ requests[j].cluster = cluster
                     THEN [requests[j] EXCEPT !.overlap = TRUE] ELSE requests[j]]
           q == Request(op, by, cluster, name, inputs)
<1>1. requests' = Append(old, q)
  BY DEF Arrive
<1>2. /\ DOMAIN requests = 1..Len(requests) /\ Len(requests) \in Nat
      /\ IsSequence(old) /\ DOMAIN old = DOMAIN requests
  <2>1. requests \in Seq({requests[k] : k \in DOMAIN requests})
    BY DEF RequestsInv, IsSequence
  <2>2. DOMAIN requests = 1..Len(requests) /\ Len(requests) \in Nat
    BY <2>1
  <2>3. DOMAIN old = DOMAIN requests
    OBVIOUS
  <2>4. IsSequence(old)
    <3>1. old = [j \in 1..Len(requests) |-> old[j]]
      BY <2>2
    <3> HIDE DEF old
    <3> QED  BY <2>2, <3>1, FunctionIsSequence
  <2> QED  BY <2>2, <2>3, <2>4
<1>3. \A j \in DOMAIN old :
        IsRequest(old[j]) /\ (old[j].next \in Writing => SoundInputs(old[j]))
  <2> SUFFICES ASSUME NEW j \in DOMAIN old
               PROVE  IsRequest(old[j]) /\ (old[j].next \in Writing => SoundInputs(old[j]))
    OBVIOUS
  <2>1. IsRequest(requests[j]) /\ (requests[j].next \in Writing => SoundInputs(requests[j]))
    BY DEF RequestsInv, RequestsOK
  <2>2. IsRequest(old[j]) /\ old[j].inputs = requests[j].inputs /\ old[j].at = requests[j].at
        /\ old[j].next = requests[j].next
    BY <2>1 DEF IsRequest
  <2> QED  BY <2>1, <2>2, SameInputs
<1>4. IsRequest(q) /\ (q.next \in Writing => SoundInputs(q))
  BY RequestIsSound
<1> HIDE DEF old, q
<1>5. /\ IsSequence(requests')
      /\ DOMAIN requests' = DOMAIN old \cup {Len(old) + 1}
      /\ \A k \in DOMAIN old : requests'[k] = old[k]
      /\ requests'[Len(old) + 1] = q
  BY <1>1, <1>2, AppendToSequence
<1> QED  BY <1>3, <1>4, <1>5 DEF RequestsOK, IsSequence

\* A step that changes fields of one request, but not its inputs.
LEMMA EditKeeps ==
    ASSUME RequestsInv, NEW i \in DOMAIN requests, NEW p,
           requests' = [requests EXCEPT ![i] = p],
           IsRequest(p), p.next \in Writing => SoundInputs(p)
    PROVE  IsSequence(requests)' /\ RequestsOK'
<1>1. requests \in Seq({requests[k] : k \in DOMAIN requests})
  BY DEF RequestsInv, IsSequence
<1>2. DOMAIN requests = 1..Len(requests) /\ Len(requests) \in Nat
  BY <1>1
<1>3. requests' = [k \in 1..Len(requests) |-> requests'[k]]
  BY <1>2
<1>4. IsSequence(requests')
  BY <1>2, <1>3, FunctionIsSequence
<1>5. RequestsOK'
  BY <1>2 DEF RequestsInv, RequestsOK
<1> QED  BY <1>4, <1>5 DEF IsSequence

\* Advance goes to another statement or ends the request.
LEMMA AdvanceKeeps ==
    ASSUME RequestsInv, NEW i \in DOMAIN requests, NEW next, Advance(i, next),
           next \in Writing => requests[i].next \in Writing
    PROVE  IsSequence(requests)' /\ RequestsOK'
<1> DEFINE p == [requests[i] EXCEPT !.next = next]
<1>1. IsRequest(requests[i]) /\ (requests[i].next \in Writing => SoundInputs(requests[i]))
  BY DEF RequestsInv, RequestsOK
<1>2. requests' = [requests EXCEPT ![i] = p]
  BY DEF Advance
<1>3. IsRequest(p) /\ p.inputs = requests[i].inputs /\ p.at = requests[i].at /\ p.next = next
  BY <1>1 DEF IsRequest
<1> HIDE DEF p
<1> QED  BY <1>1, <1>2, <1>3, SameInputs, EditKeeps

\* A statement that leaves the routers alone or deletes some of them.
LEMMA RowsKept ==
    ASSUME RequestsInv, IsSequence(requests)', RequestsOK', routers' \subseteq routers
    PROVE  RequestsInv'
  BY DEF RequestsInv, RowsOK

\* ListRoutersByCluster.
LEMMA ListRoutersKeeps ==
    ASSUME RequestsInv, NEW i \in DOMAIN requests, ListRouters(i)
    PROVE  RequestsInv'
<1> DEFINE q == requests[i]
           drop == {r.id : r \in RoutersOf(q.cluster)} \ {q.inputs[k].id : k \in DOMAIN q.inputs}
           p == [q EXCEPT !.drop = drop, !.next = IF drop = {} THEN "routers" ELSE "drop"]
<1>1. IsRequest(q) /\ (q.next \in Writing => SoundInputs(q))
  BY DEF RequestsInv, RequestsOK
<1>2. requests' = [requests EXCEPT ![i] = p] /\ q.next \in Writing /\ routers' = routers
  BY DEF ListRouters, Writing
<1>3. IsRequest(p) /\ p.inputs = q.inputs /\ p.at = q.at
  BY <1>1 DEF IsRequest
<1> HIDE DEF p, q
<1>4. p.next \in Writing => SoundInputs(p)
  BY <1>1, <1>2, <1>3, SameInputs
<1> QED  BY <1>2, <1>3, <1>4, EditKeeps, RowsKept

\* DeleteRouter.
LEMMA DropRouterKeeps ==
    ASSUME RequestsInv, NEW i \in DOMAIN requests, DropRouter(i)
    PROVE  RequestsInv'
<1> DEFINE q == requests[i]
           p(id) == [q EXCEPT !.drop = @ \ {id},
                              !.next = IF q.drop = {id} THEN "routers" ELSE "drop"]
<1>1. IsRequest(q) /\ (q.next \in Writing => SoundInputs(q))
  BY DEF RequestsInv, RequestsOK
<1>2. PICK id : requests' = [requests EXCEPT ![i] = p(id)] /\ routers' \subseteq routers
  BY DEF DropRouter
<1>3. q.next \in Writing
  BY DEF DropRouter, Writing
<1>4. IsRequest(p(id)) /\ p(id).inputs = q.inputs /\ p(id).at = q.at
  BY <1>1 DEF IsRequest
<1> HIDE DEF p, q
<1>5. p(id).next \in Writing => SoundInputs(p(id))
  BY <1>1, <1>3, <1>4, SameInputs
<1> QED  BY <1>2, <1>4, <1>5, EditKeeps, RowsKept

\* To the next input, after one that could be stored.
LEMMA NextInputKeeps ==
    ASSUME RequestsInv, NEW i \in DOMAIN requests, requests[i].next = "routers",
           NextInput(i)
    PROVE  IsSequence(requests)' /\ RequestsOK'
<1> DEFINE q == requests[i]
           p == [q EXCEPT !.at = @ + 1,
                          !.next = IF q.at = Len(q.inputs) THEN "read" ELSE "routers"]
<1>1. IsRequest(q) /\ SoundInputs(q)
  BY DEF RequestsInv, RequestsOK, Writing
<1>2. requests' = [requests EXCEPT ![i] = p]
  BY DEF NextInput
<1>3. DOMAIN q.inputs = 1..Len(q.inputs) /\ Len(q.inputs) \in Nat
  BY <1>1 DEF SoundInputs, IsSequence
<1>4. /\ IsRequest(p) /\ p.inputs = q.inputs /\ p.at = q.at + 1
      /\ p.next = IF q.at = Len(q.inputs) THEN "read" ELSE "routers"
  BY <1>1 DEF IsRequest
<1> HIDE DEF p, q
<1>5. p.next \in Writing => SoundInputs(p)
  BY <1>1, <1>3, <1>4 DEF SoundInputs, Writing
<1> QED  BY <1>2, <1>4, <1>5, EditKeeps

\* CreateRouter stores a router.
LEMMA InsertRouterKeeps ==
    ASSUME RequestsInv, NEW i \in DOMAIN requests, InsertRouter(i)
    PROVE  RequestsInv'
<1>1. IsSequence(requests)' /\ RequestsOK'
  BY NextInputKeeps DEF InsertRouter
<1>2. RowsOK'
  BY DEF InsertRouter, RequestsInv, RowsOK
<1> QED  BY <1>1, <1>2 DEF RequestsInv

\* UpdateRouter changes the columns of one.
LEMMA UpdateRouterKeeps ==
    ASSUME RequestsInv, NEW i \in DOMAIN requests, UpdateRouter(i)
    PROVE  RequestsInv'
<1>1. IsSequence(requests)' /\ RequestsOK'
  BY NextInputKeeps DEF UpdateRouter
<1>2. RowsOK'
  BY DEF UpdateRouter, RequestsInv, RowsOK
<1> QED  BY <1>1, <1>2 DEF RequestsInv

\* Every statement of a request.
LEMMA ServeKeeps ==
    ASSUME RequestsInv, NEW i \in DOMAIN requests, ServeStep(i)
    PROVE  RequestsInv'
<1>1. CASE InsertCluster(i)
  BY <1>1, AdvanceKeeps, RowsKept DEF InsertCluster, Writing
<1>2. CASE GetCluster(i)
  BY <1>2, AdvanceKeeps, RowsKept DEF GetCluster, Writing
<1>3. CASE RenameCluster(i)
  BY <1>3, AdvanceKeeps, RowsKept DEF RenameCluster, Writing
<1>4. CASE ListRouters(i)
  BY <1>4, ListRoutersKeeps
<1>5. CASE DropRouter(i)
  BY <1>5, DropRouterKeeps
<1>6. CASE InsertRouter(i)
  BY <1>6, InsertRouterKeeps
<1>7. CASE UpdateRouter(i)
  BY <1>7, UpdateRouterKeeps
<1>8. CASE ReadBack(i)
  BY <1>8, AdvanceKeeps, RowsKept DEF ReadBack, Writing
<1>9. CASE DeleteCluster(i)
  BY <1>9, AdvanceKeeps, RowsKept DEF DeleteCluster, Writing
<1>10. CASE StatementFails(i)
  BY <1>10, AdvanceKeeps, RowsKept DEF StatementFails, Writing
<1> QED
  BY <1>1, <1>2, <1>3, <1>4, <1>5, <1>6, <1>7, <1>8, <1>9, <1>10 DEF ServeStep

-----------------------------------------------------------------------------
(* The page.                                                               *)

\* The inputs the drawer sends are a sequence, and so is no input at all.
LEMMA PayloadIsSequence ==
    ASSUME NEW d
    PROVE  IsSequence(Payload(d)) /\ IsSequence(<<>>)
<1>1. ASSUME NEW a, NEW b PROVE IsSequence(<<a, b>>)
  BY DEF IsSequence
<1>2. ASSUME NEW a PROVE IsSequence(<<a>>)
  BY DEF IsSequence
<1>3. IsSequence(<<>>)
  BY DEF IsSequence
<1> QED  BY <1>1, <1>2, <1>3 DEF Payload

\* A new request of the page or of the other administrator.
LEMMA ArrivalKeeps ==
    ASSUME RequestsInv, NEW op, NEW by, NEW c, NEW name, NEW inputs, IsSequence(inputs),
           Arrive(op, by, c, name, inputs), UNCHANGED routers
    PROVE  RequestsInv'
  BY ArriveKeeps, RowsKept

\* Saving the drawer sends its fields.
LEMMA HandleSubmitKeeps ==
    ASSUME RequestsInv, HandleSubmit
    PROVE  RequestsInv'
<1>1. IsSequence(Payload(drawer))
  BY PayloadIsSequence
<1> QED  BY <1>1, ArrivalKeeps DEF HandleSubmit

\* Deleting from the drawer sends no routers.
LEMMA HandleDeleteKeeps ==
    ASSUME RequestsInv, HandleDelete
    PROVE  RequestsInv'
  BY PayloadIsSequence, ArrivalKeeps DEF HandleDelete

\* A step that touches neither the requests nor the routers.
LEMMA NothingSent ==
    ASSUME RequestsInv, UNCHANGED <<requests, routers>>
    PROVE  RequestsInv'
  BY DEF RequestsInv, IsSequence, RequestsOK, RowsOK

\* The delete dialog sends a request or does nothing.
LEMMA HandleDeleteConfirmKeeps ==
    ASSUME RequestsInv, HandleDeleteConfirm
    PROVE  RequestsInv'
<1>1. PICK by, c : IF c = None THEN UNCHANGED requests
                   ELSE Arrive("delete", by, c.id, c.name, <<>>)
  BY DEF HandleDeleteConfirm
<1>2. UNCHANGED routers
  BY DEF HandleDeleteConfirm
<1> QED  BY <1>1, <1>2, NothingSent, PayloadIsSequence, ArrivalKeeps

\* The requests of the other administrator.
LEMMA OtherRequestKeeps ==
    ASSUME RequestsInv, OtherRequest
    PROVE  RequestsInv'
<1>1. UNCHANGED routers
  BY DEF OtherRequest
<1>2. CASE Arrive("delete", "other", seen.id, seen.name, <<>>)
  BY <1>1, <1>2, PayloadIsSequence, ArrivalKeeps
<1>3. ASSUME NEW name, NEW host, NEW cred, NEW inputs \in OtherInputs(name, host, cred),
             Arrive("update", "other", seen.id, name, inputs)
      PROVE  RequestsInv'
  <2>1. \E d : inputs = Payload(d)
    BY <1>3 DEF OtherInputs
  <2>2. IsSequence(inputs)
    BY <2>1, PayloadIsSequence
  <2> QED  BY <1>1, <1>3, <2>2, ArrivalKeeps
<1> QED  BY <1>2, <1>3 DEF OtherRequest

\* An answer only notes that the request was answered.
LEMMA AnswerKeeps ==
    ASSUME RequestsInv, NEW i \in DOMAIN requests, Answer(i)
    PROVE  RequestsInv'
<1> DEFINE q == requests[i]
           p(by) == [q EXCEPT !.by = by]
<1>1. IsRequest(q) /\ (q.next \in Writing => SoundInputs(q))
  BY DEF RequestsInv, RequestsOK
<1>2. PICK by : requests' = [requests EXCEPT ![i] = p(by)]
  BY DEF Answer
<1>3. /\ IsRequest(p(by)) /\ p(by).inputs = q.inputs
      /\ p(by).at = q.at /\ p(by).next = q.next
  BY <1>1 DEF IsRequest
<1>4. routers' = routers
  BY DEF Answer
<1> HIDE DEF p, q
<1>5. p(by).next \in Writing => SoundInputs(p(by))
  BY <1>1, <1>3, SameInputs
<1> QED  BY <1>2, <1>3, <1>4, <1>5, EditKeeps, RowsKept

\* The drawer, of which two actions send a request.
LEMMA ClusterDrawerKeeps ==
    ASSUME RequestsInv, ClusterDrawer
    PROVE  RequestsInv'
<1>1. CASE HandleSubmit
  BY <1>1, HandleSubmitKeeps
<1>2. CASE HandleDelete
  BY <1>2, HandleDeleteKeeps
<1>3. CASE ClusterNameStep
  BY <1>3, NothingSent DEF ClusterNameStep, Typed, serviceVars
<1>4. CASE PrimaryRouterStep
  BY <1>4, NothingSent DEF PrimaryRouterStep, RouterStep, Typed, serviceVars
<1>5. CASE SecondaryRouterStep
  BY <1>5, NothingSent DEF SecondaryRouterStep, RouterStep, Typed, serviceVars
<1>6. CASE HandleNext \/ HandleBack \/ HandleClose \/ ConfirmInDrawer
  BY <1>6, NothingSent DEF HandleNext, HandleBack, HandleClose, ConfirmInDrawer, Typed, serviceVars
<1>7. ASSUME NEW x \in Positions, HandleTest(x) PROVE RequestsInv'
  BY <1>7, NothingSent DEF HandleTest, serviceVars
<1> QED  BY <1>1, <1>2, <1>3, <1>4, <1>5, <1>6, <1>7 DEF ClusterDrawer

\* The list of routers, their details and the delete dialog send nothing.
LEMMA PageKeeps ==
    ASSUME RequestsInv,
           \/ FetchRouters
           \/ FetchClusters
           \/ HandleAdd
           \/ GroupRows
           \/ RouterDetail
           \/ CancelDelete
           \/ OtherLoads
           \/ \E x \in Positions : TestAnswers(x)
    PROVE  RequestsInv'
<1>1. UNCHANGED serviceVars
  BY DEF FetchRouters, FetchClusters, HandleAdd, GroupRows, GroupRow, RouterRow, RouterDetail,
         CancelDelete, OtherLoads, TestAnswers, HandleEdit, AskDelete, ShowDetail
<1> QED  BY <1>1, NothingSent DEF serviceVars

\* Every step keeps the invariant.
LEMMA NextKeeps ==
    ASSUME RequestsInv, [Next]_vars
    PROVE  RequestsInv'
<1>1. CASE UNCHANGED vars
  BY <1>1, NothingSent DEF vars
<1>2. CASE HandleDeleteConfirm
  BY <1>2, HandleDeleteConfirmKeeps
<1>3. CASE ClusterDrawer
  BY <1>3, ClusterDrawerKeeps
<1>4. CASE \E i \in DOMAIN requests : Answer(i)
  BY <1>4, AnswerKeeps
<1>5. CASE OtherRequest
  BY <1>5, OtherRequestKeeps
<1>6. CASE Serve
  BY <1>6, ServeKeeps DEF Serve
<1> QED  BY <1>1, <1>2, <1>3, <1>4, <1>5, <1>6, PageKeeps DEF Next

\* There is no router and no request at first.
LEMMA InitSound == Init => RequestsInv
  BY PayloadIsSequence
  DEF Init, InitPage, RequestsInv, RequestsOK, RowsOK

-----------------------------------------------------------------------------
(* Connection tests. A test under way for a form none of whose fields      *)
(* changed since it was sent is for the address and the credentials there. *)

FieldNames == {"name", "host", "cred", "result", "late", "edited"}
DrawerNames ==
    {"open", "edit", "step", "confirm", "name", "primary", "secondary", "ha"}

FieldsOK(f, p, running) ==
    /\ DOMAIN f = FieldNames
    /\ f.result.shown /\ ~f.result.late => f.result.for = <<f.host, f.cred>>
    /\ p \in DOMAIN running /\ ~f.late => running[p] = <<f.host, f.cred>>

DrawerOK(d, running) ==
    /\ DOMAIN d = DrawerNames
    /\ \A p \in Positions : FieldsOK(d[p], p, running)

TestedInv == drawer.open => DrawerOK(drawer, tests)

\* The fields of one router change and those of the other stay.
LEMMA OneRouterChanges ==
    ASSUME NEW d, NEW running, NEW p \in Positions, NEW f, DrawerOK(d, running),
           FieldsOK(f, p, running)
    PROVE  DrawerOK([d EXCEPT ![p] = f], running)
<1>1. Positions \subseteq DOMAIN d
  BY DEF DrawerOK, DrawerNames, Positions
<1> QED  BY <1>1 DEF DrawerOK

\* A field that changes clears the result and makes a test under way late.
LEMMA FieldChangeIsSound ==
    ASSUME NEW d, NEW p \in Positions, DOMAIN d = DrawerNames, DOMAIN d[p] = FieldNames,
           \A o \in Positions \ {p} : FieldsOK(d[o], o, tests)
    PROVE  DrawerOK(FieldChange(d, p), tests)
<1> DEFINE e == [d EXCEPT ![p].result = NoResult]
<1>1. p \in DOMAIN d /\ Positions \subseteq DOMAIN d
  BY DEF DrawerNames, Positions
<1>2. /\ DOMAIN e = DrawerNames /\ \A o \in Positions \ {p} : e[o] = d[o]
      /\ DOMAIN e[p] = FieldNames /\ e[p].result = NoResult
  BY <1>1 DEF FieldNames, Positions
<1> HIDE DEF e
<1>3. CASE p \in DOMAIN tests
  <2> DEFINE g == [e EXCEPT ![p].late = TRUE]
  <2>1. FieldChange(d, p) = g
    BY <1>3 DEF FieldChange, Late, e
  <2>2. /\ DOMAIN g = DrawerNames /\ \A o \in Positions \ {p} : g[o] = d[o]
        /\ DOMAIN g[p] = FieldNames /\ g[p].result = NoResult /\ g[p].late = TRUE
    BY <1>1, <1>2 DEF FieldNames, Positions
  <2> HIDE DEF g
  <2>3. FieldsOK(g[p], p, tests)
    BY <2>2 DEF FieldsOK, NoResult
  <2> QED  BY <2>1, <2>2, <2>3 DEF DrawerOK
<1>4. CASE p \notin DOMAIN tests
  <2>1. FieldChange(d, p) = e
    BY <1>4 DEF FieldChange, Late, e
  <2>2. FieldsOK(e[p], p, tests)
    BY <1>2, <1>4 DEF FieldsOK, NoResult
  <2> QED  BY <1>2, <2>1, <2>2 DEF DrawerOK
<1> QED  BY <1>3, <1>4

\* Typing into the fields of a router.
LEMMA RouterStepIsSound ==
    ASSUME NEW p \in Positions, DrawerOK(drawer, tests), RouterStep(p)
    PROVE  TestedInv'
<1> USE DEF TestedInv
<1>1. tests' = tests
  BY DEF RouterStep, Typed
<1>2. /\ DOMAIN drawer = DrawerNames /\ p \in DOMAIN drawer /\ DOMAIN drawer[p] = FieldNames
      /\ \A o \in Positions : FieldsOK(drawer[o], o, tests)
  BY DEF DrawerOK, FieldsOK, DrawerNames, Positions
<1>3. ASSUME NEW h, drawer' = FieldChange([drawer EXCEPT ![p].host = h], p)
      PROVE  DrawerOK(drawer, tests)'
  <2> DEFINE d == [drawer EXCEPT ![p].host = h]
  <2>1. /\ DOMAIN d = DrawerNames /\ DOMAIN d[p] = FieldNames
        /\ \A o \in Positions \ {p} : d[o] = drawer[o]
    BY <1>2
  <2> HIDE DEF d
  <2>2. DrawerOK(FieldChange(d, p), tests)
    BY <1>2, <2>1, FieldChangeIsSound
  <2> QED  BY <1>1, <1>3, <2>2 DEF d
<1>4. ASSUME NEW c, drawer' = FieldChange([drawer EXCEPT ![p].cred = c], p)
      PROVE  DrawerOK(drawer, tests)'
  <2> DEFINE d == [drawer EXCEPT ![p].cred = c]
  <2>1. /\ DOMAIN d = DrawerNames /\ DOMAIN d[p] = FieldNames
        /\ \A o \in Positions \ {p} : d[o] = drawer[o]
    BY <1>2
  <2> HIDE DEF d
  <2>2. DrawerOK(FieldChange(d, p), tests)
    BY <1>2, <2>1, FieldChangeIsSound
  <2> QED  BY <1>1, <1>4, <2>2 DEF d
<1>5. ASSUME NEW n, drawer' = [drawer EXCEPT ![p].name = n, ![p].edited = TRUE]
      PROVE  DrawerOK(drawer, tests)'
  <2> DEFINE f == [[drawer[p] EXCEPT !.name = n] EXCEPT !.edited = TRUE]
  <2>1. drawer' = [drawer EXCEPT ![p] = f]
    BY <1>2, <1>5
  <2>2. /\ DOMAIN f = FieldNames /\ f.host = drawer[p].host /\ f.cred = drawer[p].cred
        /\ f.result = drawer[p].result /\ f.late = drawer[p].late
    BY <1>2 DEF FieldNames
  <2> HIDE DEF f
  <2>3. FieldsOK(f, p, tests)
    BY <1>2, <2>2 DEF FieldsOK
  <2> QED  BY <1>1, <2>1, <2>3, OneRouterChanges
<1> QED  BY <1>3, <1>4, <1>5 DEF RouterStep, Typed

\* The name of the cluster gives the routers their names only.
LEMMA ClusterNameIsSound ==
    ASSUME TestedInv, ClusterNameStep
    PROVE  TestedInv'
<1>1. DrawerOK(drawer, tests) /\ tests' = tests
  BY DEF TestedInv, ClusterNameStep, Typed
<1>2. PICK n, a, b : drawer' = [drawer EXCEPT !.name = n, !.primary.name = a, !.secondary.name = b]
  BY DEF ClusterNameStep, Typed
<1>3. /\ DOMAIN drawer = DrawerNames
      /\ FieldsOK(drawer.primary, "primary", tests)
      /\ FieldsOK(drawer.secondary, "secondary", tests)
  BY <1>1 DEF DrawerOK, Positions
<1> DEFINE f == [drawer.primary EXCEPT !.name = a]
           g == [drawer.secondary EXCEPT !.name = b]
<1>4. DOMAIN drawer' = DrawerNames /\ drawer'.primary = f /\ drawer'.secondary = g
  BY <1>2, <1>3 DEF DrawerNames
<1>5. FieldsOK(f, "primary", tests)
  BY <1>3 DEF FieldsOK, FieldNames
<1>6. FieldsOK(g, "secondary", tests)
  BY <1>3 DEF FieldsOK, FieldNames
<1> QED  BY <1>1, <1>4, <1>5, <1>6 DEF TestedInv, DrawerOK, Positions

\* A test is sent for the fields as they are.
LEMMA HandleTestIsSound ==
    ASSUME TestedInv, NEW p \in Positions, HandleTest(p)
    PROVE  TestedInv'
<1> DEFINE f == [drawer[p] EXCEPT !.late = FALSE]
<1>1. /\ DrawerOK(drawer, tests) /\ p \notin DOMAIN tests
      /\ drawer' = [drawer EXCEPT ![p] = f]
      /\ DOMAIN tests' = DOMAIN tests \cup {p}
      /\ tests'[p] = <<drawer[p].host, drawer[p].cred>>
      /\ \A q \in DOMAIN tests : tests'[q] = tests[q]
  BY DEF TestedInv, HandleTest
<1>2. /\ DOMAIN f = FieldNames /\ f.host = drawer[p].host /\ f.cred = drawer[p].cred
      /\ f.result = drawer[p].result
  BY <1>1 DEF DrawerOK, FieldsOK, FieldNames
<1>3. DOMAIN drawer = DrawerNames /\ Positions \subseteq DOMAIN drawer
  BY <1>1 DEF DrawerOK, DrawerNames, Positions
<1> HIDE DEF f
<1>4. FieldsOK(f, p, tests')
  BY <1>1, <1>2 DEF DrawerOK, FieldsOK
<1>5. \A q \in Positions : FieldsOK(drawer[q], q, tests) /\ (q # p => FieldsOK(drawer[q], q, tests'))
  BY <1>1 DEF DrawerOK, FieldsOK
<1> QED  BY <1>1, <1>3, <1>4, <1>5 DEF TestedInv, DrawerOK

\* An answer is shown as one for what was tested.
LEMMA TestAnswersIsSound ==
    ASSUME TestedInv, NEW p \in Positions, TestAnswers(p)
    PROVE  TestedInv'
<1> SUFFICES ASSUME drawer'.open PROVE DrawerOK(drawer, tests)'
  BY DEF TestedInv
<1>1. p \in DOMAIN tests /\ tests' = [q \in DOMAIN tests \ {p} |-> tests[q]]
  BY DEF TestAnswers
<1>2. CASE ~drawer.open
  BY <1>2 DEF TestAnswers
<1>3. CASE drawer.open
  <2> DEFINE answer == [shown |-> TRUE, for |-> tests[p], late |-> drawer[p].late]
             f == [drawer[p] EXCEPT !.result = answer]
  <2>1. DrawerOK(drawer, tests) /\ drawer' = [drawer EXCEPT ![p] = f]
    BY <1>3 DEF TestedInv, TestAnswers
  <2>2. DOMAIN drawer = DrawerNames /\ Positions \subseteq DOMAIN drawer
    BY <2>1 DEF DrawerOK, DrawerNames, Positions
  <2>3. FieldsOK(drawer[p], p, tests)
    BY <2>1 DEF DrawerOK
  <2>4. /\ DOMAIN f = FieldNames /\ f.host = drawer[p].host /\ f.cred = drawer[p].cred
        /\ f.result = answer
    BY <2>3 DEF FieldsOK, FieldNames
  <2>5. answer.for = tests[p] /\ answer.late = drawer[p].late
    OBVIOUS
  <2> HIDE DEF f, answer
  <2>6. FieldsOK(f, p, tests')
    BY <1>1, <2>3, <2>4, <2>5 DEF FieldsOK
  <2>7. \A q \in Positions \ {p} : FieldsOK(drawer[q], q, tests')
    BY <1>1, <2>1 DEF DrawerOK, FieldsOK
  <2> QED  BY <2>1, <2>2, <2>6, <2>7 DEF DrawerOK
<1> QED  BY <1>2, <1>3

\* A drawer that opens shows no result, and a test under way is late for it.
LEMMA OpenDrawerIsSound ==
    ASSUME NEW cluster, OpenDrawer(cluster), UNCHANGED tests
    PROVE  TestedInv'
<1> DEFINE d == BuildInitialValues(cluster)
           e == Late("secondary", d)
<1>1. /\ DOMAIN d = DrawerNames
      /\ \A p \in Positions : DOMAIN d[p] = FieldNames /\ d[p].result = NoResult
  BY DEF BuildInitialValues, Fields, FieldsOf, DrawerNames, FieldNames, Positions
<1> HIDE DEF d
<1>2. /\ DOMAIN e = DrawerNames
      /\ \A p \in Positions : DOMAIN e[p] = FieldNames /\ e[p].result = NoResult
      /\ "secondary" \in DOMAIN tests => e.secondary.late = TRUE
  BY <1>1 DEF Late, DrawerNames, FieldNames, Positions
<1> HIDE DEF e
<1>3. /\ DOMAIN drawer' = DrawerNames
      /\ \A p \in Positions : /\ DOMAIN drawer'[p] = FieldNames
                              /\ drawer'[p].result = NoResult
                              /\ p \in DOMAIN tests => drawer'[p].late = TRUE
  <2>1. drawer' = Late("primary", e)
    BY DEF OpenDrawer, e, d
  <2> QED  BY <1>2, <2>1 DEF Late, DrawerNames, FieldNames, Positions
<1> QED  BY <1>3 DEF TestedInv, DrawerOK, FieldsOK, NoResult

\* The other steps of the drawer leave the fields of the routers alone.
LEMMA FieldsKept ==
    ASSUME TestedInv, drawer'.open => drawer.open, UNCHANGED tests,
           drawer.open /\ drawer'.open => /\ DOMAIN drawer' = DOMAIN drawer
                                          /\ drawer'.primary = drawer.primary
                                          /\ drawer'.secondary = drawer.secondary
    PROVE  TestedInv'
  BY DEF TestedInv, DrawerOK, Positions

\* Every step of the drawer.
LEMMA DrawerStepIsSound ==
    ASSUME TestedInv, ClusterDrawer
    PROVE  TestedInv'
<1>1. CASE ClusterNameStep
  BY <1>1, ClusterNameIsSound
<1>2. CASE PrimaryRouterStep
  BY <1>2, RouterStepIsSound DEF PrimaryRouterStep, TestedInv, Positions
<1>3. CASE SecondaryRouterStep
  <2>1. CASE RouterStep("secondary")
    BY <1>3, <2>1, RouterStepIsSound DEF SecondaryRouterStep, TestedInv, Positions
  <2>2. CASE Typed({[drawer EXCEPT !.ha = ~@]})
    BY <1>3, <2>2, FieldsKept DEF SecondaryRouterStep, Typed, TestedInv, DrawerOK, DrawerNames
  <2> QED  BY <1>3, <2>1, <2>2 DEF SecondaryRouterStep
<1>4. CASE HandleNext \/ HandleBack \/ ConfirmInDrawer
  BY <1>4, FieldsKept
  DEF HandleNext, HandleBack, ConfirmInDrawer, Typed, TestedInv, DrawerOK, DrawerNames
<1>5. CASE HandleClose
  BY <1>5 DEF HandleClose, Typed, ClosedDrawer, TestedInv
<1>6. CASE HandleSubmit \/ HandleDelete
  BY <1>6, FieldsKept DEF HandleSubmit, HandleDelete
<1>7. ASSUME NEW p \in Positions, HandleTest(p) PROVE TestedInv'
  BY <1>7, HandleTestIsSound
<1> QED  BY <1>1, <1>2, <1>3, <1>4, <1>5, <1>6, <1>7 DEF ClusterDrawer

\* HandleEdit opens the drawer, the other buttons of the page do not.
LEMMA PageIsSound ==
    ASSUME TestedInv, HandleAdd \/ GroupRows \/ RouterDetail
    PROVE  TestedInv'
<1>1. ASSUME NEW r, HandleEdit(r) PROVE TestedInv'
  <2>1. PICK c : OpenDrawer(c) /\ UNCHANGED tests
    BY <1>1 DEF HandleEdit
  <2> QED  BY <2>1, OpenDrawerIsSound
<1>2. ASSUME NEW r, AskDelete(r) \/ ShowDetail(r) PROVE TestedInv'
  BY <1>2, FieldsKept DEF AskDelete, ShowDetail
<1>3. CASE HandleAdd
  BY <1>3, OpenDrawerIsSound DEF HandleAdd
<1>4. CASE GroupRows
  BY <1>1, <1>2, <1>4 DEF GroupRows, GroupRow, RouterRow
<1>5. CASE RouterDetail
  BY <1>1, <1>2, <1>5 DEF RouterDetail
<1> QED  BY <1>3, <1>4, <1>5

\* Every step.
LEMMA NextTested ==
    ASSUME TestedInv, [Next]_vars
    PROVE  TestedInv'
<1>1. CASE UNCHANGED vars
  BY <1>1, FieldsKept DEF vars
<1>2. CASE HandleAdd \/ GroupRows \/ RouterDetail
  BY <1>2, PageIsSound
<1>3. CASE ClusterDrawer
  BY <1>3, DrawerStepIsSound
<1>4. CASE \E p \in Positions : TestAnswers(p)
  BY <1>4, TestAnswersIsSound
<1>5. CASE \E i \in DOMAIN requests : Answer(i)
  <2>1. UNCHANGED tests /\ (drawer' = drawer \/ drawer' = ClosedDrawer)
    BY <1>5 DEF Answer
  <2> QED  BY <2>1, FieldsKept DEF ClosedDrawer
<1>6. CASE \/ FetchRouters \/ FetchClusters \/ CancelDelete \/ HandleDeleteConfirm
           \/ OtherLoads \/ OtherRequest \/ Serve
  <2>1. UNCHANGED <<drawer, tests>>
    BY <1>6 DEF FetchRouters, FetchClusters, CancelDelete, AskDelete, HandleDeleteConfirm,
                OtherLoads, OtherRequest, Serve
  <2> QED  BY <2>1, FieldsKept
<1> QED  BY <1>1, <1>2, <1>3, <1>4, <1>5, <1>6 DEF Next

\* No drawer is open at first.
LEMMA InitTested == Init => TestedInv
  BY DEF Init, InitPage, ClosedDrawer, TestedInv

\* A result of a connection test that is shown, the Tested badge of the last
\* step included, is for the address and the credentials in the form,
\* although the answer may come after the drawer was closed, opened for
\* another cluster or typed into (ClusterDrawer.tsx, handleTestPrimary and
\* handlePrimaryFieldChange).
THEOREM TestsAreForTheForm == Spec => []TestedMeansTested
<1>1. TestedInv => TestedMeansTested
  BY DEF TestedInv, TestedMeansTested, DrawerOK, FieldsOK
<1> QED  BY <1>1, InitTested, NextTested, PTL DEF Spec

-----------------------------------------------------------------------------
(* Roles. The first router of a Create is the master of the cluster, by    *)
(* the order in which the drawer sends the routers, and no Update takes it *)
(* out: whoever sends one has seen the cluster with its master. Backups    *)
(* come and go.                                                            *)

ClusterExists(c, cs) == \E d \in cs : d.id = c
HasMaster(c, rs) == \E r \in rs : r.cluster = c /\ r.id = <<c, 1>>

\* The master was stored, and only goes with the cluster.
Established(c, cs, rs, qs) ==
    /\ c \in DOMAIN qs /\ qs[c].next # "insert"
    /\ ClusterExists(c, cs) => HasMaster(c, rs)

BackupID(id, qs) == \E j \in DOMAIN qs : id = <<j, 2>>
RoleFits(id, role, c, qs) ==
    \/ role = "master" /\ id = <<c, 1>> /\ c \in DOMAIN qs
    \/ role = "backup" /\ BackupID(id, qs)

\* A cluster as a list showed it, at any time before.
SnapshotOK(s, cs, rs, qs) ==
    /\ \A r \in s.routers : /\ DOMAIN r = {"id", "name", "host", "role"}
                            /\ RoleFits(r.id, r.role, s.id, qs)
    /\ s.routers # {} => /\ \E r \in s.routers : r.role = "master"
                         /\ Established(s.id, cs, rs, qs)
KnownOK(s, cs, rs, qs) == s # None => s.routers # {} /\ SnapshotOK(s, cs, rs, qs)

InputRolesOK(q, qs) ==
    /\ Len(q.inputs) \in {1, 2}
    /\ q.inputs[1].role = "master"
    /\ Len(q.inputs) = 2 => q.inputs[2].role = "backup"
    /\ q.op = "create" => \A k \in DOMAIN q.inputs : q.inputs[k].id = NewRouter
    /\ q.op = "update" =>
          /\ q.inputs[1].id = <<q.cluster, 1>>
          /\ Len(q.inputs) = 2 => \/ q.inputs[2].id = NewRouter
                                  \/ BackupID(q.inputs[2].id, qs)

WriterOK(i, q, cs, rs, qs) ==
    /\ q.op \in {"create", "update"}
    /\ InputRolesOK(q, qs)
    /\ q.op = "create" => q.next \in {"insert", "routers"}
    /\ q.op = "update" => q.next # "insert" /\ Established(q.cluster, cs, rs, qs)
    /\ q.next # "routers" => q.at = 1
    /\ \A r \in rs : \A k \in {1, 2} : r.id = <<i, k>> => k < q.at

RequestRolesOK(i, q, cs, rs, qs) ==
    /\ q.op = "create" => q.cluster = i
    /\ \A id \in q.drop : BackupID(id, qs)
    /\ q.next \in Writing => WriterOK(i, q, cs, rs, qs)

ClusterOK(c, rs, qs) ==
    /\ c \in DOMAIN qs /\ qs[c].op = "create" /\ qs[c].next # "insert"
    /\ \/ HasMaster(c, rs)
       \/ qs[c].next = "error"
       \/ qs[c].next = "routers" /\ qs[c].at = 1

RowRolesOK(rs, qs) ==
    /\ \A r \in rs : RoleFits(r.id, r.role, r.cluster, qs) /\ HasMaster(r.cluster, rs)
    /\ \A r, s \in rs : r.id = s.id => r = s

ClusterRowOK(c, rs, qs) == DOMAIN c = {"id", "name"} /\ ClusterOK(c.id, rs, qs)

StoredOK(cs, rs, qs) ==
    /\ \A c \in cs : ClusterRowOK(c, rs, qs)
    /\ RowRolesOK(rs, qs)
    /\ \A i \in DOMAIN qs : RequestRolesOK(i, qs[i], cs, rs, qs)

PageOK(list, d, other, cs, rs, qs) ==
    /\ list = NoList \/ \A s \in list : SnapshotOK(s, cs, rs, qs)
    /\ d.open => KnownOK(d.edit, cs, rs, qs)
    /\ KnownOK(other, cs, rs, qs)

RolesInv ==
    /\ RequestsInv
    /\ TestedInv
    /\ StoredOK(clusters, routers, requests)
    /\ PageOK(clusterList, drawer, seen, clusters, routers, requests)


\* What a step may do to the clusters that were stored before it.
Monotone(cs, rs, qs, ds, ss, ps) ==
    /\ DOMAIN qs \subseteq DOMAIN ps
    /\ \A c \in DOMAIN qs : qs[c].next # "insert" =>
          /\ ps[c].next # "insert"
          /\ ClusterExists(c, ds) => ClusterExists(c, cs)
          /\ ClusterExists(c, ds) /\ HasMaster(c, rs) => HasMaster(c, ss)

SameRequest(p, q) ==
    /\ p.op = q.op /\ p.cluster = q.cluster /\ p.inputs = q.inputs
    /\ p.drop = q.drop /\ p.next = q.next /\ p.at = q.at

SameClusters(cs, ds) ==
    \A d \in ds : DOMAIN d = {"id", "name"} /\ \E c \in cs : c.id = d.id

\* Only request i may have stored a row that was not there before.
NewRowsOf(i, rs, ss) ==
    \A r \in ss : (\E s \in rs : s.id = r.id) \/ (\E k : r.id = <<i, k>>)

\* IDs stay what they are.
LEMMA RoleFitsStays ==
    ASSUME NEW qs, NEW ps, DOMAIN qs \subseteq DOMAIN ps
    PROVE  /\ \A id : BackupID(id, qs) => BackupID(id, ps)
           /\ \A id, role, c : RoleFits(id, role, c, qs) => RoleFits(id, role, c, ps)
<1>1. \A id : BackupID(id, qs) => BackupID(id, ps)
  BY DEF BackupID
<1> QED  BY <1>1 DEF RoleFits

\* A snapshot stays one of a cluster that has its master or is gone.
LEMMA KnownStays ==
    ASSUME NEW cs, NEW rs, NEW qs, NEW ds, NEW ss, NEW ps, Monotone(cs, rs, qs, ds, ss, ps)
    PROVE  /\ \A c : Established(c, cs, rs, qs) => Established(c, ds, ss, ps)
           /\ \A s : SnapshotOK(s, cs, rs, qs) => SnapshotOK(s, ds, ss, ps)
           /\ \A s : KnownOK(s, cs, rs, qs) => KnownOK(s, ds, ss, ps)
<1>1. DOMAIN qs \subseteq DOMAIN ps
  BY DEF Monotone
<1>2. \A c : Established(c, cs, rs, qs) => Established(c, ds, ss, ps)
  BY DEF Monotone, Established
<1>3. ASSUME NEW s, SnapshotOK(s, cs, rs, qs) PROVE SnapshotOK(s, ds, ss, ps)
  BY <1>1, <1>2, <1>3, RoleFitsStays DEF SnapshotOK
<1> QED  BY <1>2, <1>3 DEF KnownOK

\* A step that is not one of the request itself.
LEMMA RequestStays ==
    ASSUME NEW cs, NEW rs, NEW qs, NEW ds, NEW ss, NEW ps, Monotone(cs, rs, qs, ds, ss, ps),
           NEW i, NEW q, NEW p, RequestRolesOK(i, q, cs, rs, qs), SameRequest(p, q),
           \A r \in ss : \A k \in {1, 2} : r.id = <<i, k>> => \E s \in rs : s.id = r.id
    PROVE  RequestRolesOK(i, p, ds, ss, ps)
<1>1. DOMAIN qs \subseteq DOMAIN ps
  BY DEF Monotone
<1>2. \A id : BackupID(id, qs) => BackupID(id, ps)
  BY <1>1, RoleFitsStays
<1>3. /\ p.op = "create" => p.cluster = i
      /\ \A id \in p.drop : BackupID(id, ps)
  BY <1>2 DEF RequestRolesOK, SameRequest
<1>4. ASSUME p.next \in Writing PROVE WriterOK(i, p, ds, ss, ps)
  <2>1. WriterOK(i, q, cs, rs, qs)
    BY <1>4 DEF RequestRolesOK, SameRequest
  <2>2. InputRolesOK(p, ps)
    BY <1>2, <2>1 DEF WriterOK, InputRolesOK, SameRequest
  <2>3. Established(q.cluster, cs, rs, qs) => Established(q.cluster, ds, ss, ps)
    BY KnownStays
  <2>4. \A r \in ss : \A k \in {1, 2} : r.id = <<i, k>> => k < p.at
    BY <2>1 DEF WriterOK, SameRequest
  <2> QED  BY <2>1, <2>2, <2>3, <2>4 DEF WriterOK, SameRequest
<1> QED  BY <1>3, <1>4 DEF RequestRolesOK

\* A statement of request i, which becomes p.
LEMMA StatementStored ==
    ASSUME NEW cs, NEW rs, NEW qs, NEW ds, NEW ss, NEW ps, NEW i \in DOMAIN qs, NEW p,
           StoredOK(cs, rs, qs), Monotone(cs, rs, qs, ds, ss, ps), ps = [qs EXCEPT ![i] = p],
           NewRowsOf(i, rs, ss),
           RequestRolesOK(i, p, ds, ss, ps), RowRolesOK(ss, ps),
           \A c \in ds : ClusterRowOK(c, ss, ps)
    PROVE  StoredOK(ds, ss, ps)
<1> SUFFICES ASSUME NEW j \in DOMAIN ps PROVE RequestRolesOK(j, ps[j], ds, ss, ps)
  BY DEF StoredOK
<1>1. CASE j = i
  BY <1>1
<1>2. CASE j # i
  <2>1. RequestRolesOK(j, qs[j], cs, rs, qs) /\ ps[j] = qs[j]
    BY <1>2 DEF StoredOK
  <2>2. ASSUME NEW r \in ss, NEW k \in {1, 2}, r.id = <<j, k>> PROVE \E s \in rs : s.id = r.id
    BY <1>2, <2>2 DEF NewRowsOf
  <2>3. SameRequest(ps[j], qs[j])
    BY <2>1 DEF SameRequest
  <2> QED  BY <2>1, <2>2, <2>3, RequestStays
<1> QED  BY <1>1, <1>2

\* A statement that reads, renames or fails; the rows of the routers stay.
LEMMA QuietStatement ==
    ASSUME NEW cs, NEW rs, NEW qs, NEW ds, NEW ps, NEW i \in DOMAIN qs, NEW p,
           StoredOK(cs, rs, qs), ps = [qs EXCEPT ![i] = p],
           SameClusters(cs, ds),
           p.op = qs[i].op, p.cluster = qs[i].cluster, p.inputs = qs[i].inputs,
           p.at = qs[i].at, \A id \in p.drop : BackupID(id, qs),
           \/ p.next = "error"
           \/ /\ qs[i].next \in {"get", "rename", "list"}
              /\ p.next \in {"rename", "list", "drop", "routers"}
           \/ qs[i].next = "read" /\ p.next = "ok"
    PROVE  StoredOK(ds, rs, ps) /\ Monotone(cs, rs, qs, ds, rs, ps)
<1>1. /\ DOMAIN ps = DOMAIN qs /\ ps[i] = p /\ p.next # "insert"
      /\ \A j \in DOMAIN qs \ {i} : ps[j] = qs[j]
  OBVIOUS
<1>2. Monotone(cs, rs, qs, ds, rs, ps)
  BY <1>1 DEF Monotone, ClusterExists, SameClusters
<1>3. RequestRolesOK(i, qs[i], cs, rs, qs)
  BY DEF StoredOK
<1>4. \A id : BackupID(id, qs) => BackupID(id, ps)
  BY <1>1, RoleFitsStays
<1>5. RequestRolesOK(i, p, ds, rs, ps)
  <2>1. ASSUME p.next \in Writing PROVE WriterOK(i, p, ds, rs, ps)
    <3>1. qs[i].next \in {"get", "rename", "list"} /\ p.next \in {"rename", "list", "drop", "routers"}
      BY <2>1 DEF Writing
    <3>2. WriterOK(i, qs[i], cs, rs, qs)
      BY <1>3, <3>1 DEF RequestRolesOK, Writing
    <3>3. p.op = "update" /\ p.at = 1 /\ Established(p.cluster, cs, rs, qs)
      BY <3>1, <3>2 DEF WriterOK
    <3>4. InputRolesOK(p, ps)
      BY <1>4, <3>2 DEF WriterOK, InputRolesOK
    <3>5. Established(p.cluster, ds, rs, ps)
      BY <1>2, <3>3, KnownStays
    <3> QED  BY <1>1, <3>2, <3>3, <3>4, <3>5 DEF WriterOK
  <2> QED  BY <1>3, <1>4, <2>1 DEF RequestRolesOK
<1>6. RowRolesOK(rs, ps)
  BY <1>1, RoleFitsStays DEF StoredOK, RowRolesOK
<1>7. ASSUME NEW d \in ds PROVE ClusterRowOK(d, rs, ps)
  <2>1. ClusterOK(d.id, rs, qs)
    BY DEF StoredOK, ClusterRowOK, SameClusters
  <2> QED  BY <1>1, <2>1 DEF ClusterOK, ClusterRowOK, SameClusters
<1>8. NewRowsOf(i, rs, rs)
  BY DEF NewRowsOf
<1> QED  BY <1>2, <1>5, <1>6, <1>7, <1>8, StatementStored

\* CreateCluster stores a cluster without its master.
LEMMA InsertClusterStored ==
    ASSUME RequestsInv, StoredOK(clusters, routers, requests),
           NEW i \in DOMAIN requests, InsertCluster(i)
    PROVE  /\ StoredOK(clusters', routers', requests')
           /\ Monotone(clusters, routers, requests, clusters', routers', requests')
<1> DEFINE q == requests[i]
           p == [q EXCEPT !.next = "routers"]
           row == [id |-> i, name |-> q.name]
<1>1. /\ IsRequest(q) /\ q.next = "insert" /\ routers' = routers
      /\ requests' = [requests EXCEPT ![i] = p] /\ clusters' = clusters \cup {row}
  BY DEF RequestsInv, RequestsOK, InsertCluster, Advance
<1>2. row.id = i /\ DOMAIN row = {"id", "name"}
  OBVIOUS
<1>3. /\ p.op = q.op /\ p.cluster = q.cluster /\ p.inputs = q.inputs
      /\ p.drop = q.drop /\ p.at = q.at /\ p.next = "routers"
  BY <1>1 DEF IsRequest
<1> HIDE DEF p, row
<1>4. DOMAIN requests' = DOMAIN requests /\ requests'[i] = p
      /\ \A j \in DOMAIN requests \ {i} : requests'[j] = requests[j]
  BY <1>1
<1>5. Monotone(clusters, routers, requests, clusters', routers', requests')
  BY <1>1, <1>2, <1>3, <1>4 DEF Monotone, ClusterExists
<1>6. RequestRolesOK(i, q, clusters, routers, requests) /\ WriterOK(i, q, clusters, routers, requests)
  BY <1>1 DEF StoredOK, RequestRolesOK, Writing
<1>7. q.op = "create" /\ q.at = 1
  BY <1>1, <1>6 DEF WriterOK
<1>8. RequestRolesOK(i, p, clusters', routers', requests')
  BY <1>1, <1>3, <1>4, <1>6, <1>7
  DEF RequestRolesOK, WriterOK, InputRolesOK, BackupID
<1>9. RowRolesOK(routers', requests')
  BY <1>1, <1>4, RoleFitsStays DEF StoredOK, RowRolesOK
<1>10. ASSUME NEW c \in clusters' PROVE ClusterRowOK(c, routers', requests')
  <2>1. CASE c = row
    BY <1>2, <1>3, <1>4, <1>7, <2>1 DEF ClusterOK, ClusterRowOK
  <2>2. CASE c \in clusters
    <3>1. DOMAIN c = {"id", "name"} /\ ClusterOK(c.id, routers, requests)
      BY <2>2 DEF StoredOK, ClusterRowOK
    <3>2. c.id # i
      BY <1>1, <3>1 DEF ClusterOK
    <3> QED  BY <1>1, <1>4, <3>1, <3>2 DEF ClusterOK, ClusterRowOK
  <2> QED  BY <1>1, <2>1, <2>2
<1>11. NewRowsOf(i, routers, routers')
  BY <1>1 DEF NewRowsOf
<1>12. requests' = [requests EXCEPT ![i] = p]
  BY <1>1
<1>13. StoredOK(clusters', routers', requests')
  BY <1>5, <1>8, <1>9, <1>10, <1>11, <1>12, StatementStored
<1> QED  BY <1>5, <1>13


\* The clusters stay, and so do their IDs when one is renamed.
LEMMA ClustersStay ==
    ASSUME StoredOK(clusters, routers, requests),
           \/ UNCHANGED clusters
           \/ \E id, name : clusters' = {IF c.id = id THEN [c EXCEPT !.name = name] ELSE c :
                                           c \in clusters}
    PROVE  SameClusters(clusters, clusters')
<1>1. \A c \in clusters : DOMAIN c = {"id", "name"}
  BY DEF StoredOK, ClusterRowOK
<1>2. CASE UNCHANGED clusters
  BY <1>1, <1>2 DEF SameClusters
<1>3. CASE \E id, name : clusters' = {IF c.id = id THEN [c EXCEPT !.name = name] ELSE c :
                                        c \in clusters}
  <2>1. PICK id, name : clusters' = {IF c.id = id THEN [c EXCEPT !.name = name] ELSE c :
                                     c \in clusters}
    BY <1>3
  <2> SUFFICES ASSUME NEW d \in clusters'
               PROVE  DOMAIN d = {"id", "name"} /\ \E c \in clusters : c.id = d.id
    BY DEF SameClusters
  <2>2. PICK c \in clusters : d = IF c.id = id THEN [c EXCEPT !.name = name] ELSE c
    BY <2>1
  <2>3. DOMAIN c = {"id", "name"}
    BY <1>1
  <2>4. DOMAIN d = {"id", "name"} /\ d.id = c.id
    BY <2>2, <2>3
  <2> QED  BY <2>4
<1> QED  BY <1>2, <1>3

StoredKept ==
    /\ StoredOK(clusters', routers', requests')
    /\ Monotone(clusters, routers, requests, clusters', routers', requests')

\* GetByID, UpdateClusterName, the answer read back, and any failure.
LEMMA AdvanceStored ==
    ASSUME RequestsInv, StoredOK(clusters, routers, requests),
           NEW i \in DOMAIN requests, NEW next, Advance(i, next),
           UNCHANGED routers, SameClusters(clusters, clusters'),
           \/ next = "error"
           \/ requests[i].next \in {"get", "rename"} /\ next \in {"rename", "list"}
           \/ requests[i].next = "read" /\ next = "ok"
    PROVE  StoredKept
<1> DEFINE q == requests[i]
           p == [q EXCEPT !.next = next]
<1>1. IsRequest(q) /\ requests' = [requests EXCEPT ![i] = p]
  BY DEF RequestsInv, RequestsOK, Advance
<1>2. /\ p.op = q.op /\ p.cluster = q.cluster /\ p.inputs = q.inputs
      /\ p.drop = q.drop /\ p.at = q.at /\ p.next = next
  BY <1>1 DEF IsRequest
<1>3. \A id \in q.drop : BackupID(id, requests)
  BY DEF StoredOK, RequestRolesOK
<1> HIDE DEF p
<1>4. /\ StoredOK(clusters', routers, requests')
      /\ Monotone(clusters, routers, requests, clusters', routers, requests')
  BY <1>1, <1>2, <1>3, QuietStatement
<1> QED  BY <1>4 DEF StoredKept

\* ListRoutersByCluster finds the master among those the request has.
LEMMA ListRoutersStored ==
    ASSUME RequestsInv, StoredOK(clusters, routers, requests),
           NEW i \in DOMAIN requests, ListRouters(i)
    PROVE  StoredKept
<1> DEFINE q == requests[i]
           drop == {r.id : r \in RoutersOf(q.cluster)} \ {q.inputs[k].id : k \in DOMAIN q.inputs}
           p == [q EXCEPT !.drop = drop, !.next = IF drop = {} THEN "routers" ELSE "drop"]
<1>1. /\ IsRequest(q) /\ q.next = "list" /\ UNCHANGED <<clusters, routers>>
      /\ requests' = [requests EXCEPT ![i] = p]
  BY DEF RequestsInv, RequestsOK, ListRouters
<1>2. /\ p.op = q.op /\ p.cluster = q.cluster /\ p.inputs = q.inputs /\ p.at = q.at
      /\ p.drop = drop /\ p.next \in {"routers", "drop"}
  BY <1>1 DEF IsRequest
<1>3. ASSUME NEW id \in drop PROVE BackupID(id, requests)
  <2>1. WriterOK(i, q, clusters, routers, requests)
    BY <1>1 DEF StoredOK, RequestRolesOK, Writing
  <2>2. q.inputs[1].id = <<q.cluster, 1>>
    BY <1>1, <2>1 DEF WriterOK, InputRolesOK
  <2>3. 1 \in DOMAIN q.inputs
    <3>1. IsSequence(q.inputs) /\ q.at \in DOMAIN q.inputs
      BY <1>1 DEF RequestsInv, RequestsOK, SoundInputs, Writing
    <3>2. DOMAIN q.inputs = 1..Len(q.inputs) /\ Len(q.inputs) \in Nat
      BY <3>1 DEF IsSequence
    <3> QED  BY <3>1, <3>2
  <2>4. id # <<q.cluster, 1>>
    BY <2>2, <2>3
  <2>5. PICK r \in routers : r.cluster = q.cluster /\ r.id = id
    BY DEF RoutersOf
  <2>6. RoleFits(r.id, r.role, r.cluster, requests)
    BY DEF StoredOK, RowRolesOK
  <2> QED  BY <2>4, <2>5, <2>6 DEF RoleFits
<1> HIDE DEF p, drop
<1>4. SameClusters(clusters, clusters')
  BY <1>1, ClustersStay
<1>5. /\ StoredOK(clusters', routers, requests')
      /\ Monotone(clusters, routers, requests, clusters', routers, requests')
  BY <1>1, <1>2, <1>3, <1>4, QuietStatement
<1> QED  BY <1>1, <1>5 DEF StoredKept

\* Rows that are left keep their roles while their masters are left.
LEMMA RowsLeft ==
    ASSUME NEW rs, NEW ss, NEW qs, NEW ps, RowRolesOK(rs, qs), ss \subseteq rs,
           DOMAIN qs \subseteq DOMAIN ps, \A r \in ss : HasMaster(r.cluster, ss)
    PROVE  RowRolesOK(ss, ps)
<1>1. \A r \in ss : RoleFits(r.id, r.role, r.cluster, ps)
  BY RoleFitsStays DEF RowRolesOK
<1> QED  BY <1>1 DEF RowRolesOK

\* DeleteRouter takes out a backup.
LEMMA DropRouterStored ==
    ASSUME RequestsInv, StoredOK(clusters, routers, requests),
           NEW i \in DOMAIN requests, DropRouter(i)
    PROVE  StoredKept
<1> DEFINE q == requests[i]
           p(id) == [q EXCEPT !.drop = @ \ {id},
                              !.next = IF q.drop = {id} THEN "routers" ELSE "drop"]
<1>1. PICK id \in q.drop : requests' = [requests EXCEPT ![i] = p(id)]
                           /\ routers' = {r \in routers : r.id # id}
  BY DEF DropRouter
<1>2. IsRequest(q) /\ q.next = "drop" /\ clusters' = clusters
  BY DEF RequestsInv, RequestsOK, DropRouter
<1>3. /\ p(id).op = q.op /\ p(id).cluster = q.cluster /\ p(id).inputs = q.inputs
      /\ p(id).at = q.at /\ p(id).drop = q.drop \ {id} /\ p(id).next \in {"routers", "drop"}
  BY <1>2 DEF IsRequest
<1> HIDE DEF p
<1>4. DOMAIN requests' = DOMAIN requests /\ requests'[i] = p(id)
      /\ \A j \in DOMAIN requests \ {i} : requests'[j] = requests[j]
  BY <1>1
<1>5. RequestRolesOK(i, q, clusters, routers, requests)
  BY DEF StoredOK
<1>6. \A c : HasMaster(c, routers) => HasMaster(c, routers')
  <2>1. BackupID(id, requests)
    BY <1>5 DEF RequestRolesOK
  <2> QED  BY <1>1, <2>1 DEF BackupID, HasMaster
<1>7. Monotone(clusters, routers, requests, clusters', routers', requests')
  BY <1>2, <1>3, <1>4, <1>6 DEF Monotone
<1>8. WriterOK(i, q, clusters, routers, requests) /\ q.op = "update" /\ q.at = 1
  BY <1>2, <1>5 DEF RequestRolesOK, WriterOK, Writing
<1>9. RequestRolesOK(i, p(id), clusters', routers', requests')
  <2>1. \A x : BackupID(x, requests) => BackupID(x, requests')
    BY <1>4, RoleFitsStays
  <2>2. InputRolesOK(p(id), requests')
    BY <1>3, <1>8, <2>1 DEF WriterOK, InputRolesOK
  <2>3. Established(p(id).cluster, clusters', routers', requests')
    BY <1>3, <1>7, <1>8, KnownStays DEF WriterOK
  <2>4. WriterOK(i, p(id), clusters', routers', requests')
    BY <1>1, <1>3, <1>8, <2>2, <2>3 DEF WriterOK
  <2> QED  BY <1>3, <1>5, <1>8, <2>1, <2>4 DEF RequestRolesOK
<1>10. RowRolesOK(routers', requests')
  <2>1. RowRolesOK(routers, requests) /\ routers' \subseteq routers
    BY <1>1 DEF StoredOK
  <2>2. \A r \in routers' : HasMaster(r.cluster, routers')
    BY <1>6, <2>1 DEF RowRolesOK
  <2> QED  BY <1>4, <2>1, <2>2, RowsLeft
<1>11. ASSUME NEW c \in clusters' PROVE ClusterRowOK(c, routers', requests')
  <2>1. ClusterRowOK(c, routers, requests)
    BY <1>2 DEF StoredOK
  <2>2. c.id # i
    BY <1>8, <2>1 DEF ClusterRowOK, ClusterOK
  <2> QED  BY <1>4, <1>6, <2>1, <2>2 DEF ClusterRowOK, ClusterOK
<1>12. NewRowsOf(i, routers, routers')
  BY <1>1 DEF NewRowsOf
<1>13. requests' = [requests EXCEPT ![i] = p(id)]
  BY <1>1
<1>14. StoredOK(clusters', routers', requests')
  BY <1>7, <1>9, <1>10, <1>11, <1>12, <1>13, StatementStored
<1> QED  BY <1>7, <1>14 DEF StoredKept

\* DeleteCluster takes the master with the cluster.
LEMMA DeleteClusterStored ==
    ASSUME RequestsInv, StoredOK(clusters, routers, requests),
           NEW i \in DOMAIN requests, DeleteCluster(i)
    PROVE  StoredKept
<1> DEFINE q == requests[i]
           p == [q EXCEPT !.next = "ok"]
<1>1. /\ IsRequest(q) /\ q.next = "delete" /\ requests' = [requests EXCEPT ![i] = p]
      /\ clusters' = {c \in clusters : c.id # q.cluster}
      /\ routers' = {r \in routers : r.cluster # q.cluster}
  BY DEF RequestsInv, RequestsOK, DeleteCluster, Advance, RoutersOf
<1>2. /\ p.op = q.op /\ p.cluster = q.cluster /\ p.inputs = q.inputs
      /\ p.drop = q.drop /\ p.at = q.at /\ p.next = "ok"
  BY <1>1 DEF IsRequest
<1> HIDE DEF p
<1>3. DOMAIN requests' = DOMAIN requests /\ requests'[i] = p
      /\ \A j \in DOMAIN requests \ {i} : requests'[j] = requests[j]
  BY <1>1
<1>4. \A c : c # q.cluster /\ HasMaster(c, routers) => HasMaster(c, routers')
  BY <1>1 DEF HasMaster
<1>5. Monotone(clusters, routers, requests, clusters', routers', requests')
  BY <1>1, <1>2, <1>3, <1>4 DEF Monotone, ClusterExists
<1>6. RequestRolesOK(i, p, clusters', routers', requests')
  <2>1. RequestRolesOK(i, q, clusters, routers, requests)
    BY DEF StoredOK
  <2>2. \A x : BackupID(x, requests) => BackupID(x, requests')
    BY <1>3, RoleFitsStays
  <2> QED  BY <1>2, <2>1, <2>2 DEF RequestRolesOK, Writing
<1>7. RowRolesOK(routers', requests')
  <2>1. RowRolesOK(routers, requests) /\ routers' \subseteq routers
    BY <1>1 DEF StoredOK
  <2>2. \A r \in routers' : HasMaster(r.cluster, routers')
    BY <1>1, <1>4, <2>1 DEF RowRolesOK
  <2> QED  BY <1>3, <2>1, <2>2, RowsLeft
<1>8. ASSUME NEW c \in clusters' PROVE ClusterRowOK(c, routers', requests')
  <2>1. ClusterRowOK(c, routers, requests) /\ c.id # q.cluster
    BY <1>1 DEF StoredOK
  <2>2. CASE c.id = i
    BY <1>1, <1>2, <1>3, <1>4, <2>1, <2>2 DEF ClusterRowOK, ClusterOK
  <2>3. CASE c.id # i
    BY <1>3, <1>4, <2>1, <2>3 DEF ClusterRowOK, ClusterOK
  <2> QED  BY <2>2, <2>3
<1>9. NewRowsOf(i, routers, routers')
  BY <1>1 DEF NewRowsOf
<1>10. requests' = [requests EXCEPT ![i] = p]
  BY <1>1
<1>11. StoredOK(clusters', routers', requests')
  BY <1>5, <1>6, <1>7, <1>8, <1>9, <1>10, StatementStored
<1> QED  BY <1>5, <1>11 DEF StoredKept

\* To the next input of a request.
LEMMA NextInputRequest ==
    ASSUME RequestsInv, NEW i \in DOMAIN requests, requests[i].next = "routers", NextInput(i)
    PROVE  \E p : /\ requests' = [requests EXCEPT ![i] = p]
                  /\ p.op = requests[i].op /\ p.cluster = requests[i].cluster
                  /\ p.inputs = requests[i].inputs /\ p.drop = requests[i].drop
                  /\ p.overlap = requests[i].overlap
                  /\ p.at = requests[i].at + 1
                  /\ p.next = IF requests[i].at = Len(requests[i].inputs)
                              THEN "read" ELSE "routers"
                  /\ requests[i].at \in 1..Len(requests[i].inputs)
                  /\ DOMAIN requests[i].inputs = 1..Len(requests[i].inputs)
                  /\ Len(requests[i].inputs) \in Nat
<1> DEFINE q == requests[i]
           p == [q EXCEPT !.at = @ + 1,
                          !.next = IF q.at = Len(q.inputs) THEN "read" ELSE "routers"]
<1>1. IsRequest(q) /\ SoundInputs(q) /\ requests' = [requests EXCEPT ![i] = p]
  BY DEF RequestsInv, RequestsOK, Writing, NextInput
<1>2. DOMAIN q.inputs = 1..Len(q.inputs) /\ Len(q.inputs) \in Nat /\ q.at \in DOMAIN q.inputs
  BY <1>1 DEF SoundInputs, IsSequence
<1>3. /\ p.op = q.op /\ p.cluster = q.cluster /\ p.inputs = q.inputs /\ p.drop = q.drop
      /\ p.overlap = q.overlap /\ p.at = q.at + 1
      /\ p.next = IF q.at = Len(q.inputs) THEN "read" ELSE "routers"
  BY <1>1 DEF IsRequest
<1> HIDE DEF p
<1> QED  BY <1>1, <1>2, <1>3

\* What remains of a request at its next input.
LEMMA NextInputRoles ==
    ASSUME NEW cs, NEW rs, NEW qs, NEW ds, NEW ss, NEW ps, Monotone(cs, rs, qs, ds, ss, ps),
           NEW i, NEW q, NEW p, RequestRolesOK(i, q, cs, rs, qs), q.next = "routers",
           p.op = q.op, p.cluster = q.cluster, p.inputs = q.inputs, p.drop = q.drop,
           q.at \in Nat, p.at = q.at + 1, p.next \in {"read", "routers"},
           \A r \in ss : (\E s \in rs : s.id = r.id) \/ r.id = <<i, q.at>>
    PROVE  RequestRolesOK(i, p, ds, ss, ps)
<1>1. DOMAIN qs \subseteq DOMAIN ps
  BY DEF Monotone
<1>2. \A id : BackupID(id, qs) => BackupID(id, ps)
  BY <1>1, RoleFitsStays
<1>3. WriterOK(i, q, cs, rs, qs)
  BY DEF RequestRolesOK, Writing
<1>4. ASSUME p.next \in Writing PROVE WriterOK(i, p, ds, ss, ps)
  <2>1. p.next = "routers"
    BY <1>4 DEF Writing
  <2>2. InputRolesOK(p, ps)
    BY <1>2, <1>3 DEF WriterOK, InputRolesOK
  <2>3. p.op = "update" => Established(p.cluster, ds, ss, ps)
    BY <1>3, KnownStays DEF WriterOK
  <2>4. ASSUME NEW r \in ss, NEW k \in {1, 2}, r.id = <<i, k>> PROVE k < p.at
    <3>1. CASE \E s \in rs : s.id = r.id
      BY <1>3, <2>4, <3>1 DEF WriterOK
    <3>2. CASE r.id = <<i, q.at>>
      BY <2>4, <3>2
    <3> QED  BY <3>1, <3>2
  <2> QED  BY <1>3, <2>1, <2>2, <2>3, <2>4 DEF WriterOK
<1> QED  BY <1>2, <1>4 DEF RequestRolesOK

\* UpdateRouter writes the role that the row has already.
LEMMA UpdateRouterRows ==
    ASSUME RequestsInv, StoredOK(clusters, routers, requests),
           NEW i \in DOMAIN requests, UpdateRouter(i)
    PROVE  /\ \A r \in routers : \E s \in routers' :
                 s.id = r.id /\ s.cluster = r.cluster /\ s.role = r.role
           /\ \A r \in routers' : \E s \in routers :
                 s.id = r.id /\ s.cluster = r.cluster /\ s.role = r.role
           /\ \A r, s \in routers' : r.id = s.id => r = s
<1> DEFINE q == requests[i]
           input == q.inputs[q.at]
           new(r) == IF r.id = input.id
                     THEN [r EXCEPT !.name = input.name, !.host = input.host,
                                    !.role = input.role,
                                    !.cred = IF input.cred \in {"password", "both"}
                                              THEN input.cred ELSE @]
                     ELSE r
<1>1. q.next = "routers" /\ input.id # NewRouter /\ routers' = {new(r) : r \in routers}
  BY DEF UpdateRouter
<1>2. ASSUME NEW r \in routers, r.id = input.id PROVE r.role = input.role
  <2>1. WriterOK(i, q, clusters, routers, requests)
    BY <1>1 DEF StoredOK, RequestRolesOK, Writing
  <2>2. q.at \in {1, 2} /\ (q.at = 2 => Len(q.inputs) = 2) /\ q.at \in DOMAIN q.inputs
    <3>1. IsSequence(q.inputs) /\ q.at \in DOMAIN q.inputs
      BY <1>1 DEF RequestsInv, RequestsOK, SoundInputs, Writing
    <3>2. DOMAIN q.inputs = 1..Len(q.inputs) /\ (Len(q.inputs) = 1 \/ Len(q.inputs) = 2)
      BY <2>1, <3>1 DEF IsSequence, WriterOK, InputRolesOK
    <3>3. CASE Len(q.inputs) = 1
      BY <3>1, <3>2, <3>3
    <3>4. CASE Len(q.inputs) = 2
      BY <3>1, <3>2, <3>4
    <3> QED  BY <3>2, <3>3, <3>4
  <2>3. q.op = "update"
    BY <1>1, <2>1, <2>2 DEF WriterOK, InputRolesOK
  <2>4. RoleFits(r.id, r.role, r.cluster, requests)
    BY DEF StoredOK, RowRolesOK
  <2>5. CASE q.at = 1
    <3>1. input.role = "master" /\ input.id = <<q.cluster, 1>>
      BY <2>1, <2>3, <2>5 DEF WriterOK, InputRolesOK
    <3>2. \A j : <<j, 2>> # <<q.cluster, 1>>
      OBVIOUS
    <3> QED  BY <1>2, <2>4, <3>1, <3>2 DEF RoleFits, BackupID
  <2>6. CASE q.at = 2
    <3>1. input.role = "backup" /\ BackupID(input.id, requests)
      BY <1>1, <2>1, <2>2, <2>3, <2>6 DEF WriterOK, InputRolesOK
    <3>2. \A j, c : <<j, 2>> # <<c, 1>>
      OBVIOUS
    <3> QED  BY <1>2, <2>4, <3>1, <3>2 DEF RoleFits, BackupID
  <2> QED  BY <2>2, <2>5, <2>6
<1>3. ASSUME NEW r \in routers
      PROVE  new(r).id = r.id /\ new(r).cluster = r.cluster /\ new(r).role = r.role
  <2>1. DOMAIN r = {"id", "cluster", "name", "host", "role", "cred"}
    BY DEF RequestsInv, RowsOK
  <2> QED  BY <1>2, <2>1
<1>4. ASSUME NEW r \in routers
      PROVE  \E s \in routers' : s.id = r.id /\ s.cluster = r.cluster /\ s.role = r.role
  <2>1. new(r) \in routers'
    BY <1>1
  <2> QED  BY <1>3, <2>1
<1>5. ASSUME NEW r \in routers'
      PROVE  \E s \in routers : /\ s.id = r.id /\ s.cluster = r.cluster /\ s.role = r.role
                                /\ r = new(s)
  <2>1. PICK s \in routers : r = new(s)
    BY <1>1
  <2> QED  BY <1>3, <2>1
<1>6. \A r, s \in routers : r.id = s.id => r = s
  BY DEF StoredOK, RowRolesOK
<1> HIDE DEF new
<1>7. ASSUME NEW r \in routers', NEW s \in routers', r.id = s.id PROVE r = s
  BY <1>5, <1>6, <1>7
<1> QED  BY <1>4, <1>5, <1>7


\* The input at which a request is.
LEMMA AtOneOrTwo ==
    ASSUME RequestsInv, StoredOK(clusters, routers, requests),
           NEW i \in DOMAIN requests, requests[i].next = "routers"
    PROVE  /\ WriterOK(i, requests[i], clusters, routers, requests)
           /\ requests[i].at \in DOMAIN requests[i].inputs
           /\ requests[i].at = 1 \/ (requests[i].at = 2 /\ Len(requests[i].inputs) = 2)
           /\ requests[i].at \in Nat
<1> DEFINE q == requests[i]
<1>1. WriterOK(i, q, clusters, routers, requests)
  BY DEF StoredOK, RequestRolesOK, Writing
<1>2. IsSequence(q.inputs) /\ q.at \in DOMAIN q.inputs
  BY DEF RequestsInv, RequestsOK, SoundInputs, Writing
<1>3. DOMAIN q.inputs = 1..Len(q.inputs) /\ (Len(q.inputs) = 1 \/ Len(q.inputs) = 2)
  BY <1>1, <1>2 DEF IsSequence, WriterOK, InputRolesOK
<1>4. CASE Len(q.inputs) = 1
  BY <1>1, <1>2, <1>3, <1>4
<1>5. CASE Len(q.inputs) = 2
  BY <1>1, <1>2, <1>3, <1>5
<1> QED  BY <1>3, <1>4, <1>5

\* UpdateRouter.
LEMMA UpdateRouterStored ==
    ASSUME RequestsInv, StoredOK(clusters, routers, requests),
           NEW i \in DOMAIN requests, UpdateRouter(i)
    PROVE  StoredKept
<1> DEFINE q == requests[i]
<1>1. q.next = "routers" /\ q.inputs[q.at].id # NewRouter /\ NextInput(i) /\ clusters' = clusters
  BY DEF UpdateRouter
<1>2. PICK p : /\ requests' = [requests EXCEPT ![i] = p]
               /\ p.op = q.op /\ p.cluster = q.cluster /\ p.inputs = q.inputs
               /\ p.drop = q.drop /\ p.at = q.at + 1 /\ p.next \in {"read", "routers"}
  BY <1>1, NextInputRequest
<1>3. /\ WriterOK(i, q, clusters, routers, requests)
      /\ q.at \in DOMAIN q.inputs /\ q.at \in Nat
  BY <1>1, AtOneOrTwo
<1>4. q.op = "update"
  BY <1>1, <1>3 DEF WriterOK, InputRolesOK
<1>5. /\ DOMAIN requests' = DOMAIN requests /\ requests'[i] = p
      /\ \A j \in DOMAIN requests \ {i} : requests'[j] = requests[j]
  BY <1>2
<1>6. /\ \A r \in routers : \E s \in routers' :
            s.id = r.id /\ s.cluster = r.cluster /\ s.role = r.role
      /\ \A r \in routers' : \E s \in routers :
            s.id = r.id /\ s.cluster = r.cluster /\ s.role = r.role
      /\ \A r, s \in routers' : r.id = s.id => r = s
  BY UpdateRouterRows
<1>7. \A c : HasMaster(c, routers) => HasMaster(c, routers')
  BY <1>6 DEF HasMaster
<1>8. Monotone(clusters, routers, requests, clusters', routers', requests')
  BY <1>1, <1>2, <1>5, <1>7 DEF Monotone
<1>9. RequestRolesOK(i, p, clusters', routers', requests')
  <2>1. RequestRolesOK(i, q, clusters, routers, requests)
    BY DEF StoredOK
  <2>2. \A r \in routers' : (\E s \in routers : s.id = r.id) \/ r.id = <<i, q.at>>
    BY <1>6
  <2> HIDE DEF q
  <2> QED  BY <1>1, <1>2, <1>3, <1>8, <2>1, <2>2, NextInputRoles
<1>10. RowRolesOK(routers', requests')
  <2>1. ASSUME NEW r \in routers'
        PROVE  RoleFits(r.id, r.role, r.cluster, requests') /\ HasMaster(r.cluster, routers')
    <3>1. PICK s \in routers : s.id = r.id /\ s.cluster = r.cluster /\ s.role = r.role
      BY <1>6
    <3>2. RoleFits(s.id, s.role, s.cluster, requests) /\ HasMaster(s.cluster, routers)
      BY DEF StoredOK, RowRolesOK
    <3>3. RoleFits(s.id, s.role, s.cluster, requests')
      BY <1>5, <3>2, RoleFitsStays
    <3> QED  BY <1>7, <3>1, <3>2, <3>3
  <2> QED  BY <1>6, <2>1 DEF RowRolesOK
<1>11. ASSUME NEW c \in clusters' PROVE ClusterRowOK(c, routers', requests')
  <2>1. ClusterRowOK(c, routers, requests)
    BY <1>1 DEF StoredOK
  <2>2. c.id # i
    BY <1>4, <2>1 DEF ClusterRowOK, ClusterOK
  <2> QED  BY <1>5, <1>7, <2>1, <2>2 DEF ClusterRowOK, ClusterOK
<1>12. NewRowsOf(i, routers, routers')
  BY <1>6 DEF NewRowsOf
<1>13. requests' = [requests EXCEPT ![i] = p]
  BY <1>2
<1>14. StoredOK(clusters', routers', requests')
  BY <1>8, <1>9, <1>10, <1>11, <1>12, <1>13, StatementStored
<1> QED  BY <1>8, <1>14 DEF StoredKept

\* CreateRouter: a Create stores the master first, an Update only backups.
LEMMA InsertRouterStored ==
    ASSUME RequestsInv, StoredOK(clusters, routers, requests),
           NEW i \in DOMAIN requests, InsertRouter(i)
    PROVE  StoredKept
<1> DEFINE q == requests[i]
           input == q.inputs[q.at]
           row == [id |-> <<i, q.at>>, cluster |-> q.cluster, name |-> input.name,
                   host |-> input.host, role |-> input.role, cred |-> input.cred]
<1>1. /\ q.next = "routers" /\ input.id = NewRouter /\ NextInput(i)
      /\ clusters' = clusters /\ routers' = routers \cup {row}
      /\ ClusterExists(q.cluster, clusters)
  BY DEF InsertRouter, ClusterExists
<1>2. row.id = <<i, q.at>> /\ row.cluster = q.cluster /\ row.role = input.role
  OBVIOUS
<1>3. PICK p : /\ requests' = [requests EXCEPT ![i] = p]
               /\ p.op = q.op /\ p.cluster = q.cluster /\ p.inputs = q.inputs
               /\ p.drop = q.drop /\ p.at = q.at + 1 /\ p.next \in {"read", "routers"}
  BY <1>1, NextInputRequest
<1> HIDE DEF row
<1>4. /\ WriterOK(i, q, clusters, routers, requests)
      /\ q.at \in DOMAIN q.inputs /\ q.at \in Nat
      /\ q.at = 1 \/ (q.at = 2 /\ Len(q.inputs) = 2)
  BY <1>1, AtOneOrTwo
<1>5. /\ DOMAIN requests' = DOMAIN requests /\ requests'[i] = p
      /\ \A j \in DOMAIN requests \ {i} : requests'[j] = requests[j]
  BY <1>3
<1>6. /\ RequestRolesOK(i, q, clusters, routers, requests)
      /\ \A c \in clusters : ClusterRowOK(c, routers, requests)
      /\ RowRolesOK(routers, requests)
  BY DEF StoredOK
<1>7. q.op = "update" => q.at = 2
  <2> SUFFICES ASSUME q.op = "update", q.at = 1 PROVE FALSE
    BY <1>4
  <2>1. NewRouter = <<q.cluster, 1>> /\ q.cluster \in DOMAIN requests
    BY <1>1, <1>4 DEF WriterOK, InputRolesOK, Established
  <2>2. DOMAIN requests \subseteq Nat
    BY DEF RequestsInv, IsSequence
  <2> QED  BY <2>1, <2>2, NewRouterAssumption
<1>8. q.op = "create" \/ q.op = "update"
  BY <1>4 DEF WriterOK
<1>9. RoleFits(row.id, row.role, row.cluster, requests)
  <2>1. CASE q.at = 1
    <3>1. input.role = "master" /\ q.cluster = i
      BY <1>4, <1>6, <1>7, <1>8, <2>1 DEF WriterOK, InputRolesOK, RequestRolesOK
    <3> QED  BY <1>2, <2>1, <3>1 DEF RoleFits
  <2>2. CASE q.at = 2
    <3>1. input.role = "backup"
      BY <1>4, <2>2 DEF WriterOK, InputRolesOK
    <3> QED  BY <1>2, <2>2, <3>1 DEF RoleFits, BackupID
  <2> QED  BY <1>4, <2>1, <2>2
<1>10. HasMaster(q.cluster, routers')
  <2>1. CASE q.op = "update"
    <3>1. HasMaster(q.cluster, routers)
      BY <1>1, <1>4, <2>1 DEF WriterOK, Established
    <3> QED  BY <1>1, <3>1 DEF HasMaster
  <2>2. CASE q.op = "create" /\ q.at = 1
    BY <1>1, <1>2, <1>6, <2>2 DEF RequestRolesOK, HasMaster
  <2>3. CASE q.op = "create" /\ q.at = 2
    <3>1. q.cluster = i
      BY <1>6, <2>3 DEF RequestRolesOK
    <3>2. ClusterOK(i, routers, requests)
      BY <1>1, <1>6, <3>1 DEF ClusterExists, ClusterRowOK
    <3>3. HasMaster(i, routers)
      BY <1>1, <2>3, <3>2 DEF ClusterOK
    <3> QED  BY <1>1, <3>1, <3>3 DEF HasMaster
  <2> QED  BY <1>4, <1>8, <2>1, <2>2, <2>3
<1>11. \A c : HasMaster(c, routers) => HasMaster(c, routers')
  BY <1>1 DEF HasMaster
<1>12. Monotone(clusters, routers, requests, clusters', routers', requests')
  BY <1>1, <1>3, <1>5, <1>11 DEF Monotone
<1>13. RequestRolesOK(i, p, clusters', routers', requests')
  <2>1. \A r \in routers' : (\E s \in routers : s.id = r.id) \/ r.id = <<i, q.at>>
    BY <1>1, <1>2
  <2> HIDE DEF q
  <2> QED  BY <1>1, <1>3, <1>4, <1>6, <1>12, <2>1, NextInputRoles
<1>14. RowRolesOK(routers', requests')
  <2>1. ASSUME NEW r \in routers'
        PROVE  RoleFits(r.id, r.role, r.cluster, requests') /\ HasMaster(r.cluster, routers')
    <3>1. RoleFits(r.id, r.role, r.cluster, requests) /\ HasMaster(r.cluster, routers')
      BY <1>1, <1>2, <1>6, <1>9, <1>10, <1>11 DEF RowRolesOK
    <3> QED  BY <1>5, <3>1, RoleFitsStays
  <2>2. \A r \in routers : r.id # row.id
    BY <1>2, <1>4 DEF WriterOK
  <2>3. \A r, s \in routers' : r.id = s.id => r = s
    BY <1>1, <1>6, <2>2 DEF RowRolesOK
  <2> QED  BY <2>1, <2>3 DEF RowRolesOK
<1>15. ASSUME NEW c \in clusters' PROVE ClusterRowOK(c, routers', requests')
  <2>1. ClusterRowOK(c, routers, requests)
    BY <1>1, <1>6
  <2>2. CASE c.id = i
    <3>1. q.cluster = i
      BY <1>6, <2>1, <2>2 DEF ClusterRowOK, ClusterOK, RequestRolesOK
    <3> QED  BY <1>3, <1>5, <1>10, <2>1, <2>2, <3>1 DEF ClusterRowOK, ClusterOK
  <2>3. CASE c.id # i
    BY <1>5, <1>11, <2>1, <2>3 DEF ClusterRowOK, ClusterOK
  <2> QED  BY <2>2, <2>3
<1>16. NewRowsOf(i, routers, routers')
  BY <1>1, <1>2 DEF NewRowsOf
<1>17. requests' = [requests EXCEPT ![i] = p]
  BY <1>3
<1>18. StoredOK(clusters', routers', requests')
  BY <1>12, <1>13, <1>14, <1>15, <1>16, <1>17, StatementStored
<1> QED  BY <1>12, <1>18 DEF StoredKept

\* Every statement of a request.
LEMMA ServeStored ==
    ASSUME RequestsInv, StoredOK(clusters, routers, requests),
           NEW i \in DOMAIN requests, ServeStep(i)
    PROVE  StoredKept
<1>1. CASE InsertCluster(i)
  BY <1>1, InsertClusterStored DEF StoredKept
<1>2. CASE GetCluster(i)
  <2>1. UNCHANGED <<clusters, routers>> /\ requests[i].next = "get"
    BY <1>2 DEF GetCluster
  <2>2. PICK next \in {"rename", "list"} : Advance(i, next)
    BY <1>2 DEF GetCluster
  <2> QED  BY <2>1, <2>2, ClustersStay, AdvanceStored
<1>3. CASE RenameCluster(i)
  <2>1. UNCHANGED routers /\ requests[i].next = "rename" /\ Advance(i, "list")
    BY <1>3 DEF RenameCluster
  <2>2. \E id, name : clusters' = {IF c.id = id THEN [c EXCEPT !.name = name] ELSE c :
                                     c \in clusters}
    BY <1>3 DEF RenameCluster
  <2>3. SameClusters(clusters, clusters')
    BY <2>2, ClustersStay
  <2> QED  BY <2>1, <2>3, AdvanceStored
<1>4. CASE ListRouters(i)
  BY <1>4, ListRoutersStored
<1>5. CASE DropRouter(i)
  BY <1>5, DropRouterStored
<1>6. CASE InsertRouter(i)
  BY <1>6, InsertRouterStored
<1>7. CASE UpdateRouter(i)
  BY <1>7, UpdateRouterStored
<1>8. CASE ReadBack(i)
  BY <1>8, ClustersStay, AdvanceStored DEF ReadBack
<1>9. CASE DeleteCluster(i)
  BY <1>9, DeleteClusterStored
<1>10. CASE StatementFails(i)
  BY <1>10, ClustersStay, AdvanceStored DEF StatementFails
<1> QED
  BY <1>1, <1>2, <1>3, <1>4, <1>5, <1>6, <1>7, <1>8, <1>9, <1>10 DEF ServeStep

\* A step that leaves the rows alone and may add requests.
LEMMA RequestsAdded ==
    ASSUME NEW cs, NEW rs, NEW qs, NEW ps, StoredOK(cs, rs, qs), DOMAIN qs \subseteq DOMAIN ps,
           \A j \in DOMAIN qs : SameRequest(ps[j], qs[j]),
           \A j \in DOMAIN ps \ DOMAIN qs : RequestRolesOK(j, ps[j], cs, rs, ps)
    PROVE  StoredOK(cs, rs, ps) /\ Monotone(cs, rs, qs, cs, rs, ps)
<1>1. Monotone(cs, rs, qs, cs, rs, ps)
  BY DEF Monotone, SameRequest
<1>2. ASSUME NEW j \in DOMAIN ps PROVE RequestRolesOK(j, ps[j], cs, rs, ps)
  <2>1. CASE j \in DOMAIN qs
    <3>1. RequestRolesOK(j, qs[j], cs, rs, qs) /\ SameRequest(ps[j], qs[j])
      BY <2>1 DEF StoredOK
    <3>2. \A r \in rs : \A k \in {1, 2} : r.id = <<j, k>> => \E s \in rs : s.id = r.id
      OBVIOUS
    <3> QED  BY <1>1, <3>1, <3>2, RequestStays
  <2>2. CASE j \notin DOMAIN qs
    BY <2>2
  <2> QED  BY <2>1, <2>2
<1>3. RowRolesOK(rs, ps)
  BY RoleFitsStays DEF StoredOK, RowRolesOK
<1>4. ASSUME NEW c \in cs PROVE ClusterRowOK(c, rs, ps)
  <2>1. ClusterRowOK(c, rs, qs)
    BY DEF StoredOK
  <2> QED  BY <2>1 DEF ClusterRowOK, ClusterOK, SameRequest
<1> QED  BY <1>1, <1>2, <1>3, <1>4 DEF StoredOK

\* A request arrives, a save with the routers of a drawer.
LEMMA ArriveStored ==
    ASSUME RequestsInv, StoredOK(clusters, routers, requests),
           NEW op \in {"create", "update", "delete"}, NEW by, NEW c, NEW name, NEW inputs,
           Arrive(op, by, c, name, inputs), UNCHANGED <<clusters, routers>>,
           op # "delete" =>
               InputRolesOK([op |-> op, cluster |-> c, inputs |-> inputs], requests),
           op = "update" => Established(c, clusters, routers, requests)
    PROVE  StoredKept
<1> DEFINE cluster == IF op = "create" THEN Len(requests) + 1 ELSE c
           old == [j \in DOMAIN requests |->
                     IF Running(requests[j]) /\ requests[j].cluster = cluster
                     THEN [requests[j] EXCEPT !.overlap = TRUE] ELSE requests[j]]
           q == Request(op, by, cluster, name, inputs)
           i == Len(requests) + 1
<1>1. requests' = Append(old, q)
  BY DEF Arrive
<1>2. /\ DOMAIN requests = 1..Len(requests) /\ Len(requests) \in Nat
      /\ IsSequence(old) /\ DOMAIN old = DOMAIN requests /\ Len(old) = Len(requests)
  <2>1. DOMAIN requests = 1..Len(requests) /\ Len(requests) \in Nat
    BY DEF RequestsInv, IsSequence
  <2>2. DOMAIN old = DOMAIN requests
    OBVIOUS
  <2>3. IsSequence(old) /\ Len(old) = Len(requests)
    <3>1. old = [j \in 1..Len(requests) |-> old[j]]
      BY <2>1
    <3> HIDE DEF old
    <3> QED  BY <2>1, <3>1, FunctionIsSequence
  <2> QED  BY <2>1, <2>2, <2>3
<1>3. ASSUME NEW j \in DOMAIN requests PROVE SameRequest(old[j], requests[j])
  <2>1. IsRequest(requests[j])
    BY DEF RequestsInv, RequestsOK
  <2> QED  BY <2>1 DEF SameRequest, IsRequest
<1>4. /\ q.op = op /\ q.cluster = cluster /\ q.inputs = inputs /\ q.drop = {} /\ q.at = 1
      /\ q.next \in {"insert", "get", "delete", "error"}
      /\ q.next = "insert" => op = "create"
      /\ q.next = "get" => op = "update"
  BY DEF Request
<1> HIDE DEF old, q
<1>5. /\ DOMAIN requests' = DOMAIN requests \cup {i}
      /\ \A j \in DOMAIN requests : requests'[j] = old[j]
      /\ requests'[i] = q
  BY <1>1, <1>2, AppendToSequence
<1>6. RequestRolesOK(i, q, clusters, routers, requests')
  <2>1. ASSUME q.next \in Writing PROVE WriterOK(i, q, clusters, routers, requests')
    <3>1. \/ q.next = "insert" /\ op = "create"
          \/ q.next = "get" /\ op = "update"
      BY <1>4, <2>1 DEF Writing
    <3>2. \A id : BackupID(id, requests) => BackupID(id, requests')
      BY <1>5, RoleFitsStays
    <3>3. InputRolesOK(q, requests')
      BY <1>4, <3>1, <3>2 DEF InputRolesOK
    <3>4. q.op = "update" => Established(q.cluster, clusters, routers, requests')
      <4>1. Monotone(clusters, routers, requests, clusters, routers, requests')
        BY <1>3, <1>5 DEF Monotone, SameRequest
      <4> QED  BY <1>4, <4>1, KnownStays
    <3>5. ASSUME NEW r \in routers, NEW k \in {1, 2}, r.id = <<i, k>> PROVE FALSE
      <4>1. RoleFits(r.id, r.role, r.cluster, requests)
        BY DEF StoredOK, RowRolesOK
      <4>2. i \in DOMAIN requests
        BY <3>5, <4>1 DEF RoleFits, BackupID
      <4> QED  BY <1>2, <4>2
    <3> QED  BY <1>4, <3>1, <3>3, <3>4, <3>5 DEF WriterOK
  <2> QED  BY <1>4, <2>1 DEF RequestRolesOK
<1>7. \A j \in DOMAIN requests : SameRequest(requests'[j], requests[j])
  BY <1>3, <1>5
<1>8. \A j \in DOMAIN requests' \ DOMAIN requests :
         RequestRolesOK(j, requests'[j], clusters, routers, requests')
  BY <1>5, <1>6
<1>9. DOMAIN requests \subseteq DOMAIN requests'
  BY <1>5
<1>10. /\ StoredOK(clusters, routers, requests')
       /\ Monotone(clusters, routers, requests, clusters, routers, requests')
  BY <1>7, <1>8, <1>9, RequestsAdded
<1> QED  BY <1>10 DEF StoredKept

\* The drawer sends the routers of its cluster with the IDs it knows: the
\* master first, then the backup, or a new one.
LEMMA PayloadRoles ==
    ASSUME NEW d, NEW cs, NEW rs, NEW qs, KnownOK(d.edit, cs, rs, qs), NEW op, NEW c,
           op = IF d.edit # None THEN "update" ELSE "create", d.edit # None => c = d.edit.id
    PROVE  InputRolesOK([op |-> op, cluster |-> c, inputs |-> Payload(d)], qs)
<1> DEFINE row(role) == IF d.edit = None THEN None ELSE RouterOf(d.edit, role)
           first == InputOf(d, "primary", "master")
           second == InputOf(d, "secondary", "backup")
           q == [op |-> op, cluster |-> c, inputs |-> Payload(d)]
<1>1. /\ first.role = "master" /\ second.role = "backup"
      /\ first.id = IF row("master") = None THEN NewRouter ELSE row("master").id
      /\ second.id = IF row("backup") = None THEN NewRouter ELSE row("backup").id
  BY DEF InputOf, Input
<1>2. ASSUME d.edit # None
      PROVE  first.id = <<c, 1>> /\ (second.id = NewRouter \/ BackupID(second.id, qs))
  <2> DEFINE masters == {r \in d.edit.routers : r.role = "master"}
             backups == {r \in d.edit.routers : r.role = "backup"}
  <2>1. /\ SnapshotOK(d.edit, cs, rs, qs) /\ masters # {} /\ c = d.edit.id
    BY <1>2 DEF KnownOK, SnapshotOK
  <2>2. row("master") \in masters
    BY <1>2, <2>1 DEF RouterOf
  <2>3. row("backup") = None \/ row("backup") \in backups
    BY <1>2 DEF RouterOf
  <2>4. DOMAIN row("master") = {"id", "name", "host", "role"}
    BY <2>1, <2>2 DEF SnapshotOK
  <2>5. row("master") # None
    BY <2>4 DEF None
  <2>6. row("master").id = <<c, 1>>
    BY <2>1, <2>2 DEF SnapshotOK, RoleFits
  <2>7. row("backup") \in backups => BackupID(row("backup").id, qs)
    BY <2>1 DEF SnapshotOK, RoleFits
  <2> HIDE DEF row, first, second
  <2> QED  BY <1>1, <2>3, <2>5, <2>6, <2>7
<1>3. d.edit = None => first.id = NewRouter /\ second.id = NewRouter
  BY <1>1
<1>4. Payload(d) = <<first, second>> \/ Payload(d) = <<first>>
  BY DEF Payload
<1> HIDE DEF first, second
<1>5. /\ Len(Payload(d)) \in {1, 2} /\ DOMAIN Payload(d) = 1..Len(Payload(d))
      /\ Payload(d)[1] = first /\ (Len(Payload(d)) = 2 => Payload(d)[2] = second)
  BY <1>4
<1>6. q.op = op /\ q.cluster = c /\ q.inputs = Payload(d)
  OBVIOUS
<1> HIDE DEF q
<1>7. \A k \in DOMAIN q.inputs : k = 1 \/ (k = 2 /\ Len(q.inputs) = 2)
  BY <1>5, <1>6
<1>8. q.op = "create" => \A k \in DOMAIN q.inputs : q.inputs[k].id = NewRouter
  BY <1>3, <1>5, <1>6, <1>7
<1>9. q.op = "update" => d.edit # None
  BY <1>6
<1>10. InputRolesOK(q, qs)
  BY <1>1, <1>2, <1>5, <1>6, <1>8, <1>9 DEF InputRolesOK
<1> QED  BY <1>10 DEF q

\* A delete needs nothing of its cluster.
LEMMA DeleteArrives ==
    ASSUME RolesInv, NEW by, NEW c, NEW name, Arrive("delete", by, c, name, <<>>),
           UNCHANGED <<clusters, routers>>
    PROVE  StoredKept
  BY ArriveStored DEF RolesInv

\* Saving the drawer.
LEMMA SubmitStored ==
    ASSUME RolesInv, HandleSubmit
    PROVE  StoredKept
<1>1. /\ RequestsInv /\ StoredOK(clusters, routers, requests)
      /\ KnownOK(drawer.edit, clusters, routers, requests)
      /\ UNCHANGED <<clusters, routers>>
  BY DEF RolesInv, PageOK, HandleSubmit
<1>2. CASE drawer.edit # None
  <2>1. Arrive("update", "drawer", drawer.edit.id, drawer.name, Payload(drawer))
    BY <1>2 DEF HandleSubmit, IsEditing
  <2>2. Established(drawer.edit.id, clusters, routers, requests)
    BY <1>1, <1>2 DEF KnownOK, SnapshotOK
  <2>3. InputRolesOK([op |-> "update", cluster |-> drawer.edit.id, inputs |-> Payload(drawer)],
                     requests)
    BY <1>1, <1>2, PayloadRoles
  <2> QED  BY <1>1, <2>1, <2>2, <2>3, ArriveStored
<1>3. CASE drawer.edit = None
  <2>1. Arrive("create", "drawer", 0, drawer.name, Payload(drawer))
    BY <1>3 DEF HandleSubmit, IsEditing
  <2>2. InputRolesOK([op |-> "create", cluster |-> 0, inputs |-> Payload(drawer)], requests)
    BY <1>1, <1>3, PayloadRoles
  <2> QED  BY <1>1, <2>1, <2>2, ArriveStored
<1> QED  BY <1>2, <1>3

\* The requests of the other administrator.
LEMMA OtherStored ==
    ASSUME RolesInv, OtherRequest
    PROVE  StoredKept
<1>1. /\ RequestsInv /\ StoredOK(clusters, routers, requests)
      /\ KnownOK(seen, clusters, routers, requests) /\ seen # None
      /\ UNCHANGED <<clusters, routers>>
  BY DEF RolesInv, PageOK, OtherRequest
<1>2. CASE Arrive("delete", "other", seen.id, seen.name, <<>>)
  BY <1>1, <1>2, DeleteArrives
<1>3. ASSUME NEW name, NEW host, NEW cred, NEW inputs \in OtherInputs(name, host, cred),
             Arrive("update", "other", seen.id, name, inputs)
      PROVE  StoredKept
  <2>1. Established(seen.id, clusters, routers, requests)
    BY <1>1 DEF KnownOK, SnapshotOK
  <2>2. PICK d : inputs = Payload(d) /\ d.edit = seen
    <3> DEFINE b == BuildInitialValues(seen)
               e == [b EXCEPT !.primary.cred = cred]
               backup == [e.secondary EXCEPT !.host = IF e.ha THEN @ ELSE host, !.cred = "both",
                                             !.name = IF e.ha THEN @ ELSE <<name, 2>>]
    <3>1. e.edit = seen /\ DOMAIN e = DrawerNames
      BY DEF BuildInitialValues, DrawerNames
    <3>2. inputs = Payload([e EXCEPT !.ha = FALSE])
          \/ inputs = Payload([e EXCEPT !.ha = TRUE, !.secondary = backup])
      BY <1>3 DEF OtherInputs
    <3> HIDE DEF e, backup
    <3>3. [e EXCEPT !.ha = FALSE].edit = seen
      BY <3>1 DEF DrawerNames
    <3>4. [e EXCEPT !.ha = TRUE, !.secondary = backup].edit = seen
      BY <3>1 DEF DrawerNames
    <3> QED  BY <3>2, <3>3, <3>4
  <2>3. InputRolesOK([op |-> "update", cluster |-> seen.id, inputs |-> inputs], requests)
    BY <1>1, <2>2, PayloadRoles
  <2> QED  BY <1>1, <1>3, <2>1, <2>3, ArriveStored
<1> QED  BY <1>2, <1>3 DEF OtherRequest

\* An answer changes nothing the service reads.
LEMMA AnswerStored ==
    ASSUME RequestsInv, StoredOK(clusters, routers, requests),
           NEW i \in DOMAIN requests, Answer(i)
    PROVE  StoredKept
<1>1. PICK by : requests' = [requests EXCEPT ![i].by = by]
  BY DEF Answer
<1>2. UNCHANGED <<clusters, routers>> /\ DOMAIN requests' = DOMAIN requests
  BY <1>1 DEF Answer
<1>3. ASSUME NEW j \in DOMAIN requests PROVE SameRequest(requests'[j], requests[j])
  <2>1. IsRequest(requests[j])
    BY DEF RequestsInv, RequestsOK
  <2> QED  BY <1>1, <2>1 DEF SameRequest, IsRequest
<1>4. /\ StoredOK(clusters, routers, requests')
      /\ Monotone(clusters, routers, requests, clusters, routers, requests')
  BY <1>2, <1>3, RequestsAdded
<1> QED  BY <1>2, <1>4 DEF StoredKept

\* A step that leaves the service alone.
LEMMA NothingStored ==
    ASSUME StoredOK(clusters, routers, requests), UNCHANGED serviceVars
    PROVE  StoredKept
  BY DEF serviceVars, StoredKept, Monotone

\* Every step keeps what is stored.
LEMMA NextStored ==
    ASSUME RolesInv, [Next]_vars
    PROVE  StoredKept
<1>1. RequestsInv /\ StoredOK(clusters, routers, requests)
  BY DEF RolesInv
<1>2. CASE UNCHANGED vars
  BY <1>1, <1>2, NothingStored DEF vars, serviceVars
<1>3. CASE HandleSubmit
  BY <1>3, SubmitStored
<1>4. CASE HandleDelete
  BY <1>4, DeleteArrives DEF HandleDelete
<1>5. CASE HandleDeleteConfirm
  <2>1. PICK by, c : IF c = None THEN UNCHANGED requests
                     ELSE Arrive("delete", by, c.id, c.name, <<>>)
    BY <1>5 DEF HandleDeleteConfirm
  <2>2. UNCHANGED <<clusters, routers>>
    BY <1>5 DEF HandleDeleteConfirm
  <2>3. CASE UNCHANGED requests
    BY <1>1, <2>2, <2>3, NothingStored DEF serviceVars
  <2>4. CASE Arrive("delete", by, c.id, c.name, <<>>)
    BY <2>2, <2>4, DeleteArrives
  <2> QED  BY <2>1, <2>3, <2>4
<1>6. CASE OtherRequest
  BY <1>6, OtherStored
<1>7. CASE \E i \in DOMAIN requests : Answer(i)
  BY <1>1, <1>7, AnswerStored
<1>8. CASE Serve
  BY <1>1, <1>8, ServeStored DEF Serve
<1>9. CASE \/ ClusterNameStep \/ PrimaryRouterStep \/ SecondaryRouterStep \/ HandleNext
           \/ HandleBack \/ (\E p \in Positions : HandleTest(p)) \/ HandleClose \/ ConfirmInDrawer
  <2>1. UNCHANGED serviceVars
    BY <1>9 DEF ClusterNameStep, PrimaryRouterStep, SecondaryRouterStep, HandleNext, HandleBack,
                HandleTest, HandleClose, ConfirmInDrawer, RouterStep, Typed
  <2> QED  BY <1>1, <2>1, NothingStored
<1>10. CASE \/ FetchRouters \/ FetchClusters \/ HandleAdd \/ GroupRows \/ RouterDetail
            \/ CancelDelete \/ OtherLoads \/ \E p \in Positions : TestAnswers(p)
  <2>1. UNCHANGED serviceVars
    BY <1>10 DEF FetchRouters, FetchClusters, HandleAdd, GroupRows, GroupRow, RouterRow,
                 RouterDetail, CancelDelete, OtherLoads, TestAnswers, HandleEdit, AskDelete,
                 ShowDetail
  <2> QED  BY <1>1, <2>1, NothingStored
<1> QED
  BY <1>2, <1>3, <1>4, <1>5, <1>6, <1>7, <1>8, <1>9, <1>10 DEF Next, ClusterDrawer

\* A cluster that is listed has its master among its routers.
LEMMA ResponseIsSnapshot ==
    ASSUME StoredOK(clusters, routers, requests), RowsOK, NEW c \in clusters
    PROVE  SnapshotOK(ClusterResponse(c), clusters, routers, requests)
<1> DEFINE s == ClusterResponse(c)
           shown(r) == [id |-> r.id, name |-> r.name, host |-> r.host, role |-> r.role]
<1>1. s.id = c.id /\ s.routers = {shown(r) : r \in RoutersOf(c.id)}
  BY DEF ClusterResponse
<1>2. ASSUME NEW r \in routers
      PROVE  /\ DOMAIN shown(r) = {"id", "name", "host", "role"}
             /\ shown(r).id = r.id /\ shown(r).role = r.role
  OBVIOUS
<1> HIDE DEF s, shown
<1>3. ASSUME NEW x \in s.routers
      PROVE  /\ DOMAIN x = {"id", "name", "host", "role"}
             /\ RoleFits(x.id, x.role, s.id, requests)
  <2>1. PICK r \in routers : r.cluster = c.id /\ x = shown(r)
    BY <1>1 DEF RoutersOf
  <2>2. RoleFits(r.id, r.role, r.cluster, requests)
    BY DEF StoredOK, RowRolesOK
  <2> QED  BY <1>1, <1>2, <2>1, <2>2
<1>4. ASSUME s.routers # {}
      PROVE  /\ \E x \in s.routers : x.role = "master"
             /\ Established(s.id, clusters, routers, requests)
  <2>1. PICK r \in routers : r.cluster = c.id
    BY <1>1, <1>4 DEF RoutersOf
  <2>2. HasMaster(c.id, routers)
    BY <2>1 DEF StoredOK, RowRolesOK
  <2>3. PICK m \in routers : m.cluster = c.id /\ m.id = <<c.id, 1>>
    BY <2>2 DEF HasMaster
  <2>4. RoleFits(m.id, m.role, m.cluster, requests)
    BY DEF StoredOK, RowRolesOK
  <2>5. \A j : <<j, 2>> # <<c.id, 1>>
    OBVIOUS
  <2>6. m.role = "master"
    BY <2>3, <2>4, <2>5 DEF RoleFits, BackupID
  <2>7. shown(m) \in s.routers /\ shown(m).role = "master"
    BY <1>1, <1>2, <2>3, <2>6 DEF RoutersOf
  <2>8. Established(c.id, clusters, routers, requests)
    BY <2>2 DEF StoredOK, ClusterRowOK, ClusterOK, Established
  <2> QED  BY <1>1, <2>7, <2>8
<1>5. SnapshotOK(s, clusters, routers, requests)
  BY <1>3, <1>4 DEF SnapshotOK
<1> QED  BY <1>5 DEF s

\* A step of the drawer is one for the cluster that it was opened for.
LEMMA EditStays ==
    ASSUME TestedInv, ClusterDrawer \/ (\E p \in Positions : TestAnswers(p)), drawer'.open
    PROVE  drawer.open /\ drawer'.edit = drawer.edit
<1>1. drawer.open => /\ DOMAIN drawer = DrawerNames
                     /\ DOMAIN drawer.primary = FieldNames
                     /\ DOMAIN drawer.secondary = FieldNames
  BY DEF TestedInv, DrawerOK, FieldsOK, Positions
<1>2. CASE \E p \in Positions : TestAnswers(p)
  BY <1>1, <1>2 DEF TestAnswers, DrawerNames, Positions
<1>3. ASSUME NEW p \in Positions, RouterStep(p), drawer.open PROVE drawer'.edit = drawer.edit
  <2>1. \A d : DOMAIN d = DrawerNames => FieldChange(d, p).edit = d.edit
    BY DEF FieldChange, Late, DrawerNames, Positions
  <2>2. ASSUME NEW h PROVE LET d == [drawer EXCEPT ![p].host = h]
                           IN  DOMAIN d = DrawerNames /\ d.edit = drawer.edit
    BY <1>1, <1>3 DEF DrawerNames, Positions
  <2>3. ASSUME NEW c PROVE LET d == [drawer EXCEPT ![p].cred = c]
                           IN  DOMAIN d = DrawerNames /\ d.edit = drawer.edit
    BY <1>1, <1>3 DEF DrawerNames, Positions
  <2>4. ASSUME NEW n
        PROVE  [drawer EXCEPT ![p].name = n, ![p].edited = TRUE].edit = drawer.edit
    BY <1>1, <1>3 DEF DrawerNames, Positions
  <2>5. \/ \E h : drawer' = FieldChange([drawer EXCEPT ![p].host = h], p)
        \/ \E c : drawer' = FieldChange([drawer EXCEPT ![p].cred = c], p)
        \/ \E n : drawer' = [drawer EXCEPT ![p].name = n, ![p].edited = TRUE]
    BY <1>3 DEF RouterStep, Typed
  <2>6. ASSUME NEW h, drawer' = FieldChange([drawer EXCEPT ![p].host = h], p)
        PROVE  drawer'.edit = drawer.edit
    BY <2>1, <2>2, <2>6
  <2>7. ASSUME NEW c, drawer' = FieldChange([drawer EXCEPT ![p].cred = c], p)
        PROVE  drawer'.edit = drawer.edit
    BY <2>1, <2>3, <2>7
  <2> QED  BY <2>4, <2>5, <2>6, <2>7
<1>4. CASE PrimaryRouterStep
  BY <1>3, <1>4 DEF PrimaryRouterStep, Positions
<1>5. CASE SecondaryRouterStep
  BY <1>1, <1>3, <1>5 DEF SecondaryRouterStep, Typed, DrawerNames, Positions
<1>6. CASE HandleNext \/ HandleBack \/ ConfirmInDrawer
  BY <1>1, <1>6 DEF HandleNext, HandleBack, ConfirmInDrawer, Typed, DrawerNames
<1>7. CASE ClusterNameStep
  BY <1>1, <1>7 DEF ClusterNameStep, Typed, DrawerNames
<1>8. CASE HandleSubmit \/ HandleDelete
  BY <1>8 DEF HandleSubmit, HandleDelete
<1>9. CASE HandleClose
  BY <1>9 DEF HandleClose, Typed, ClosedDrawer
<1>10. ASSUME NEW p \in Positions, HandleTest(p) PROVE drawer.open /\ drawer'.edit = drawer.edit
  BY <1>1, <1>10 DEF HandleTest, DrawerNames, Positions
<1> QED  BY <1>2, <1>4, <1>5, <1>6, <1>7, <1>8, <1>9, <1>10 DEF ClusterDrawer

\* The page only remembers clusters that the list showed.
LEMMA PageRemembers ==
    ASSUME RolesInv, [Next]_vars
    PROVE  PageOK(clusterList', drawer', seen', clusters, routers, requests)
<1> DEFINE Known(s) == KnownOK(s, clusters, routers, requests)
<1>1. /\ clusterList = NoList \/ \A s \in clusterList : SnapshotOK(s, clusters, routers, requests)
      /\ drawer.open => Known(drawer.edit)
      /\ Known(seen)
  BY DEF RolesInv, PageOK
<1>2. /\ TestedInv /\ StoredOK(clusters, routers, requests) /\ RowsOK
  BY DEF RolesInv, RequestsInv
<1>3. Known(None)
  BY DEF KnownOK
<1>4. \A id : Known(ClusterForRouter(id))
  <2> SUFFICES ASSUME NEW id PROVE Known(ClusterForRouter(id))
    OBVIOUS
  <2> DEFINE of == IF clusterList = NoList THEN {}
                   ELSE {c \in clusterList : \E r \in c.routers : r.id = id}
  <2>1. ClusterForRouter(id) = IF of = {} THEN None ELSE CHOOSE c \in of : TRUE
    BY DEF ClusterForRouter
  <2>2. ClusterForRouter(id) = None \/ ClusterForRouter(id) \in of
    BY <2>1
  <2>3. ASSUME NEW c \in of PROVE Known(c)
    BY <1>1, <2>3 DEF KnownOK
  <2> HIDE DEF of, Known
  <2> QED  BY <1>3, <2>2, <2>3
<1>5. ASSUME NEW c, OpenDrawer(c) PROVE drawer'.edit = c
  <2>1. DOMAIN BuildInitialValues(c) = DrawerNames /\ BuildInitialValues(c).edit = c
    BY DEF BuildInitialValues, DrawerNames
  <2>2. \A d, p : p \in Positions /\ DOMAIN d = DrawerNames =>
                    DOMAIN Late(p, d) = DrawerNames /\ Late(p, d).edit = d.edit
    BY DEF Late, DrawerNames, Positions
  <2> QED  BY <1>5, <2>1, <2>2 DEF OpenDrawer, Positions
<1> HIDE DEF Known
<1>6. ASSUME NEW r, HandleEdit(r)
      PROVE  Known(drawer'.edit) /\ UNCHANGED <<clusterList, seen>>
  BY <1>4, <1>5, <1>6 DEF HandleEdit, lists
<1>7. ASSUME UNCHANGED <<clusterList, seen>>, drawer'.open => Known(drawer'.edit)
      PROVE  PageOK(clusterList', drawer', seen', clusters, routers, requests)
  BY <1>1, <1>7 DEF PageOK, Known
<1>8. CASE UNCHANGED <<clusterList, drawer, seen>>
  BY <1>1, <1>7, <1>8
<1>9. CASE FetchClusters
  <2>1. \A s \in clusterList' : SnapshotOK(s, clusters, routers, requests)
    BY <1>2, <1>9, ResponseIsSnapshot DEF FetchClusters
  <2>2. UNCHANGED <<drawer, seen>>
    BY <1>9 DEF FetchClusters
  <2> QED  BY <1>1, <2>1, <2>2 DEF PageOK, Known
<1>10. CASE OtherLoads
  <2>1. PICK c \in clusters : RoutersOf(c.id) # {} /\ seen' = ClusterResponse(c)
    BY <1>10 DEF OtherLoads
  <2>2. SnapshotOK(seen', clusters, routers, requests)
    BY <1>2, <2>1, ResponseIsSnapshot
  <2>3. seen'.routers # {}
    BY <2>1 DEF ClusterResponse
  <2>4. UNCHANGED <<clusterList, drawer>>
    BY <1>10 DEF OtherLoads, lists
  <2> QED  BY <1>1, <2>2, <2>3, <2>4 DEF PageOK, Known, KnownOK
<1>11. CASE HandleAdd
  BY <1>3, <1>5, <1>7, <1>11 DEF HandleAdd, lists
<1>12. CASE GroupRows
  <2>1. (\E r : HandleEdit(r)) \/ UNCHANGED <<clusterList, drawer, seen>>
    BY <1>12 DEF GroupRows, GroupRow, RouterRow, AskDelete, ShowDetail, lists
  <2> QED  BY <1>6, <1>7, <1>8, <2>1
<1>13. CASE RouterDetail
  <2>1. (\E r : HandleEdit(r)) \/ UNCHANGED <<clusterList, drawer, seen>>
    BY <1>13 DEF RouterDetail, AskDelete, ShowDetail, lists
  <2> QED  BY <1>6, <1>7, <1>8, <2>1
<1>14. CASE ClusterDrawer \/ \E p \in Positions : TestAnswers(p)
  <2>1. UNCHANGED <<clusterList, seen>>
    BY <1>14 DEF ClusterDrawer, TestAnswers, ClusterNameStep, PrimaryRouterStep,
                 SecondaryRouterStep, HandleNext, HandleBack, HandleTest, HandleClose,
                 HandleSubmit, ConfirmInDrawer, HandleDelete, RouterStep, Typed, lists
  <2> QED  BY <1>1, <1>2, <1>7, <1>14, <2>1, EditStays
<1>15. CASE \E i \in DOMAIN requests : Answer(i)
  <2>1. UNCHANGED <<clusterList, seen>> /\ (drawer' = drawer \/ drawer' = ClosedDrawer)
    BY <1>15 DEF Answer
  <2>2. ~ClosedDrawer.open
    BY DEF ClosedDrawer
  <2> QED  BY <1>1, <1>7, <2>1, <2>2
<1>16. CASE \/ FetchRouters \/ CancelDelete \/ HandleDeleteConfirm \/ OtherRequest \/ Serve
            \/ UNCHANGED vars
  <2>1. UNCHANGED <<clusterList, drawer, seen>>
    BY <1>16 DEF FetchRouters, CancelDelete, AskDelete, HandleDeleteConfirm, OtherRequest, Serve,
                 lists, vars
  <2> QED  BY <1>8, <2>1
<1> QED
  BY <1>9, <1>10, <1>11, <1>12, <1>13, <1>14, <1>15, <1>16 DEF Next

\* Every step keeps the invariant.
LEMMA NextRoles ==
    ASSUME RolesInv, [Next]_vars
    PROVE  RolesInv'
<1>1. RequestsInv' /\ TestedInv'
  BY NextKeeps, NextTested DEF RolesInv
<1>2. StoredKept
  BY NextStored
<1>3. PageOK(clusterList', drawer', seen', clusters, routers, requests)
  BY PageRemembers
<1>4. PageOK(clusterList', drawer', seen', clusters', routers', requests')
  BY <1>2, <1>3, KnownStays DEF PageOK, StoredKept
<1> QED  BY <1>1, <1>2, <1>4 DEF RolesInv, StoredKept

\* There is nothing at first.
LEMMA InitRoles == Init => RolesInv
<1> SUFFICES ASSUME Init PROVE RolesInv
  OBVIOUS
<1>1. RequestsInv /\ TestedInv
  BY InitSound, InitTested
<1>2. StoredOK(clusters, routers, requests)
  BY DEF Init, InitPage, StoredOK, RowRolesOK
<1>3. PageOK(clusterList, drawer, seen, clusters, routers, requests)
  BY DEF Init, InitPage, PageOK, KnownOK, ClosedDrawer
<1> QED  BY <1>1, <1>2, <1>3 DEF RolesInv

\* A cluster without routers is one whose Create has not stored them yet or
\* failed before it could, however many updates of the cluster fail half way
\* and whatever they take out: no update takes out the master that its
\* sender saw, and the list of a stale page still names it (service.go,
\* Create and Update; ClusterDrawer.tsx, handleSubmit).
THEOREM RouterlessClustersFailed == Spec => []RouterlessOnlyAfterFailure
<1>1. RolesInv => RouterlessOnlyAfterFailure
  <2> SUFFICES ASSUME RolesInv, NEW c \in clusters, RoutersOf(c.id) = {}
               PROVE  \E i \in DOMAIN requests : /\ requests[i].cluster = c.id
                                                 /\ requests[i].op = "create"
                                                 /\ requests[i].next # "ok"
    BY DEF RouterlessOnlyAfterFailure
  <2>1. ClusterOK(c.id, routers, requests)
    BY DEF RolesInv, StoredOK, ClusterRowOK
  <2>2. ~HasMaster(c.id, routers)
    BY DEF HasMaster, RoutersOf
  <2>3. RequestRolesOK(c.id, requests[c.id], clusters, routers, requests)
    BY <2>1 DEF RolesInv, StoredOK, ClusterOK
  <2> QED  BY <2>1, <2>2, <2>3 DEF ClusterOK, RequestRolesOK
<1> QED  BY <1>1, InitRoles, NextRoles, PTL DEF Spec


-----------------------------------------------------------------------------
(* Overlapping requests. Two requests for a cluster that run together are  *)
(* both marked. While no request for a cluster is marked, its one writer   *)
(* knows each backup there is: those it names, those it has still to take  *)
(* out, and none while a Create runs.                                      *)

Overlapped(c, qs) == \E i \in DOMAIN qs : qs[i].cluster = c /\ qs[i].overlap
BackupsOf(c, rs) == {r \in rs : r.cluster = c /\ r.role = "backup"}

Marked(qs) ==
    \A i, j \in DOMAIN qs :
        i # j /\ Running(qs[i]) /\ Running(qs[j]) /\ qs[i].cluster = qs[j].cluster =>
            qs[i].overlap

OneBackup(rs, qs) ==
    \A r, s \in rs : r.role = "backup" /\ s.role = "backup" /\ r.cluster = s.cluster =>
                         r = s \/ Overlapped(r.cluster, qs)

KnowsBackups(q, rs) ==
    /\ q.op = "create" /\ (q.next = "routers" => q.at <= 2) => BackupsOf(q.cluster, rs) = {}
    /\ q.op = "update" /\ q.next \in {"drop", "routers"} =>
          \A r \in BackupsOf(q.cluster, rs) :
              \/ \E k \in DOMAIN q.inputs : q.inputs[k].id = r.id
              \/ q.next = "drop" /\ r.id \in q.drop

WriterKnows(q, rs, qs) ==
    q.next \in Writing => Overlapped(q.cluster, qs) \/ KnowsBackups(q, rs)

OverlapOK(rs, qs) ==
    /\ Marked(qs)
    /\ OneBackup(rs, qs)
    /\ \A i \in DOMAIN qs : WriterKnows(qs[i], rs, qs)

OverlapInv == RolesInv /\ OverlapOK(routers, requests)

\* No backup comes to a cluster.
NoNewBackup(c, rs, ss) ==
    \A r \in BackupsOf(c, ss) : \E s \in BackupsOf(c, rs) : s.id = r.id

\* A mark stays on a request.
LEMMA MarkStays ==
    ASSUME NEW qs, NEW ps, DOMAIN qs \subseteq DOMAIN ps,
           \A j \in DOMAIN qs : ps[j].cluster = qs[j].cluster /\ (qs[j].overlap => ps[j].overlap)
    PROVE  \A c : Overlapped(c, qs) => Overlapped(c, ps)
  BY DEF Overlapped

\* A writer that takes no step, while no backup comes to its cluster.
LEMMA WriterStays ==
    ASSUME NEW q, NEW p, NEW rs, NEW ss, SameRequest(p, q), KnowsBackups(q, rs),
           NoNewBackup(q.cluster, rs, ss)
    PROVE  KnowsBackups(p, ss)
<1>1. BackupsOf(q.cluster, rs) = {} => BackupsOf(p.cluster, ss) = {}
  BY DEF SameRequest, NoNewBackup
<1>2. ASSUME q.op = "update", q.next \in {"drop", "routers"}, NEW r \in BackupsOf(p.cluster, ss)
      PROVE  \/ \E k \in DOMAIN p.inputs : p.inputs[k].id = r.id
             \/ p.next = "drop" /\ r.id \in p.drop
  <2>1. PICK s \in BackupsOf(q.cluster, rs) : s.id = r.id
    BY DEF SameRequest, NoNewBackup
  <2> QED  BY <1>2, <2>1 DEF KnowsBackups, SameRequest
<1> QED  BY <1>1, <1>2 DEF KnowsBackups, SameRequest

\* A statement of request i, which becomes p: no backup comes to another
\* cluster, and to its own only one that it knows.
LEMMA StatementOverlap ==
    ASSUME NEW rs, NEW qs, NEW ss, NEW ps, NEW i \in DOMAIN qs, NEW p,
           OverlapOK(rs, qs), ps = [qs EXCEPT ![i] = p],
           p.cluster = qs[i].cluster, p.overlap = qs[i].overlap, Running(qs[i]),
           \A c : c # qs[i].cluster => NoNewBackup(c, rs, ss),
           OneBackup(ss, qs), WriterKnows(p, ss, ps)
    PROVE  OverlapOK(ss, ps)
<1>1. /\ DOMAIN ps = DOMAIN qs /\ ps[i] = p
      /\ \A j \in DOMAIN qs \ {i} : ps[j] = qs[j]
  OBVIOUS
<1>2. \A c : Overlapped(c, qs) => Overlapped(c, ps)
  BY <1>1, MarkStays
<1>3. Marked(ps)
  BY <1>1 DEF OverlapOK, Marked
<1>4. OneBackup(ss, ps)
  BY <1>2 DEF OneBackup
<1>5. ASSUME NEW j \in DOMAIN ps PROVE WriterKnows(ps[j], ss, ps)
  <2>1. CASE j = i
    BY <1>1, <2>1
  <2>2. CASE j # i /\ qs[j].cluster = qs[i].cluster
    <3>1. qs[j].next \in Writing => Overlapped(qs[j].cluster, qs)
      BY <1>1, <2>2 DEF OverlapOK, Marked, Overlapped, Running, Writing
    <3> QED  BY <1>1, <1>2, <2>2, <3>1 DEF WriterKnows
  <2>3. CASE j # i /\ qs[j].cluster # qs[i].cluster
    <3>1. WriterKnows(qs[j], rs, qs) /\ ps[j] = qs[j] /\ NoNewBackup(qs[j].cluster, rs, ss)
      BY <1>1, <2>3 DEF OverlapOK
    <3>2. KnowsBackups(qs[j], rs) => KnowsBackups(ps[j], ss)
      BY <3>1, WriterStays DEF SameRequest
    <3> QED  BY <1>2, <3>1, <3>2 DEF WriterKnows
  <2> QED  BY <2>1, <2>2, <2>3
<1> QED  BY <1>3, <1>4, <1>5 DEF OverlapOK

\* Rows that go take their backups with them.
LEMMA RowsGo ==
    ASSUME NEW rs, NEW ss, NEW qs, OneBackup(rs, qs), ss \subseteq rs
    PROVE  OneBackup(ss, qs) /\ \A c : NoNewBackup(c, rs, ss)
  BY DEF OneBackup, NoNewBackup, BackupsOf

\* The rows that an UpdateRouter leaves are those from before.
LEMMA RowsAlike ==
    ASSUME NEW rs, NEW ss, NEW qs, OneBackup(rs, qs),
           \A r \in ss : \E s \in rs : s.id = r.id /\ s.cluster = r.cluster /\ s.role = r.role,
           \A r, s \in ss : r.id = s.id => r = s
    PROVE  OneBackup(ss, qs) /\ \A c : NoNewBackup(c, rs, ss)
<1>1. \A c : NoNewBackup(c, rs, ss)
  BY DEF NoNewBackup, BackupsOf
<1>2. ASSUME NEW r \in ss, NEW s \in ss, r.role = "backup", s.role = "backup",
             r.cluster = s.cluster
      PROVE  r = s \/ Overlapped(r.cluster, qs)
  <2>1. PICK x \in rs : x.id = r.id /\ x.cluster = r.cluster /\ x.role = r.role
    OBVIOUS
  <2>2. PICK y \in rs : y.id = s.id /\ y.cluster = s.cluster /\ y.role = s.role
    OBVIOUS
  <2>3. x = y \/ Overlapped(x.cluster, qs)
    BY <1>2, <2>1, <2>2 DEF OneBackup
  <2> QED  BY <2>1, <2>2, <2>3
<1> QED  BY <1>1, <1>2 DEF OneBackup

\* A request goes to another statement, and its backups stay or go.
LEMMA AdvanceOverlap ==
    ASSUME OverlapInv, NEW i \in DOMAIN requests, NEW next, Advance(i, next),
           routers' \subseteq routers, Running(requests[i]),
           \/ next \notin Writing
           \/ requests[i].next = "insert" /\ next = "routers"
           \/ requests[i].next \in {"get", "rename"} /\ next \in {"rename", "list"}
    PROVE  OverlapOK(routers', requests')
<1> DEFINE q == requests[i]
           p == [q EXCEPT !.next = next]
<1>1. /\ IsRequest(q) /\ requests' = [requests EXCEPT ![i] = p]
      /\ OverlapOK(routers, requests) /\ RequestRolesOK(i, q, clusters, routers, requests)
  BY DEF OverlapInv, RolesInv, StoredOK, RequestsInv, RequestsOK, Advance
<1>2. /\ p.op = q.op /\ p.cluster = q.cluster /\ p.inputs = q.inputs /\ p.overlap = q.overlap
      /\ p.drop = q.drop /\ p.at = q.at /\ p.next = next
  BY <1>1 DEF IsRequest
<1> HIDE DEF p
<1>3. OneBackup(routers', requests) /\ \A c : NoNewBackup(c, routers, routers')
  BY <1>1, RowsGo DEF OverlapOK
<1>4. WriterKnows(p, routers', requests')
  <2> SUFFICES ASSUME next \in Writing
               PROVE  Overlapped(q.cluster, requests') \/ KnowsBackups(p, routers')
    BY <1>2 DEF WriterKnows
  <2>1. q.next \in Writing /\ WriterOK(i, q, clusters, routers, requests)
    BY <1>1 DEF Writing, RequestRolesOK
  <2>2. Overlapped(q.cluster, requests) \/ KnowsBackups(q, routers)
    BY <1>1, <2>1 DEF OverlapOK, WriterKnows
  <2>3. CASE Overlapped(q.cluster, requests)
    <3>1. /\ DOMAIN requests' = DOMAIN requests /\ requests'[i] = p
          /\ \A j \in DOMAIN requests \ {i} : requests'[j] = requests[j]
      BY <1>1
    <3>2. \A c : Overlapped(c, requests) => Overlapped(c, requests')
      BY <1>2, <3>1, MarkStays
    <3> QED  BY <2>3, <3>2
  <2>4. CASE KnowsBackups(q, routers)
    <3>1. CASE q.next = "insert" /\ next = "routers"
      <4>1. q.op = "create" /\ BackupsOf(q.cluster, routers) = {}
        BY <2>1, <2>4, <3>1 DEF WriterOK, KnowsBackups
      <4>2. BackupsOf(q.cluster, routers') = {}
        BY <1>3, <4>1 DEF NoNewBackup
      <4> QED  BY <1>2, <4>1, <4>2 DEF KnowsBackups
    <3>2. CASE q.next \in {"get", "rename"} /\ next \in {"rename", "list"}
      <4>1. q.op = "update"
        BY <2>1, <3>2 DEF WriterOK
      <4> QED  BY <1>2, <3>2, <4>1 DEF KnowsBackups
    <3> QED  BY <3>1, <3>2
  <2> QED  BY <2>2, <2>3, <2>4
<1>5. OneBackup(routers', requests)
  BY <1>3
<1>6. requests' = [requests EXCEPT ![i] = p]
  BY <1>1
<1> QED  BY <1>1, <1>2, <1>3, <1>4, <1>5, <1>6, StatementOverlap

\* ListRoutersByCluster sees every backup there is.
LEMMA ListRoutersOverlap ==
    ASSUME OverlapInv, NEW i \in DOMAIN requests, ListRouters(i)
    PROVE  OverlapOK(routers', requests')
<1> DEFINE q == requests[i]
           drop == {r.id : r \in RoutersOf(q.cluster)} \ {q.inputs[k].id : k \in DOMAIN q.inputs}
           p == [q EXCEPT !.drop = drop, !.next = IF drop = {} THEN "routers" ELSE "drop"]
<1>1. /\ IsRequest(q) /\ q.next = "list" /\ UNCHANGED routers
      /\ requests' = [requests EXCEPT ![i] = p] /\ OverlapOK(routers, requests)
      /\ RequestRolesOK(i, q, clusters, routers, requests)
  BY DEF OverlapInv, RolesInv, StoredOK, RequestsInv, RequestsOK, ListRouters
<1>2. /\ p.op = q.op /\ p.cluster = q.cluster /\ p.inputs = q.inputs /\ p.overlap = q.overlap
      /\ p.drop = drop /\ p.next = IF drop = {} THEN "routers" ELSE "drop"
  BY <1>1 DEF IsRequest
<1> HIDE DEF p
<1>3. q.op = "update" /\ Running(q)
  BY <1>1 DEF RequestRolesOK, WriterOK, Writing, Running
<1>4. ASSUME NEW r \in BackupsOf(p.cluster, routers')
      PROVE  \/ \E k \in DOMAIN p.inputs : p.inputs[k].id = r.id
             \/ p.next = "drop" /\ r.id \in p.drop
  <2>1. r \in RoutersOf(q.cluster)
    BY <1>1, <1>2 DEF BackupsOf, RoutersOf
  <2>2. CASE r.id \in drop
    BY <1>2, <2>2
  <2>3. CASE r.id \notin drop
    BY <1>2, <2>1, <2>3
  <2> QED  BY <2>2, <2>3
<1>5. WriterKnows(p, routers', requests')
  BY <1>2, <1>3, <1>4 DEF WriterKnows, KnowsBackups
<1>6. OneBackup(routers', requests) /\ \A c : NoNewBackup(c, routers, routers')
  BY <1>1, RowsGo DEF OverlapOK
<1>7. requests' = [requests EXCEPT ![i] = p]
  BY <1>1
<1> QED  BY <1>1, <1>2, <1>3, <1>5, <1>6, <1>7, StatementOverlap

\* DeleteRouter.
LEMMA DropRouterOverlap ==
    ASSUME OverlapInv, NEW i \in DOMAIN requests, DropRouter(i)
    PROVE  OverlapOK(routers', requests')
<1> DEFINE q == requests[i]
           p(id) == [q EXCEPT !.drop = @ \ {id},
                              !.next = IF q.drop = {id} THEN "routers" ELSE "drop"]
<1>1. PICK id \in q.drop : requests' = [requests EXCEPT ![i] = p(id)]
                           /\ routers' = {r \in routers : r.id # id}
  BY DEF DropRouter
<1>2. /\ IsRequest(q) /\ q.next = "drop" /\ OverlapOK(routers, requests)
      /\ RequestRolesOK(i, q, clusters, routers, requests)
  BY DEF OverlapInv, RolesInv, StoredOK, RequestsInv, RequestsOK, DropRouter
<1>3. /\ p(id).op = q.op /\ p(id).cluster = q.cluster /\ p(id).inputs = q.inputs
      /\ p(id).overlap = q.overlap /\ p(id).drop = q.drop \ {id}
      /\ p(id).next = IF q.drop = {id} THEN "routers" ELSE "drop"
  BY <1>2 DEF IsRequest
<1> HIDE DEF p
<1>4. q.op = "update" /\ Running(q) /\ q.next \in Writing
  BY <1>2 DEF RequestRolesOK, WriterOK, Writing, Running
<1>5. OneBackup(routers', requests) /\ \A c : NoNewBackup(c, routers, routers')
  BY <1>1, <1>2, RowsGo DEF OverlapOK
<1>6. WriterKnows(p(id), routers', requests')
  <2>1. CASE Overlapped(q.cluster, requests)
    <3>1. /\ DOMAIN requests' = DOMAIN requests /\ requests'[i] = p(id)
          /\ \A j \in DOMAIN requests \ {i} : requests'[j] = requests[j]
      BY <1>1
    <3>2. \A c : Overlapped(c, requests) => Overlapped(c, requests')
      BY <1>3, <3>1, MarkStays
    <3> QED  BY <1>3, <2>1, <3>2 DEF WriterKnows
  <2>2. CASE KnowsBackups(q, routers)
    <3>1. ASSUME NEW r \in BackupsOf(q.cluster, routers')
          PROVE  \/ \E k \in DOMAIN q.inputs : q.inputs[k].id = r.id
                 \/ p(id).next = "drop" /\ r.id \in q.drop \ {id}
      <4>1. r \in BackupsOf(q.cluster, routers) /\ r.id # id
        BY <1>1 DEF BackupsOf
      <4>2. (\E k \in DOMAIN q.inputs : q.inputs[k].id = r.id) \/ r.id \in q.drop
        BY <1>2, <1>4, <2>2, <4>1 DEF KnowsBackups
      <4> QED  BY <1>3, <4>1, <4>2
    <3> QED  BY <1>3, <1>4, <3>1 DEF WriterKnows, KnowsBackups
  <2> QED  BY <1>2, <1>4, <2>1, <2>2 DEF OverlapOK, WriterKnows
<1>7. requests' = [requests EXCEPT ![i] = p(id)]
  BY <1>1
<1> QED  BY <1>2, <1>3, <1>4, <1>5, <1>6, <1>7, StatementOverlap

\* UpdateRouter adds no row.
LEMMA UpdateRouterOverlap ==
    ASSUME OverlapInv, NEW i \in DOMAIN requests, UpdateRouter(i)
    PROVE  OverlapOK(routers', requests')
<1> DEFINE q == requests[i]
<1>1. /\ RequestsInv /\ StoredOK(clusters, routers, requests) /\ OverlapOK(routers, requests)
      /\ q.next = "routers" /\ q.inputs[q.at].id # NewRouter /\ NextInput(i)
  BY DEF OverlapInv, RolesInv, UpdateRouter
<1>2. PICK p : /\ requests' = [requests EXCEPT ![i] = p]
               /\ p.op = q.op /\ p.cluster = q.cluster /\ p.inputs = q.inputs
               /\ p.drop = q.drop /\ p.overlap = q.overlap /\ p.next \in {"read", "routers"}
  BY <1>1, NextInputRequest
<1>3. q.op = "update" /\ Running(q) /\ q.next \in Writing
  BY <1>1, AtOneOrTwo DEF WriterOK, InputRolesOK, Running, Writing
<1>4. /\ \A r \in routers' : \E s \in routers :
            s.id = r.id /\ s.cluster = r.cluster /\ s.role = r.role
      /\ \A r, s \in routers' : r.id = s.id => r = s
  BY <1>1, UpdateRouterRows
<1>5. OneBackup(routers', requests) /\ \A c : NoNewBackup(c, routers, routers')
  <2>1. OneBackup(routers, requests)
    BY <1>1 DEF OverlapOK
  <2> QED  BY <1>4, <2>1, RowsAlike
<1>6. WriterKnows(p, routers', requests')
  <2>1. CASE Overlapped(q.cluster, requests)
    <3>1. /\ DOMAIN requests' = DOMAIN requests /\ requests'[i] = p
          /\ \A j \in DOMAIN requests \ {i} : requests'[j] = requests[j]
      BY <1>2
    <3>2. \A c : Overlapped(c, requests) => Overlapped(c, requests')
      BY <1>2, <3>1, MarkStays
    <3> QED  BY <1>2, <2>1, <3>2 DEF WriterKnows
  <2>2. CASE KnowsBackups(q, routers)
    <3>1. ASSUME NEW r \in BackupsOf(q.cluster, routers')
          PROVE  \E k \in DOMAIN q.inputs : q.inputs[k].id = r.id
      <4>1. PICK s \in BackupsOf(q.cluster, routers) : s.id = r.id
        BY <1>5 DEF NoNewBackup
      <4> QED  BY <1>1, <1>3, <2>2, <4>1 DEF KnowsBackups
    <3> QED  BY <1>2, <1>3, <3>1 DEF WriterKnows, KnowsBackups
  <2> QED  BY <1>1, <1>3, <2>1, <2>2 DEF OverlapOK, WriterKnows
<1>7. requests' = [requests EXCEPT ![i] = p]
  BY <1>2
<1> QED  BY <1>1, <1>2, <1>3, <1>5, <1>6, <1>7, StatementOverlap

\* CreateRouter adds the backup when its cluster has none, unless another
\* request for the cluster ran meanwhile.
LEMMA InsertRouterOverlap ==
    ASSUME OverlapInv, NEW i \in DOMAIN requests, InsertRouter(i)
    PROVE  OverlapOK(routers', requests')
<1> DEFINE q == requests[i]
           input == q.inputs[q.at]
           row == [id |-> <<i, q.at>>, cluster |-> q.cluster, name |-> input.name,
                   host |-> input.host, role |-> input.role, cred |-> input.cred]
<1>1. /\ RequestsInv /\ StoredOK(clusters, routers, requests) /\ OverlapOK(routers, requests)
      /\ q.next = "routers" /\ input.id = NewRouter /\ NextInput(i)
      /\ routers' = routers \cup {row}
  BY DEF OverlapInv, RolesInv, InsertRouter
<1>2. row.id = <<i, q.at>> /\ row.cluster = q.cluster /\ row.role = input.role
  OBVIOUS
<1>3. PICK p : /\ requests' = [requests EXCEPT ![i] = p]
               /\ p.op = q.op /\ p.cluster = q.cluster /\ p.inputs = q.inputs
               /\ p.drop = q.drop /\ p.overlap = q.overlap /\ p.at = q.at + 1
               /\ p.next = IF q.at = Len(q.inputs) THEN "read" ELSE "routers"
  BY <1>1, NextInputRequest
<1> HIDE DEF row
<1>4. /\ WriterOK(i, q, clusters, routers, requests)
      /\ q.at \in DOMAIN q.inputs /\ q.at \in Nat
      /\ q.at = 1 \/ (q.at = 2 /\ Len(q.inputs) = 2)
  BY <1>1, AtOneOrTwo
<1>5. Running(q) /\ q.next \in Writing /\ (q.op = "create" \/ q.op = "update")
  BY <1>1, <1>4 DEF Running, Writing, WriterOK
<1>6. DOMAIN requests \subseteq Nat
  BY <1>1 DEF RequestsInv, IsSequence
<1>7. \A id : BackupID(id, requests) => id # NewRouter
  BY <1>6, NewRouterAssumption DEF BackupID
<1>8. q.op = "update" => q.at = 2
  <2> SUFFICES ASSUME q.op = "update", q.at = 1 PROVE FALSE
    BY <1>4
  <2>1. NewRouter = <<q.cluster, 1>> /\ q.cluster \in DOMAIN requests
    BY <1>1, <1>4 DEF WriterOK, InputRolesOK, Established
  <2> QED  BY <1>6, <2>1, NewRouterAssumption
<1>9. q.at = 1 => row.role = "master"
  BY <1>2, <1>4 DEF WriterOK, InputRolesOK
<1>10. KnowsBackups(q, routers) => BackupsOf(q.cluster, routers) = {}
  <2>1. CASE q.op = "create"
    BY <1>1, <1>4, <2>1 DEF KnowsBackups
  <2>2. ASSUME q.op = "update", KnowsBackups(q, routers), NEW r \in BackupsOf(q.cluster, routers)
        PROVE  FALSE
    <3>1. PICK k \in DOMAIN q.inputs : q.inputs[k].id = r.id
      BY <1>1, <2>2 DEF KnowsBackups
    <3>2. k = 1 \/ k = 2
      <4>1. DOMAIN q.inputs = 1..Len(q.inputs) /\ q.at = 2 /\ Len(q.inputs) = 2
        BY <1>1, <1>4, <1>8, <2>2, NextInputRequest
      <4> QED  BY <3>1, <4>1
    <3>3. q.inputs[2].id = NewRouter
      BY <1>1, <1>8, <2>2
    <3>4. q.inputs[1].id = <<q.cluster, 1>>
      BY <1>4, <2>2 DEF WriterOK, InputRolesOK
    <3>5. BackupID(r.id, requests)
      BY <1>1 DEF StoredOK, RowRolesOK, RoleFits, BackupsOf
    <3>6. r.id # <<q.cluster, 1>>
      BY <3>5 DEF BackupID
    <3> QED  BY <1>7, <3>1, <3>2, <3>3, <3>4, <3>5, <3>6
  <2> QED  BY <1>5, <2>1, <2>2
<1>11. ASSUME NEW c, c # q.cluster PROVE NoNewBackup(c, routers, routers')
  BY <1>1, <1>2, <1>11 DEF NoNewBackup, BackupsOf
<1>12. Overlapped(q.cluster, requests) \/ BackupsOf(q.cluster, routers) = {}
  BY <1>1, <1>5, <1>10 DEF OverlapOK, WriterKnows
<1>13. ASSUME NEW r \in routers', NEW s \in routers', r.role = "backup", s.role = "backup",
              r.cluster = s.cluster
       PROVE  r = s \/ Overlapped(r.cluster, requests)
  <2>1. CASE r \in routers /\ s \in routers
    BY <1>1, <1>13, <2>1 DEF OverlapOK, OneBackup
  <2>2. CASE r = row /\ s \in routers
    BY <1>2, <1>12, <1>13, <2>2 DEF BackupsOf
  <2>3. CASE r \in routers /\ s = row
    BY <1>2, <1>12, <1>13, <2>3 DEF BackupsOf
  <2>4. CASE r = row /\ s = row
    BY <2>4
  <2> QED  BY <1>1, <2>1, <2>2, <2>3, <2>4
<1>14. WriterKnows(p, routers', requests')
  <2>1. CASE Overlapped(q.cluster, requests)
    <3>1. /\ DOMAIN requests' = DOMAIN requests /\ requests'[i] = p
          /\ \A j \in DOMAIN requests \ {i} : requests'[j] = requests[j]
      BY <1>3
    <3>2. \A c : Overlapped(c, requests) => Overlapped(c, requests')
      BY <1>3, <3>1, MarkStays
    <3> QED  BY <1>3, <2>1, <3>2 DEF WriterKnows
  <2>2. CASE q.at = 1 /\ BackupsOf(q.cluster, routers) = {}
    <3>1. BackupsOf(q.cluster, routers') = {}
      BY <1>1, <1>9, <2>2 DEF BackupsOf
    <3>2. p.op = "create"
      BY <1>3, <1>5, <1>8, <2>2
    <3> QED  BY <1>3, <3>1, <3>2 DEF WriterKnows, KnowsBackups
  <2>3. CASE q.at = 2
    <3>1. p.next = "read"
      BY <1>3, <1>4, <2>3
    <3> QED  BY <3>1 DEF WriterKnows, Writing
  <2> QED  BY <1>4, <1>12, <2>1, <2>2, <2>3
<1>15. requests' = [requests EXCEPT ![i] = p]
  BY <1>3
<1>16. OneBackup(routers', requests)
  BY <1>13 DEF OneBackup
<1> QED  BY <1>1, <1>3, <1>5, <1>11, <1>14, <1>15, <1>16, StatementOverlap

\* Every statement of a request.
LEMMA ServeOverlap ==
    ASSUME OverlapInv, NEW i \in DOMAIN requests, ServeStep(i)
    PROVE  OverlapOK(routers', requests')
<1>1. CASE InsertCluster(i) \/ GetCluster(i) \/ RenameCluster(i)
  BY <1>1, AdvanceOverlap DEF InsertCluster, GetCluster, RenameCluster, Running
<1>2. CASE ReadBack(i) \/ DeleteCluster(i) \/ StatementFails(i)
  BY <1>2, AdvanceOverlap DEF ReadBack, DeleteCluster, StatementFails, Running, Writing
<1>3. CASE ListRouters(i)
  BY <1>3, ListRoutersOverlap
<1>4. CASE DropRouter(i)
  BY <1>4, DropRouterOverlap
<1>5. CASE InsertRouter(i)
  BY <1>5, InsertRouterOverlap
<1>6. CASE UpdateRouter(i)
  BY <1>6, UpdateRouterOverlap
<1> QED  BY <1>1, <1>2, <1>3, <1>4, <1>5, <1>6 DEF ServeStep

\* A request that arrives while another for its cluster runs marks both.
LEMMA ArriveOverlap ==
    ASSUME OverlapInv, NEW op, NEW by, NEW c, NEW name, NEW inputs,
           Arrive(op, by, c, name, inputs), UNCHANGED routers
    PROVE  OverlapOK(routers', requests')
<1> DEFINE cluster == IF op = "create" THEN Len(requests) + 1 ELSE c
           old == [j \in DOMAIN requests |->
                     IF Running(requests[j]) /\ requests[j].cluster = cluster
                     THEN [requests[j] EXCEPT !.overlap = TRUE] ELSE requests[j]]
           q == Request(op, by, cluster, name, inputs)
           i == Len(requests) + 1
<1>1. /\ requests' = Append(old, q) /\ RequestsInv /\ RowRolesOK(routers, requests)
      /\ OverlapOK(routers, requests)
  BY DEF Arrive, OverlapInv, RolesInv, StoredOK
<1>2. /\ DOMAIN requests = 1..Len(requests) /\ Len(requests) \in Nat
      /\ IsSequence(old) /\ DOMAIN old = DOMAIN requests /\ Len(old) = Len(requests)
  <2>1. DOMAIN requests = 1..Len(requests) /\ Len(requests) \in Nat
    BY <1>1 DEF RequestsInv, IsSequence
  <2>2. DOMAIN old = DOMAIN requests
    OBVIOUS
  <2>3. IsSequence(old) /\ Len(old) = Len(requests)
    <3>1. old = [j \in 1..Len(requests) |-> old[j]]
      BY <2>1
    <3> HIDE DEF old
    <3> QED  BY <2>1, <3>1, FunctionIsSequence
  <2> QED  BY <2>1, <2>2, <2>3
<1>3. ASSUME NEW j \in DOMAIN requests
      PROVE  /\ SameRequest(old[j], requests[j])
             /\ requests[j].overlap => old[j].overlap
             /\ Running(requests[j]) /\ requests[j].cluster = cluster => old[j].overlap
  <2>1. IsRequest(requests[j])
    BY <1>1 DEF RequestsInv, RequestsOK
  <2> QED  BY <2>1 DEF SameRequest, IsRequest
<1>4. /\ q.op = op /\ q.cluster = cluster
      /\ q.next \in {"insert", "get", "delete", "error"}
      /\ q.next = "insert" => op = "create"
      /\ q.next = "get" => op = "update"
      /\ \A j \in DOMAIN requests :
            Running(requests[j]) /\ requests[j].cluster = cluster => q.overlap
  BY DEF Request
<1> HIDE DEF old, q
<1>5. /\ DOMAIN requests' = DOMAIN requests \cup {i} /\ i \notin DOMAIN requests
      /\ \A j \in DOMAIN requests : requests'[j] = old[j]
      /\ requests'[i] = q
  BY <1>1, <1>2, AppendToSequence
<1>6. ASSUME NEW j \in DOMAIN requests
      PROVE  /\ SameRequest(requests'[j], requests[j])
             /\ requests[j].overlap => requests'[j].overlap
             /\ Running(requests[j]) /\ requests[j].cluster = cluster => requests'[j].overlap
             /\ Running(requests'[j]) => Running(requests[j])
             /\ requests'[j].cluster = requests[j].cluster
  BY <1>3, <1>5 DEF SameRequest, Running
<1>7. \A x : Overlapped(x, requests) => Overlapped(x, requests')
  BY <1>5, <1>6, MarkStays
<1>8. Marked(requests')
  <2> SUFFICES ASSUME NEW j \in DOMAIN requests', NEW k \in DOMAIN requests', j # k,
                      Running(requests'[j]), Running(requests'[k]),
                      requests'[j].cluster = requests'[k].cluster
               PROVE  requests'[j].overlap
    BY DEF Marked
  <2>1. CASE j \in DOMAIN requests /\ k \in DOMAIN requests
    BY <1>1, <1>6, <2>1 DEF OverlapOK, Marked
  <2>2. CASE j \in DOMAIN requests /\ k = i
    BY <1>4, <1>5, <1>6, <2>2
  <2>3. CASE j = i /\ k \in DOMAIN requests
    BY <1>4, <1>5, <1>6, <2>3
  <2> QED  BY <1>5, <2>1, <2>2, <2>3
<1>9. OneBackup(routers', requests')
  BY <1>1, <1>7 DEF OverlapOK, OneBackup
<1>10. ASSUME NEW j \in DOMAIN requests' PROVE WriterKnows(requests'[j], routers', requests')
  <2>1. CASE j \in DOMAIN requests
    <3>1. WriterKnows(requests[j], routers, requests)
      BY <1>1, <2>1 DEF OverlapOK
    <3>2. NoNewBackup(requests[j].cluster, routers, routers')
      BY DEF NoNewBackup
    <3>3. KnowsBackups(requests[j], routers) => KnowsBackups(requests'[j], routers')
      BY <1>6, <2>1, <3>2, WriterStays
    <3> QED  BY <1>6, <1>7, <2>1, <3>1, <3>3 DEF WriterKnows, SameRequest
  <2>2. CASE j = i
    <3>1. CASE q.next = "insert"
      <4>1. q.cluster = i
        BY <1>4, <3>1
      <4>2. ASSUME NEW r \in routers, r.cluster = i PROVE FALSE
        <5>1. PICK s \in routers : s.cluster = i /\ s.id = <<i, 1>>
          BY <1>1, <4>2 DEF RowRolesOK, HasMaster
        <5>2. i \in DOMAIN requests
          BY <1>1, <5>1 DEF RowRolesOK, RoleFits, BackupID
        <5> QED  BY <1>5, <5>2
      <4>3. BackupsOf(q.cluster, routers') = {}
        BY <4>1, <4>2 DEF BackupsOf
      <4> QED  BY <1>4, <1>5, <2>2, <3>1, <4>3 DEF WriterKnows, KnowsBackups
    <3>2. CASE q.next # "insert"
      BY <1>4, <1>5, <2>2, <3>2 DEF WriterKnows, KnowsBackups, Writing
    <3> QED  BY <3>1, <3>2
  <2> QED  BY <1>5, <2>1, <2>2
<1> QED  BY <1>8, <1>9, <1>10 DEF OverlapOK

\* A step that leaves the routers and the requests, or only notes an answer.
LEMMA QuietOverlap ==
    ASSUME OverlapInv, UNCHANGED routers,
           UNCHANGED requests \/ \E i \in DOMAIN requests : Answer(i)
    PROVE  OverlapOK(routers', requests')
<1>1. OverlapOK(routers, requests) /\ RequestsInv
  BY DEF OverlapInv, RolesInv
<1>2. CASE UNCHANGED requests
  BY <1>1, <1>2
<1>3. ASSUME NEW i \in DOMAIN requests, Answer(i) PROVE OverlapOK(routers', requests')
  <2>1. PICK by : requests' = [requests EXCEPT ![i].by = by]
    BY <1>3 DEF Answer
  <2>2. DOMAIN requests' = DOMAIN requests
    BY <2>1
  <2>3. ASSUME NEW j \in DOMAIN requests
        PROVE  SameRequest(requests'[j], requests[j]) /\ requests'[j].overlap = requests[j].overlap
    <3>1. IsRequest(requests[j])
      BY <1>1 DEF RequestsInv, RequestsOK
    <3> QED  BY <2>1, <3>1 DEF SameRequest, IsRequest
  <2>4. \A x : Overlapped(x, requests) => Overlapped(x, requests')
    BY <2>2, <2>3, MarkStays DEF SameRequest
  <2>5. Marked(requests')
    BY <1>1, <2>2, <2>3 DEF OverlapOK, Marked, SameRequest, Running
  <2>6. OneBackup(routers', requests')
    BY <1>1, <2>4 DEF OverlapOK, OneBackup
  <2>7. ASSUME NEW j \in DOMAIN requests PROVE WriterKnows(requests'[j], routers', requests')
    <3>1. WriterKnows(requests[j], routers, requests)
      BY <1>1 DEF OverlapOK
    <3>2. NoNewBackup(requests[j].cluster, routers, routers')
      BY DEF NoNewBackup
    <3>3. KnowsBackups(requests[j], routers) => KnowsBackups(requests'[j], routers')
      BY <2>3, <3>2, WriterStays
    <3> QED  BY <2>3, <2>4, <3>1, <3>3 DEF WriterKnows, SameRequest
  <2> QED  BY <2>2, <2>5, <2>6, <2>7 DEF OverlapOK
<1> QED  BY <1>2, <1>3

\* Every step keeps the invariant.
LEMMA NextOverlap ==
    ASSUME OverlapInv, [Next]_vars
    PROVE  OverlapInv'
<1> SUFFICES OverlapOK(routers', requests')
  BY NextRoles DEF OverlapInv
<1>1. CASE HandleSubmit
  <2>1. UNCHANGED routers
    BY <1>1 DEF HandleSubmit
  <2>2. CASE Arrive("update", "drawer", drawer.edit.id, drawer.name, Payload(drawer))
    BY <2>1, <2>2, ArriveOverlap
  <2>3. CASE Arrive("create", "drawer", 0, drawer.name, Payload(drawer))
    BY <2>1, <2>3, ArriveOverlap
  <2> QED  BY <1>1, <2>2, <2>3 DEF HandleSubmit
<1>2. CASE HandleDelete
  BY <1>2, ArriveOverlap DEF HandleDelete
<1>3. CASE HandleDeleteConfirm
  <2>1. PICK by, c : IF c = None THEN UNCHANGED requests
                     ELSE Arrive("delete", by, c.id, c.name, <<>>)
    BY <1>3 DEF HandleDeleteConfirm
  <2>2. UNCHANGED routers
    BY <1>3 DEF HandleDeleteConfirm
  <2>3. CASE Arrive("delete", by, c.id, c.name, <<>>)
    BY <2>2, <2>3, ArriveOverlap
  <2>4. CASE UNCHANGED requests
    BY <2>2, <2>4, QuietOverlap
  <2> QED  BY <2>1, <2>3, <2>4
<1>4. CASE OtherRequest
  <2>1. UNCHANGED routers
    BY <1>4 DEF OtherRequest
  <2>2. ASSUME NEW name, NEW inputs, Arrive("update", "other", seen.id, name, inputs)
        PROVE  OverlapOK(routers', requests')
    BY <2>1, <2>2, ArriveOverlap
  <2>3. CASE Arrive("delete", "other", seen.id, seen.name, <<>>)
    BY <2>1, <2>3, ArriveOverlap
  <2> QED  BY <1>4, <2>2, <2>3 DEF OtherRequest
<1>5. CASE \E i \in DOMAIN requests : Answer(i)
  BY <1>5, QuietOverlap DEF Answer
<1>6. CASE Serve
  BY <1>6, ServeOverlap DEF Serve
<1>7. CASE \/ ClusterNameStep \/ PrimaryRouterStep \/ SecondaryRouterStep \/ HandleNext
           \/ HandleBack \/ (\E p \in Positions : HandleTest(p)) \/ HandleClose \/ ConfirmInDrawer
           \/ FetchRouters \/ FetchClusters \/ HandleAdd \/ GroupRows \/ RouterDetail
           \/ CancelDelete \/ OtherLoads \/ (\E p \in Positions : TestAnswers(p))
           \/ UNCHANGED vars
  <2>1. UNCHANGED <<routers, requests>>
    BY <1>7 DEF ClusterNameStep, PrimaryRouterStep, SecondaryRouterStep, HandleNext, HandleBack,
                HandleTest, HandleClose, ConfirmInDrawer, RouterStep, Typed, FetchRouters,
                FetchClusters, HandleAdd, GroupRows, GroupRow, RouterRow, RouterDetail,
                CancelDelete, OtherLoads, TestAnswers, HandleEdit, AskDelete, ShowDetail,
                serviceVars, vars
  <2> QED  BY <2>1, QuietOverlap
<1> QED  BY <1>1, <1>2, <1>3, <1>4, <1>5, <1>6, <1>7 DEF Next, ClusterDrawer

\* There is nothing at first.
LEMMA InitOverlap == Init => OverlapInv
  BY InitRoles DEF Init, InitPage, OverlapInv, OverlapOK, Marked, OneBackup

\* At most one element.
LEMMA AtMostOne ==
    ASSUME NEW S, \A r, s \in S : r = s
    PROVE  Cardinality(S) <= 1
<1>1. CASE S = {}
  BY <1>1, FS_EmptySet
<1>2. CASE S # {}
  <2>1. PICK r \in S : S = {r}
    BY <1>2
  <2> QED  BY <2>1, FS_Singleton
<1> QED  BY <1>1, <1>2

\* A cluster has at most one master and one backup, and a master if it has a
\* router, unless two requests for it overlapped, for any number of requests
\* of stale pages that fail at any statement (service.go, Update, which
\* deletes the routers that ListRoutersByCluster found and the request does
\* not name).
THEOREM RolesHold == Spec => []RolesUnlessOverlap
<1>1. OverlapInv => RolesUnlessOverlap
  <2> SUFFICES ASSUME OverlapInv, NEW c \in clusters, ~Overlapped(c.id, requests)
               PROVE  LET of(role) == {r \in RoutersOf(c.id) : r.role = role}
                      IN  /\ Cardinality(of("master")) <= 1 /\ Cardinality(of("backup")) <= 1
                          /\ RoutersOf(c.id) # {} => of("master") # {}
    BY DEF RolesUnlessOverlap, Overlapped
  <2> DEFINE of(role) == {r \in RoutersOf(c.id) : r.role = role}
  <2>1. /\ RowRolesOK(routers, requests) /\ OneBackup(routers, requests)
    BY DEF OverlapInv, RolesInv, StoredOK, OverlapOK
  <2>2. \A r, s \in of("master") : r = s
    BY <2>1 DEF RowRolesOK, RoleFits, RoutersOf
  <2>3. \A r, s \in of("backup") : r = s
    BY <2>1 DEF OneBackup, RoutersOf
  <2>4. ASSUME RoutersOf(c.id) # {} PROVE of("master") # {}
    <3>1. PICK m \in routers : m.cluster = c.id /\ m.id = <<c.id, 1>>
      BY <2>1, <2>4 DEF RowRolesOK, HasMaster, RoutersOf
    <3>2. \A j : <<j, 2>> # <<c.id, 1>>
      OBVIOUS
    <3>3. m.role = "master"
      BY <2>1, <3>1, <3>2 DEF RowRolesOK, RoleFits, BackupID
    <3> QED  BY <3>1, <3>3 DEF RoutersOf
  <2> HIDE DEF of
  <2>5. Cardinality(of("master")) <= 1 /\ Cardinality(of("backup")) <= 1
    BY <2>2, <2>3, AtMostOne
  <2> QED  BY <2>4, <2>5 DEF of
<1> QED  BY <1>1, InitOverlap, NextOverlap, PTL DEF Spec

-----------------------------------------------------------------------------
(* Types. The tables have their keys; what a form was validated for is     *)
(* what its request stores.                                                *)

TablesOK(cs, rs) ==
    /\ \A c \in cs : c.name \in Names
    /\ \A c, d \in cs : c # d => c.id # d.id /\ c.name # d.name
    /\ \A r \in rs : ClusterExists(r.cluster, cs) /\ r.host \in Hosts
    /\ \A r, s \in rs : r.id # s.id => r.name # s.name /\ r.host # s.host
WritesValid(q) ==
    q.next \in Writing =>
      q.name \in Names /\ \A k \in DOMAIN q.inputs : q.inputs[k].host \in Hosts
RequestsValid == \A i \in DOMAIN requests : WritesValid(requests[i])

\* A statement leaves the texts of its request alone.
LEMMA StatementValid ==
    ASSUME RequestsValid, NEW i \in DOMAIN requests, NEW p, requests' = [requests EXCEPT ![i] = p],
           p.name = requests[i].name, p.inputs = requests[i].inputs,
           p.next \in Writing => requests[i].next \in Writing
    PROVE  RequestsValid'
<1>1. DOMAIN requests' = DOMAIN requests /\ requests'[i] = p
      /\ \A j \in DOMAIN requests \ {i} : requests'[j] = requests[j]
  OBVIOUS
<1>2. WritesValid(p)
  BY DEF RequestsValid, WritesValid
<1> QED  BY <1>1, <1>2 DEF RequestsValid, WritesValid

\* A statement that only moves its request on.
LEMMA AdvanceValid ==
    ASSUME RequestsInv, RequestsValid, NEW i \in DOMAIN requests, NEW next, Advance(i, next),
           next \in Writing => requests[i].next \in Writing
    PROVE  RequestsValid'
<1>1. PICK q, p : q = requests[i] /\ p = [q EXCEPT !.next = next]
  OBVIOUS
<1>2. IsRequest(q)
  BY <1>1 DEF RequestsInv, RequestsOK
<1>3. p.name = q.name /\ p.inputs = q.inputs /\ p.next = next
  BY <1>1, <1>2 DEF IsRequest
<1>4. requests' = [requests EXCEPT ![i] = p]
  BY <1>1 DEF Advance
<1> QED  BY <1>1, <1>3, <1>4, StatementValid

\* Every statement.
LEMMA ServeValid ==
    ASSUME RequestsInv, RequestsValid, NEW i \in DOMAIN requests, ServeStep(i)
    PROVE  RequestsValid'
<1>1. PICK q : q = requests[i]
  OBVIOUS
<1>2. IsRequest(q)
  BY <1>1 DEF RequestsInv, RequestsOK
<1>3. ASSUME q.next \in Writing, NEW drop, NEW next,
             requests' = [requests EXCEPT ![i] = [q EXCEPT !.drop = drop, !.next = next]]
      PROVE  RequestsValid'
  <2>1. PICK p : p = [q EXCEPT !.drop = drop, !.next = next]
    OBVIOUS
  <2>2. p.name = q.name /\ p.inputs = q.inputs
    BY <1>2, <2>1 DEF IsRequest
  <2> QED  BY <1>1, <1>3, <2>1, <2>2, StatementValid
<1>4. ASSUME q.next \in Writing, NextInput(i) PROVE RequestsValid'
  <2>1. PICK p, next : p = [q EXCEPT !.at = @ + 1, !.next = next]
                       /\ requests' = [requests EXCEPT ![i] = p]
    BY <1>1, <1>4 DEF NextInput
  <2>2. p.name = q.name /\ p.inputs = q.inputs
    BY <1>2, <2>1 DEF IsRequest
  <2> QED  BY <1>1, <1>4, <2>1, <2>2, StatementValid
<1>5. CASE InsertCluster(i)
  BY <1>5, AdvanceValid DEF InsertCluster, Writing
<1>6. CASE GetCluster(i)
  BY <1>6, AdvanceValid DEF GetCluster, Writing
<1>7. CASE RenameCluster(i)
  BY <1>7, AdvanceValid DEF RenameCluster, Writing
<1>8. CASE ListRouters(i)
  BY <1>1, <1>3, <1>8 DEF ListRouters, Writing
<1>9. CASE DropRouter(i)
  <2>1. q.next \in Writing
    BY <1>1, <1>9 DEF DropRouter, Writing
  <2>2. PICK id : requests' = [requests EXCEPT ![i].drop = @ \ {id},
                                 ![i].next = IF q.drop = {id} THEN "routers" ELSE "drop"]
    BY <1>1, <1>9 DEF DropRouter
  <2>3. PICK drop, next : /\ drop = q.drop \ {id}
                          /\ next = IF q.drop = {id} THEN "routers" ELSE "drop"
    OBVIOUS
  <2>4. requests' = [requests EXCEPT ![i] = [q EXCEPT !.drop = drop, !.next = next]]
    BY <1>1, <2>2, <2>3
  <2> QED  BY <1>3, <2>1, <2>4
<1>10. CASE InsertRouter(i) \/ UpdateRouter(i)
  BY <1>1, <1>4, <1>10 DEF InsertRouter, UpdateRouter, Writing
<1>11. CASE ReadBack(i)
  BY <1>11, AdvanceValid DEF ReadBack, Writing
<1>12. CASE DeleteCluster(i)
  BY <1>12, AdvanceValid DEF DeleteCluster, Writing
<1>13. CASE StatementFails(i)
  BY <1>13, AdvanceValid DEF StatementFails, Writing
<1> QED
  BY <1>5, <1>6, <1>7, <1>8, <1>9, <1>10, <1>11, <1>12, <1>13 DEF ServeStep

\* The keys of the tables hold whatever a statement writes.
LEMMA InsertClusterTables ==
    ASSUME StoredOK(clusters, routers, requests), TablesOK(clusters, routers), RequestsValid,
           NEW i \in DOMAIN requests, InsertCluster(i)
    PROVE  TablesOK(clusters', routers')
<1>1. PICK row : row = [id |-> i, name |-> requests[i].name]
  OBVIOUS
<1>2. /\ requests[i].next = "insert" /\ routers' = routers
      /\ clusters' = clusters \cup {row} /\ NameFree(row.name, i)
  BY <1>1 DEF InsertCluster
<1>3. row.id = i /\ row.name \in Names
  BY <1>1, <1>2 DEF RequestsValid, WritesValid, Writing
<1>4. \A c \in clusters : c.id # i
  BY <1>2 DEF StoredOK, ClusterRowOK, ClusterOK
<1>5. \A c \in clusters : c.id # row.id /\ c.name # row.name
  BY <1>2, <1>3, <1>4 DEF NameFree
<1>6. \A c : ClusterExists(c, clusters) => ClusterExists(c, clusters')
  BY <1>2 DEF ClusterExists
<1> QED  BY <1>2, <1>3, <1>5, <1>6 DEF TablesOK

\* A cluster takes a name no other has.
LEMMA RenameClusterTables ==
    ASSUME StoredOK(clusters, routers, requests), TablesOK(clusters, routers), RequestsValid,
           NEW i \in DOMAIN requests, RenameCluster(i)
    PROVE  TablesOK(clusters', routers')
<1>1. PICK x, name : x = requests[i].cluster /\ name = requests[i].name
  OBVIOUS
<1> DEFINE New(c) == IF c.id = x THEN [c EXCEPT !.name = name] ELSE c
<1>2. /\ routers' = routers /\ clusters' = {New(c) : c \in clusters}
      /\ NameFree(name, x) /\ requests[i].next = "rename"
  BY <1>1 DEF RenameCluster
<1>3. name \in Names
  BY <1>1, <1>2 DEF RequestsValid, WritesValid, Writing
<1>4. ASSUME NEW c \in clusters
      PROVE  New(c).id = c.id /\ New(c).name = IF c.id = x THEN name ELSE c.name
  <2>1. DOMAIN c = {"id", "name"}
    BY DEF StoredOK, ClusterRowOK
  <2> QED  BY <2>1
<1> HIDE DEF New
<1>5. \A d \in clusters' : d.name \in Names
  BY <1>2, <1>3, <1>4 DEF TablesOK
<1>6. \A c, d \in clusters : New(c) # New(d) => New(c).id # New(d).id /\ New(c).name # New(d).name
  BY <1>2, <1>4 DEF TablesOK, NameFree
<1>7. \A c \in clusters' : \A d \in clusters' : c # d => c.id # d.id /\ c.name # d.name
  BY <1>2, <1>6
<1>8. \A c : ClusterExists(c, clusters) => ClusterExists(c, clusters')
  BY <1>2, <1>4 DEF ClusterExists
<1> QED  BY <1>2, <1>5, <1>7, <1>8 DEF TablesOK

\* A new router has an ID, a name and an address no other has.
LEMMA InsertRouterTables ==
    ASSUME IsSequence(requests), RequestsOK, StoredOK(clusters, routers, requests),
           TablesOK(clusters, routers), RequestsValid,
           NEW i \in DOMAIN requests, InsertRouter(i)
    PROVE  TablesOK(clusters', routers')
<1>1. PICK q, input : q = requests[i] /\ input = q.inputs[q.at]
  OBVIOUS
<1>2. PICK row : row = [id |-> <<i, q.at>>, cluster |-> q.cluster, name |-> input.name,
                        host |-> input.host, role |-> input.role, cred |-> input.cred]
  OBVIOUS
<1>3. /\ routers' = routers \cup {row} /\ clusters' = clusters /\ q.next = "routers"
      /\ RouterFits(input, NewRouter) /\ ClusterExists(q.cluster, clusters)
  BY <1>1, <1>2 DEF InsertRouter, ClusterExists
<1>4. q.at \in DOMAIN q.inputs
  BY <1>1, <1>3 DEF RequestsOK, SoundInputs, Writing
<1>5. row.cluster = q.cluster /\ row.host \in Hosts /\ row.host = input.host /\ row.name = input.name
  BY <1>1, <1>2, <1>3, <1>4 DEF RequestsValid, WritesValid, Writing
<1>6. ASSUME NEW r \in routers PROVE r.id # NewRouter
  <2>1. DOMAIN requests \subseteq Nat
    BY DEF IsSequence
  <2>2. r.id \in Nat \X {1, 2}
    <3>1. RoleFits(r.id, r.role, r.cluster, requests)
      BY DEF StoredOK, RowRolesOK
    <3>2. PICK j \in DOMAIN requests : r.id = <<j, 1>> \/ r.id = <<j, 2>>
      BY <3>1 DEF RoleFits, BackupID
    <3> QED  BY <2>1, <3>2
  <2> QED  BY <2>2, NewRouterAssumption
<1>7. \A r \in routers : r.name # row.name /\ r.host # row.host
  BY <1>3, <1>5, <1>6 DEF RouterFits
<1> QED  BY <1>3, <1>5, <1>7 DEF TablesOK

\* A router takes a name and an address no other has.
LEMMA UpdateRouterTables ==
    ASSUME RequestsOK, RowsOK, StoredOK(clusters, routers, requests),
           TablesOK(clusters, routers), RequestsValid,
           NEW i \in DOMAIN requests, UpdateRouter(i)
    PROVE  TablesOK(clusters', routers')
<1> DEFINE q == requests[i]
           input == q.inputs[q.at]
           New(r) == IF r.id = input.id
                     THEN [r EXCEPT !.name = input.name, !.host = input.host, !.role = input.role,
                                    !.cred = IF input.cred \in {"password", "both"}
                                              THEN input.cred ELSE @]
                     ELSE r
<1>1. q = requests[i] /\ input = q.inputs[q.at]
  OBVIOUS
<1>2. /\ routers' = {New(r) : r \in routers} /\ clusters' = clusters /\ q.next = "routers"
      /\ ~(\E r \in routers : r.id = input.id) \/ RouterFits(input, input.id)
  <2>1. routers' = {New(r) : r \in routers}
    BY Zenon DEF UpdateRouter
  <2>2. clusters' = clusters /\ q.next = "routers"
    BY <1>1 DEF UpdateRouter
  <2>3. ~(\E r \in routers : r.id = input.id) \/ RouterFits(input, input.id)
    BY <1>1 DEF UpdateRouter
  <2> QED  BY <2>1, <2>2, <2>3
<1> HIDE DEF q, input
<1>3. input.host \in Hosts
  <2>1. q.at \in DOMAIN q.inputs
    BY <1>1, <1>2 DEF RequestsOK, SoundInputs, Writing
  <2> QED  BY <1>1, <1>2, <2>1 DEF RequestsValid, WritesValid, Writing
<1>4. ASSUME NEW r \in routers
      PROVE  /\ New(r).id = r.id /\ New(r).cluster = r.cluster
             /\ New(r).name = IF r.id = input.id THEN input.name ELSE r.name
             /\ New(r).host = IF r.id = input.id THEN input.host ELSE r.host
  <2>1. DOMAIN r = {"id", "cluster", "name", "host", "role", "cred"}
    BY DEF RowsOK
  <2> QED  BY <2>1
<1> HIDE DEF New
<1>5. \A r \in routers' : ClusterExists(r.cluster, clusters) /\ r.host \in Hosts
  BY <1>2, <1>3, <1>4 DEF TablesOK
<1>6. \A r, s \in routers : r.id # s.id => New(r).name # New(s).name /\ New(r).host # New(s).host
  BY <1>2, <1>4 DEF TablesOK, RouterFits
<1>7. \A r \in routers' : \A s \in routers' : r.id # s.id => r.name # s.name /\ r.host # s.host
  BY <1>2, <1>4, <1>6
<1> QED  BY <1>2, <1>5, <1>7 DEF TablesOK

\* Every statement of a request.
LEMMA ServeTables ==
    ASSUME RequestsInv, StoredOK(clusters, routers, requests), TablesOK(clusters, routers),
           RequestsValid, NEW i \in DOMAIN requests, ServeStep(i)
    PROVE  TablesOK(clusters', routers')
<1>1. CASE UNCHANGED clusters /\ routers' \subseteq routers
  BY <1>1 DEF TablesOK
<1>2. CASE DeleteCluster(i)
  <2>1. PICK x : x = requests[i].cluster
    OBVIOUS
  <2>2. clusters' = {c \in clusters : c.id # x} /\ routers' = routers \ RoutersOf(x)
    BY <1>2, <2>1 DEF DeleteCluster
  <2>3. \A r \in routers' : r \in routers /\ r.cluster # x
    BY <2>2 DEF RoutersOf
  <2>4. \A r \in routers' : ClusterExists(r.cluster, clusters')
    BY <2>2, <2>3 DEF ClusterExists, TablesOK
  <2> QED  BY <2>2, <2>3, <2>4 DEF TablesOK
<1>3. GetCluster(i) \/ ListRouters(i) \/ ReadBack(i) \/ StatementFails(i)
        => UNCHANGED <<clusters, routers>>
  BY DEF GetCluster, ListRouters, ReadBack, StatementFails
<1>4. DropRouter(i) => UNCHANGED clusters /\ routers' \subseteq routers
  BY DEF DropRouter
<1> QED
  BY <1>1, <1>2, <1>3, <1>4, InsertClusterTables, RenameClusterTables, InsertRouterTables,
     UpdateRouterTables DEF ServeStep, RequestsInv

\* A request arrives with what a form holds; its validation refuses the rest.
LEMMA ArriveValid ==
    ASSUME RequestsInv, RequestsValid, NEW op, NEW by, NEW c, NEW name, NEW inputs,
           Arrive(op, by, c, name, inputs),
           op # "delete" => /\ name \in Names
                            /\ \A k \in DOMAIN inputs : inputs[k].host \in Hosts \cup {NoHost}
    PROVE  RequestsValid'
<1> DEFINE cluster == IF op = "create" THEN Len(requests) + 1 ELSE c
           old == [j \in DOMAIN requests |->
                     IF Running(requests[j]) /\ requests[j].cluster = cluster
                     THEN [requests[j] EXCEPT !.overlap = TRUE] ELSE requests[j]]
           q == Request(op, by, cluster, name, inputs)
<1>1. requests' = Append(old, q)
  BY DEF Arrive
<1>2. IsSequence(old) /\ DOMAIN old = DOMAIN requests
  <2>1. DOMAIN requests = 1..Len(requests) /\ Len(requests) \in Nat
    BY DEF RequestsInv, IsSequence
  <2>2. DOMAIN old = DOMAIN requests
    OBVIOUS
  <2>3. IsSequence(old)
    <3>1. old = [j \in 1..Len(requests) |-> old[j]]
      BY <2>1
    <3> HIDE DEF old
    <3> QED  BY <2>1, <3>1, FunctionIsSequence
  <2> QED  BY <2>2, <2>3
<1>3. ASSUME NEW j \in DOMAIN old PROVE WritesValid(old[j])
  <2>1. IsRequest(requests[j]) /\ WritesValid(requests[j])
    BY DEF RequestsInv, RequestsOK, RequestsValid
  <2>2. /\ old[j].name = requests[j].name /\ old[j].inputs = requests[j].inputs
        /\ old[j].next = requests[j].next
    BY <2>1 DEF IsRequest
  <2> QED  BY <2>1, <2>2 DEF WritesValid
<1>4. WritesValid(q)
  <2>1. q.name = name /\ q.inputs = inputs
    BY DEF Request
  <2>2. q.next \in Writing => op # "delete" /\ (ValidCreate(inputs) \/ ValidUpdate(inputs))
    BY DEF Request, Writing
  <2> HIDE DEF q
  <2> QED  BY <2>1, <2>2 DEF WritesValid, ValidCreate, ValidUpdate
<1> HIDE DEF old, q
<1>5. /\ DOMAIN requests' = DOMAIN old \cup {Len(old) + 1}
      /\ \A k \in DOMAIN old : requests'[k] = old[k]
      /\ requests'[Len(old) + 1] = q
  BY <1>1, <1>2, AppendToSequence
<1> QED  BY <1>3, <1>4, <1>5 DEF RequestsValid

\* What the lists and the other administrator remember, and what a form holds.
SeenValid(s) == s # None => s.name \in Names /\ \A r \in s.routers : r.host \in Hosts
FormValid(d) ==
    /\ d.step \in 0..3
    /\ d.name \in Names \cup {NoName}
    /\ d.step > 0 => d.name # NoName
    /\ \A p \in Positions : d[p].host \in Hosts \cup {NoHost}
    /\ d.confirm => d.edit # None
PageValid ==
    /\ clusterList # NoList => \A s \in clusterList : SeenValid(s)
    /\ SeenValid(seen)
    /\ drawer.open => FormValid(drawer) /\ ask = None
    /\ stale \subseteq {"routers", "clusters"}

\* What a list or the other administrator loads.
LEMMA ResponseValid ==
    ASSUME TablesOK(clusters, routers), NEW c \in clusters
    PROVE  SeenValid(ClusterResponse(c))
<1> DEFINE shown(r) == [id |-> r.id, name |-> r.name, host |-> r.host, role |-> r.role]
<1>1. PICK s : s = ClusterResponse(c)
  OBVIOUS
<1>2. s.name = c.name /\ s.routers = {shown(r) : r \in RoutersOf(c.id)}
  BY <1>1 DEF ClusterResponse
<1>3. \A r : shown(r).host = r.host
  OBVIOUS
<1> HIDE DEF shown
<1>4. \A r \in RoutersOf(c.id) : r.host \in Hosts
  BY DEF RoutersOf, TablesOK
<1>5. s.name \in Names
  BY <1>2 DEF TablesOK
<1> QED  BY <1>1, <1>2, <1>3, <1>4, <1>5 DEF SeenValid

\* The fields of a router the form was opened for.
LEMMA RouterOfValid ==
    ASSUME NEW s, SeenValid(s), s # None, NEW role
    PROVE  FieldsOf(RouterOf(s, role)).host \in Hosts \cup {NoHost}
<1> DEFINE of == {r \in s.routers : r.role = role}
<1>1. RouterOf(s, role) = IF of = {} THEN None ELSE CHOOSE r \in of : TRUE
  BY DEF RouterOf
<1>2. RouterOf(s, role) = None \/ RouterOf(s, role) \in of
  BY <1>1
<1>3. \A r \in of : r.host \in Hosts
  BY DEF SeenValid
<1> HIDE DEF of
<1>4. PICK r : r = RouterOf(s, role)
  OBVIOUS
<1>5. FieldsOf(r).host = IF r = None THEN NoHost ELSE r.host
  BY DEF FieldsOf, Fields
<1> QED  BY <1>2, <1>3, <1>4, <1>5

\* The form as it opens.
LEMMA InitialValid ==
    ASSUME NEW s, SeenValid(s)
    PROVE  /\ FormValid(BuildInitialValues(s))
           /\ DOMAIN BuildInitialValues(s) = DrawerNames
           /\ \A p \in Positions : DOMAIN BuildInitialValues(s)[p] = FieldNames
<1>1. PICK f, g : /\ f = IF s = None THEN Fields(NoName, NoHost, FALSE)
                         ELSE FieldsOf(RouterOf(s, "master"))
                  /\ g = IF s = None THEN Fields(NoName, NoHost, FALSE)
                         ELSE FieldsOf(RouterOf(s, "backup"))
  OBVIOUS
<1>2. \A n, h, e : Fields(n, h, e).host = h /\ DOMAIN Fields(n, h, e) = FieldNames
  BY DEF Fields, FieldNames
<1>3. f.host \in Hosts \cup {NoHost} /\ g.host \in Hosts \cup {NoHost}
  BY <1>1, <1>2, RouterOfValid
<1>4. DOMAIN f = FieldNames /\ DOMAIN g = FieldNames
  BY <1>1, <1>2 DEF FieldsOf
<1>5. PICK d : d = BuildInitialValues(s)
  OBVIOUS
<1>6. /\ DOMAIN d = DrawerNames /\ d.primary = f /\ d.secondary = g /\ d.step = 0
      /\ d.name = (IF s = None THEN NoName ELSE s.name) /\ d.confirm = FALSE
  BY <1>1, <1>5 DEF BuildInitialValues, DrawerNames
<1>7. d.name \in Names \cup {NoName}
  BY <1>6 DEF SeenValid
<1> QED  BY <1>3, <1>4, <1>5, <1>6, <1>7 DEF FormValid, Positions

\* Steps of a form.
IsForm(d) == DOMAIN d = DrawerNames /\ \A p \in Positions : DOMAIN d[p] = FieldNames
SoundForm(d) == IsForm(d) /\ FormValid(d)

\* The fields of one router change, the form does not.
LEMMA FieldsOneChange ==
    ASSUME NEW d, SoundForm(d), NEW p \in Positions, NEW g, DOMAIN g = FieldNames,
           g.host \in Hosts \cup {NoHost}
    PROVE  SoundForm([d EXCEPT ![p] = g])
<1>1. PICK e : e = [d EXCEPT ![p] = g]
  OBVIOUS
<1>2. /\ DOMAIN e = DrawerNames /\ e.step = d.step /\ e.name = d.name /\ e.confirm = d.confirm
      /\ e.edit = d.edit /\ e[p] = g /\ \A q \in Positions \ {p} : e[q] = d[q]
  BY <1>1 DEF SoundForm, IsForm, DrawerNames, Positions
<1> QED  BY <1>1, <1>2 DEF SoundForm, IsForm, FormValid

\* A changed field forgets the result of its test.
LEMMA LateValid ==
    ASSUME NEW d, SoundForm(d), NEW p \in Positions
    PROVE  SoundForm(Late(p, d)) /\ SoundForm(FieldChange(d, p))
<1>1. ASSUME NEW e, SoundForm(e) PROVE SoundForm(Late(p, e))
  <2>1. PICK g : g = [e[p] EXCEPT !.late = TRUE]
    OBVIOUS
  <2>2. DOMAIN g = FieldNames /\ g.host = e[p].host
    BY <1>1, <2>1 DEF SoundForm, IsForm, FieldNames
  <2>3. g.host \in Hosts \cup {NoHost}
    BY <1>1, <2>2 DEF SoundForm, FormValid
  <2>4. Late(p, e) = e \/ Late(p, e) = [e EXCEPT ![p] = g]
    BY <2>1 DEF Late
  <2> QED  BY <1>1, <2>2, <2>3, <2>4, FieldsOneChange
<1>2. PICK g : g = [d[p] EXCEPT !.result = NoResult]
  OBVIOUS
<1>3. DOMAIN g = FieldNames /\ g.host = d[p].host
  BY <1>2 DEF SoundForm, IsForm, FieldNames
<1>4. g.host \in Hosts \cup {NoHost}
  BY <1>3 DEF SoundForm, FormValid
<1>5. SoundForm([d EXCEPT ![p] = g])
  BY <1>3, <1>4, FieldsOneChange
<1>6. FieldChange(d, p) = Late(p, [d EXCEPT ![p] = g])
  BY <1>2 DEF FieldChange
<1> QED  BY <1>1, <1>5, <1>6

\* Opening the drawer.
LEMMA OpenValid ==
    ASSUME NEW s, SeenValid(s), OpenDrawer(s)
    PROVE  SoundForm(drawer')
<1>1. SoundForm(BuildInitialValues(s))
  BY InitialValid DEF SoundForm, IsForm
<1> QED  BY <1>1, LateValid DEF OpenDrawer, Positions

\* Typing in the fields of a router.
LEMMA RouterStepValid ==
    ASSUME SoundForm(drawer), NEW p \in Positions, RouterStep(p)
    PROVE  SoundForm(drawer')
<1>1. PICK d, f : d = drawer /\ f = d[p]
  OBVIOUS
<1>2. DOMAIN f = FieldNames /\ f.host \in Hosts \cup {NoHost}
  BY <1>1 DEF SoundForm, IsForm, FormValid
<1>3. ASSUME NEW h \in Hosts \cup {NoHost} PROVE SoundForm(FieldChange([d EXCEPT ![p].host = h], p))
  <2>1. PICK g : g = [f EXCEPT !.host = h]
    OBVIOUS
  <2>2. DOMAIN g = FieldNames /\ g.host = h
    BY <1>2, <2>1 DEF FieldNames
  <2>3. [d EXCEPT ![p].host = h] = [d EXCEPT ![p] = g]
    BY <1>1, <2>1
  <2> QED  BY <1>1, <2>2, <2>3, FieldsOneChange, LateValid
<1>4. ASSUME NEW c PROVE SoundForm(FieldChange([d EXCEPT ![p].cred = c], p))
  <2>1. PICK g : g = [f EXCEPT !.cred = c]
    OBVIOUS
  <2>2. DOMAIN g = FieldNames /\ g.host = f.host
    BY <1>2, <2>1 DEF FieldNames
  <2>3. [d EXCEPT ![p].cred = c] = [d EXCEPT ![p] = g]
    BY <1>1, <2>1
  <2> QED  BY <1>1, <1>2, <2>2, <2>3, FieldsOneChange, LateValid
<1>5. ASSUME NEW n PROVE SoundForm([d EXCEPT ![p].name = n, ![p].edited = TRUE])
  <2>1. PICK g : g = [f EXCEPT !.name = n, !.edited = TRUE]
    OBVIOUS
  <2>2. DOMAIN g = FieldNames /\ g.host = f.host
    BY <1>2, <2>1 DEF FieldNames
  <2>3. [d EXCEPT ![p].name = n, ![p].edited = TRUE] = [d EXCEPT ![p] = g]
    BY <1>1, <2>1
  <2> QED  BY <1>1, <1>2, <2>2, <2>3, FieldsOneChange
<1>6. \/ \E h \in Hosts \cup {NoHost} : drawer' = FieldChange([d EXCEPT ![p].host = h], p)
      \/ \E c : drawer' = FieldChange([d EXCEPT ![p].cred = c], p)
      \/ \E n : drawer' = [d EXCEPT ![p].name = n, ![p].edited = TRUE]
  BY <1>1 DEF RouterStep, Typed
<1> QED  BY <1>3, <1>4, <1>5, <1>6

\* Typing the name of the cluster.
LEMMA ClusterNameValid ==
    ASSUME SoundForm(drawer), ClusterNameStep
    PROVE  SoundForm(drawer')
<1>1. PICK d : d = drawer
  OBVIOUS
<1>2. PICK n \in Names \cup {NoName} :
         drawer' = [d EXCEPT !.name = n,
                             !.primary.name = DerivedName(d.primary, n, 1),
                             !.secondary.name = DerivedName(d.secondary, n, 2)]
  BY <1>1 DEF ClusterNameStep, Typed
<1>3. PICK f, g : /\ f = [d.primary EXCEPT !.name = DerivedName(d.primary, n, 1)]
                  /\ g = [d.secondary EXCEPT !.name = DerivedName(d.secondary, n, 2)]
  OBVIOUS
<1>4. /\ DOMAIN f = FieldNames /\ f.host = d.primary.host
      /\ DOMAIN g = FieldNames /\ g.host = d.secondary.host
  BY <1>1, <1>3 DEF SoundForm, IsForm, FieldNames, Positions
<1>5. PICK e : e = [d EXCEPT !.name = n, !.primary = f, !.secondary = g]
  OBVIOUS
<1>6. drawer' = e
  BY <1>1, <1>2, <1>3, <1>5 DEF SoundForm, IsForm, DrawerNames
<1>7. /\ DOMAIN e = DrawerNames /\ e.step = d.step /\ e.name = n /\ e.confirm = d.confirm
      /\ e.edit = d.edit /\ e.primary = f /\ e.secondary = g
  BY <1>1, <1>5 DEF SoundForm, IsForm, DrawerNames
<1>8. d.step = 0
  BY <1>1 DEF ClusterNameStep
<1>9. FormValid(d)
  BY <1>1 DEF SoundForm
<1>10. \A p \in Positions : DOMAIN e[p] = FieldNames /\ e[p].host \in Hosts \cup {NoHost}
  BY <1>4, <1>7, <1>9 DEF FormValid, Positions
<1>11. e.step \in 0..3 /\ ~(e.step > 0) /\ (e.confirm => e.edit # None)
  BY <1>7, <1>8, <1>9 DEF FormValid
<1> QED  BY <1>6, <1>7, <1>10, <1>11 DEF SoundForm, IsForm, FormValid

\* Next, Back and the question before a delete.
LEMMA SimpleStepValid ==
    ASSUME SoundForm(drawer), drawer.open, HandleNext \/ HandleBack \/ ConfirmInDrawer
    PROVE  SoundForm(drawer')
<1>1. PICK d, e : d = drawer /\ e = drawer'
  OBVIOUS
<1>2. SoundForm(d) /\ FormValid(d)
  BY <1>1 DEF SoundForm
<1>3. CASE HandleNext
  <2>1. e = [d EXCEPT !.step = @ + 1] /\ d.step < 3 /\ ValidateStep(d.step)
    BY <1>1, <1>3 DEF HandleNext, Typed
  <2>2. d.step = 0 => d.name # NoName
    BY <1>1, <2>1 DEF ValidateStep
  <2>3. /\ DOMAIN e = DrawerNames /\ e.step = d.step + 1 /\ e.name = d.name
        /\ e.confirm = d.confirm /\ e.edit = d.edit
        /\ e.primary = d.primary /\ e.secondary = d.secondary
    BY <1>2, <2>1 DEF SoundForm, IsForm, DrawerNames
  <2>4. e.step \in 0..3 /\ (d.step = 0 \/ d.step > 0)
    BY <1>2, <2>1, <2>3 DEF FormValid
  <2>5. e.name # NoName /\ (e.confirm => e.edit # None) /\ e.name \in Names \cup {NoName}
    BY <1>2, <2>2, <2>3, <2>4 DEF FormValid
  <2>6. \A p \in Positions : DOMAIN e[p] = FieldNames /\ e[p].host \in Hosts \cup {NoHost}
    BY <1>2, <2>3 DEF SoundForm, IsForm, FormValid, Positions
  <2> QED  BY <1>1, <2>3, <2>4, <2>5, <2>6 DEF SoundForm, IsForm, FormValid
<1>4. CASE HandleBack
  <2>1. e = [d EXCEPT !.step = @ - 1] /\ d.step > 0
    BY <1>1, <1>4 DEF HandleBack, Typed
  <2>2. /\ DOMAIN e = DrawerNames /\ e.step = d.step - 1 /\ e.name = d.name
        /\ e.confirm = d.confirm /\ e.edit = d.edit
        /\ e.primary = d.primary /\ e.secondary = d.secondary
    BY <1>2, <2>1 DEF SoundForm, IsForm, DrawerNames
  <2>3. e.step \in 0..3
    BY <1>2, <2>1, <2>2 DEF FormValid
  <2>4. e.name # NoName /\ (e.confirm => e.edit # None) /\ e.name \in Names \cup {NoName}
    BY <1>2, <2>1, <2>2 DEF FormValid
  <2>5. \A p \in Positions : DOMAIN e[p] = FieldNames /\ e[p].host \in Hosts \cup {NoHost}
    BY <1>2, <2>2 DEF SoundForm, IsForm, FormValid, Positions
  <2> QED  BY <1>1, <2>2, <2>3, <2>4, <2>5 DEF SoundForm, IsForm, FormValid
<1>5. CASE ConfirmInDrawer
  <2>1. e = [d EXCEPT !.confirm = ~@] /\ d.edit # None
    BY <1>1, <1>5 DEF ConfirmInDrawer, IsEditing, Typed
  <2>2. /\ DOMAIN e = DrawerNames /\ e.step = d.step /\ e.name = d.name /\ e.edit = d.edit
        /\ e.primary = d.primary /\ e.secondary = d.secondary
    BY <1>2, <2>1 DEF SoundForm, IsForm, DrawerNames
  <2>3. \A p \in Positions : DOMAIN e[p] = FieldNames /\ e[p].host \in Hosts \cup {NoHost}
    BY <1>2, <2>2 DEF SoundForm, IsForm, FormValid, Positions
  <2> QED  BY <1>1, <1>2, <2>1, <2>2, <2>3 DEF SoundForm, IsForm, FormValid
<1> QED  BY <1>3, <1>4, <1>5

\* Sending a connection test, and its answer.
LEMMA TestValid ==
    ASSUME SoundForm(drawer), drawer.open, NEW p \in Positions, HandleTest(p) \/ TestAnswers(p)
    PROVE  SoundForm(drawer')
<1>1. PICK d, f : d = drawer /\ f = d[p]
  OBVIOUS
<1>2. DOMAIN f = FieldNames /\ f.host \in Hosts \cup {NoHost}
  BY <1>1 DEF SoundForm, IsForm, FormValid
<1>3. CASE HandleTest(p)
  <2>1. PICK g : g = [f EXCEPT !.late = FALSE]
    OBVIOUS
  <2>2. DOMAIN g = FieldNames /\ g.host = f.host
    BY <1>2, <2>1 DEF FieldNames
  <2>3. drawer' = [d EXCEPT ![p] = g]
    BY <1>1, <1>3, <2>1 DEF HandleTest
  <2> QED  BY <1>1, <1>2, <2>2, <2>3, FieldsOneChange
<1>4. CASE TestAnswers(p)
  <2>1. PICK res : drawer' = [d EXCEPT ![p].result = res]
    BY <1>1, <1>4 DEF TestAnswers
  <2>2. PICK g : g = [f EXCEPT !.result = res]
    OBVIOUS
  <2>3. DOMAIN g = FieldNames /\ g.host = f.host
    BY <1>2, <2>2 DEF FieldNames
  <2>4. drawer' = [d EXCEPT ![p] = g]
    BY <1>1, <2>1, <2>2
  <2> QED  BY <1>1, <1>2, <2>3, <2>4, FieldsOneChange
<1> QED  BY <1>3, <1>4

\* Every step of the drawer.
LEMMA DrawerStepValid ==
    ASSUME SoundForm(drawer), drawer.open, ClusterDrawer
    PROVE  drawer'.open => SoundForm(drawer')
<1>1. CASE PrimaryRouterStep
  BY <1>1, RouterStepValid DEF PrimaryRouterStep, Positions
<1>2. CASE SecondaryRouterStep
  <2>1. CASE RouterStep("secondary")
    BY <2>1, RouterStepValid DEF Positions
  <2>2. CASE Typed({[drawer EXCEPT !.ha = ~@]})
    <3>1. PICK d, e : d = drawer /\ e = [d EXCEPT !.ha = ~@]
      OBVIOUS
    <3>2. drawer' = e
      BY <2>2, <3>1 DEF Typed
    <3>3. /\ DOMAIN e = DrawerNames /\ e.step = d.step /\ e.name = d.name /\ e.edit = d.edit
          /\ e.confirm = d.confirm /\ e.primary = d.primary /\ e.secondary = d.secondary
      BY <3>1 DEF SoundForm, IsForm, DrawerNames
    <3>4. SoundForm(d)
      BY <3>1
    <3>5. \A p \in Positions : e[p] = d[p]
      BY <3>3 DEF Positions
    <3> QED  BY <3>2, <3>3, <3>4, <3>5 DEF SoundForm, IsForm, FormValid
  <2> QED  BY <1>2, <2>1, <2>2 DEF SecondaryRouterStep
<1>3. CASE HandleClose
  BY <1>3 DEF HandleClose, Typed, ClosedDrawer
<1>4. CASE HandleSubmit \/ HandleDelete
  BY <1>4 DEF HandleSubmit, HandleDelete
<1> QED
  BY <1>1, <1>2, <1>3, <1>4, ClusterNameValid, SimpleStepValid, TestValid DEF ClusterDrawer

\* The inputs of a form have the addresses of its fields.
LEMMA PayloadValid ==
    ASSUME NEW d, \A p \in Positions : d[p].host \in Hosts \cup {NoHost}
    PROVE  \A k \in DOMAIN Payload(d) : Payload(d)[k].host \in Hosts \cup {NoHost}
<1>1. PICK a, b : a = InputOf(d, "primary", "master") /\ b = InputOf(d, "secondary", "backup")
  OBVIOUS
<1>2. a.host \in Hosts \cup {NoHost} /\ b.host \in Hosts \cup {NoHost}
  BY <1>1 DEF InputOf, Input, Positions
<1>3. Payload(d) = <<a, b>> \/ Payload(d) = <<a>>
  BY <1>1 DEF Payload
<1> QED  BY <1>2, <1>3

\* Saving the drawer.
LEMMA SubmitValid ==
    ASSUME RequestsInv, RequestsValid, PageValid, HandleSubmit
    PROVE  RequestsValid'
<1>1. FormValid(drawer) /\ drawer.step = 3
  BY DEF PageValid, HandleSubmit
<1>2. drawer.name \in Names
  BY <1>1 DEF FormValid
<1>3. \A k \in DOMAIN Payload(drawer) : Payload(drawer)[k].host \in Hosts \cup {NoHost}
  BY <1>1, PayloadValid DEF FormValid
<1>4. CASE Arrive("update", "drawer", drawer.edit.id, drawer.name, Payload(drawer))
  BY <1>2, <1>3, <1>4, ArriveValid
<1>5. CASE Arrive("create", "drawer", 0, drawer.name, Payload(drawer))
  BY <1>2, <1>3, <1>5, ArriveValid
<1> QED  BY <1>4, <1>5 DEF HandleSubmit

\* The requests of the other administrator.
LEMMA OtherValid ==
    ASSUME RequestsInv, RequestsValid, PageValid, OtherRequest
    PROVE  RequestsValid'
<1>1. CASE Arrive("delete", "other", seen.id, seen.name, <<>>)
  BY <1>1, ArriveValid
<1>2. ASSUME NEW name \in Names, NEW host \in Hosts, NEW cred,
             NEW inputs \in OtherInputs(name, host, cred),
             Arrive("update", "other", seen.id, name, inputs)
      PROVE  RequestsValid'
  <2>1. PICK b, f, e : /\ b = BuildInitialValues(seen) /\ f = [b.primary EXCEPT !.cred = cred]
                       /\ e = [b EXCEPT !.primary.cred = cred]
    OBVIOUS
  <2>2. IsForm(e) /\ \A p \in Positions : e[p].host \in Hosts \cup {NoHost}
    <3>1. IsForm(b) /\ \A p \in Positions : b[p].host \in Hosts \cup {NoHost}
      BY <2>1, InitialValid DEF PageValid, IsForm, FormValid
    <3>2. DOMAIN f = FieldNames /\ f.host = b.primary.host
      BY <2>1, <3>1 DEF IsForm, FieldNames, Positions
    <3>3. e = [b EXCEPT !.primary = f]
      BY <2>1
    <3>4. DOMAIN e = DrawerNames /\ e.primary = f /\ e.secondary = b.secondary
      BY <3>1, <3>3 DEF IsForm, DrawerNames
    <3> QED  BY <3>1, <3>2, <3>4 DEF IsForm, Positions
  <2>3. PICK backup : backup = [e.secondary EXCEPT !.host = IF e.ha THEN @ ELSE host,
                                                   !.cred = "both",
                                                   !.name = IF e.ha THEN @ ELSE <<name, 2>>]
    OBVIOUS
  <2>4. backup.host \in Hosts \cup {NoHost}
    BY <2>2, <2>3 DEF IsForm, FieldNames, Positions
  <2>5. PICK d, g : d = [e EXCEPT !.ha = FALSE] /\ g = [e EXCEPT !.ha = TRUE, !.secondary = backup]
    OBVIOUS
  <2>6. /\ d.primary = e.primary /\ d.secondary = e.secondary
        /\ g.primary = e.primary /\ g.secondary = backup
    BY <2>2, <2>5 DEF IsForm, DrawerNames
  <2>7. \A p \in Positions : d[p].host \in Hosts \cup {NoHost} /\ g[p].host \in Hosts \cup {NoHost}
    BY <2>2, <2>4, <2>6 DEF Positions
  <2>8. inputs = Payload(d) \/ inputs = Payload(g)
    BY <1>2, <2>1, <2>3, <2>5 DEF OtherInputs
  <2>9. \A k \in DOMAIN inputs : inputs[k].host \in Hosts \cup {NoHost}
    BY <2>7, <2>8, PayloadValid
  <2> QED  BY <1>2, <2>9, ArriveValid
<1> QED  BY <1>1, <1>2 DEF OtherRequest

\* An answer leaves the texts alone.
LEMMA AnswerValid ==
    ASSUME RequestsInv, RequestsValid, NEW i \in DOMAIN requests, Answer(i)
    PROVE  RequestsValid'
<1>1. PICK q, by : q = requests[i] /\ requests' = [requests EXCEPT ![i].by = by]
  BY DEF Answer
<1>2. PICK p : p = [q EXCEPT !.by = by]
  OBVIOUS
<1>3. IsRequest(q)
  BY <1>1 DEF RequestsInv, RequestsOK
<1>4. p.name = q.name /\ p.inputs = q.inputs /\ p.next = q.next
  BY <1>2, <1>3 DEF IsRequest
<1>5. requests' = [requests EXCEPT ![i] = p]
  BY <1>1, <1>2
<1> QED  BY <1>1, <1>4, <1>5, StatementValid

\* Every step keeps the tables and the requests.
LEMMA NextTables ==
    ASSUME RolesInv, TablesOK(clusters, routers), RequestsValid, PageValid, [Next]_vars
    PROVE  TablesOK(clusters', routers') /\ RequestsValid'
<1>1. RequestsInv /\ StoredOK(clusters, routers, requests)
  BY DEF RolesInv
<1>2. CASE HandleSubmit
  BY <1>1, <1>2, SubmitValid DEF HandleSubmit
<1>3. CASE HandleDelete
  <2>1. RequestsValid'
    BY <1>1, <1>3, ArriveValid DEF HandleDelete
  <2> QED  BY <1>3, <2>1 DEF HandleDelete
<1>4. CASE HandleDeleteConfirm
  <2>1. PICK by, c : IF c = None THEN UNCHANGED requests
                     ELSE Arrive("delete", by, c.id, c.name, <<>>)
    BY <1>4 DEF HandleDeleteConfirm
  <2>2. UNCHANGED <<clusters, routers>>
    BY <1>4 DEF HandleDeleteConfirm
  <2>3. CASE UNCHANGED requests
    BY <2>2, <2>3 DEF RequestsValid
  <2>4. CASE Arrive("delete", by, c.id, c.name, <<>>)
    <3>1. RequestsValid'
      BY <1>1, <2>4, ArriveValid
    <3> QED  BY <2>2, <3>1
  <2> QED  BY <2>1, <2>3, <2>4
<1>5. CASE OtherRequest
  BY <1>1, <1>5, OtherValid DEF OtherRequest
<1>6. CASE \E i \in DOMAIN requests : Answer(i)
  BY <1>1, <1>6, AnswerValid DEF Answer
<1>7. CASE Serve
  BY <1>1, <1>7, ServeValid, ServeTables DEF Serve
<1>8. CASE \/ ClusterNameStep \/ PrimaryRouterStep \/ SecondaryRouterStep \/ HandleNext
           \/ HandleBack \/ (\E p \in Positions : HandleTest(p)) \/ HandleClose \/ ConfirmInDrawer
           \/ FetchRouters \/ FetchClusters \/ HandleAdd \/ GroupRows \/ RouterDetail
           \/ CancelDelete \/ OtherLoads \/ (\E p \in Positions : TestAnswers(p))
           \/ UNCHANGED vars
  <2>1. UNCHANGED serviceVars
    BY <1>8 DEF ClusterNameStep, PrimaryRouterStep, SecondaryRouterStep, HandleNext, HandleBack,
                HandleTest, HandleClose, ConfirmInDrawer, RouterStep, Typed, FetchRouters,
                FetchClusters, HandleAdd, GroupRows, GroupRow, RouterRow, RouterDetail,
                CancelDelete, OtherLoads, TestAnswers, HandleEdit, AskDelete, ShowDetail,
                serviceVars, vars
  <2> QED  BY <2>1 DEF serviceVars, RequestsValid
<1> QED  BY <1>2, <1>3, <1>4, <1>5, <1>6, <1>7, <1>8 DEF Next, ClusterDrawer

\* Every step keeps what the page remembers and the form.
LEMMA NextSeen ==
    ASSUME TablesOK(clusters, routers), PageValid, [Next]_vars
    PROVE  /\ clusterList' # NoList => \A s \in clusterList' : SeenValid(s)
           /\ SeenValid(seen')
           /\ stale' \subseteq {"routers", "clusters"}
<1>1. CASE FetchClusters
  <2>1. \A s \in clusterList' : SeenValid(s)
    BY <1>1, ResponseValid DEF FetchClusters
  <2>2. seen' = seen /\ stale' \subseteq stale
    BY <1>1 DEF FetchClusters
  <2> QED  BY <2>1, <2>2 DEF PageValid
<1>2. CASE OtherLoads
  <2>1. SeenValid(seen')
    BY <1>2, ResponseValid DEF OtherLoads
  <2>2. UNCHANGED <<clusterList, stale>>
    BY <1>2 DEF OtherLoads, lists
  <2> QED  BY <2>1, <2>2 DEF PageValid
<1>3. CASE FetchRouters
  <2>1. UNCHANGED <<clusterList, seen>> /\ stale' \subseteq stale
    BY <1>3 DEF FetchRouters
  <2> QED  BY <2>1 DEF PageValid
<1>4. CASE \E i \in DOMAIN requests : Answer(i)
  <2>1. UNCHANGED <<clusterList, seen>>
        /\ (stale' = {"routers", "clusters"} \/ stale' = stale)
    BY <1>4 DEF Answer
  <2> QED  BY <2>1 DEF PageValid
<1>5. CASE \/ HandleAdd \/ GroupRows \/ RouterDetail \/ CancelDelete \/ HandleDeleteConfirm
           \/ ClusterDrawer \/ (\E p \in Positions : TestAnswers(p)) \/ OtherRequest \/ Serve
           \/ UNCHANGED vars
  <2>1. UNCHANGED <<clusterList, seen, stale>>
    BY <1>5 DEF HandleAdd, GroupRows, GroupRow, RouterRow, RouterDetail, CancelDelete,
                HandleDeleteConfirm, HandleEdit, AskDelete, ShowDetail, ClusterDrawer,
                ClusterNameStep, PrimaryRouterStep, SecondaryRouterStep, HandleNext, HandleBack,
                HandleTest, HandleClose, HandleSubmit, ConfirmInDrawer, HandleDelete, RouterStep,
                Typed, TestAnswers, OtherRequest, Serve, lists, vars
  <2> QED  BY <2>1 DEF PageValid
<1> QED  BY <1>1, <1>2, <1>3, <1>4, <1>5 DEF Next

\* The form, and the dialog that never shares the screen with it.
LEMMA NextForm ==
    ASSUME TestedInv, PageValid, [Next]_vars
    PROVE  drawer'.open => FormValid(drawer') /\ ask' = None
<1>1. drawer.open => SoundForm(drawer)
  BY DEF TestedInv, DrawerOK, FieldsOK, PageValid, SoundForm, IsForm
<1>2. SeenValid(None)
  BY DEF SeenValid
<1>3. ASSUME NEW id PROVE SeenValid(ClusterForRouter(id))
  <2> DEFINE of == IF clusterList = NoList THEN {}
                   ELSE {c \in clusterList : \E r \in c.routers : r.id = id}
  <2>1. ClusterForRouter(id) = None \/ ClusterForRouter(id) \in of
    BY DEF ClusterForRouter
  <2>2. \A c \in of : SeenValid(c)
    BY DEF PageValid
  <2> HIDE DEF of
  <2> QED  BY <1>2, <2>1, <2>2
<1>4. ASSUME NEW c, SeenValid(c), OpenDrawer(c), ask = None, UNCHANGED ask
      PROVE  FormValid(drawer') /\ ask' = None
  BY <1>4, OpenValid DEF SoundForm
<1>5. CASE UNCHANGED <<drawer, ask>>
  BY <1>5 DEF PageValid
<1>6. CASE HandleAdd
  BY <1>2, <1>4, <1>6 DEF HandleAdd, Uncovered, overlays
<1>7. ASSUME NEW r, Uncovered, HandleEdit(r) \/ AskDelete(r) \/ ShowDetail(r)
      PROVE  drawer'.open => FormValid(drawer') /\ ask' = None
  <2>1. CASE HandleEdit(r)
    BY <1>3, <1>4, <1>7, <2>1 DEF HandleEdit, Uncovered
  <2>2. CASE AskDelete(r) \/ ShowDetail(r)
    BY <1>7, <2>2 DEF AskDelete, ShowDetail, Uncovered
  <2> QED  BY <1>7, <2>1, <2>2
<1>8. CASE GroupRows
  BY <1>7, <1>8 DEF GroupRows, GroupRow, RouterRow
<1>9. CASE RouterDetail
  BY <1>7, <1>9 DEF RouterDetail
<1>10. CASE CancelDelete \/ HandleDeleteConfirm
  BY <1>10 DEF CancelDelete, AskDelete, HandleDeleteConfirm, PageValid
<1>11. CASE ClusterDrawer
  <2>1. drawer.open /\ UNCHANGED ask
    BY <1>11 DEF ClusterDrawer, ClusterNameStep, PrimaryRouterStep, SecondaryRouterStep,
                 HandleNext, HandleBack, HandleTest, HandleClose, HandleSubmit, ConfirmInDrawer,
                 HandleDelete, RouterStep, Typed, overlays
  <2> QED  BY <1>1, <1>11, <2>1, DrawerStepValid DEF PageValid, SoundForm
<1>12. ASSUME NEW p \in Positions, TestAnswers(p)
       PROVE  drawer'.open => FormValid(drawer') /\ ask' = None
  <2>1. UNCHANGED ask
    BY <1>12 DEF TestAnswers, overlays
  <2>2. CASE drawer.open
    BY <1>1, <1>12, <2>1, <2>2, TestValid DEF PageValid, SoundForm
  <2>3. CASE ~drawer.open
    BY <1>12, <2>3 DEF TestAnswers
  <2> QED  BY <2>2, <2>3
<1>13. CASE \E i \in DOMAIN requests : Answer(i)
  <2>1. (drawer' = drawer \/ drawer' = ClosedDrawer) /\ (ask' = ask \/ ask' = None)
    BY <1>13 DEF Answer
  <2> QED  BY <2>1 DEF PageValid, ClosedDrawer
<1>14. CASE FetchRouters \/ FetchClusters \/ OtherLoads \/ OtherRequest \/ Serve \/ UNCHANGED vars
  BY <1>5, <1>14 DEF FetchRouters, FetchClusters, OtherLoads, OtherRequest, Serve, overlays, vars
<1> QED  BY <1>6, <1>8, <1>9, <1>10, <1>11, <1>12, <1>13, <1>14 DEF Next

\* The inductive invariant.
TypesInv == RolesInv /\ TablesOK(clusters, routers) /\ RequestsValid /\ PageValid

\* Every step keeps the invariant.
LEMMA NextTypes ==
    ASSUME TypesInv, [Next]_vars
    PROVE  TypesInv'
<1>1. RolesInv' /\ TestedInv
  BY NextRoles DEF TypesInv, RolesInv
<1>2. TablesOK(clusters', routers') /\ RequestsValid'
  BY NextTables DEF TypesInv
<1>3. PageValid'
  BY <1>1, NextSeen, NextForm DEF TypesInv, PageValid
<1> QED  BY <1>1, <1>2, <1>3 DEF TypesInv

\* There is nothing at first.
LEMMA InitTypes == Init => TypesInv
  BY InitRoles DEF Init, InitPage, TypesInv, TablesOK, RequestsValid, PageValid, SeenValid,
                   ClosedDrawer

\* The tables keep their keys, every router belongs to a cluster and has an
\* address and a role, and the form is at one of its four steps, asks for
\* the delete of a cluster it edits and never shares the screen with the
\* delete dialog, whatever requests overlap or fail (migrations, UNIQUE and
\* REFERENCES of clusters and routers; RoutersPage.tsx, ClusterDrawer.tsx).
THEOREM TablesKeepTheirKeys == Spec => []TypeOK
<1>1. TypesInv => TypeOK
  <2> SUFFICES ASSUME TypesInv PROVE TypeOK
    OBVIOUS
  <2>1. TablesOK(clusters, routers) /\ RowRolesOK(routers, requests) /\ PageValid
    BY DEF TypesInv, RolesInv, StoredOK
  <2>2. \A r \in routers : /\ \E c \in clusters : c.id = r.cluster
                           /\ r.role \in {"master", "backup"} /\ r.host \in Hosts
    BY <2>1 DEF TablesOK, ClusterExists, RowRolesOK, RoleFits
  <2>3. \A r, s \in routers : r # s => r.id # s.id /\ r.name # s.name /\ r.host # s.host
    BY <2>1 DEF TablesOK, RowRolesOK
  <2>4. drawer.open => drawer.step \in 0..3 /\ (drawer.confirm => IsEditing) /\ ask = None
    BY <2>1 DEF PageValid, FormValid, IsEditing
  <2>5. \A c \in clusters : c.name \in Names
    BY <2>1 DEF TablesOK
  <2>6. \A c, d \in clusters : c # d => c.id # d.id /\ c.name # d.name
    BY <2>1 DEF TablesOK
  <2>7. stale \subseteq {"routers", "clusters"}
    BY <2>1 DEF PageValid
  <2> QED  BY <2>2, <2>3, <2>4, <2>5, <2>6, <2>7 DEF TypeOK
<1> QED  BY <1>1, InitTypes, NextTypes, PTL DEF Spec

-----------------------------------------------------------------------------
(* Credentials. A form that was taken past the step of a router does not   *)
(* hold a password without a user name, so no request of the page does.    *)

NamesBlank(q, id) ==
    \E k \in DOMAIN q.inputs :
        LET input == q.inputs[k] IN input.id = id /\ input.cred = "password"
ToldBlank(id, qs) == \E j \in DOMAIN qs : qs[j].by = "other" /\ NamesBlank(qs[j], id)
RowTold(r, qs) == r.cred = "both" \/ (r.cred = "password" /\ ToldBlank(r.id, qs))
Complete(q) == q.by # "other" => \A k \in DOMAIN q.inputs : q.inputs[k].cred # "password"
FormComplete(d) ==
    /\ d.step > 1 => d.primary.cred # "password"
    /\ d.step > 2 /\ d.ha => d.secondary.cred # "password"
AllComplete == \A j \in DOMAIN requests : Complete(requests[j])

\* Requests stay and keep their inputs; new ones are complete.
SentKept(qs, ps) ==
    /\ DOMAIN qs \subseteq DOMAIN ps
    /\ \A j \in DOMAIN qs : ps[j].inputs = qs[j].inputs /\ (ps[j].by = "other" <=> qs[j].by = "other")
    /\ \A j \in DOMAIN ps \ DOMAIN qs : Complete(ps[j])

\* What was asked for stays asked for.
LEMMA ToldStays ==
    ASSUME NEW qs, NEW ps, SentKept(qs, ps), \A j \in DOMAIN qs : Complete(qs[j])
    PROVE  /\ \A id : ToldBlank(id, qs) => ToldBlank(id, ps)
           /\ \A j \in DOMAIN ps : Complete(ps[j])
  BY DEF SentKept, ToldBlank, NamesBlank, Complete

\* A statement changes one request, but not what it asks for.
LEMMA StatementSent ==
    ASSUME NEW i \in DOMAIN requests, NEW p, requests' = [requests EXCEPT ![i] = p],
           p.inputs = requests[i].inputs, p.by = "other" <=> requests[i].by = "other"
    PROVE  SentKept(requests, requests')
<1>1. DOMAIN requests' = DOMAIN requests /\ requests'[i] = p
      /\ \A j \in DOMAIN requests \ {i} : requests'[j] = requests[j]
  OBVIOUS
<1> QED  BY <1>1 DEF SentKept

\* A request arrives, from another place or complete.
LEMMA ArriveSent ==
    ASSUME RequestsInv, NEW op, NEW by, NEW c, NEW name, NEW inputs, Arrive(op, by, c, name, inputs),
           by = "other" \/ \A k \in DOMAIN inputs : inputs[k].cred # "password"
    PROVE  SentKept(requests, requests')
<1> DEFINE cluster == IF op = "create" THEN Len(requests) + 1 ELSE c
           old == [j \in DOMAIN requests |->
                     IF Running(requests[j]) /\ requests[j].cluster = cluster
                     THEN [requests[j] EXCEPT !.overlap = TRUE] ELSE requests[j]]
           q == Request(op, by, cluster, name, inputs)
<1>1. requests' = Append(old, q)
  BY DEF Arrive
<1>2. IsSequence(old) /\ DOMAIN old = DOMAIN requests
  <2>1. DOMAIN requests = 1..Len(requests) /\ Len(requests) \in Nat
    BY DEF RequestsInv, IsSequence
  <2>2. DOMAIN old = DOMAIN requests
    OBVIOUS
  <2>3. IsSequence(old)
    <3>1. old = [j \in 1..Len(requests) |-> old[j]]
      BY <2>1
    <3> HIDE DEF old
    <3> QED  BY <2>1, <3>1, FunctionIsSequence
  <2> QED  BY <2>2, <2>3
<1>3. ASSUME NEW j \in DOMAIN requests
      PROVE  old[j].inputs = requests[j].inputs /\ old[j].by = requests[j].by
  <2>1. IsRequest(requests[j])
    BY DEF RequestsInv, RequestsOK
  <2> QED  BY <2>1 DEF IsRequest
<1>4. Complete(q)
  <2>1. q.by = by /\ q.inputs = inputs
    BY DEF Request
  <2> HIDE DEF q
  <2> QED  BY <2>1 DEF Complete
<1> HIDE DEF old, q
<1>5. /\ DOMAIN requests' = DOMAIN old \cup {Len(old) + 1}
      /\ \A k \in DOMAIN old : requests'[k] = old[k]
      /\ requests'[Len(old) + 1] = q
  BY <1>1, <1>2, AppendToSequence
<1> QED  BY <1>2, <1>3, <1>4, <1>5 DEF SentKept

\* The inputs of a form that passed its steps.
LEMMA PayloadComplete ==
    ASSUME NEW d, d.primary.cred # "password", d.ha => d.secondary.cred # "password"
    PROVE  \A k \in DOMAIN Payload(d) : Payload(d)[k].cred # "password"
<1>1. PICK a, b : a = InputOf(d, "primary", "master") /\ b = InputOf(d, "secondary", "backup")
  OBVIOUS
<1>2. a.cred = d.primary.cred /\ b.cred = d.secondary.cred
  BY <1>1 DEF InputOf, Input
<1>3. Payload(d) = IF d.ha THEN <<a, b>> ELSE <<a>>
  BY <1>1 DEF Payload
<1>4. CASE d.ha
  BY <1>2, <1>3, <1>4
<1>5. CASE ~d.ha
  BY <1>2, <1>3, <1>5
<1> QED  BY <1>4, <1>5

\* The requests after a statement: still sound, none of them forgotten.
LEMMA ServeSent ==
    ASSUME RequestsInv, NEW i \in DOMAIN requests, ServeStep(i)
    PROVE  SentKept(requests, requests')
<1>1. PICK q : q = requests[i]
  OBVIOUS
<1>2. IsRequest(q)
  BY <1>1 DEF RequestsInv, RequestsOK
<1>3. ASSUME NEW drop, NEW at, NEW next,
             requests' = [requests EXCEPT ![i] = [q EXCEPT !.drop = drop, !.at = at, !.next = next]]
      PROVE  SentKept(requests, requests')
  <2>1. PICK p : p = [q EXCEPT !.drop = drop, !.at = at, !.next = next]
    OBVIOUS
  <2>2. p.by = q.by /\ p.inputs = q.inputs
    BY <1>2, <2>1 DEF IsRequest
  <2> QED  BY <1>1, <1>3, <2>1, <2>2, StatementSent
<1>4. ASSUME NEW next, Advance(i, next) PROVE SentKept(requests, requests')
  <2>1. requests' = [requests EXCEPT ![i] = [q EXCEPT !.drop = q.drop, !.at = q.at, !.next = next]]
    BY <1>1, <1>2, <1>4 DEF Advance, IsRequest
  <2> QED  BY <1>3, <2>1
<1>5. ASSUME NextInput(i) PROVE SentKept(requests, requests')
  <2>1. PICK next : requests' = [requests EXCEPT ![i] = [q EXCEPT !.at = q.at + 1, !.next = next]]
    BY <1>1, <1>5 DEF NextInput
  <2>2. requests' = [requests EXCEPT ![i] = [q EXCEPT !.drop = q.drop, !.at = q.at + 1, !.next = next]]
    BY <1>2, <2>1 DEF IsRequest
  <2> QED  BY <1>3, <2>2
<1>6. ASSUME ListRouters(i) \/ DropRouter(i) PROVE SentKept(requests, requests')
  <2>1. PICK drop, next :
           requests' = [requests EXCEPT ![i] = [q EXCEPT !.drop = drop, !.next = next]]
    <3>1. CASE ListRouters(i)
      <4> DEFINE old == requests[i]
                 drop == {r.id : r \in RoutersOf(old.cluster)}
                           \ {old.inputs[k].id : k \in DOMAIN old.inputs}
      <4>1. requests' = [requests EXCEPT ![i] = [old EXCEPT !.drop = drop,
                                   !.next = IF drop = {} THEN "routers" ELSE "drop"]]
        BY <3>1 DEF ListRouters
      <4> HIDE DEF drop
      <4> QED  BY <1>1, <4>1
    <3>2. CASE DropRouter(i)
      <4>1. PICK id : requests' = [requests EXCEPT ![i] = [q EXCEPT !.drop = q.drop \ {id},
                                     !.next = IF q.drop = {id} THEN "routers" ELSE "drop"]]
        BY <1>1, <3>2 DEF DropRouter
      <4> QED  BY <4>1
    <3> QED  BY <1>6, <3>1, <3>2
  <2>2. requests' = [requests EXCEPT ![i] = [q EXCEPT !.drop = drop, !.at = q.at, !.next = next]]
    BY <1>2, <2>1 DEF IsRequest
  <2> QED  BY <1>3, <2>2
<1> QED
  BY <1>4, <1>5, <1>6 DEF ServeStep, InsertCluster, GetCluster, RenameCluster, InsertRouter,
                          UpdateRouter, ReadBack, DeleteCluster, StatementFails

\* The rows after a statement.
LEMMA ServeTold ==
    ASSUME RequestsInv, AllComplete, \A r \in routers : RowTold(r, requests),
           NEW i \in DOMAIN requests, ServeStep(i)
    PROVE  \A r \in routers' : RowTold(r, requests')
<1>1. SentKept(requests, requests')
  BY ServeSent
<1>2. \A r \in routers : RowTold(r, requests')
  BY <1>1, ToldStays DEF AllComplete, RowTold
<1>3. PICK q, input : q = requests[i] /\ input = q.inputs[q.at]
  OBVIOUS
<1>4. CASE InsertRouter(i)
  <2>1. SoundInputs(q)
    BY <1>3, <1>4 DEF RequestsInv, RequestsOK, Writing, InsertRouter
  <2>2. input.cred = "both"
    BY <1>3, <1>4, <2>1 DEF SoundInputs, InsertRouter
  <2>3. \A r \in routers' \ routers : r.cred = "both"
    BY <1>3, <1>4, <2>2 DEF InsertRouter
  <2> QED  BY <1>2, <2>3 DEF RowTold
<1>5. CASE UpdateRouter(i)
  <2>1. q.at \in DOMAIN q.inputs
    BY <1>3, <1>5 DEF RequestsInv, RequestsOK, Writing, UpdateRouter, SoundInputs
  <2>2. ASSUME input.cred = "password" PROVE ToldBlank(input.id, requests)
    <3>1. NamesBlank(q, input.id)
      BY <1>3, <2>1, <2>2 DEF NamesBlank
    <3>2. q.by = "other"
      BY <1>3, <2>1, <2>2 DEF AllComplete, Complete
    <3> QED  BY <1>3, <3>1, <3>2 DEF ToldBlank
  <2>3. ToldBlank(input.id, requests) => ToldBlank(input.id, requests')
    BY <1>1, ToldStays DEF AllComplete
  <2>4. SUFFICES ASSUME NEW r \in routers, r.id = input.id,
                        NEW s, s = [r EXCEPT !.name = input.name, !.host = input.host,
                                             !.role = input.role,
                                             !.cred = IF input.cred \in {"password", "both"}
                                                      THEN input.cred ELSE @]
                 PROVE  RowTold(s, requests')
    BY <1>2, <1>3, <1>5 DEF UpdateRouter
  <2>5. /\ s.id = r.id
        /\ s.cred = IF input.cred \in {"password", "both"} THEN input.cred ELSE r.cred
    <3>1. DOMAIN r = {"id", "cluster", "name", "host", "role", "cred"}
      BY DEF RequestsInv, RowsOK
    <3> QED  BY <2>4, <3>1
  <2>6. CASE input.cred = "password"
    BY <2>2, <2>3, <2>4, <2>5, <2>6 DEF RowTold
  <2>7. CASE input.cred = "both"
    BY <2>5, <2>7 DEF RowTold
  <2>8. CASE input.cred \notin {"password", "both"}
    BY <1>2, <2>5, <2>8 DEF RowTold
  <2> QED  BY <2>6, <2>7, <2>8
<1>6. CASE ~InsertRouter(i) /\ ~UpdateRouter(i)
  <2>1. routers' \subseteq routers
    BY <1>6 DEF ServeStep, InsertCluster, GetCluster, RenameCluster, ListRouters, DropRouter,
                ReadBack, DeleteCluster, StatementFails
  <2> QED  BY <1>2, <2>1
<1> QED  BY <1>4, <1>5, <1>6

\* Opening a form, and noting that a field changed while a test ran.
LEMMA LateKeepsFields ==
    ASSUME NEW d, IsForm(d), NEW p \in Positions
    PROVE  LET e == Late(p, d)
           IN  /\ IsForm(e) /\ e.step = d.step /\ e.ha = d.ha /\ e.edit = d.edit
               /\ \A x \in Positions : e[x].cred = d[x].cred
<1>1. PICK g, e : g = [d[p] EXCEPT !.late = TRUE] /\ e = [d EXCEPT ![p] = g]
  OBVIOUS
<1>2. DOMAIN g = FieldNames /\ g.cred = d[p].cred
  BY <1>1 DEF IsForm, FieldNames
<1>3. /\ DOMAIN e = DrawerNames /\ e.step = d.step /\ e.ha = d.ha /\ e.edit = d.edit
      /\ e[p] = g /\ \A x \in Positions \ {p} : e[x] = d[x]
  BY <1>1 DEF IsForm, DrawerNames, Positions
<1>4. Late(p, d) = d \/ Late(p, d) = e
  BY <1>1 DEF Late
<1> QED  BY <1>2, <1>3, <1>4 DEF IsForm

\* Typing in the fields of one router leaves the other and the step alone.
LEMMA RouterStepFields ==
    ASSUME IsForm(drawer), NEW p \in Positions, RouterStep(p)
    PROVE  /\ drawer'.step = drawer.step /\ drawer'.ha = drawer.ha
           /\ \A x \in Positions \ {p} : drawer'[x].cred = drawer[x].cred
<1>1. PICK d, f : d = drawer /\ f = d[p]
  OBVIOUS
<1>2. DOMAIN f = FieldNames
  BY <1>1 DEF IsForm
<1>3. ASSUME NEW g, DOMAIN g = FieldNames, NEW e, e = [d EXCEPT ![p] = g],
             drawer' = FieldChange(e, p) \/ drawer' = e
      PROVE  /\ drawer'.step = d.step /\ drawer'.ha = d.ha
             /\ \A x \in Positions \ {p} : drawer'[x].cred = d[x].cred
  <2>1. /\ IsForm(e) /\ e.step = d.step /\ e.ha = d.ha
        /\ \A x \in Positions \ {p} : e[x] = d[x]
    <3>1. IsForm(d) /\ DOMAIN g = FieldNames /\ e = [d EXCEPT ![p] = g]
      BY <1>1, <1>3
    <3> QED  BY <3>1 DEF IsForm, DrawerNames, Positions
  <2>2. PICK h, c : h = [e[p] EXCEPT !.result = NoResult] /\ c = [e EXCEPT ![p] = h]
    OBVIOUS
  <2>3. DOMAIN h = FieldNames
    BY <2>1, <2>2 DEF IsForm, FieldNames
  <2>4. /\ IsForm(c) /\ c.step = e.step /\ c.ha = e.ha
        /\ \A x \in Positions \ {p} : c[x] = e[x]
    <3>1. IsForm(e) /\ DOMAIN h = FieldNames /\ c = [e EXCEPT ![p] = h]
      BY <2>1, <2>2, <2>3
    <3> QED  BY <3>1 DEF IsForm, DrawerNames, Positions
  <2>5. FieldChange(e, p) = Late(p, c)
    BY <2>2 DEF FieldChange
  <2>6. CASE drawer' = e
    BY <2>1, <2>6
  <2>7. CASE drawer' = FieldChange(e, p)
    <3>1. /\ drawer'.step = c.step /\ drawer'.ha = c.ha
          /\ \A x \in Positions : drawer'[x].cred = c[x].cred
      BY <2>4, <2>5, <2>7, LateKeepsFields
    <3> QED  BY <2>1, <2>4, <3>1
  <2> QED  BY <1>3, <2>6, <2>7
<1>4. ASSUME NEW h, drawer' = FieldChange([d EXCEPT ![p].host = h], p)
      PROVE  \E g : DOMAIN g = FieldNames /\ drawer' = FieldChange([d EXCEPT ![p] = g], p)
  <2>1. PICK g : g = [f EXCEPT !.host = h]
    OBVIOUS
  <2>2. DOMAIN g = FieldNames /\ [d EXCEPT ![p].host = h] = [d EXCEPT ![p] = g]
    BY <1>1, <1>2, <2>1
  <2> QED  BY <1>4, <2>2
<1>5. ASSUME NEW c, drawer' = FieldChange([d EXCEPT ![p].cred = c], p)
      PROVE  \E g : DOMAIN g = FieldNames /\ drawer' = FieldChange([d EXCEPT ![p] = g], p)
  <2>1. PICK g : g = [f EXCEPT !.cred = c]
    OBVIOUS
  <2>2. DOMAIN g = FieldNames /\ [d EXCEPT ![p].cred = c] = [d EXCEPT ![p] = g]
    BY <1>1, <1>2, <2>1
  <2> QED  BY <1>5, <2>2
<1>6. ASSUME NEW n, drawer' = [d EXCEPT ![p].name = n, ![p].edited = TRUE]
      PROVE  \E g : DOMAIN g = FieldNames /\ drawer' = [d EXCEPT ![p] = g]
  <2>1. PICK g : g = [f EXCEPT !.name = n, !.edited = TRUE]
    OBVIOUS
  <2>2. DOMAIN g = FieldNames
    BY <1>2, <2>1
  <2>3. [d EXCEPT ![p].name = n, ![p].edited = TRUE] = [d EXCEPT ![p] = g]
    BY <1>1, <2>1
  <2> QED  BY <1>6, <2>2, <2>3
<1>7. \/ \E h : drawer' = FieldChange([d EXCEPT ![p].host = h], p)
      \/ \E c : drawer' = FieldChange([d EXCEPT ![p].cred = c], p)
      \/ \E n : drawer' = [d EXCEPT ![p].name = n, ![p].edited = TRUE]
  BY <1>1 DEF RouterStep, Typed
<1>8. \E g : /\ DOMAIN g = FieldNames
             /\ drawer' = FieldChange([d EXCEPT ![p] = g], p) \/ drawer' = [d EXCEPT ![p] = g]
  BY <1>4, <1>5, <1>6, <1>7
<1> QED  BY <1>1, <1>3, <1>8

\* Opening the drawer starts at the first step.
LEMMA OpenComplete ==
    ASSUME NEW s, SeenValid(s), OpenDrawer(s)
    PROVE  FormComplete(drawer')
<1>1. PICK d : d = BuildInitialValues(s)
  OBVIOUS
<1>2. IsForm(d)
  BY <1>1, InitialValid DEF IsForm
<1>3. d.step = 0
  BY <1>1 DEF BuildInitialValues
<1>4. PICK e : e = Late("secondary", d)
  OBVIOUS
<1>5. IsForm(e) /\ e.step = 0
  BY <1>2, <1>3, <1>4, LateKeepsFields DEF Positions
<1>6. drawer' = Late("primary", e)
  BY <1>1, <1>4 DEF OpenDrawer
<1>7. drawer'.step = 0
  BY <1>5, <1>6, LateKeepsFields DEF Positions
<1> QED  BY <1>7 DEF FormComplete

\* Sending a test, and its answer, change no field.
LEMMA TestComplete ==
    ASSUME IsForm(drawer), drawer.open, FormComplete(drawer),
           NEW p \in Positions, HandleTest(p) \/ TestAnswers(p)
    PROVE  FormComplete(drawer')
<1>1. PICK d, f : d = drawer /\ f = d[p]
  OBVIOUS
<1>2. DOMAIN f = FieldNames
  BY <1>1 DEF IsForm
<1>3. ASSUME NEW g, DOMAIN g = FieldNames, g.cred = f.cred, drawer' = [d EXCEPT ![p] = g]
      PROVE  FormComplete(drawer')
  <2>1. /\ drawer'.step = d.step /\ drawer'.ha = d.ha /\ drawer'[p] = g
        /\ \A x \in Positions \ {p} : drawer'[x] = d[x]
    BY <1>1, <1>3 DEF IsForm, DrawerNames, Positions
  <2>2. drawer'.primary.cred = d.primary.cred /\ drawer'.secondary.cred = d.secondary.cred
    BY <1>1, <1>3, <2>1 DEF Positions
  <2> QED  BY <1>1, <2>1, <2>2 DEF FormComplete
<1>4. CASE HandleTest(p)
  <2>1. PICK g : g = [f EXCEPT !.late = FALSE]
    OBVIOUS
  <2>2. DOMAIN g = FieldNames /\ g.cred = f.cred
    BY <1>2, <2>1 DEF FieldNames
  <2>3. drawer' = [d EXCEPT ![p] = g]
    BY <1>1, <1>4, <2>1 DEF HandleTest
  <2> QED  BY <1>3, <2>2, <2>3
<1>5. CASE TestAnswers(p)
  <2>1. PICK res : drawer' = [d EXCEPT ![p].result = res]
    BY <1>1, <1>5 DEF TestAnswers
  <2>2. PICK g : g = [f EXCEPT !.result = res]
    OBVIOUS
  <2>3. DOMAIN g = FieldNames /\ g.cred = f.cred
    BY <1>2, <2>2 DEF FieldNames
  <2>4. drawer' = [d EXCEPT ![p] = g]
    BY <1>1, <2>1, <2>2
  <2> QED  BY <1>3, <2>3, <2>4
<1> QED  BY <1>4, <1>5

\* Next goes past a router whose fields are valid, Back before it.
LEMMA StepsComplete ==
    ASSUME SoundForm(drawer), drawer.open, FormComplete(drawer),
           HandleNext \/ HandleBack \/ ConfirmInDrawer
    PROVE  FormComplete(drawer')
<1>1. PICK d, e : d = drawer /\ e = drawer'
  OBVIOUS
<1>2. DOMAIN d = DrawerNames /\ d.step \in 0..3
  BY <1>1 DEF SoundForm, IsForm, FormValid
<1>3. CASE HandleNext
  <2>1. e = [d EXCEPT !.step = @ + 1] /\ ValidateStep(d.step)
    BY <1>1, <1>3 DEF HandleNext, Typed
  <2>2. /\ e.step = d.step + 1 /\ e.ha = d.ha
        /\ e.primary = d.primary /\ e.secondary = d.secondary
    BY <1>2, <2>1 DEF DrawerNames
  <2>3. \A x : ValidFields(x) => x.cred # "password"
    BY DEF ValidFields
  <2>4. d.step = 1 => d.primary.cred # "password"
    BY <1>1, <2>1, <2>3 DEF ValidateStep
  <2>5. d.step = 2 /\ d.ha => d.secondary.cred # "password"
    BY <1>1, <2>1, <2>3 DEF ValidateStep
  <2>6. e.step > 1 => d.step = 1 \/ d.step > 1
    BY <1>2, <2>2
  <2>7. e.step > 2 => d.step = 2 \/ d.step > 2
    BY <1>2, <2>2
  <2> QED  BY <1>1, <2>2, <2>4, <2>5, <2>6, <2>7 DEF FormComplete
<1>4. CASE HandleBack
  <2>1. e = [d EXCEPT !.step = @ - 1]
    BY <1>1, <1>4 DEF HandleBack, Typed
  <2>2. /\ e.step = d.step - 1 /\ e.ha = d.ha
        /\ e.primary = d.primary /\ e.secondary = d.secondary
    BY <1>2, <2>1 DEF DrawerNames
  <2>3. (e.step > 1 => d.step > 1) /\ (e.step > 2 => d.step > 2)
    BY <1>2, <2>2
  <2> QED  BY <1>1, <2>2, <2>3 DEF FormComplete
<1>5. CASE ConfirmInDrawer
  <2>1. e = [d EXCEPT !.confirm = ~@]
    BY <1>1, <1>5 DEF ConfirmInDrawer, Typed
  <2>2. e.step = d.step /\ e.ha = d.ha /\ e.primary = d.primary /\ e.secondary = d.secondary
    BY <1>2, <2>1 DEF DrawerNames
  <2> QED  BY <1>1, <2>2 DEF FormComplete
<1> QED  BY <1>3, <1>4, <1>5

\* Every step of the drawer.
LEMMA DrawerComplete ==
    ASSUME SoundForm(drawer), drawer.open, FormComplete(drawer), ClusterDrawer
    PROVE  drawer'.open => FormComplete(drawer')
<1>1. IsForm(drawer)
  BY DEF SoundForm
<1>2. CASE ClusterNameStep
  <2>1. PICK d, n : d = drawer
             /\ drawer' = [d EXCEPT !.name = n,
                                    !.primary.name = DerivedName(d.primary, n, 1),
                                    !.secondary.name = DerivedName(d.secondary, n, 2)]
    BY <1>2 DEF ClusterNameStep, Typed
  <2>2. DOMAIN d = DrawerNames /\ d.step = 0
    BY <1>1, <1>2, <2>1 DEF IsForm, ClusterNameStep
  <2>3. drawer'.step = 0
    BY <2>1, <2>2 DEF DrawerNames
  <2> QED  BY <2>3 DEF FormComplete
<1>3. CASE PrimaryRouterStep
  <2>1. drawer'.step = 1
    BY <1>1, <1>3, RouterStepFields DEF PrimaryRouterStep, Positions
  <2> QED  BY <2>1 DEF FormComplete
<1>4. CASE SecondaryRouterStep
  <2>1. drawer.step = 2 /\ drawer.primary.cred # "password"
    BY <1>4 DEF SecondaryRouterStep, FormComplete
  <2>2. CASE RouterStep("secondary")
    <3>1. drawer'.step = 2 /\ drawer'.primary.cred # "password"
      BY <1>1, <2>1, <2>2, RouterStepFields DEF Positions
    <3> QED  BY <3>1 DEF FormComplete
  <2>3. CASE Typed({[drawer EXCEPT !.ha = ~@]})
    <3>1. PICK d, e : d = drawer /\ e = [d EXCEPT !.ha = ~@] /\ drawer' = e
      BY <2>3 DEF Typed
    <3>2. e.step = d.step /\ e.primary = d.primary
      BY <1>1, <3>1 DEF IsForm, DrawerNames
    <3> QED  BY <2>1, <3>1, <3>2 DEF FormComplete
  <2> QED  BY <1>4, <2>2, <2>3 DEF SecondaryRouterStep
<1>5. CASE HandleClose
  BY <1>5 DEF HandleClose, Typed, ClosedDrawer
<1>6. CASE HandleSubmit \/ HandleDelete
  BY <1>6 DEF HandleSubmit, HandleDelete
<1> QED
  BY <1>1, <1>2, <1>3, <1>4, <1>5, <1>6, StepsComplete, TestComplete DEF ClusterDrawer

\* The requests after a step.
LEMMA NextSent ==
    ASSUME RequestsInv, drawer.open => FormComplete(drawer), [Next]_vars
    PROVE  SentKept(requests, requests')
<1>1. SentKept(requests, requests)
  BY DEF SentKept
<1>2. CASE HandleSubmit
  <2>1. PICK d : d = drawer /\ d.step = 3 /\ FormComplete(d)
    BY <1>2 DEF HandleSubmit
  <2>2. d.primary.cred # "password" /\ (d.ha => d.secondary.cred # "password")
    BY <2>1 DEF FormComplete
  <2>3. \A k \in DOMAIN Payload(d) : Payload(d)[k].cred # "password"
    BY <2>2, PayloadComplete
  <2>4. CASE Arrive("update", "drawer", drawer.edit.id, drawer.name, Payload(drawer))
    BY <2>1, <2>3, <2>4, ArriveSent
  <2>5. CASE Arrive("create", "drawer", 0, drawer.name, Payload(drawer))
    BY <2>1, <2>3, <2>5, ArriveSent
  <2> QED  BY <1>2, <2>4, <2>5 DEF HandleSubmit
<1>3. CASE HandleDelete
  BY <1>3, ArriveSent DEF HandleDelete
<1>4. CASE HandleDeleteConfirm
  <2>1. PICK by, c : IF c = None THEN UNCHANGED requests
                     ELSE Arrive("delete", by, c.id, c.name, <<>>)
    BY <1>4 DEF HandleDeleteConfirm
  <2> QED  BY <1>1, <2>1, ArriveSent
<1>5. CASE OtherRequest
  <2>1. PICK op, name, inputs : Arrive(op, "other", seen.id, name, inputs)
    BY <1>5 DEF OtherRequest
  <2> QED  BY <2>1, ArriveSent
<1>6. ASSUME NEW i \in DOMAIN requests, Answer(i) PROVE SentKept(requests, requests')
  <2>1. PICK q, p, by : /\ q = requests[i] /\ p = [q EXCEPT !.by = by] /\ q.by # "other"
                        /\ by \in {"answered", "told"} /\ requests' = [requests EXCEPT ![i] = p]
    <3>1. /\ requests[i].by \in {"drawer", "page", "details"}
          /\ requests' = [requests EXCEPT ![i].by = IF requests[i].by = "drawer" THEN "answered"
                                                    ELSE "told"]
      BY <1>6 DEF Answer
    <3>2. PICK by : by = IF requests[i].by = "drawer" THEN "answered" ELSE "told"
      OBVIOUS
    <3> QED  BY <3>1, <3>2
  <2>2. IsRequest(q)
    BY <2>1 DEF RequestsInv, RequestsOK
  <2>3. p.inputs = q.inputs /\ p.by # "other"
    BY <2>1, <2>2 DEF IsRequest
  <2> QED  BY <2>1, <2>3, StatementSent
<1>7. CASE Serve
  BY <1>7, ServeSent DEF Serve
<1>8. CASE \/ ClusterNameStep \/ PrimaryRouterStep \/ SecondaryRouterStep \/ HandleNext
           \/ HandleBack \/ (\E p \in Positions : HandleTest(p)) \/ HandleClose \/ ConfirmInDrawer
           \/ FetchRouters \/ FetchClusters \/ HandleAdd \/ GroupRows \/ RouterDetail
           \/ CancelDelete \/ OtherLoads \/ (\E p \in Positions : TestAnswers(p))
           \/ UNCHANGED vars
  <2>1. UNCHANGED requests
    BY <1>8 DEF ClusterNameStep, PrimaryRouterStep, SecondaryRouterStep, HandleNext, HandleBack,
                HandleTest, HandleClose, ConfirmInDrawer, RouterStep, Typed, FetchRouters,
                FetchClusters, HandleAdd, GroupRows, GroupRow, RouterRow, RouterDetail,
                CancelDelete, OtherLoads, TestAnswers, HandleEdit, AskDelete, ShowDetail,
                serviceVars, vars
  <2> QED  BY <1>1, <2>1
<1> QED  BY <1>2, <1>3, <1>4, <1>5, <1>6, <1>7, <1>8 DEF Next, ClusterDrawer

\* The form after a step.
LEMMA NextComplete ==
    ASSUME TestedInv, PageValid, drawer.open => FormComplete(drawer), [Next]_vars
    PROVE  drawer'.open => FormComplete(drawer')
<1>1. drawer.open => SoundForm(drawer) /\ IsForm(drawer)
  BY DEF TestedInv, DrawerOK, FieldsOK, PageValid, SoundForm, IsForm
<1>2. SeenValid(None)
  BY DEF SeenValid
<1>3. ASSUME NEW id PROVE SeenValid(ClusterForRouter(id))
  <2> DEFINE of == IF clusterList = NoList THEN {}
                   ELSE {c \in clusterList : \E r \in c.routers : r.id = id}
  <2>1. ClusterForRouter(id) = None \/ ClusterForRouter(id) \in of
    BY DEF ClusterForRouter
  <2>2. \A c \in of : SeenValid(c)
    BY DEF PageValid
  <2> HIDE DEF of
  <2> QED  BY <1>2, <2>1, <2>2
<1>4. CASE UNCHANGED drawer
  BY <1>4
<1>5. CASE HandleAdd
  BY <1>2, <1>5, OpenComplete DEF HandleAdd
<1>6. ASSUME NEW r, HandleEdit(r) \/ AskDelete(r) \/ ShowDetail(r)
      PROVE  drawer'.open => FormComplete(drawer')
  <2>1. CASE HandleEdit(r)
    BY <1>3, <2>1, OpenComplete DEF HandleEdit
  <2>2. CASE AskDelete(r) \/ ShowDetail(r)
    BY <1>4, <2>2 DEF AskDelete, ShowDetail
  <2> QED  BY <1>6, <2>1, <2>2
<1>7. CASE GroupRows
  BY <1>6, <1>7 DEF GroupRows, GroupRow, RouterRow
<1>8. CASE RouterDetail
  BY <1>6, <1>8 DEF RouterDetail
<1>9. CASE CancelDelete
  BY <1>6, <1>9 DEF CancelDelete
<1>10. CASE ClusterDrawer
  <2>1. drawer.open
    BY <1>10 DEF ClusterDrawer, ClusterNameStep, PrimaryRouterStep, SecondaryRouterStep,
                 HandleNext, HandleBack, HandleTest, HandleClose, HandleSubmit, ConfirmInDrawer,
                 HandleDelete
  <2> QED  BY <1>1, <1>10, <2>1, DrawerComplete
<1>11. ASSUME NEW p \in Positions, TestAnswers(p) PROVE drawer'.open => FormComplete(drawer')
  <2>1. CASE drawer.open
    BY <1>1, <1>11, <2>1, TestComplete
  <2>2. CASE ~drawer.open
    BY <1>11, <2>2 DEF TestAnswers
  <2> QED  BY <2>1, <2>2
<1>12. CASE \E i \in DOMAIN requests : Answer(i)
  <2>1. drawer' = drawer \/ drawer' = ClosedDrawer
    BY <1>12 DEF Answer
  <2> QED  BY <2>1 DEF ClosedDrawer
<1>13. CASE \/ FetchRouters \/ FetchClusters \/ OtherLoads \/ OtherRequest \/ Serve
            \/ HandleDeleteConfirm \/ UNCHANGED vars
  BY <1>4, <1>13 DEF FetchRouters, FetchClusters, OtherLoads, OtherRequest, Serve,
                     HandleDeleteConfirm, vars
<1> QED  BY <1>5, <1>7, <1>8, <1>9, <1>10, <1>11, <1>12, <1>13 DEF Next

\* The inductive invariant.
BlankInv ==
    /\ TypesInv
    /\ AllComplete
    /\ \A r \in routers : RowTold(r, requests)
    /\ drawer.open => FormComplete(drawer)

\* Every step keeps the invariant.
LEMMA NextTold ==
    ASSUME BlankInv, [Next]_vars
    PROVE  BlankInv'
<1>1. RequestsInv /\ TestedInv /\ PageValid /\ TypesInv'
  BY NextTypes DEF BlankInv, TypesInv, RolesInv
<1>2. SentKept(requests, requests')
  BY <1>1, NextSent DEF BlankInv
<1>3. AllComplete' /\ \A id : ToldBlank(id, requests) => ToldBlank(id, requests')
  BY <1>2, ToldStays DEF BlankInv, AllComplete
<1>4. drawer'.open => FormComplete(drawer')
  BY <1>1, NextComplete DEF BlankInv
<1>5. \A r \in routers' : RowTold(r, requests')
  <2>1. CASE Serve
    BY <1>1, <2>1, ServeTold DEF Serve, BlankInv
  <2>2. CASE ~Serve
    <3>1. UNCHANGED routers
      BY <2>2 DEF Next, ClusterDrawer, ClusterNameStep, PrimaryRouterStep, SecondaryRouterStep,
                  HandleNext, HandleBack, HandleTest, HandleClose, HandleSubmit, ConfirmInDrawer,
                  HandleDelete, RouterStep, Typed, FetchRouters, FetchClusters, HandleAdd,
                  GroupRows, GroupRow, RouterRow, RouterDetail, CancelDelete, OtherLoads,
                  OtherRequest, TestAnswers, HandleEdit, AskDelete, ShowDetail,
                  HandleDeleteConfirm, Answer, serviceVars, vars
    <3> QED  BY <1>3, <3>1 DEF BlankInv, RowTold
  <2> QED  BY <2>1, <2>2
<1> QED  BY <1>1, <1>3, <1>4, <1>5 DEF BlankInv

\* There is nothing at first.
LEMMA InitTold == Init => BlankInv
<1>1. Init => AllComplete /\ (\A r \in routers : RowTold(r, requests)) /\ ~drawer.open
  BY DEF Init, InitPage, AllComplete, ClosedDrawer
<1> QED  BY <1>1, InitTypes DEF BlankInv

\* A router's password is never lost and its user name only blanked by a
\* request from elsewhere that names it with a password alone, whatever the
\* page's forms leave empty or clear after they were validated, whichever
\* statements of a request fail and however requests interleave
\* (cluster/service.go, validateUpdateRequest, Create and Update;
\* ClusterDrawer.tsx, validateStep and handleSubmit).
THEOREM CredentialsStay == Spec => []BlankUserOnlyAsSent
<1>1. BlankInv => BlankUserOnlyAsSent
  BY DEF BlankInv, BlankUserOnlyAsSent, RowTold, ToldBlank, NamesBlank
<1> QED  BY <1>1, InitTold, NextTold, PTL DEF Spec

=============================================================================
