---------------------------- MODULE RoutersPage ----------------------------
(***************************************************************************)
(* The routers page of the browser (features/routers): the cached lists of *)
(* routers and of clusters, the details of a router, the delete dialog,    *)
(* and the drawer that creates and edits a cluster in four steps and tests *)
(* connections, with the requests in flight, whose answers may arrive      *)
(* after their drawer was closed. Another administrator works on the       *)
(* clusters at the same time.                                              *)
(***************************************************************************)
EXTENDS ClusterService

CONSTANT NoName    \* a name left empty

VARIABLES
    routerList,   \* the cached answer of GET /routers
    clusterList,  \* the cached answer of GET /clusters
    stale,        \* which of the two are being fetched
    drawer,       \* the cluster drawer
    tests,        \* connection tests under way: the host tested, by position
    detail,       \* the router whose details are open
    ask,          \* the router whose cluster the delete dialog asks about
    seen          \* a cluster as the other administrator once loaded it

lists == <<routerList, clusterList, stale>>
overlays == <<detail, ask>>
vars == <<clusters, routers, requests, routerList, clusterList, stale, drawer,
          tests, detail, ask, seen>>

None == [id |-> 0]
NoList == {None}           \* not loaded yet
NoResult == [shown |-> FALSE]
Positions == {"primary", "secondary"}

-----------------------------------------------------------------------------
(* The lists.                                                              *)

\* groupRouters: the routers of one cluster, the master first.
GroupRouters(list) ==
    {[cluster |-> c,
      routers |-> {r \in list : r.cluster = c},
      mode |-> IF Cardinality({r \in list : r.cluster = c}) = 2 THEN "ha" ELSE "standalone",
      first |-> LET of == {r \in list : r.cluster = c}
                    masters == {r \in of : r.role = "master"}
                IN  CHOOSE r \in IF masters = {} THEN of ELSE masters : TRUE] :
        c \in {r.cluster : r \in list}}

Groups == IF routerList = NoList THEN {} ELSE GroupRouters(routerList)

\* clusterForRouter.
ClusterForRouter(id) ==
    LET of == IF clusterList = NoList THEN {}
              ELSE {c \in clusterList : \E r \in c.routers : r.id = id}
    IN  IF of = {} THEN None ELSE CHOOSE c \in of : TRUE

FetchRouters ==
    /\ "routers" \in stale
    /\ routerList' = routers
    /\ stale' = stale \ {"routers"}
    /\ UNCHANGED <<serviceVars, clusterList, drawer, tests, overlays, seen>>

FetchClusters ==
    /\ "clusters" \in stale
    /\ clusterList' = {ClusterResponse(c) : c \in clusters}
    /\ stale' = stale \ {"clusters"}
    /\ UNCHANGED <<serviceVars, routerList, drawer, tests, overlays, seen>>

-----------------------------------------------------------------------------
(* The drawer.                                                             *)

\* Of the fields of a router the address and the credentials are kept; the
\* others are filled in with the address. "result" is the answer of the
\* last test and "for" the address it was for; "late" records that a field
\* changed while the test ran; "edited" that the name was typed by hand.
Fields(name, host, edited) ==
    [name |-> name, host |-> host, cred |-> "none", result |-> NoResult, late |-> FALSE,
     edited |-> edited]

RouterOf(cluster, role) ==
    LET of == {r \in cluster.routers : r.role = role}
    IN  IF of = {} THEN None ELSE CHOOSE r \in of : TRUE

FieldsOf(router) ==
    IF router = None THEN Fields(NoName, NoHost, TRUE)
                     ELSE Fields(router.name, router.host, TRUE)

ClosedDrawer == [open |-> FALSE]

\* buildInitialValues, and the effect that resets the drawer when it opens.
BuildInitialValues(cluster) ==
    [open |-> TRUE, edit |-> cluster, step |-> 0, confirm |-> FALSE,
     name |-> IF cluster = None THEN NoName ELSE cluster.name,
     primary |-> IF cluster = None THEN Fields(NoName, NoHost, FALSE)
                 ELSE FieldsOf(RouterOf(cluster, "master")),
     secondary |-> IF cluster = None THEN Fields(NoName, NoHost, FALSE)
                   ELSE FieldsOf(RouterOf(cluster, "backup")),
     ha |-> cluster # None /\ RouterOf(cluster, "backup") # None]

Late(p, d) == IF p \in DOMAIN tests THEN [d EXCEPT ![p].late = TRUE] ELSE d
OpenDrawer(cluster) ==
    drawer' = Late("primary", Late("secondary", BuildInitialValues(cluster)))

IsEditing == drawer.edit # None

Typed(drawers) ==
    /\ drawer' \in drawers
    /\ UNCHANGED <<serviceVars, lists, tests, overlays, seen>>

\* handleClusterNameChange: the names of the routers follow the name of the
\* cluster unless they are those of an existing cluster or were edited.
DerivedName(f, name, k) ==
    IF f.edited THEN f.name ELSE IF name = NoName THEN NoName ELSE <<name, k>>
ClusterNameStep ==
    /\ drawer.open /\ drawer.step = 0
    /\ Typed({[drawer EXCEPT !.name = n,
                             !.primary.name = DerivedName(drawer.primary, n, 1),
                             !.secondary.name = DerivedName(drawer.secondary, n, 2)] :
                n \in Names \cup {NoName}})

\* Mutant: a changed field keeps the result of the test.
FieldChangeKeepsResult(d, p) == Late(p, d)

\* handlePrimaryFieldChange, handleSecondaryFieldChange.
FieldChange(d, p) == Late(p, [d EXCEPT ![p].result = NoResult])

RouterStep(p) ==
    Typed({FieldChange([drawer EXCEPT ![p].host = h], p) : h \in Hosts \cup {NoHost}}
          \cup {FieldChange([drawer EXCEPT ![p].cred = c], p) : c \in Creds}
          \cup {[drawer EXCEPT ![p].name = n, ![p].edited = TRUE] : n \in RouterNames})

PrimaryRouterStep == drawer.open /\ drawer.step = 1 /\ RouterStep("primary")

\* The switch shows and hides the fields of the backup; it keeps them.
SecondaryRouterStep ==
    /\ drawer.open /\ drawer.step = 2
    /\ \/ drawer.ha /\ RouterStep("secondary")
       \/ Typed({[drawer EXCEPT !.ha = ~@]})

\* The password may be empty when a cluster is edited, also that of a
\* backup the cluster does not have yet.
ValidFields(f) ==
    /\ f.name # NoName /\ f.host # NoHost
    /\ f.cred \in IF IsEditing THEN {"user", "both"} ELSE {"both"}

\* validateStep.
ValidateStep(step) ==
    CASE step = 0 -> drawer.name # NoName
      [] step = 1 -> ValidFields(drawer.primary)
      [] step = 2 -> drawer.ha => ValidFields(drawer.secondary)
      [] OTHER -> TRUE

HandleNext ==
    /\ drawer.open /\ drawer.step < 3
    /\ ValidateStep(drawer.step)
    /\ Typed({[drawer EXCEPT !.step = @ + 1]})

HandleBack ==
    /\ drawer.open /\ drawer.step > 0
    /\ Typed({[drawer EXCEPT !.step = @ - 1]})

\* handleTestPrimary, handleTestSecondary: the button waits for the answer,
\* also that of a test an earlier drawer sent.
HandleTest(p) ==
    /\ drawer.open
    /\ IF p = "primary" THEN drawer.step = 1 ELSE drawer.step = 2 /\ drawer.ha
    /\ p \notin DOMAIN tests
    /\ tests' = [q \in DOMAIN tests \cup {p} |->
                   IF q = p THEN <<drawer[p].host, drawer[p].cred>> ELSE tests[q]]
    /\ drawer' = [drawer EXCEPT ![p].late = FALSE]
    /\ UNCHANGED <<serviceVars, lists, overlays, seen>>

\* The answer is shown by whatever drawer there is then; a closed one
\* forgets it when it opens.
TestAnswers(p) ==
    /\ p \in DOMAIN tests
    /\ drawer' = IF ~drawer.open THEN drawer
                 ELSE [drawer EXCEPT ![p].result =
                         [shown |-> TRUE, for |-> tests[p], late |-> drawer[p].late]]
    /\ tests' = [q \in DOMAIN tests \ {p} |-> tests[q]]
    /\ UNCHANGED <<serviceVars, lists, overlays, seen>>

\* handleClose: Cancel, the close button, Escape and a click outside.
HandleClose ==
    /\ drawer.open
    /\ Typed({ClosedDrawer})

-----------------------------------------------------------------------------
(* Requests of the page.                                                   *)

Pending(ops) ==
    \E i \in DOMAIN requests : requests[i].by = "drawer" /\ requests[i].op \in ops

InputOf(d, p, role) ==
    LET row == IF d.edit = None THEN None ELSE RouterOf(d.edit, role)
    IN  Input(IF row = None THEN NewRouter ELSE row.id,
              d[p].name, d[p].host, role, d[p].cred)

\* handleSubmit sends the backup only when the switch is on.
Payload(d) ==
    LET primary == InputOf(d, "primary", "master")
    IN  IF d.ha THEN <<primary, InputOf(d, "secondary", "backup")>> ELSE <<primary>>

HandleSubmit ==
    /\ drawer.open /\ drawer.step = 3
    /\ ~Pending({"create", "update", "delete"})
    /\ IF IsEditing
       THEN Arrive("update", "drawer", drawer.edit.id, drawer.name, Payload(drawer))
       ELSE Arrive("create", "drawer", 0, drawer.name, Payload(drawer))
    /\ UNCHANGED <<clusters, routers, lists, drawer, tests, overlays, seen>>

\* The last step of an existing cluster asks before it deletes.
ConfirmInDrawer ==
    /\ drawer.open /\ drawer.step = 3 /\ IsEditing
    /\ Typed({[drawer EXCEPT !.confirm = ~@]})

HandleDelete ==
    /\ drawer.open /\ drawer.step = 3 /\ drawer.confirm
    /\ ~Pending({"delete"})
    /\ Arrive("delete", "drawer", drawer.edit.id, drawer.edit.name, <<>>)
    /\ UNCHANGED <<clusters, routers, lists, drawer, tests, overlays, seen>>

\* handleDeleteConfirm of the page finds the cluster in its list, or does
\* nothing; the dialog closes.
HandleDeleteConfirm ==
    /\ ask # None
    /\ LET c == ClusterForRouter(ask.id)
           by == IF detail # None /\ detail.id = ask.id THEN "details" ELSE "page"
       IN  IF c = None THEN UNCHANGED requests ELSE Arrive("delete", by, c.id, c.name, <<>>)
    /\ ask' = None
    /\ UNCHANGED <<clusters, routers, lists, drawer, tests, detail, seen>>

\* A success invalidates both lists. That of a drawer closes whichever
\* drawer is open; that of the latest delete of the dialog clears whatever
\* the dialog asks about, and the details if they showed its router when it
\* was sent. A failure only shows a message, also when statements before it
\* were committed.
Answer(i) ==
    LET q == requests[i]
        ok == q.next = "ok"
        called == ok /\ ~\E j \in DOMAIN requests :
                             /\ j > i /\ requests[j].op = "delete"
                             /\ requests[j].by \in {"page", "details", "told"}
    IN  /\ q.by \in {"drawer", "page", "details"}
        /\ ~Running(q)
        /\ requests' = [requests EXCEPT ![i].by = IF q.by = "drawer" THEN "answered"
                                                 ELSE "told"]
        /\ stale' = IF ok THEN {"routers", "clusters"} ELSE stale
        /\ drawer' = IF ok /\ q.by = "drawer" THEN ClosedDrawer ELSE drawer
        /\ ask' = IF called /\ q.by # "drawer" THEN None ELSE ask
        /\ detail' = IF called /\ q.by = "details" THEN None ELSE detail
        /\ UNCHANGED <<clusters, routers, routerList, clusterList, tests, seen>>

-----------------------------------------------------------------------------
(* The page.                                                               *)

Uncovered == routerList # NoList /\ ~drawer.open /\ ask = None

\* handleAdd.
HandleAdd ==
    /\ Uncovered /\ detail = None
    /\ OpenDrawer(None)
    /\ UNCHANGED <<serviceVars, lists, tests, overlays, seen>>

\* handleEdit: a router whose cluster is not in the list of clusters opens
\* the drawer for a new cluster.
HandleEdit(r) ==
    /\ OpenDrawer(ClusterForRouter(r.id))
    /\ detail' = None
    /\ UNCHANGED <<serviceVars, lists, tests, ask, seen>>

AskDelete(r) ==
    /\ ask' = r
    /\ UNCHANGED <<serviceVars, lists, drawer, tests, detail, seen>>

ShowDetail(r) ==
    /\ detail' = r
    /\ UNCHANGED <<serviceVars, lists, drawer, tests, ask, seen>>

\* The row of a group edits and deletes the cluster of its first router; the
\* rows of its routers, when the group is unfolded, open their details.
GroupRow(g) == HandleEdit(g.first) \/ AskDelete(g.first)
RouterRow(r) == ShowDetail(r)
GroupRows ==
    /\ Uncovered /\ detail = None
    /\ \E g \in Groups : GroupRow(g) \/ \E r \in g.routers : RouterRow(r)

\* The details of a router no longer in the list have no buttons; asking to
\* delete leaves them open.
RouterDetail ==
    /\ Uncovered /\ detail # None
    /\ \/ ShowDetail(None)
       \/ \E r \in routerList : r.id = detail.id /\ (HandleEdit(r) \/ AskDelete(r))

CancelDelete == ask # None /\ AskDelete(None)

ClusterDrawer ==
    \/ ClusterNameStep
    \/ PrimaryRouterStep
    \/ SecondaryRouterStep
    \/ HandleNext
    \/ HandleBack
    \/ \E p \in Positions : HandleTest(p)
    \/ HandleClose
    \/ HandleSubmit
    \/ ConfirmInDrawer
    \/ HandleDelete

-----------------------------------------------------------------------------
(* The other administrator loads a cluster that has a router, and later    *)
(* saves it with another name, with or without a backup, or deletes it. No *)
(* form checks what such a request says of the credentials.                *)

OtherLoads ==
    /\ \E c \in clusters :
          /\ RoutersOf(c.id) # {}
          /\ seen' = ClusterResponse(c)
    /\ UNCHANGED <<serviceVars, lists, drawer, tests, overlays>>

OtherInputs(name, host, cred) ==
    LET d == [BuildInitialValues(seen) EXCEPT !.primary.cred = cred]
        backup == [d.secondary EXCEPT !.host = IF d.ha THEN @ ELSE host, !.cred = "both",
                                      !.name = IF d.ha THEN @ ELSE <<name, 2>>]
    IN  {Payload([d EXCEPT !.ha = FALSE]), Payload([d EXCEPT !.ha = TRUE, !.secondary = backup])}

OtherRequest ==
    /\ seen # None
    /\ \/ \E name \in Names, host \in Hosts, cred \in Creds :
             \E inputs \in OtherInputs(name, host, cred) :
                Arrive("update", "other", seen.id, name, inputs)
       \/ Arrive("delete", "other", seen.id, seen.name, <<>>)
    /\ UNCHANGED <<clusters, routers, lists, drawer, tests, overlays, seen>>

Serve == \E i \in DOMAIN requests : ServeStep(i) /\ UNCHANGED <<lists, drawer, tests, overlays, seen>>

Next ==
    \/ FetchRouters
    \/ FetchClusters
    \/ HandleAdd
    \/ GroupRows
    \/ RouterDetail
    \/ CancelDelete
    \/ HandleDeleteConfirm
    \/ ClusterDrawer
    \/ \E p \in Positions : TestAnswers(p)
    \/ \E i \in DOMAIN requests : Answer(i)
    \/ OtherLoads
    \/ OtherRequest
    \/ Serve

InitPage ==
    /\ requests = <<>>
    /\ routerList = NoList
    /\ clusterList = NoList
    /\ stale = {"routers", "clusters"}
    /\ drawer = ClosedDrawer
    /\ tests = <<>>
    /\ detail = None
    /\ ask = None
    /\ seen = None

Init == clusters = {} /\ routers = {} /\ InitPage

Spec == Init /\ [][Next]_vars

-----------------------------------------------------------------------------
(* Properties.                                                             *)

TypeOK ==
    /\ \A c \in clusters : c.name \in Names
    /\ \A r \in routers : /\ \E c \in clusters : c.id = r.cluster
                          /\ r.role \in {"master", "backup"} /\ r.host \in Hosts
    /\ \A r, s \in routers : r # s => r.id # s.id /\ r.name # s.name /\ r.host # s.host
    /\ \A c, d \in clusters : c # d => c.id # d.id /\ c.name # d.name
    /\ stale \subseteq {"routers", "clusters"}
    /\ drawer.open => drawer.step \in 0..3 /\ (drawer.confirm => IsEditing) /\ ask = None

\* A result of a connection test that is shown, and the Tested badge of the
\* last step, is for the address and the credentials in the form, unless a
\* field changed, or the drawer was opened anew, while the test ran
\* (handlePrimaryFieldChange clears only a result that is there already).
TestedMeansTested ==
    drawer.open =>
        \A p \in Positions :
            LET f == drawer[p] IN
            f.result.shown /\ ~f.result.late => f.result.for = <<f.host, f.cred>>

\* A router is never stored without its password, and without a user name
\* only after a request from elsewhere named it with a password alone:
\* validateUpdateRequest lets that through for a router that exists, and
\* Update then encrypts the blank user name. No form of the page sends it,
\* whatever was typed, gone back to and cleared before it is saved.
BlankUserOnlyAsSent ==
    \A r \in routers :
        \/ r.cred = "both"
        \/ /\ r.cred = "password"
           /\ \E i \in DOMAIN requests :
                 /\ requests[i].by = "other"
                 /\ \E k \in DOMAIN requests[i].inputs :
                       LET input == requests[i].inputs[k]
                       IN  input.id = r.id /\ input.cred = "password"

=============================================================================
