---------------------------- MODULE TunnelsPage ----------------------------
(***************************************************************************)
(* The tunnels page of the browser (features/tunnels) on top of the tunnel *)
(* service: a cached list of merged tunnels per type, fetched router by    *)
(* router, the form that adds and edits them (one step for GRE, four for   *)
(* IPsec), the delete dialog, and the requests in flight, whose answers    *)
(* may arrive after their form or dialog was dismissed. Another            *)
(* administrator sends requests of its own.                                *)
(***************************************************************************)
EXTENDS TunnelService, SequencesExt

CONSTANTS
    MaxCopies,     \* how often the user enters a network among the routes
    MaxSubnets,    \* how many networks the user enters as subnets
    OtherBodies,   \* what the other administrator may send
    Existing       \* tunnels the routers may have before

ASSUME CopiesAssumption == MaxCopies \in Nat
ASSUME SubnetsAssumption == MaxSubnets \in Nat

CreateGRETunnelPayload ==
    {b \in Body : b.type = "gre" /\ b.mode = "route" /\ b.transit = NoTransit
                  /\ b.routes = NoRoutes /\ b.locals = <<>> /\ b.remotes = <<>>}
CreateIPsecTunnelPayload == {b \in Body : b.type = "ipsec"}

\* The other administrator has the same form, and so had whoever made the
\* tunnels that exist: it sends no policy-based tunnel without a subnet and
\* has a card for every router of the cluster.
ASSUME BodiesAssumption ==
    \A b \in OtherBodies \cup Existing :
        /\ b \in CreateGRETunnelPayload \cup CreateIPsecTunnelPayload
        /\ b.type = "ipsec" /\ b.mode = "policy" => b.locals # <<>>
        /\ b.endpoints = Routers

VARIABLES
    list,      \* list[type]: the cached answer of each of the list queries
    fetching,  \* the lists of which a fetch is under way
    reading,   \* reading[type]: what the routers read so far answered to it
    doubt,     \* the lists of whose latest fetch a router answered something
               \* else than it had before or after a group, or which it missed
    cluster,   \* the cluster query has answered: its routers are known
    here,      \* the URL names this cluster, not another one
    form,      \* the drawer
    details,   \* the row whose details are shown
    target     \* the tunnel the delete dialog asks about

queryVars == <<list, fetching, reading, doubt, cluster, here>>
overlays == <<form, details, target>>
vars == <<conf, requests, list, fetching, reading, doubt, cluster, here, form, details, target>>

NoTunnel == [name |-> "none"]
Unloaded == {NoTunnel}      \* no answer yet
NoAnswers == [r \in {} |-> {}]

ClosedForm == [open |-> FALSE]
ClusterRouters == IF cluster THEN Routers ELSE {}

-----------------------------------------------------------------------------
(* The list.                                                               *)

Loaded == \A type \in Types : list[type] # Unloaded

\* mergedByName: an IPsec tunnel hides a GRE tunnel of its name.
MergedByName(name) ==
    LET named(type) == {t \in list[type] \ Unloaded : t.name = name}
    IN  IF named("ipsec") # {} THEN CHOOSE t \in named("ipsec") : TRUE
        ELSE IF named("gre") # {} THEN CHOOSE t \in named("gre") : TRUE
        ELSE NoTunnel

\* What a row, the details and the delete dialog know of a tunnel; "own" are
\* the attributes its type has for itself.
DisplayTunnel(t, own) ==
    [id |-> t.name, name |-> t.name, type |-> t.type, disabled |-> t.disabled, own |-> own]
MergedGREToDisplay(t) == DisplayTunnel(t, t.settings)
MergedIPsecToDisplay(t) == DisplayTunnel(t, t.mode)

\* The rows of the table.
Rows ==
    {MergedGREToDisplay(t) : t \in list["gre"] \ Unloaded}
    \cup {MergedIPsecToDisplay(t) : t \in list["ipsec"] \ Unloaded}

\* The list handler (ListGRE, ListIPsec) reads the next router, also when
\* the page has turned to another cluster.
FetchRouter(type, r) ==
    /\ type \in fetching /\ r \notin DOMAIN reading[type]
    /\ \E seen \in {OfType(objects, type) : objects \in Answers(r, type)} :
          /\ reading' = [reading EXCEPT ![type] =
                           [s \in DOMAIN @ \cup {r} |->
                              IF s = r THEN seen ELSE reading[type][s]]]
          /\ doubt' = IF seen = OfType(conf[r], type) THEN doubt ELSE doubt \cup {type}
    /\ UNCHANGED <<conf, requests, list, fetching, cluster, here, overlays>>

ListArrives(type) ==
    /\ type \in fetching /\ DOMAIN reading[type] = Routers
    /\ list' = [list EXCEPT ![type] = Listed(reading[type], type)]
    /\ fetching' = fetching \ {type}
    /\ reading' = [reading EXCEPT ![type] = NoAnswers]
    /\ UNCHANGED <<conf, requests, doubt, cluster, here, overlays>>

Fetch == \E type \in Types : ListArrives(type) \/ \E r \in Routers : FetchRouter(type, r)

-----------------------------------------------------------------------------
(* The form. "ready" stands for the fields validateGRE and step 0 of       *)
(* validateIPsecStep look at: the name, the remote address of every        *)
(* endpoint and, for a new IPsec tunnel, the key.                          *)

Form(type, edit, ready, v, endpoints) ==
    [open |-> TRUE, type |-> type, edit |-> edit, step |-> 0, ready |-> ready,
     name |-> IF edit = NoTunnel THEN "" ELSE edit.name,
     settings |-> v.settings, mode |-> v.mode, transit |-> v.transit,
     routes |-> v.routes, locals |-> v.locals, remotes |-> v.remotes,
     endpoints |-> endpoints, saving |-> FALSE]

Defaults ==
    [settings |-> CHOOSE s \in Settings : TRUE, mode |-> "route",
     transit |-> NoTransit, routes |-> NoRoutes, locals |-> <<>>, remotes |-> <<>>]

\* getInitialGREState: a merged GRE tunnel fills the form. Anything else
\* leaves it blank, and a blank form that edits has a name field the user
\* cannot fill.
InitialGREForm(edit, routers) ==
    IF edit # NoTunnel /\ edit.type = "gre"
    THEN Form("gre", edit, TRUE, edit, edit.endpoints)
    ELSE Form("gre", edit, FALSE, Defaults, routers)

\* getInitialIPsecState.
InitialIPsecForm(edit, routers) ==
    IF edit # NoTunnel /\ edit.type = "ipsec"
    THEN Form("ipsec", edit, TRUE, edit, edit.endpoints)
    ELSE Form("ipsec", edit, FALSE, Defaults, routers)

\* The effect that resets the form when it opens and when the routers of
\* the cluster change.
InitialForm(type, edit, routers) ==
    IF type = "gre" THEN InitialGREForm(edit, routers) ELSE InitialIPsecForm(edit, routers)

\* Without both lists the page is a skeleton. The form and the dialog cover
\* it while they are open; the details have their own Edit and Delete.
Uncovered == here /\ Loaded /\ ~form.open /\ target = NoTunnel
Buttons == Uncovered /\ details = NoTunnel

\* handleAddGRE, handleAddIPsec.
Add(type) ==
    /\ form' = InitialForm(type, NoTunnel, ClusterRouters)
    /\ UNCHANGED <<conf, requests, queryVars, details, target>>
AddTunnelButton == Buttons /\ \E type \in Types : Add(type)

\* handleEdit of a row, or of the details of an earlier row: the form takes
\* the tunnel the list now has under that name and, when the list has none,
\* becomes a form for a new tunnel.
Edit(t) ==
    /\ form' = InitialForm(t.type, MergedByName(t.name), ClusterRouters)
    /\ details' = NoTunnel
    /\ UNCHANGED <<conf, requests, queryVars, target>>

\* Mutant: the details stay open under the dialog.
AskOverDetails(t) == target' = t /\ UNCHANGED <<conf, requests, queryVars, form, details>>

\* handleDelete.
AskDelete(t) ==
    /\ target' = t
    /\ details' = NoTunnel
    /\ UNCHANGED <<conf, requests, queryVars, form>>

\* handleRowClick, handleDetailClose.
ShowDetails(t) ==
    /\ details' = t
    /\ UNCHANGED <<conf, requests, queryVars, form, target>>

\* A row of the table opens its details and has an edit and a delete button.
TableRow == Buttons /\ \E t \in Rows : Edit(t) \/ AskDelete(t) \/ ShowDetails(t)

\* The details close, edit and delete.
DetailsDrawer ==
    /\ Uncovered /\ details # NoTunnel
    /\ Edit(details) \/ AskDelete(details) \/ ShowDetails(NoTunnel)

\* The routers of the cluster arrive.
ClusterLoads ==
    /\ here
    /\ ~cluster
    /\ cluster' = TRUE
    /\ form' = IF form.open THEN InitialForm(form.type, form.edit, Routers) ELSE form
    /\ UNCHANGED <<conf, requests, list, fetching, reading, doubt, here, details, target>>

LastStep == IF form.type = "gre" THEN 0 ELSE 3

\* What typing makes of the name and of the endpoint cards: a new form has a
\* name field; a card has the tunnel addresses if asked to show them. A form
\* that edits but could not be filled has no name and cannot become ready.
Blank(f) == f.edit # NoTunnel /\ f.edit.type # f.type
NameField(f) ==
    IF f.edit = NoTunnel THEN {[f EXCEPT !.name = n] : n \in Names} ELSE {f}
UpdateEndpoint(f, ready, transit) == [f EXCEPT !.ready = ready, !.transit = transit]
RouterEndpointCards(f, showTunnelAddresses) ==
    {UpdateEndpoint(f, ready, x) :
        ready \in IF Blank(f) THEN {FALSE} ELSE BOOLEAN,
        x \in IF showTunnelAddresses THEN Transits \cup {NoTransit} ELSE {f.transit}}
SettingFields(f) == {[f EXCEPT !.settings = s] : s \in Settings}

Typed(forms) ==
    /\ form' \in forms
    /\ UNCHANGED <<conf, requests, queryVars, details, target>>

\* The flat form of a GRE tunnel.
GREFields ==
    /\ form.open /\ form.type = "gre"
    /\ \/ \E f \in NameField(form) : Typed(RouterEndpointCards(f, FALSE))
       \/ Typed(SettingFields(form))

\* Step 0 of an IPsec tunnel.
IPsecConnectionStep ==
    /\ form.open /\ form.type = "ipsec" /\ form.step = 0
    /\ \E f \in NameField(form), mode \in {"route", "policy"} :
          Typed(RouterEndpointCards([f EXCEPT !.mode = mode], mode = "route"))

IPsecPhase1Step == form.open /\ form.step = 1 /\ Typed(SettingFields(form))
IPsecPhase2Step == form.open /\ form.step = 2 /\ Typed(SettingFields(form))

\* SubnetList adds a network at the end, whether or not it is there
\* already, and removes any of them. The order of routes does not matter.
EditSubnets(subnets) ==
    {Append(subnets, n) : n \in IF Len(subnets) < MaxSubnets THEN Nets ELSE {}}
    \cup {RemoveAt(subnets, i) : i \in 1..Len(subnets)}
RouteEdits ==
    {[form.routes EXCEPT ![n] = @ + 1] : n \in {m \in Nets : form.routes[m] < MaxCopies}}
    \cup {[form.routes EXCEPT ![n] = @ - 1] : n \in {m \in Nets : form.routes[m] > 0}}

\* Step 3 edits the routes of a route-based tunnel and the subnets of a
\* policy-based one.
IPsecNetworksStep ==
    /\ form.open /\ form.step = 3
    /\ \/ /\ form.mode = "route"
          /\ Typed({[form EXCEPT !.routes = routes] : routes \in RouteEdits})
       \/ /\ form.mode = "policy"
          /\ \/ Typed({[form EXCEPT !.locals = l] : l \in EditSubnets(form.locals)})
             \/ Typed({[form EXCEPT !.remotes = l] : l \in EditSubnets(form.remotes)})

ValidConnection(f) == f.ready
ValidNetworks(f) ==
    IF f.mode = "policy" THEN f.locals # <<>> /\ f.remotes # <<>>
                         ELSE f.routes # NoRoutes
\* validateGRE and validateIPsecStep.
ValidStep(f) ==
    /\ f.step = 0 => ValidConnection(f)
    /\ f.step = 3 => ValidNetworks(f)

\* Mutant: the step it leaves is not validated.
NextUnvalidated ==
    /\ form.open /\ form.step < LastStep
    /\ Typed({[form EXCEPT !.step = @ + 1]})

\* handleNext validates the step it leaves, handleBack does not.
HandleNext ==
    /\ form.open /\ form.step < LastStep
    /\ ValidStep(form)
    /\ form' = [form EXCEPT !.step = @ + 1]
    /\ UNCHANGED <<conf, requests, queryVars, details, target>>
HandleBack ==
    /\ form.open /\ form.step > 0
    /\ form' = [form EXCEPT !.step = @ - 1]
    /\ UNCHANGED <<conf, requests, queryVars, details, target>>

\* Cancel, the close button, Escape and a click outside close the drawer at
\* any time, also while the form is saving.
Close ==
    /\ form.open
    /\ form' = ClosedForm
    /\ UNCHANGED <<conf, requests, queryVars, details, target>>

\* The payload always says disabled: false.
Payload(f) ==
    [type |-> f.type, settings |-> f.settings, disabled |-> FALSE, mode |-> f.mode,
     transit |-> f.transit, routes |-> f.routes, locals |-> f.locals,
     remotes |-> f.remotes, endpoints |-> f.endpoints]

\* handleSubmit validates the step it is on.
Submit ==
    /\ here /\ form.open /\ ~form.saving /\ form.step = LastStep
    /\ ValidStep(form)
    /\ Arrive(IF form.edit = NoTunnel THEN "create" ELSE "update",
              form.name, Payload(form), "page")
    /\ form' = [form EXCEPT !.saving = TRUE]
    /\ UNCHANGED <<conf, queryVars, details, target>>

-----------------------------------------------------------------------------
(* Deleting.                                                               *)

DeleteBody(type) ==
    [type |-> type, settings |-> Defaults.settings, disabled |-> FALSE, mode |-> "route",
     transit |-> NoTransit, routes |-> NoRoutes, locals |-> <<>>, remotes |-> <<>>,
     endpoints |-> {}]

\* The dialog sends the request and closes at once.
ConfirmDelete ==
    /\ target # NoTunnel
    /\ Arrive("delete", target.name, DeleteBody(target.type), "page")
    /\ target' = NoTunnel
    /\ UNCHANGED <<conf, queryVars, form, details>>

CancelDelete ==
    /\ target # NoTunnel
    /\ target' = NoTunnel
    /\ UNCHANGED <<conf, requests, queryVars, form, details>>

-----------------------------------------------------------------------------
(* Answers.                                                                *)

\* onSuccess invalidates the list of its type for the cluster the page shows
\* by then: its fetch starts anew.
Invalidate(q) ==
    LET type == q.body.type
    IN  IF q.reply # "ok" THEN UNCHANGED <<fetching, reading, doubt>>
        ELSE IF here
             THEN /\ fetching' = fetching \cup {type}
                  /\ reading' = [reading EXCEPT ![type] = NoAnswers]
                  /\ doubt' = doubt \ {type}
             ELSE /\ doubt' = doubt \cup ({type} \cap fetching)
                  /\ UNCHANGED <<fetching, reading>>

\* Mutant: an error leaves saving set.
AnswerWithoutFinally(q) ==
    /\ form' = IF form.open /\ q.reply = "ok" THEN ClosedForm ELSE form
    /\ UNCHANGED <<details, target>>

\* The continuation of handleSubmit closes the form, or shows the error and
\* ends saving, whichever form is then open.
AnswerForm(q) ==
    /\ form' = IF ~form.open THEN form
               ELSE IF q.reply = "ok" THEN ClosedForm
               ELSE [form EXCEPT !.saving = FALSE]
    /\ UNCHANGED <<details, target>>

\* The callback of the latest delete of its type clears whatever the dialog
\* then asks about and the selection; an earlier one is not called, and a
\* failure shows nothing.
LatestDelete(i) ==
    \A j \in (i + 1)..Len(requests) :
        ~(/\ requests[j].op = "delete" /\ requests[j].by # "other"
          /\ requests[j].body.type = requests[i].body.type)
AnswerDelete(i) ==
    /\ IF requests[i].reply = "ok" /\ LatestDelete(i)
       THEN target' = NoTunnel ELSE target' = target
    /\ UNCHANGED <<form, details>>

Answer(i) ==
    /\ requests[i].by = "page"
    /\ requests[i].reply # "none"
    /\ requests' = [requests EXCEPT ![i].by = "answered"]
    /\ Invalidate(requests[i])
    /\ IF requests[i].op = "delete" THEN AnswerDelete(i) ELSE AnswerForm(requests[i])
    /\ UNCHANGED <<conf, list, cluster, here>>

-----------------------------------------------------------------------------
\* The cluster selector: another cluster resets the page. Returning to this
\* one mounts its queries again, which fetches the lists anew unless a fetch
\* is still under way.
LeaveCluster ==
    /\ here
    /\ here' = FALSE
    /\ form' = ClosedForm
    /\ details' = NoTunnel
    /\ target' = NoTunnel
    /\ UNCHANGED <<conf, requests, list, fetching, reading, doubt, cluster>>

\* Mutant: the cached list counts as fresh.
ReturnToFreshList ==
    /\ ~here
    /\ here' = TRUE
    /\ UNCHANGED <<conf, requests, list, fetching, reading, doubt, cluster, overlays>>

ReturnToCluster ==
    /\ ~here
    /\ here' = TRUE
    /\ fetching' = Types
    /\ doubt' = doubt \cap fetching
    /\ UNCHANGED <<conf, requests, list, reading, cluster, overlays>>

\* The other administrator.
OtherRequest ==
    /\ \E op \in {"create", "update", "delete"}, name \in Names, b \in OtherBodies :
         Arrive(op, name, b, "other")
    /\ UNCHANGED <<conf, queryVars, overlays>>

Serve == \E i \in 1..Len(requests) : ServeStep(i) /\ UNCHANGED <<queryVars, overlays>>

\* The drawer: the fields of its step and its buttons.
TunnelForm ==
    \/ GREFields
    \/ IPsecConnectionStep
    \/ IPsecPhase1Step
    \/ IPsecPhase2Step
    \/ IPsecNetworksStep
    \/ HandleNext
    \/ HandleBack
    \/ Close
    \/ Submit

User ==
    \/ AddTunnelButton
    \/ TableRow
    \/ DetailsDrawer
    \/ TunnelForm
    \/ ConfirmDelete
    \/ CancelDelete
    \/ LeaveCluster
    \/ ReturnToCluster

Next ==
    \/ Fetch
    \/ ClusterLoads
    \/ User
    \/ \E i \in 1..Len(requests) : Answer(i)
    \/ OtherRequest
    \/ Serve

Init ==
    /\ \E before \in {{}} \cup {CreateOps(b, name, 0).add : b \in Existing, name \in Names} :
          conf = [r \in Routers |-> before]
    /\ requests = <<>>
    /\ list = [type \in Types |-> Unloaded]
    /\ fetching = Types
    /\ reading = [type \in Types |-> NoAnswers]
    /\ doubt = {}
    /\ cluster = FALSE
    /\ here = TRUE
    /\ form = ClosedForm
    /\ details = NoTunnel
    /\ target = NoTunnel

\* The service, the browser's network stack and React answer; the user and
\* the other administrator need not do anything.
Fairness ==
    /\ WF_vars(Fetch)
    /\ WF_vars(Serve)
    /\ WF_vars(\E i \in 1..Len(requests) : Answer(i))

Spec == Init /\ [][Next]_vars /\ Fairness

-----------------------------------------------------------------------------
(* Properties.                                                             *)

MergedGRETunnel ==
    [name: Names, type: {"gre"}, settings: Settings, disabled: BOOLEAN, mode: {"route"},
     transit: {NoTransit}, routes: {NoRoutes}, locals: {<<>>}, remotes: {<<>>},
     endpoints: SUBSET Routers]
MergedIPsecTunnel ==
    [name: Names, type: {"ipsec"}, settings: Settings, disabled: BOOLEAN,
     mode: {"route", "policy"}, transit: Transits \cup {NoTransit},
     routes: RouteList, locals: SubnetList, remotes: SubnetList,
     endpoints: SUBSET Routers]

TypeOK ==
    /\ \A r \in Routers : \A o \in conf[r] :
          o.path \in Paths /\ o.name \in Names /\ o.gen \in 0..Len(requests)
    /\ \A i \in 1..Len(requests) :
          /\ requests[i].op \in {"create", "update", "delete"}
          /\ \/ requests[i].body \in CreateGRETunnelPayload
             \/ requests[i].body \in CreateIPsecTunnelPayload
          /\ requests[i].todo \subseteq Routers
          /\ requests[i].reply \in {"none", "ok", "unsaid", "error"}
          /\ requests[i].by \in {"page", "answered", "other"}
    /\ list["gre"] = Unloaded \/ list["gre"] \subseteq MergedGRETunnel
    /\ list["ipsec"] = Unloaded \/ list["ipsec"] \subseteq MergedIPsecTunnel
    /\ \A type \in Types : DOMAIN reading[type] \subseteq Routers
    /\ fetching \cup doubt \subseteq Types
    /\ {cluster, here} \subseteq BOOLEAN
    /\ form.open => form.step \in 0..LastStep
    /\ \A t \in {details, target} : t # NoTunnel => t.name \in Names /\ t.type \in Types
    /\ form.open => target = NoTunnel /\ details = NoTunnel
    /\ target # NoTunnel => details = NoTunnel

\* An IPsec tunnel is whole on every router, whatever requests overlap: its
\* peer, profile, proposal, identity, policy, bridge and address come and go
\* together (BuildIPsecCreateOps, BuildIPsecDeleteOps), and only routes can
\* outlive the peer they were created for. A delete must have been shown all
\* of it: not by a router in the middle of another group, nor by a GET of
\* bridges or addresses that failed (FetchIPsecAll); and no rollback may
\* have left a part in force.
Applied(q) == q.reply \in {"ok", "unsaid"}
NothingLeft == \A i \in DOMAIN requests : ~requests[i].left
DeletesSawAll ==
    \A i \in DOMAIN requests :
        Applied(requests[i]) /\ requests[i].op = "delete" => requests[i].missed \subseteq {"route"}
WholeOn(ids) ==
    IF Has(ids, "peer")
    THEN /\ \A p \in Core : Cardinality({id \in ids : id[1] = p}) = 1
         /\ Has(ids, "policy")
         /\ Has(ids, "bridge") <=> Has(ids, "address")
    ELSE \A id \in ids : id[1] = "route"
TunnelIsWhole ==
    NothingLeft /\ DeletesSawAll
        => \A r \in Routers, name \in Names : WholeOn(Tagged(conf[r], "ipsec", name))

\* The routers of the cluster hold the same tunnels, unless an applied
\* request had one of them looked up before and the other after a group of
\* another request (UpdateGRE, DeleteGRE, UpdateIPsec, DeleteIPsec fetch
\* router by router, without the mutexes Execute takes), or one of them in
\* the middle of a group or not in full, or a rollback left something.
AgreeUnlessTorn ==
    /\ NothingLeft
    /\ \A i \in DOMAIN requests :
          Applied(requests[i]) => ~requests[i].torn /\ requests[i].missed = {}
    => \A r, s \in Routers : conf[r] = conf[s]

\* Every payload the form sends passed every step of its validation
\* (handleNext, handleSubmit): what a later step, a step back, a reset or a
\* late answer did to the form in between does not get past it.
SentIsValid ==
    [][\A i \in DOMAIN requests' \ DOMAIN requests :
          requests'[i].by = "page" /\ requests'[i].op # "delete" =>
              /\ ValidConnection(form)
              /\ form.type = "ipsec" => ValidNetworks(form)]_vars

\* When nothing is under way, a list shows what the routers have, if the
\* page was told of every change (useCreate..., useUpdate..., useDelete...
\* invalidate their query): its own requests of that type were answered,
\* none of them with an error for a group of which something is in force,
\* nobody else changed a tunnel, and each router answered the latest fetch
\* between two groups and in full. This survives switching to another
\* cluster while requests and fetches run.
ToldOf(q) == q.by = "answered" /\ q.reply # "unsaid" /\ ~q.left
Conf(type) == [r \in Routers |-> OfType(conf[r], type)]
AcknowledgedIsShown ==
    \A type \in Types :
        /\ here /\ list[type] # Unloaded /\ type \notin fetching \cup doubt
        /\ \A i \in DOMAIN requests : requests[i].body.type = type => ToldOf(requests[i])
        => list[type] = Listed(Conf(type), type)

\* A form never stays locked: the answer of some request, or the user, ends
\* its saving (the finally of handleSubmit), however requests and forms
\* overlap.
SavingEnds == (form.open /\ form.saving) ~> ~(form.open /\ form.saving)

=============================================================================
