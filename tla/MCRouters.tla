----------------------------- MODULE MCRouters -----------------------------
(***************************************************************************)
(* The routers page in three scopes: "drawer" leaves the user every field  *)
(* of the drawer and one request, "page" has the page delete and another   *)
(* administrator save, "service" has overlapping requests of others only.  *)
(***************************************************************************)
EXTENDS RoutersPage

CONSTANTS a, b, h1, h2, h3

VARIABLE scope

MCRouterNames == Names \X {1, 2}

\* A cluster from before: with a backup or without.
Old == 9
OldRouter(k, role, host) ==
    [id |-> <<Old, k>>, cluster |-> Old, name |-> <<a, k>>, host |-> host,
     role |-> role, cred |-> "both"]

\* Fewer values of the fields, and a connection test of one router at a time.
FewFields ==
    /\ drawer.name \in IF IsEditing THEN {a, b} ELSE {NoName, b}
    /\ drawer.primary.name \in {NoName, <<a, 1>>, <<b, 1>>}
    /\ drawer.secondary.name \in {NoName, <<a, 2>>, <<b, 2>>}
    /\ drawer.primary.host \in IF IsEditing THEN {h1, h3} ELSE {NoHost, h3}
    /\ drawer.secondary.host \in {NoHost, h2}
    /\ drawer.primary.cred \in IF IsEditing THEN {"none", "user", "password"} ELSE {"none", "both"}
    /\ drawer.secondary.cred \in IF IsEditing THEN {"none", "user", "both"} ELSE {"none", "both"}
Shown == IF drawer.open THEN {p \in Positions : drawer[p].result.shown} ELSE {}

InScope ==
    CASE scope = "drawer" ->
           /\ Len(requests) <= 1
           /\ \A i \in DOMAIN requests : requests[i].by # "other"
           /\ seen = None
           /\ ask = None
           /\ detail # None => requests = <<>> /\ tests = <<>>
           /\ drawer.open => FewFields
           /\ Cardinality(DOMAIN tests \cup Shown) <= 1
           /\ requests # <<>> => tests = <<>>
      [] scope = "page" ->
           /\ ~drawer.open /\ Len(requests) <= 2
           /\ \A i \in DOMAIN requests : \A k \in DOMAIN requests[i].inputs :
                /\ requests[i].inputs[k].host = <<h1, h3>>[k]
                /\ requests[i].inputs[k].role = "master" => requests[i].inputs[k].cred = "none"
      [] OTHER ->
           /\ routerList = NoList /\ clusterList = NoList
           /\ \A i \in DOMAIN requests : \A k \in DOMAIN requests[i].inputs :
                requests[i].inputs[k].role = "master" =>
                  requests[i].inputs[k].cred \in {"none", "password"}

DrawerKept ==
    scope = "drawer" /\ requests # <<>> /\ drawer'.open => drawer.open /\ drawer' = drawer

MCInit ==
    /\ InitPage
    /\ clusters = {[id |-> Old, name |-> a]}
    /\ \/ routers = {OldRouter(1, "master", h1)}
       \/ routers = {OldRouter(1, "master", h1), OldRouter(2, "backup", h2)}
    /\ scope \in {"drawer", "page", "service"}
MCNext == Next /\ UNCHANGED scope /\ InScope' /\ DrawerKept
MCSpec == MCInit /\ [][MCNext]_<<vars, scope>>

=============================================================================
