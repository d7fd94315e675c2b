----------------------------- MODULE RoutesPage -----------------------------
(***************************************************************************)
(* The routes page of the browser (features/routes): the routes of the     *)
(* master, the details of one, and the drawer that creates a static route. *)
(* The buttons that would change or delete a route do nothing; the API     *)
(* does both, for other clients.                                           *)
(***************************************************************************)
EXTENDS ContentPage

CONSTANTS
    Destinations, Gateways,
    BadDestination    \* a text that is no prefix

VARIABLES
    routeForm,     \* the drawer
    routeDetail    \* the route whose details are open

routesVars == <<routeForm, routeDetail>>

Route(destination, gateway) ==
    [kind |-> "route", destination |-> destination, gateway |-> gateway, comment |-> Nothing,
     disabled |-> FALSE]

ClosedRoute == [open |-> FALSE]
FreshRoute == [open |-> TRUE, destination |-> Nothing, gateway |-> Nothing, distance |-> "ok"]

\* The validation of the form: a distance is from 1 to 255.
ValidRoute(f) ==
    /\ f.destination \in Destinations
    /\ f.gateway # Nothing
    /\ f.distance = "ok"

IsPending == \E i \in DOMAIN requests : requests[i].by = "page" /\ requests[i].told = "no"

OpenRoute ==
    /\ Loaded /\ ~routeForm.open /\ routeDetail = None
    /\ routeForm' = FreshRoute
    /\ UNCHANGED <<contentVars, routeDetail>>

TypeInRoute ==
    /\ routeForm.open
    /\ \/ \E d \in Destinations \cup {Nothing, BadDestination} :
             routeForm' = [routeForm EXCEPT !.destination = d]
       \/ \E g \in Gateways \cup {Nothing} : routeForm' = [routeForm EXCEPT !.gateway = g]
       \/ \E d \in {"ok", "out of range"} : routeForm' = [routeForm EXCEPT !.distance = d]
    /\ UNCHANGED <<contentVars, routeDetail>>

\* handleSubmit; the button waits for the request before, also that of a
\* drawer that was closed.
SubmitRoute ==
    /\ routeForm.open /\ ~IsPending
    /\ ValidRoute(routeForm)
    /\ Send("create", <<>>, Route(routeForm.destination, routeForm.gateway), <<>>, "page")
    /\ UNCHANGED routesVars

CloseRoute ==
    /\ routeForm.open
    /\ routeForm' = ClosedRoute
    /\ UNCHANGED <<contentVars, routeDetail>>

\* A success closes whichever drawer is open; an error shows a message.
AnswerRoute(i) ==
    LET q == requests[i] IN
    /\ q.by = "page" /\ ~Running(q) /\ q.told = "no"
    /\ Take(i, q.reply = "ok")
    /\ routeForm' = IF q.reply = "ok" THEN ClosedRoute ELSE routeForm
    /\ UNCHANGED routeDetail

\* handleRowClick and handleEdit; the Edit button of the details closes
\* them, and a route of a tunnel has none.
ShowRoute ==
    /\ ~routeForm.open /\ routeDetail = None
    /\ \E r \in Rows : routeDetail' = r
    /\ UNCHANGED <<contentVars, routeForm>>
CloseDetail ==
    /\ routeDetail # None
    /\ routeDetail' = None
    /\ UNCHANGED <<contentVars, routeForm>>

FetchRoutes == Fetch /\ UNCHANGED routesVars

\* To another cluster and back: nothing is reset.
ChangeRoutes ==
    /\ Loaded
    /\ stale' = TRUE
    /\ UNCHANGED <<serviceVars, shown, early, routesVars>>

InitRoutes == routeForm = ClosedRoute /\ routeDetail = None

RoutesNext ==
    \/ FetchRoutes
    \/ OpenRoute
    \/ TypeInRoute
    \/ SubmitRoute
    \/ CloseRoute
    \/ \E i \in DOMAIN requests : AnswerRoute(i)
    \/ ShowRoute
    \/ CloseDetail
    \/ ChangeRoutes

-----------------------------------------------------------------------------
(* Properties.                                                             *)

RoutesTypeOK == routeForm.open => routeDetail = None

=============================================================================
