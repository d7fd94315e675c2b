---------------------------- MODULE ContentPage ----------------------------
(***************************************************************************)
(* What the pages for firewall rules, address lists and static routes have *)
(* in common: the list the browser holds of the items of the master (React *)
(* Query), which is read without a mutex, also in the middle of a group,   *)
(* and which a successful request of the page marks as stale; and another  *)
(* administrator of the cluster.                                           *)
(***************************************************************************)
EXTENDS ContentService

CONSTANTS NotLoaded    \* there is no list yet

VARIABLES
    shown,   \* the list: the items of the master when it was fetched
    stale,   \* it is being fetched
    early    \* the requests in force on the master, but not finished, then

contentVars == <<conf, requests, shown, stale, early>>
cache == <<shown, stale, early>>

None == [id |-> <<Nothing, 0>>]

\* One item on each router, under an ID of its own, for every content.
Deployed(vals) == [r \in Routers |-> [k \in DOMAIN vals |-> Item(r, MaxRequests + k, vals[k])]]

InitContent(vals) ==
    /\ conf = Deployed(vals)
    /\ requests = <<>>
    /\ shown = NotLoaded
    /\ stale = TRUE
    /\ early = {}

Loaded == shown # NotLoaded
Rows == IF Loaded THEN {shown[k] : k \in DOMAIN shown} ELSE {}

Fetch ==
    /\ stale
    /\ shown' = conf[Master]
    /\ stale' = FALSE
    /\ early' = {i \in DOMAIN requests : InForce(requests[i]) /\ Master \in requests[i].done}
    /\ UNCHANGED serviceVars

Send(op, names, val, patch, by) ==
    Arrive(op, names, val, patch, by) /\ UNCHANGED <<conf, cache>>

\* Mutant: no onSuccess in the hook.
TakeSilently(i, ok) ==
    /\ requests' = [requests EXCEPT ![i].told = "yes"]
    /\ UNCHANGED <<conf, cache>>

\* onSuccess of the hooks invalidates the list.
Take(i, ok) ==
    /\ requests' = [requests EXCEPT ![i].told = "yes"]
    /\ stale' = (stale \/ ok)
    /\ UNCHANGED <<conf, shown, early>>

OtherSends(vals, patches, ops) ==
    LET ids == {conf[Master][k].id : k \in DOMAIN conf[Master]} IN
    \/ \E val \in vals : "create" \in ops /\ Send("create", <<>>, val, <<>>, "other")
    \/ \E id \in ids, patch \in patches :
          "update" \in ops /\ Send("update", <<id>>, Nothing, patch, "other")
    \/ \E id \in ids : "delete" \in ops /\ Send("delete", <<id>>, Nothing, <<>>, "other")
    \/ \E id, dest \in ids : "move" \in ops /\ Send("move", <<id, dest>>, Nothing, <<>>, "other")

ServeContent == Serve /\ UNCHANGED cache

-----------------------------------------------------------------------------
(* Properties.                                                             *)

\* Nothing happened to the master that the page does not know: the answer
\* came and is the truth, or nothing of the request is in force there.
Told(i) ==
    LET q == requests[i] IN
    \/ q.told = "yes" /\ q.reply = "ok"
    \/ Running(q) /\ ~q.strewn /\ Master \notin q.done
    \/ q.reply = "error" /\ ~q.strewn /\ ~q.left /\ i \notin early

\* Once it is fetched, the list is what the master has, unless something
\* happened the page was not told of: another administrator's change, an
\* answer lost after the change was made, a change that is not finished yet
\* or has failed and left something in force, a delete that was rolled back,
\* or any rollback of what the list was read in the middle of (the error
\* answer does not invalidate the list).
ListIsCurrent ==
    Loaded /\ ~stale /\ (\A i \in DOMAIN requests : Told(i))
        => shown = conf[Master]

=============================================================================
