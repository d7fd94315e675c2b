---------------------------- MODULE RouterLocks -----------------------------
(***************************************************************************)
(* What lockRouterIDs promises to Execute and Undo: a request gets all the *)
(* routers it asked for in one step, shares none of them with another      *)
(* request, keeps exactly these until it ends, and gives them all back in  *)
(* one step. Module OperationLog takes them one mutex at a time.           *)
(***************************************************************************)
CONSTANTS Routers, Requests

VARIABLE owned    \* owned[p]: the routers request p has for itself

Init == owned = [p \in Requests |-> {}]

Take(p) ==
    /\ owned[p] = {}
    /\ \E S \in SUBSET Routers :
          /\ \A q \in Requests \ {p} : owned[q] \cap S = {}
          /\ owned' = [owned EXCEPT ![p] = S]

GiveBack(p) == owned' = [owned EXCEPT ![p] = {}]

\* The process dies.
GiveAllBack == owned' = [p \in Requests |-> {}]

Next ==
    \/ \E p \in Requests : Take(p) \/ GiveBack(p)
    \/ GiveAllBack

Spec == Init /\ [][Next]_owned

=============================================================================
