----------------------------- MODULE MCContent -----------------------------
(***************************************************************************)
(* The pages for firewall rules, address lists and static routes in seven  *)
(* scopes: "table" (its cells), "drawer" and "deletes" are the firewall    *)
(* page, "entries" (its drawer) and "selection" the address lists page,    *)
(* "routes" is the routes page, and "service" has no page but up to three  *)
(* requests of other administrators.                                       *)
(***************************************************************************)
EXTENDS FirewallPage, AddressListsPage, RoutesPage

CONSTANTS r1, r2, forward, input, accept, drop, a1, blocked, other, tcp, icmp, p1, p2, p3, gw

VARIABLE scope

mcVars == <<contentVars, firewallVars, listsVars, routesVars, scope>>

RuleFrom(field, v) ==
    Rule([chain |-> forward, action |-> accept, disabled |-> FALSE] @@ (field :> v))
Accept1 == RuleFrom("srcAddress", a1)
Drop2 == RuleFrom("srcAddressList", blocked)

Disabled(route) == [route EXCEPT !.disabled = TRUE]

MCImports == {<<p3, BadPrefix, p1, p3>>}

FirewallScopes == {"table", "drawer", "deletes"}
ListsScopes == {"entries", "selection"}

MCInit ==
    /\ scope \in {"table", "drawer", "deletes", "entries", "selection", "routes", "service"}
    /\ InitContent(CASE scope = "entries" -> <<Entry(blocked, p1)>>
                     [] scope = "selection" -> <<Entry(blocked, p1), Entry(blocked, p2)>>
                     [] scope = "routes" -> <<Route(p1, gw), Disabled(Route(p1, gw))>>
                     [] OTHER -> <<Accept1, Drop2>>)
    /\ InitFirewall
    /\ InitLists
    /\ InitRoutes

\* What another administrator sends.
OtherAdministrator ==
    CASE scope = "table" -> OtherSends({}, {"action" :> drop}, {"update"})
      [] scope = "selection" -> OtherSends({Entry(blocked, p3)}, {}, {"create", "delete"})
      [] scope = "routes" -> OtherSends({}, {"gateway" :> p2, "disabled" :> TRUE}, {"update", "delete"})
      [] scope = "service" ->
           OtherSends({Drop2}, {"action" :> drop}, {"create", "update", "delete", "move"})
      [] OTHER -> FALSE

MCNext ==
    /\ \/ scope \in FirewallScopes /\ FirewallNext /\ UNCHANGED <<listsVars, routesVars>>
       \/ scope \in ListsScopes /\ ListsNext /\ UNCHANGED <<firewallVars, routesVars>>
       \/ scope = "routes" /\ RoutesNext /\ UNCHANGED <<firewallVars, listsVars>>
       \/ OtherAdministrator /\ UNCHANGED <<firewallVars, listsVars, routesVars>>
       \/ ServeContent /\ UNCHANGED <<firewallVars, listsVars, routesVars>>
    /\ UNCHANGED scope

MCSpec == MCInit /\ [][MCNext]_mcVars

\* Few inputs of a drawer are changed, few entries are in it, and of the
\* requests of others at most one creates and at most one moves, and when
\* there are three they are three different ones.
Dirty(f) == LET g == GetInitialState(f.edit)
            IN  Cardinality({x \in DOMAIN f : x # "saving" /\ f[x] # g[x]})
AtMostOne(op) == Cardinality({i \in DOMAIN requests : requests[i].op = op}) <= 1
Entries ==
    CASE batches = <<>> -> 2
      [] batches # <<>> /\ entryForm.saving ->
           Len(Last(batches).todo) + Cardinality(Last(batches).sent)
      [] OTHER -> 2 - Len(batches)
Few ==
    CASE scope = "table" -> ~ruleForm.open /\ Len(requests) <= 1
      [] scope = "drawer" -> /\ cell = NoCell /\ ruleAsk = None /\ Len(requests) <= 1
                             /\ ruleForm.open => Dirty(ruleForm) <= 1
      [] scope = "deletes" -> /\ cell = NoCell /\ Len(requests) <= 2 /\ tab = forward
                              /\ ruleForm.open => Dirty(ruleForm) <= 0
                              /\ \A i \in DOMAIN requests : requests[i].op = "delete"
      [] scope = "entries" -> /\ \A l \in Lists : selected[l] = {}
                              /\ collapsed \subseteq {blocked}
                              /\ entryForm.open => initialized /\ collapsed = {}
                              /\ Len(requests) <= 2 /\ Len(batches) <= 2
                              /\ entryForm.open => Len(ToSend(entryForm)) <= Entries
      [] scope = "selection" -> /\ ~entryForm.open /\ collapsed \subseteq {blocked}
                                /\ Len(requests) <= 2
                                /\ Cardinality({i \in DOMAIN requests : requests[i].by = "other"}) <= 1
      [] scope = "routes" -> /\ Len(requests) <= 2
                             /\ requests # <<>> /\ routeForm.open =>
                                   routeForm.distance = "ok" /\ routeForm.destination # BadDestination
                             /\ routeDetail # None => Len(requests) <= 1
      [] OTHER -> /\ AtMostOne("create") /\ AtMostOne("move")
                  /\ Len(requests) <= 2 \/ (AtMostOne("update") /\ AtMostOne("delete"))

\* After something was left in force no property about it says anything.
InScope == Few /\ \A i \in DOMAIN requests : ~requests[i].left

TypeOK ==
    /\ Len(requests) <= MaxRequests
    /\ FirewallTypeOK
    /\ ListsTypeOK
    /\ RoutesTypeOK

=============================================================================
