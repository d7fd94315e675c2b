--------------------------- MODULE TunnelService ---------------------------
(***************************************************************************)
(* The tunnel service of the backend (internal/tunnel) for the GRE and     *)
(* IPsec tunnels of one cluster. A tunnel is known by its name and has its *)
(* objects on several routers: a GRE tunnel one interface, an IPsec tunnel *)
(* a profile, a proposal, a peer, an identity, policies, and, when it is   *)
(* route-based, a bridge, an address and static routes.                    *)
(*                                                                         *)
(* A request first looks the tunnel up on every router, one router at a    *)
(* time and without any lock, and then hands one group of operations to    *)
(* Execute, which module OperationLog models. Between its mutexes a group  *)
(* is applied operation by operation, and taken back if one of them fails: *)
(* "conf" is what the routers have before and after that, and lookups and  *)
(* lists, which take no mutex, also see what they have in between.         *)
(***************************************************************************)
EXTENDS Naturals, Sequences, FiniteSets, Functions

CONSTANTS
    Routers,      \* the routers of the cluster
    Master,       \* the one whose shared attributes a merged tunnel shows
    Names,        \* tunnel names
    Settings,     \* the attributes the form always sends: MTU, phases, secret
    Nets,         \* destination networks and subnets
    Transits,     \* pairs of tunnel addresses of a route-based tunnel
    NoTransit,    \* tunnel addresses left empty
    MaxRequests,  \* requests of a behaviour
    Glimpses,     \* which paths of a group in progress a lookup may see
    Nothing       \* a lookup that found no tunnel of that name

VARIABLES
    conf,         \* conf[r]: the tunnel objects on router r between two groups
    requests      \* the requests so far, in the order they arrived

serviceVars == <<conf, requests>>

ASSUME MasterAssumption == Master \in Routers
ASSUME BoundAssumption == MaxRequests \in Nat
ASSUME SettingsAssumption == Settings # {}
ASSUME NoTransitAssumption == NoTransit \notin Transits

Types == {"gre", "ipsec"}
\* How often each network is in a list of routes.
RouteList == [Nets -> Nat]
\* A policy that took tunnel addresses lists them as its subnets.
SubnetList == Seq(Nets \cup Transits)

\* The body of a create or an update. A GRE tunnel has neither mode, routes
\* nor subnets; the constants below stand in their places.
Body == [type: Types, settings: Settings, disabled: BOOLEAN,
         mode: {"route", "policy"}, transit: Transits \cup {NoTransit},
         routes: RouteList, locals: SubnetList, remotes: SubnetList,
         endpoints: SUBSET Routers]

NoRoutes == [n \in Nets |-> 0]

\* An object has the RouterOS ID (path, key, gen): gen is the request that
\* created it, since RouterOS never gives an ID out twice.
Object(path, name, key, gen, val) ==
    [path |-> path, name |-> name, key |-> key, gen |-> gen, val |-> val]
Id(o) == <<o.path, o.name, o.key, o.gen>>
Ids(objects) == {Id(o) : o \in objects}

Only == <<0, "only">>
Core == {"profile", "proposal", "peer", "identity"}
Paths == Core \cup {"gre", "policy", "bridge", "address", "route"}
ASSUME GlimpsesAssumption == Glimpses \subseteq SUBSET Paths
\* Names RouterOS keeps unique.
UniquePaths == {"gre", "profile", "proposal", "peer", "identity", "bridge"}

-----------------------------------------------------------------------------
(* The operations a request asks Execute for, on one router: objects that  *)
(* are added, objects with new attributes, and IDs that are deleted.       *)

Group(add, set, del) == [add |-> add, set |-> set, del |-> del]

GREObject(b, name, gen) ==
    Object("gre", name, Only, gen, <<b.settings, b.disabled>>)

\* One policy per local subnet, paired with the remote subnet of its index.
SubnetPolicies(b, name, gen) ==
    {Object("policy", name, <<i, "subnets">>, gen,
            <<b.locals[i], IF i <= Len(b.remotes) THEN {b.remotes[i]} ELSE {}>>) :
        i \in 1..Len(b.locals)}

TransitObjects(b, name, gen) ==
    IF b.transit = NoTransit
    THEN {Object("policy", name, <<0, "template">>, gen, <<NoTransit, {}>>)}
    ELSE {Object("policy", name, <<0, "tunnel">>, gen, <<b.transit, {b.transit}>>),
          Object("bridge", name, Only, gen, b.transit),
          Object("address", name, Only, gen, b.transit)}

RouteObjects(dsts, copies, name, gen) ==
    UNION {{Object("route", name, <<k, n>>, gen, n) : k \in 1..copies[n]} : n \in dsts}

\* BuildIPsecCreateOps.
IPsecObjects(b, name, gen) ==
    {Object(p, name, Only, gen, IF p = "peer" THEN <<b.settings, b.disabled>>
                                              ELSE b.settings) : p \in Core}
    \cup (IF b.mode = "policy"
          THEN SubnetPolicies(b, name, gen)
          ELSE TransitObjects(b, name, gen)
               \cup RouteObjects(Nets, b.routes, name, gen))

CreateOps(b, name, gen) ==
    Group(IF b.type = "gre" THEN {GREObject(b, name, gen)}
                            ELSE IPsecObjects(b, name, gen), {}, {})

\* The IDs of the objects that carry the name of a tunnel. Of these a lookup
\* of an IPsec tunnel (AssembleIPsec) takes the address only with the bridge,
\* and none without the peer.
Tagged(objects, type, name) ==
    Ids({o \in objects : o.name = name /\ ((o.path = "gre") <=> (type = "gre"))})
Has(ids, path) == \E id \in ids : id[1] = path
Anchor(type) == IF type = "gre" THEN "gre" ELSE "peer"
Exists(objects, type, name) == Has(Tagged(objects, type, name), Anchor(type))
Found(ids) == IF Has(ids, "bridge") THEN ids ELSE {id \in ids : id[1] # "address"}

\* Mutant: the proposal is forgotten.
DeleteKeepsProposal(found) == Group({}, {}, {id \in found : id[1] # "proposal"})

DeleteOps(found) == Group({}, {}, found)

Changed(id, val) == Object(id[1], id[2], id[3], id[4], val)
UpdateGREOps(found, b) ==
    Group({}, {Changed(id, <<b.settings, b.disabled>>) : id \in found}, {})

\* The peer, profile, proposal and identity take the new settings; the
\* bridge, the address and every policy take new tunnel addresses only when
\* the tunnel has a bridge; mode and subnets of the body are not looked at.
NewCore(found, b) ==
    {Changed(id, IF id[1] = "peer" THEN <<b.settings, b.disabled>> ELSE b.settings) :
       id \in {jd \in found : jd[1] \in Core}}
NewTransit(found, b) ==
    IF b.transit # NoTransit /\ Has(found, "bridge")
    THEN {Changed(id, b.transit) : id \in {jd \in found : jd[1] \in {"bridge", "address"}}}
         \cup {Changed(id, <<b.transit, {b.transit}>>) : id \in {jd \in found : jd[1] = "policy"}}
    ELSE {}

\* The routes are diffed by destination: of several routes with one
\* destination only the last is known to the diff.
RoutesTo(found, n) == {id \in found : id[1] = "route" /\ id[3][2] = n}
IsLast(id, ids) ==
    \A jd \in ids : jd[4] < id[4] \/ (jd[4] = id[4] /\ jd[3][1] <= id[3][1])
Undesired(found, b) ==
    UNION {{id \in RoutesTo(found, n) : IsLast(id, RoutesTo(found, n))} :
            n \in {m \in Nets : b.routes[m] = 0}}
Missing(found, b) ==
    {n \in Nets : b.routes[n] > 0 /\ RoutesTo(found, n) = {}}

UpdateIPsecOps(found, b, name, gen) ==
    Group(RouteObjects(Missing(found, b), b.routes, name, gen),
          NewCore(found, b) \cup NewTransit(found, b),
          Undesired(found, b))

-----------------------------------------------------------------------------
(* Execute on one router: a modify or a delete of an ID that is gone and   *)
(* an add of a name that is taken are refused.                             *)

Named(g) == Ids(g.set) \cup g.del
Accepts(objects, g) ==
    /\ Named(g) \subseteq Ids(objects)
    /\ \A o \in g.add : o.path \in UniquePaths =>
           ~\E p \in objects : p.path = o.path /\ p.name = o.name

After(objects, g) == {o \in objects : Id(o) \notin Named(g)} \cup g.set \cup g.add

-----------------------------------------------------------------------------
(* Requests.                                                               *)

\* "locked" are the requests whose group holds its mutexes, "lost" those that
\* name an object which a rollback has deleted and created anew, under
\* another ID. The others record what happened: "torn", that another group
\* was applied between two lookups; "missed", on which paths a lookup saw
\* other objects than the router had before or after a group; "left", that
\* the group failed and something of it stayed in force.
Request(op, name, body, by) ==
    [op |-> op, name |-> name, body |-> body, by |-> by,
     todo |-> IF op = "create" THEN {} ELSE Routers,
     ops |-> [r \in Routers |->
                IF op = "create" /\ r \in body.endpoints
                THEN CreateOps(body, name, Len(requests) + 1)
                ELSE Nothing],
     reply |-> IF op = "create" /\ body.endpoints = {} THEN "error" ELSE "none",
     locked |-> FALSE, lost |-> FALSE, torn |-> FALSE, missed |-> {}, left |-> FALSE]

\* A create without endpoints is answered 400 at once.
Arrive(op, name, body, by) ==
    /\ Len(requests) < MaxRequests
    /\ requests' = Append(requests, Request(op, name, body, by))

Running(q) == q.reply = "none"
Touched(q) == {r \in Routers : q.ops[r] # Nothing}

\* What the GETs of a router may answer: the objects between two groups, or
\* some of what the group in progress does; FetchIPsecAll takes a failed GET
\* of routes, bridges or addresses for an empty one.
InProgress(r) ==
    {requests[i].ops[r] : i \in {j \in DOMAIN requests :
        /\ Running(requests[j]) /\ requests[j].locked /\ r \in Touched(requests[j])}}
Part(g, paths) ==
    Group({o \in g.add : o.path \in paths}, {o \in g.set : o.path \in paths},
          {id \in g.del : id[1] \in paths})
Views(r) ==
    {conf[r]} \cup {After(conf[r], h) :
        h \in {k \in {Part(g, paths) : g \in InProgress(r), paths \in Glimpses} :
                  Accepts(conf[r], k)}}
Swallowed(type) == IF type = "gre" THEN {} ELSE {"route", "bridge", "address"}
Answers(r, type) ==
    {{o \in objects : o.path \notin paths} : objects \in Views(r), paths \in SUBSET Swallowed(type)}

\* What the service makes of the answer of one router: operations for the
\* tunnel, or nothing when the router does not have it (continue).
OpsFor(ids, q, i) ==
    LET found == Found(ids)
    IN  IF ~Has(ids, Anchor(q.body.type)) THEN Nothing
        ELSE IF q.op = "delete" THEN DeleteOps(found)
        ELSE IF q.body.type = "gre" THEN UpdateGREOps(found, q.body)
        ELSE UpdateIPsecOps(found, q.body, q.name, i)

Differ(ids, jds) == {id[1] : id \in (ids \ jds) \cup (jds \ ids)}

\* GET the objects of the next router, in any order of the cluster's routers.
Lookup(i, r) ==
    LET q == requests[i]
        has == Tagged(conf[r], q.body.type, q.name)
    IN  /\ Running(q) /\ r \in q.todo
        /\ \E seen \in {Tagged(objects, q.body.type, q.name) : objects \in Answers(r, q.body.type)} :
              requests' = [requests EXCEPT ![i].todo = @ \ {r},
                                           ![i].ops[r] = OpsFor(seen, q, i),
                                           ![i].missed = @ \cup Differ(seen, has)]
        /\ UNCHANGED conf

\* Any other GET that fails answers 502.
LookupFails(i) ==
    /\ Running(requests[i]) /\ requests[i].todo # {}
    /\ requests' = [requests EXCEPT ![i].reply = "error"]
    /\ UNCHANGED conf

\* No router has the tunnel.
NotFound(i) ==
    /\ Running(requests[i]) /\ requests[i].todo = {} /\ Touched(requests[i]) = {}
    /\ requests' = [requests EXCEPT ![i].reply = "error"]
    /\ UNCHANGED conf

\* Execute takes the mutexes of the routers of the group.
Lock(i) ==
    LET q == requests[i] IN
    /\ Running(q) /\ q.todo = {} /\ ~q.locked /\ Touched(q) # {}
    /\ \A r \in Touched(q) : InProgress(r) = {}
    /\ requests' = [requests EXCEPT ![i].locked = TRUE]
    /\ UNCHANGED conf

\* Requests some but not all of whose lookups were answered.
BetweenLookups(q) == Running(q) /\ q.todo \notin {{}, Routers}

\* All operations of the group are applied; after a create or an update the
\* service lists the tunnels again for its answer: when that fails the
\* answer is an error although the group was applied ("unsaid").
ExecuteApplies(i) ==
    LET q == requests[i] IN
    /\ Running(q) /\ q.locked /\ ~q.lost
    /\ \A r \in Touched(q) : Accepts(conf[r], q.ops[r])
    /\ conf' = [r \in Routers |-> IF r \in Touched(q) THEN After(conf[r], q.ops[r])
                                                      ELSE conf[r]]
    /\ \E reply \in IF q.op = "delete" THEN {"ok"} ELSE {"ok", "unsaid"} :
          requests' = [j \in DOMAIN requests |->
                         IF j = i THEN [q EXCEPT !.reply = reply]
                         ELSE [requests[j] EXCEPT
                                 !.torn = @ \/ BetweenLookups(requests[j])]]

\* Mutant: the first router keeps its operations.
FailsWithoutRollback(i) ==
    LET q == requests[i] IN
    /\ Running(q) /\ q.locked
    /\ requests' = [requests EXCEPT ![i].reply = "error"]
    /\ \E r \in Touched(q) :
          /\ Accepts(conf[r], q.ops[r])
          /\ conf' = [conf EXCEPT ![r] = After(conf[r], q.ops[r])]

\* The requests that name an object the group deletes.
Shares(q, p) ==
    Running(p) /\ \E r \in Touched(q) \cap Touched(p) : q.ops[r].del \cap Named(p.ops[r]) # {}

\* An operation is refused or a router fails, and rollbackApplied reverses
\* those in force: what was deleted comes back under another ID. One that
\* cannot be reversed, or of which the service does not know, stays.
ExecuteFails(i) ==
    LET q == requests[i]
        failed(left, hit) ==
            [j \in DOMAIN requests |->
               IF j = i THEN [q EXCEPT !.reply = "error", !.left = left]
               ELSE [requests[j] EXCEPT !.lost = @ \/ j \in hit]]
    IN  /\ Running(q) /\ q.locked
        /\ \E hit \in SUBSET {j \in DOMAIN requests \ {i} : Shares(q, requests[j])} :
              \/ requests' = failed(FALSE, hit) /\ UNCHANGED conf
              \/ \E r \in Touched(q) : \E id \in Named(q.ops[r]) \cup Ids(q.ops[r].add) :
                    LET g == q.ops[r]
                        h == Group({o \in g.add : Id(o) = id}, {o \in g.set : Id(o) = id},
                                   g.del \cap {id})
                    IN  /\ Accepts(conf[r], h)
                        /\ conf' = [conf EXCEPT ![r] = After(@, h)]
                        /\ requests' = failed(TRUE, hit)

ServeStep(i) ==
    \/ \E r \in Routers : Lookup(i, r)
    \/ LookupFails(i)
    \/ NotFound(i)
    \/ Lock(i)
    \/ ExecuteApplies(i)
    \/ ExecuteFails(i)

-----------------------------------------------------------------------------
(* The merged view of the list endpoints: a tunnel of that name on any     *)
(* router, its shared attributes from the master if the master has it.     *)
(* "seen" are the objects of its type on every router. In the middle of a  *)
(* group they may be half of a tunnel, or mix old and new attributes: then *)
(* the peer's and the bridge's stand for all.                              *)

OfType(objects, type) == {o \in objects : (o.path = "gre") <=> (type = "gre")}

Shower(seen, type, name) ==
    IF Exists(seen[Master], type, name) THEN Master
    ELSE CHOOSE r \in Routers : Exists(seen[r], type, name)

ValueOf(objects, path) == (CHOOSE o \in objects : o.path = path).val

\* The policies in the order in which they were added (there is one order,
\* since a router has finitely many of them).
AddedBefore(o, p) == o.gen < p.gen \/ (o.gen = p.gen /\ o.key[1] < p.key[1])
Orders(policies) ==
    {s \in UNION {[1..n -> policies] : n \in 0..Cardinality(policies)} :
        /\ Range(s) = policies
        /\ \A j, k \in DOMAIN s : j < k => AddedBefore(s[j], s[k])}
InOrder(policies) ==
    IF Orders(policies) = {} THEN <<>> ELSE CHOOSE s \in Orders(policies) : TRUE

MergedTunnel(seen, type, name) ==
    LET objects == {o \in seen[Shower(seen, type, name)] : o.name = name}
        has(path) == \E o \in objects : o.path = path
        val == ValueOf(objects, Anchor(type))
        policies == {o \in objects : o.path = "policy" /\ o.key[2] = "subnets"}
        locals == InOrder(policies)
        remotes == InOrder({o \in policies : o.val[2] # {}})
    IN  [name |-> name, type |-> type, settings |-> val[1], disabled |-> val[2],
         mode |-> IF policies # {} THEN "policy" ELSE "route",
         transit |-> IF has("bridge") /\ has("address") THEN ValueOf(objects, "bridge")
                                                        ELSE NoTransit,
         routes |-> [m \in Nets |-> Cardinality(RoutesTo(Ids(objects), m))],
         locals |-> [k \in DOMAIN locals |-> locals[k].val[1]],
         remotes |-> [k \in DOMAIN remotes |-> CHOOSE m \in remotes[k].val[2] : TRUE],
         endpoints |-> {r \in Routers : Exists(seen[r], type, name)}]

Listed(seen, type) ==
    {MergedTunnel(seen, type, name) :
        name \in {m \in Names : \E r \in Routers : Exists(seen[r], type, m)}}

=============================================================================
