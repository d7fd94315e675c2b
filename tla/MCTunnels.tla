------------------------------ MODULE MCTunnels ------------------------------
(***************************************************************************)
(* The tunnels page on two routers with one tunnel name and one network,   *)
(* in two scopes: "form" leaves the user every field of the form and one   *)
(* request, "requests" lets the page and another administrator send        *)
(* overlapping requests of a route-based tunnel or of a GRE tunnel.        *)
(***************************************************************************)
EXTENDS TunnelsPage

CONSTANTS r1, r2, s1, s2, n1, x1, t1

VARIABLE scope

MCBody(type, mode, transit, routes, subnets) ==
    [type |-> type, settings |-> s1, disabled |-> TRUE, mode |-> mode,
     transit |-> transit, routes |-> [n \in Nets |-> routes],
     locals |-> subnets, remotes |-> subnets, endpoints |-> Routers]

MCOtherBodies ==
    {MCBody("gre", "route", NoTransit, 0, <<>>),
     MCBody("ipsec", "route", NoTransit, 1, <<>>)}
MCExisting ==
    MCOtherBodies \cup {MCBody("ipsec", "route", x1, 0, <<>>),
                        MCBody("ipsec", "policy", NoTransit, 0, <<n1>>)}

\* What a lookup may see of a group: of a create, the objects before the
\* peer, or all but the policy and the routes; of a delete, the objects
\* before or up to the peer; of an update, the peer alone.
MCGlimpses ==
    {{"profile"}, {"gre", "profile", "proposal", "peer", "identity"},
     {"gre", "route", "address", "bridge", "policy", "identity"},
     {"route", "address", "bridge", "policy", "identity", "peer"}, {"peer"}}

\* The routers are read in the order of the cluster, the master first, and
\* of two fetches that overlap that of the GRE tunnels answers first.
InOrderOfCluster ==
    /\ \A type \in Types : r2 \in DOMAIN reading[type] => r1 \in DOMAIN reading[type]
    /\ \A q \in Range(requests) : r1 \in q.todo => r2 \in q.todo
    /\ "gre" \in fetching => reading["ipsec"] = NoAnswers

FromOther == \E q \in Range(requests) : q.by = "other"

InScope ==
    /\ InOrderOfCluster
    /\ \/ /\ scope = "form" /\ here /\ Len(requests) <= 1 /\ doubt = {}
          /\ \A q \in Range(requests) : q.by # "other" /\ q.missed = {}
       \/ /\ scope = "requests" /\ details = NoTunnel /\ NothingLeft
          /\ form.open => cluster /\ form.type = "gre" /\ form.settings = s1
          /\ requests # <<>> => cluster /\ Loaded
          /\ Len(requests) = 2 \/ FromOther => here /\ doubt = {}
          /\ FromOther => ~form.open /\ target = NoTunnel
          /\ Cardinality({i \in DOMAIN requests : requests[i].missed # {}}) <= 1
          /\ (Len(requests) = 2 \/ FromOther) /\ (\E q \in Range(requests) : Running(q)) =>
                \A type \in Types : reading[type] = NoAnswers

\* Once the last request is sent, or one of the other administrator, no form
\* or dialog opens and none is filled in.
LastSent == Len(requests) = IF scope = "form" THEN 1 ELSE 2
FormFixed ==
    LastSent \/ FromOther =>
        /\ form'.open => form.open
        /\ form.open /\ form'.open =>
             \/ form' = [form EXCEPT !.saving = form'.saving]
             \/ cluster' # cluster
        /\ target' \in {target, NoTunnel} /\ details' \in {details, NoTunnel}

MCInit ==
    /\ Init
    /\ scope \in {"form", "requests"}
    /\ scope = "requests" =>
          \/ conf[r1] = {}
          \/ \E o \in conf[r1] : o.path = "route"
MCNext == Next /\ UNCHANGED scope /\ InScope' /\ FormFixed
MCSpec == MCInit /\ [][MCNext]_<<vars, scope>> /\ Fairness

==============================================================================
