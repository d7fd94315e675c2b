--------------------------- MODULE ClusterService ---------------------------
(***************************************************************************)
(* The cluster service of the backend (internal/cluster): clusters of one  *)
(* or two routers of a tenant in two tables. Create, Update and Delete run *)
(* their SQL statements one by one and without a transaction, so a failure *)
(* leaves what the earlier statements did, and requests interleave between *)
(* statements. The reachability flag and its checks are left out.          *)
(***************************************************************************)
EXTENDS Naturals, Sequences, FiniteSets

CONSTANTS
    Names,        \* cluster names
    RouterNames,  \* router names
    Hosts,        \* addresses of routers
    NoHost,       \* an address left empty
    NewRouter,    \* the absent ID of a router to be created
    MaxRequests   \* requests of a behaviour

VARIABLES
    clusters,     \* rows: id, name
    routers,      \* rows: id, cluster, name, host, role, cred
    requests      \* the requests so far, in the order they arrived

serviceVars == <<clusters, routers, requests>>

ASSUME NoHostAssumption == NoHost \notin Hosts

\* The ID of a router is the request and the input that created it.
ASSUME NewRouterAssumption == NewRouter \notin Nat \X {1, 2}

\* What a request says of one router. cred tells which of the two credential
\* fields are filled; a row that says "both" holds credentials, one that says
\* "password" a blank user name.
Creds == {"none", "user", "password", "both"}
Input(id, name, host, role, cred) ==
    [id |-> id, name |-> name, host |-> host, role |-> role, cred |-> cred]

RoutersOf(c) == {r \in routers : r.cluster = c}

\* UNIQUE (tenant_id, name) of both tables, UNIQUE (tenant_id, host, port).
NameFree(name, id) == ~\E c \in clusters : c.name = name /\ c.id # id
RouterFits(input, id) ==
    ~\E r \in routers : r.id # id /\ (r.name = input.name \/ r.host = input.host)

-----------------------------------------------------------------------------
(* Validation.                                                             *)

\* The roles of one or two routers.
ValidRoles(inputs) ==
    /\ Len(inputs) \in {1, 2}
    /\ \E k \in DOMAIN inputs : inputs[k].role = "master"
    /\ Len(inputs) = 2 => \E k \in DOMAIN inputs : inputs[k].role = "backup"

ValidCreate(inputs) ==
    /\ ValidRoles(inputs)
    /\ \A k \in DOMAIN inputs : inputs[k].host # NoHost /\ inputs[k].cred = "both"

\* Only a router without ID needs its credentials.
ValidUpdate(inputs) ==
    /\ ValidRoles(inputs)
    /\ \A k \in DOMAIN inputs :
          /\ inputs[k].host # NoHost
          /\ inputs[k].id = NewRouter => inputs[k].cred = "both"

-----------------------------------------------------------------------------
(* Requests. "next" is the statement to run; "drop" the routers an update  *)
(* has still to delete, "at" the input it is at. "overlap" only records    *)
(* that another request for the cluster ran at the same time.              *)

Running(q) == q.next \notin {"ok", "error"}

Request(op, by, cluster, name, inputs) ==
    [op |-> op, by |-> by, cluster |-> cluster, name |-> name, inputs |-> inputs,
     next |-> CASE op = "delete" -> "delete"
                [] op = "create" /\ ValidCreate(inputs) -> "insert"
                [] op = "update" /\ ValidUpdate(inputs) -> "get"
                [] OTHER -> "error",
     drop |-> {}, at |-> 1,
     overlap |-> \E j \in DOMAIN requests :
                    Running(requests[j]) /\ requests[j].cluster = cluster]

\* The cluster a create makes has the number of the request for its ID.
Arrive(op, by, c, name, inputs) ==
    LET cluster == IF op = "create" THEN Len(requests) + 1 ELSE c
    IN  /\ Len(requests) < MaxRequests
        /\ requests' =
             Append([j \in DOMAIN requests |->
                       IF Running(requests[j]) /\ requests[j].cluster = cluster
                       THEN [requests[j] EXCEPT !.overlap = TRUE] ELSE requests[j]],
                    Request(op, by, cluster, name, inputs))

Advance(i, next) == requests' = [requests EXCEPT ![i].next = next]

\* CreateCluster.
InsertCluster(i) ==
    /\ requests[i].next = "insert"
    /\ NameFree(requests[i].name, i)
    /\ clusters' = clusters \cup {[id |-> i, name |-> requests[i].name]}
    /\ Advance(i, "routers")
    /\ UNCHANGED routers

\* Update begins with GetByID.
GetCluster(i) ==
    /\ requests[i].next = "get"
    /\ \E c \in clusters :
          /\ c.id = requests[i].cluster
          /\ Advance(i, IF c.name = requests[i].name THEN "list" ELSE "rename")
    /\ UNCHANGED <<clusters, routers>>

\* UpdateClusterName reports a row that is gone.
RenameCluster(i) ==
    LET q == requests[i] IN
    /\ q.next = "rename"
    /\ \E c \in clusters : c.id = q.cluster
    /\ NameFree(q.name, q.cluster)
    /\ clusters' = {IF c.id = q.cluster THEN [c EXCEPT !.name = q.name] ELSE c : c \in clusters}
    /\ Advance(i, "list")
    /\ UNCHANGED routers

\* Mutant: no router is taken out.
ListDropsNothing(i) ==
    /\ requests[i].next = "list"
    /\ Advance(i, "routers")
    /\ UNCHANGED <<clusters, routers>>

\* Mutant: the master is taken out instead of the routers the request lacks.
ListDropsMaster(i) ==
    LET q == requests[i]
        drop == {r.id : r \in {s \in RoutersOf(q.cluster) : s.role = "master"}}
    IN  /\ q.next = "list"
        /\ requests' = [requests EXCEPT ![i].drop = drop,
                          ![i].next = IF drop = {} THEN "routers" ELSE "drop"]
        /\ UNCHANGED <<clusters, routers>>

\* ListRoutersByCluster tells which routers the request no longer has.
ListRouters(i) ==
    LET q == requests[i]
        incoming == {q.inputs[k].id : k \in DOMAIN q.inputs}
        drop == {r.id : r \in RoutersOf(q.cluster)} \ incoming
    IN  /\ q.next = "list"
        /\ requests' = [requests EXCEPT ![i].drop = drop,
                          ![i].next = IF drop = {} THEN "routers" ELSE "drop"]
        /\ UNCHANGED <<clusters, routers>>

\* DeleteRouter, which does not mind a row that is gone.
DropRouter(i) ==
    /\ requests[i].next = "drop"
    /\ \E id \in requests[i].drop :
          /\ routers' = {r \in routers : r.id # id}
          /\ requests' = [requests EXCEPT ![i].drop = @ \ {id},
                            ![i].next = IF requests[i].drop = {id} THEN "routers" ELSE "drop"]
    /\ UNCHANGED clusters

NextInput(i) ==
    requests' = [requests EXCEPT ![i].at = @ + 1,
                   ![i].next = IF requests[i].at = Len(requests[i].inputs)
                               THEN "read" ELSE "routers"]

\* CreateRouter; the cluster it refers to must exist.
InsertRouter(i) ==
    LET q == requests[i] input == q.inputs[q.at] IN
    /\ q.next = "routers"
    /\ input.id = NewRouter
    /\ RouterFits(input, NewRouter)
    /\ \E c \in clusters : c.id = q.cluster
    /\ routers' = routers \cup
         {[id |-> <<i, q.at>>, cluster |-> q.cluster, name |-> input.name,
           host |-> input.host, role |-> input.role, cred |-> input.cred]}
    /\ NextInput(i)
    /\ UNCHANGED clusters

\* Mutant: the credentials are written whether or not a password was given.
OverwriteRouter(i) ==
    LET q == requests[i] input == q.inputs[q.at] IN
    /\ q.next = "routers"
    /\ input.id # NewRouter
    /\ RouterFits(input, input.id)
    /\ routers' = {IF r.id = input.id
                   THEN [r EXCEPT !.name = input.name, !.host = input.host,
                                  !.role = input.role, !.cred = input.cred]
                   ELSE r : r \in routers}
    /\ NextInput(i)
    /\ UNCHANGED clusters

\* UpdateRouter by ID, in whatever cluster the router is; with a password both
\* credentials are written, a user name left blank included, without one they
\* stay. A row that is gone is not noticed.
UpdateRouter(i) ==
    LET q == requests[i] input == q.inputs[q.at] IN
    /\ q.next = "routers"
    /\ input.id # NewRouter
    /\ ~(\E r \in routers : r.id = input.id) \/ RouterFits(input, input.id)
    /\ routers' = {IF r.id = input.id
                   THEN [r EXCEPT !.name = input.name, !.host = input.host, !.role = input.role,
                                  !.cred = IF input.cred \in {"password", "both"} THEN input.cred
                                           ELSE @]
                   ELSE r : r \in routers}
    /\ NextInput(i)
    /\ UNCHANGED clusters

\* The answer is read back.
ReadBack(i) ==
    /\ requests[i].next = "read"
    /\ Advance(i, "ok")
    /\ UNCHANGED <<clusters, routers>>

\* Mutant: the routers stay behind.
DeleteWithoutCascade(i) ==
    /\ requests[i].next = "delete"
    /\ \E c \in clusters : c.id = requests[i].cluster
    /\ clusters' = {c \in clusters : c.id # requests[i].cluster}
    /\ Advance(i, "ok")
    /\ UNCHANGED routers

\* DeleteCluster cascades to the routers and reports a row that is gone.
DeleteCluster(i) ==
    LET q == requests[i] IN
    /\ q.next = "delete"
    /\ \E c \in clusters : c.id = q.cluster
    /\ clusters' = {c \in clusters : c.id # q.cluster}
    /\ routers' = routers \ RoutersOf(q.cluster)
    /\ Advance(i, "ok")

\* Any statement may fail, and a refused one does: the request ends there.
StatementFails(i) ==
    /\ Running(requests[i])
    /\ Advance(i, "error")
    /\ UNCHANGED <<clusters, routers>>

ServeStep(i) ==
    \/ InsertCluster(i)
    \/ GetCluster(i)
    \/ RenameCluster(i)
    \/ ListRouters(i)
    \/ DropRouter(i)
    \/ InsertRouter(i)
    \/ UpdateRouter(i)
    \/ ReadBack(i)
    \/ DeleteCluster(i)
    \/ StatementFails(i)

\* buildClusterResponse.
ClusterResponse(c) ==
    LET rows == RoutersOf(c.id)
    IN  [id |-> c.id, name |-> c.name,
         mode |-> IF Cardinality(rows) = 2 THEN "ha" ELSE "standalone",
         routers |-> {[id |-> r.id, name |-> r.name, host |-> r.host, role |-> r.role] : r \in rows}]

-----------------------------------------------------------------------------
(* Properties.                                                             *)

\* A cluster has at most one master and one backup, and a cluster with a
\* router has a master, unless two requests for it overlapped: Update works
\* statement by statement on what ListRoutersByCluster found.
RolesUnlessOverlap ==
    \A c \in clusters :
        LET of(role) == {r \in RoutersOf(c.id) : r.role = role}
        IN  \/ \E i \in DOMAIN requests : requests[i].cluster = c.id /\ requests[i].overlap
            \/ /\ Cardinality(of("master")) <= 1 /\ Cardinality(of("backup")) <= 1
               /\ RoutersOf(c.id) # {} => of("master") # {}

\* A cluster without routers is one whose Create has not inserted them yet,
\* or failed before it could (Create commits the cluster first); an Update
\* that fails half way leaves a router.
RouterlessOnlyAfterFailure ==
    \A c \in clusters :
        RoutersOf(c.id) = {} =>
            \E i \in DOMAIN requests :
                /\ requests[i].cluster = c.id
                /\ requests[i].op = "create" /\ requests[i].next # "ok"

=============================================================================
