------------------------------ MODULE Accounts ------------------------------
(***************************************************************************)
(* Tenants, users and the first set-up: the handlers of internal/setup,    *)
(* internal/user and internal/tenant, the SetupGuard in front of them and  *)
(* the operator's tool cmd/seed, all writing to one database at a time.    *)
(*                                                                         *)
(* A step is one SQL statement or one COMMIT, so everything interleaves    *)
(* between two statements.  Set-up, new tenants and seeds run in a         *)
(* transaction: what they inserted is invisible until COMMIT, but whoever  *)
(* inserts the same unique key waits for its outcome.  The requests about  *)
(* a user run their statements one by one, without a transaction.          *)
(***************************************************************************)
EXTENDS Naturals, FiniteSets

CONSTANTS
    Processes,  \* handlers and seeds that run at the same time
    Slugs,      \* the tenants there can be, by their unique slug
    System,     \* the slug of the tenant the set-up creates
    Emails,     \* the unique emails of users
    Portal,     \* the only key of portal_settings
    Nobody,     \* the holder of a free key
    NoJob,
    Jobs,       \* the requests and seeds that are tried, see IsJob
    MaxUsers,   \* bound: rows of users that are ever inserted
    MaxFaults   \* bound: statements that fail, answers that are lost, crashes

Keys == {Portal} \cup Slugs \cup Emails
Ids == 1..MaxUsers
Roles == {"owner", "other"}         \* admin, operator and viewer are alike
NoRole == "unchanged"               \* the body of an update names no role

SeedKinds == {"seedSuperadmin", "seedTenant"}
UserKinds == {"create", "update", "delete"}
Kinds == {"setup", "createTenant"} \cup SeedKinds \cup UserKinds

IsJob(j) ==
    /\ DOMAIN j = {"kind", "slug", "email", "id", "role"}
    /\ j.kind \in Kinds
    /\ j.slug \in Slugs             \* the tenant, for a user request the caller's
    /\ j.email \in Emails           \* of the user to insert
    /\ j.id \in Ids                 \* the user to update or delete
    /\ j.role \in Roles \cup {NoRole}
    /\ j.kind \in {"setup", "seedSuperadmin"} => j.slug = System
    /\ j.kind = "create" => j.role \in Roles

ASSUME KeysAssumption ==
    /\ Portal \notin Slugs \cup Emails
    /\ Slugs \cap Emails = {}
    /\ System \in Slugs
    /\ Nobody \notin Processes \cup Slugs
ASSUME JobsAssumption == NoJob \notin Jobs /\ \A j \in Jobs : IsJob(j)
ASSUME BoundAssumption == MaxUsers \in Nat /\ MaxFaults \in Nat

VARIABLES
    \* committed rows
    portal,     \* portal_settings has its row
    tenants,    \* the slugs of tenants
    users,      \* users[i]: the row with id i, or NoRow
    born,       \* ids given out so far
    \* uncommitted ones
    holder,     \* holder[k]: the open transaction that wrote key k
    \* processes
    setupDone,  \* the cached answer of SetupGuard
    job,        \* job[p]: what p is about
    at,         \* at[p]: the statement p executes next
    reply,      \* reply[p]: how p ended last
    faults,
    \* history
    stale,      \* processes whose tenant got or lost an owner since they read
    setups      \* set-up requests that were committed

tableVars == <<portal, tenants, users, born>>
vars == <<tableVars, holder, setupDone, job, at, reply, faults, stale, setups>>

Statements == {"check", "portal", "tenant", "owner", "commit", "token",
               "insert", "read", "count", "update", "delete", "reread"}
Replies == {"none", "ok", "conflict", "complete", "notFound", "error"}

NoRow == [tenant |-> Nobody, email |-> Nobody, role |-> NoRole]
Rows == [tenant : Slugs, email : Emails, role : Roles]
Present == {i \in Ids : users[i] # NoRow}
OwnersIn(table, s) ==
    {i \in Ids : table[i].tenant = s /\ table[i].role = "owner"}
Owners(s) == OwnersIn(users, s)
WithEmail(e) == {i \in Present : users[i].email = e}
\* WHERE tenant_id = $1 AND id = $2
Found(j) == users[j.id].tenant = j.slug

Running == {p \in Processes : at[p] # "idle"}
Free(p, k) == holder[k] \in {Nobody, p}
Take(p, k) == holder' = [holder EXCEPT ![k] = p]
Goto(p, s) == at' = [at EXCEPT ![p] = s]

\* p is done.  The transaction it may have open ends with it: the deferred
\* Rollback of a committed transaction does nothing.
End(p, r) ==
    /\ Goto(p, "idle")
    /\ reply' = [reply EXCEPT ![p] = r]
    /\ job' = [job EXCEPT ![p] = NoJob]
    /\ holder' = [k \in Keys |-> IF holder[k] = p THEN Nobody ELSE holder[k]]

\* The statement s follows, of the same process and transaction.
Continue(p, s) == Goto(p, s) /\ UNCHANGED <<reply, job>>

\* Those who lose sight of an owner when the table becomes new.
Outdated(new) ==
    {q \in Processes : /\ at[q] \in {"count", "update", "delete"}
                       /\ OwnersIn(new, job[q].slug) # Owners(job[q].slug)}
WriteUsers(p, new) ==
    /\ users' = new
    /\ stale' = (stale \cup Outdated(new)) \ {p}
Insert(p, row) ==
    /\ WriteUsers(p, [users EXCEPT ![born + 1] = row])
    /\ born' = born + 1

Works == UNCHANGED faults
Fails == faults < MaxFaults /\ faults' = faults + 1

Init ==
    /\ portal = FALSE
    /\ tenants = {}
    /\ users = [i \in Ids |-> NoRow]
    /\ born = 0
    /\ holder = [k \in Keys |-> Nobody]
    /\ setupDone = FALSE
    /\ job = [p \in Processes |-> NoJob]
    /\ at = [p \in Processes |-> "idle"]
    /\ reply = [p \in Processes |-> "none"]
    /\ faults = 0
    /\ stale = {}
    /\ setups = 0

-----------------------------------------------------------------------------
(* A request arrives, a seed is started                                    *)

Unguarded == {"setup"} \cup SeedKinds

\* Mutant: the answer of IsSetupComplete is not looked at.
GuardPassesAll(j) ==
    setupDone' = (setupDone \/ j.kind \notin Unguarded)

\* A guarded request passes when set-up is complete, which is remembered.
SetupGuard(j) ==
    IF j.kind \in Unguarded THEN UNCHANGED setupDone
    ELSE (setupDone \/ portal) /\ setupDone' = TRUE

\* The caller has a token: of an owner of System, or of an owner or admin
\* of the tenant the request is about.
HasToken(j) ==
    CASE j.kind \in UserKinds -> j.slug \in tenants
      [] j.kind = "createTenant" -> System \in tenants
      [] OTHER -> TRUE

\* The bound on users holds back a request that might not fit.
Room == born + Cardinality(Running) < MaxUsers

First(j) ==
    CASE j.kind = "seedSuperadmin" -> "check"
      [] j.kind = "setup" -> "portal"
      [] j.kind \in {"createTenant", "seedTenant"} -> "tenant"
      [] j.kind = "create" -> "insert"
      [] j.kind = "update" -> IF j.role = NoRole THEN "update" ELSE "read"
      [] j.kind = "delete" -> "read"

Start(p) == \E j \in Jobs :
    /\ at[p] = "idle"
    /\ Room
    /\ HasToken(j)
    /\ SetupGuard(j)
    /\ job' = [job EXCEPT ![p] = j]
    /\ Goto(p, First(j))
    /\ reply' = [reply EXCEPT ![p] = "none"]
    /\ UNCHANGED <<tableVars, holder, faults, stale, setups>>

-----------------------------------------------------------------------------
(* The transactions                                                        *)

SeedCheck(p) ==
    /\ at[p] = "check"
    /\ IF portal THEN End(p, "complete")
       ELSE Continue(p, "portal") /\ UNCHANGED holder
    /\ Works
    /\ UNCHANGED <<tableVars, setupDone, stale, setups>>

\* Mutant: an uncommitted row counts as a conflict.
PortalWithoutWait(p) ==
    /\ at[p] = "portal"
    /\ IF portal \/ ~Free(p, Portal)
       THEN IF job[p].kind = "setup" THEN End(p, "complete")
            ELSE Continue(p, "tenant") /\ UNCHANGED holder
       ELSE Continue(p, "tenant") /\ Take(p, Portal)
    /\ Works
    /\ UNCHANGED <<tableVars, setupDone, stale, setups>>

\* Mutant: the row is inserted through the pool, outside the transaction.
PortalOutsideTransaction(p) ==
    /\ at[p] = "portal"
    /\ IF job[p].kind = "setup" /\ portal THEN End(p, "complete") /\ UNCHANGED portal
       ELSE Continue(p, "tenant") /\ UNCHANGED holder /\ portal' = TRUE
    /\ Works
    /\ UNCHANGED <<tenants, users, born, setupDone, stale, setups>>

\* INSERT INTO portal_settings ... ON CONFLICT DO NOTHING.  The set-up gives
\* up when there is a row; the seed goes on.
InsertPortal(p) ==
    /\ at[p] = "portal"
    /\ Free(p, Portal)
    /\ IF ~portal THEN Continue(p, "tenant") /\ Take(p, Portal)
       ELSE IF job[p].kind = "setup" THEN End(p, "complete")
       ELSE Continue(p, "tenant") /\ UNCHANGED holder
    /\ Works
    /\ UNCHANGED <<tableVars, setupDone, stale, setups>>

\* Mutant: an error leaves the transaction open.
InsertKeyNoRollback(p, k, exists, next) ==
    /\ Free(p, k)
    /\ IF exists /\ job[p].kind \notin SeedKinds
       THEN /\ Goto(p, "idle")
            /\ reply' = [reply EXCEPT ![p] = "error"]
            /\ job' = [job EXCEPT ![p] = NoJob]
            /\ UNCHANGED holder
       ELSE Continue(p, next) /\ Take(p, k)
    /\ Works
    /\ UNCHANGED <<tableVars, setupDone, stale, setups>>

\* An INSERT of key k that exists: an upsert of a seed takes the row, the
\* handlers answer with an error and roll back.
InsertKey(p, k, exists, next) ==
    /\ Free(p, k)
    /\ IF exists /\ job[p].kind \notin SeedKinds
       THEN End(p, IF job[p].kind = "setup" THEN "error" ELSE "conflict")
       ELSE Continue(p, next) /\ Take(p, k)
    /\ Works
    /\ UNCHANGED <<tableVars, setupDone, stale, setups>>

\* Mutant: the tenant seed inserts the owner before the tenant.
TenantAfterOwner(p) ==
    /\ at[p] = "tenant"
    /\ IF job[p].kind = "seedTenant" /\ holder[job[p].email] # p
       THEN InsertKey(p, job[p].email, WithEmail(job[p].email) # {}, "tenant")
       ELSE InsertKey(p, job[p].slug, job[p].slug \in tenants, "owner")

InsertTenant(p) ==
    /\ at[p] = "tenant"
    /\ InsertKey(p, job[p].slug, job[p].slug \in tenants, "owner")

InsertOwner(p) ==
    /\ at[p] = "owner"
    /\ InsertKey(p, job[p].email, WithEmail(job[p].email) # {}, "commit")

\* What the transaction wrote becomes visible at once.  The superadmin seed
\* does not move an existing user to its tenant, the tenant seed does.
Visible(p) ==
    LET j == job[p]
        old == WithEmail(j.email)
    IN /\ portal' = (portal \/ holder[Portal] = p)
       /\ tenants' = tenants \cup {j.slug}
       /\ IF old = {}
          THEN Insert(p, [tenant |-> j.slug, email |-> j.email, role |-> "owner"])
          ELSE /\ WriteUsers(p, [i \in Ids |->
                     IF i \notin old THEN users[i]
                     ELSE [users[i] EXCEPT !.role = "owner",
                             !.tenant = IF j.kind = "seedTenant" THEN j.slug ELSE @]])
               /\ UNCHANGED born
       /\ setups' = IF j.kind = "setup" THEN setups + 1 ELSE setups

\* COMMIT.  A set-up issues tokens afterwards.
Commit(p) ==
    /\ at[p] = "commit"
    /\ Visible(p)
    /\ \/ /\ Works
          /\ IF job[p].kind = "setup"
             THEN /\ Continue(p, "token")
                  /\ holder' = [k \in Keys |-> IF holder[k] = p THEN Nobody ELSE holder[k]]
             ELSE End(p, "ok")
       \/ Fails /\ End(p, "error")      \* its answer is lost
    /\ UNCHANGED setupDone

StoreToken(p) ==
    /\ at[p] = "token"
    /\ End(p, "ok")
    /\ Works
    /\ UNCHANGED <<tableVars, setupDone, stale, setups>>

-----------------------------------------------------------------------------
(* The requests about a user                                               *)

\* user.Repository.Create: one INSERT, which waits for the email.
InsertUserIn(p, slug) ==
    LET j == job[p] IN
    /\ at[p] = "insert"
    /\ Free(p, j.email)
    /\ IF WithEmail(j.email) # {}
       THEN End(p, "conflict") /\ UNCHANGED <<users, born, stale>>
       ELSE /\ Insert(p, [tenant |-> slug, email |-> j.email, role |-> j.role])
            /\ End(p, "ok")
    /\ Works
    /\ UNCHANGED <<portal, tenants, setupDone, setups>>

InsertUser(p) == InsertUserIn(p, job[p].slug)

Demotes(j) == j.kind = "delete" \/ j.role # "owner"

ReadUser(p) ==
    LET j == job[p] IN
    /\ at[p] = "read"
    /\ IF ~Found(j) THEN End(p, "notFound")
       ELSE /\ Continue(p, IF users[j.id].role = "owner" /\ Demotes(j)
                           THEN "count" ELSE j.kind)
            /\ UNCHANGED holder
    /\ Works
    /\ UNCHANGED <<tableVars, setupDone, stale, setups>>

\* Mutant: the last owner is refused when there is none left.
CountTooLow(p) ==
    /\ at[p] = "count"
    /\ IF Owners(job[p].slug) = {}
       THEN End(p, "conflict") /\ stale' = stale \ {p}
       ELSE Continue(p, job[p].kind) /\ UNCHANGED <<holder, stale>>
    /\ Works
    /\ UNCHANGED <<tableVars, setupDone, setups>>

CountOwners(p) ==
    /\ at[p] = "count"
    /\ IF Cardinality(Owners(job[p].slug)) <= 1
       THEN End(p, "conflict") /\ stale' = stale \ {p}
       ELSE Continue(p, job[p].kind) /\ UNCHANGED <<holder, stale>>
    /\ Works
    /\ UNCHANGED <<tableVars, setupDone, setups>>

\* The row waits for a seed that holds it; WHERE is evaluated afterwards.
Unlocked(p) == Found(job[p]) => Free(p, users[job[p].id].email)

UpdateUser(p) ==
    LET j == job[p] IN
    /\ at[p] = "update"
    /\ Unlocked(p)
    /\ IF ~Found(j)
       THEN End(p, "notFound") /\ stale' = stale \ {p} /\ UNCHANGED users
       ELSE /\ WriteUsers(p, IF j.role = NoRole THEN users
                             ELSE [users EXCEPT ![j.id].role = j.role])
            /\ Continue(p, "reread")
            /\ UNCHANGED holder
    /\ Works
    /\ UNCHANGED <<portal, tenants, born, setupDone, setups>>

DeleteUser(p) ==
    LET j == job[p] IN
    /\ at[p] = "delete"
    /\ Unlocked(p)
    /\ IF Found(j)
       THEN WriteUsers(p, [users EXCEPT ![j.id] = NoRow]) /\ End(p, "ok")
       ELSE End(p, "notFound") /\ stale' = stale \ {p} /\ UNCHANGED users
    /\ Works
    /\ UNCHANGED <<portal, tenants, born, setupDone, setups>>

\* The updated user may be gone by now.
Reread(p) ==
    /\ at[p] = "reread"
    /\ End(p, IF Found(job[p]) THEN "ok" ELSE "notFound")
    /\ Works
    /\ UNCHANGED <<tableVars, setupDone, stale, setups>>

-----------------------------------------------------------------------------
(* Faults                                                                  *)

\* A statement fails, or the client disconnects before it.
Fail(p) ==
    /\ at[p] # "idle"
    /\ Fails
    /\ End(p, "error")
    /\ stale' = stale \ {p}
    /\ UNCHANGED <<tableVars, setupDone, setups>>

\* The server is killed and starts again.  Seeds are processes of their own.
Crash ==
    LET dead == {p \in Running : job[p].kind \notin SeedKinds} IN
    /\ dead # {} \/ setupDone
    /\ Fails
    /\ setupDone' = FALSE
    /\ at' = [p \in Processes |-> IF p \in dead THEN "idle" ELSE at[p]]
    /\ job' = [p \in Processes |-> IF p \in dead THEN NoJob ELSE job[p]]
    /\ holder' = [k \in Keys |-> IF holder[k] \in dead THEN Nobody ELSE holder[k]]
    /\ stale' = stale \ dead
    /\ UNCHANGED <<tableVars, reply, setups>>

Statement(p) ==
    \/ SeedCheck(p) \/ InsertPortal(p) \/ InsertTenant(p) \/ InsertOwner(p)
    \/ Commit(p) \/ StoreToken(p)
    \/ InsertUser(p) \/ ReadUser(p) \/ CountOwners(p)
    \/ UpdateUser(p) \/ DeleteUser(p) \/ Reread(p)

\* Every user the bound admits was inserted, and nothing is under way.
OutOfUsers == Running = {} /\ ~Room /\ UNCHANGED vars

Next ==
    \/ \E p \in Processes : Start(p) \/ Statement(p) \/ Fail(p)
    \/ Crash
    \/ OutOfUsers

Spec == Init /\ [][Next]_vars

\* A statement ends, and Postgres serves those who wait for a key in turn.
FairSpec == Spec /\ \A p \in Processes : SF_vars(Statement(p))

-----------------------------------------------------------------------------
(* Properties                                                              *)

\* However many set-up requests and seeds run at once, fail or are cut off,
\* at most one set-up is committed, and portal and System tenant come
\* together (setup/service.go CompleteSetup, "inside a single transaction").
SetupOnce ==
    /\ setups <= 1
    /\ portal => System \in tenants

\* Whoever is told that set-up is complete can rely on it: the set-up or the
\* seed it lost against was not rolled back (setup/service.go 131-133).
CompleteMeansDone ==
    \A p \in Processes : reply[p] = "complete" => portal

\* No request is served before the set-up is committed, whatever SetupGuard
\* remembers and however the server restarts (middleware/setup.go).
ServedAfterSetup ==
    \A p \in Running : job[p].kind \notin Unguarded => portal

\* A tenant that is visible has an owner, and loses its last one only to a
\* request whose tenant got or lost an owner between its read and its write:
\* requests that do not overlap keep an owner (user/service.go Update, Delete).
OwnerlessNeedsOverlap ==
    [][\A s \in tenants' :
         (Owners(s))' = {} =>
            \/ s \in tenants /\ Owners(s) = {}
            \/ \E p \in stale : at[p] \in {"update", "delete"} /\ at'[p] # at[p]]_vars

\* The key the next statement of p waits for.
Needed(p) ==
    CASE at[p] = "portal" -> {Portal}
      [] at[p] = "tenant" -> {job[p].slug}
      [] at[p] \in {"owner", "insert"} -> {job[p].email}
      [] at[p] \in {"update", "delete"} /\ Found(job[p]) -> {users[job[p].id].email}
      [] OTHER -> {}
WaitsFor(p) == {holder[k] : k \in Needed(p)} \ {Nobody, p}

\* Transactions never wait for each other in a circle: everybody writes the
\* portal row, then the tenant, then the user (setup/service.go 121-159,
\* tenant/handler.go 154-187, cmd/seed/main.go).
NoCircularWait ==
    \A P \in SUBSET Running : P # {} => \E p \in P : WaitsFor(p) \cap P = {}

\* A tenant always has an owner (user/service.go:100-101 and 149).
AlwaysOwned == \A s \in tenants : Owners(s) # {}

\* Every request and every seed that starts ends, those that wait for the
\* key of a transaction that fails included.
EveryRequestEnds == \A p \in Processes : at[p] # "idle" ~> at[p] = "idle"
=============================================================================
