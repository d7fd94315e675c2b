--------------------------- MODULE AccountsProofs ---------------------------
(***************************************************************************)
(* The first set-up and the waiting of transactions, for any processes,    *)
(* tenants, users and requests.  The invariant says who can hold which key *)
(* at which statement: the portal row is written first, then the tenant,   *)
(* then the user.  From it follow that a set-up about to commit is the     *)
(* only one that wrote the portal row, and that whoever waits for a key    *)
(* waits for a process that has got further than itself.                   *)
(***************************************************************************)
EXTENDS Accounts, TLAPS

InTransaction == {"tenant", "owner", "commit"}
\* Where the holder of key k can be.
HolderAt(k) == IF k = Portal THEN InTransaction
               ELSE IF k \in Slugs THEN {"owner", "commit"}
               ELSE {"commit"}

ShapeOK ==
    /\ portal \in BOOLEAN
    /\ users \in [Ids -> Rows \cup {NoRow}]
    /\ holder \in [Keys -> Processes \cup {Nobody}]
    /\ job \in [Processes -> Jobs \cup {NoJob}]
    /\ at \in [Processes -> Statements \cup {"idle"}]
    /\ reply \in [Processes -> Replies]
    /\ setups \in Nat
JobsOK == \A p \in Processes :
    /\ at[p] # "idle" => job[p] \in Jobs
    /\ at[p] \in {"check", "portal"} => job[p].kind \in {"setup", "seedSuperadmin"}
    /\ at[p] = "insert" => job[p].kind = "create"
ReadersOK == \A p \in Processes :
    at[p] \in {"read", "count"} => job[p].kind \in {"update", "delete"}
HoldersOK ==
    \A p \in Processes, k \in Keys : holder[k] = p => at[p] \in HolderAt(k)
PortalOK == \A p \in Processes :
    /\ holder[Portal] = p => ~portal /\ job[p].slug = System
    /\ at[p] \in InTransaction /\ job[p].kind = "setup" => holder[Portal] = p
SetupOK ==
    /\ setups <= 1
    /\ setups = 1 => portal
    /\ portal => System \in tenants
DoneOK ==
    /\ setupDone => portal
    /\ CompleteMeansDone
    /\ ServedAfterSetup

AccountsInv ==
    ShapeOK /\ JobsOK /\ ReadersOK /\ HoldersOK /\ PortalOK /\ SetupOK /\ DoneOK

\* Portal is a key, and neither a tenant nor an email.
LEMMA PortalKey == Portal \in Keys /\ Portal \notin Slugs /\ Portal \notin Emails
  BY KeysAssumption DEF Keys

\* The invariant holds in the empty database.
LEMMA InitAccountsInv == Init => AccountsInv
  <1> SUFFICES ASSUME Init PROVE AccountsInv
    OBVIOUS
  <1>1. ShapeOK
    BY DEF Init, ShapeOK, Statements, Replies
  <1>2. \A p \in Processes : at[p] = "idle" /\ reply[p] = "none"
    BY DEF Init
  <1>3. \A p \in Processes, k \in Keys : holder[k] # p
    BY KeysAssumption DEF Init
  <1>4. JobsOK /\ ReadersOK /\ HoldersOK /\ PortalOK
    BY <1>2, <1>3, PortalKey DEF JobsOK, ReadersOK, HoldersOK, PortalOK, InTransaction
  <1>5. SetupOK /\ DoneOK
    BY <1>2 DEF Init, SetupOK, DoneOK, CompleteMeansDone, ServedAfterSetup, Running
  <1> QED
    BY <1>1, <1>4, <1>5 DEF AccountsInv

\* A set-up and the superadmin seed are about the System tenant.
LEMMA SystemJobs ==
    ASSUME NEW j \in Jobs, j.kind \in {"setup", "seedSuperadmin"}
    PROVE  j.slug = System
  BY JobsAssumption DEF IsJob

\* A process that ends, without changing what the set-up wrote, keeps the
\* invariant: its keys become free.
LEMMA EndKeeps ==
    ASSUME AccountsInv, NEW p \in Processes, NEW r \in Replies, End(p, r),
           r = "complete" => portal,
           users' \in [Ids -> Rows \cup {NoRow}],
           UNCHANGED <<portal, tenants, setupDone, setups>>
    PROVE  AccountsInv'
  <1> USE DEF AccountsInv
  <1>1. /\ at' = [at EXCEPT ![p] = "idle"]
        /\ reply' = [reply EXCEPT ![p] = r]
        /\ job' = [job EXCEPT ![p] = NoJob]
        /\ holder' = [k \in Keys |-> IF holder[k] = p THEN Nobody ELSE holder[k]]
    BY DEF End, Goto
  <1>2. ShapeOK'
    BY <1>1 DEF ShapeOK
  <1>3. JobsOK' /\ ReadersOK'
    BY <1>1, <1>2 DEF ShapeOK, JobsOK, ReadersOK
  <1>4. HoldersOK'
    BY <1>1, <1>2, KeysAssumption DEF ShapeOK, HoldersOK
  <1>5. PortalOK'
    BY <1>1, <1>2, KeysAssumption, PortalKey DEF ShapeOK, PortalOK, InTransaction
  <1>6. SetupOK' /\ DoneOK'
    BY <1>1, <1>2 DEF ShapeOK, SetupOK, DoneOK, CompleteMeansDone, ServedAfterSetup, Running
  <1> QED
    BY <1>2, <1>3, <1>4, <1>5, <1>6

\* A process outside a transaction that goes on to its next statement.
LEMMA ContinueKeeps ==
    ASSUME AccountsInv, NEW p \in Processes, NEW s \in Statements, Continue(p, s),
           at[p] \in {"check", "read", "count", "update"},
           s \in {"portal", "count", "update", "delete", "reread"},
           s = "portal" => at[p] = "check",
           s = "count" => at[p] = "read",
           users' \in [Ids -> Rows \cup {NoRow}],
           UNCHANGED <<portal, tenants, holder, setupDone, setups>>
    PROVE  AccountsInv'
  <1> USE DEF AccountsInv
  <1>1. at' = [at EXCEPT ![p] = s] /\ UNCHANGED <<reply, job>>
    BY DEF Continue, Goto
  <1>2. ShapeOK'
    BY <1>1 DEF ShapeOK
  <1>3. JobsOK' /\ ReadersOK'
    BY <1>1, <1>2 DEF ShapeOK, JobsOK, ReadersOK
  <1>4. HoldersOK'
    BY <1>1, <1>2 DEF ShapeOK, HoldersOK, HolderAt, InTransaction
  <1>5. PortalOK'
    BY <1>1, <1>2 DEF ShapeOK, PortalOK, InTransaction
  <1>6. SetupOK' /\ DoneOK'
    BY <1>1, <1>2 DEF ShapeOK, SetupOK, DoneOK, CompleteMeansDone, ServedAfterSetup, Running
  <1> QED
    BY <1>2, <1>3, <1>4, <1>5, <1>6

\* A transaction that takes its next key: the portal row, when there is none,
\* then the tenant, then the user.
LEMMA TakeKeeps ==
    ASSUME AccountsInv, NEW p \in Processes, NEW k \in Keys, NEW s \in Statements,
           Free(p, k), Take(p, k), Continue(p, s),
           \/ at[p] = "portal" /\ k = Portal /\ ~portal /\ s = "tenant"
           \/ at[p] = "tenant" /\ k \in Slugs /\ s = "owner"
           \/ at[p] = "owner" /\ k \in Emails /\ s = "commit",
           UNCHANGED <<tableVars, setupDone, setups>>
    PROVE  AccountsInv'
  <1> USE DEF AccountsInv, tableVars
  <1>1. /\ at' = [at EXCEPT ![p] = s] /\ UNCHANGED <<reply, job>>
        /\ holder' = [holder EXCEPT ![k] = p]
    BY DEF Continue, Goto, Take
  <1>2. ShapeOK'
    BY <1>1 DEF ShapeOK
  <1>3. JobsOK' /\ ReadersOK'
    BY <1>1, <1>2 DEF ShapeOK, JobsOK, ReadersOK
  <1>4. HoldersOK'
    BY <1>1, <1>2, PortalKey, KeysAssumption
    DEF ShapeOK, HoldersOK, HolderAt, InTransaction, Keys
  <1>5. PortalOK'
    <2> SUFFICES ASSUME NEW q \in Processes
                 PROVE  /\ holder'[Portal] = q => ~portal' /\ job'[q].slug = System
                        /\ at'[q] \in InTransaction /\ job'[q].kind = "setup"
                             => holder'[Portal] = q
      BY DEF PortalOK
    <2>1. CASE k = Portal
      <3>1. at[p] = "portal" /\ ~portal /\ holder'[Portal] = p
        BY <1>1, <2>1, PortalKey DEF ShapeOK
      <3>2. job[p].slug = System
        BY <3>1, SystemJobs DEF JobsOK
      <3>3. q # p => holder[Portal] # q
        BY <2>1, KeysAssumption DEF Free
      <3> QED
        BY <1>1, <3>1, <3>2, <3>3 DEF ShapeOK, PortalOK
    <2>2. CASE k # Portal
      <3>1. holder'[Portal] = holder[Portal]
        BY <1>1, <2>2, PortalKey DEF ShapeOK
      <3>2. at[p] \in InTransaction
        BY <2>2 DEF InTransaction
      <3> QED
        BY <1>1, <3>1, <3>2 DEF ShapeOK, PortalOK
    <2> QED
      BY <2>1, <2>2
  <1>6. SetupOK' /\ DoneOK'
    BY <1>1, <1>2 DEF ShapeOK, SetupOK, DoneOK, CompleteMeansDone, ServedAfterSetup, Running
  <1> QED
    BY <1>2, <1>3, <1>4, <1>5, <1>6

\* The INSERT of the portal row.
LEMMA InsertPortalKeeps ==
    ASSUME AccountsInv, NEW p \in Processes, InsertPortal(p)
    PROVE  AccountsInv'
  <1> USE DEF InsertPortal, tableVars
  <1>1. CASE ~portal
    BY <1>1, TakeKeeps, PortalKey DEF Statements, tableVars
  <1>2. CASE portal /\ job[p].kind = "setup"
    BY <1>2, EndKeeps DEF AccountsInv, ShapeOK, Replies
  <1>3. CASE portal /\ job[p].kind # "setup"
    <2> USE DEF AccountsInv
    <2>1. at' = [at EXCEPT ![p] = "tenant"] /\ UNCHANGED <<reply, job, holder>>
      BY <1>3 DEF Continue, Goto
    <2>2. ShapeOK'
      BY <2>1 DEF ShapeOK, Statements
    <2>3. JobsOK' /\ ReadersOK' /\ HoldersOK'
      BY <2>1, <2>2 DEF ShapeOK, JobsOK, ReadersOK, HoldersOK, HolderAt, InTransaction
    <2>4. PortalOK'
      BY <1>3, <2>1, <2>2 DEF ShapeOK, PortalOK
    <2>5. SetupOK' /\ DoneOK'
      BY <2>1, <2>2 DEF ShapeOK, SetupOK, DoneOK, CompleteMeansDone, ServedAfterSetup, Running
    <2> QED
      BY <2>2, <2>3, <2>4, <2>5
  <1> QED
    BY <1>1, <1>2, <1>3

\* The INSERTs of the tenant and of its owner.
LEMMA InsertKeyKeeps ==
    ASSUME AccountsInv, NEW p \in Processes, InsertTenant(p) \/ InsertOwner(p)
    PROVE  AccountsInv'
  <1>1. job[p] \in Jobs
    BY DEF InsertTenant, InsertOwner, AccountsInv, JobsOK
  <1>2. job[p].slug \in Slugs /\ job[p].email \in Emails
    BY <1>1, JobsAssumption DEF IsJob
  <1>3. CASE InsertTenant(p)
    <2>1. CASE job[p].slug \in tenants /\ job[p].kind \notin SeedKinds
      BY <1>3, <2>1, EndKeeps DEF InsertTenant, InsertKey, tableVars, AccountsInv, ShapeOK, Replies
    <2>2. CASE ~(job[p].slug \in tenants /\ job[p].kind \notin SeedKinds)
      BY <1>2, <1>3, <2>2, TakeKeeps DEF InsertTenant, InsertKey, tableVars, Keys, Statements
    <2> QED
      BY <2>1, <2>2
  <1>4. CASE InsertOwner(p)
    <2> DEFINE taken == WithEmail(job[p].email) # {} /\ job[p].kind \notin SeedKinds
    <2>1. CASE taken
      BY <1>4, <2>1, EndKeeps DEF InsertOwner, InsertKey, tableVars, AccountsInv, ShapeOK, Replies
    <2>2. CASE ~taken
      BY <1>2, <1>4, <2>2, TakeKeeps DEF InsertOwner, InsertKey, tableVars, Keys, Statements
    <2> QED
      BY <2>1, <2>2
  <1> QED
    BY <1>3, <1>4

\* The rows of users keep their form, whatever the statement.
LEMMA UsersTyped ==
    ASSUME AccountsInv, NEW p \in Processes, at[p] # "idle",
           \/ Visible(p) \/ InsertUser(p) \/ UpdateUser(p) \/ DeleteUser(p)
    PROVE  users' \in [Ids -> Rows \cup {NoRow}]
  <1>1. job[p] \in Jobs /\ IsJob(job[p]) /\ users \in [Ids -> Rows \cup {NoRow}]
    BY JobsAssumption DEF AccountsInv, JobsOK, ShapeOK
  <1>2. CASE Visible(p)
    <2> DEFINE j == job[p]
               old == WithEmail(j.email)
    <2>1. [tenant |-> j.slug, email |-> j.email, role |-> "owner"] \in Rows
      BY <1>1 DEF IsJob, Rows, Roles
    <2>2. CASE old = {}
      BY <1>1, <1>2, <2>1, <2>2 DEF Visible, Insert, WriteUsers
    <2>3. CASE old # {}
      <3>1. \A i \in old : users[i] \in Rows
        BY <1>1 DEF WithEmail, Present
      <3>2. \A i \in old : [users[i] EXCEPT !.role = "owner",
                 !.tenant = IF j.kind = "seedTenant" THEN j.slug ELSE @] \in Rows
        BY <1>1, <3>1 DEF Rows, Roles, IsJob
      <3>3. users' = [i \in Ids |->
                IF i \notin old THEN users[i]
                ELSE [users[i] EXCEPT !.role = "owner",
                        !.tenant = IF j.kind = "seedTenant" THEN j.slug ELSE @]]
        BY <1>2, <2>3 DEF Visible, WriteUsers
      <3> QED
        BY <1>1, <3>2, <3>3
    <2> QED
      BY <2>2, <2>3
  <1>3. CASE InsertUser(p)
    <2> DEFINE row == [tenant |-> job[p].slug, email |-> job[p].email,
                       role |-> job[p].role]
    <2>1. job[p].role \in Roles
      BY <1>1, <1>3 DEF AccountsInv, JobsOK, IsJob, InsertUser, InsertUserIn
    <2>2. row \in Rows
      BY <1>1, <2>1 DEF IsJob, Rows
    <2>3. users' = users \/ users' = [users EXCEPT ![born + 1] = row]
      BY <1>3 DEF InsertUser, InsertUserIn, Insert, WriteUsers
    <2> QED
      BY <1>1, <2>2, <2>3
  <1>4. CASE UpdateUser(p)
    <2>1. Found(job[p]) => users[job[p].id] \in Rows
      BY <1>1, KeysAssumption DEF Found, NoRow, IsJob
    <2>2. Found(job[p]) /\ job[p].role # NoRole =>
              [users[job[p].id] EXCEPT !.role = job[p].role] \in Rows
      BY <1>1, <2>1 DEF IsJob, Rows
    <2> QED
      BY <1>1, <1>4, <2>2 DEF UpdateUser, WriteUsers
  <1>5. CASE DeleteUser(p)
    BY <1>1, <1>5 DEF DeleteUser, WriteUsers
  <1> QED
    BY <1>2, <1>3, <1>4, <1>5

\* A request that passes SetupGuard finds the set-up committed.
LEMMA StartKeeps ==
    ASSUME AccountsInv, NEW p \in Processes, Start(p)
    PROVE  AccountsInv'
  <1> USE DEF AccountsInv
  <1>1. PICK j \in Jobs :
          /\ at[p] = "idle"
          /\ SetupGuard(j)
          /\ job' = [job EXCEPT ![p] = j]
          /\ Goto(p, First(j))
          /\ reply' = [reply EXCEPT ![p] = "none"]
          /\ UNCHANGED <<tableVars, holder, faults, stale, setups>>
    BY DEF Start
  <1>2. IsJob(j)
    BY JobsAssumption
  <1>3. /\ First(j) \in Statements
        /\ First(j) \in {"check", "portal"} => j.kind \in {"setup", "seedSuperadmin"}
        /\ First(j) = "insert" => j.kind = "create"
        /\ First(j) \in {"read", "count"} => j.kind \in {"update", "delete"}
        /\ First(j) \in InTransaction => j.kind # "setup"
    BY <1>2 DEF First, IsJob, Kinds, SeedKinds, UserKinds, Statements, InTransaction
  <1>4. at' = [at EXCEPT ![p] = First(j)]
    BY <1>1 DEF Goto
  <1>5. ShapeOK'
    BY <1>1, <1>3, <1>4 DEF ShapeOK, tableVars, Replies
  <1>6. JobsOK' /\ ReadersOK'
    BY <1>1, <1>3, <1>4 DEF ShapeOK, JobsOK, ReadersOK
  <1>7. \A k \in Keys : holder[k] # p
    BY <1>1 DEF HoldersOK, HolderAt, InTransaction
  <1>8. HoldersOK'
    BY <1>1, <1>4, <1>7 DEF ShapeOK, HoldersOK
  <1>9. PortalOK'
    BY <1>1, <1>3, <1>4, <1>7, PortalKey DEF ShapeOK, PortalOK, tableVars
  <1>10. SetupOK'
    BY <1>1 DEF SetupOK, tableVars
  <1>11. DoneOK'
    <2>1. (setupDone' => portal) /\ (j.kind \notin Unguarded => portal)
      BY <1>1 DEF SetupGuard, DoneOK
    <2>2. \A q \in Processes : reply'[q] = "complete" => portal
      BY <1>1 DEF ShapeOK, DoneOK, CompleteMeansDone
    <2>3. \A q \in Running' : job'[q].kind \notin Unguarded => portal
      BY <1>1, <1>4, <2>1 DEF ShapeOK, DoneOK, ServedAfterSetup, Running
    <2> QED
      BY <1>1, <2>1, <2>2, <2>3 DEF DoneOK, CompleteMeansDone, ServedAfterSetup, tableVars
  <1> QED
    BY <1>5, <1>6, <1>8, <1>9, <1>10, <1>11

\* COMMIT: a set-up that gets there holds the portal row, so none was
\* committed before.
LEMMA CommitKeeps ==
    ASSUME AccountsInv, NEW p \in Processes, Commit(p)
    PROVE  AccountsInv'
  <1> USE DEF AccountsInv
  <1>1. /\ at[p] = "commit" /\ Visible(p) /\ UNCHANGED setupDone
        /\ portal' = (portal \/ holder[Portal] = p)
        /\ tenants' = tenants \cup {job[p].slug}
        /\ setups' = IF job[p].kind = "setup" THEN setups + 1 ELSE setups
    BY DEF Commit, Visible
  <1>2. /\ holder' = [k \in Keys |-> IF holder[k] = p THEN Nobody ELSE holder[k]]
        /\ \/ UNCHANGED <<reply, job>> /\ at' = [at EXCEPT ![p] = "token"]
           \/ /\ at' = [at EXCEPT ![p] = "idle"]
              /\ job' = [job EXCEPT ![p] = NoJob]
              /\ \E r \in {"ok", "error"} : reply' = [reply EXCEPT ![p] = r]
    BY DEF Commit, Continue, End, Goto
  <1>3. ShapeOK'
    <2>1. users' \in [Ids -> Rows \cup {NoRow}]
      BY <1>1, UsersTyped
    <2> QED
      BY <1>1, <1>2, <2>1 DEF ShapeOK, Statements, Replies
  <1>4. JobsOK' /\ ReadersOK'
    BY <1>1, <1>2, <1>3 DEF ShapeOK, JobsOK, ReadersOK
  <1>5. HoldersOK'
    BY <1>2, <1>3, KeysAssumption DEF ShapeOK, HoldersOK
  <1>6. PortalOK'
    <2>1. \A q \in Processes : holder'[Portal] = q => q # p /\ holder[Portal] = q
      BY <1>2, PortalKey, KeysAssumption DEF ShapeOK
    <2>2. \A q \in Processes \ {p} : holder[Portal] = q => holder'[Portal] = q
      BY <1>2, PortalKey DEF ShapeOK
    <2>3. \A q \in Processes \ {p} : at'[q] = at[q] /\ job'[q] = job[q]
      BY <1>2 DEF ShapeOK
    <2>4. at'[p] \notin InTransaction
      BY <1>2 DEF ShapeOK, InTransaction
    <2> QED
      BY <1>1, <2>1, <2>2, <2>3, <2>4 DEF PortalOK
  <1>7. SetupOK'
    <2>1. job[p].kind = "setup" => holder[Portal] = p
      BY <1>1 DEF PortalOK, InTransaction
    <2>2. holder[Portal] = p => ~portal /\ job[p].slug = System
      BY DEF PortalOK
    <2>3. setups' <= 1 /\ (setups' = 1 => portal')
      <3>1. CASE job[p].kind = "setup"
        <4>1. setups # 1
          BY <2>1, <2>2, <3>1 DEF SetupOK
        <4>2. setups' = 1
          BY <1>1, <3>1, <4>1 DEF ShapeOK, SetupOK
        <4>3. portal'
          BY <1>1, <2>1, <3>1
        <4> QED
          BY <4>2, <4>3
      <3>2. CASE job[p].kind # "setup"
        BY <1>1, <3>2 DEF ShapeOK, SetupOK
      <3> QED
        BY <3>1, <3>2
    <2>4. portal' => System \in tenants'
      BY <1>1, <2>2 DEF SetupOK
    <2> QED
      BY <2>3, <2>4 DEF SetupOK
  <1>8. DoneOK'
    BY <1>1, <1>2, <1>3
    DEF ShapeOK, DoneOK, CompleteMeansDone, ServedAfterSetup, Running
  <1> QED
    BY <1>3, <1>4, <1>5, <1>6, <1>7, <1>8

\* The statements outside a transaction: each ends the process or goes on.
LEMMA StatementKeeps ==
    ASSUME AccountsInv, NEW p \in Processes, Statement(p)
    PROVE  AccountsInv'
  <1>1. portal \in BOOLEAN /\ users \in [Ids -> Rows \cup {NoRow}]
    BY DEF AccountsInv, ShapeOK
  <1>2. at[p] # "idle" => job[p] \in Jobs /\ IsJob(job[p])
    BY JobsAssumption DEF AccountsInv, JobsOK
  <1>3. CASE SeedCheck(p)
    <2>1. CASE portal
      BY <1>1, <1>3, <2>1, EndKeeps DEF SeedCheck, tableVars, Replies
    <2>2. CASE ~portal
      BY <1>1, <1>3, <2>2, ContinueKeeps DEF SeedCheck, tableVars, Statements
    <2> QED
      BY <2>1, <2>2
  <1>4. CASE StoreToken(p)
    BY <1>1, <1>4, EndKeeps DEF StoreToken, tableVars, Replies
  <1>5. CASE InsertUser(p)
    <2>1. users' \in [Ids -> Rows \cup {NoRow}]
      BY <1>5, UsersTyped DEF InsertUser, InsertUserIn
    <2>2. End(p, "ok") \/ End(p, "conflict")
      BY <1>5 DEF InsertUser, InsertUserIn
    <2> QED
      BY <1>5, <2>1, <2>2, EndKeeps DEF InsertUser, InsertUserIn, Replies
  <1>6. CASE ReadUser(p)
    <2>1. CASE ~Found(job[p])
      BY <1>1, <1>6, <2>1, EndKeeps DEF ReadUser, tableVars, Replies
    <2>2. CASE Found(job[p])
      <3>1. PICK s \in {"count", job[p].kind} : Continue(p, s) /\ UNCHANGED holder
        BY <1>6, <2>2 DEF ReadUser
      <3>2. job[p].kind \in {"update", "delete"}
        BY <1>6 DEF ReadUser, AccountsInv, ReadersOK
      <3> QED
        BY <1>1, <1>6, <3>1, <3>2, ContinueKeeps DEF ReadUser, tableVars, Statements
    <2> QED
      BY <2>1, <2>2
  <1>7. CASE CountOwners(p)
    <2>1. job[p].kind \in {"update", "delete"}
      BY <1>7 DEF CountOwners, AccountsInv, ReadersOK
    <2>2. End(p, "conflict") \/ (Continue(p, job[p].kind) /\ UNCHANGED holder)
      BY <1>7 DEF CountOwners
    <2>3. CASE End(p, "conflict")
      BY <1>1, <1>7, <2>3, EndKeeps DEF CountOwners, tableVars, Replies
    <2>4. CASE Continue(p, job[p].kind) /\ UNCHANGED holder
      BY <1>1, <1>7, <2>1, <2>4, ContinueKeeps DEF CountOwners, tableVars, Statements
    <2> QED
      BY <2>2, <2>3, <2>4
  <1>8. CASE UpdateUser(p)
    <2>1. users' \in [Ids -> Rows \cup {NoRow}]
      BY <1>8, UsersTyped DEF UpdateUser
    <2>2. CASE ~Found(job[p])
      BY <1>8, <2>1, <2>2, EndKeeps DEF UpdateUser, Replies
    <2>3. CASE Found(job[p])
      BY <1>8, <2>1, <2>3, ContinueKeeps DEF UpdateUser, Statements
    <2> QED
      BY <2>2, <2>3
  <1>9. CASE DeleteUser(p)
    <2>1. users' \in [Ids -> Rows \cup {NoRow}]
      BY <1>9, UsersTyped DEF DeleteUser
    <2>2. End(p, "ok") \/ End(p, "notFound")
      BY <1>9 DEF DeleteUser
    <2> QED
      BY <1>9, <2>1, <2>2, EndKeeps DEF DeleteUser, Replies
  <1>10. CASE Reread(p)
    <2>1. PICK r \in {"ok", "notFound"} : End(p, r)
      BY <1>10 DEF Reread
    <2> QED
      BY <1>1, <1>10, <2>1, EndKeeps DEF Reread, tableVars, Replies
  <1> QED
    BY <1>3, <1>4, <1>5, <1>6, <1>7, <1>8, <1>9, <1>10,
       InsertPortalKeeps, InsertKeyKeeps, CommitKeeps DEF Statement

\* A crash frees the keys of the requests it ends; the seeds run on.
LEMMA CrashKeeps == AccountsInv /\ Crash => AccountsInv'
  <1> SUFFICES ASSUME AccountsInv, Crash PROVE AccountsInv'
    OBVIOUS
  <1> USE DEF AccountsInv
  <1> DEFINE dead == {p \in Running : job[p].kind \notin SeedKinds}
  <1>1. /\ at' = [p \in Processes |-> IF p \in dead THEN "idle" ELSE at[p]]
        /\ job' = [p \in Processes |-> IF p \in dead THEN NoJob ELSE job[p]]
        /\ holder' = [k \in Keys |-> IF holder[k] \in dead THEN Nobody ELSE holder[k]]
        /\ setupDone' = FALSE /\ UNCHANGED <<tableVars, reply, setups>>
    BY DEF Crash
  <1> HIDE DEF dead
  <1>2. ShapeOK'
    BY <1>1 DEF ShapeOK, tableVars
  <1>3. JobsOK'
    BY <1>1, <1>2 DEF ShapeOK, JobsOK
  <1>4. ReadersOK'
    BY <1>1, <1>2 DEF ShapeOK, ReadersOK
  <1>5. \A p \in Processes, k \in Keys : holder'[k] = p => p \notin dead /\ holder[k] = p
    BY <1>1, KeysAssumption DEF ShapeOK
  <1>6. \A p \in Processes \ dead, k \in Keys : holder[k] = p => holder'[k] = p
    BY <1>1 DEF ShapeOK
  <1>7. HoldersOK'
    BY <1>1, <1>5 DEF ShapeOK, HoldersOK
  <1>8. PortalOK'
    BY <1>1, <1>5, <1>6, PortalKey DEF ShapeOK, PortalOK, tableVars, InTransaction
  <1>9. SetupOK' /\ DoneOK'
    BY <1>1 DEF ShapeOK, SetupOK, DoneOK, CompleteMeansDone, ServedAfterSetup, Running, tableVars
  <1> QED
    BY <1>2, <1>3, <1>4, <1>7, <1>8, <1>9

\* Every step keeps the invariant.
LEMMA NextKeeps == AccountsInv /\ [Next]_vars => AccountsInv'
  <1> SUFFICES ASSUME AccountsInv, [Next]_vars PROVE AccountsInv'
    OBVIOUS
  <1>1. CASE \E p \in Processes : Start(p)
    BY <1>1, StartKeeps
  <1>2. CASE \E p \in Processes : Statement(p)
    BY <1>2, StatementKeeps
  <1>3. CASE \E p \in Processes : Fail(p)
    BY <1>3, EndKeeps DEF Fail, tableVars, AccountsInv, ShapeOK, Replies
  <1>4. CASE Crash
    BY <1>4, CrashKeeps
  <1>5. CASE UNCHANGED vars
    BY <1>5 DEF vars, tableVars, AccountsInv, ShapeOK, JobsOK, ReadersOK, HoldersOK,
       PortalOK, SetupOK, DoneOK, CompleteMeansDone, ServedAfterSetup, Running
  <1> QED
    BY <1>1, <1>2, <1>3, <1>4, <1>5 DEF Next, OutOfUsers

\* The invariant, for every value of the constants.
LEMMA AccountsInvariant == Spec => []AccountsInv
  BY InitAccountsInv, NextKeeps, PTL DEF Spec

-----------------------------------------------------------------------------
\* At most one set-up is ever committed, and the portal row and the System
\* tenant appear together (setup/service.go CompleteSetup).
THEOREM SetupHappensOnce == Spec => []SetupOnce
  <1>1. AccountsInv => SetupOnce
    BY DEF AccountsInv, SetupOK, SetupOnce
  <1> QED
    BY <1>1, AccountsInvariant, PTL

\* An answer "already complete" is never taken back by a rollback
\* (setup/service.go 131-133, cmd/seed/main.go 75-78).
THEOREM CompletionIsReliable == Spec => []CompleteMeansDone
  <1>1. AccountsInv => CompleteMeansDone
    BY DEF AccountsInv, DoneOK
  <1> QED
    BY <1>1, AccountsInvariant, PTL

\* SetupGuard lets nobody through before the set-up is committed
\* (middleware/setup.go).
THEOREM GuardHolds == Spec => []ServedAfterSetup
  <1>1. AccountsInv => ServedAfterSetup
    BY DEF AccountsInv, DoneOK
  <1> QED
    BY <1>1, AccountsInvariant, PTL

-----------------------------------------------------------------------------
\* How far a process is in the order of the keys.
Stage(p) == CASE at[p] = "commit" -> 3
              [] at[p] \in {"owner", "insert", "update", "delete"} -> 2
              [] at[p] = "tenant" -> 1
              [] OTHER -> 0

\* Whoever p waits for has got further than p.
LEMMA WaitsForFurther ==
    ASSUME AccountsInv, NEW p \in Processes, NEW q \in Processes, q \in WaitsFor(p)
    PROVE  Stage(q) > Stage(p)
  <1>1. PICK k \in Needed(p) : holder[k] = q
    BY DEF WaitsFor
  <1>2. at[p] # "idle" => job[p] \in Jobs /\ IsJob(job[p])
    BY JobsAssumption DEF AccountsInv, JobsOK
  <1>3. CASE at[p] = "portal"
    <2>1. k = Portal
      BY <1>3 DEF Needed
    <2>2. at[q] \in InTransaction
      BY <1>1, <2>1, PortalKey DEF AccountsInv, HoldersOK, HolderAt
    <2> QED
      BY <1>3, <2>2 DEF Stage, InTransaction
  <1>4. CASE at[p] = "tenant"
    <2>1. k \in Slugs
      BY <1>2, <1>4 DEF Needed, IsJob
    <2>2. at[q] \in {"owner", "commit"}
      BY <1>1, <2>1, PortalKey DEF AccountsInv, HoldersOK, HolderAt, Keys
    <2> QED
      BY <1>4, <2>2 DEF Stage
  <1>5. CASE at[p] \in {"owner", "insert", "update", "delete"}
    <2>1. k \in Emails
      <3>1. CASE at[p] \in {"owner", "insert"}
        BY <1>2, <3>1 DEF Needed, IsJob
      <3>2. CASE at[p] \in {"update", "delete"}
        <4>1. Found(job[p]) /\ k = users[job[p].id].email
          BY <3>2 DEF Needed
        <4>2. users[job[p].id] \in Rows
          BY <1>2, <3>2, <4>1, KeysAssumption DEF Found, NoRow, IsJob, AccountsInv, ShapeOK
        <4> QED
          BY <4>1, <4>2 DEF Rows
      <3> QED
        BY <1>5, <3>1, <3>2
    <2>2. at[q] = "commit"
      BY <1>1, <2>1, KeysAssumption DEF AccountsInv, HoldersOK, HolderAt, Keys
    <2> QED
      BY <1>5, <2>2 DEF Stage
  <1> QED
    BY <1>1, <1>3, <1>4, <1>5 DEF Needed

\* Transactions and requests never wait for each other in a circle: in every
\* set of processes one that has got furthest waits for nobody in it
\* (setup/service.go 121-159, tenant/handler.go 154-187, cmd/seed/main.go).
THEOREM OrderedKeysNeverCircle == Spec => []NoCircularWait
  <1>1. ASSUME AccountsInv PROVE NoCircularWait
    <2> SUFFICES ASSUME NEW P \in SUBSET Running, P # {}
                 PROVE  \E p \in P : WaitsFor(p) \cap P = {}
      BY DEF NoCircularWait
    <2>1. P \subseteq Processes
      BY DEF Running
    <2>2. PICK p \in P : \A q \in P : Stage(q) <= Stage(p)
      <3>1. \A q \in P : Stage(q) \in 0..3
        BY DEF Stage
      <3>2. CASE \E q \in P : Stage(q) = 3
        BY <3>1, <3>2
      <3>3. CASE (\E q \in P : Stage(q) = 2) /\ \A q \in P : Stage(q) # 3
        BY <3>1, <3>3
      <3>4. CASE (\E q \in P : Stage(q) = 1) /\ \A q \in P : Stage(q) \notin {2, 3}
        BY <3>1, <3>4
      <3>5. CASE \A q \in P : Stage(q) \notin {1, 2, 3}
        BY <3>1, <3>5
      <3> QED
        BY <3>2, <3>3, <3>4, <3>5
    <2>3. \A q \in WaitsFor(p) \cap P : Stage(q) > Stage(p)
      BY <1>1, <2>1, WaitsForFurther
    <2>4. \A q \in P : Stage(q) \in 0..3
      BY DEF Stage
    <2> QED
      BY <2>2, <2>3, <2>4
  <1> QED
    BY <1>1, AccountsInvariant, PTL
=============================================================================
