# Specifications of kormos

kormos manages MikroTik RouterOS routers: a Go backend (`backend/`) keeps
tenants, users, clusters of one or two routers, sessions and an operation log
in Postgres and talks to the routers over their REST API; a React frontend
(`frontend/`) calls the backend.  This directory holds TLA+ modules of the
backend's own logic and of the pages that drive it, TLC runs that check them on
small instances, and proofs that the TLA+ proof system checks for instances of
any size.

Paths below are relative to `src/`; `internal/` is `src/backend/internal/`.

## 1. Inventory

| Part | State | Operations | What is hard | What makes it correct |
|---|---|---|---|---|
| Operation log and undo, `internal/operation` | tables `operation_groups` and `operations`, a mutex per router (`muMap`) | `Execute`, `rollbackApplied`, `Undo`, `ListHistory` | several requests and several routers, each call may fail, its answer may be lost, the client may disconnect, the backend may die; no transaction spans router and database | mutual exclusion per router, no deadlock, a failed group leaves nothing behind, an undone one too, and what the log says is what happened |
| RouterOS client, `internal/routeros` | none | `Get`, `Put`, `Patch`, `Post`, `Delete` with a timeout of 10 s | a timeout after the router did the work | the callers' |
| Firewall, routes, address lists, `internal/tunnel/{firewall,routes,addresslists}.go` | none of its own; the configuration of all routers of a cluster | create, update, delete on every router through `Execute`; `move` directly | IDs differ between the routers, so the backup's resource is found by content, before any lock | the routers of a cluster hold the same items, rules in the same order |
| Tunnels (GRE, IPsec, WireGuard), `internal/tunnel` | as above | assemble from several RouterOS menus, create, update, delete as groups of operations | objects refer to each other by name; lookups router by router before any lock | a tunnel is on a router as a whole or not at all, and the routers agree |
| Clusters, `internal/cluster` | tables `clusters`, `routers` | `Create`, `Update`, `Delete`, `TestConnection` | `Update` is a diff applied one statement at a time without a transaction | one or two routers, one of them the master, none without credentials |
| Routers, `internal/router` | table `routers` | CRUD, `CheckReachability`, `GetClientForRouter` | background reachability checks beside updates | reachability belongs to the host that was probed |
| Sessions, `internal/auth`, `frontend/src/api/client.ts` | table `refresh_tokens`, the cookie, the access token, the queue of waiting requests | `Login`, `Refresh` (rotation with reuse detection), `Logout`; the refresh interceptor | concurrent refreshes, answers that never arrive, requests that queue while a refresh ends | a used token is never accepted again, a detected reuse ends every session, no request waits for ever |
| Users, `internal/user` | table `users` | create, `Update`, `Delete` | the owner count is read in a statement of its own | a tenant keeps an owner |
| First set-up, `internal/setup`, `middleware/setup.go` | tables `portal_settings`, `tenants`, `users`; the cached answer of `SetupGuard` | `CompleteSetup`, `SetupGuard` | concurrent set-ups and seeds that may roll back, an error after the commit | set-up happens once, and whoever is told so can rely on it |
| Tenants, `internal/tenant` | table `tenants` | `CreateTenant` with its owner, `Update` | unique keys of several transactions | a tenant comes with its owner, transactions never wait in a circle |
| Seeds, `cmd/seed` | the same tables, from a process of its own | `seedSuperadmin`, `seedTenant` | runs beside the server; its check is a statement before its transaction | as the set-up |
| Middleware, `internal/middleware` | a token bucket per client | `RateLimit`, `RequireAuth`, roles, tenant | refill arithmetic, concurrent requests | no more than burst + rate * time requests pass |
| Batch engine, `internal/configure` | none | `SortOperations`, `Engine.Execute` | the dependency order, a failure in the middle | a batch is applied in dependency order and stops at the first failure |
| Audit log, proxy, interfaces, normalize, crypto, configuration | a table, or nothing | append, read through, format | - | not modelled: single statements, I/O or formatting |
| Pages for tunnels, routers, firewall rules, address lists, routes, `frontend/src/features` | the query cache, forms, dialogs, selections, requests in flight | what a user does in a form, a dialog or a table | answers that arrive after their form was closed or another one opened, lists that are fetched again under an open form, several requests of one click | nothing unvalidated is sent, no form stays locked, the list shows what the page was told |
| Other pages | the same | views over the endpoints | - | not modelled |

The parts meet in three ways.  The tunnel, firewall, route and address-list
services turn a request into a list of operations and hand it to
`operation.Service.Execute`.  `Execute` and `Undo` obtain a RouterOS client from
`router.Service.GetClientForRouter`.  Everything else in the backend shares the
database only.  The pages reach the backend through `api/client.ts`, and learn of
what they and others changed only by fetching their lists again.

`PROJECT.json` lists the hazards of this code, each at its line, with the
properties that cover it.

## 2. Modules

| Module | What it is |
|---|---|
| `OperationLog` | the operation service with its database, the routers and the environment; its properties |
| `RouterLocks`, `GroupPromise` | abstract specifications: what `lockRouterIDs` promises its callers, and what the log promises of a group |
| `MCOperationLog` | instances for TLC: the groups of operations and the initial resources |
| `OperationLogProofs` | type correctness, exclusion, absence of circular waits and the refinement of `RouterLocks`, for every value of the constants |
| `OperationLogReversalProofs` | rows that say undone, mutations without a row, failed groups and the refinement of `GroupPromise`, for every value of the constants |
| `OperationLogMatchProofs` | no reversal of Undo writes over a state its log does not have, for every value of the constants |
| `RefreshTokens` | the session endpoints with their table, one step per SQL statement |
| `Session` | the frontend's API client in the tabs of several browsers, on top of `RefreshTokens`; its properties |
| `MCSession`, `SessionProofs` | who sits where, for TLC; rotation revokes, and in browsers with one tab each one token of a login, no false accusation, a cookie for the next refresh and no token left behind, for every value of the constants |
| `Accounts` | the first set-up, tenants, users and seeds on one database; its properties |
| `MCAccounts`, `AccountsProofs` | what is requested and seeded, for TLC; set-up once, reliable answers, the guard and the order of keys, for every value of the constants |
| `TunnelService` | GRE and IPsec tunnels of a cluster: lookups without mutexes, the operations of a request, groups in progress and groups that fail |
| `TunnelsPage` | the tunnels page on top of it: list, form, details, delete dialog, late answers, another administrator |
| `MCTunnels` | its instances for TLC |
| `TunnelProofs` | valid payloads; whole tunnels, routers that agree, a list that shows what was acknowledged: for every value of the constants |
| `ClusterService` | create, update and delete of clusters, one step per SQL statement, each of which may fail |
| `RoutersPage` | the routers page on top of it, with the drawer and its connection tests |
| `MCRouters`, `ClusterProofs` | its instances for TLC; credentials, connection tests and the roles of routers, for every value of the constants |
| `ContentService` | firewall rules, routes and address list entries: three handlers of one shape that find an item on the other router by its content |
| `ContentPage` | what the three pages share: the cached list and another administrator |
| `FirewallPage`, `AddressListsPage`, `RoutesPage` | the pages |
| `MCContent` | composes the three pages, one at a time, with the service |
| `ContentProofs` | a list that is current, entries that stay distinct, texts that stay valid and types, with all pages at work and any other administrators, for every value of the constants |

### 2.1 OperationLog

One step is one call that can fail or one point where another request can
come in between: a router call, a database statement, the acquisition of one
mutex, a `return`.  Local computation between two calls belongs to the step of
the call.  An Execute request creates exactly one group, so the request `e` also
names its group.

| Variable | In the code |
|---|---|
| `config[r][id]`, `nextId[r]` | the resources of router `r`; RouterOS gives every resource a fresh `.id` (external) |
| `groupStatus[g]`, `rows[g][i]` | `operation_groups.status` ("none": no row) and the `operations` row with sequence `i` |
| `holder[r]` | the mutex `muMap[r]` |
| `pc`, `idx` | where a request is: the call it makes next, the position its loop works on |
| `draft[e]`, `rolledBack[e]` | the local `op` of `Execute`; `allRolledBack` |
| `target[u]`, `snap[u]` | the group an Undo is about, and the `*Group` it read before it took any mutex |
| `reply[p]` | the `status` of the response ("error": the handler answers with an error) |
| `cancelled` | requests whose `r.Context()` is cancelled: every later call with it fails |
| `faults` | how many faults the environment injected, at most `MaxFaults` |
| `balance[g][i]` | history: how often the router carried operation `i` out, less its reversals |

| Action | In `service.go` |
|---|---|
| `ExecuteStart`, `AcquireNext`, `AllLocked`, `CreateGroup`, `GetClients`, `Abandon` | 79-104, `lockRouterIDs` 48-61 |
| `FetchBefore`, `ApplyOperation`, `FetchAfter`, `InsertOperation` | the four numbered steps of the loop, 109-183 |
| `Succeed` | 185-190 |
| `RecordFailure` | the failed row and `markRemainingFailed`, 142-143 and 194-209 |
| `RollbackOne`, `RollbackMark`, `RollbackGroup`, `RespondFailure` | `rollbackApplied` 212-235 and `buildFailureResponse` 238-262 |
| `UndoReadGroup`, `UndoReadOps` | the two statements of `GetGroupByID` and the checks that follow, 266-300 |
| `UndoClients`, `UndoMatch`, `UndoReverse`, `UndoMark`, `UndoAttention`, `UndoFinish` | 303-361 |
| `ClientDisconnects`, `Crash`, `ExternalEdit` | the environment |

Abstractions.  A resource is a function from its non-volatile fields to values;
`Unset` is a field it does not have.  A PATCH merges (`Merge`).  The after state
that falls back to the request body has no `.id`, so it never matches a state the
router returns (`BodyOnly`).  Tenant, permission and expiry of an Undo are a
refusal that is open to every Undo.  The failed rows of `RecordFailure` are
written in one step, any of the INSERTs may fail; no other request reads the
rows of a group whose routers are locked except an Undo, which ignores failed
rows apart from their routers.  An add whose answer has no `.id` and an
operation of an unknown type are left out: RouterOS always answers a PUT with
the new resource, and the enum of the column admits three types.  Request
bodies name at most fields of `Fields`; a delete has an empty body.  Rows are
never removed: the cascades of migration 009, which delete the log with its router, user
or tenant, are left out.
`ListHistory` only reads.

Faults (`FaultKinds`): `router`, a router call fails and did nothing; `lost`, the
router carried the mutation out and the answer is lost; `db`, a statement
fails; `cancel`, the client disconnects; `crash`, the backend is killed; `edit`,
somebody changes a router outside the service.

Two abstract specifications are instantiated over these variables.  `RouterLocks`
has one variable, `owned[p]`: a request takes a set of routers nobody else has in
one step and gives it back in one step.  Its refinement mapping is `Owned`: the
routers of a request once it has passed `lockRouterIDs`, none before and after.
`GroupPromise` has `fate[g]` and `inForce[g]`: what the log says of a group, and which of
its operations are in force; while its request runs anything may be, afterwards
`applied` means all, `failed` and `undone` mean none, and operations only ever go
out of force.  The mapping calls a group open that has status `applied` while
its Execute still runs, since `CreateGroup` inserts that status first.

### 2.2 RefreshTokens and Session

`RefreshTokens` holds the table `refresh_tokens` (`owner`, `replaces`, `revoked`,
`expired`: a row, its `replaced_by`, its flag, whether `expires_at` has passed) and
the handlers (`at[q]` is the statement request `q` executes next, `cookie[q]` the
token it came with, `made[q]` the one it issues, `answer[q]` what happens to the
cookie).  `Session` EXTENDS it and adds the browsers: `jar` and `access` are the
cookie and `localStorage`, shared by the tabs of a browser; `refreshing`,
`redirecting` and the queued requests are the module state of
`frontend/src/api/client.ts`, one per tab.

| Action | In the code |
|---|---|
| `ReadToken`, `RevokeAll`, `MarkExpired`, `RevokeCurrent`, `InsertSuccessor`, `LookUpUser` | `auth/refresh.go` 40-139, `revokeAllUserTokens` |
| `Login`, `Logout` with their `Start` | `auth/handler.go` 65-203 |
| `Send`, `Ends`, `Unauthorized` | `client.ts` 48-90: the first fetch and the 401 |
| `RefreshSucceeds`, `RefreshFails`, `RetryEnds`, `RetryThrows` | 88-106: `processQueue`, the second fetch, the catch and the finally |
| `Unload`, `Dropped` | the assignment of `window.location.href`: the tab starts over |
| `LogIn`, `LogInArrives`, `LogOut`, `LogOutArrives`, `Open` | `LoginPage.tsx`, `UserMenu.tsx`, `useAuthStore.ts` |

JavaScript runs to the next `await` without interruption, so a continuation is one
step; the handlers of the backend interleave between any two statements.  An
access token is valid until it expires, whatever happens to refresh tokens.
Passwords, the contents of tokens and `last_login` are abstract.  A statement
that fails, an answer that is lost and a client that disconnects while its
request is handled are the faults (`MaxFaults`).  `Room` keeps requests waiting
that could exceed the `MaxTokens` rows of the model; it never stops a handler.

### 2.3 Accounts

Set-up, `CreateTenant` and the seeds run a transaction of several statements, the
requests about a user single statements through the pool; a step is one statement
or one COMMIT.  What an open transaction inserted is invisible, but it holds the
unique keys it wrote, and a statement that writes the same key waits.

| Variable | In the code |
|---|---|
| `portal`, `tenants`, `users`, `born` | the committed rows of migrations 008, 001 and 002; ids given out |
| `holder[k]` | the open transaction that wrote the unique key `k`: the portal's row, a slug, an email |
| `setupDone` | the `atomic.Bool` of `SetupGuard` |
| `job[p]`, `at[p]`, `reply[p]` | the request or seed a process works on, its next statement, its answer ("complete": 409 setup_complete, or the seed skips) |
| `stale`, `setups` | history: processes whose tenant got or lost an owner since they read; committed set-ups |

| Action | In the code |
|---|---|
| `Start` | routes of `cmd/server/main.go`, `SetupGuard`, the checks of roles and tenants (`HasToken`) |
| `SeedCheck` | `portalSettingsExist` |
| `InsertPortal`, `InsertTenant`, `InsertOwner` | `setup/service.go` 121-160, `tenant/handler.go` 166-187, `cmd/seed/main.go` 95-131 and 161-190: the handlers fail on an existing key, the seeds upsert |
| `Commit`, `StoreToken` | `setup/service.go` 163-207; COMMIT of the others |
| `InsertUser` | `user.Service.Create` |
| `ReadUser`, `CountOwners`, `UpdateUser`, `Reread`, `DeleteUser` | `user/service.go` 102-170, one statement each |
| `Fail`, `Crash` | a failed statement or a disconnect; a kill of the server, whose seeds live on |

Abstractions.  Roles are `owner` or other: only owners are counted.  A caller has
a token that admits the request (`HasToken`).  Refused request bodies, names,
passwords and the portal's settings are left out, and so are the updates that
change only those; 503 of the guard changes nothing.  A body of an update names
at least one field.  `Jobs` are the requests and seeds that are tried, each as often
as `Room` admits: this bound on rows holds back starts, never a running request.

### 2.4 TunnelService and TunnelsPage

A tunnel is the set of its RouterOS objects on every router of the cluster: one
interface for GRE; a profile, a proposal, a peer, an identity, policies and, if
route-based, a bridge, an address and routes for IPsec.  An object has an ID RouterOS
never gives out twice, here the request that created it.

| Variable | In the code |
|---|---|
| `conf[r]` | the tunnel objects on router `r`, without what a group in progress has done so far |
| `requests[i]` | a request: its body, the routers it has still to look at (`todo`), the operations it collected (`ops`), whether its group holds its mutexes (`locked`) and names an object that is gone (`lost`), its answer; `by` says whether the page waits for it; `torn`, `missed` and `left` are history |
| `list[type]` | the query cache of the two list endpoints |
| `fetching`, `reading[type]` | the lists that are fetched, and the answers of the routers the handler has read so far |
| `doubt` | history: the lists of whose latest fetch a router answered something else than it had before or after a group |
| `cluster`, `here` | whether the cluster query has answered; whether the URL names this cluster |
| `form`, `details`, `target` | the drawer, the selected tunnel, the tunnel the delete dialog asks about |

| Action | In the code |
|---|---|
| `Arrive`, `Lookup`, `LookupFails`, `NotFound` | `tunnel/service.go` and `handler.go`: `CreateGRE` to `DeleteIPsec`, the fetch per router, `continue` for a router without the tunnel |
| `Views`, `Answers` | what the GETs of a router may see: some of what a group in progress does there, and no routes, bridges or addresses when their GET failed (`FetchIPsecAll`, `ipsec.go:87-127`) |
| `CreateOps`, `UpdateGREOps`, `UpdateIPsecOps`, `DeleteOps` | `BuildIPsecCreateOps`, the diff of `UpdateIPsec`, `BuildIPsecDeleteOps`, the GRE counterparts |
| `Lock`, `ExecuteApplies` | `lockRouterIDs` and the loop of `Execute`; after it the listing for the answer, which may fail although the group was applied |
| `ExecuteFails` | `rollbackApplied`: what was deleted comes back under another ID (`Shares`), and an operation that cannot be reversed, or whose answer or row was lost, stays (`left`) |
| `MergedTunnel` | `merge.go` |
| `FetchRouter`, `ListArrives` | `ListGRE`, `ListIPsec`, called by `tunnelsApi.ts`: router by router, without a mutex |
| `ClusterLoads` | `useCluster`; it resets an open form |
| the fields, `HandleNext`, `HandleBack`, `Submit`, `Close`, `AnswerForm` | `TunnelForm.tsx` |
| `Edit`, `AskDelete`, `ConfirmDelete`, `AnswerDelete`, `LeaveCluster`, `ReturnToCluster` | `TunnelsPage.tsx` |
| `OtherRequest` | another administrator |

A group is applied operation by operation while its routers' mutexes are held, but no writer can come in between, so
`conf` changes once, when the group is done.  What others can see of it before is in `Views`: every lookup and every list
reads `conf[r]` as it was, or with those operations of the group in progress that are on the paths of one of `Glimpses`.
`Lock` starts that time and `ExecuteApplies` or `ExecuteFails` ends it, so a group that is rolled back is visible too.
The theorems hold for any set of paths in `Glimpses`.

Abstractions.  The GETs of one lookup overlap at most one group, and see of it what is on some paths, all of it or nothing
on each path.  A failed group leaves at most one operation in force.  The order of policies that a rollback created
anew is not kept: the IDs of `conf` stay, and requests that know the old ones are refused (`lost`).  Tunnel
addresses of which only the bridge or only the address was read count as none.  `Settings` stands for everything a
form always sends, `ready` for the fields of the first step that are filled or not.  The gateways of routes, search,
the expiry of the query cache and lists whose fetch fails (they keep what they have, with a banner) are left out.  Of two routers the
master comes first, since the role is an enum (`cluster/repository.go:174`).  A create without endpoints is
answered 400 (`Arrive`).

What reading and running showed about this code, none of it contradicted by
a text of the repository:

* an edit always sends `disabled: false` and so enables a disabled tunnel; `UpdateIPsec` ignores
  mode and subnets of its body;
* an update that adds a route and races a delete leaves the route behind, which no
  lookup finds again (`TunnelIsWhole` admits routes without a peer);
* a delete whose lookup falls in the middle of a create, or has a failed GET of `/interface/bridge` or `/ip/address`, removes
  what it saw and leaves the rest of the tunnel without a peer, out of reach of any later request (`DeletesSawAll`);
* a list that is read in the middle of a create which then fails shows a tunnel that is gone, until something else
  fetches the list again: an error invalidates nothing (`doubt`);
* a GRE tunnel with the name of an IPsec tunnel cannot be edited: `mergedByName` finds the other one, and the
  form stays blank (`Blank`);
* an answer acts on whichever form or dialog is open when it comes.

One text does look wrong: `TunnelForm.tsx:1143` tells the user "Policies will be created for
every combination" of local and remote subnets, while `BuildIPsecCreateOps` pairs
them by their index (`SubnetPolicies`).

### 2.5 ClusterService and RoutersPage

| Variable | In the code |
|---|---|
| `clusters`, `routers` | the tables of migrations 010 and 003 |
| `requests[i]` | a request: its inputs, `next` the statement it runs next, `at` the input it is at, `drop` the routers an update has still to delete; `overlap` is history |
| `routerList`, `clusterList`, `stale` | the query cache of the two lists |
| `drawer`, `tests` | the cluster drawer, and the connection tests under way |
| `detail`, `ask` | the details and the delete dialog |
| `seen` | a cluster as another administrator once loaded it |

Each action of `ClusterService` is one statement of `cluster/repository.go`; `StatementFails` ends a
request at any of them, and what was committed stays.  The actions of `RoutersPage` have the
names of the handlers in `RoutersPage.tsx` and `ClusterDrawer.tsx`.  Of the fields of a router
the name, the address and the credentials are kept (`cred`: which of user name and
password are filled).  The reachability flag and its check, the search, folded rows and the
links of the page are left out, and so are the endpoints of single routers (`POST`, `PUT` and `DELETE` of `/api/routers`,
`router/service.go`), which no page calls and which write the same table: `PUT /api/routers/{id}` stores
blank credentials too.

Observations:

* a `Create` that fails half way leaves a cluster whose name stays taken, and which the page, built
  from the routers, neither shows nor can delete (`RouterlessOnlyAfterFailure`);
* `UpdateRouter` does not notice that its row is gone: a save of a stale form loses a
  backup without an error;
* a failed `Update` does not fetch the lists again although statements were committed;
* `validateUpdateRequest` accepts a password without a user name for a router that exists, and `Update` stores the
  blank user name (`BlankUserOnlyAsSent` says that only such a request does it; the page sends none);
* a user name without a password is dropped; adding a backup to an existing cluster
  lets an empty password through to a refusal of the backend;
* the answer of a connection test is shown by whatever the drawer has by then
  (`late` in `TestedMeansTested`).

### 2.6 ContentService and its pages

| Variable | In the code |
|---|---|
| `conf[r]` | the items of router `r` in their order, each with its RouterOS ID and its content |
| `requests[i]` | `names` the IDs in the request, `refs` the content found for them on the master, `target` the IDs found on each router, `done` the routers where the group is in force and not finished, `before` what the item was there, `undoing` that it failed and is taken back; `torn`, `loose`, `blurred`, `left`, `strewn`, `told` are history |
| `shown`, `stale` | the query cache of a list |
| `early` | history: the requests in force on the master, but not finished, when the list was read |
| `tab`, `cell`, `ruleForm`, `ruleDetail`, `ruleAsk` | the firewall page |
| `collapsed`, `initialized`, `selected`, `entryForm`, `batches` | the address lists page; a batch is a submission or a delete of several requests |
| `routeForm`, `routeDetail` | the routes page |

| Action | In the code |
|---|---|
| `LookupMaster`, `LookupBackup` | `findFirewallRuleByID`, `findMatchingFirewallRule` and their like for routes and entries |
| `Apply`, `Finish` | the loop of `Execute`, one router at a time under the mutexes (`Free`), and the answer |
| `ApplyFails`, `TakeBack` | a call that fails, before or after the router did it, and `rollbackApplied`, which goes on when a reversal fails; the reversal of a delete puts the item back at the end, under a new ID |
| `PostMove`, `MoveEnds` | `MoveFirewallRule`: one POST per router, no mutex, no log, no rollback |
| `EditCells`, `DragRule`, `SubmitForm`, `AnswerRule`, ... | `FirewallTable.tsx`, `FirewallForm.tsx`, `FirewallPage.tsx` |
| `HandleAddEntry`, `HandleParseImport`, `SendNext`, `SubmitEnds`, `DeleteEnds`, ... | `AddressListForm.tsx`, `AddressListsPage.tsx`, `addressListsApi.ts` |
| `SubmitRoute`, `AnswerRoute`, ... | `RouteForm.tsx`, `RoutesPage.tsx` |

A lookup by content takes no mutex and sees what a group in progress has done (`LookupMaster` and `LookupBackup` read `conf` at any
time), and so does a list (`Fetch`).  `findMatchingRoute` and `findMatchingAddressEntry` do not compare `disabled`
(`KeyOf`): a route that differs in that only counts as the twin (`blurred`).

Abstractions.  Comments are left out, one cell is edited at a time, leaving a cluster and coming back is one
step.  An operation whose answer or row is lost stays in force (`left`); that a status of the log may then be wrong, edits past the
service and Undo belong to `OperationLog`.  Errors of the drawers are messages.

Observations:

* an update that looks up the master while another group is in force there, and the backup before it is, does not
  find its item on the backup and is applied to the master alone (`torn`);
* a list that is read between a create on the master and its rollback shows an item that is gone, since an error
  does not invalidate the list (`early`);
* an update or delete of a route that is there twice, once disabled, may change the other one on the backup;
* fields that are `undefined` are not in the JSON of a patch, so no edit can clear a field,
  and a rule can come to have both an address and a list;
* Escape in an address cell still saves it (the input is blurred first);
* the connection state of a cell goes out as an array and a drag as `.id`: the handler
  refuses both with 400 (`Arrive("refused", ...)`), so neither ever works;
* the form of a new address list makes no request for the list itself, and an
  import from a URL always parses the sample text of the source;
* deleting several entries is a `Promise.all`: when one fails, those that are gone stay in the
  list and selected until the next fetch;
* the first of two overlapping deletes never clears its selection, as the library only
  calls the callback of the latest;
* an answer closes whichever form is open, and entries typed while a submission runs are
  lost at its end; the address list drawer and the routes page are not reset when the cluster changes.

`ImportDrawer.tsx`, `AddressEntryForm.tsx` and `useUpdateEntry` are used nowhere.

## 3. Runs

| Run | Instance | Shows |
|---|---|---|
| `oplog_router_failures` | 2 routers; two Executes of 4 and 3 operations that meet on two resources, one resource changed twice by one group; two Undos that start after the Execute of the group; any two router calls fail | `EveryMutationLogged`, `ChangesReversedOnce`, `RollbackRestores`, `UndoRestores`, `ReverseOnlyMatching`, `KeepsItsPromise` (implements `GroupPromise`) |
| `oplog_all_faults` | 2 routers; two Executes that name them in opposite orders, one Undo at any time; any two of router failure, lost answer, disconnect, crash, external edit | `TypeOK`, `NoCircularWait`, `UndoneRowsAreReversed`, `LocksAsOne` (implements `RouterLocks`) |
| `oplog_liveness` | the same requests and an empty one, one failure of a router or the database, a disconnect or a crash; `FairSpec` | `EveryRequestEnds` |
| `oplog_log_write_fails` | one database failure | violation of `FailedLeavesNothing` |
| `oplog_undo_races_execute` | an Undo while the Execute runs | violation of `UndoneMeansReversed` |
| `session_two_browsers` | one user in two browsers, one tab each, two requests and one request at a time, three tokens, one fault; a tab logs out while none of its requests is under way; `FairSpec` | `UsedTokenIsRevoked`, `OneLiveToken`, `NoFalseReuse`, `CookieIsLive`, `NoForgottenToken`, `RefreshEnds` |
| `session_reuse_races_refresh` | two tabs of one browser, no fault | violation of `ReuseEndsSessions` |
| `accounts_all_requests` | two processes at a time, any of: two set-ups, both seeds, two new tenants, two new users, updates of the first two users by System, deletions by both tenants; four rows of users, one fault; `FairSpec` | `SetupOnce`, `CompleteMeansDone`, `ServedAfterSetup`, `NoCircularWait`, `OwnerlessNeedsOverlap`, `EveryRequestEnds` |
| `accounts_last_owner` | two owners, two requests that demote or delete, no fault | violation of `AlwaysOwned` |
| `tunnels_page` | two routers, one name, no tunnel or one of four before; either the page alone with every field and one request, or two overlapping requests of the page and another administrator for a GRE or a route-based tunnel; lookups and lists fall in the middle of groups, and their GETs may miss parts | `TypeOK`, `TunnelIsWhole`, `AgreeUnlessTorn`, `AcknowledgedIsShown`, `SentIsValid`, `SavingEnds` |
| `routers_page` | a cluster with or without a backup, two names, three addresses; either the page alone with its drawer and one request, or deletes of the page beside saves of another administrator, or two overlapping requests of others; any statement fails | `TypeOK`, `RolesUnlessOverlap`, `RouterlessOnlyAfterFailure`, `BlankUserOnlyAsSent`, `TestedMeansTested` |
| `content_pages` | two routers, two items before; one of seven scopes (cells, drawer and deletes of the firewall page, drawer and selection of the address lists page, routes page, three requests of others); a group is applied and taken back router by router, lookups and lists fall in between, any call fails | `TypeOK`, `ItemsAgree`, `OrderAgrees`, `ListIsCurrent`, `SentTextIsValid`, `FormEntriesDistinct` |

Bounds.  Two routers are the most a cluster has, and the least for a circular
wait.  Two Executes and one or two Undos give every pair of requests that can
race; a third request of the same kind adds no new pair.  Groups have up to four
operations so that one operation of every type, two changes of one
resource and a rollback in the middle occur.  One field tells apart changed,
unchanged and removed; `v0` to `v3` give every operation a value of its own.
Eight IDs are more than the adds and reversals of a run create.  Two faults
suffice for a failure during the handling of a failure.
In `session_two_browsers` three tokens are two logins and a refresh, or a login and
two rotations; two requests in a tab are what the queue needs, a second browser is
what a false alarm would log out.  With four tokens the safety properties also
hold (6.4 million states, three minutes).
In `accounts_all_requests` every hazard is a race of two: two set-ups, a set-up and a
seed, two demotions.  A circle of three waiting transactions needs a third process;
`OrderedKeysNeverCircle` excludes it for any number.  Four rows are two owners, a third user
and one that is inserted again; the fault may hit any statement, COMMIT or the server.

The MC modules of the pages have a variable `scope`, chosen at the start and kept: a
scope leaves some inputs free and fixes others, so that one run covers several
small state spaces whose product is out of reach.  `InScope` only keeps a user, another
administrator or the number of requests within the scope, except for what is named below.  Two overlapping requests are what a torn lookup, a late answer or
an overlap of two updates needs; `content_pages` has three of them in the scope `service`,
for a delete between the lookups of two others.  The user may stop at any time, so
these runs do not look for deadlocks.

In `tunnels_page` a lookup sees one of five sets of paths of a group in progress (`MCGlimpses`: the first objects of a create, all but its
last, what a delete removes first, the peer alone).  Routers are read in the order of the cluster, the master first, and of two
list fetches that overlap the one of GRE tunnels answers first (`InOrderOfCluster`).  In the scope `form` there is one request, and
neither it nor a list sees a part of a group.  In the scope `requests` nothing is left in force by a rollback and at most one of the
two requests sees a part of a group; once the page has sent two requests, or the other administrator one, the page stays at the cluster, every
list is read between two groups and in full, and none while a request runs.  That a list is read
in the middle of a group is tried with one request of the page.  No form or dialog opens after the last request
(`FormFixed`), and the form is closed once the other administrator has sent one.  `content_pages` ends a behaviour when a failed group left something in force, as its properties then
say nothing.  The theorems of `TunnelProofs` and `ContentProofs` have none of these bounds.

Fairness.  `FairSpec` asks that a request which started keeps going: every router
call ends within the ten seconds of the HTTP client (`routeros/client.go:33`), a
statement ends, and a free mutex goes to somebody who waits for it (Go's
mutexes hand over to a waiter after a millisecond).  That somebody starts an
Undo is not assumed.  In `Session` statements, fetches and page loads end; nobody
has to send a request, log in or log out.  In `Accounts` fairness is strong, per
process: a statement ends, and Postgres serves those who wait for a key in turn,
so that a key which becomes free again and again is not always somebody else's.
In `TunnelsPage` the service, the fetches and the answers proceed; the user and the other
administrator need not do anything.

### What the code does not promise

The four violation runs are the findings of `PROJECT.json`, with the lines of
the code and of the text they contradict.  These limits are either not stated
anywhere in the repository or share a run with a finding; the runs that
check the property leave the case out:

* Two concurrent Undos of a group of deletions only both answer `undone`, and the
  resource exists twice: the status is checked before the mutexes are taken
  (`service.go:285`), and for a deletion strict matching asks whether the old ID is gone,
  which the first Undo does not change.  A second Undo that gets stuck may moreover set
  `requires_attention` on a group that is undone (`Stuck` of `GroupPromise`).
* Undo of a modify that set a field the resource did not have leaves the field: the
  inverse is a PATCH with the before state (`service.go:509`).
* `EveryMutationLogged` fails after a disconnect or a crash between the router
  call and the INSERT: nothing recovers such a mutation.
* `FailedLeavesNothing` fails when an answer is lost: the operation is
  recorded as failed while its change is in force.
* When a router call and the UPDATE of the group's status both fail, the answer
  calls the group `applied`: `buildFailureResponse` answers with the status the
  database has (`service.go:257-261`).
* A group that changes one resource twice can never be undone: phase 1 compares
  the first after state with the second (`service.go:318-334`).
* Strict matching compares values: when another group wrote the same value
  again, a second Undo of the first group matches (hence `OnlyWriter` in
  `ChangesReversedOnce`).
* A request that is queued while the refreshing request repeats its own fetch
  (`client.ts:93`, `isRefreshing` still is set) waits until another refresh happens
  in the tab: the queue was emptied before.
* A logout while a refresh of the same tab is under way leaves a usable token or
  is taken for reuse (`LogoutAnytime = TRUE`).
* After a lost answer or a failed INSERT the browser's next refresh presents a
  used token, and all sessions of the user end (`NoFalseReuse` asks for
  `faults = 0`).  Two tabs that refresh together do the same without any fault.
* A set-up whose refresh token cannot be stored answers 500 although it is
  committed, and the retry answers 409 (`setup/service.go:182-190`).
* The tenant seed moves an existing user to its tenant (`cmd/seed/main.go:177-187`) and
  may leave the old one without an owner; the superadmin seed does not move an
  existing `admin@localhost`, so that System may lack that owner.  `Visible` models both
  upserts; the `Jobs` of the runs seed no email that another tenant uses.
* A tenant with the slug `system`, or a user with the administrator's email, that was
  seeded before makes every set-up fail with 500.
* Routers of one cluster come to differ when a group is applied between two lookups of
  another request, or when a lookup falls in the middle of a group, also of one that is taken back
  (`torn` and `missed` in `AgreeUnlessTorn`, `torn` in `ItemsAgree`); when a route is looked for beside one that is only disabled
  (`blurred`); and a move that fails
  half way, or a rolled back delete, leaves rules in another order on each of them
  (`strewn` in `OrderAgrees`).
* A delete removes what its lookup saw of a tunnel, which may be a part of it (`DeletesSawAll` in
  `TunnelIsWhole`), and a list may be read in the middle of a group that is then taken back (`doubt` in
  `AcknowledgedIsShown`, `early` in `ListIsCurrent`).
* Two `Update`s of one cluster that overlap leave it without a master or with two
  (`overlap` in `RolesUnlessOverlap`).
* A list is not fetched again after an error, although the change may be in force
  (`unsaid` in `AcknowledgedIsShown` and `ListIsCurrent`).

## 4. Proofs

`OperationLogProofs` proves `TypeCorrect`: `Spec => []TypeOK`.  `TypeOK` alone is
not inductive: that `Ops[e][idx[e]]` is an operation needs the range of `idx`
in each loop.  The invariant is `TypeInv == TypeOK /\ LoopsOK`, where `LoopsOK` says
that `idx` is in `1..Len(Ops[e])` inside the loop of `Execute`, in `0..Len(Ops[e])` in
`rollbackApplied` (with a row at every position it still has to reverse), and at
a row that was read inside the loops of Undo.  There is one lemma per action.

It also proves `Exclusion` (`Spec => []MutualExclusion`),
`SortedLocksNeverCircle` (`Spec => []NoCircularWait`) and `LocksRefine` (`Spec => LocksAsOne`).  The invariant adds
`LocksOK`: past `lockRouterIDs` a request holds all the mutexes of `Needs(p)`; while
it acquires them the mutexes it holds are closed downwards in the order of the
routers; before and after it holds none.  It also needs `FitsOK`: the rows of a
group, and the rows an Undo read, are at positions of the group's operations,
since `Needs` of an Undo goes through them.  The refinement follows from the same
invariant and exclusion: a step that passes `lockRouterIDs` is a `Take` of what no other
request owns, a step that leaves the critical section a `GiveBack`, a crash a
`GiveAllBack`, and every other step leaves `Owned` alone, for which one needs that a
request never changes what it needs while it owns it.

`OperationLogReversalProofs` is about what the log says and what is in force.  It first says once what a step
does to the rows, the statuses and the counts (`ExecuteDoes`, `UndoDoes`, `EnvironmentDoes`), with `MayFail` for the ways
a call can fail, and argues about these effects only.  Its theorems have hypotheses of growing strength.

- `UndoneIsReversed` (`Spec => []UndoneRowsAreReversed`) has none.  `BooksInv`: an operation is applied at most once, in the
  order of its request, and only before its row is written; a row that an Undo read is still there;
  and a request in front of marking a row undone has reversed it.
- `MutationsAreLogged` (`EveryMutationLogged`) assumes `LogIsReachable`: no failing database, no client that disconnects,
  no crash.  Routers may fail, answers be lost and resources be edited past the log.  What is in force
  without a row is then the operation a running request is at (`LoggedOK`).
- `FailedIsReversed` (`FailedLeavesNothing`) and `PromiseKept` (`KeepsItsPromise`) assume `OnlyRoutersFail`, the faults of the run
  `oplog_router_failures`, and no Undo of a group whose request still runs.  `oplog_log_write_fails` shows that
  `FailedLeavesNothing` is false when a row cannot be written.  The invariant `PromiseInv` adds what the status of a group tells at
  every point of its request (`StatusTells`), that inside the loop the operations up to `idx` are in force and
  logged, and inside the rollback exactly those down to `idx` are (`LoopTells`), and that an Undo
  that started is about a group that is over and was applied as a whole, whose operations are
  either among those it still has to reverse or not in force (`UndoTells`).  TLC checked it on that run before it was
  proved.  For the refinement, `CreateGroup` is a `Begin`, everything a request does up to its answer a
  `Work`, the end of the loop `Applied`, the end of a rollback `Failed` or `Stuck`, a reversal of Undo a
  `Reverse` if the operation was still in force, and its end `Undone` or `Stuck`; when a second
  Undo repeats what the first one said, nothing happens.

`OperationLogMatchProofs` proves `ReversalsMatch` (`Spec => ReverseOnlyMatching`), under `OnlyRoutersFail` too, which also
says that nobody edits a router past the log.  Undo checks all its rows in phase 1 and
reverses them in phase 2 without looking again, so two things have to be shown.  Nobody else
writes in between: a request writes routers it holds only (`WritesOwn`), and by exclusion
no other request holds them (`OwnWrites`).  And the reversals of the group itself do not get into each
other's way, although a group may change one resource several times and then remove it.
For that the rows have to tell the truth about each other (`RowsTell`): what was
removed stays gone, since IDs are given out once (`IdsOK`), what was added is not the
resource of an earlier row, and the before state of a change is the after state of the
operation before it on the same resource, unless an after state in between could not be read
and the body of the request stands for it (`Chain`).  `WorkTells` carries this through the loop of
`Execute`, with what has to hold of the draft and of the resources at every call; `MatchTells` says that the
rows an Undo read are still those of the log but for their status, that undone rows are always the last
ones of a group (`UndoneUpwards`), which two Undos of one group need, and which of the rows are checked and
not reversed yet.  The step itself is `ReversalSpares`: if later and earlier operations on a resource all
match, the PATCH of the later one writes the state the resource is in already.  TLC checked
`MatchOK` with the instance of `oplog_router_failures` and with one whose groups change a resource repeatedly.

Its second part proves `RollbacksRestore` (`RollbackRestores`) and `UndosRestore` (`UndoRestores`) whatever fails: routers, lost
answers, the database, clients, the backend itself, and with Undos that start while the `Execute` of
their group runs. The hypothesis is `Restorable`. Nobody edits a router past the log (`NothingElseWrites`), and
groups change and remove only resources that were there before the first of them, and set only fields those have
(`ChangesWhatIsThere`); otherwise the theorem is false, since `reverseOperation` sends the before state
as a PATCH, which does not remove a field. Two things make the invariant `RestoreInv`. What was reversed stays so until the request answers, since
it has the routers for itself and the rows of a request in its critical section are its own (`OwnWrites`, `MarksOfOthers`). And
the reversals of the earlier operations, which come afterwards, do not touch it (`ReversalKeeps`):
they write the resource of their own row, and the property is about the first operation on a resource; what
they create has a new ID, and so had what they added, which therefore is no resource from before
(`Describes`, `RoutersTell`). A deletion that was reversed has its state under an ID that no row to be reversed names (`BackIn`).
A PATCH restores a resource because every state of it that anybody read or wrote has the same fields (`Alike`, `MergeAlike`). TLC checked
`RestoreOK` with the groups of `oplog_router_failures`, every kind of fault but edits, and early Undos.

Its third part is about how often an operation is reversed, whatever fails, since two Undos of one group may pass the check of
its status together. `AdditionsRemovedOnce` needs no hypothesis, edits past the log included: a DELETE needs the resource, what is gone stays gone
(`RoutersGrow`), and the request, the log and every Undo have one and the same ID for what an operation
added (`Told`, `AdditionTells`). `LoneChangesOnce` is about a change of a resource that no other operation is about (`Lone`),
under `Restorable`. Nothing in the log counts reversals, so the invariant `ChangesOK` ties the count to the resource: it
is in the state after the change exactly while the change is in force (`ResourceTells`), the rows and drafts tell these two states
(`RecordsTell`), and wherever a rollback or the second phase of an Undo is about to reverse the change, it is in force (`CodeTells`). For a rollback
that is because Undos of the group that overlap with it wait for its routers (`AloneAtWork`), for an Undo because its first phase saw
the resource, under the mutex that it still has. `ChangesOnce` is both, and gives `ChangesReversedOnce` for the
groups where every change that alone writes its value has its resource for itself (`WritersAreAlone`), such as `MixedOps`. TLC checked `ChangesOK`
with two groups of three operations, two Undos and any one fault, and with one group, three Undos and any two faults.

`SessionProofs` proves `RotationRevokes` (`Spec => []UsedTokenIsRevoked` of `Session`).
The property is not inductive, since an INSERT says nothing about its
predecessor; the invariant adds that the token of a request that is about to
INSERT is revoked, which lasts because no statement takes a revocation back.

Its other four theorems have a hypothesis about the constants, `OneTabEach`: a browser has one tab, and
a tab logs out while none of its requests is under way.  That is what `session_two_browsers`
runs, and it is needed: two tabs that refresh together, or a logout in the middle of a refresh,
break the properties without any fault (see the list at the end of section 3).
`OneTokenPerLogin` (`Spec => []OneLiveToken`) follows from `LiveInv`.  A tab has one request at the session
endpoints (`TabsOK`); two browsers hold tokens of different logins only (`HoldsOK`); so no two
requests exchange tokens of one login, those of pages that are gone included (`ExchangesOK`); a
request in front of its UPDATE has the only token of its login that can be used, and in front
of its INSERT there is none (`LiveOK`).  The rows are `1..n` and every request under way has room
for its own (`RowsOK`), so that `Fresh` always is a token without a row: this counts, which needs
that the requests are finitely many (`RequestsAssumption`: a browser opens finitely many connections).
`QuietInv` adds what holds while nothing has failed: what a request presents can be used until
the request itself exchanges it, a page at the login or on its way there has neither
cookie nor access token, the request of a page that is gone brings no token, a cookie that is
not usable is about to be replaced or cleared, and what can be used is in a cookie or an
answer.  `NobodyIsAccused` (`NoFalseReuse`), `NextRefreshWorks` (`CookieIsLive`) and `EveryTokenIsHeld` (`NoForgottenToken`)
follow.  TLC checked both invariants with more tokens and faults than the run has.

`AccountsProofs` proves `SetupHappensOnce`, `CompletionIsReliable`, `GuardHolds` and
`OrderedKeysNeverCircle`.  `SetupOnce` is not inductive: two set-ups are in front of their COMMIT
only if both hold the portal's key.  The invariant `AccountsInv` says so: what a running
process holds by the statement it is at (`HoldersOK`), that a set-up past its first
statement holds the portal's row while there is none (`PortalOK`), that committed
set-ups, portal and System tenant agree (`SetupOK`) and that whoever passed or heard of
a completed set-up has a committed row behind it (`DoneOK`).  For the circular waits
the keys are ordered portal, slugs, emails: every process waits only for a key above
those it holds, so among any set of processes one that holds the highest key waits
for nobody of the set.

`TunnelProofs` proves `PayloadsAreValid` (`Spec => SentIsValid` of `TunnelsPage`): Submit validates only the
step it is on, so the invariant `FormInv` says that a form past its first step is ready,
a form for a GRE tunnel never leaves its only step, and every step that opens or resets
a form returns to the first one.

It proves `TunnelsAreWhole` (`Spec => []TunnelIsWhole`).  A request looks its tunnel
up on one router after the other and applies its group much later, so the property says
too little about groups that wait.  The invariant `WholeInv` has, as long as no applied delete was shown a part only and
nothing was left by a rollback (`Unmisled`), for every router that the parts of a tunnel are complete and have the
generation of an applied request (`ObjectsOK`), and for every group that waits and did not miss parts (`RequestOK`, `Waits`)
that it is one of three: it touches routes and GRE interfaces or modifies objects only;
it creates a complete tunnel with IDs of its own; or it removes a tunnel, and then names
a peer that either is gone for good, so that RouterOS refuses the group, or still has
exactly the parts the group names.  That this lasts while other groups are applied
is the lemma about `Change`: a group leaves the parts of a router alone, adds a complete tunnel to
a name without one, or takes all parts of a name.  A lookup in the middle of a group may
collect anything, but a delete that does is marked (`missed`), and an update modifies only what it found and still is there.
`RoutersAgree` (`Spec => []AgreeUnlessTorn`) adds that as long as no applied request is torn or missed something the
routers are equal, and that a request of that kind has the same group for all
routers it has looked up, and the one the next lookup would give (`InStepInv`).  Groups that fail change nothing of that
unless they leave something, which the property excludes.
`ShownIsAcknowledged` (`Spec => []AcknowledgedIsShown`) needs `ShownInv`: what a fetch without doubt has read of a router is
what the router has (`ReadsTrue`), and a list that is not being fetched shows the routers (`ListTrue`), or a group is in
force of which the page was not told (`Untold`).
`TunnelsKeepTypes` (`Spec => []TypeOK`) needs `TypesInv`, since a value goes in a circle: from a form into a request,
from there onto a router, from the routers into a list, and from a list into the next form. On the routers
the subnets of a tunnel are those of one body, as its policies come and go together; what a group modifies is
neither a route nor a policy; and a form that is open has the fields of a payload and, once it was validated, a name.
How often a tunnel lists one network has no bound: routes outlive a tunnel whose peer is gone, and a new one of the
same name adds to them. `MaxCopies` therefore bounds what the user enters among the routes, and nothing that is read.

`ClusterProofs` proves `CredentialsStay` (`Spec => []BlankUserOnlyAsSent` of `RoutersPage`): no password is
ever lost, and a stored user name is blank only where a request from elsewhere sent a password without one.
An update writes the credentials of a router whenever it has a password; the forms of the page ask for both at the
step that shows them, but the request is built steps later, after going back, clearing fields and
switching the backup on and off. The invariant `BlankInv` therefore relates four places: the form past a step has
no password alone (`FormComplete`), no request of the page carries one (`AllComplete`), and every row is
either complete or named by such a request of another administrator (`RowTold`), through all statements of
the requests (`TypesInv` supplies that the input a request is at exists).

`TestsAreForTheForm` (`Spec => []TestedMeansTested`) follows from `TestedInv`: every result that is shown and not
late, and every test that runs and is not late, is for the fields of its position.
`RouterlessClustersFailed` (`Spec => []RouterlessOnlyAfterFailure`) needs `RolesInv`: the router that the first input
of a create inserted is the master of its cluster for as long as the cluster exists, and
nothing that can reach an update takes it out.  That nothing can is the long part: the
inputs of an update come from a form, the form from a list the page loaded, possibly long
ago, and the other administrator from what was read when its request was written; all of
these snapshots are of clusters that have their master in the snapshot, or are gone.
`RolesHold` (`Spec => []RolesUnlessOverlap`) adds `OverlapInv`: two running requests for a cluster are
both marked, two backups are of a cluster with a marked request, and a running request that
is not marked knows every backup of its cluster among what it will write or drop.
TLC checked these invariants with up to four requests before they were proved.
`TablesKeepTheirKeys` (`Spec => []TypeOK`) needs `TypesInv`. A statement may run long after the form that sent it was
closed, so it follows an address and a name all the way: forms hold known ones or none (`FormValid`), also those opened
for a cluster of an outdated list (`PageValid`); past its first step a form has a name; the validation of the request
refuses an empty address; and what has still to be written is therefore a legal row (`WritesValid`). That the rows stay
distinct under every statement is the constraint of the tables that the statement checks, and for IDs `RolesInv`.

`ContentProofs` is about `PagesSpec`: any of the three pages acts at any time, and others send any
requests. `MCSpec`, with one page at a time and few inputs, is a case of it (`ScopesArePages`).
What a page does to the service is the same for all of them (`PageStep`): it fetches, or sends
requests, or takes answers and marks the list.
`ListStaysCurrent` (`Spec => []ListIsCurrent`, with `PagesSpec` for `Spec`) needs two invariants.  `GroupsOK` is about the service: IDs of a
router are its own and not given twice (`IdsOK`), how far each request is (`ProgressOK`), and one group is in force on the master at a time, by the
mutexes (`OneGroup`).  `ListInv` says that a list that is not stale is what the master has or some request's outcome is
not told; and that a group in force there which the list was not read in the middle of (`Behind`) gives, when it is taken
back, exactly the items that are shown (`Recovers`): a created item is deleted by its ID, and a patch is undone
by the state before it, unless it set a field the item did not have, which then is `left`.  Told and untold only
change with an answer or a step of the group, and the page that learns of a success marks the list in the same step.
`EntriesStayDistinct` (`FormEntriesDistinct`): a typed entry is checked against a memo and imported ones against the
list and the typed ones, so the invariant `EntriesOK` says that in an open drawer neither part has a prefix twice, that
they have none in common, and that the memo has all of them: it may be older than the list, but never than the
entries. `ParseCSV` keeps the first occurrence of a prefix (`NthOf`).
`SentTextStaysValid` (`SentTextIsValid`) is about requests, which keep their text once they are sent (`TextStays`);
so it is enough that every step sends valid ones only (`NewValid`), whichever of blur, Enter, Escape, a choice or
the drawer it is. Ports typed into the drawer are sent as they are: the property speaks of those of cells only.
`PagesKeepTypes` (`TypeOK` of the pages) adds what the overlays of the firewall page exclude (`FirewallInv`), that the list,
hence the selection, has IDs of routers (`ShownOK` from `IdsOK`, `SelectedOK`), and that submissions and deletes
wait for requests there are (`BatchesOK`).

The proofs assume of the constants what the ASSUMEs of the modules say, and
nothing else, except for the hypotheses that theorems state themselves (`OneTabEach`, `LogIsReachable`,
`OnlyRoutersFail`, `Restorable`, `WritersAreAlone`); TLC evaluates the ASSUMEs on every run.  Six of them say more than a type.
`RequestsAssumption` of `RefreshTokens`: the requests are finitely many.
`SettingsAssumption` of `TunnelService`: there are settings, since the form starts with its defaults.
`BodiesAssumption` of `TunnelsPage`: the other administrator and whoever made the existing tunnels
used the same form, so their bodies are payloads of it, an IPsec tunnel in policy mode has a subnet and every tunnel
an endpoint on each router.  `NewRouterAssumption` of `ClusterService`: the empty ID of an input that
is a new router is no ID of a stored one, which the database generates.
`NothingAssumption` of `ContentService`: what stands for "no item on this router" is not itself a list of IDs.
`BadAssumption` of `FirewallPage`: the text that stands for an invalid one is none of the valid ones.
The theorems about the routers page are about `Spec`, which starts from empty tables;
the run also starts from a cluster that exists.  Every leaf is checked by Z3,
Zenon or, for the temporal steps, LS4.

Only model-checked: everything in section 3 that no listed theorem of `PROJECT.json`
states, that is what is temporal, `ItemsAgree` and `OrderAgrees`, and `ChangesReversedOnce` for the groups of
`oplog_router_failures`, which change one resource several times. It holds of the groups of that
run, not of all: a modify that changes nothing matches again after its reversal, so a second Undo of the group reverses
it again, and so does one after another group's Undo brought the value back. Out of the prover's reach: liveness under fairness and ENABLED, induction over data (what a
recursive definition computes), RECURSIVE operators.

## 5. Plan

Done: `OperationLog` with its two refinements, `RefreshTokens` and `Session`, `Accounts`,
`ClusterService` with `RoutersPage`, `TunnelService` with `TunnelsPage`, `ContentService` with its three pages,
and the theorems of section 4.  Left, in this order:

1. The other tunnels: WireGuard peers and interfaces of `tunnel/service.go` are handlers
   of the GRE shape and would become further kinds of `TunnelService`.
2. The cascades of migrations 009 and 010: a router, a user or a tenant deleted
   while an Execute or an Undo of its group runs.  That is a composition of
   `OperationLog` with the tables of `ClusterService` and `Accounts`.
3. `SortOperations` and `Engine.Execute` as functions, checked on bounded inputs.

All twelve runs are used.  Point 1 fits into `tunnels_page` as a further scope; point 2
would take the place of `oplog_liveness`, whose property can join `oplog_all_faults`.

Every module declares its parameters as CONSTANTS with named assumptions, has
one action per operation, and states its invariants as conjunctions of named
parts, so that the proofs can follow the runs.

## 6. Not modelled

* RouterOS itself, Postgres itself and the query library of the frontend: they appear as
  the code uses them.
* The rate limiter is a sequential function under one mutex over real time; its boundary
  is a matter of floating point.
* The batch configuration engine is one loop without state; no page calls it.
* The reachability flag of a router and the status check that writes it: one flag,
  written by whoever asked last and only shown.
* The audit log, the proxy, crypto, configuration: no state that anything here
  depends on, or plain input and output.
* The pages for interfaces, WireGuard, users, set-up, audit and tenant settings: drawers and
  tables of the pattern of those modelled.
* Layout, wording, search, sorting, folding and the comments of resources.
