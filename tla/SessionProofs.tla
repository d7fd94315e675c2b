---------------------------- MODULE SessionProofs ----------------------------
(***************************************************************************)
(* Refresh tokens, for any users, browsers, tabs and requests.             *)
(*                                                                         *)
(* Rotation revokes: the invariant adds to UsedTokenIsRevoked what a       *)
(* request knows between its UPDATE and its INSERT: the token it came with *)
(* is revoked by then and, as nothing ever takes a revocation back, still  *)
(* is at the INSERT.                                                       *)
(*                                                                         *)
(* For browsers with one tab each: LiveInv says that no two requests       *)
(* exchange tokens of one login at the same time, QuietInv what holds on   *)
(* top of it while nothing fails.                                          *)
(***************************************************************************)
EXTENDS Session, TLAPS, FiniteSetTheorems

ColumnsOK ==
    /\ replaces = [t \in Tokens |-> replaces[t]]
    /\ at = [q \in Requests |-> at[q]]
    /\ cookie = [q \in Requests |-> cookie[q]]
SuccessorsOK ==
    \A t \in Tokens : replaces[t] # None => replaces[t] \in revoked
InsertsOK ==
    \A q \in Requests : at[q] = "insert" => cookie[q] \in revoked

RotationInv == ColumnsOK /\ SuccessorsOK /\ InsertsOK

\* The invariant holds at the start: there is no token and no request.
LEMMA InitRotationInv == Init => RotationInv
  BY DEF Init, TokensInit, RotationInv, ColumnsOK, SuccessorsOK, InsertsOK, None

\* A step that adds no successor, takes no revocation back and brings no
\* request to its INSERT preserves the invariant.
LEMMA NoInsertKeeps ==
    ASSUME RotationInv,
           ColumnsOK',
           replaces' = replaces,
           revoked \subseteq revoked',
           \A q \in Requests :
               at'[q] = "insert" => at[q] = "insert" /\ cookie'[q] = cookie[q]
    PROVE  RotationInv'
  BY DEF RotationInv, SuccessorsOK, InsertsOK

\* Reading the row of the presented token brings no request to its INSERT.
LEMMA ReadTokenKeeps ==
    ASSUME RotationInv, NEW q \in Requests, ReadToken(q)
    PROVE  RotationInv'
  <1>1. replaces' = replaces /\ revoked' = revoked /\ cookie' = cookie
    BY DEF ReadToken, tableVars, Step, Reply
  <1>2. PICK s \in {"revokeAll", "markExpired", "revoke", "answered"} :
            at' = [at EXCEPT ![q] = s]
    BY DEF ReadToken, Step, Reply
  <1>3. ColumnsOK'
    BY <1>1, <1>2 DEF RotationInv, ColumnsOK
  <1> QED
    BY <1>1, <1>2, <1>3, NoInsertKeeps DEF RotationInv, ColumnsOK

\* The steps that answer a request, whatever they revoke.
LEMMA AnsweringKeeps ==
    ASSUME RotationInv, NEW q \in Requests,
           RevokeAll(q) \/ MarkExpired(q) \/ LookUpUser(q) \/ Logout(q)
    PROVE  RotationInv'
  <1>1. at' = [at EXCEPT ![q] = "answered"] /\ cookie' = cookie
    BY DEF RevokeAll, MarkExpired, LookUpUser, Logout, Reply
  <1>2. replaces' = replaces /\ revoked \subseteq revoked'
    BY DEF RevokeAll, MarkExpired, LookUpUser, Logout, Revoke, tableVars
  <1>3. ColumnsOK'
    BY <1>1, <1>2 DEF RotationInv, ColumnsOK
  <1> QED
    BY <1>1, <1>2, <1>3, NoInsertKeeps DEF RotationInv, ColumnsOK

\* The UPDATE of the presented token comes before its INSERT.
LEMMA RevokeCurrentKeeps ==
    ASSUME RotationInv, NEW q \in Requests, RevokeCurrent(q)
    PROVE  RotationInv'
  <1>1. replaces' = replaces /\ revoked \subseteq revoked' /\ cookie' = cookie
    BY DEF RevokeCurrent, Revoke, tableVars, Step, Reply
  <1>2. \/ at' = [at EXCEPT ![q] = "insert"] /\ cookie[q] \in revoked'
        \/ at' = [at EXCEPT ![q] = "answered"]
    BY DEF RevokeCurrent, Revoke, Step, Reply
  <1>3. ColumnsOK'
    BY <1>1, <1>2 DEF RotationInv, ColumnsOK
  <1>4. SuccessorsOK'
    BY <1>1 DEF RotationInv, SuccessorsOK
  <1>5. InsertsOK'
    BY <1>1, <1>2 DEF RotationInv, ColumnsOK, InsertsOK
  <1> QED
    BY <1>3, <1>4, <1>5 DEF RotationInv

\* INSERT of a row whose predecessor is None or revoked.
LEMMA InsertKeeps ==
    ASSUME RotationInv, NEW q \in Requests, NEW u, NEW t, NEW s,
           Insert(q, u, t), t = None \/ t \in revoked,
           s # "insert", at' = [at EXCEPT ![q] = s]
    PROVE  RotationInv'
  <1>1. /\ replaces' = [replaces EXCEPT ![Fresh] = t]
        /\ revoked' = revoked /\ cookie' = cookie
    BY DEF Insert
  <1>2. ColumnsOK'
    BY <1>1 DEF RotationInv, ColumnsOK
  <1>3. SuccessorsOK'
    BY <1>1 DEF RotationInv, ColumnsOK, SuccessorsOK
  <1>4. InsertsOK'
    BY <1>1 DEF RotationInv, ColumnsOK, InsertsOK
  <1> QED
    BY <1>2, <1>3, <1>4 DEF RotationInv

\* A failed INSERT answers the request and changes no row.
LEMMA FailedInsertKeeps ==
    ASSUME RotationInv, NEW q \in Requests, Reply(q, "error"), UNCHANGED tableVars
    PROVE  RotationInv'
  <1>1. /\ at' = [at EXCEPT ![q] = "answered"] /\ cookie' = cookie
        /\ replaces' = replaces /\ revoked' = revoked
    BY DEF Reply, tableVars
  <1>2. ColumnsOK'
    BY <1>1 DEF RotationInv, ColumnsOK
  <1> QED
    BY <1>1, <1>2, NoInsertKeeps DEF RotationInv, ColumnsOK

\* The two steps that insert rows.
LEMMA IssuingKeeps ==
    ASSUME RotationInv, NEW q \in Requests, NEW u, InsertSuccessor(q) \/ Login(q, u)
    PROVE  RotationInv'
  <1>1. CASE InsertSuccessor(q) /\ Insert(q, owner[cookie[q]], cookie[q])
             /\ at' = [at EXCEPT ![q] = "user"]
    <2>1. cookie[q] \in revoked
      BY <1>1 DEF InsertSuccessor, RotationInv, InsertsOK
    <2> QED
      BY <1>1, <2>1, InsertKeeps
  <1>2. CASE Insert(q, u, None) /\ at' = [at EXCEPT ![q] = "answered"]
    BY <1>2, InsertKeeps
  <1>3. CASE Reply(q, "error") /\ UNCHANGED tableVars
    BY <1>3, FailedInsertKeeps
  <1> QED
    BY <1>1, <1>2, <1>3 DEF InsertSuccessor, Login

\* Requests arrive and answers are taken without touching the table.
LEMMA ComingAndGoingKeeps ==
    ASSUME RotationInv, NEW q \in Requests, NEW c,
           RefreshStart(q, c) \/ LoginStart(q) \/ LogoutStart(q, c) \/ Answered(q)
    PROVE  RotationInv'
  <1>1. replaces' = replaces /\ revoked' = revoked
    BY DEF RefreshStart, LoginStart, LogoutStart, Answered, tableVars
  <1>2. PICK s \in {"read", "login", "logout", "answered", "idle"} :
            at' = [at EXCEPT ![q] = s]
    BY DEF RefreshStart, LoginStart, LogoutStart, Answered
  <1>3. \/ cookie' = cookie
        \/ \E d : cookie' = [cookie EXCEPT ![q] = d]
    BY DEF RefreshStart, LoginStart, LogoutStart, Answered
  <1>4. ColumnsOK'
    BY <1>1, <1>2, <1>3 DEF RotationInv, ColumnsOK
  <1>5. \A p \in Requests :
            at'[p] = "insert" => at[p] = "insert" /\ cookie'[p] = cookie[p]
    BY <1>2, <1>3 DEF RotationInv, ColumnsOK
  <1> QED
    BY <1>1, <1>4, <1>5, NoInsertKeeps

\* A step of the client alone.
LEMMA ClientStepKeeps ==
    ASSUME RotationInv, replaces' = replaces, revoked' = revoked,
           at' = at, cookie' = cookie
    PROVE  RotationInv'
  BY DEF RotationInv, ColumnsOK, SuccessorsOK, InsertsOK

\* What goes on by itself once a request is sent.
LEMMA ProgressKeeps ==
    ASSUME RotationInv, NEW q \in Requests, Progress(q)
    PROVE  RotationInv'
  <1>1. CASE Handles(q)
    BY <1>1, ReadTokenKeeps, AnsweringKeeps, RevokeCurrentKeeps, IssuingKeeps
    DEF Handles, Handle
  <1>2. CASE Ends(q) \/ RetryEnds(q) \/ RetryThrows(q)
    BY <1>2, ClientStepKeeps
    DEF Ends, RetryEnds, RetryThrows, Catch, tokenVars, tableVars, handlerVars
  <1>3. CASE Unauthorized(q)
    BY <1>3, ClientStepKeeps, ComingAndGoingKeeps
    DEF Unauthorized, tokenVars, tableVars, handlerVars
  <1>4. CASE \/ RefreshSucceeds(q) \/ RefreshFails(q) \/ Dropped(q)
             \/ LogInArrives(q) \/ LogOutArrives(q)
    BY <1>4, ComingAndGoingKeeps
    DEF RefreshSucceeds, Deliver, RefreshFails, Dropped, LogInArrives, LogOutArrives
  <1> QED
    BY <1>1, <1>2, <1>3, <1>4 DEF Progress

\* Every step preserves the invariant.
LEMMA NextRotationInv == RotationInv /\ [Next]_vars => RotationInv'
  <1> SUFFICES ASSUME RotationInv, [Next]_vars PROVE RotationInv'
    OBVIOUS
  <1>1. ASSUME NEW q \in Requests, Progress(q) PROVE RotationInv'
    BY <1>1, ProgressKeeps
  <1>2. ASSUME NEW q \in Requests, Send(q) PROVE RotationInv'
    BY <1>2, ClientStepKeeps DEF Send, tokenVars, tableVars, handlerVars
  <1>3. ASSUME NEW q \in Requests, LogIn(q) \/ LogOut(q) PROVE RotationInv'
    BY <1>3, ComingAndGoingKeeps DEF LogIn, LogOut
  <1>4. ASSUME NEW w \in Tabs, Unload(w) \/ Open(w) PROVE RotationInv'
    BY <1>4, ClientStepKeeps DEF Unload, Open, tokenVars, tableVars, handlerVars
  <1>5. ASSUME NEW t \in Tokens, AccessExpires(t) \/ RefreshTokenExpires(t)
        PROVE  RotationInv'
    BY <1>5, ClientStepKeeps
    DEF AccessExpires, RefreshTokenExpires, Expire, tokenVars, tableVars, handlerVars
  <1>6. CASE UNCHANGED vars
    BY <1>6, ClientStepKeeps DEF vars, tokenVars, tableVars, handlerVars
  <1> QED
    BY <1>1, <1>2, <1>3, <1>4, <1>5, <1>6 DEF Next, OutOfTokens

\* A refresh token that has a successor is revoked, whichever statement of
\* which request failed or was overtaken in between.
THEOREM RotationRevokes == Spec => []UsedTokenIsRevoked
  <1>1. RotationInv => UsedTokenIsRevoked
    BY DEF RotationInv, SuccessorsOK, UsedTokenIsRevoked, Rows
  <1> QED
    BY InitRotationInv, NextRotationInv, <1>1, PTL DEF Spec
-----------------------------------------------------------------------------
(* One token of a login can be used at a time, in browsers with one tab    *)
(* each whose tabs are quiet while they log out.  The invariant says which *)
(* request of a tab is at the session endpoints, that different browsers   *)
(* hold tokens of different logins, and that no two requests are about to  *)
(* exchange tokens of the same login.                                      *)

OneTabEach ==
    /\ \A v, w \in Tabs : BrowserOf[v] = BrowserOf[w] => v = w
    /\ ~LogoutAnytime

RefreshStatements == {"read", "revokeAll", "markExpired", "revoke", "insert", "user"}
Exchanging == {"read", "revoke", "insert"}
Pending == {q \in Requests : at[q] \in Exchanging \cup {"login"}}

TypesOK ==
    /\ owner \in [Tokens -> Users \cup {NoUser}]
    /\ session \in [Tokens -> Nat]
    /\ at \in [Requests -> Statements \cup {"idle", "answered"}]
    /\ cookie \in [Requests -> Nat] /\ made \in [Requests -> Nat]
    /\ answer \in [Requests -> Answers]
    /\ jar \in [Browsers -> Nat] /\ access = [b \in Browsers |-> access[b]]
    /\ call \in [Requests -> Calls]
    /\ refreshing \in [Tabs -> BOOLEAN] /\ redirecting \in [Tabs -> BOOLEAN]
    /\ page \in [Tabs -> {"login", "app"}]
    /\ faults \in Nat

\* The rows are the first tokens, and each request finds room for its row.
RowsOK ==
    /\ Rows = 1..Cardinality(Rows)
    /\ Cardinality(Rows) + Cardinality(Pending) <= MaxTokens
    /\ revoked \subseteq Rows
    /\ \A t \in Rows : session[t] \in Rows

\* What a request carries.
CarriesOK(q) ==
    /\ cookie[q] # None => cookie[q] \in Rows
    /\ made[q] # None => made[q] \in Rows /\ at[q] \in {"user", "answered"}
    /\ at[q] \in RefreshStatements \cup {"logout"} => cookie[q] # None
    /\ at[q] = "login" => cookie[q] = None
    /\ at[q] = "user" => made[q] # None
    /\ at[q] = "idle" => cookie[q] = None
    /\ answer[q] = "tokens" => at[q] = "answered" /\ made[q] # None
    /\ made[q] # None /\ cookie[q] # None => session[made[q]] = session[cookie[q]]

\* A request of tab w at the session endpoints, and what its tab shows.
CallOK(q, w) ==
    /\ call[q] \in {"idle", "sent", "queued", "retry", "ownRetry"} => at[q] = "idle"
    /\ call[q] \in {"sent", "queued", "refreshing", "retry", "ownRetry"} => page[w] = "app"
    /\ call[q] \in {"refreshing", "ownRetry"} => refreshing[w]
    /\ call[q] = "refreshing" =>
          /\ at[q] \in RefreshStatements \cup {"answered"}
          /\ cookie[q] = jar[BrowserOf[w]]
          /\ made[q] # None => cookie[q] # None
    /\ call[q] = "login" => at[q] \in {"login", "answered"} /\ page[w] = "login" /\ cookie[q] = None
    /\ call[q] = "logout" =>
          /\ at[q] \in {"logout", "answered"} /\ page[w] = "app" /\ ~redirecting[w]
          /\ cookie[q] = jar[BrowserOf[w]] /\ made[q] = None
          /\ \A p \in CallsOf(w) : p # q => call[p] = "idle"
    /\ call[q] = "gone" => at[q] \in RefreshStatements \cup {"answered"}

TabsOK ==
    /\ \A q \in Requests : CallOK(q, TabOf[q])
    /\ \A p, q \in Requests : TabOf[p] = TabOf[q] =>
          \/ p = q
          \/ ~(call[p] \in {"refreshing", "ownRetry"} /\ call[q] \in {"refreshing", "ownRetry"})
             /\ ~(call[p] = "login" /\ call[q] = "login")
    /\ \A w \in Tabs : redirecting[w] => page[w] = "app"

\* The tokens that a browser or one of its requests has.
Holding(b, t, jars, cookies, mades) ==
    /\ t # None
    /\ \/ jars[b] = t
       \/ \E q \in Requests : Browser(q) = b /\ (cookies[q] = t \/ mades[q] = t)
Holds(b, t) == Holding(b, t, jar, cookie, made)

HoldsOK ==
    /\ \A b \in Browsers : jar[b] # None => jar[b] \in Rows
    /\ \A b, c \in Browsers : \A t, u \in Tokens :
          Holds(b, t) /\ Holds(c, u) /\ session[t] = session[u] => b = c

ExchangesOK ==
    /\ \A p, q \in Requests :
          at[p] \in Exchanging /\ at[q] \in Exchanging /\ p # q =>
              session[cookie[p]] # session[cookie[q]]
    /\ \A p \in Requests :
          call[p] = "gone" /\ at[p] \in Exchanging
              /\ page[TabOf[p]] = "app" /\ jar[Browser(p)] # None =>
          session[cookie[p]] # session[jar[Browser(p)]]

\* A token of a login under way is the only one of its session.
NewLoginsOK ==
    \A q \in Requests : call[q] = "login" /\ made[q] # None =>
        /\ \A t \in Rows : session[t] = session[made[q]] => t = made[q]
        /\ \A p \in Requests : cookie[p] # made[q]

LiveOK ==
    /\ OneLiveToken
    /\ \A q \in Requests : at[q] \in {"revoke", "insert"} =>
          \A t \in Live : session[t] = session[cookie[q]] => at[q] = "revoke" /\ t = cookie[q]

LiveInv ==
    /\ TypesOK
    /\ RowsOK
    /\ \A q \in Requests : CarriesOK(q)
    /\ TabsOK
    /\ HoldsOK
    /\ ExchangesOK
    /\ NewLoginsOK
    /\ LiveOK

-----------------------------------------------------------------------------
(* Types.                                                                  *)

\* The types hold at the start.
LEMMA InitTypes == Init => TypesOK
  BY DEF Init, TokensInit, TypesOK, Statements, Answers, Calls, None

\* A row is a token.
LEMMA RowsAreTokens ==
    /\ Rows \subseteq Tokens /\ IsFiniteSet(Tokens) /\ IsFiniteSet(Rows)
    /\ Cardinality(Rows) \in Nat
  <1>1. Rows \subseteq Tokens
    BY DEF Rows
  <1>2. IsFiniteSet(Tokens)
    BY FS_Interval, BoundAssumption DEF Tokens
  <1>3. IsFiniteSet(Rows)
    BY <1>1, <1>2, FS_Subset
  <1> QED
    BY <1>1, <1>2, <1>3, FS_CardinalityType

\* Fresh is a number.
LEMMA FreshIsNumber == Fresh \in Nat /\ Fresh # None
  BY RowsAreTokens DEF Fresh, None

\* The handlers keep the types.
LEMMA HandleTypes ==
    ASSUME TypesOK, NEW q \in Requests, NEW u \in Users, Handle(q, u),
           cookie[q] \in Tokens \/ at[q] # "insert"
    PROVE  /\ owner' \in [Tokens -> Users \cup {NoUser}]
           /\ session' \in [Tokens -> Nat]
           /\ at' \in [Requests -> Statements \cup {"idle", "answered"}]
           /\ cookie' = cookie /\ made' \in [Requests -> Nat]
           /\ answer' \in [Requests -> Answers]
           /\ faults' \in Nat
  <1>1. faults' \in Nat
    BY DEF TypesOK, Handle, ReadToken, RevokeAll, MarkExpired, RevokeCurrent, InsertSuccessor, LookUpUser,
           Login, Logout, Ok, Fails
  <1>2. CASE ReadToken(q) \/ RevokeAll(q) \/ MarkExpired(q) \/ RevokeCurrent(q) \/ LookUpUser(q) \/ Logout(q)
    <2>1. owner' = owner /\ session' = session /\ cookie' = cookie /\ made' = made
      BY <1>2 DEF ReadToken, RevokeAll, MarkExpired, RevokeCurrent, LookUpUser, Logout, Revoke, Step, Reply,
                  tableVars, historyVars
    <2>2. PICK s \in Statements \cup {"answered"} : at' = [at EXCEPT ![q] = s]
      BY <1>2 DEF ReadToken, RevokeAll, MarkExpired, RevokeCurrent, LookUpUser, Logout, Step, Reply, Statements
    <2>3. answer' = answer \/ \E a \in Answers : answer' = [answer EXCEPT ![q] = a]
      BY <1>2 DEF ReadToken, RevokeAll, MarkExpired, RevokeCurrent, LookUpUser, Logout, Step, Reply, Answers
    <2> QED  BY <1>1, <2>1, <2>2, <2>3 DEF TypesOK
  <1>3. ASSUME NEW v \in Users \cup {NoUser}, NEW t, t = None \/ t \in Tokens, Insert(q, v, t)
        PROVE  /\ owner' \in [Tokens -> Users \cup {NoUser}]
               /\ session' \in [Tokens -> Nat]
               /\ cookie' = cookie /\ made' \in [Requests -> Nat]
    BY <1>3, FreshIsNumber DEF Insert, TypesOK, None
  <1>4. CASE InsertSuccessor(q)
    <2>1. CASE Insert(q, owner[cookie[q]], cookie[q]) /\ at' = [at EXCEPT ![q] = "user"] /\ answer' = answer
      <3>1. cookie[q] \in Tokens /\ owner[cookie[q]] \in Users \cup {NoUser}
        BY <1>4 DEF InsertSuccessor, TypesOK
      <3> QED  BY <1>1, <1>3, <2>1, <3>1 DEF TypesOK, Statements
    <2>2. CASE Reply(q, "error") /\ UNCHANGED <<tableVars, historyVars>>
      BY <1>1, <2>2 DEF TypesOK, Reply, tableVars, historyVars, Answers
    <2> QED  BY <1>4, <2>1, <2>2 DEF InsertSuccessor
  <1>5. CASE Login(q, u)
    <2>1. CASE Insert(q, u, None) /\ at' = [at EXCEPT ![q] = "answered"]
               /\ answer' = [answer EXCEPT ![q] = "tokens"]
      BY <1>1, <1>3, <2>1 DEF TypesOK, Answers
    <2>2. CASE Reply(q, "error") /\ UNCHANGED <<tableVars, historyVars>>
      BY <1>1, <2>2 DEF TypesOK, Reply, tableVars, historyVars, Answers
    <2> QED  BY <1>5, <2>1, <2>2 DEF Login
  <1> QED  BY <1>2, <1>4, <1>5 DEF Handle

\* The start and the end of a request at the session endpoints.
LEMMA EndpointTypes ==
    ASSUME TypesOK, NEW q \in Requests, NEW c \in Nat,
           RefreshStart(q, c) \/ LoginStart(q) \/ LogoutStart(q, c) \/ Answered(q)
    PROVE  /\ owner' = owner /\ session' = session
           /\ at' \in [Requests -> Statements \cup {"idle", "answered"}]
           /\ cookie' \in [Requests -> Nat] /\ made' \in [Requests -> Nat]
           /\ answer' \in [Requests -> Answers]
  <1>1. owner' = owner /\ session' = session
    BY DEF RefreshStart, LoginStart, LogoutStart, Answered, tableVars, historyVars
  <1>2. \E s \in Statements \cup {"idle", "answered"} : at' = [at EXCEPT ![q] = s]
    BY DEF RefreshStart, LoginStart, LogoutStart, Answered, Statements
  <1>3. cookie' = cookie \/ \E d \in Nat : cookie' = [cookie EXCEPT ![q] = d]
    BY DEF RefreshStart, LoginStart, LogoutStart, Answered, None
  <1>4. made' = made \/ made' = [made EXCEPT ![q] = None]
    BY DEF RefreshStart, LoginStart, LogoutStart, Answered
  <1>5. answer' = answer \/ \E a \in Answers : answer' = [answer EXCEPT ![q] = a]
    BY DEF RefreshStart, LoginStart, LogoutStart, Answered, Answers
  <1> QED  BY <1>1, <1>2, <1>3, <1>4, <1>5 DEF TypesOK, None

\* What a settled request leaves.
LEMMA SettleTypes ==
    ASSUME TypesOK, NEW qs, Settle(qs)
    PROVE  call' \in [Requests -> Calls]
  BY DEF Settle, TypesOK, Calls

\* The steps of the client keep the types.
LEMMA ProgressTypes ==
    ASSUME TypesOK, NEW q \in Requests, Progress(q), cookie[q] \in Tokens \/ at[q] # "insert"
    PROVE  TypesOK'
<1>0. Browser(q) \in Browsers /\ TabOf[q] \in Tabs /\ UserOf[Browser(q)] \in Users
  BY PlacesAssumption DEF Browser
<1>0a. Browser(q) = BrowserOf[TabOf[q]]
  BY DEF Browser
<1>0b. jar[Browser(q)] \in Nat /\ faults \in Nat
  BY <1>0 DEF TypesOK
<1>1. CASE Handles(q)
  <2>1. Handle(q, UserOf[Browser(q)]) /\ UNCHANGED <<storeVars, stale, clientVars, tabVars>>
    BY <1>1 DEF Handles
  <2> QED  BY <1>0, <2>1, HandleTypes DEF TypesOK, storeVars, clientVars, tabVars
<1>2. CASE Ends(q)
  <2>1. UNCHANGED <<tableVars, handlerVars, historyVars, storeVars, stale, tabVars>> /\ faults' \in Nat
    BY <1>2, <1>0b DEF Ends, Ok, Fails
  <2> QED
    BY <1>2, <2>1, SettleTypes DEF Ends, TypesOK, tableVars, handlerVars, historyVars, storeVars, tabVars
<1>3. CASE Unauthorized(q)
  <2>1. UNCHANGED <<jar, access, redirecting, page>>
    BY <1>3 DEF Unauthorized, storeVars
  <2>2. call' \in [Requests -> Calls] /\ refreshing' \in [Tabs -> BOOLEAN]
    BY <1>3, <1>0 DEF Unauthorized, SetCall, TypesOK, Calls
  <2>3. UNCHANGED tokenVars \/ RefreshStart(q, jar[Browser(q)])
    BY <1>3 DEF Unauthorized, Browser
  <2>4. faults' = faults
    BY <2>3 DEF RefreshStart, tokenVars
  <2>5. CASE UNCHANGED tokenVars
    BY <2>1, <2>2, <2>5 DEF TypesOK, tokenVars, tableVars, handlerVars, historyVars
  <2>6. CASE RefreshStart(q, jar[Browser(q)])
    BY <1>0b, <2>1, <2>2, <2>4, <2>6, EndpointTypes DEF TypesOK
  <2> QED  BY <2>3, <2>5, <2>6
<1>4. CASE RefreshSucceeds(q)
  <2>1. Answered(q) /\ Ok /\ UNCHANGED tabVars
    BY <1>4 DEF RefreshSucceeds, Deliver
  <2>2. jar' = [jar EXCEPT ![Browser(q)] = made[q]] /\ access' = [access EXCEPT ![Browser(q)] = made[q]]
    BY <1>4 DEF RefreshSucceeds, Deliver, Browser
  <2>3. call' \in [Requests -> Calls]
    BY <1>4 DEF RefreshSucceeds, Deliver, TypesOK, Calls
  <2>4. jar' \in [Browsers -> Nat] /\ access' = [b \in Browsers |-> access'[b]]
    BY <2>2 DEF TypesOK
  <2> QED  BY <2>1, <2>3, <2>4, <1>0b, EndpointTypes DEF TypesOK, Ok, tabVars
<1>5. ASSUME Catch(q), faults' \in Nat
      PROVE  /\ call' \in [Requests -> Calls] /\ access' = [b \in Browsers |-> access'[b]]
             /\ redirecting' \in [Tabs -> BOOLEAN] /\ refreshing' \in [Tabs -> BOOLEAN]
             /\ page' = page
  <2>1. call' \in [Requests -> Calls]
    BY <1>5, SettleTypes DEF Catch
  <2> QED  BY <1>5, <2>1 DEF Catch, TypesOK
<1>6. CASE RefreshFails(q)
  <2>1. Answered(q) /\ faults' \in Nat /\ Catch(q)
    BY <1>6, <1>0b DEF RefreshFails, Ok, Fails
  <2>2. jar' \in [Browsers -> Nat]
    <3>1. jar' = jar \/ jar' = [jar EXCEPT ![Browser(q)] = IF answer[q] = "clear" THEN None ELSE @]
      BY <1>6 DEF RefreshFails
    <3> QED  BY <3>1 DEF TypesOK, None
  <2> QED  BY <2>1, <2>2, <1>5, <1>0b, EndpointTypes DEF TypesOK
<1>7. CASE RetryEnds(q)
  <2>1. UNCHANGED <<tokenVars, storeVars, stale, redirecting, page>> /\ call' \in [Requests -> Calls]
    BY <1>7, SettleTypes DEF RetryEnds
  <2>2. refreshing' \in [Tabs -> BOOLEAN]
    BY <1>7, <1>0 DEF RetryEnds, TypesOK
  <2> QED
    BY <2>1, <2>2 DEF TypesOK, tokenVars, tableVars, handlerVars, historyVars, storeVars
<1>8. CASE RetryThrows(q)
  <2>1. UNCHANGED <<tableVars, handlerVars, historyVars, jar>> /\ Catch(q) /\ faults' \in Nat
    BY <1>8, <1>0b DEF RetryThrows, Fails
  <2> QED  BY <2>1, <1>5 DEF TypesOK, tableVars, handlerVars, historyVars
<1>9. CASE Dropped(q)
  <2>1. Answered(q) /\ Ok /\ UNCHANGED <<storeVars, stale, bearer, tabVars>>
    BY <1>9 DEF Dropped
  <2>2. call' \in [Requests -> Calls]
    BY <1>9 DEF Dropped, SetCall, TypesOK, Calls
  <2> QED  BY <2>1, <2>2, <1>0b, EndpointTypes DEF TypesOK, Ok, storeVars, tabVars
<1>10. CASE LogInArrives(q)
  <2>1. Answered(q) /\ faults' \in Nat /\ UNCHANGED <<refreshing, redirecting>>
    BY <1>10, <1>0b DEF LogInArrives, Ok, Fails
  <2>2. call' \in [Requests -> Calls]
    BY <1>10 DEF LogInArrives, SetCall, TypesOK, Calls
  <2>3. \/ /\ jar' = [jar EXCEPT ![Browser(q)] = made[q]]
           /\ access' = [access EXCEPT ![Browser(q)] = made[q]]
           /\ page' = [page EXCEPT ![TabOf[q]] = "app"]
        \/ jar' = jar /\ access' = access /\ page' = page
    BY <1>10 DEF LogInArrives, storeVars
  <2>4. jar' \in [Browsers -> Nat] /\ access' = [b \in Browsers |-> access'[b]]
        /\ page' \in [Tabs -> {"login", "app"}]
    BY <2>3 DEF TypesOK
  <2> QED  BY <2>1, <2>2, <2>4, <1>0b, EndpointTypes DEF TypesOK
<1>11. CASE LogOutArrives(q)
  <2>1. Answered(q) /\ faults' \in Nat /\ UNCHANGED <<refreshing, redirecting>>
    BY <1>11, <1>0b DEF LogOutArrives, Ok, Fails
  <2>2. call' \in [Requests -> Calls] /\ page' \in [Tabs -> {"login", "app"}]
    BY <1>11 DEF LogOutArrives, SetCall, TypesOK, Calls
  <2>3. jar' = jar \/ jar' = [jar EXCEPT ![Browser(q)] = IF answer[q] = "clear" THEN None ELSE @]
    BY <1>11 DEF LogOutArrives
  <2>4. access' = [access EXCEPT ![Browser(q)] = None]
    BY <1>11 DEF LogOutArrives
  <2>5. jar' \in [Browsers -> Nat] /\ access' = [b \in Browsers |-> access'[b]]
    BY <2>3, <2>4 DEF TypesOK, None
  <2> QED  BY <2>1, <2>2, <2>5, <1>0b, EndpointTypes DEF TypesOK
<1> QED
  BY <1>1, <1>2, <1>3, <1>4, <1>6, <1>7, <1>8, <1>9, <1>10, <1>11 DEF Progress

\* Every step keeps the types.
LEMMA NextTypes ==
    ASSUME TypesOK, \A q \in Requests : cookie[q] \in Tokens \/ at[q] # "insert", [Next]_vars
    PROVE  TypesOK'
<1>1. ASSUME NEW q \in Requests, Send(q) PROVE TypesOK'
  BY <1>1 DEF Send, SetCall, TypesOK, Calls, tokenVars, tableVars, handlerVars, historyVars, storeVars, tabVars
<1>2. ASSUME NEW q \in Requests, LogIn(q) PROVE TypesOK'
  <2>1. LoginStart(q) /\ UNCHANGED <<storeVars, stale, bearer, tabVars>> /\ faults' = faults
    BY <1>2 DEF LogIn, LoginStart
  <2>2. call' \in [Requests -> Calls]
    BY <1>2 DEF LogIn, SetCall, TypesOK, Calls
  <2> QED  BY <2>1, <2>2, EndpointTypes DEF TypesOK, storeVars, tabVars
<1>3. ASSUME NEW q \in Requests, LogOut(q) PROVE TypesOK'
  <2>1. jar[Browser(q)] \in Nat
    BY PlacesAssumption DEF Browser, TypesOK
  <2>2. LogoutStart(q, jar[Browser(q)]) /\ UNCHANGED <<storeVars, stale, bearer, tabVars>> /\ faults' = faults
    BY <1>3 DEF LogOut, LogoutStart
  <2>3. call' \in [Requests -> Calls]
    BY <1>3 DEF LogOut, SetCall, TypesOK, Calls
  <2> QED  BY <2>1, <2>2, <2>3, EndpointTypes DEF TypesOK, storeVars, tabVars
<1>4. ASSUME NEW w \in Tabs, Unload(w) PROVE TypesOK'
  <2>1. call' \in [Requests -> Calls]
    BY <1>4 DEF Unload, TypesOK, Calls
  <2> QED
    BY <1>4, <2>1 DEF Unload, TypesOK, tokenVars, tableVars, handlerVars, historyVars, storeVars
<1>5. ASSUME NEW w \in Tabs, Open(w) PROVE TypesOK'
  BY <1>5 DEF Open, TypesOK, tokenVars, tableVars, handlerVars, historyVars, storeVars, clientVars
<1>6. ASSUME NEW t \in Tokens, AccessExpires(t) \/ RefreshTokenExpires(t) PROVE TypesOK'
  BY <1>6 DEF AccessExpires, RefreshTokenExpires, Expire, TypesOK, tokenVars, tableVars, handlerVars,
              historyVars, storeVars, clientVars, tabVars
<1>7. CASE UNCHANGED vars
  BY <1>7 DEF vars, TypesOK, tokenVars, tableVars, handlerVars, historyVars, storeVars, clientVars, tabVars
<1> QED
  BY <1>1, <1>2, <1>3, <1>4, <1>5, <1>6, <1>7, ProgressTypes DEF Next, OutOfTokens

-----------------------------------------------------------------------------
(* Rows and the room for them.                                             *)

\* The requests are finitely many, and so are those that may insert a row.
LEMMA PendingIsFinite ==
    /\ IsFiniteSet(Pending) /\ Cardinality(Pending) \in Nat
    /\ \A S \in SUBSET Pending : IsFiniteSet(S) /\ Cardinality(S) \in Nat
                                 /\ Cardinality(S) <= Cardinality(Pending)
<1>1. Pending \subseteq Requests
  BY DEF Pending
<1>2. IsFiniteSet(Pending)
  BY <1>1, FS_Subset, RequestsAssumption
<1> QED  BY <1>2, FS_Subset, FS_CardinalityType

\* The row of a request that inserts is a token without a row.
LEMMA FreshIsFree ==
    ASSUME RowsOK, NEW q \in Pending
    PROVE  Fresh \in Tokens \ Rows
<1>1. Cardinality({q}) = 1 /\ {q} \in SUBSET Pending
  BY FS_Singleton
<1>2. Cardinality(Pending) >= 1
  BY <1>1, PendingIsFinite
<1> QED
  BY <1>2, PendingIsFinite, RowsAreTokens, BoundAssumption DEF RowsOK, Fresh, Tokens

\* What leaves the rows alone and lets no request begin.
LEMMA RowsStay ==
    ASSUME RowsOK, Rows' = Rows, session' = session, revoked' \subseteq Rows,
           Pending' \in SUBSET Pending
    PROVE  RowsOK'
BY PendingIsFinite, RowsAreTokens, BoundAssumption DEF RowsOK

\* A request that begins finds room.
LEMMA RowsFitMore ==
    ASSUME RowsOK, Rows' = Rows, session' = session, revoked' = revoked, Room,
           NEW q \in Requests, Pending' \subseteq {p \in Requests : at[p] # "idle"} \cup {q}
    PROVE  RowsOK'
<1> DEFINE Busy == {p \in Requests : at[p] # "idle"}
<1>1. IsFiniteSet(Busy)
  BY FS_Subset, RequestsAssumption
<1>2. IsFiniteSet(Busy \cup {q}) /\ Cardinality(Busy \cup {q}) <= Cardinality(Busy) + 1
      /\ Cardinality(Busy) \in Nat
  <2>1. Cardinality(Busy) \in Nat
    BY <1>1, FS_CardinalityType
  <2>2. IsFiniteSet(Busy \cup {q})
        /\ (Cardinality(Busy \cup {q}) = Cardinality(Busy)
            \/ Cardinality(Busy \cup {q}) = Cardinality(Busy) + 1)
    BY <1>1, FS_AddElement, Zenon
  <2> HIDE DEF Busy
  <2> QED  BY <2>1, <2>2
<1>3. Cardinality(Pending') <= Cardinality(Busy \cup {q}) /\ Cardinality(Pending') \in Nat
  BY <1>2, FS_Subset, FS_CardinalityType
<1>4. Cardinality(Rows) + Cardinality(Busy) < MaxTokens
  BY DEF Room
<1>5. Cardinality(Busy \cup {q}) \in Nat
  BY <1>2, FS_CardinalityType
<1> HIDE DEF Busy
<1>6. Cardinality(Rows) + Cardinality(Pending') <= MaxTokens
  BY <1>2, <1>3, <1>4, <1>5, RowsAreTokens, BoundAssumption
<1> QED  BY <1>6 DEF RowsOK

\* An INSERT takes the room of its request.
LEMMA RowsGrow ==
    ASSUME RowsOK, NEW q \in Pending, Rows' = Rows \cup {Fresh}, revoked' = revoked,
           Pending' \in SUBSET (Pending \ {q}),
           \A t \in Rows : session'[t] = session[t], session'[Fresh] \in Rows'
    PROVE  RowsOK'
<1>1. Fresh \in Tokens \ Rows
  BY FreshIsFree
<1>2. Cardinality(Rows') = Cardinality(Rows) + 1
  BY <1>1, RowsAreTokens, FS_AddElement
<1>3. Cardinality(Pending \ {q}) = Cardinality(Pending) - 1 /\ IsFiniteSet(Pending \ {q})
  BY PendingIsFinite, FS_RemoveElement
<1>4. Cardinality(Pending') <= Cardinality(Pending) - 1 /\ Cardinality(Pending') \in Nat
  BY <1>3, FS_Subset, FS_CardinalityType
<1>5. Rows' = 1..Cardinality(Rows')
  BY <1>2, RowsAreTokens DEF RowsOK, Fresh
<1>6. Cardinality(Rows') + Cardinality(Pending') <= MaxTokens
  BY <1>2, <1>4, RowsAreTokens, PendingIsFinite, BoundAssumption DEF RowsOK
<1> QED  BY <1>1, <1>5, <1>6 DEF RowsOK

-----------------------------------------------------------------------------
(* What a step leaves of the parts of the invariant.                       *)

SameTable == Rows' = Rows /\ session' = session /\ revoked \subseteq revoked'
WillHold(b, t) == Holding(b, t, jar', cookie', made')
NothingNew == \A b \in Browsers : \A t : WillHold(b, t) => Holds(b, t)
NoNewExchange ==
    \A q \in Requests : at'[q] \in Exchanging => at[q] \in Exchanging /\ cookie'[q] = cookie[q]
NobodyNewGone ==
    \A q \in Requests :
        call'[q] = "gone" /\ at'[q] \in Exchanging
            /\ page'[TabOf[q]] = "app" /\ jar'[Browser(q)] # None =>
        /\ call[q] = "gone" /\ page[TabOf[q]] = "app" /\ jar[Browser(q)] # None
        /\ session[jar'[Browser(q)]] = session[jar[Browser(q)]]
NoNewLogin ==
    \A q \in Requests : call'[q] = "login" /\ made'[q] # None => call[q] = "login" /\ made'[q] = made[q]
CookiesKnown ==
    \A q \in Requests :
        \/ cookie'[q] \in {None, cookie[q]}
        \/ page[TabOf[q]] = "app" /\ cookie'[q] = jar[Browser(q)]
NobodyExchanges ==
    \A q \in Requests : at'[q] \in {"revoke", "insert"} => at'[q] = at[q] /\ cookie'[q] = cookie[q]

\* A browser holds tokens that have rows.
LEMMA HeldHaveRows ==
    ASSUME LiveInv, NEW b \in Browsers, NEW t, Holds(b, t)
    PROVE  t \in Rows /\ t \in Tokens
  BY RowsAreTokens DEF LiveInv, CarriesOK, HoldsOK, Holds, Holding

\* Tokens of one login are held in one browser.
LEMMA HeldApart ==
    ASSUME LiveInv, NEW b \in Browsers, NEW c \in Browsers, NEW t, NEW u,
           Holds(b, t), Holds(c, u), session[t] = session[u]
    PROVE  b = c
  BY HeldHaveRows DEF LiveInv, HoldsOK

\* Nobody holds what was not held in its browser before.
LEMMA HoldsStays ==
    ASSUME LiveInv, SameTable, NothingNew
    PROVE  HoldsOK'
<1>1. ASSUME NEW b \in Browsers, jar'[b] # None PROVE jar'[b] \in Rows'
  <2>1. WillHold(b, jar'[b])
    BY <1>1 DEF WillHold, Holding
  <2> QED  BY <2>1, HeldHaveRows DEF NothingNew, SameTable
<1>2. ASSUME NEW b \in Browsers, NEW c \in Browsers, NEW t \in Tokens, NEW u \in Tokens,
             WillHold(b, t), WillHold(c, u), session'[t] = session'[u]
      PROVE  b = c
  BY <1>2, HeldApart DEF NothingNew, SameTable
<1> QED  BY <1>1, <1>2 DEF HoldsOK, Holds, WillHold

\* No request comes to exchange a token.
LEMMA ExchangesStay ==
    ASSUME LiveInv, SameTable, NoNewExchange, NobodyNewGone
    PROVE  ExchangesOK'
<1>1. ASSUME NEW p \in Requests, NEW q \in Requests, at'[p] \in Exchanging, at'[q] \in Exchanging, p # q
      PROVE  session'[cookie'[p]] # session'[cookie'[q]]
  BY <1>1 DEF LiveInv, ExchangesOK, SameTable, NoNewExchange
<1>2. ASSUME NEW p \in Requests, call'[p] = "gone", at'[p] \in Exchanging,
             page'[TabOf[p]] = "app", jar'[Browser(p)] # None
      PROVE  session'[cookie'[p]] # session'[jar'[Browser(p)]]
  BY <1>2 DEF LiveInv, ExchangesOK, SameTable, NoNewExchange, NobodyNewGone
<1> QED  BY <1>1, <1>2 DEF ExchangesOK, Browser

\* No request takes the token of a login under way.
LEMMA NewLoginsStay ==
    ASSUME LiveInv, OneTabEach, SameTable, NoNewLogin, CookiesKnown
    PROVE  NewLoginsOK'
<1> SUFFICES ASSUME NEW q \in Requests, call'[q] = "login", made'[q] # None
             PROVE  /\ \A t \in Rows' : session'[t] = session'[made'[q]] => t = made'[q]
                    /\ \A p \in Requests : cookie'[p] # made'[q]
  BY DEF NewLoginsOK
<1>1. call[q] = "login" /\ made'[q] = made[q]
  BY DEF NoNewLogin
<1>2. \A t \in Rows' : session'[t] = session'[made'[q]] => t = made'[q]
  BY <1>1 DEF LiveInv, NewLoginsOK, SameTable
<1>3. ASSUME NEW p \in Requests, cookie'[p] = made[q] PROVE FALSE
  <2>1. cookie[p] # made[q] /\ page[TabOf[q]] = "login"
    BY <1>1 DEF LiveInv, NewLoginsOK, TabsOK, CallOK
  <2>2. page[TabOf[p]] = "app" /\ jar[Browser(p)] = made[q]
    BY <1>1, <1>3, <2>1 DEF CookiesKnown
  <2>3. Browser(p) # Browser(q) /\ Browser(p) \in Browsers /\ Browser(q) \in Browsers
    BY <2>1, <2>2, PlacesAssumption DEF OneTabEach, Browser
  <2>4. Holds(Browser(p), made[q]) /\ Holds(Browser(q), made[q])
    BY <1>1, <2>2 DEF Holds, Holding
  <2> QED  BY <2>3, <2>4, HeldApart
<1> QED  BY <1>1, <1>2, <1>3

\* No token becomes usable and no request comes closer to its INSERT.
LEMMA LiveStays ==
    ASSUME LiveInv, SameTable, NobodyExchanges
    PROVE  LiveOK'
<1>1. Live' \subseteq Live
  BY DEF SameTable, Live
<1>2. OneLiveToken'
  BY <1>1 DEF LiveInv, LiveOK, OneLiveToken, SameTable
<1>3. ASSUME NEW q \in Requests, at'[q] \in {"revoke", "insert"}, NEW t \in Live',
             session'[t] = session'[cookie'[q]]
      PROVE  at'[q] = "revoke" /\ t = cookie'[q]
  BY <1>1, <1>3 DEF LiveInv, LiveOK, SameTable, NobodyExchanges
<1> QED  BY <1>2, <1>3 DEF LiveOK

\* A step of the client alone.
LEMMA ClientKeepsLive ==
    ASSUME LiveInv, OneTabEach, TypesOK', TabsOK', owner' = owner, session' = session, revoked' = revoked,
           at' = at, cookie' = cookie, made' = made, answer' = answer, jar' = jar,
           NoNewLogin, NobodyNewGone
    PROVE  LiveInv'
<1>1. SameTable /\ NoNewExchange /\ CookiesKnown /\ NobodyExchanges
  BY DEF SameTable, Rows, NoNewExchange, CookiesKnown, NobodyExchanges
<1>2. NothingNew
  BY DEF NothingNew, Holds, WillHold
<1>3. RowsOK'
  <2>1. Pending' = Pending
    BY DEF Pending
  <2> QED  BY <1>1, <2>1, RowsStay DEF SameTable, LiveInv, RowsOK
<1>4. \A q \in Requests : CarriesOK(q)'
  BY <1>1 DEF SameTable, LiveInv, CarriesOK
<1> QED
  BY <1>1, <1>2, <1>3, <1>4, HoldsStays, ExchangesStay, NewLoginsStay, LiveStays DEF LiveInv

-----------------------------------------------------------------------------
(* The statements of the handlers.                                         *)

\* Where a statement that inserts no row takes request q, and its answer.
NextStatement(q, s, a) ==
    \/ s = "answered" /\ a \in {"clear", "error"}
    \/ s = "answered" /\ a = "tokens" /\ at[q] = "user"
    \/ at[q] = "read" /\ s \in {"revokeAll", "markExpired"} /\ a = answer[q]
    \/ at[q] = "read" /\ s = "revoke" /\ cookie[q] \notin revoked /\ a = answer[q]
    \/ at[q] = "revoke" /\ s = "insert" /\ cookie[q] \in revoked' /\ a = answer[q]

\* A statement that inserts no row.
LEMMA StatementKeepsLive ==
    ASSUME LiveInv, OneTabEach, TypesOK', NEW q \in Requests, at[q] \in Statements,
           owner' = owner, session' = session, revoked \subseteq revoked', revoked' \subseteq Rows,
           cookie' = cookie, made' = made, UNCHANGED <<jar, call, refreshing, redirecting, page>>,
           NEW s, NEW a, NextStatement(q, s, a),
           at' = [at EXCEPT ![q] = s], answer' = [answer EXCEPT ![q] = a]
    PROVE  LiveInv'
<1>0. at[q] \notin {"idle", "answered"} /\ at'[q] = s /\ answer'[q] = a
      /\ \A p \in Requests \ {q} : at'[p] = at[p] /\ answer'[p] = answer[p]
  BY DEF Statements, LiveInv, TypesOK
<1>1. SameTable /\ CookiesKnown /\ NoNewLogin
  BY DEF SameTable, Rows, CookiesKnown, NoNewLogin
<1>2. NothingNew
  BY DEF NothingNew, Holds, WillHold
<1>3. NoNewExchange /\ NobodyNewGone
  <2>1. NoNewExchange
    BY <1>0 DEF NoNewExchange, NextStatement, Exchanging
  <2> QED  BY <2>1 DEF NoNewExchange, NobodyNewGone
<1>4. RowsOK'
  <2>1. Pending' \subseteq Pending
    BY <1>0 DEF Pending, NextStatement, Exchanging
  <2> QED  BY <1>1, <2>1, RowsStay DEF SameTable, LiveInv
<1>5. ASSUME NEW p \in Requests PROVE CarriesOK(p)'
  <2>1. CarriesOK(p)
    BY DEF LiveInv
  <2>2. CASE p # q
    BY <1>0, <1>1, <2>1, <2>2 DEF CarriesOK, SameTable
  <2>3. CASE p = q
    BY <1>0, <1>1, <2>1, <2>3 DEF CarriesOK, SameTable, NextStatement, RefreshStatements
  <2> QED  BY <2>2, <2>3
<1>6. TabsOK'
  <2>1. ASSUME NEW p \in Requests PROVE CallOK(p, TabOf[p])'
    <3>1. CallOK(p, TabOf[p])
      BY DEF LiveInv, TabsOK
    <3>2. CASE p # q
      BY <1>0, <3>1, <3>2 DEF CallOK
    <3>3. CASE p = q
      BY <1>0, <3>1, <3>3 DEF CallOK, NextStatement, RefreshStatements
    <3> QED  BY <3>2, <3>3
  <2> QED  BY <2>1 DEF LiveInv, TabsOK
<1>7. LiveOK'
  <2>1. Live' \subseteq Live
    BY <1>1 DEF SameTable, Live
  <2>2. OneLiveToken'
    BY <2>1 DEF LiveInv, LiveOK, OneLiveToken
  <2>3. ASSUME NEW p \in Requests, at'[p] \in {"revoke", "insert"}, NEW t \in Live',
               session'[t] = session'[cookie'[p]]
        PROVE  at'[p] = "revoke" /\ t = cookie'[p]
    <3>1. CASE at'[p] = at[p]
      BY <2>1, <2>3, <3>1 DEF LiveInv, LiveOK
    <3>2. CASE at'[p] # at[p] /\ s = "revoke"
      <4>1. p = q /\ cookie[p] \in Live
        BY <1>0, <3>2 DEF NextStatement, LiveInv, CarriesOK, RefreshStatements, Live
      <4> QED  BY <1>0, <2>1, <2>3, <3>2, <4>1 DEF LiveInv, LiveOK, OneLiveToken
    <3>3. CASE at'[p] # at[p] /\ s = "insert"
      <4>1. p = q /\ at[q] = "revoke" /\ cookie[q] \in revoked'
        BY <1>0, <3>3 DEF NextStatement
      <4>2. t = cookie[q]
        BY <2>1, <2>3, <4>1 DEF LiveInv, LiveOK
      <4> QED  BY <2>3, <4>1, <4>2 DEF Live
    <3> QED  BY <1>0, <2>3, <3>1, <3>2, <3>3
  <2> QED  BY <2>2, <2>3 DEF LiveOK
<1> QED
  BY <1>1, <1>2, <1>3, <1>4, <1>5, <1>6, <1>7, HoldsStays, ExchangesStay, NewLoginsStay DEF LiveInv

\* A new row and its session.
LEMMA InsertAddsRow ==
    ASSUME LiveInv, NEW q \in Pending, NEW v \in Users, NEW t, t = None \/ t \in Rows, Insert(q, v, t)
    PROVE  /\ Fresh \in Tokens \ Rows /\ Rows' = Rows \cup {Fresh}
           /\ \A u \in Rows : session'[u] = session[u]
           /\ session'[Fresh] = IF t = None THEN Fresh ELSE session[t]
           /\ made' = [made EXCEPT ![q] = Fresh] /\ made'[q] = Fresh
           /\ \A p \in Requests \ {q} : made'[p] = made[p]
           /\ revoked' = revoked /\ cookie' = cookie /\ Live' = Live \cup {Fresh}
<1>1. Fresh \in Tokens \ Rows
  BY FreshIsFree DEF LiveInv
<1>2. /\ owner' = [owner EXCEPT ![Fresh] = v]
      /\ session' = [session EXCEPT ![Fresh] = IF t = None THEN Fresh ELSE session[t]]
      /\ made' = [made EXCEPT ![q] = Fresh] /\ revoked' = revoked /\ cookie' = cookie
  BY DEF Insert
<1>3. v # NoUser
  BY UsersAssumption
<1> HIDE DEF Fresh
<1>4. owner \in [Tokens -> Users \cup {NoUser}] /\ session \in [Tokens -> Nat] /\ made \in [Requests -> Nat]
      /\ q \in Requests
  BY DEF LiveInv, TypesOK, Pending
<1>5. Rows' = Rows \cup {Fresh}
  <2>1. \A u \in Tokens : u \in Rows' <=> u \in Rows \/ u = Fresh
    BY <1>1, <1>2, <1>3, <1>4 DEF Rows
  <2>2. Rows' \subseteq Tokens /\ Rows \subseteq Tokens /\ Fresh \in Tokens
    BY <1>1 DEF Rows
  <2> QED  BY <2>1, <2>2
<1>6. \A u \in Rows : u \in Tokens /\ u # Fresh
  BY <1>1 DEF Rows
<1>7. (\A u \in Rows : session'[u] = session[u])
      /\ session'[Fresh] = IF t = None THEN Fresh ELSE session[t]
  BY <1>1, <1>2, <1>4, <1>6
<1>8. made'[q] = Fresh /\ \A p \in Requests \ {q} : made'[p] = made[p]
  BY <1>2, <1>4
<1>9. revoked \subseteq Rows
  BY DEF LiveInv, RowsOK
<1>10. Live' = Live \cup {Fresh}
  BY <1>1, <1>2, <1>5, <1>9 DEF Live
<1> QED  BY <1>1, <1>2, <1>5, <1>7, <1>8, <1>10

\* The INSERT of a successor or of the first token of a login.
LEMMA IssueKeepsLive ==
    ASSUME LiveInv, OneTabEach, TypesOK', NEW q \in Requests, NEW v \in Users, NEW t, NEW s, NEW a,
           Insert(q, v, t), UNCHANGED <<jar, call, refreshing, redirecting, page>>,
           at' = [at EXCEPT ![q] = s], answer' = [answer EXCEPT ![q] = a],
           \/ at[q] = "insert" /\ t = cookie[q] /\ s = "user" /\ a = answer[q]
           \/ at[q] = "login" /\ t = None /\ s = "answered" /\ a = "tokens"
    PROVE  LiveInv'
<1>0. at'[q] = s /\ answer'[q] = a /\ q \in Pending
      /\ \A p \in Requests \ {q} : at'[p] = at[p] /\ answer'[p] = answer[p]
  BY DEF Pending, Exchanging, LiveInv, TypesOK
<1>0a. CarriesOK(q) /\ CallOK(q, TabOf[q])
  BY DEF LiveInv, TabsOK
<1>1. t = None \/ t \in Rows
  BY <1>0a DEF CarriesOK, RefreshStatements
<1>1a. (at[q] = "insert" => t \in Rows /\ t # None) /\ (at[q] = "login" => cookie[q] = None)
  BY <1>0a DEF CarriesOK, RefreshStatements
<1>2. /\ Fresh \in Tokens \ Rows /\ Rows' = Rows \cup {Fresh}
      /\ \A u \in Rows : session'[u] = session[u]
      /\ session'[Fresh] = IF t = None THEN Fresh ELSE session[t]
      /\ made'[q] = Fresh
      /\ \A p \in Requests \ {q} : made'[p] = made[p]
      /\ revoked' = revoked /\ cookie' = cookie /\ Live' = Live \cup {Fresh}
  BY <1>0, <1>1, InsertAddsRow
<1>3. Fresh # None
  BY FreshIsNumber
<1> HIDE DEF Fresh
<1>4. \A u \in Rows : session[u] \in Rows /\ session[u] # Fresh
  BY <1>2 DEF LiveInv, RowsOK
<1>5. RowsOK'
  <2>1. Pending' \subseteq Pending \ {q}
    BY <1>0 DEF Pending, Exchanging
  <2>2. session'[Fresh] \in Rows'
    BY <1>1a, <1>2, <1>4
  <2> QED  BY <1>0, <1>2, <2>1, <2>2, RowsGrow DEF LiveInv
<1>6. ASSUME NEW p \in Requests PROVE CarriesOK(p)'
  <2>1. CarriesOK(p)
    BY DEF LiveInv
  <2>2. CASE p # q
    BY <1>0, <1>2, <2>1, <2>2 DEF CarriesOK
  <2>3. CASE p = q
    BY <1>0, <1>1a, <1>2, <1>3, <2>1, <2>3 DEF CarriesOK, RefreshStatements
  <2> QED  BY <2>2, <2>3
<1>7. TabsOK'
  <2>1. ASSUME NEW p \in Requests PROVE CallOK(p, TabOf[p])'
    <3>1. CallOK(p, TabOf[p])
      BY DEF LiveInv, TabsOK
    <3>2. CASE p # q
      BY <1>0, <1>2, <3>1, <3>2 DEF CallOK
    <3>3. CASE p = q
      BY <1>0, <1>1a, <1>2, <3>1, <3>3 DEF CallOK, RefreshStatements
    <3> QED  BY <3>2, <3>3
  <2> QED  BY <2>1 DEF LiveInv, TabsOK
<1>8. HoldsOK'
  <2>1. ASSUME NEW b \in Browsers, NEW u, WillHold(b, u)
        PROVE  Holds(b, u) \/ (b = Browser(q) /\ u = Fresh)
    BY <1>0, <1>2, <2>1 DEF WillHold, Holds, Holding
  <2>2. ASSUME NEW b \in Browsers, jar'[b] # None PROVE jar'[b] \in Rows'
    BY <1>2, <2>2 DEF LiveInv, HoldsOK
  <2>3. ASSUME NEW b \in Browsers, NEW u \in Tokens, Holds(b, u), session'[Fresh] = session[u]
        PROVE  b = Browser(q)
    <3>1. u \in Rows
      BY <2>3, HeldHaveRows
    <3>2. at[q] = "insert" /\ session[t] = session[u]
      BY <1>1a, <1>2, <1>4, <2>3, <3>1
    <3>3. Holds(Browser(q), t) /\ Browser(q) \in Browsers
      BY <1>1a, <3>2, PlacesAssumption DEF Holds, Holding, Browser
    <3> QED  BY <2>3, <3>2, <3>3, HeldApart
  <2>4. ASSUME NEW b \in Browsers, NEW c \in Browsers, NEW u \in Tokens, NEW y \in Tokens,
               WillHold(b, u), WillHold(c, y), session'[u] = session'[y]
        PROVE  b = c
    <3>1. CASE Holds(b, u) /\ Holds(c, y)
      BY <1>2, <2>4, <3>1, HeldApart, HeldHaveRows
    <3>2. CASE Holds(b, u) /\ c = Browser(q) /\ y = Fresh
      BY <1>2, <2>3, <2>4, <3>2, HeldHaveRows
    <3>3. CASE Holds(c, y) /\ b = Browser(q) /\ u = Fresh
      BY <1>2, <2>3, <2>4, <3>3, HeldHaveRows
    <3> QED  BY <2>1, <2>4, <3>1, <3>2, <3>3
  <2> QED  BY <2>2, <2>4 DEF HoldsOK, Holds, WillHold
<1>9. ExchangesOK'
  <2>1. \A p \in Requests : at'[p] \in Exchanging =>
            p # q /\ at[p] \in Exchanging /\ cookie[p] \in Rows
    BY <1>0 DEF Exchanging, LiveInv, CarriesOK, RefreshStatements
  <2>2. \A b \in Browsers : jar[b] # None => jar[b] \in Rows
    BY DEF LiveInv, HoldsOK
  <2>3. \A p \in Requests : Browser(p) \in Browsers
    BY PlacesAssumption DEF Browser
  <2> QED
    BY <1>2, <2>1, <2>2, <2>3 DEF LiveInv, ExchangesOK, Browser
<1>10. NewLoginsOK'
  <2> SUFFICES ASSUME NEW p \in Requests, call'[p] = "login", made'[p] # None
               PROVE  /\ \A u \in Rows' : session'[u] = session'[made'[p]] => u = made'[p]
                      /\ \A y \in Requests : cookie'[y] # made'[p]
    BY DEF NewLoginsOK
  <2>1. \A y \in Requests : cookie[y] = None \/ cookie[y] \in Rows
    BY DEF LiveInv, CarriesOK
  <2>2. CASE p = q
    <3>1. at[q] = "login"
      BY <1>0a, <2>2 DEF CallOK
    <3> QED  BY <1>2, <1>3, <1>4, <2>1, <2>2, <3>1
  <2>3. CASE p # q
    <3>1. made'[p] = made[p] /\ made[p] \in Rows
      BY <1>2, <2>3 DEF LiveInv, CarriesOK
    <3>2. (\A u \in Rows : session[u] = session[made[p]] => u = made[p])
          /\ \A y \in Requests : cookie[y] # made[p]
      BY <1>2, <2>3, <3>1 DEF LiveInv, NewLoginsOK
    <3>3. session'[Fresh] # session[made[p]]
      BY <1>1a, <1>2, <1>4, <3>1, <3>2
    <3> QED  BY <1>2, <3>1, <3>2, <3>3
  <2> QED  BY <2>2, <2>3
<1>11. LiveOK'
  <2>1. ASSUME NEW u \in Live PROVE u \in Rows /\ session'[u] # session'[Fresh]
    <3>1. u \in Rows
      BY DEF Live
    <3>2. CASE at[q] = "login"
      BY <1>2, <1>4, <3>1, <3>2
    <3>3. CASE at[q] = "insert"
      <4>1. session[u] # session[t]
        BY <3>3 DEF LiveInv, LiveOK
      <4> QED  BY <1>1a, <1>2, <3>1, <3>3, <4>1
    <3> QED  BY <3>2, <3>3
  <2>2. OneLiveToken'
    BY <1>2, <2>1 DEF LiveInv, LiveOK, OneLiveToken
  <2>3. ASSUME NEW p \in Requests, at'[p] \in {"revoke", "insert"}, NEW u \in Live',
               session'[u] = session'[cookie'[p]]
        PROVE  at'[p] = "revoke" /\ u = cookie'[p]
    <3>1. p # q /\ at[p] = at'[p] /\ cookie'[p] = cookie[p] /\ cookie[p] \in Rows
      BY <1>0, <1>2, <2>3 DEF LiveInv, CarriesOK, RefreshStatements
    <3>2. u # Fresh
      <4>1. CASE at[q] = "login"
        BY <1>2, <1>4, <2>3, <3>1, <4>1
      <4>2. CASE at[q] = "insert"
        <5>1. session[cookie[p]] # session[cookie[q]]
          BY <2>3, <3>1, <4>2 DEF LiveInv, ExchangesOK, Exchanging
        <5> QED  BY <1>1a, <1>2, <2>3, <3>1, <4>2, <5>1
      <4> QED  BY <4>1, <4>2
    <3>3. u \in Live /\ session[u] = session[cookie[p]]
      BY <1>2, <2>1, <2>3, <3>1, <3>2
    <3> QED  BY <2>3, <3>1, <3>3 DEF LiveInv, LiveOK
  <2> QED  BY <2>2, <2>3 DEF LiveOK
<1> QED
  BY <1>5, <1>6, <1>7, <1>8, <1>9, <1>10, <1>11 DEF LiveInv

\* The statement of a handler, whatever it is.
LEMMA HandlesKeepLive ==
    ASSUME LiveInv, OneTabEach, TypesOK', NEW q \in Requests, Handles(q)
    PROVE  LiveInv'
<1>0. UserOf[Browser(q)] \in Users
  BY PlacesAssumption DEF Browser
<1>1. Handle(q, UserOf[Browser(q)]) /\ UNCHANGED <<jar, call, refreshing, redirecting, page>>
  BY DEF Handles, storeVars, clientVars, tabVars
<1>2. CarriesOK(q)
  BY DEF LiveInv
<1>3. revoked \subseteq Rows /\ answer' \in [Requests -> Answers] /\ answer \in [Requests -> Answers]
  BY DEF LiveInv, RowsOK, TypesOK
<1>3a. [answer EXCEPT ![q] = answer[q]] = answer
  BY <1>3
<1>4. ASSUME NEW s, NEW a, at[q] \in Statements,
             owner' = owner, session' = session, revoked \subseteq revoked', revoked' \subseteq Rows,
             cookie' = cookie, made' = made, NextStatement(q, s, a),
             at' = [at EXCEPT ![q] = s], answer' = [answer EXCEPT ![q] = a]
      PROVE  LiveInv'
  BY <1>1, <1>4, StatementKeepsLive
<1>5. ASSUME at[q] \in Statements, UNCHANGED <<owner, revoked, session>>, NEW a \in {"clear", "error"}, Reply(q, a)
      PROVE  LiveInv'
  <2>1. NextStatement(q, "answered", a)
    BY <1>5 DEF NextStatement
  <2>2. at' = [at EXCEPT ![q] = "answered"] /\ answer' = [answer EXCEPT ![q] = a]
        /\ cookie' = cookie /\ made' = made
    BY <1>5 DEF Reply
  <2> QED  BY <1>3, <1>4, <1>5, <2>1, <2>2
<1>6. CASE ReadToken(q)
  <2>1. at[q] = "read" /\ UNCHANGED <<owner, revoked, session>>
    BY <1>6 DEF ReadToken, tableVars, historyVars
  <2>2. CASE Reply(q, "error")
    BY <1>5, <2>1, <2>2 DEF Statements
  <2>3. ASSUME NEW s, Step(q, s), \/ s \in {"revokeAll", "markExpired"}
                                  \/ s = "revoke" /\ cookie[q] \notin revoked
        PROVE  LiveInv'
    <3>1. NextStatement(q, s, answer[q])
      BY <2>1, <2>3 DEF NextStatement
    <3>2. at' = [at EXCEPT ![q] = s] /\ answer' = [answer EXCEPT ![q] = answer[q]]
          /\ cookie' = cookie /\ made' = made
      BY <1>3a, <2>3 DEF Step
    <3>3. at[q] \in Statements /\ owner' = owner /\ session' = session
      BY <2>1 DEF Statements
    <3>4. revoked \subseteq revoked' /\ revoked' \subseteq Rows
      BY <1>3, <2>1
    <3> QED  BY <1>4, <3>1, <3>2, <3>3, <3>4
  <2> QED  BY <1>6, <2>2, <2>3 DEF ReadToken
<1>7. ASSUME at[q] \in Statements, NEW ts, ts \subseteq Rows, NEW a \in {"clear", "error"},
             Revoke(ts) \/ UNCHANGED tableVars, session' = session, Reply(q, a)
      PROVE  LiveInv'
  <2>1. NextStatement(q, "answered", a)
    BY <1>7 DEF NextStatement
  <2>2. at' = [at EXCEPT ![q] = "answered"] /\ answer' = [answer EXCEPT ![q] = a]
        /\ cookie' = cookie /\ made' = made
    BY <1>7 DEF Reply
  <2>3. owner' = owner /\ revoked \subseteq revoked' /\ revoked' \subseteq Rows
    BY <1>3, <1>7 DEF Revoke, tableVars
  <2> QED  BY <1>4, <1>7, <2>1, <2>2, <2>3
<1>8. CASE RevokeAll(q)
  <2>1. at[q] = "revokeAll" /\ session' = session /\ Reply(q, "clear")
    BY <1>8 DEF RevokeAll
  <2>2. PICK ts : ts \subseteq Rows /\ (Revoke(ts) \/ UNCHANGED tableVars)
    BY <1>8 DEF RevokeAll
  <2>3. at[q] \in Statements /\ "clear" \in {"clear", "error"}
    BY <2>1 DEF Statements
  <2> QED  BY <1>7, <2>1, <2>2, <2>3
<1>9. CASE MarkExpired(q) \/ Logout(q)
  <2>1. at[q] \in {"markExpired", "logout"} /\ session' = session /\ Reply(q, "clear")
    BY <1>9 DEF MarkExpired, Logout, historyVars
  <2>2. Revoke({cookie[q]}) \/ UNCHANGED tableVars
    BY <1>9 DEF MarkExpired, Logout
  <2>3. {cookie[q]} \subseteq Rows
    BY <1>2, <2>1 DEF CarriesOK, RefreshStatements
  <2>4. at[q] \in Statements /\ "clear" \in {"clear", "error"}
    BY <2>1 DEF Statements
  <2> QED  BY <1>7, <2>1, <2>2, <2>3, <2>4
<1>10. CASE RevokeCurrent(q)
  <2>1. at[q] = "revoke" /\ session' = session
    BY <1>10 DEF RevokeCurrent, historyVars
  <2>2. CASE UNCHANGED tableVars /\ Reply(q, "error")
    <3>1. at[q] \in Statements /\ UNCHANGED <<owner, revoked, session>>
      BY <2>1, <2>2 DEF Statements, tableVars
    <3> QED  BY <1>5, <2>2, <3>1
  <2>3. CASE Revoke({cookie[q]}) /\ Step(q, "insert")
    <3>1. cookie[q] \in Rows
      BY <1>2, <2>1 DEF CarriesOK, RefreshStatements
    <3>2. owner' = owner /\ revoked \subseteq revoked' /\ revoked' \subseteq Rows /\ cookie[q] \in revoked'
      BY <1>3, <2>3, <3>1 DEF Revoke
    <3>3. NextStatement(q, "insert", answer[q])
      BY <2>1, <3>2 DEF NextStatement
    <3>4. at' = [at EXCEPT ![q] = "insert"] /\ answer' = [answer EXCEPT ![q] = answer[q]]
          /\ cookie' = cookie /\ made' = made
      BY <1>3a, <2>3 DEF Step
    <3>5. at[q] \in Statements
      BY <2>1 DEF Statements
    <3> QED  BY <1>4, <2>1, <3>2, <3>3, <3>4, <3>5
  <2> QED  BY <1>10, <2>2, <2>3 DEF RevokeCurrent
<1>11. CASE LookUpUser(q)
  <2>1. at[q] = "user" /\ UNCHANGED <<owner, revoked, session>>
    BY <1>11 DEF LookUpUser, tableVars, historyVars
  <2>2. CASE Reply(q, "error")
    BY <1>5, <2>1, <2>2 DEF Statements
  <2>3. CASE Reply(q, "tokens")
    <3>1. NextStatement(q, "answered", "tokens")
      BY <2>1 DEF NextStatement
    <3>2. at' = [at EXCEPT ![q] = "answered"] /\ answer' = [answer EXCEPT ![q] = "tokens"]
          /\ cookie' = cookie /\ made' = made
      BY <2>3 DEF Reply
    <3>3. at[q] \in Statements /\ owner' = owner /\ session' = session
      BY <2>1 DEF Statements
    <3>4. revoked \subseteq revoked' /\ revoked' \subseteq Rows
      BY <1>3, <2>1
    <3> QED  BY <1>4, <3>1, <3>2, <3>3, <3>4
  <2> QED  BY <1>11, <2>2, <2>3 DEF LookUpUser
<1>12. CASE InsertSuccessor(q)
  <2>1. at[q] = "insert"
    BY <1>12 DEF InsertSuccessor
  <2>2. CASE Insert(q, owner[cookie[q]], cookie[q]) /\ at' = [at EXCEPT ![q] = "user"] /\ answer' = answer
    <3>1. cookie[q] \in Rows
      BY <1>2, <2>1 DEF CarriesOK, RefreshStatements
    <3>2. owner[cookie[q]] \in Users
      BY <3>1 DEF Rows, LiveInv, TypesOK
    <3>3. answer' = [answer EXCEPT ![q] = answer[q]]
      BY <1>3a, <2>2
    <3> QED  BY <1>1, <2>1, <2>2, <3>2, <3>3, IssueKeepsLive
  <2>3. CASE Reply(q, "error") /\ UNCHANGED <<tableVars, historyVars>>
    BY <1>5, <2>1, <2>3 DEF Statements, tableVars, historyVars
  <2> QED  BY <1>12, <2>2, <2>3 DEF InsertSuccessor
<1>13. CASE Login(q, UserOf[Browser(q)])
  <2>1. at[q] = "login"
    BY <1>13 DEF Login
  <2>2. CASE Insert(q, UserOf[Browser(q)], None) /\ at' = [at EXCEPT ![q] = "answered"]
             /\ answer' = [answer EXCEPT ![q] = "tokens"]
    BY <1>0, <1>1, <2>1, <2>2, IssueKeepsLive
  <2>3. CASE Reply(q, "error") /\ UNCHANGED <<tableVars, historyVars>>
    BY <1>5, <2>1, <2>3 DEF Statements, tableVars, historyVars
  <2> QED  BY <1>13, <2>2, <2>3 DEF Login
<1> QED
  BY <1>1, <1>6, <1>8, <1>9, <1>10, <1>11, <1>12, <1>13 DEF Handle

-----------------------------------------------------------------------------
(* The steps of the client that leave the session endpoints alone.         *)

EndpointsStay ==
    /\ owner' = owner /\ session' = session /\ revoked' = revoked
    /\ at' = at /\ cookie' = cookie /\ made' = made /\ answer' = answer /\ jar' = jar

\* Requests are sent, queued and settled, and a refresh is given up.
LEMMA CallsKeepLive ==
    ASSUME LiveInv, OneTabEach, TypesOK', NEW q \in Requests, EndpointsStay,
           Send(q) \/ Ends(q) \/ (Unauthorized(q) /\ refreshing[TabOf[q]]) \/ RetryEnds(q) \/ RetryThrows(q)
    PROVE  LiveInv'
<1> DEFINE w == TabOf[q]
<1>0. w \in Tabs /\ CallOK(q, w)
  BY PlacesAssumption DEF LiveInv, TabsOK
<1>0a. call \in [Requests -> Calls] /\ refreshing \in [Tabs -> BOOLEAN]
       /\ redirecting \in [Tabs -> BOOLEAN]
  BY DEF LiveInv, TypesOK
<1>1. page' = page
  BY DEF Send, Ends, Unauthorized, RetryEnds, RetryThrows, Catch, tabVars
<1>2. call[q] \notin {"login", "logout", "gone", "refreshing"} /\ at[q] = "idle"
  BY <1>0 DEF Send, Ends, Unauthorized, RetryEnds, RetryThrows, CallOK
<1>3. call'[q] \in {"idle", "sent", "queued"}
  BY <1>0a DEF Send, Ends, Unauthorized, RetryEnds, RetryThrows, Catch, SetCall, Settle
<1>4. \A p \in Requests \ {q} :
          call'[p] = call[p] \/ (TabOf[p] = w /\ call[p] = "queued" /\ call'[p] = "idle")
  <2>1. CASE Send(q) \/ Ends(q) \/ RetryEnds(q) \/ Unauthorized(q)
    BY <1>0a, <2>1 DEF Send, Ends, Unauthorized, RetryEnds, SetCall, Settle
  <2>2. CASE RetryThrows(q)
    BY <1>0a, <2>2 DEF RetryThrows, Catch, Settle, Queue, CallsOf
  <2> QED  BY <2>1, <2>2
<1>5. call'[q] # "idle" => page[w] = "app" /\ \A p \in CallsOf(w) : call[p] # "logout"
  <2>1. CASE Send(q)
    BY <2>1 DEF Send, OneTabEach
  <2>2. CASE Ends(q) \/ RetryEnds(q)
    BY <1>0a, <2>2 DEF Ends, RetryEnds, Settle
  <2>3. CASE RetryThrows(q)
    BY <1>0a, <2>3 DEF RetryThrows, Catch, Settle
  <2>4. CASE Unauthorized(q)
    <3>1. call[q] = "sent"
      BY <2>4 DEF Unauthorized
    <3>2. ASSUME NEW p \in CallsOf(w) PROVE call[p] # "logout"
      BY <3>1, <3>2 DEF LiveInv, TabsOK, CallOK, CallsOf
    <3> QED  BY <1>0, <3>1, <3>2 DEF CallOK
  <2> QED  BY <2>1, <2>2, <2>3, <2>4
<1>6. \A v \in Tabs \ {w} : refreshing'[v] = refreshing[v] /\ redirecting'[v] = redirecting[v]
  BY <1>0a DEF Send, Ends, Unauthorized, RetryEnds, RetryThrows, Catch, tabVars
<1>7. ASSUME refreshing'[w] # refreshing[w] \/ redirecting'[w] # redirecting[w]
      PROVE  call[q] = "ownRetry"
  BY <1>0, <1>0a, <1>7 DEF Send, Ends, Unauthorized, RetryEnds, RetryThrows, Catch, tabVars
<1> HIDE DEF w
<1>8. ASSUME NEW p \in Requests PROVE CallOK(p, TabOf[p])'
  <2>1. CallOK(p, TabOf[p])
    BY DEF LiveInv, TabsOK
  <2>2. CASE p = q
    BY <1>1, <1>2, <1>3, <1>5, <2>2 DEF CallOK, EndpointsStay, w
  <2>3. CASE p # q /\ call'[p] # call[p]
    BY <1>4, <2>1, <2>3 DEF CallOK, EndpointsStay
  <2>4. CASE p # q /\ call'[p] = call[p] /\ TabOf[p] # w
    <3>1. refreshing'[TabOf[p]] = refreshing[TabOf[p]] /\ redirecting'[TabOf[p]] = redirecting[TabOf[p]]
      BY <1>6, <2>4, PlacesAssumption
    <3>2. \A r \in CallsOf(TabOf[p]) : call[r] = "idle" => call'[r] = "idle"
      BY <1>4, <2>4 DEF CallsOf, w
    <3> QED  BY <1>1, <2>1, <2>4, <3>1, <3>2 DEF CallOK, EndpointsStay, CallsOf
  <2>5. CASE p # q /\ call'[p] = call[p] /\ TabOf[p] = w
    <3>1. call[q] = "ownRetry" => call[p] \notin {"refreshing", "ownRetry", "logout"}
      <4>1. call[q] = "ownRetry" => call[p] # "logout"
        BY <2>1, <2>5 DEF CallOK, CallsOf, w
      <4> QED  BY <2>5, <4>1 DEF LiveInv, TabsOK, w
    <3>2. call[p] \in {"refreshing", "ownRetry", "logout"} =>
              refreshing'[w] = refreshing[w] /\ redirecting'[w] = redirecting[w]
      BY <1>7, <3>1
    <3>3. call[p] = "logout" => \A r \in CallsOf(w) : r # p => call'[r] = "idle"
      BY <1>3, <1>4, <1>5, <2>1, <2>5 DEF CallOK, CallsOf, w
    <3> QED  BY <1>1, <2>1, <2>5, <3>2, <3>3 DEF CallOK, EndpointsStay, CallsOf
  <2> QED  BY <2>2, <2>3, <2>4, <2>5
<1>9. \A v \in Tabs : redirecting'[v] => page'[v] = "app"
  <2>1. call[q] = "ownRetry" => page[w] = "app"
    BY <1>0 DEF CallOK
  <2> QED  BY <1>0a, <1>1, <1>6, <1>7, <2>1 DEF LiveInv, TabsOK
<1>10. TabsOK'
  BY <1>3, <1>4, <1>8, <1>9 DEF LiveInv, TabsOK
<1>11. NoNewLogin /\ NobodyNewGone
  BY <1>1, <1>3, <1>4 DEF NoNewLogin, NobodyNewGone, EndpointsStay
<1> QED  BY <1>10, <1>11, ClientKeepsLive DEF EndpointsStay

\* The login page is loaded.
LEMMA UnloadKeepsLive ==
    ASSUME LiveInv, OneTabEach, TypesOK', NEW w \in Tabs, Unload(w)
    PROVE  LiveInv'
<1>1. EndpointsStay
  BY DEF Unload, EndpointsStay, tokenVars, tableVars, handlerVars, historyVars, storeVars
<1>2. page[w] = "app" /\ redirecting[w]
  BY DEF Unload, LiveInv, TabsOK
<1>3. \A p \in Requests :
          call'[p] = IF TabOf[p] # w THEN call[p] ELSE IF at[p] = "idle" THEN "idle" ELSE "gone"
  BY DEF Unload
<1>4. /\ page'[w] = "login" /\ refreshing'[w] = FALSE /\ redirecting'[w] = FALSE
      /\ \A v \in Tabs \ {w} : page'[v] = page[v] /\ refreshing'[v] = refreshing[v]
                               /\ redirecting'[v] = redirecting[v]
  BY DEF Unload, LiveInv, TypesOK
<1>5. ASSUME NEW p \in Requests PROVE CallOK(p, TabOf[p])'
  <2>1. CallOK(p, TabOf[p])
    BY DEF LiveInv, TabsOK
  <2>2. CASE TabOf[p] # w
    <3>1. \A r \in CallsOf(TabOf[p]) : call'[r] = call[r]
      BY <1>3, <2>2 DEF CallsOf
    <3>2. page'[TabOf[p]] = page[TabOf[p]] /\ refreshing'[TabOf[p]] = refreshing[TabOf[p]]
          /\ redirecting'[TabOf[p]] = redirecting[TabOf[p]] /\ call'[p] = call[p]
      BY <1>3, <1>4, <2>2, PlacesAssumption
    <3> QED  BY <1>1, <2>1, <2>2, <3>1, <3>2 DEF CallOK, EndpointsStay, CallsOf
  <2>3. CASE TabOf[p] = w /\ at[p] # "idle"
    <3>1. call[p] \in {"refreshing", "gone"}
      BY <1>2, <2>1, <2>3 DEF CallOK, LiveInv, TypesOK, Calls
    <3> QED  BY <1>1, <1>3, <2>1, <2>3, <3>1 DEF CallOK, EndpointsStay
  <2>4. CASE TabOf[p] = w /\ at[p] = "idle"
    BY <1>1, <1>3, <2>4 DEF CallOK, EndpointsStay
  <2> QED  BY <2>2, <2>3, <2>4
<1>6. TabsOK'
  <2>1. \A v \in Tabs : redirecting'[v] => page'[v] = "app"
    BY <1>4 DEF LiveInv, TabsOK
  <2> QED  BY <1>3, <1>5, <2>1 DEF LiveInv, TabsOK
<1>7. NoNewLogin /\ NobodyNewGone
  <2>1. \A p \in Requests : call'[p] = "login" => call[p] = "login"
    BY <1>3
  <2>2. \A p \in Requests : page'[TabOf[p]] = "app" => TabOf[p] # w /\ page[TabOf[p]] = "app"
    BY <1>4, PlacesAssumption
  <2>3. \A p \in Requests : call'[p] = "gone" /\ TabOf[p] # w => call[p] = "gone"
    BY <1>3
  <2> QED  BY <1>1, <2>1, <2>2, <2>3 DEF NoNewLogin, NobodyNewGone, EndpointsStay
<1> QED  BY <1>1, <1>6, <1>7, ClientKeepsLive DEF EndpointsStay

\* A tab is loaded.
LEMMA OpenKeepsLive ==
    ASSUME LiveInv, OneTabEach, TypesOK', NEW w \in Tabs, Open(w)
    PROVE  LiveInv'
<1>1. EndpointsStay /\ call' = call /\ refreshing' = refreshing /\ redirecting' = redirecting
  BY DEF Open, EndpointsStay, tokenVars, tableVars, handlerVars, historyVars, storeVars, clientVars
<1>2. page'[w] = "app" /\ \A v \in Tabs \ {w} : page'[v] = page[v]
  BY DEF Open, LiveInv, TypesOK
<1>3. \A p \in Requests : TabOf[p] = w => call[p] = "idle"
  BY DEF Open, AllIdle, CallsOf
<1>4. \A p \in Requests : call[p] # "idle" => page'[TabOf[p]] = page[TabOf[p]]
  BY <1>2, <1>3, PlacesAssumption
<1>5. ASSUME NEW p \in Requests PROVE CallOK(p, TabOf[p])'
  <2>1. CallOK(p, TabOf[p])
    BY DEF LiveInv, TabsOK
  <2> QED  BY <1>1, <1>4, <2>1 DEF CallOK, EndpointsStay
<1>6. TabsOK'
  BY <1>1, <1>2, <1>5 DEF LiveInv, TabsOK
<1>7. NoNewLogin /\ NobodyNewGone
  BY <1>1, <1>4 DEF NoNewLogin, NobodyNewGone, EndpointsStay
<1> QED  BY <1>1, <1>6, <1>7, ClientKeepsLive DEF EndpointsStay

\* Tokens expire, or nothing happens.
LEMMA WaitingKeepsLive ==
    ASSUME LiveInv, OneTabEach, TypesOK', EndpointsStay, call' = call, UNCHANGED tabVars
    PROVE  LiveInv'
<1>1. ASSUME NEW p \in Requests PROVE CallOK(p, TabOf[p])'
  <2>1. CallOK(p, TabOf[p])
    BY DEF LiveInv, TabsOK
  <2> QED  BY <2>1 DEF CallOK, EndpointsStay, tabVars
<1>2. TabsOK'
  BY <1>1 DEF LiveInv, TabsOK, tabVars
<1>3. NoNewLogin /\ NobodyNewGone
  BY DEF NoNewLogin, NobodyNewGone, EndpointsStay, tabVars
<1> QED  BY <1>2, <1>3, ClientKeepsLive DEF EndpointsStay

-----------------------------------------------------------------------------
(* Requests start at the session endpoints.                                *)

\* What a request comes with.
Begins(q, s, c) ==
    /\ at[q] = "idle" /\ at'[q] = s /\ cookie'[q] = c /\ answer'[q] # "tokens"
    /\ \A p \in Requests \ {q} : at'[p] = at[p] /\ cookie'[p] = cookie[p] /\ answer'[p] = answer[p]
    /\ \/ s \in {"read", "logout"} /\ c # None /\ c = jar[Browser(q)] /\ page[TabOf[q]] = "app"
       \/ s \in {"login", "answered"} /\ c = None
    /\ s \in {"read", "login"} => Room

\* While a tab starts a refresh, only requests of earlier pages exchange.
AloneInTab(q) ==
    \A p \in Requests : at[p] \in Exchanging /\ TabOf[p] = TabOf[q] => call[p] = "gone"

\* A request that starts.
LEMMA BeginKeepsLive ==
    ASSUME LiveInv, OneTabEach, TypesOK', TabsOK', NEW q \in Requests, NEW s, NEW c, Begins(q, s, c),
           s = "read" => AloneInTab(q),
           owner' = owner, session' = session, revoked' = revoked, made' = made, jar' = jar, page' = page,
           \A p \in Requests \ {q} : call'[p] = call[p],
           call'[q] # "gone"
    PROVE  LiveInv'
<1>0. CarriesOK(q)
  BY DEF LiveInv
<1>1. made[q] = None /\ cookie[q] = None
  BY <1>0 DEF CarriesOK, Begins
<1>2. SameTable /\ CookiesKnown /\ NobodyExchanges /\ NoNewLogin /\ NobodyNewGone
  BY <1>1 DEF SameTable, Rows, Begins, CookiesKnown, NobodyExchanges, NoNewLogin, NobodyNewGone
<1>3. NothingNew
  <2>1. ASSUME NEW b \in Browsers, NEW t, WillHold(b, t) PROVE Holds(b, t)
    BY <2>1 DEF WillHold, Holds, Holding, Begins
  <2> QED  BY <2>1 DEF NothingNew
<1>4. RowsOK'
  <2>1. CASE s \in {"read", "login"}
    <3>1. Pending' \subseteq {p \in Requests : at[p] # "idle"} \cup {q}
      BY DEF Begins, Pending, Exchanging
    <3> QED  BY <1>2, <2>1, <3>1, RowsFitMore DEF Begins, SameTable, LiveInv
  <2>2. CASE s \in {"logout", "answered"}
    <3>1. Pending' \subseteq Pending
      BY <2>2 DEF Begins, Pending, Exchanging
    <3> QED  BY <1>2, <3>1, RowsStay DEF SameTable, LiveInv, RowsOK
  <2> QED  BY <2>1, <2>2 DEF Begins
<1>5. ASSUME NEW p \in Requests PROVE CarriesOK(p)'
  <2>1. CarriesOK(p)
    BY DEF LiveInv
  <2>2. CASE p # q
    BY <1>2, <2>1, <2>2 DEF CarriesOK, SameTable, Begins
  <2>3. CASE p = q
    <3>1. cookie'[q] # None => cookie'[q] \in Rows
      BY PlacesAssumption DEF Begins, LiveInv, HoldsOK, Browser
    <3> QED  BY <1>1, <1>2, <2>3, <3>1 DEF CarriesOK, SameTable, Begins, RefreshStatements
  <2> QED  BY <2>2, <2>3
<1>6. ExchangesOK'
  <2>1. CASE s # "read"
    <3>1. NoNewExchange
      BY <2>1 DEF NoNewExchange, Begins, Exchanging
    <3> QED  BY <1>2, <3>1, ExchangesStay
  <2>2. CASE s = "read"
    <3>1. cookie'[q] = jar[Browser(q)] /\ jar[Browser(q)] # None /\ page[TabOf[q]] = "app"
      BY <2>2 DEF Begins
    <3>2. ASSUME NEW p \in Requests, p # q, at[p] \in Exchanging
          PROVE  session[cookie[p]] # session[cookie'[q]]
      <4> SUFFICES ASSUME session[cookie[p]] = session[cookie'[q]] PROVE FALSE
        OBVIOUS
      <4>1. cookie[p] # None
        BY <3>2 DEF LiveInv, CarriesOK, Exchanging, RefreshStatements
      <4>2. Holds(Browser(p), cookie[p]) /\ Holds(Browser(q), jar[Browser(q)])
        BY <3>1, <4>1 DEF Holds, Holding
      <4>3. Browser(p) \in Browsers /\ Browser(q) \in Browsers
        BY PlacesAssumption DEF Browser
      <4>4. Browser(p) = Browser(q)
        BY <3>1, <4>2, <4>3, HeldApart
      <4>5. TabOf[p] = TabOf[q]
        BY <4>4, PlacesAssumption DEF OneTabEach, Browser
      <4>6. call[p] = "gone"
        BY <2>2, <3>2, <4>5 DEF AloneInTab
      <4> QED  BY <3>1, <3>2, <4>4, <4>5, <4>6 DEF LiveInv, ExchangesOK
    <3>3. ASSUME NEW p \in Requests, NEW r \in Requests, at'[p] \in Exchanging, at'[r] \in Exchanging, p # r
          PROVE  session'[cookie'[p]] # session'[cookie'[r]]
      <4>1. CASE p # q /\ r # q
        BY <3>3, <4>1 DEF LiveInv, ExchangesOK, Begins
      <4>2. CASE p = q
        BY <3>2, <3>3, <4>2 DEF Begins
      <4>3. CASE r = q
        BY <3>2, <3>3, <4>3 DEF Begins
      <4> QED  BY <4>1, <4>2, <4>3
    <3>4. ASSUME NEW p \in Requests, call'[p] = "gone", at'[p] \in Exchanging,
                 page'[TabOf[p]] = "app", jar'[Browser(p)] # None
          PROVE  session'[cookie'[p]] # session'[jar'[Browser(p)]]
      BY <3>4 DEF LiveInv, ExchangesOK, Begins
    <3> QED  BY <3>3, <3>4 DEF ExchangesOK, Browser
  <2> QED  BY <2>1, <2>2
<1> QED
  BY <1>2, <1>3, <1>4, <1>5, <1>6, HoldsStays, NewLoginsStay, LiveStays DEF LiveInv

\* A refresh, a login or a logout is started.
LEMMA StartKeepsLive ==
    ASSUME LiveInv, OneTabEach, TypesOK', NEW q \in Requests,
           (Unauthorized(q) /\ ~refreshing[TabOf[q]]) \/ LogIn(q) \/ LogOut(q)
    PROVE  LiveInv'
<1> DEFINE w == TabOf[q]
<1>0. w \in Tabs /\ CallOK(q, w) /\ Browser(q) = BrowserOf[w] /\ CarriesOK(q)
  BY PlacesAssumption DEF LiveInv, TabsOK, Browser
<1>0a. /\ call \in [Requests -> Calls] /\ refreshing \in [Tabs -> BOOLEAN] /\ at \in [Requests -> Statements \cup {"idle", "answered"}]
       /\ cookie \in [Requests -> Nat] /\ answer \in [Requests -> Answers]
  BY DEF LiveInv, TypesOK
<1>1. /\ owner' = owner /\ session' = session /\ revoked' = revoked /\ made' = made /\ jar' = jar
      /\ page' = page /\ redirecting' = redirecting
  BY DEF Unauthorized, LogIn, LogOut, RefreshStart, LoginStart, LogoutStart, tableVars, historyVars,
         storeVars, tabVars
<1>2. \A p \in Requests \ {q} : call'[p] = call[p]
  BY <1>0a DEF Unauthorized, LogIn, LogOut, SetCall
<1>3. \A v \in Tabs \ {w} : refreshing'[v] = refreshing[v]
  BY <1>0a DEF Unauthorized, LogIn, LogOut, tabVars
<1>4. CASE Unauthorized(q) /\ ~refreshing[w]
  <2>1. call[q] = "sent" /\ call'[q] = "refreshing" /\ refreshing'[w] = TRUE /\ RefreshStart(q, jar[Browser(q)])
    BY <1>0, <1>0a, <1>4 DEF Unauthorized, SetCall
  <2>2. page[w] = "app"
    BY <1>0, <2>1 DEF CallOK
  <2>3. Begins(q, IF jar[Browser(q)] = None THEN "answered" ELSE "read", jar[Browser(q)])
    BY <1>0a, <2>1, <2>2 DEF Begins, RefreshStart
  <2>4. AloneInTab(q)
    <3> SUFFICES ASSUME NEW p \in Requests, at[p] \in Exchanging, TabOf[p] = w PROVE call[p] = "gone"
      BY DEF AloneInTab
    <3>1. CallOK(p, w) /\ call[p] \in Calls
      BY <1>0a DEF LiveInv, TabsOK
    <3> QED  BY <1>4, <2>2, <3>1 DEF CallOK, Exchanging, Calls
  <2>5. TabsOK'
    <3> HIDE DEF w
    <3>1. ASSUME NEW p \in Requests, TabOf[p] = w
          PROVE  call[p] \notin {"refreshing", "ownRetry", "login", "logout"}
      <4>1. CallOK(p, w)
        BY <3>1 DEF LiveInv, TabsOK
      <4>2. call[p] # "logout"
        BY <2>1, <3>1, <4>1 DEF CallOK, CallsOf, w
      <4> QED  BY <1>4, <2>2, <4>1, <4>2 DEF CallOK, w
    <3>2. ASSUME NEW p \in Requests PROVE CallOK(p, TabOf[p])'
      <4>1. CallOK(p, TabOf[p])
        BY DEF LiveInv, TabsOK
      <4>2. CASE p = q
        <5>1. made[q] = None
          BY <1>0, <2>3 DEF CarriesOK, Begins
        <5>2. TabOf[p] = w
          BY <4>2 DEF w
        <5> QED
          BY <1>0, <1>1, <2>1, <2>2, <2>3, <4>2, <5>1, <5>2 DEF CallOK, Begins, RefreshStatements
      <4>3. CASE p # q /\ TabOf[p] = w
        <5>1. refreshing'[w] = TRUE
          BY <2>1
        <5> QED  BY <1>1, <1>2, <2>3, <3>1, <4>1, <4>3, <5>1 DEF CallOK, Begins
      <4>4. CASE p # q /\ TabOf[p] # w
        <5>1. \A r \in CallsOf(TabOf[p]) : call'[r] = call[r]
          BY <1>2, <4>4 DEF CallsOf, w
        <5>2. refreshing'[TabOf[p]] = refreshing[TabOf[p]]
          BY <1>3, <4>4, PlacesAssumption
        <5> QED  BY <1>1, <1>2, <2>3, <4>1, <4>4, <5>1, <5>2 DEF CallOK, Begins, CallsOf
      <4> QED  BY <4>2, <4>3, <4>4
    <3>3. ASSUME NEW p \in Requests, NEW r \in Requests, TabOf[p] = TabOf[r], p # r
          PROVE  /\ ~(call'[p] \in {"refreshing", "ownRetry"} /\ call'[r] \in {"refreshing", "ownRetry"})
                 /\ ~(call'[p] = "login" /\ call'[r] = "login")
      <4>1. CASE p # q /\ r # q
        BY <1>2, <3>3, <4>1 DEF LiveInv, TabsOK
      <4>2. CASE p = q \/ r = q
        BY <1>2, <2>1, <3>1, <3>3, <4>2 DEF w
      <4> QED  BY <4>1, <4>2
    <3> QED  BY <1>1, <3>2, <3>3 DEF LiveInv, TabsOK
  <2> QED  BY <1>1, <1>2, <2>1, <2>3, <2>4, <2>5, BeginKeepsLive
<1>5. CASE LogIn(q)
  <2>1. /\ page[w] = "login" /\ call[q] = "idle" /\ LoginStart(q) /\ call'[q] = "login"
        /\ \A p \in CallsOf(w) : call[p] # "login"
        /\ refreshing' = refreshing
    BY <1>0a, <1>5 DEF LogIn, SetCall, tabVars
  <2>2. cookie[q] = None /\ made[q] = None /\ answer[q] # "tokens"
    BY <1>0, <2>1 DEF CarriesOK, LoginStart
  <2>3. Begins(q, "login", None)
    BY <1>0a, <2>1, <2>2 DEF Begins, LoginStart
  <2>4. TabsOK'
    <3> HIDE DEF w
    <3>1. ASSUME NEW p \in Requests PROVE CallOK(p, TabOf[p])'
      <4>1. CallOK(p, TabOf[p])
        BY DEF LiveInv, TabsOK
      <4>2. CASE p = q
        BY <1>1, <2>1, <2>2, <2>3, <4>2 DEF CallOK, Begins, w
      <4>3. CASE p # q /\ call[p] # "logout"
        BY <1>1, <1>2, <2>1, <2>3, <4>1, <4>3 DEF CallOK, Begins
      <4>4. CASE p # q /\ call[p] = "logout"
        <5>1. page[TabOf[p]] = "app"
          BY <4>1, <4>4 DEF CallOK
        <5>2. \A r \in CallsOf(TabOf[p]) : call'[r] = call[r]
          BY <1>2, <2>1, <5>1 DEF CallsOf, w
        <5> QED  BY <1>1, <1>2, <2>1, <2>3, <4>1, <4>4, <5>2 DEF CallOK, Begins, CallsOf
      <4> QED  BY <4>2, <4>3, <4>4
    <3>2. ASSUME NEW p \in Requests, NEW r \in Requests, TabOf[p] = TabOf[r], p # r
          PROVE  /\ ~(call'[p] \in {"refreshing", "ownRetry"} /\ call'[r] \in {"refreshing", "ownRetry"})
                 /\ ~(call'[p] = "login" /\ call'[r] = "login")
      <4>1. CASE p # q /\ r # q
        BY <1>2, <3>2, <4>1 DEF LiveInv, TabsOK
      <4>2. CASE p = q \/ r = q
        BY <1>2, <2>1, <3>2, <4>2 DEF w, CallsOf
      <4> QED  BY <4>1, <4>2
    <3> QED  BY <1>1, <3>1, <3>2 DEF LiveInv, TabsOK
  <2> QED  BY <1>1, <1>2, <2>1, <2>3, <2>4, BeginKeepsLive
<1>6. CASE LogOut(q)
  <2>1. /\ page[w] = "app" /\ call[q] = "idle" /\ call'[q] = "logout" /\ refreshing' = refreshing
        /\ \A p \in CallsOf(w) : call[p] = "idle"
        /\ ~redirecting[w]
        /\ LogoutStart(q, jar[Browser(q)])
    BY <1>0a, <1>6 DEF LogOut, SetCall, tabVars, OneTabEach, AllIdle
  <2>2. made[q] = None /\ answer[q] # "tokens"
    BY <1>0, <2>1 DEF CarriesOK, LogoutStart
  <2>3. Begins(q, IF jar[Browser(q)] = None THEN "answered" ELSE "logout", jar[Browser(q)])
    BY <1>0a, <2>1 DEF Begins, LogoutStart
  <2>4. TabsOK'
    <3> HIDE DEF w
    <3>1. ASSUME NEW p \in Requests PROVE CallOK(p, TabOf[p])'
      <4>1. CallOK(p, TabOf[p])
        BY DEF LiveInv, TabsOK
      <4>2. CASE p = q
        <5>1. \A r \in CallsOf(TabOf[q]) : r # q => call'[r] = "idle"
          BY <1>2, <2>1 DEF CallsOf, w
        <5> QED  BY <1>0, <1>1, <2>1, <2>2, <2>3, <4>2, <5>1 DEF CallOK, Begins, w, CallsOf
      <4>3. CASE p # q /\ TabOf[p] = w
        BY <1>1, <1>2, <2>1, <2>3, <4>1, <4>3 DEF CallOK, Begins, CallsOf
      <4>4. CASE p # q /\ TabOf[p] # w
        <5>1. \A r \in CallsOf(TabOf[p]) : call'[r] = call[r]
          BY <1>2, <4>4 DEF CallsOf, w
        <5> QED  BY <1>1, <1>2, <2>1, <2>3, <4>1, <4>4, <5>1 DEF CallOK, Begins, CallsOf
      <4> QED  BY <4>2, <4>3, <4>4
    <3>2. ASSUME NEW p \in Requests, NEW r \in Requests, TabOf[p] = TabOf[r], p # r
          PROVE  /\ ~(call'[p] \in {"refreshing", "ownRetry"} /\ call'[r] \in {"refreshing", "ownRetry"})
                 /\ ~(call'[p] = "login" /\ call'[r] = "login")
      <4>1. CASE p # q /\ r # q
        BY <1>2, <3>2, <4>1 DEF LiveInv, TabsOK
      <4>2. CASE p = q \/ r = q
        BY <1>2, <2>1, <3>2, <4>2 DEF w, CallsOf
      <4> QED  BY <4>1, <4>2
    <3> QED  BY <1>1, <3>1, <3>2 DEF LiveInv, TabsOK
  <2> QED  BY <1>1, <1>2, <2>1, <2>3, <2>4, BeginKeepsLive
<1> QED  BY <1>4, <1>5, <1>6

-----------------------------------------------------------------------------
(* Answers arrive.                                                         *)

\* What an answer leaves behind.
Ended(q) ==
    /\ at[q] = "answered" /\ at'[q] = "idle" /\ cookie'[q] = None /\ made'[q] = None /\ answer'[q] = "none"
    /\ \A p \in Requests \ {q} : at'[p] = at[p] /\ cookie'[p] = cookie[p]
                                 /\ made'[p] = made[p] /\ answer'[p] = answer[p]
    /\ owner' = owner /\ session' = session /\ revoked' = revoked
JarFrom(q) ==
    \A b \in Browsers : jar'[b] \in {None, jar[b]} \/ (b = Browser(q) /\ jar'[b] = made[q])

\* An answer is taken.
LEMMA AnsweredEnds ==
    ASSUME LiveInv, NEW q \in Requests, Answered(q)
    PROVE  Ended(q)
  BY DEF Answered, Ended, LiveInv, TypesOK, tableVars, historyVars

\* An answer, whatever the client makes of it.
LEMMA EndKeepsLive ==
    ASSUME LiveInv, OneTabEach, TypesOK', TabsOK', NEW q \in Requests, Ended(q), JarFrom(q),
           NobodyNewGone \/ ExchangesOK', \A p \in Requests : call'[p] = "login" => call[p] = "login"
    PROVE  LiveInv'
<1>1. SameTable /\ CookiesKnown /\ NobodyExchanges /\ NoNewLogin /\ NoNewExchange
  <2>1. SameTable /\ CookiesKnown /\ NobodyExchanges /\ NoNewExchange
    BY DEF SameTable, Rows, Ended, CookiesKnown, NobodyExchanges, NoNewExchange, Exchanging
  <2> QED  BY <2>1 DEF NoNewLogin, Ended
<1>2. NothingNew
  <2>1. ASSUME NEW b \in Browsers, NEW t, WillHold(b, t) PROVE Holds(b, t)
    BY <2>1 DEF WillHold, Holds, Holding, Ended, JarFrom
  <2> QED  BY <2>1 DEF NothingNew
<1>3. RowsOK'
  <2>1. Pending' \subseteq Pending
    BY DEF Ended, Pending, Exchanging
  <2> QED  BY <1>1, <2>1, RowsStay DEF Ended, SameTable, LiveInv, RowsOK
<1>4. ASSUME NEW p \in Requests PROVE CarriesOK(p)'
  <2>1. CarriesOK(p)
    BY DEF LiveInv
  <2>2. CASE p # q
    BY <1>1, <2>1, <2>2 DEF CarriesOK, SameTable, Ended
  <2>3. CASE p = q
    BY <2>3 DEF CarriesOK, Ended, RefreshStatements
  <2> QED  BY <2>2, <2>3
<1> QED
  BY <1>1, <1>2, <1>3, <1>4, HoldsStays, ExchangesStay, NewLoginsStay, LiveStays DEF LiveInv

\* The tabs after an answer: request q is settled or about to retry, the queue
\* of its tab with it, and the other tabs go on.
LEMMA TabsAfterAnswer ==
    ASSUME LiveInv, OneTabEach, TypesOK', NEW q \in Requests, Ended(q), JarFrom(q),
           NEW w, w = TabOf[q],
           call'[q] \in {"idle", "ownRetry"}, call'[q] = "ownRetry" => call[q] = "refreshing" /\ refreshing'[w],
           \A p \in Requests \ {q} :
               call'[p] = call[p]
               \/ (TabOf[p] = w /\ call[p] = "queued" /\ call'[p] \in {"retry", "idle"}),
           \A b \in Browsers \ {BrowserOf[w]} : jar'[b] = jar[b],
           call[q] = "gone" => jar' = jar,
           \A v \in Tabs \ {w} : refreshing'[v] = refreshing[v] /\ redirecting'[v] = redirecting[v]
                                 /\ page'[v] = page[v],
           \/ page'[w] = page[w] /\ refreshing'[w] = refreshing[w] /\ redirecting'[w] = redirecting[w]
              /\ call[q] \in {"refreshing", "gone", "login"} /\ (call[q] = "login" => jar' = jar)
           \/ call[q] = "refreshing" /\ page'[w] = page[w]
           \/ call[q] = "login" /\ page'[w] = "app" /\ refreshing'[w] = refreshing[w] /\ redirecting'[w] = redirecting[w]
           \/ call[q] = "logout" /\ page'[w] = "login" /\ redirecting'[w] = redirecting[w]
    PROVE  TabsOK'
<1>0. w \in Tabs /\ CallOK(q, w) /\ CarriesOK(q)
  BY PlacesAssumption DEF LiveInv, TabsOK
<1>1. ASSUME NEW p \in Requests, p # q PROVE CallOK(p, TabOf[p])'
  <2>1. CallOK(p, TabOf[p]) /\ call[p] \in Calls
    BY DEF LiveInv, TabsOK, TypesOK
  <2>2. at'[p] = at[p] /\ cookie'[p] = cookie[p] /\ made'[p] = made[p]
    BY <1>1 DEF Ended
  <2>3. CASE TabOf[p] # w
    <3>1. TabOf[p] \in Tabs /\ BrowserOf[TabOf[p]] \in Browsers \ {BrowserOf[w]}
      BY <1>0, <2>3, PlacesAssumption DEF OneTabEach
    <3>2. \A r \in CallsOf(TabOf[p]) : call'[r] = call[r]
      BY <2>3 DEF CallsOf
    <3>3. jar'[BrowserOf[TabOf[p]]] = jar[BrowserOf[TabOf[p]]] /\ call'[p] = call[p]
          /\ refreshing'[TabOf[p]] = refreshing[TabOf[p]]
          /\ redirecting'[TabOf[p]] = redirecting[TabOf[p]] /\ page'[TabOf[p]] = page[TabOf[p]]
      BY <1>1, <2>3, <3>1
    <3> QED  BY <2>1, <2>2, <3>2, <3>3 DEF CallOK, CallsOf
  <2>4. CASE TabOf[p] = w /\ call[q] = "logout"
    <3>1. call[p] = "idle"
      BY <1>0, <1>1, <2>4 DEF CallOK, CallsOf
    <3> QED  BY <1>1, <2>1, <2>2, <3>1 DEF CallOK
  <2>5. CASE TabOf[p] = w /\ call[q] # "logout"
    <3>1. call[p] # "logout" \/ call[q] = "idle"
      BY <1>1, <2>1, <2>5 DEF CallOK, CallsOf
    <3>2. call[q] # "idle"
      BY <1>0 DEF CallOK, Ended
    <3>3. call'[p] # "logout"
      BY <1>1, <3>1, <3>2
    <3>4. CASE call[q] = "refreshing"
      <4>1. page[w] = "app" /\ page'[w] = "app"
        BY <1>0, <3>4 DEF CallOK
      <4>2. call[p] \notin {"refreshing", "ownRetry", "login"}
        BY <1>1, <2>1, <2>5, <3>4, <4>1 DEF LiveInv, TabsOK, CallOK
      <4>3. call'[p] \notin {"refreshing", "ownRetry", "login"}
        BY <1>1, <4>2
      <4> QED  BY <1>1, <2>1, <2>2, <2>5, <3>3, <4>1, <4>3 DEF CallOK
    <3>5. CASE call[q] = "login"
      <4>1. page[w] = "login"
        BY <1>0, <3>5 DEF CallOK
      <4>2. call[p] # "login"
        BY <1>1, <2>5, <3>5 DEF LiveInv, TabsOK
      <4>3. call[p] \in {"idle", "gone"}
        BY <2>1, <2>5, <3>1, <3>2, <4>1, <4>2 DEF CallOK, Calls
      <4>4. call'[p] = call[p]
        BY <1>1, <4>3
      <4> QED  BY <2>1, <2>2, <4>3, <4>4 DEF CallOK
    <3>6. CASE call[q] = "gone"
      <4>1. page'[w] = page[w] /\ refreshing'[w] = refreshing[w] /\ redirecting'[w] = redirecting[w]
            /\ jar' = jar
        BY <3>6
      <4> QED  BY <1>1, <2>1, <2>2, <2>5, <3>3, <4>1 DEF CallOK
    <3> QED  BY <2>5, <3>4, <3>5, <3>6
  <2> QED  BY <2>3, <2>4, <2>5
<1>2. CallOK(q, w)'
  <2>1. CASE call'[q] = "idle"
    BY <2>1 DEF CallOK, Ended
  <2>2. CASE call'[q] = "ownRetry"
    <3>1. page[w] = "app" /\ page'[w] = "app" /\ refreshing'[w]
      BY <1>0, <2>2 DEF CallOK
    <3> QED  BY <2>2, <3>1 DEF CallOK, Ended
  <2> QED  BY <2>1, <2>2
<1>3. ASSUME NEW p \in Requests PROVE CallOK(p, TabOf[p])'
  BY <1>1, <1>2
<1>4. ASSUME NEW p \in Requests, NEW r \in Requests, TabOf[p] = TabOf[r], p # r
      PROVE  /\ ~(call'[p] \in {"refreshing", "ownRetry"} /\ call'[r] \in {"refreshing", "ownRetry"})
             /\ ~(call'[p] = "login" /\ call'[r] = "login")
  <2>1. /\ ~(call[p] \in {"refreshing", "ownRetry"} /\ call[r] \in {"refreshing", "ownRetry"})
        /\ ~(call[p] = "login" /\ call[r] = "login")
    BY <1>4 DEF LiveInv, TabsOK
  <2>2. \A y \in Requests : call'[y] \in {"refreshing", "ownRetry"} => call[y] \in {"refreshing", "ownRetry"}
    OBVIOUS
  <2>3. \A y \in Requests : call'[y] = "login" => call[y] = "login"
    OBVIOUS
  <2> QED  BY <1>4, <2>1, <2>2, <2>3
<1>5. ASSUME NEW v \in Tabs, redirecting'[v] PROVE page'[v] = "app"
  <2>1. CASE v # w
    BY <1>5, <2>1 DEF LiveInv, TabsOK
  <2>2. CASE v = w /\ call[q] \in {"refreshing", "login", "gone"}
    BY <1>0, <1>5, <2>2 DEF LiveInv, TabsOK, CallOK
  <2>3. CASE v = w /\ call[q] = "logout"
    BY <1>0, <1>5, <2>3 DEF CallOK
  <2> QED  BY <2>1, <2>2, <2>3
<1> QED  BY <1>3, <1>4, <1>5 DEF TabsOK

\* The answer to a refresh.
LEMMA RefreshEndKeepsLive ==
    ASSUME LiveInv, OneTabEach, TypesOK', NEW q \in Requests, RefreshSucceeds(q) \/ RefreshFails(q)
    PROVE  LiveInv'
<1> DEFINE w == TabOf[q]
<1>0. w \in Tabs /\ CallOK(q, w) /\ Browser(q) = BrowserOf[w] /\ CarriesOK(q) /\ BrowserOf[w] \in Browsers
  BY PlacesAssumption DEF LiveInv, TabsOK, Browser
<1>0a. /\ call \in [Requests -> Calls] /\ refreshing \in [Tabs -> BOOLEAN]
       /\ redirecting \in [Tabs -> BOOLEAN] /\ jar \in [Browsers -> Nat]
  BY DEF LiveInv, TypesOK
<1>1. Ended(q) /\ call[q] = "refreshing" /\ page' = page
  <2>1. Answered(q) /\ call[q] = "refreshing" /\ page' = page
    BY DEF RefreshSucceeds, RefreshFails, Deliver, Catch, tabVars
  <2> QED  BY <2>1, AnsweredEnds
<1>2. \/ RefreshSucceeds(q) /\ answer[q] = "tokens" /\ jar' = [jar EXCEPT ![BrowserOf[w]] = made[q]]
      \/ jar' = [jar EXCEPT ![BrowserOf[w]] = None]
      \/ jar' = jar
  BY <1>0, <1>0a DEF RefreshSucceeds, RefreshFails, Deliver, Browser
<1>3. JarFrom(q) /\ \A b \in Browsers \ {BrowserOf[w]} : jar'[b] = jar[b]
  BY <1>0, <1>0a, <1>2 DEF JarFrom
<1>4. call'[q] \in {"idle", "ownRetry"}
      /\ \A p \in Requests \ {q} :
             call'[p] = call[p] \/ (TabOf[p] = w /\ call[p] = "queued" /\ call'[p] \in {"retry", "idle"})
  <2>1. CASE RefreshSucceeds(q)
    BY <2>1 DEF RefreshSucceeds, Deliver, Queue, CallsOf
  <2>2. CASE RefreshFails(q)
    BY <2>2 DEF RefreshFails, Catch, Settle, Queue, CallsOf
  <2> QED  BY <2>1, <2>2
<1>5. call'[q] = "ownRetry" => refreshing'[w]
  <2>1. CASE RefreshSucceeds(q)
    BY <1>0, <1>1, <2>1 DEF RefreshSucceeds, Deliver, CallOK, tabVars
  <2>2. CASE RefreshFails(q)
    BY <2>2 DEF RefreshFails, Catch, Settle
  <2> QED  BY <2>1, <2>2
<1>6. \A v \in Tabs \ {w} : refreshing'[v] = refreshing[v] /\ redirecting'[v] = redirecting[v]
                            /\ page'[v] = page[v]
  BY <1>0a, <1>1 DEF RefreshSucceeds, Deliver, RefreshFails, Catch, tabVars
<1> HIDE DEF w
<1>7. TabsOK'
  <2>1. w = TabOf[q]
    BY DEF w
  <2> QED  BY <1>1, <1>3, <1>4, <1>5, <1>6, <2>1, TabsAfterAnswer
<1>8. NobodyNewGone
  <2> SUFFICES ASSUME NEW p \in Requests, call'[p] = "gone", at'[p] \in Exchanging,
                      page'[TabOf[p]] = "app", jar'[Browser(p)] # None
               PROVE  /\ call[p] = "gone" /\ page[TabOf[p]] = "app" /\ jar[Browser(p)] # None
                      /\ session[jar'[Browser(p)]] = session[jar[Browser(p)]]
    BY DEF NobodyNewGone
  <2>1. call[p] = "gone" /\ Browser(p) \in Browsers
    BY <1>4, PlacesAssumption DEF Browser
  <2>2. CASE jar'[Browser(p)] = jar[Browser(p)]
    BY <1>1, <2>1, <2>2
  <2>3. CASE jar'[Browser(p)] # jar[Browser(p)]
    <3>1. Browser(p) = BrowserOf[w] /\ answer[q] = "tokens" /\ jar'[Browser(p)] = made[q]
      BY <1>0a, <1>2, <2>1, <2>3
    <3>2. cookie[q] = jar[BrowserOf[w]] /\ made[q] # None /\ cookie[q] # None
      BY <1>0, <1>1, <3>1 DEF CallOK, CarriesOK
    <3> QED  BY <1>0, <1>1, <2>1, <3>1, <3>2 DEF CarriesOK
  <2> QED  BY <2>2, <2>3
<1> QED  BY <1>1, <1>3, <1>4, <1>7, <1>8, EndKeepsLive

\* The answer to a request whose page is gone.
LEMMA DroppedKeepsLive ==
    ASSUME LiveInv, OneTabEach, TypesOK', NEW q \in Requests, Dropped(q)
    PROVE  LiveInv'
<1>1. Ended(q) /\ call[q] = "gone" /\ call' = [call EXCEPT ![q] = "idle"]
      /\ UNCHANGED <<jar, refreshing, redirecting, page>>
  BY AnsweredEnds DEF Dropped, SetCall, storeVars, tabVars
<1>2. JarFrom(q)
  BY <1>1 DEF JarFrom
<1>3. call'[q] = "idle" /\ \A p \in Requests \ {q} : call'[p] = call[p]
  BY <1>1 DEF LiveInv, TypesOK
<1>4. TabsOK'
  <2> DEFINE w == TabOf[q]
  <2>1. \A v \in Tabs \ {w} : refreshing'[v] = refreshing[v] /\ redirecting'[v] = redirecting[v]
                              /\ page'[v] = page[v]
    BY <1>1
  <2>2. page'[w] = page[w] /\ refreshing'[w] = refreshing[w] /\ redirecting'[w] = redirecting[w]
    BY <1>1
  <2>3. \A b \in Browsers \ {BrowserOf[w]} : jar'[b] = jar[b]
    BY <1>1
  <2>4. w = TabOf[q]
    OBVIOUS
  <2> HIDE DEF w
  <2> QED  BY <1>1, <1>2, <1>3, <2>1, <2>2, <2>3, <2>4, TabsAfterAnswer
<1>5. NobodyNewGone
  BY <1>1, <1>3 DEF NobodyNewGone
<1> QED  BY <1>1, <1>2, <1>3, <1>4, <1>5, EndKeepsLive

\* The answer to a login.
LEMMA LogInEndKeepsLive ==
    ASSUME LiveInv, OneTabEach, TypesOK', NEW q \in Requests, LogInArrives(q)
    PROVE  LiveInv'
<1> DEFINE w == TabOf[q]
<1>0. w \in Tabs /\ CallOK(q, w) /\ Browser(q) = BrowserOf[w] /\ CarriesOK(q) /\ BrowserOf[w] \in Browsers
  BY PlacesAssumption DEF LiveInv, TabsOK, Browser
<1>1. Ended(q) /\ call[q] = "login" /\ call' = [call EXCEPT ![q] = "idle"]
      /\ UNCHANGED <<refreshing, redirecting>>
  BY AnsweredEnds DEF LogInArrives, SetCall
<1>2. \/ answer[q] = "tokens" /\ jar' = [jar EXCEPT ![BrowserOf[w]] = made[q]]
         /\ page' = [page EXCEPT ![w] = "app"]
      \/ jar' = jar /\ page' = page
  BY <1>0 DEF LogInArrives, storeVars
<1>3. call'[q] = "idle" /\ \A p \in Requests \ {q} : call'[p] = call[p]
  BY <1>1 DEF LiveInv, TypesOK
<1>4. /\ JarFrom(q) /\ \A b \in Browsers \ {BrowserOf[w]} : jar'[b] = jar[b]
      /\ \A v \in Tabs \ {w} : page'[v] = page[v]
  BY <1>0, <1>2 DEF JarFrom, LiveInv, TypesOK
<1>5. \/ page'[w] = page[w] /\ jar' = jar
      \/ page'[w] = "app"
  BY <1>0, <1>2 DEF LiveInv, TypesOK
<1> HIDE DEF w
<1>6. TabsOK'
  <2>1. w = TabOf[q]
    BY DEF w
  <2> QED  BY <1>1, <1>3, <1>4, <1>5, <2>1, TabsAfterAnswer
<1>7. ExchangesOK'
  <2>1. \A p \in Requests : at'[p] \in Exchanging =>
            p # q /\ at[p] \in Exchanging /\ cookie'[p] = cookie[p] /\ cookie[p] \in Rows
            /\ TabOf[p] \in Tabs /\ call'[p] = call[p]
    BY <1>1, <1>3, PlacesAssumption DEF Ended, Exchanging, LiveInv, CarriesOK, RefreshStatements
  <2>2. session' = session
    BY <1>1 DEF Ended
  <2>3. ASSUME NEW p \in Requests, call'[p] = "gone", at'[p] \in Exchanging,
               page'[TabOf[p]] = "app", jar'[Browser(p)] # None
        PROVE  session'[cookie'[p]] # session'[jar'[Browser(p)]]
    <3>1. CASE TabOf[p] # w
      <4>1. Browser(p) \in Browsers \ {BrowserOf[w]}
        BY <1>0, <2>1, <2>3, <3>1, PlacesAssumption DEF OneTabEach, Browser
      <4> QED  BY <1>4, <2>1, <2>2, <2>3, <3>1, <4>1 DEF LiveInv, ExchangesOK
    <3>2. CASE TabOf[p] = w /\ jar' = jar /\ page' = page
      BY <2>1, <2>2, <2>3, <3>2 DEF LiveInv, ExchangesOK
    <3>3. CASE TabOf[p] = w /\ answer[q] = "tokens" /\ jar' = [jar EXCEPT ![BrowserOf[w]] = made[q]]
      <4>1. made[q] # None /\ jar'[Browser(p)] = made[q]
        BY <1>0, <3>3 DEF CarriesOK, Browser, LiveInv, TypesOK
      <4>2. cookie[p] # made[q] /\ (session[cookie[p]] = session[made[q]] => cookie[p] = made[q])
        BY <1>1, <2>1, <2>3, <4>1 DEF LiveInv, NewLoginsOK
      <4> QED  BY <2>1, <2>2, <2>3, <4>1, <4>2
    <3> QED  BY <1>2, <3>1, <3>2, <3>3
  <2>4. ASSUME NEW p \in Requests, NEW r \in Requests, at'[p] \in Exchanging, at'[r] \in Exchanging, p # r
        PROVE  session'[cookie'[p]] # session'[cookie'[r]]
    BY <2>1, <2>2, <2>4 DEF LiveInv, ExchangesOK
  <2> QED  BY <2>3, <2>4 DEF ExchangesOK, Browser
<1> QED  BY <1>1, <1>3, <1>4, <1>6, <1>7, EndKeepsLive

\* The answer to a logout.
LEMMA LogOutEndKeepsLive ==
    ASSUME LiveInv, OneTabEach, TypesOK', NEW q \in Requests, LogOutArrives(q)
    PROVE  LiveInv'
<1> DEFINE w == TabOf[q]
<1>0. w \in Tabs /\ Browser(q) = BrowserOf[w] /\ BrowserOf[w] \in Browsers
  BY PlacesAssumption DEF Browser
<1>1. Ended(q) /\ call[q] = "logout" /\ call' = [call EXCEPT ![q] = "idle"]
      /\ UNCHANGED <<refreshing, redirecting>>
  BY AnsweredEnds DEF LogOutArrives, SetCall
<1>2. jar' = [jar EXCEPT ![BrowserOf[w]] = None] \/ jar' = jar
  BY <1>0 DEF LogOutArrives, LiveInv, TypesOK
<1>3. call'[q] = "idle" /\ \A p \in Requests \ {q} : call'[p] = call[p]
  BY <1>1 DEF LiveInv, TypesOK
<1>4. JarFrom(q) /\ \A b \in Browsers \ {BrowserOf[w]} : jar'[b] = jar[b]
  BY <1>0, <1>2 DEF JarFrom, LiveInv, TypesOK
<1>5. page'[w] = "login" /\ \A v \in Tabs \ {w} : page'[v] = page[v]
  BY <1>0 DEF LogOutArrives, LiveInv, TypesOK
<1> HIDE DEF w
<1>6. TabsOK'
  <2>1. w = TabOf[q]
    BY DEF w
  <2> QED  BY <1>1, <1>3, <1>4, <1>5, <2>1, TabsAfterAnswer
<1>7. NobodyNewGone
  <2> SUFFICES ASSUME NEW p \in Requests, call'[p] = "gone", at'[p] \in Exchanging,
                      page'[TabOf[p]] = "app", jar'[Browser(p)] # None
               PROVE  /\ call[p] = "gone" /\ page[TabOf[p]] = "app" /\ jar[Browser(p)] # None
                      /\ session[jar'[Browser(p)]] = session[jar[Browser(p)]]
    BY DEF NobodyNewGone
  <2>1. call[p] = "gone" /\ TabOf[p] \in Tabs \ {w}
    BY <1>3, <1>5, PlacesAssumption
  <2>2. Browser(p) \in Browsers \ {BrowserOf[w]}
    BY <1>0, <2>1, PlacesAssumption DEF OneTabEach, Browser
  <2> QED  BY <1>4, <1>5, <2>1, <2>2
<1> QED  BY <1>1, <1>3, <1>4, <1>6, <1>7, EndKeepsLive

-----------------------------------------------------------------------------
(* The theorem.                                                            *)

\* At the start nobody has a token.
LEMMA InitLive == Init => LiveInv
<1> SUFFICES ASSUME Init PROVE LiveInv
  OBVIOUS
<1>1. TypesOK
  BY InitTypes
<1>2. Rows = {} /\ Live = {} /\ Pending = {} /\ revoked = {}
  BY DEF Init, TokensInit, Rows, Live, Pending, Exchanging
<1>3. RowsOK
  <2>1. Cardinality(Rows) = 0 /\ Cardinality(Pending) = 0
    BY <1>2, FS_EmptySet
  <2>2. Rows = 1..0
    BY <1>2
  <2> QED  BY <1>2, <2>1, <2>2, BoundAssumption DEF RowsOK
<1>4. \A q \in Requests : CarriesOK(q)
  BY DEF Init, TokensInit, CarriesOK, RefreshStatements
<1>5. TabsOK
  BY DEF Init, TokensInit, TabsOK, CallOK
<1>6. HoldsOK
  BY PlacesAssumption DEF Init, TokensInit, HoldsOK, Holds, Holding
<1>7. ExchangesOK /\ NewLoginsOK /\ LiveOK
  BY <1>2 DEF Init, TokensInit, ExchangesOK, Exchanging, NewLoginsOK, LiveOK, OneLiveToken
<1> QED  BY <1>1, <1>3, <1>4, <1>5, <1>6, <1>7 DEF LiveInv

\* Every step keeps the invariant.
LEMMA NextKeepsLive ==
    ASSUME LiveInv, OneTabEach, [Next]_vars
    PROVE  LiveInv'
<1>1. TypesOK'
  <2>1. \A q \in Requests : cookie[q] \in Tokens \/ at[q] # "insert"
    BY RowsAreTokens DEF LiveInv, CarriesOK, RefreshStatements
  <2> QED  BY <2>1, NextTypes DEF LiveInv
<1>2. ASSUME NEW q \in Requests, Progress(q) PROVE LiveInv'
  <2>1. CASE Handles(q)
    BY <1>1, <2>1, HandlesKeepLive
  <2>2. CASE Ends(q) \/ RetryEnds(q) \/ RetryThrows(q) \/ (Unauthorized(q) /\ refreshing[TabOf[q]])
    <3>1. EndpointsStay
      BY <2>2 DEF EndpointsStay, Ends, RetryEnds, RetryThrows, Unauthorized,
                  tokenVars, tableVars, handlerVars, historyVars, storeVars
    <3> QED  BY <1>1, <2>2, <3>1, CallsKeepLive
  <2>3. CASE Unauthorized(q) /\ ~refreshing[TabOf[q]]
    BY <1>1, <2>3, StartKeepsLive
  <2>4. CASE RefreshSucceeds(q) \/ RefreshFails(q)
    BY <1>1, <2>4, RefreshEndKeepsLive
  <2>5. CASE Dropped(q) \/ LogInArrives(q) \/ LogOutArrives(q)
    BY <1>1, <2>5, DroppedKeepsLive, LogInEndKeepsLive, LogOutEndKeepsLive
  <2> QED  BY <1>2, <2>1, <2>2, <2>3, <2>4, <2>5 DEF Progress
<1>3. ASSUME NEW q \in Requests, Send(q) PROVE LiveInv'
  <2>1. EndpointsStay
    BY <1>3 DEF EndpointsStay, Send, tokenVars, tableVars, handlerVars, historyVars, storeVars
  <2> QED  BY <1>1, <1>3, <2>1, CallsKeepLive
<1>4. ASSUME NEW q \in Requests, LogIn(q) \/ LogOut(q) PROVE LiveInv'
  BY <1>1, <1>4, StartKeepsLive
<1>5. ASSUME NEW w \in Tabs, Unload(w) \/ Open(w) PROVE LiveInv'
  BY <1>1, <1>5, UnloadKeepsLive, OpenKeepsLive
<1>6. ASSUME NEW t \in Tokens, AccessExpires(t) \/ RefreshTokenExpires(t) PROVE LiveInv'
  <2>1. EndpointsStay /\ call' = call /\ UNCHANGED tabVars
    BY <1>6 DEF AccessExpires, RefreshTokenExpires, Expire, EndpointsStay, tokenVars, tableVars, handlerVars,
                historyVars, storeVars, clientVars
  <2> QED  BY <1>1, <2>1, WaitingKeepsLive
<1>7. CASE UNCHANGED vars
  <2>1. EndpointsStay /\ call' = call /\ UNCHANGED tabVars
    BY <1>7 DEF vars, EndpointsStay, tokenVars, tableVars, handlerVars, historyVars, storeVars, clientVars
  <2> QED  BY <1>1, <2>1, WaitingKeepsLive
<1> QED  BY <1>2, <1>3, <1>4, <1>5, <1>6, <1>7 DEF Next, OutOfTokens

\* A login never has two tokens that can be used, however the handlers of
\* refreshes, logouts and requests of pages left long ago overlap.
THEOREM OneTokenPerLogin == OneTabEach => (Spec => []OneLiveToken)
<1> SUFFICES ASSUME OneTabEach PROVE Spec => []OneLiveToken
  OBVIOUS
<1>1. LiveInv /\ [Next]_vars => LiveInv'
  BY NextKeepsLive
<1>2. LiveInv => OneLiveToken
  BY DEF LiveInv, LiveOK
<1> QED  BY <1>1, <1>2, InitLive, PTL DEF Spec

-----------------------------------------------------------------------------
(* While nothing fails no request is taken for a thief: what it presents   *)
(* can be used until the request itself exchanges it, a page that gives up *)
(* leaves no token and no request behind, and whatever can be used is in a *)
(* cookie or in an answer.                                                 *)

\* Who has which token at which statement.
QuietCall(q) ==
    /\ at[q] \in {"read", "revoke"} => cookie[q] \in Live
    /\ at[q] # "revokeAll"
    /\ at[q] \in {"insert", "user"} => cookie[q] \in revoked
    /\ made[q] # None => made[q] \in Live
    /\ at[q] = "answered" =>
          /\ answer[q] # "none"
          /\ made[q] # None => answer[q] = "tokens"
          /\ answer[q] = "error" => cookie[q] = None
          /\ answer[q] # "error" /\ cookie[q] # None => cookie[q] \in revoked
    /\ call[q] = "gone" => at[q] = "answered" /\ made[q] = None

QuietTab(w) ==
    LET b == BrowserOf[w] IN
    /\ page[w] = "login" \/ redirecting[w] => jar[b] = None /\ access[b] = None
    /\ page[w] = "app" /\ ~redirecting[w] =>
          /\ jar[b] # None
          /\ jar[b] \in Live \/ \E q \in CallsOf(w) : call[q] \in {"refreshing", "logout"}

Remembered ==
    \A t \in Live :
        \/ \E b \in Browsers : jar[b] = t
        \/ \E q \in Requests : at[q] # "idle" /\ made[q] = t

Quiet ==
    /\ \A q \in Requests : QuietCall(q)
    /\ \A w \in Tabs : QuietTab(w)
    /\ ended = {}
    /\ Remembered

QuietInv == LiveInv /\ (faults = 0 => Quiet)

\* A tab has one request at the session endpoints.
Busy(q) == call[q] \in {"refreshing", "login", "logout"}

\* Two requests of a tab are not at the endpoints at once.
LEMMA OneBusy ==
    ASSUME LiveInv, NEW p \in Requests, NEW q \in Requests, Busy(p), Busy(q), TabOf[p] = TabOf[q]
    PROVE  p = q
<1>1. CallOK(p, TabOf[p]) /\ CallOK(q, TabOf[q])
  BY DEF LiveInv, TabsOK
<1>2. \/ p = q
      \/ /\ ~(call[p] \in {"refreshing", "ownRetry"} /\ call[q] \in {"refreshing", "ownRetry"})
         /\ ~(call[p] = "login" /\ call[q] = "login")
  BY DEF LiveInv, TabsOK
<1>3. p \in CallsOf(TabOf[p]) /\ q \in CallsOf(TabOf[q])
  BY DEF CallsOf
<1> QED  BY <1>1, <1>2, <1>3 DEF CallOK, Busy

\* A request at a statement, or with a token to deliver, is waited for.
LEMMA WaitedFor ==
    ASSUME LiveInv, NEW q \in Requests, QuietCall(q),
           at[q] \in Statements \/ made[q] # None
    PROVE  Busy(q)
<1>1. CallOK(q, TabOf[q]) /\ CarriesOK(q) /\ call[q] \in Calls
  BY DEF LiveInv, TabsOK, TypesOK
<1> QED  BY <1>1 DEF CallOK, CarriesOK, QuietCall, Busy, Calls, Statements

\* The token of a request at the endpoints is nobody else's.
LEMMA OwnToken ==
    ASSUME LiveInv, OneTabEach, NEW q \in Requests, Busy(q), cookie[q] # None
    PROVE  /\ \A p \in Requests : Busy(p) /\ (cookie[p] = cookie[q] \/ made[p] = cookie[q]) => p = q
           /\ \A w \in Tabs : jar[BrowserOf[w]] = cookie[q] => w = TabOf[q]
<1>1. \A p \in Requests : Browser(p) \in Browsers /\ Browser(p) = BrowserOf[TabOf[p]] /\ TabOf[p] \in Tabs
  BY PlacesAssumption DEF Browser
<1>2. Holds(Browser(q), cookie[q])
  BY DEF Holds, Holding
<1>3. ASSUME NEW p \in Requests, Busy(p), cookie[p] = cookie[q] \/ made[p] = cookie[q] PROVE p = q
  <2>1. Holds(Browser(p), cookie[q])
    BY <1>3 DEF Holds, Holding
  <2>2. TabOf[p] = TabOf[q]
    BY <1>1, <1>2, <2>1, HeldApart DEF OneTabEach
  <2> QED  BY <1>3, <2>2, OneBusy
<1>4. ASSUME NEW w \in Tabs, jar[BrowserOf[w]] = cookie[q] PROVE w = TabOf[q]
  <2>1. Holds(BrowserOf[w], cookie[q]) /\ BrowserOf[w] \in Browsers
    BY <1>4, PlacesAssumption DEF Holds, Holding
  <2> QED  BY <1>1, <1>2, <2>1, HeldApart DEF OneTabEach
<1> QED  BY <1>3, <1>4

\* A statement that inserts no row, while nothing fails.
QuietStatement(q, s, a) ==
    \/ at[q] = "read" /\ s \in {"markExpired", "revoke"} /\ revoked' = revoked /\ a = answer[q]
    \/ at[q] = "revoke" /\ s = "insert" /\ revoked' = revoked \cup {cookie[q]} /\ a = answer[q]
    \/ at[q] \in {"markExpired", "logout"} /\ s = "answered" /\ revoked' = revoked \cup {cookie[q]}
       /\ a = "clear"
    \/ at[q] = "user" /\ s = "answered" /\ revoked' = revoked /\ a = "tokens"

\* A statement revokes at most the token of its request.
LEMMA StatementKeepsQuiet ==
    ASSUME LiveInv, OneTabEach, Quiet, NEW q \in Requests, at[q] \in Statements,
           owner' = owner, ended' = ended, cookie' = cookie, made' = made,
           UNCHANGED <<jar, access, call, redirecting, page>>,
           NEW s, NEW a, QuietStatement(q, s, a),
           at' = [at EXCEPT ![q] = s], answer' = [answer EXCEPT ![q] = a]
    PROVE  Quiet'
<1>0. /\ at'[q] = s /\ answer'[q] = a /\ s # "idle"
      /\ \A p \in Requests \ {q} : at'[p] = at[p] /\ answer'[p] = answer[p]
  BY DEF LiveInv, TypesOK, QuietStatement
<1>1. QuietCall(q) /\ CarriesOK(q) /\ CallOK(q, TabOf[q]) /\ Busy(q)
  BY WaitedFor DEF Quiet, LiveInv, TabsOK
<1>2. Rows' = Rows /\ revoked \subseteq revoked' /\ Live' \subseteq Live
      /\ \A t \in Live \ Live' : t = cookie[q] /\ cookie[q] # None /\ at[q] \in {"revoke", "markExpired", "logout"}
  <2>1. Rows' = Rows
    BY DEF Rows
  <2>2. cookie[q] # None \/ revoked' = revoked
    BY <1>1 DEF QuietStatement, CarriesOK, RefreshStatements
  <2> QED  BY <2>1, <2>2 DEF Live, QuietStatement
<1>3. \A p \in Requests : Busy(p) /\ (cookie[p] = cookie[q] \/ made[p] = cookie[q]) /\ cookie[q] # None => p = q
  BY <1>1, OwnToken
<1>4. \A w \in Tabs : jar[BrowserOf[w]] = cookie[q] /\ cookie[q] # None => w = TabOf[q]
  BY <1>1, OwnToken
<1>5. ASSUME NEW p \in Requests PROVE QuietCall(p)'
  <2>1. QuietCall(p) /\ CarriesOK(p)
    BY DEF Quiet, LiveInv
  <2>2. CASE p # q
    <3>1. at[p] \in {"read", "revoke"} => cookie[p] \in Live'
      <4>1. at[p] \in {"read", "revoke"} => Busy(p)
        BY <2>1, WaitedFor DEF Statements
      <4> QED  BY <1>2, <1>3, <2>1, <2>2, <4>1 DEF QuietCall
    <3>2. made[p] # None => made[p] \in Live'
      <4>1. made[p] # None => Busy(p)
        BY <2>1, WaitedFor
      <4> QED  BY <1>2, <1>3, <2>1, <2>2, <4>1 DEF QuietCall
    <3> QED  BY <1>0, <1>2, <2>1, <2>2, <3>1, <3>2 DEF QuietCall
  <2>3. CASE p = q
    <3>1. made[q] # None => at[q] = "user"
      BY <1>1 DEF CarriesOK, Statements
    <3>2. made[q] # None => made[q] \in Live'
      BY <1>1, <1>2, <3>1 DEF QuietCall
    <3>3. s = "revoke" => cookie[q] \in Live'
      BY <1>1, <1>2 DEF QuietStatement, QuietCall
    <3>4. call[q] # "gone"
      BY <1>1 DEF Busy
    <3> QED
      BY <1>0, <1>1, <1>2, <2>3, <3>1, <3>2, <3>3, <3>4 DEF QuietCall, QuietStatement
  <2> QED  BY <2>2, <2>3
<1>6. ASSUME NEW w \in Tabs PROVE QuietTab(w)'
  <2>1. QuietTab(w)
    BY DEF Quiet
  <2>2. ASSUME page[w] = "app", jar[BrowserOf[w]] \in Live, jar[BrowserOf[w]] \notin Live'
        PROVE  \E p \in CallsOf(w) : call[p] \in {"refreshing", "logout"}
    <3>1. w = TabOf[q] /\ at[q] \in {"revoke", "markExpired", "logout"}
      BY <1>2, <1>4, <2>2
    <3>2. call[q] # "login"
      BY <1>1, <3>1 DEF CallOK
    <3> QED  BY <1>1, <3>1, <3>2 DEF Busy, CallsOf
  <2> QED  BY <2>1, <2>2 DEF QuietTab, CallsOf
<1>7. Remembered'
  <2> SUFFICES ASSUME NEW t \in Live'
               PROVE  \/ \E b \in Browsers : jar'[b] = t
                      \/ \E p \in Requests : at'[p] # "idle" /\ made'[p] = t
    BY DEF Remembered
  <2>1. \A p \in Requests : at[p] # "idle" => at'[p] # "idle"
    BY <1>0
  <2> QED  BY <1>2, <2>1 DEF Quiet, Remembered
<1> QED  BY <1>5, <1>6, <1>7 DEF Quiet

\* An INSERT, while nothing fails: the new token is in the answer.
LEMMA IssueKeepsQuiet ==
    ASSUME LiveInv, OneTabEach, Quiet, NEW q \in Requests, NEW v \in Users, NEW t, NEW s, NEW a,
           Insert(q, v, t), UNCHANGED <<jar, access, call, redirecting, page>>,
           at' = [at EXCEPT ![q] = s], answer' = [answer EXCEPT ![q] = a],
           \/ at[q] = "insert" /\ t = cookie[q] /\ s = "user" /\ a = answer[q]
           \/ at[q] = "login" /\ t = None /\ s = "answered" /\ a = "tokens"
    PROVE  Quiet'
<1>0. at'[q] = s /\ answer'[q] = a /\ q \in Pending /\ s # "idle" /\ at[q] \in Statements
      /\ \A p \in Requests \ {q} : at'[p] = at[p] /\ answer'[p] = answer[p]
  BY DEF Pending, Exchanging, LiveInv, TypesOK, Statements
<1>1. QuietCall(q) /\ CarriesOK(q) /\ Busy(q)
  BY <1>0, WaitedFor DEF Quiet, LiveInv
<1>1a. t = None \/ t \in Rows
  BY <1>1 DEF CarriesOK, RefreshStatements
<1>2. /\ Rows' = Rows \cup {Fresh}
      /\ made'[q] = Fresh
      /\ \A p \in Requests \ {q} : made'[p] = made[p]
      /\ revoked' = revoked /\ cookie' = cookie /\ Live' = Live \cup {Fresh}
  BY <1>0, <1>1a, InsertAddsRow
<1>3. Fresh # None
  BY FreshIsNumber
<1>4. ended' = ended
  BY DEF Insert
<1> HIDE DEF Fresh
<1>5. ASSUME NEW p \in Requests PROVE QuietCall(p)'
  <2>1. QuietCall(p)
    BY DEF Quiet
  <2>2. CASE p # q
    BY <1>0, <1>2, <2>1, <2>2 DEF QuietCall
  <2>3. CASE p = q
    <3>1. at[q] = "login" => cookie[q] = None
      BY <1>1 DEF CarriesOK
    <3>2. call[q] # "gone"
      BY <1>1 DEF Busy
    <3> QED  BY <1>0, <1>2, <1>3, <2>1, <2>3, <3>1, <3>2 DEF QuietCall
  <2> QED  BY <2>2, <2>3
<1>6. ASSUME NEW w \in Tabs PROVE QuietTab(w)'
  <2>1. QuietTab(w)
    BY DEF Quiet
  <2> QED  BY <1>2, <2>1 DEF QuietTab, CallsOf
<1>7. Remembered'
  <2> SUFFICES ASSUME NEW u \in Live'
               PROVE  \/ \E b \in Browsers : jar'[b] = u
                      \/ \E p \in Requests : at'[p] # "idle" /\ made'[p] = u
    BY DEF Remembered
  <2>1. CASE u = Fresh
    BY <1>0, <1>2, <2>1
  <2>2. CASE u \in Live
    <3>1. \A p \in Requests : at[p] # "idle" => at'[p] # "idle"
      BY <1>0
    <3>2. made[q] = None
      BY <1>1, <1>0 DEF CarriesOK
    <3>3. u # None
      BY <2>2 DEF Live, Rows, Tokens, None
    <3> QED  BY <1>2, <2>2, <3>1, <3>2, <3>3 DEF Quiet, Remembered
  <2> QED  BY <1>2, <2>1, <2>2
<1> QED  BY <1>4, <1>5, <1>6, <1>7 DEF Quiet

\* A fault is counted.
LEMMA FaultCounts ==
    ASSUME LiveInv, faults' = 0
    PROVE  ~Fails
  BY DEF LiveInv, TypesOK, Fails

\* The statement of a handler, while nothing fails.
LEMMA HandlesKeepQuiet ==
    ASSUME LiveInv, OneTabEach, Quiet, faults' = 0, NEW q \in Requests, Handles(q)
    PROVE  Quiet'
<1>0. UserOf[Browser(q)] \in Users /\ ~Fails
  BY PlacesAssumption, FaultCounts DEF Browser
<1>1. Handle(q, UserOf[Browser(q)]) /\ UNCHANGED <<jar, access, call, redirecting, page>>
  BY DEF Handles, storeVars, clientVars, tabVars
<1>2. CarriesOK(q) /\ QuietCall(q)
  BY DEF LiveInv, Quiet
<1>3. [answer EXCEPT ![q] = answer[q]] = answer
  BY DEF LiveInv, TypesOK
<1>4. ASSUME NEW s, NEW a, at[q] \in Statements, owner' = owner, ended' = ended,
             cookie' = cookie, made' = made, QuietStatement(q, s, a),
             at' = [at EXCEPT ![q] = s], answer' = [answer EXCEPT ![q] = a]
      PROVE  Quiet'
  BY <1>1, <1>4, StatementKeepsQuiet
<1>5. CASE ReadToken(q)
  <2>1. at[q] = "read" /\ UNCHANGED <<owner, revoked, ended>>
    BY <1>5 DEF ReadToken, tableVars, historyVars
  <2>2. cookie[q] \notin revoked
    BY <1>2, <2>1 DEF QuietCall, Live
  <2>3. PICK s \in {"markExpired", "revoke"} : Step(q, s)
    BY <1>0, <1>5, <2>2 DEF ReadToken
  <2>4. QuietStatement(q, s, answer[q])
    BY <2>1 DEF QuietStatement
  <2>5. at' = [at EXCEPT ![q] = s] /\ answer' = [answer EXCEPT ![q] = answer[q]]
        /\ cookie' = cookie /\ made' = made
    BY <1>3, <2>3 DEF Step
  <2>6. at[q] \in Statements /\ owner' = owner /\ ended' = ended
    BY <2>1 DEF Statements
  <2> QED  BY <1>4, <2>4, <2>5, <2>6
<1>6. CASE RevokeAll(q)
  BY <1>2, <1>6 DEF RevokeAll, QuietCall
<1>7. CASE MarkExpired(q) \/ Logout(q)
  <2>1. at[q] \in {"markExpired", "logout"} /\ ended' = ended /\ Reply(q, "clear") /\ Revoke({cookie[q]})
    BY <1>0, <1>7 DEF MarkExpired, Logout, historyVars
  <2>2. QuietStatement(q, "answered", "clear")
    BY <2>1 DEF QuietStatement, Revoke
  <2>3. at' = [at EXCEPT ![q] = "answered"] /\ answer' = [answer EXCEPT ![q] = "clear"]
        /\ cookie' = cookie /\ made' = made
    BY <2>1 DEF Reply
  <2>4. at[q] \in Statements /\ owner' = owner /\ ended' = ended
    BY <2>1 DEF Statements, Revoke
  <2> QED  BY <1>4, <2>2, <2>3, <2>4
<1>8. CASE RevokeCurrent(q)
  <2>1. at[q] = "revoke" /\ ended' = ended /\ Revoke({cookie[q]}) /\ Step(q, "insert")
    BY <1>0, <1>8 DEF RevokeCurrent, historyVars
  <2>2. QuietStatement(q, "insert", answer[q])
    BY <2>1 DEF QuietStatement, Revoke
  <2>3. at' = [at EXCEPT ![q] = "insert"] /\ answer' = [answer EXCEPT ![q] = answer[q]]
        /\ cookie' = cookie /\ made' = made
    BY <1>3, <2>1 DEF Step
  <2>4. at[q] \in Statements /\ owner' = owner /\ ended' = ended
    BY <2>1 DEF Statements, Revoke
  <2> QED  BY <1>4, <2>2, <2>3, <2>4
<1>9. CASE LookUpUser(q)
  <2>1. at[q] = "user" /\ UNCHANGED <<owner, revoked, ended>> /\ Reply(q, "tokens")
    BY <1>0, <1>9 DEF LookUpUser, tableVars, historyVars
  <2>2. QuietStatement(q, "answered", "tokens")
    BY <2>1 DEF QuietStatement
  <2>3. at' = [at EXCEPT ![q] = "answered"] /\ answer' = [answer EXCEPT ![q] = "tokens"]
        /\ cookie' = cookie /\ made' = made
    BY <2>1 DEF Reply
  <2>4. at[q] \in Statements /\ owner' = owner /\ ended' = ended
    BY <2>1 DEF Statements
  <2> QED  BY <1>4, <2>2, <2>3, <2>4
<1>10. CASE InsertSuccessor(q)
  <2>1. at[q] = "insert" /\ Insert(q, owner[cookie[q]], cookie[q]) /\ at' = [at EXCEPT ![q] = "user"]
        /\ answer' = answer
    BY <1>0, <1>10 DEF InsertSuccessor
  <2>2. cookie[q] \in Rows
    BY <1>2, <2>1 DEF CarriesOK, RefreshStatements
  <2>3. owner[cookie[q]] \in Users
    BY <2>2 DEF Rows, LiveInv, TypesOK
  <2>4. answer' = [answer EXCEPT ![q] = answer[q]]
    BY <1>3, <2>1
  <2> QED  BY <1>1, <2>1, <2>3, <2>4, IssueKeepsQuiet
<1>11. CASE Login(q, UserOf[Browser(q)])
  <2>1. at[q] = "login" /\ Insert(q, UserOf[Browser(q)], None) /\ at' = [at EXCEPT ![q] = "answered"]
        /\ answer' = [answer EXCEPT ![q] = "tokens"]
    BY <1>0, <1>11 DEF Login
  <2> QED  BY <1>0, <1>1, <2>1, IssueKeepsQuiet
<1> QED
  BY <1>1, <1>5, <1>6, <1>7, <1>8, <1>9, <1>10, <1>11 DEF Handle

-----------------------------------------------------------------------------
(* The client, while nothing fails.                                        *)

\* A step of the client alone.
LEMMA ClientKeepsQuiet ==
    ASSUME LiveInv, Quiet, EndpointsStay, ended' = ended,
           \A q \in Requests : call'[q] = "gone" => call[q] = "gone" \/ (at[q] = "answered" /\ made[q] = None),
           \A w \in Tabs : QuietTab(w)'
    PROVE  Quiet'
<1>1. Live' = Live
  BY DEF EndpointsStay, Live, Rows
<1>2. ASSUME NEW p \in Requests PROVE QuietCall(p)'
  <2>1. QuietCall(p)
    BY DEF Quiet
  <2> QED  BY <1>1, <2>1 DEF QuietCall, EndpointsStay
<1>3. Remembered'
  BY <1>1 DEF Quiet, Remembered, EndpointsStay
<1> QED  BY <1>2, <1>3 DEF Quiet

\* What a tab shows and whether a refresh or a logout is under way stay.
LEMMA SameTabStaysQuiet ==
    ASSUME NEW w \in Tabs, QuietTab(w), EndpointsStay, access'[BrowserOf[w]] = access[BrowserOf[w]],
           page'[w] = page[w], redirecting'[w] = redirecting[w],
           \A q \in CallsOf(w) : call[q] \in {"refreshing", "logout"} => call'[q] = call[q]
    PROVE  QuietTab(w)'
<1>1. Live' = Live
  BY DEF EndpointsStay, Live, Rows
<1> QED  BY <1>1 DEF QuietTab, EndpointsStay, CallsOf

\* The steps of the client that leave the session endpoints alone.
LEMMA CallsKeepQuiet ==
    ASSUME LiveInv, OneTabEach, Quiet, faults' = 0, EndpointsStay, NEW q \in Requests,
           Send(q) \/ Ends(q) \/ (Unauthorized(q) /\ refreshing[TabOf[q]]) \/ RetryEnds(q) \/ RetryThrows(q)
    PROVE  Quiet'
<1>1. ~RetryThrows(q)
  BY FaultCounts DEF RetryThrows
<1>2. ended' = ended /\ access' = access /\ page' = page /\ redirecting' = redirecting
  BY <1>1 DEF Send, Ends, Unauthorized, RetryEnds, storeVars, tabVars, tokenVars, historyVars,
              RefreshStart
<1>3. call \in [Requests -> Calls]
  BY DEF LiveInv, TypesOK
<1>4. call[q] \notin {"refreshing", "logout", "gone"} /\ call'[q] # "gone"
      /\ \A p \in Requests \ {q} : call'[p] = call[p]
  BY <1>1, <1>3 DEF Send, Ends, Unauthorized, RetryEnds, SetCall, Settle
<1>5. \A w \in Tabs : QuietTab(w)'
  BY <1>2, <1>4, SameTabStaysQuiet DEF Quiet, CallsOf
<1> QED  BY <1>2, <1>4, <1>5, ClientKeepsQuiet

\* The login page is loaded: the tab has neither a cookie nor a request whose
\* answer would bring one.
LEMMA UnloadKeepsQuiet ==
    ASSUME LiveInv, OneTabEach, Quiet, NEW w \in Tabs, Unload(w)
    PROVE  Quiet'
<1>1. EndpointsStay /\ ended' = ended /\ access' = access
  BY DEF Unload, EndpointsStay, tokenVars, tableVars, handlerVars, historyVars, storeVars
<1>2. page[w] = "app" /\ redirecting[w] /\ jar[BrowserOf[w]] = None /\ access[BrowserOf[w]] = None
  BY DEF Unload, LiveInv, TabsOK, Quiet, QuietTab
<1>3. \A p \in Requests :
          call'[p] = IF TabOf[p] # w THEN call[p] ELSE IF at[p] = "idle" THEN "idle" ELSE "gone"
  BY DEF Unload
<1>4. /\ page'[w] = "login" /\ redirecting'[w] = FALSE
      /\ \A v \in Tabs \ {w} : page'[v] = page[v] /\ redirecting'[v] = redirecting[v]
  BY DEF Unload, LiveInv, TypesOK
<1>5. ASSUME NEW p \in Requests, call'[p] = "gone"
      PROVE  call[p] = "gone" \/ (at[p] = "answered" /\ made[p] = None)
  <2>1. CallOK(p, TabOf[p]) /\ CarriesOK(p) /\ call[p] \in Calls
    BY DEF LiveInv, TabsOK, TypesOK
  <2>2. CASE TabOf[p] # w
    BY <1>3, <1>5, <2>2
  <2>3. CASE TabOf[p] = w
    <3>1. at[p] # "idle"
      BY <1>3, <1>5, <2>3
    <3>2. call[p] \in {"refreshing", "gone"}
      BY <1>2, <2>1, <2>3, <3>1 DEF CallOK, Calls
    <3> QED  BY <1>2, <2>1, <2>3, <3>2 DEF CallOK, CarriesOK
  <2> QED  BY <2>2, <2>3
<1>6. ASSUME NEW v \in Tabs PROVE QuietTab(v)'
  <2>1. CASE v # w
    <3>1. \A p \in CallsOf(v) : call'[p] = call[p]
      BY <1>3, <2>1 DEF CallsOf
    <3> QED  BY <1>1, <1>4, <2>1, <3>1, SameTabStaysQuiet DEF Quiet
  <2>2. CASE v = w
    BY <1>1, <1>2, <1>4, <2>2 DEF QuietTab, EndpointsStay
  <2> QED  BY <2>1, <2>2
<1> QED  BY <1>1, <1>5, <1>6, ClientKeepsQuiet

\* A request that starts.
LEMMA BeginKeepsQuiet ==
    ASSUME LiveInv, Quiet, NEW q \in Requests, NEW s, NEW c, Begins(q, s, c),
           s = "read" => c \in Live, s = "answered" => answer'[q] = "error",
           owner' = owner, revoked' = revoked, ended' = ended, made' = made, jar' = jar,
           \A p \in Requests \ {q} : call'[p] = call[p],
           call'[q] # "gone",
           \A w \in Tabs : QuietTab(w)'
    PROVE  Quiet'
<1>1. Live' = Live /\ made[q] = None
  BY DEF Live, Rows, LiveInv, CarriesOK, Begins
<1>2. ASSUME NEW p \in Requests PROVE QuietCall(p)'
  <2>1. QuietCall(p)
    BY DEF Quiet
  <2>2. CASE p # q
    BY <1>1, <2>1, <2>2 DEF QuietCall, Begins
  <2>3. CASE p = q
    BY <1>1, <2>3 DEF QuietCall, Begins
  <2> QED  BY <2>2, <2>3
<1>3. Remembered'
  <2>1. \A p \in Requests : at[p] # "idle" => at'[p] # "idle"
    BY DEF Begins
  <2> QED  BY <1>1, <2>1 DEF Quiet, Remembered
<1> QED  BY <1>2, <1>3 DEF Quiet

\* A refresh is started with a cookie that can be used, or without one.
LEMMA StartKeepsQuiet ==
    ASSUME LiveInv, OneTabEach, Quiet, NEW q \in Requests,
           (Unauthorized(q) /\ ~refreshing[TabOf[q]]) \/ LogIn(q) \/ LogOut(q)
    PROVE  Quiet'
<1> DEFINE w == TabOf[q]
<1>0. w \in Tabs /\ CallOK(q, w) /\ Browser(q) = BrowserOf[w] /\ CarriesOK(q) /\ q \in CallsOf(w)
  BY PlacesAssumption DEF LiveInv, TabsOK, Browser, CallsOf
<1>0a. /\ call \in [Requests -> Calls] /\ at \in [Requests -> Statements \cup {"idle", "answered"}]
       /\ cookie \in [Requests -> Nat] /\ answer \in [Requests -> Answers]
  BY DEF LiveInv, TypesOK
<1>1. /\ owner' = owner /\ revoked' = revoked /\ ended' = ended /\ made' = made /\ jar' = jar
      /\ access' = access /\ page' = page /\ redirecting' = redirecting
  BY DEF Unauthorized, LogIn, LogOut, RefreshStart, LoginStart, LogoutStart, tableVars, historyVars,
         storeVars, tabVars
<1>2. \A p \in Requests \ {q} : call'[p] = call[p]
  BY <1>0a DEF Unauthorized, LogIn, LogOut, SetCall
<1>3. Live' = Live /\ call[q] \in {"sent", "idle"}
  BY <1>1 DEF Live, Rows, Unauthorized, LogIn, LogOut
<1>4. call'[q] \in {"refreshing", "login", "logout"}
  BY <1>0a DEF Unauthorized, LogIn, LogOut, SetCall
<1>5. ASSUME NEW v \in Tabs PROVE QuietTab(v)'
  <2>1. QuietTab(v)
    BY DEF Quiet
  <2>2. \A p \in CallsOf(v) : call[p] \in {"refreshing", "logout"} => call'[p] = call[p]
    BY <1>2, <1>3 DEF CallsOf
  <2> QED  BY <1>1, <1>3, <2>1, <2>2 DEF QuietTab, CallsOf
<1>6. CASE Unauthorized(q) /\ ~refreshing[w]
  <2>1. call[q] = "sent" /\ RefreshStart(q, jar[Browser(q)])
    BY <1>0, <1>6 DEF Unauthorized
  <2>2. page[w] = "app"
    BY <1>0, <2>1 DEF CallOK
  <2>3. Begins(q, IF jar[Browser(q)] = None THEN "answered" ELSE "read", jar[Browser(q)])
    BY <1>0a, <2>1, <2>2 DEF Begins, RefreshStart
  <2>4. ASSUME jar[Browser(q)] # None PROVE jar[Browser(q)] \in Live
    <3>1. QuietTab(w)
      BY <1>0 DEF Quiet
    <3>2. jar[BrowserOf[w]] \in Live \/ \E p \in CallsOf(w) : call[p] \in {"refreshing", "logout"}
      BY <1>0, <2>2, <2>4, <3>1 DEF QuietTab
    <3>3. ASSUME NEW p \in CallsOf(w), call[p] \in {"refreshing", "logout"} PROVE FALSE
      <4>1. CallOK(p, w) /\ p # q
        BY <2>1, <3>3 DEF LiveInv, TabsOK, CallsOf
      <4> QED  BY <1>0, <1>6, <2>1, <3>3, <4>1 DEF CallOK
    <3> QED  BY <1>0, <3>2, <3>3
  <2>5. jar[Browser(q)] = None => answer'[q] = "error"
    BY <1>0a, <2>1 DEF RefreshStart
  <2> QED  BY <1>1, <1>2, <1>4, <1>5, <2>3, <2>4, <2>5, BeginKeepsQuiet
<1>7. CASE LogIn(q)
  <2>1. LoginStart(q)
    BY <1>7 DEF LogIn
  <2>2. cookie[q] = None /\ answer[q] # "tokens"
    BY <1>0, <2>1 DEF CarriesOK, LoginStart
  <2>3. Begins(q, "login", None)
    BY <1>0a, <2>1, <2>2 DEF Begins, LoginStart
  <2> QED  BY <1>1, <1>2, <1>4, <1>5, <2>3, BeginKeepsQuiet
<1>8. CASE LogOut(q)
  <2>1. page[w] = "app" /\ LogoutStart(q, jar[Browser(q)])
    BY <1>8 DEF LogOut
  <2>2. Begins(q, IF jar[Browser(q)] = None THEN "answered" ELSE "logout", jar[Browser(q)])
    BY <1>0a, <2>1 DEF Begins, LogoutStart
  <2>3. jar[Browser(q)] = None => answer'[q] = "error"
    BY <1>0a, <2>1 DEF LogoutStart
  <2> QED  BY <1>1, <1>2, <1>4, <1>5, <2>2, <2>3, BeginKeepsQuiet
<1> QED  BY <1>6, <1>7, <1>8

\* An answer: its token goes into the cookie, and a cookie that is replaced
\* or cleared cannot be used any more.
LEMMA EndKeepsQuiet ==
    ASSUME LiveInv, Quiet, NEW q \in Requests, Ended(q), ended' = ended,
           made[q] # None => \E b \in Browsers : jar'[b] = made[q],
           \A b \in Browsers : jar'[b] = jar[b] \/ jar[b] \notin Live,
           call'[q] # "gone", \A p \in Requests : call'[p] = "gone" => call[p] = "gone",
           \A w \in Tabs : QuietTab(w)'
    PROVE  Quiet'
<1>1. Live' = Live
  BY DEF Live, Rows, Ended
<1>2. ASSUME NEW p \in Requests PROVE QuietCall(p)'
  <2>1. QuietCall(p)
    BY DEF Quiet
  <2>2. CASE p # q
    BY <1>1, <2>1, <2>2 DEF QuietCall, Ended
  <2>3. CASE p = q
    BY <1>1, <2>3 DEF QuietCall, Ended
  <2> QED  BY <2>2, <2>3
<1>3. Remembered'
  <2> SUFFICES ASSUME NEW t \in Live'
               PROVE  \/ \E b \in Browsers : jar'[b] = t
                      \/ \E p \in Requests : at'[p] # "idle" /\ made'[p] = t
    BY DEF Remembered
  <2>1. t # None
    BY DEF Live, Rows, Tokens, None
  <2>2. CASE \E b \in Browsers : jar[b] = t
    BY <1>1, <2>2
  <2>3. CASE \E p \in Requests : at[p] # "idle" /\ made[p] = t
    BY <2>1, <2>3 DEF Ended
  <2> QED  BY <1>1, <2>2, <2>3 DEF Quiet, Remembered
<1> QED  BY <1>2, <1>3 DEF Quiet

\* Another tab, while an answer arrives.
LEMMA OtherTabStaysQuiet ==
    ASSUME LiveInv, OneTabEach, Quiet, NEW q \in Requests, Ended(q), NEW w, w = TabOf[q], NEW v \in Tabs \ {w},
           \A b \in Browsers \ {BrowserOf[w]} : jar'[b] = jar[b] /\ access'[b] = access[b],
           page'[v] = page[v], redirecting'[v] = redirecting[v],
           \A p \in CallsOf(v) : call'[p] = call[p]
    PROVE  QuietTab(v)'
<1>1. Live' = Live
  BY DEF Live, Rows, Ended
<1>2. BrowserOf[v] \in Browsers \ {BrowserOf[w]}
  BY PlacesAssumption DEF OneTabEach
<1>3. QuietTab(v)
  BY DEF Quiet
<1> QED  BY <1>1, <1>2, <1>3 DEF QuietTab, CallsOf

\* The answer to a refresh, while nothing fails.
LEMMA RefreshEndKeepsQuiet ==
    ASSUME LiveInv, OneTabEach, Quiet, faults' = 0, NEW q \in Requests, RefreshSucceeds(q) \/ RefreshFails(q)
    PROVE  Quiet'
<1> DEFINE w == TabOf[q]
<1>0. w \in Tabs /\ CallOK(q, w) /\ Browser(q) = BrowserOf[w] /\ CarriesOK(q) /\ BrowserOf[w] \in Browsers
      /\ q \in CallsOf(w) /\ QuietCall(q) /\ QuietTab(w)
  BY PlacesAssumption DEF LiveInv, TabsOK, Browser, CallsOf, Quiet
<1>0a. /\ call \in [Requests -> Calls] /\ redirecting \in [Tabs -> BOOLEAN] /\ jar \in [Browsers -> Nat]
       /\ access = [b \in Browsers |-> access[b]]
  BY DEF LiveInv, TypesOK
<1>1. Ended(q) /\ call[q] = "refreshing" /\ page' = page /\ ended' = ended
  <2>1. Answered(q) /\ call[q] = "refreshing" /\ page' = page
    BY DEF RefreshSucceeds, RefreshFails, Deliver, Catch, tabVars
  <2> QED  BY <2>1, AnsweredEnds DEF Answered, historyVars
<1>2. page[w] = "app" /\ cookie[q] = jar[BrowserOf[w]] /\ at[q] = "answered"
  BY <1>0, <1>1 DEF CallOK, Ended
<1>3. \A p \in Requests : TabOf[p] # w => call'[p] = call[p]
  <2>1. CASE RefreshSucceeds(q)
    BY <2>1 DEF RefreshSucceeds, Deliver, Queue, CallsOf
  <2>2. CASE RefreshFails(q)
    BY <2>2 DEF RefreshFails, Catch, Settle, Queue, CallsOf
  <2> QED  BY <2>1, <2>2
<1>4. call'[q] # "gone" /\ \A p \in Requests : call'[p] = "gone" => call[p] = "gone"
  <2>1. CASE RefreshSucceeds(q)
    BY <2>1 DEF RefreshSucceeds, Deliver
  <2>2. CASE RefreshFails(q)
    BY <2>2 DEF RefreshFails, Catch, Settle
  <2> QED  BY <2>1, <2>2
<1>5. jar[BrowserOf[w]] \notin Live
      \/ (answer[q] = "error" /\ cookie[q] = None)
  BY <1>0, <1>2 DEF QuietCall, Live, Rows, Tokens, None
<1>6. CASE RefreshSucceeds(q)
  <2>1. answer[q] = "tokens" /\ jar' = [jar EXCEPT ![BrowserOf[w]] = made[q]]
        /\ access' = [access EXCEPT ![BrowserOf[w]] = made[q]] /\ redirecting' = redirecting
    BY <1>6 DEF RefreshSucceeds, Deliver, tabVars
  <2>2. made[q] # None /\ made[q] \in Live /\ cookie[q] # None
    BY <1>0, <1>1, <2>1 DEF CarriesOK, QuietCall, CallOK
  <2>3. jar'[BrowserOf[w]] = made[q]
        /\ \A b \in Browsers \ {BrowserOf[w]} : jar'[b] = jar[b] /\ access'[b] = access[b]
    BY <1>0, <1>0a, <2>1
  <2>4. ~redirecting[w]
    BY <1>0, <1>2, <2>2 DEF QuietTab
  <2>5. Live' = Live
    BY <1>1 DEF Live, Rows, Ended
  <2>6. QuietTab(w)'
    BY <1>1, <1>2, <2>1, <2>2, <2>3, <2>4, <2>5 DEF QuietTab
  <2> HIDE DEF w
  <2>7. ASSUME NEW v \in Tabs PROVE QuietTab(v)'
    <3>1. CASE v # w
      <4>1. w = TabOf[q] /\ \A p \in CallsOf(v) : call'[p] = call[p]
        BY <1>3, <3>1 DEF w, CallsOf
      <4> QED  BY <1>1, <2>1, <2>3, <3>1, <4>1, OtherTabStaysQuiet
    <3> QED  BY <2>6, <3>1
  <2>8. jar[BrowserOf[w]] \notin Live
    BY <1>5, <2>1
  <2>9. \A b \in Browsers : jar'[b] = jar[b] \/ jar[b] \notin Live
    BY <2>3, <2>8
  <2>10. \E b \in Browsers : jar'[b] = made[q]
    BY <1>0, <2>3
  <2> QED  BY <1>1, <1>4, <2>7, <2>9, <2>10, EndKeepsQuiet
<1>7. CASE RefreshFails(q)
  <2>1. answer[q] # "tokens" /\ Catch(q)
        /\ jar' = [jar EXCEPT ![Browser(q)] = IF answer[q] = "clear" THEN None ELSE @]
    BY <1>7, FaultCounts DEF RefreshFails
  <2>2. answer[q] \in {"error", "clear"}
    BY <1>0, <1>2, <2>1 DEF QuietCall, LiveInv, TypesOK, Answers
  <2>3. jar'[BrowserOf[w]] = None /\ made[q] = None
        /\ \A b \in Browsers \ {BrowserOf[w]} : jar'[b] = jar[b]
    BY <1>0, <1>0a, <1>2, <2>1, <2>2 DEF QuietCall
  <2>4. access' = [access EXCEPT ![BrowserOf[w]] = None] /\ redirecting' = [redirecting EXCEPT ![w] = TRUE]
    BY <2>1 DEF Catch
  <2>5. access'[BrowserOf[w]] = None /\ redirecting'[w]
        /\ (\A b \in Browsers \ {BrowserOf[w]} : access'[b] = access[b])
        /\ \A v \in Tabs \ {w} : redirecting'[v] = redirecting[v]
    BY <1>0, <1>0a, <2>4
  <2>6. QuietTab(w)'
    BY <1>1, <1>2, <2>3, <2>5 DEF QuietTab
  <2> HIDE DEF w
  <2>7. ASSUME NEW v \in Tabs PROVE QuietTab(v)'
    <3>1. CASE v # w
      <4>1. w = TabOf[q] /\ \A p \in CallsOf(v) : call'[p] = call[p]
        BY <1>3, <3>1 DEF w, CallsOf
      <4> QED  BY <1>1, <2>3, <2>5, <3>1, <4>1, OtherTabStaysQuiet
    <3> QED  BY <2>6, <3>1
  <2>8. jar[BrowserOf[w]] \notin Live
    BY <1>2, <1>5 DEF Live, Rows, Tokens, None
  <2>9. \A b \in Browsers : jar'[b] = jar[b] \/ jar[b] \notin Live
    BY <2>3, <2>8
  <2> QED  BY <1>1, <1>4, <2>3, <2>7, <2>9, EndKeepsQuiet
<1> QED  BY <1>6, <1>7

\* The answers to a login, to a logout and to a page that is gone.
LEMMA OtherEndsKeepQuiet ==
    ASSUME LiveInv, OneTabEach, Quiet, faults' = 0, NEW q \in Requests,
           Dropped(q) \/ LogInArrives(q) \/ LogOutArrives(q)
    PROVE  Quiet'
<1> DEFINE w == TabOf[q]
<1>0. w \in Tabs /\ CallOK(q, w) /\ Browser(q) = BrowserOf[w] /\ CarriesOK(q) /\ BrowserOf[w] \in Browsers
      /\ q \in CallsOf(w) /\ QuietCall(q) /\ QuietTab(w)
  BY PlacesAssumption DEF LiveInv, TabsOK, Browser, CallsOf, Quiet
<1>0a. /\ call \in [Requests -> Calls] /\ jar \in [Browsers -> Nat] /\ page \in [Tabs -> {"login", "app"}]
       /\ access = [b \in Browsers |-> access[b]] /\ answer \in [Requests -> Answers]
  BY DEF LiveInv, TypesOK
<1>1. Ended(q) /\ call' = [call EXCEPT ![q] = "idle"] /\ ended' = ended /\ redirecting' = redirecting
      /\ call[q] \in {"gone", "login", "logout"}
  BY AnsweredEnds DEF Dropped, LogInArrives, LogOutArrives, SetCall, Answered, historyVars, tabVars
<1>2. call'[q] = "idle" /\ \A p \in Requests \ {q} : call'[p] = call[p]
  BY <1>0a, <1>1
<1>3. at[q] = "answered" /\ Live' = Live
  BY <1>1 DEF Ended, Live, Rows
<1>4. None \notin Live
  BY DEF Live, Rows, Tokens, None
<1>5. ASSUME \A b \in Browsers \ {BrowserOf[w]} : jar'[b] = jar[b] /\ access'[b] = access[b],
             \A v \in Tabs \ {w} : page'[v] = page[v],
             QuietTab(w)',
             jar'[BrowserOf[w]] = jar[BrowserOf[w]] \/ jar[BrowserOf[w]] \notin Live,
             made[q] # None => jar'[BrowserOf[w]] = made[q]
      PROVE  Quiet'
  <2> HIDE DEF w
  <2>1. ASSUME NEW v \in Tabs PROVE QuietTab(v)'
    <3>1. CASE v # w
      <4>1. w = TabOf[q] /\ \A p \in CallsOf(v) : call'[p] = call[p]
        BY <1>2, <3>1 DEF w, CallsOf
      <4> QED  BY <1>1, <1>5, <3>1, <4>1, OtherTabStaysQuiet
    <3> QED  BY <1>5, <3>1
  <2>2. \A b \in Browsers : jar'[b] = jar[b] \/ jar[b] \notin Live
    BY <1>5
  <2>3. made[q] # None => \E b \in Browsers : jar'[b] = made[q]
    BY <1>0, <1>5
  <2>4. call'[q] # "gone" /\ \A p \in Requests : call'[p] = "gone" => call[p] = "gone"
    BY <1>2
  <2> QED  BY <1>1, <2>1, <2>2, <2>3, <2>4, EndKeepsQuiet
<1>6. CASE Dropped(q)
  <2>1. UNCHANGED <<jar, access, page>> /\ call[q] = "gone"
    BY <1>6 DEF Dropped, storeVars, tabVars
  <2>2. made[q] = None
    BY <1>0, <2>1 DEF QuietCall
  <2>3. QuietTab(w)'
    <3>1. \A p \in CallsOf(w) : call[p] \in {"refreshing", "logout"} => call'[p] = call[p]
      BY <1>2, <2>1 DEF CallsOf
    <3> QED  BY <1>0, <1>1, <1>3, <2>1, <3>1 DEF QuietTab, CallsOf
  <2> QED  BY <1>5, <2>1, <2>2, <2>3
<1>7. CASE LogInArrives(q)
  <2>1. page[w] = "login" /\ call[q] = "login" /\ jar[BrowserOf[w]] = None
    BY <1>0, <1>7 DEF LogInArrives, CallOK, QuietTab
  <2>2. ~redirecting[w]
    BY <1>0, <2>1 DEF LiveInv, TabsOK
  <2>3. CASE answer[q] = "tokens"
    <3>1. jar' = [jar EXCEPT ![BrowserOf[w]] = made[q]] /\ access' = [access EXCEPT ![BrowserOf[w]] = made[q]]
          /\ page' = [page EXCEPT ![w] = "app"]
      BY <1>0, <1>7, <2>3, FaultCounts DEF LogInArrives
    <3>2. jar'[BrowserOf[w]] = made[q] /\ page'[w] = "app"
          /\ (\A b \in Browsers \ {BrowserOf[w]} : jar'[b] = jar[b] /\ access'[b] = access[b])
          /\ \A v \in Tabs \ {w} : page'[v] = page[v]
      BY <1>0, <1>0a, <3>1
    <3>3. made[q] # None /\ made[q] \in Live
      BY <1>0, <2>3 DEF CarriesOK, QuietCall
    <3>4. QuietTab(w)'
      BY <1>1, <1>3, <2>2, <3>2, <3>3 DEF QuietTab
    <3> QED  BY <1>4, <1>5, <2>1, <3>2, <3>4
  <2>4. CASE answer[q] # "tokens"
    <3>1. UNCHANGED <<jar, access, page>>
      BY <1>7, <2>4 DEF LogInArrives, storeVars
    <3>2. made[q] = None
      BY <1>0, <1>3, <2>4 DEF QuietCall
    <3>3. QuietTab(w)'
      BY <1>0, <1>1, <2>1, <2>2, <3>1 DEF QuietTab
    <3> QED  BY <1>5, <3>1, <3>2, <3>3
  <2> QED  BY <2>3, <2>4
<1>8. CASE LogOutArrives(q)
  <2>1. jar' = [jar EXCEPT ![BrowserOf[w]] = IF answer[q] = "clear" THEN None ELSE @]
        /\ access' = [access EXCEPT ![BrowserOf[w]] = None] /\ page' = [page EXCEPT ![w] = "login"]
        /\ call[q] = "logout"
    BY <1>0, <1>8, FaultCounts DEF LogOutArrives
  <2>2. cookie[q] = jar[BrowserOf[w]] /\ made[q] = None /\ ~redirecting[w]
    BY <1>0, <2>1 DEF CallOK
  <2>3. answer[q] \in {"clear", "error"}
    <3>1. answer[q] \in Answers
      BY <1>0a
    <3> QED  BY <1>0, <1>3, <2>2, <3>1 DEF QuietCall, CarriesOK, Answers
  <2>4. jar'[BrowserOf[w]] = None /\ access'[BrowserOf[w]] = None /\ page'[w] = "login"
        /\ (\A b \in Browsers \ {BrowserOf[w]} : jar'[b] = jar[b] /\ access'[b] = access[b])
        /\ \A v \in Tabs \ {w} : page'[v] = page[v]
    BY <1>0, <1>0a, <1>3, <2>1, <2>2, <2>3 DEF QuietCall
  <2>5. jar[BrowserOf[w]] \notin Live
    BY <1>0, <1>3, <1>4, <2>2, <2>3 DEF QuietCall, Live
  <2>6. QuietTab(w)'
    BY <1>1, <2>2, <2>4 DEF QuietTab
  <2> QED  BY <1>5, <2>2, <2>4, <2>5, <2>6
<1> QED  BY <1>6, <1>7, <1>8

\* At the start nothing is under way.
LEMMA InitQuiet == Init => Quiet
<1> SUFFICES ASSUME Init PROVE Quiet
  OBVIOUS
<1>1. Live = {}
  BY DEF Init, TokensInit, Live, Rows
<1>2. \A q \in Requests : QuietCall(q)
  BY DEF Init, TokensInit, QuietCall
<1>3. \A w \in Tabs : QuietTab(w)
  BY PlacesAssumption DEF Init, QuietTab
<1> QED  BY <1>1, <1>2, <1>3 DEF Quiet, Remembered, Init, TokensInit

\* Every step that is no fault keeps the invariant.
LEMMA NextKeepsQuiet ==
    ASSUME QuietInv, OneTabEach, [Next]_vars
    PROVE  QuietInv'
<1> USE DEF QuietInv
<1>0. LiveInv'
  BY NextKeepsLive
<1> SUFFICES ASSUME faults' = 0 PROVE Quiet'
  BY <1>0
<1>1. faults = 0
  <2>1. CASE UNCHANGED vars
    BY <2>1 DEF vars, tokenVars
  <2>2. faults \in Nat
    BY DEF LiveInv, TypesOK
  <2>3. ~Fails
    BY FaultCounts
  <2>4. ASSUME NEW q \in Requests, Progress(q) PROVE faults' = faults
    BY <2>3, <2>4 DEF Progress, Handles, Handle, ReadToken, RevokeAll, MarkExpired, RevokeCurrent, InsertSuccessor,
           LookUpUser, Login, Logout, Ok, Ends, Unauthorized, RefreshStart, RefreshSucceeds, Deliver, RefreshFails,
           RetryEnds, RetryThrows, Dropped, LogInArrives, LogOutArrives, tokenVars
  <2>5. ASSUME NEW q \in Requests, Send(q) \/ LogIn(q) \/ LogOut(q) PROVE faults' = faults
    BY <2>5 DEF Send, LogIn, LogOut, LoginStart, LogoutStart, tokenVars
  <2>6. ASSUME NEW w \in Tabs, Unload(w) \/ Open(w) PROVE faults' = faults
    BY <2>6 DEF Unload, Open, tokenVars
  <2>7. ASSUME NEW t \in Tokens, AccessExpires(t) \/ RefreshTokenExpires(t) PROVE faults' = faults
    BY <2>7 DEF AccessExpires, RefreshTokenExpires, Expire, tokenVars
  <2> QED  BY <2>1, <2>4, <2>5, <2>6, <2>7 DEF Next, OutOfTokens
<1>2. Quiet
  BY <1>1
<1>3. ASSUME NEW q \in Requests, Progress(q) PROVE Quiet'
  <2>1. CASE Handles(q)
    BY <1>2, <2>1, HandlesKeepQuiet
  <2>2. CASE Ends(q) \/ RetryEnds(q) \/ RetryThrows(q) \/ (Unauthorized(q) /\ refreshing[TabOf[q]])
    <3>1. EndpointsStay
      BY <2>2 DEF EndpointsStay, Ends, RetryEnds, RetryThrows, Unauthorized,
                  tokenVars, tableVars, handlerVars, historyVars, storeVars
    <3> QED  BY <1>2, <2>2, <3>1, CallsKeepQuiet
  <2>3. CASE Unauthorized(q) /\ ~refreshing[TabOf[q]]
    BY <1>2, <2>3, StartKeepsQuiet
  <2>4. CASE RefreshSucceeds(q) \/ RefreshFails(q)
    BY <1>2, <2>4, RefreshEndKeepsQuiet
  <2>5. CASE Dropped(q) \/ LogInArrives(q) \/ LogOutArrives(q)
    BY <1>2, <2>5, OtherEndsKeepQuiet
  <2> QED  BY <1>3, <2>1, <2>2, <2>3, <2>4, <2>5 DEF Progress
<1>4. ASSUME NEW q \in Requests, Send(q) PROVE Quiet'
  <2>1. EndpointsStay
    BY <1>4 DEF EndpointsStay, Send, tokenVars, tableVars, handlerVars, historyVars, storeVars
  <2> QED  BY <1>2, <1>4, <2>1, CallsKeepQuiet
<1>5. ASSUME NEW q \in Requests, LogIn(q) \/ LogOut(q) PROVE Quiet'
  BY <1>2, <1>5, StartKeepsQuiet
<1>6. ASSUME NEW w \in Tabs, Unload(w) PROVE Quiet'
  BY <1>2, <1>6, UnloadKeepsQuiet
<1>7. ASSUME NEW w \in Tabs, Open(w) PROVE Quiet'
  BY <1>2, <1>7 DEF Open, Quiet, QuietTab
<1>8. ASSUME EndpointsStay, ended' = ended, call' = call, UNCHANGED <<access, page, redirecting>> PROVE Quiet'
  <2>1. \A w \in Tabs : QuietTab(w)'
    BY <1>2, <1>8, SameTabStaysQuiet DEF Quiet
  <2> QED  BY <1>2, <1>8, <2>1, ClientKeepsQuiet
<1>9. ASSUME NEW t \in Tokens, AccessExpires(t) \/ RefreshTokenExpires(t) PROVE Quiet'
  <2>1. EndpointsStay /\ ended' = ended /\ call' = call /\ UNCHANGED <<access, page, redirecting>>
    BY <1>9 DEF AccessExpires, RefreshTokenExpires, Expire, EndpointsStay, tokenVars, tableVars, handlerVars,
                historyVars, storeVars, clientVars, tabVars
  <2> QED  BY <1>8, <2>1
<1>10. CASE UNCHANGED vars
  <2>1. EndpointsStay /\ ended' = ended /\ call' = call /\ UNCHANGED <<access, page, redirecting>>
    BY <1>10 DEF vars, EndpointsStay, tokenVars, tableVars, handlerVars, historyVars, storeVars, clientVars, tabVars
  <2> QED  BY <1>8, <2>1
<1> QED  BY <1>3, <1>4, <1>5, <1>6, <1>7, <1>9, <1>10 DEF Next, OutOfTokens

\* While nothing fails the client never presents a used token, so nobody is
\* taken for a thief.
THEOREM NobodyIsAccused == OneTabEach => (Spec => []NoFalseReuse)
<1> SUFFICES ASSUME OneTabEach PROVE Spec => []NoFalseReuse
  OBVIOUS
<1>1. QuietInv /\ [Next]_vars => QuietInv'
  BY NextKeepsQuiet
<1>2. QuietInv => NoFalseReuse
  BY DEF QuietInv, Quiet, NoFalseReuse
<1>3. Init => QuietInv
  BY InitLive, InitQuiet DEF QuietInv
<1> QED  BY <1>1, <1>2, <1>3, PTL DEF Spec

\* While nothing fails a tab of the application that waits for no answer of
\* the session endpoints has a cookie for its next refresh.
THEOREM NextRefreshWorks == OneTabEach => (Spec => []CookieIsLive)
<1> SUFFICES ASSUME OneTabEach PROVE Spec => []CookieIsLive
  OBVIOUS
<1>1. QuietInv /\ [Next]_vars => QuietInv'
  BY NextKeepsQuiet
<1>2. QuietInv => CookieIsLive
  <2> SUFFICES ASSUME QuietInv, faults = 0, NEW w \in Tabs, page[w] = "app", ~redirecting[w],
                      \A q \in CallsOf(w) : at[q] = "idle"
               PROVE  jar[BrowserOf[w]] \in Live
    BY DEF CookieIsLive
  <2>1. QuietTab(w) /\ LiveInv
    BY DEF QuietInv, Quiet
  <2>2. ASSUME NEW q \in CallsOf(w), call[q] \in {"refreshing", "logout"} PROVE FALSE
    BY <2>1, <2>2 DEF LiveInv, TabsOK, CallOK, CallsOf, RefreshStatements
  <2> QED  BY <2>1, <2>2 DEF QuietTab
<1>3. Init => QuietInv
  BY InitLive, InitQuiet DEF QuietInv
<1> QED  BY <1>1, <1>2, <1>3, PTL DEF Spec

\* While nothing fails every usable token is in a cookie or in an answer.
THEOREM EveryTokenIsHeld == OneTabEach => (Spec => []NoForgottenToken)
<1> SUFFICES ASSUME OneTabEach PROVE Spec => []NoForgottenToken
  OBVIOUS
<1>1. QuietInv /\ [Next]_vars => QuietInv'
  BY NextKeepsQuiet
<1>2. QuietInv => NoForgottenToken
  BY DEF QuietInv, Quiet, Remembered, NoForgottenToken
<1>3. Init => QuietInv
  BY InitLive, InitQuiet DEF QuietInv
<1> QED  BY <1>1, <1>2, <1>3, PTL DEF Spec

=============================================================================
