------------------------------- MODULE Session -------------------------------
(***************************************************************************)
(* The frontend's API client (frontend/src/api/client.ts) on top of the    *)
(* session endpoints.  Each tab runs its own client: a module-level flag   *)
(* isRefreshing, a queue of requests that wait for the refresh, and a      *)
(* redirect to the login page when the refresh fails.  The tabs of a       *)
(* browser share the refresh cookie and the access token in localStorage.  *)
(* JavaScript runs a continuation to the next await without interruption,  *)
(* so what happens between two awaits is one step.                         *)
(*                                                                         *)
(* An access token is named by the refresh token it was issued with.       *)
(***************************************************************************)
EXTENDS RefreshTokens

CONSTANTS
    Browsers,
    Tabs,
    UserOf,        \* UserOf[b]: who logs in in browser b
    BrowserOf,     \* BrowserOf[w]: the browser of tab w
    TabOf,         \* TabOf[q]: the tab that sends request q
    LogoutAnytime  \* may requests be under way in a tab while it logs out

ASSUME PlacesAssumption ==
    /\ UserOf \in [Browsers -> Users]
    /\ BrowserOf \in [Tabs -> Browsers]
    /\ TabOf \in [Requests -> Tabs]
    /\ LogoutAnytime \in BOOLEAN

VARIABLES
    jar,         \* jar[b]: the refresh cookie
    access,      \* access[b]: the access token in localStorage
    stale,       \* access tokens that are past their expiry
    call,        \* call[q]: what the client's request q waits for
    bearer,      \* bearer[q]: the access token it was sent with
    refreshing,  \* isRefreshing of a tab
    redirecting, \* the tab is about to load the login page
    page         \* the page a tab shows

storeVars == <<jar, access>>
clientVars == <<call, bearer>>
tabVars == <<refreshing, redirecting, page>>
vars == <<tokenVars, storeVars, stale, clientVars, tabVars>>

Calls == {"idle", "sent", "queued", "refreshing", "retry", "ownRetry", "login",
          "logout", "gone"}

Browser(q) == BrowserOf[TabOf[q]]
CallsOf(w) == {q \in Requests : TabOf[q] = w}
\* failedQueue
Queue(w) == {q \in CallsOf(w) : call[q] = "queued"}
AllIdle(w) == \A q \in CallsOf(w) : call[q] = "idle"
SetCall(q, c) == call' = [call EXCEPT ![q] = c]
\* The requests qs are settled.
Settle(qs) ==
    /\ call' = [q \in Requests |-> IF q \in qs THEN "idle" ELSE call[q]]
    /\ bearer' = [q \in Requests |-> IF q \in qs THEN None ELSE bearer[q]]
Valid(t) == t # None /\ t \notin stale

Init ==
    /\ TokensInit
    /\ jar = [b \in Browsers |-> None]
    /\ access = [b \in Browsers |-> None]
    /\ stale = {}
    /\ call = [q \in Requests |-> "idle"]
    /\ bearer = [q \in Requests |-> None]
    /\ refreshing = [w \in Tabs |-> FALSE]
    /\ redirecting = [w \in Tabs |-> FALSE]
    /\ page = [w \in Tabs |-> "login"]

-----------------------------------------------------------------------------
(* request                                                                 *)

Send(q) ==
    /\ page[TabOf[q]] = "app"
    /\ call[q] = "idle"
    /\ LogoutAnytime \/ \A p \in CallsOf(TabOf[q]) : call[p] # "logout"
    /\ SetCall(q, "sent")
    /\ bearer' = [bearer EXCEPT ![q] = access[Browser(q)]]
    /\ UNCHANGED <<tokenVars, storeVars, stale, tabVars>>

\* Any outcome but a 401 ends the request; a network error throws.
Ends(q) ==
    /\ call[q] = "sent"
    /\ IF Valid(bearer[q]) THEN Ok ELSE Fails
    /\ Settle({q})
    /\ UNCHANGED <<tableVars, handlerVars, historyVars, storeVars, stale, tabVars>>

\* Mutant: isRefreshing is not looked at.
AlwaysRefresh(q) ==
    /\ call[q] = "sent"
    /\ ~Valid(bearer[q])
    /\ SetCall(q, "refreshing")
    /\ refreshing' = [refreshing EXCEPT ![TabOf[q]] = TRUE]
    /\ RefreshStart(q, jar[Browser(q)])
    /\ UNCHANGED <<storeVars, stale, bearer, redirecting, page>>

\* A 401: wait for the refresh that is under way, or start one.
Unauthorized(q) ==
    LET w == TabOf[q] IN
    /\ call[q] = "sent"
    /\ ~Valid(bearer[q])
    /\ \/ /\ refreshing[w]
          /\ SetCall(q, "queued")
          /\ UNCHANGED <<tokenVars, refreshing>>
       \/ /\ ~refreshing[w]
          /\ SetCall(q, "refreshing")
          /\ refreshing' = [refreshing EXCEPT ![w] = TRUE]
          /\ RefreshStart(q, jar[BrowserOf[w]])
    /\ UNCHANGED <<storeVars, stale, bearer, redirecting, page>>

\* processQueue(null, newToken): everybody in the queue and the request itself
\* are sent again.  isRefreshing stays set until the request itself is done.
Deliver(q, newCookie, newToken) ==
    LET w == TabOf[q] IN
    /\ call[q] = "refreshing"
    /\ answer[q] = "tokens"
    /\ Answered(q)
    /\ Ok
    /\ jar' = [jar EXCEPT ![BrowserOf[w]] = newCookie]
    /\ access' = [access EXCEPT ![BrowserOf[w]] = made[q]]
    /\ call' = [p \in Requests |-> CASE p = q -> "ownRetry"
                                     [] p \in Queue(w) -> "retry"
                                     [] OTHER -> call[p]]
    /\ bearer' = [p \in Requests |-> CASE p = q -> made[q]
                                       [] p \in Queue(w) -> newToken
                                       [] OTHER -> bearer[p]]
    /\ UNCHANGED <<stale, tabVars>>

\* Mutant: the fetch goes without credentials, the new cookie is not stored.
SucceedsWithoutCookie(q) == Deliver(q, jar[Browser(q)], made[q])
RefreshSucceeds(q) == Deliver(q, made[q], made[q])

\* The catch block and the finally: the queue is rejected, the access token
\* is removed and the tab is sent to the login page.
Catch(q) ==
    LET w == TabOf[q] IN
    /\ Settle(Queue(w) \cup {q})
    /\ access' = [access EXCEPT ![BrowserOf[w]] = None]
    /\ redirecting' = [redirecting EXCEPT ![w] = TRUE]
    /\ refreshing' = [refreshing EXCEPT ![w] = FALSE]
    /\ UNCHANGED <<stale, page>>

\* Mutant: isRefreshing is reset after a success only.
FailsStillRefreshing(q) ==
    LET w == TabOf[q] IN
    /\ call[q] = "refreshing"
    /\ answer[q] # "tokens"
    /\ Answered(q)
    /\ Ok
    /\ jar' = [jar EXCEPT ![BrowserOf[w]] = IF answer[q] = "clear" THEN None ELSE @]
    /\ Settle(Queue(w) \cup {q})
    /\ access' = [access EXCEPT ![BrowserOf[w]] = None]
    /\ UNCHANGED <<stale, tabVars>>

\* The refresh is refused, or its answer is lost.
RefreshFails(q) ==
    LET b == Browser(q) IN
    /\ call[q] = "refreshing"
    /\ Answered(q)
    /\ \/ /\ answer[q] # "tokens"
          /\ Ok
          /\ jar' = [jar EXCEPT ![b] = IF answer[q] = "clear" THEN None ELSE @]
       \/ Fails /\ UNCHANGED jar
    /\ Catch(q)

\* The second fetch of a request ends, with whatever status.
RetryEnds(q) ==
    /\ call[q] \in {"retry", "ownRetry"}
    /\ Settle({q})
    /\ refreshing' = [refreshing EXCEPT ![TabOf[q]] = @ /\ call[q] = "retry"]
    /\ UNCHANGED <<tokenVars, storeVars, stale, redirecting, page>>

\* A network error of the second fetch is caught as a failed refresh.
RetryThrows(q) ==
    /\ call[q] = "ownRetry"
    /\ Fails
    /\ Catch(q)
    /\ UNCHANGED <<tableVars, handlerVars, historyVars, jar>>

\* The login page is loaded: the tab starts over.  The handlers of its
\* requests run on, nobody waits for their answers.
Unload(w) ==
    /\ redirecting[w]
    /\ call' = [q \in Requests |-> IF TabOf[q] # w THEN call[q]
                                   ELSE IF at[q] = "idle" THEN "idle" ELSE "gone"]
    /\ bearer' = [q \in Requests |-> IF TabOf[q] # w THEN bearer[q] ELSE None]
    /\ refreshing' = [refreshing EXCEPT ![w] = FALSE]
    /\ redirecting' = [redirecting EXCEPT ![w] = FALSE]
    /\ page' = [page EXCEPT ![w] = "login"]
    /\ UNCHANGED <<tokenVars, storeVars, stale>>

Dropped(q) ==
    /\ call[q] = "gone"
    /\ Answered(q)
    /\ Ok
    /\ SetCall(q, "idle")
    /\ UNCHANGED <<storeVars, stale, bearer, tabVars>>

-----------------------------------------------------------------------------
(* The login page, the user menu, a reload                                 *)

\* The button is disabled while a login is under way.
LogIn(q) ==
    /\ page[TabOf[q]] = "login"
    /\ call[q] = "idle"
    /\ \A p \in CallsOf(TabOf[q]) : call[p] # "login"
    /\ LoginStart(q)
    /\ SetCall(q, "login")
    /\ UNCHANGED <<storeVars, stale, bearer, tabVars>>

LogInArrives(q) ==
    LET b == Browser(q) IN
    /\ call[q] = "login"
    /\ Answered(q)
    /\ SetCall(q, "idle")
    /\ \/ /\ answer[q] = "tokens"
          /\ Ok
          /\ jar' = [jar EXCEPT ![b] = made[q]]
          /\ access' = [access EXCEPT ![b] = made[q]]
          /\ page' = [page EXCEPT ![TabOf[q]] = "app"]
       \/ /\ IF answer[q] = "tokens" THEN Fails ELSE Ok
          /\ UNCHANGED <<storeVars, page>>
    /\ UNCHANGED <<stale, bearer, refreshing, redirecting>>

LogOut(q) ==
    /\ page[TabOf[q]] = "app"
    /\ call[q] = "idle"
    /\ LogoutAnytime \/ (AllIdle(TabOf[q]) /\ ~redirecting[TabOf[q]])
    /\ LogoutStart(q, jar[Browser(q)])
    /\ SetCall(q, "logout")
    /\ UNCHANGED <<storeVars, stale, bearer, tabVars>>

\* handleLogout ignores an error and clears the local state in any case.
LogOutArrives(q) ==
    LET b == Browser(q) IN
    /\ call[q] = "logout"
    /\ Answered(q)
    /\ SetCall(q, "idle")
    /\ \/ Ok /\ jar' = [jar EXCEPT ![b] = IF answer[q] = "clear" THEN None ELSE @]
       \/ Fails /\ UNCHANGED jar
    /\ access' = [access EXCEPT ![b] = None]
    /\ page' = [page EXCEPT ![TabOf[q]] = "login"]
    /\ UNCHANGED <<stale, bearer, refreshing, redirecting>>

\* A tab is loaded in a browser whose localStorage has an access token.
Open(w) ==
    /\ page[w] = "login"
    /\ AllIdle(w)
    /\ access[BrowserOf[w]] # None
    /\ page' = [page EXCEPT ![w] = "app"]
    /\ UNCHANGED <<tokenVars, storeVars, stale, clientVars, refreshing, redirecting>>

\* Only of a token that somebody has does it make a difference.
AccessExpires(t) ==
    /\ t \in Rows \ stale
    /\ (\E b \in Browsers : access[b] = t) \/ (\E q \in Requests : bearer[q] = t)
    /\ stale' = stale \cup {t}
    /\ UNCHANGED <<tokenVars, storeVars, clientVars, tabVars>>

RefreshTokenExpires(t) == Expire(t) /\ UNCHANGED <<storeVars, stale, clientVars, tabVars>>

Handles(q) ==
    /\ Handle(q, UserOf[Browser(q)])
    /\ UNCHANGED <<storeVars, stale, clientVars, tabVars>>

\* MaxTokens rows are the bound of the model, not of the program.
OutOfTokens == ~Room /\ UNCHANGED vars

\* What goes on by itself once a request is sent.
Progress(q) ==
    \/ Handles(q) \/ Ends(q) \/ Unauthorized(q) \/ RefreshSucceeds(q)
    \/ RefreshFails(q) \/ RetryEnds(q) \/ RetryThrows(q) \/ Dropped(q)
    \/ LogInArrives(q) \/ LogOutArrives(q)

Next ==
    \/ \E q \in Requests : Progress(q) \/ Send(q) \/ LogIn(q) \/ LogOut(q)
    \/ \E w \in Tabs : Unload(w) \/ Open(w)
    \/ \E t \in Tokens : AccessExpires(t) \/ RefreshTokenExpires(t)
    \/ OutOfTokens

Spec == Init /\ [][Next]_vars

\* Statements, fetches and page loads end; nobody has to send, log in or out.
FairSpec ==
    /\ Spec
    /\ \A q \in Requests : WF_vars(Progress(q))
    /\ \A w \in Tabs : WF_vars(Unload(w))

-----------------------------------------------------------------------------
(* Properties                                                              *)

\* Rotation: a token that has a successor is revoked, whichever statement
\* failed in between.
UsedTokenIsRevoked ==
    \A t \in Rows : replaces[t] # None => replaces[t] \in revoked

\* A login never has two tokens that can be used, although neither Refresh nor
\* Logout takes a lock: a tab starts one refresh at a time.
OneLiveToken ==
    \A s, t \in Live : session[s] = session[t] => s = t

\* Nobody is taken for a thief: while no statement fails and no answer is
\* lost, the API client never presents a token that was used already.
NoFalseReuse == faults = 0 => ended = {}

\* While nothing fails, a tab of the application with no request at the
\* session endpoints has a cookie that can be used for the next refresh.
CookieIsLive ==
    faults = 0 =>
        \A w \in Tabs :
            (/\ page[w] = "app"
             /\ ~redirecting[w]
             /\ \A q \in CallsOf(w) : at[q] = "idle")
            => jar[BrowserOf[w]] \in Live

\* While nothing fails, every token that can be used is in a cookie or in an
\* answer: logging out or rotating leaves no usable token behind.
NoForgottenToken ==
    faults = 0 =>
        \A t \in Live :
            \/ \E b \in Browsers : jar[b] = t
            \/ \E q \in Requests : at[q] # "idle" /\ made[q] = t

\* A refresh comes to an end and lets the next one start, however it fails.
RefreshEnds == \A w \in Tabs : refreshing[w] ~> ~refreshing[w]

\* "If a revoked token is presented (reuse detection), ALL tokens for that user
\* are revoked": no session that existed then has a usable token afterwards.
ReuseEndsSessions == \A t \in Live : session[t] \notin ended
=============================================================================
