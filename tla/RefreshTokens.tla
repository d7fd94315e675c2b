---------------------------- MODULE RefreshTokens ----------------------------
(***************************************************************************)
(* The session endpoints of the backend (internal/auth): Login issues a    *)
(* refresh token, Refresh exchanges it for the next one and detects the    *)
(* reuse of a revoked one, Logout revokes it.  Every SQL statement is a    *)
(* step of its own: there is no transaction and no row lock, so requests   *)
(* with the same cookie interleave between any two statements.             *)
(***************************************************************************)
EXTENDS Naturals, FiniteSets

CONSTANTS
    Requests,   \* requests in flight at the same time
    Users,
    NoUser,     \* the owner of a token that has no row
    MaxTokens,  \* bound: rows of refresh_tokens
    MaxFaults   \* bound: statements that fail, answers that are lost

Tokens == 1..MaxTokens
None == 0                   \* no cookie, no token

ASSUME UsersAssumption == NoUser \notin Users
\* Browsers have finitely many requests under way.
ASSUME RequestsAssumption == IsFiniteSet(Requests)
ASSUME BoundAssumption == MaxTokens \in Nat /\ MaxFaults \in Nat

VARIABLES
    \* the table refresh_tokens
    owner,       \* owner[t]: user_id, NoUser while there is no row
    replaces,    \* replaces[t]: the token of which t is the successor
    revoked,     \* tokens with revoked = true
    expired,     \* tokens whose expires_at has passed
    \* the handlers
    at,          \* at[q]: the statement request q executes next
    cookie,      \* cookie[q]: the refresh token the request came with
    made,        \* made[q]: the token request q issues
    answer,      \* answer[q]: what q is answered, see Answers
    faults,      \* faults so far
    \* history
    session,     \* session[t]: the login t descends from
    ended        \* sessions that existed at an answer token_reuse

tableVars == <<owner, replaces, revoked, expired>>
handlerVars == <<at, cookie, made, answer>>
historyVars == <<session, ended>>
tokenVars == <<tableVars, handlerVars, historyVars, faults>>

Statements == {"read", "revokeAll", "markExpired", "revoke", "insert", "user",
               "login", "logout"}
\* "tokens" sets the cookie to made[q], "clear" clears it, "error" keeps it.
Answers == {"none", "tokens", "clear", "error"}

Rows == {t \in Tokens : owner[t] # NoUser}
Live == Rows \ revoked
Fresh == Cardinality(Rows) + 1

\* Every request under way could still issue a token: the bound holds back
\* the requests that would not fit, never a handler that runs.
Room ==
    Cardinality(Rows) + Cardinality({q \in Requests : at[q] # "idle"}) < MaxTokens

TokensInit ==
    /\ owner = [t \in Tokens |-> NoUser]
    /\ replaces = [t \in Tokens |-> None]
    /\ revoked = {}
    /\ expired = {}
    /\ at = [q \in Requests |-> "idle"]
    /\ cookie = [q \in Requests |-> None]
    /\ made = [q \in Requests |-> None]
    /\ answer = [q \in Requests |-> "none"]
    /\ faults = 0
    /\ session = [t \in Tokens |-> None]
    /\ ended = {}

Ok == UNCHANGED faults
Fails == faults < MaxFaults /\ faults' = faults + 1
Step(q, s) == at' = [at EXCEPT ![q] = s] /\ UNCHANGED <<cookie, made, answer>>
Reply(q, a) ==
    /\ at' = [at EXCEPT ![q] = "answered"]
    /\ answer' = [answer EXCEPT ![q] = a]
    /\ UNCHANGED <<cookie, made>>
Revoke(ts) == revoked' = revoked \cup ts /\ UNCHANGED <<owner, replaces, expired>>

\* INSERT INTO refresh_tokens: the row of a token of user u that replaces t
\* (None after a login).
Insert(q, u, t) ==
    /\ owner' = [owner EXCEPT ![Fresh] = u]
    /\ replaces' = [replaces EXCEPT ![Fresh] = t]
    /\ session' = [session EXCEPT ![Fresh] = IF t = None THEN Fresh ELSE session[t]]
    /\ made' = [made EXCEPT ![q] = Fresh]
    /\ UNCHANGED <<revoked, expired, ended, cookie>>

-----------------------------------------------------------------------------
(* Refresh                                                                 *)

RefreshStart(q, c) ==
    /\ at[q] = "idle"
    /\ Room
    /\ at' = [at EXCEPT ![q] = IF c = None THEN "answered" ELSE "read"]
    /\ answer' = [answer EXCEPT ![q] = IF c = None THEN "error" ELSE "none"]
    /\ cookie' = [cookie EXCEPT ![q] = c]
    /\ UNCHANGED <<made, tableVars, historyVars, faults>>

\* Mutant: reuse is not detected.
ReadAnyToken(q) ==
    /\ at[q] = "read"
    /\ Ok
    /\ Step(q, IF cookie[q] \in expired THEN "markExpired" ELSE "revoke")
    /\ UNCHANGED <<tableVars, historyVars>>

\* The row is read once; what follows relies on what it said then.
ReadToken(q) ==
    /\ at[q] = "read"
    /\ \/ /\ Ok
          /\ Step(q, IF cookie[q] \in revoked THEN "revokeAll"
                     ELSE IF cookie[q] \in expired THEN "markExpired"
                     ELSE "revoke")
       \/ Fails /\ Reply(q, "error")
    /\ UNCHANGED <<tableVars, historyVars>>

\* revokeAllUserTokens, whose error is discarded, and the answer token_reuse.
RevokeAll(q) ==
    LET theirs == {t \in Rows : owner[t] = owner[cookie[q]]} IN
    /\ at[q] = "revokeAll"
    /\ \/ Ok /\ Revoke(theirs)
       \/ Fails /\ UNCHANGED tableVars
    /\ Reply(q, "clear")
    /\ ended' = ended \cup {session[t] : t \in theirs}
    /\ UNCHANGED session

MarkExpired(q) ==
    /\ at[q] = "markExpired"
    /\ \/ Ok /\ Revoke({cookie[q]})
       \/ Fails /\ UNCHANGED tableVars
    /\ Reply(q, "clear")
    /\ UNCHANGED historyVars

\* Mutant: the UPDATE names the successor, which has no row yet.
RevokeNothing(q) ==
    /\ at[q] = "revoke"
    /\ Ok
    /\ Step(q, "insert")
    /\ UNCHANGED <<tableVars, historyVars>>

\* The UPDATE does not ask whether the row still is unrevoked.
RevokeCurrent(q) ==
    /\ at[q] = "revoke"
    /\ \/ Ok /\ Revoke({cookie[q]}) /\ Step(q, "insert")
       \/ Fails /\ UNCHANGED tableVars /\ Reply(q, "error")
    /\ UNCHANGED historyVars

InsertSuccessor(q) ==
    /\ at[q] = "insert"
    /\ \/ /\ Ok
          /\ Insert(q, owner[cookie[q]], cookie[q])
          /\ at' = [at EXCEPT ![q] = "user"]
          /\ UNCHANGED answer
       \/ Fails /\ Reply(q, "error") /\ UNCHANGED <<tableVars, historyVars>>

LookUpUser(q) ==
    /\ at[q] = "user"
    /\ \/ Ok /\ Reply(q, "tokens")
       \/ Fails /\ Reply(q, "error")
    /\ UNCHANGED <<tableVars, historyVars>>

-----------------------------------------------------------------------------
(* Login and Logout                                                        *)

\* Login up to the password check, which a wrong password ends.
LoginStart(q) ==
    /\ at[q] = "idle"
    /\ Room
    /\ at' = [at EXCEPT ![q] = "login"]
    /\ UNCHANGED <<cookie, made, answer, tableVars, historyVars, faults>>

\* The error of the UPDATE of last_login is discarded, it is part of this step.
Login(q, u) ==
    /\ at[q] = "login"
    /\ \/ /\ Ok
          /\ Insert(q, u, None)
          /\ at' = [at EXCEPT ![q] = "answered"]
          /\ answer' = [answer EXCEPT ![q] = "tokens"]
       \/ Fails /\ Reply(q, "error") /\ UNCHANGED <<tableVars, historyVars>>

LogoutStart(q, c) ==
    /\ at[q] = "idle"
    /\ at' = [at EXCEPT ![q] = IF c = None THEN "answered" ELSE "logout"]
    /\ answer' = [answer EXCEPT ![q] = IF c = None THEN "error" ELSE "none"]
    /\ cookie' = [cookie EXCEPT ![q] = c]
    /\ UNCHANGED <<made, tableVars, historyVars, faults>>

\* Mutant: the cookie is cleared, the row left alone.
LogoutCookieOnly(q) ==
    /\ at[q] = "logout"
    /\ Ok
    /\ Reply(q, "clear")
    /\ UNCHANGED <<tableVars, historyVars>>

Logout(q) ==
    /\ at[q] = "logout"
    /\ \/ Ok /\ Revoke({cookie[q]})
       \/ Fails /\ UNCHANGED tableVars
    /\ Reply(q, "clear")
    /\ UNCHANGED historyVars

\* The answer is on its way; the request slot is free again.
Answered(q) ==
    /\ at[q] = "answered"
    /\ at' = [at EXCEPT ![q] = "idle"]
    /\ cookie' = [cookie EXCEPT ![q] = None]
    /\ made' = [made EXCEPT ![q] = None]
    /\ answer' = [answer EXCEPT ![q] = "none"]
    /\ UNCHANGED <<tableVars, historyVars>>

\* expires_at passes.
Expire(t) ==
    /\ t \in Live \ expired
    /\ expired' = expired \cup {t}
    /\ UNCHANGED <<owner, replaces, revoked, handlerVars, historyVars, faults>>

Handle(q, u) ==
    \/ ReadToken(q) \/ RevokeAll(q) \/ MarkExpired(q) \/ RevokeCurrent(q)
    \/ InsertSuccessor(q) \/ LookUpUser(q) \/ Login(q, u) \/ Logout(q)
=============================================================================
