------------------------------ MODULE Sessions ------------------------------
(***************************************************************************)
(* Login, refresh-token rotation, logout and device revocation of the      *)
(* backend (AuthService, SessionService, SessionRepository), as concurrent *)
(* HTTP requests. Each request runs in one READ COMMITTED transaction:     *)
(*                                                                         *)
(*   - a SELECT sees the committed rows only and takes no lock;            *)
(*   - an UPDATE writes the columns the handler assigned, at flush, and    *)
(*     holds the row's lock until the transaction ends;                    *)
(*   - get_db_session commits when the handler returned and rolls back     *)
(*     when it raised. The commit is the exit code of a yield dependency,  *)
(*     which FastAPI (0.139, see uv.lock) runs after the response is sent. *)
(*                                                                         *)
(* So a request goes through reads, a flush, its response and its commit,  *)
(* and other requests run in between.                                      *)
(***************************************************************************)
EXTENDS Naturals, FiniteSets

CONSTANTS Requests,     \* slots for requests being served at the same time
          Users,        \* accounts with a verified email
          SessionIds,   \* primary keys uuid4 can draw for table sessions
          NoUser, NoSession,
          MaxTokens,    \* bound on the refresh tokens drawn
          RefreshTtl,   \* settings.jwt_refresh_token_ttl_seconds, in clock ticks
          AccessTtl,    \* settings.jwt_access_token_ttl_seconds, in clock ticks
          MaxNow        \* bound on the clock

ASSUME TtlAssumption ==
    /\ RefreshTtl \in Nat \ {0}
    /\ AccessTtl \in Nat \ {0}
    /\ MaxNow \in Nat
    /\ MaxTokens \in Nat

ASSUME NullAssumption ==
    /\ NoUser \notin Users
    /\ NoSession \notin SessionIds

\* Refresh tokens (and their SHA3-256 hashes, one for one), named in the order in
\* which secrets.token_urlsafe draws them: a draw never repeats an earlier token.
Tokens == 1 .. MaxTokens
NoToken == 0

VARIABLES
    now,        \* the wall clock every is_active check and every mint reads
    users,      \* users[u]: the committed column users.status
    sessions,   \* the committed rows of table sessions
    req,        \* what each request has read, flushed and answered so far
    accessExp,  \* accessExp[s]: exp of the newest access token minted for s, 0 if none
    minted,     \* the number of refresh tokens drawn so far
    issued,     \* refresh tokens put in a Set-Cookie of a response sent to a client
    spent,      \* history: tokens a committed rotation replaced
    denied      \* history: tokens whose refresh was answered 403 account_disabled

vars == <<now, users, sessions, req, accessExp, minted, issued, spent, denied>>

\* A row of table sessions. "none": there is no such row; "revoked": revoked_at is set.
NoRow == [state |-> "none", user_id |-> NoUser, hash |-> NoToken, expires_at |-> 0]

Row == [state: {"live", "revoked"}, user_id: Users, hash: Tokens, expires_at: Nat]

(***************************************************************************)
(* pc: the next step of the request.                                       *)
(* op: the write that has been flushed and that the commit will make visible.  *)
(***************************************************************************)
Request ==
    [pc: {"idle", "insert", "rotate", "user_check", "answer", "authed", "revoke", "commit"},
     op: {"none", "login", "refresh", "revoke"},
     user: Users \cup {NoUser}, sid: SessionIds \cup {NoSession},
     token: Tokens \cup {NoToken}, new: Tokens \cup {NoToken}, exp: Nat]

Idle == [pc |-> "idle", op |-> "none", user |-> NoUser, sid |-> NoSession,
         token |-> NoToken, new |-> NoToken, exp |-> 0]

TypeOK ==
    /\ now \in Nat
    /\ users \in [Users -> {"active", "disabled"}]
    /\ sessions \in [SessionIds -> Row \cup {NoRow}]
    /\ req \in [Requests -> Request]
    /\ accessExp \in [SessionIds -> Nat]
    /\ minted \in 0 .. MaxTokens
    /\ issued \in SUBSET Tokens
    /\ spent \in SUBSET Tokens
    /\ denied \in SUBSET Tokens

Init ==
    /\ now = 0
    /\ users = [u \in Users |-> "active"]
    /\ sessions = [s \in SessionIds |-> NoRow]
    /\ req = [r \in Requests |-> Idle]
    /\ accessExp = [s \in SessionIds |-> 0]
    /\ minted = 0
    /\ issued = {}
    /\ spent = {}
    /\ denied = {}

-----------------------------------------------------------------------------
(* Session.is_active, read against the clock at the moment of the check. *)
is_active(s) == sessions[s].state = "live" /\ sessions[s].expires_at > now

(***************************************************************************)
(* The row lock of an UPDATE: r holds it from the flush to the end of its  *)
(* transaction. A refresh has flushed once it reaches user_check.          *)
(***************************************************************************)
Holds(r, s) ==
    /\ req[r].sid = s
    /\ \/ req[r].pc \in {"user_check", "answer"}
       \/ req[r].pc = "commit" /\ req[r].op \in {"refresh", "revoke"}

RowUnlocked(s) == \A r \in Requests : ~Holds(r, s)

\* Bounds: the pools of tokens and uuids are finite. A request that will draw one is
\* received only while one is left for it, so that none waits for a pool for ever.
At(pcs) == {r \in Requests : req[r].pc \in pcs}

TokenLeft ==
    Cardinality(At({"insert", "rotate"})) < MaxTokens - minted

UuidLeft ==
    Cardinality(At({"insert"})) <
        Cardinality({s \in SessionIds : sessions[s].state = "none" /\ accessExp[s] = 0})

-----------------------------------------------------------------------------
(* POST /auth/login *)

\* Credentials, status, verified email and second factor have been checked.
LoginCheck(r, u) ==
    /\ req[r].pc = "idle"
    /\ users[u] = "active"
    /\ TokenLeft /\ UuidLeft
    /\ req' = [req EXCEPT ![r] = [Idle EXCEPT !.pc = "insert", !.user = u]]
    /\ UNCHANGED <<now, users, sessions, accessExp, minted, issued, spent, denied>>

\* Any of those checks raised: nothing was written, the rollback changes nothing.
LoginRefused(r) ==
    /\ req[r].pc = "idle"
    /\ UNCHANGED vars

\* create_session (INSERT under a new uuid), mint_access_token, set_refresh_cookie,
\* and the response; the row becomes visible at CommitLogin.
LoginInsert(r, s, t) ==
    /\ req[r].pc = "insert"
    /\ sessions[s].state = "none" /\ accessExp[s] = 0
    /\ t = minted + 1
    /\ req' = [req EXCEPT ![r] = [@ EXCEPT !.pc = "commit", !.op = "login", !.sid = s,
                                              !.new = t, !.exp = now + RefreshTtl]]
    /\ accessExp' = [accessExp EXCEPT ![s] = now + AccessTtl]
    /\ minted' = t
    /\ issued' = issued \cup {t}
    /\ UNCHANGED <<now, users, sessions, spent, denied>>

-----------------------------------------------------------------------------
(* POST /auth/refresh, with a cookie some client was given: the current one, *)
(* or one that was rotated out since.                                        *)

RefreshRead(r, t, s) ==
    /\ req[r].pc = "idle"
    /\ t \in issued
    /\ sessions[s].hash = t
    /\ is_active(s)
    /\ TokenLeft
    /\ req' = [req EXCEPT ![r] = [Idle EXCEPT !.pc = "rotate", !.sid = s, !.token = t]]
    /\ UNCHANGED <<now, users, sessions, accessExp, minted, issued, spent, denied>>

\* Unknown hash or inactive session: InvalidRefreshTokenError, 401.
RefreshInvalid(r, t) ==
    /\ req[r].pc = "idle"
    /\ t \in issued
    /\ \A s \in SessionIds : sessions[s].hash = t => ~is_active(s)
    /\ UNCHANGED vars

\* rotate_refresh_token: UPDATE ... SET refresh_token_hash, expires_at WHERE id = s.
RefreshRotate(r, t) ==
    /\ req[r].pc = "rotate"
    /\ RowUnlocked(req[r].sid)
    /\ t = minted + 1
    /\ req' = [req EXCEPT ![r] = [@ EXCEPT !.pc = "user_check", !.new = t,
                                              !.exp = now + RefreshTtl]]
    /\ minted' = t
    /\ UNCHANGED <<now, users, sessions, accessExp, issued, spent, denied>>

\* The account of the session is looked up, and is active.
UserCheck(r) ==
    /\ req[r].pc = "user_check"
    /\ users[sessions[req[r].sid].user_id] = "active"
    /\ req' = [req EXCEPT ![r] = [@ EXCEPT !.pc = "answer"]]
    /\ UNCHANGED <<now, users, sessions, accessExp, minted, issued, spent, denied>>

\* Mutant of RefreshAnswer: the cookie of the response is not replaced.
RefreshAnswerOldCookie(r) ==
    /\ req[r].pc = "answer"
    /\ req' = [req EXCEPT ![r] = [@ EXCEPT !.pc = "commit", !.op = "refresh"]]
    /\ accessExp' = [accessExp EXCEPT ![req[r].sid] = now + AccessTtl]
    /\ UNCHANGED <<now, users, sessions, minted, issued, spent, denied>>

\* mint_access_token, and the response with the new cookie. The account may have been
\* disabled since it was looked up.
RefreshAnswer(r) ==
    /\ req[r].pc = "answer"
    /\ req' = [req EXCEPT ![r] = [@ EXCEPT !.pc = "commit", !.op = "refresh"]]
    /\ accessExp' = [accessExp EXCEPT ![req[r].sid] = now + AccessTtl]
    /\ issued' = issued \cup {req[r].new}
    /\ UNCHANGED <<now, users, sessions, minted, spent, denied>>

\* The account is disabled: revoke() flushes, AccountDisabledError is raised, and
\* get_db_session rolls the rotation and the revocation back.
RefreshDisabled(r) ==
    /\ req[r].pc = "user_check"
    /\ users[sessions[req[r].sid].user_id] = "disabled"
    /\ denied' = denied \cup {req[r].token}
    /\ req' = [req EXCEPT ![r] = Idle]
    /\ UNCHANGED <<now, users, sessions, accessExp, minted, issued, spent>>

-----------------------------------------------------------------------------
(* Requests with a bearer token: get_current_session, then the handler. *)

\* The newest access token of s still verifies and its session is active.
Authenticate(r, s) ==
    /\ req[r].pc = "idle"
    /\ accessExp[s] > now
    /\ is_active(s)
    /\ req' = [req EXCEPT ![r] = [Idle EXCEPT !.pc = "authed", !.sid = s,
                                              !.user = sessions[s].user_id]]
    /\ UNCHANGED <<now, users, sessions, accessExp, minted, issued, spent, denied>>

\* POST /auth/logout: revoke the session the request came in on.
Logout(r) ==
    /\ req[r].pc = "authed"
    /\ req' = [req EXCEPT ![r] = [@ EXCEPT !.pc = "revoke"]]
    /\ UNCHANGED <<now, users, sessions, accessExp, minted, issued, spent, denied>>

\* DELETE /auth/sessions/{s}: one of the caller's own active sessions.
RevokeSession(r, s) ==
    /\ req[r].pc = "authed"
    /\ sessions[s].user_id = req[r].user
    /\ is_active(s)
    /\ req' = [req EXCEPT ![r] = [@ EXCEPT !.pc = "revoke", !.sid = s]]
    /\ UNCHANGED <<now, users, sessions, accessExp, minted, issued, spent, denied>>

\* SessionNotFoundError, or a request that writes no session (GET /auth/sessions, ...).
NothingToWrite(r) ==
    /\ req[r].pc = "authed"
    /\ req' = [req EXCEPT ![r] = Idle]
    /\ UNCHANGED <<now, users, sessions, accessExp, minted, issued, spent, denied>>

\* SessionRepository.revoke: UPDATE ... SET revoked_at WHERE id = s; the 204 is sent.
FlushRevoke(r) ==
    /\ req[r].pc = "revoke"
    /\ RowUnlocked(req[r].sid)
    /\ req' = [req EXCEPT ![r] = [@ EXCEPT !.pc = "commit", !.op = "revoke"]]
    /\ UNCHANGED <<now, users, sessions, accessExp, minted, issued, spent, denied>>

-----------------------------------------------------------------------------
(* The end of a transaction. get_db_session commits: what was flushed becomes  *)
(* visible, column by column (SQLAlchemy updates the columns that were assigned). *)

\* Mutant of CommitLogin: the row is stored without its owner.
CommitLoginUnowned(r) ==
    /\ req[r].pc = "commit" /\ req[r].op = "login"
    /\ sessions' = [sessions EXCEPT ![req[r].sid] =
                       [state |-> "live", user_id |-> NoUser,
                        hash |-> req[r].new, expires_at |-> req[r].exp]]
    /\ req' = [req EXCEPT ![r] = Idle]
    /\ UNCHANGED <<now, users, accessExp, minted, issued, spent, denied>>

\* The INSERT of a login: every column of a new row.
CommitLogin(r) ==
    /\ req[r].pc = "commit" /\ req[r].op = "login"
    /\ sessions' = [sessions EXCEPT ![req[r].sid] =
                       [state |-> "live", user_id |-> req[r].user,
                        hash |-> req[r].new, expires_at |-> req[r].exp]]
    /\ req' = [req EXCEPT ![r] = Idle]
    /\ UNCHANGED <<now, users, accessExp, minted, issued, spent, denied>>

\* Mutant of CommitRefresh: the session is extended under the token it was shown.
CommitRefreshSameToken(r) ==
    /\ req[r].pc = "commit" /\ req[r].op = "refresh"
    /\ sessions' = [sessions EXCEPT ![req[r].sid] =
                       [@ EXCEPT !.hash = req[r].token, !.expires_at = req[r].exp]]
    /\ spent' = spent \cup {sessions[req[r].sid].hash}
    /\ req' = [req EXCEPT ![r] = Idle]
    /\ UNCHANGED <<now, users, accessExp, minted, issued, denied>>

\* The UPDATE of a refresh: the two columns rotate_refresh_token assigned.
CommitRefresh(r) ==
    /\ req[r].pc = "commit" /\ req[r].op = "refresh"
    /\ sessions' = [sessions EXCEPT ![req[r].sid] =
                       [@ EXCEPT !.hash = req[r].new, !.expires_at = req[r].exp]]
    /\ spent' = spent \cup {sessions[req[r].sid].hash}
    /\ req' = [req EXCEPT ![r] = Idle]
    /\ UNCHANGED <<now, users, accessExp, minted, issued, denied>>

\* The UPDATE of a revocation: revoked_at.
CommitRevoke(r) ==
    /\ req[r].pc = "commit" /\ req[r].op = "revoke"
    /\ sessions' = [sessions EXCEPT ![req[r].sid] = [@ EXCEPT !.state = "revoked"]]
    /\ req' = [req EXCEPT ![r] = Idle]
    /\ UNCHANGED <<now, users, accessExp, minted, issued, spent, denied>>

\* The database connection or the process is lost, or the client hangs up: the
\* transaction is rolled back, whether or not the response was already sent.
Abort(r) ==
    /\ req[r].pc # "idle"
    /\ req' = [req EXCEPT ![r] = Idle]
    /\ UNCHANGED <<now, users, sessions, accessExp, minted, issued, spent, denied>>

-----------------------------------------------------------------------------
(* The environment *)

\* users.status is only ever read by the backend; an operator sets it.
Disable(u) ==
    /\ users[u] = "active"
    /\ users' = [users EXCEPT ![u] = "disabled"]
    /\ UNCHANGED <<now, sessions, req, accessExp, minted, issued, spent, denied>>

Tick ==
    /\ now < MaxNow
    /\ now' = now + 1
    /\ UNCHANGED <<users, sessions, req, accessExp, minted, issued, spent, denied>>

\* The steps a request takes by itself once it has been received.
Progress(r) ==
    \/ \E s \in SessionIds, t \in Tokens : LoginInsert(r, s, t)
    \/ \E t \in Tokens : RefreshRotate(r, t)
    \/ UserCheck(r)
    \/ RefreshAnswer(r)
    \/ RefreshDisabled(r)
    \/ Logout(r)
    \/ \E s \in SessionIds : RevokeSession(r, s)
    \/ NothingToWrite(r)
    \/ FlushRevoke(r)
    \/ CommitLogin(r)
    \/ CommitRefresh(r)
    \/ CommitRevoke(r)

Receive(r) ==
    \/ \E u \in Users : LoginCheck(r, u)
    \/ LoginRefused(r)
    \/ \E t \in Tokens, s \in SessionIds : RefreshRead(r, t, s)
    \/ \E t \in Tokens : RefreshInvalid(r, t)
    \/ \E s \in SessionIds : Authenticate(r, s)

Next ==
    \/ \E r \in Requests : Receive(r) \/ Progress(r) \/ Abort(r)
    \/ \E u \in Users : Disable(u)
    \/ Tick

Spec == Init /\ [][Next]_vars

-----------------------------------------------------------------------------
(* Properties *)

\* The refresh token a session accepts was sent to a client: no refresh, refused,
\* aborted or overtaken by another one, leaves the table with a hash whose raw
\* token nobody was given (the rotation of SessionService.refresh_session).
CurrentTokenDelivered ==
    \A s \in SessionIds : sessions[s].state # "none" => sessions[s].hash \in issued

\* Logout and device revocation are final: a refresh that read the session while it
\* was live and writes it after the revocation does not revive it.
RevokedForever ==
    [][\A s \in SessionIds :
          sessions[s].state = "revoked" => sessions'[s].state = "revoked"]_vars

\* The committed table, with requests and transactions hidden, implements SessionLife.
Life == INSTANCE SessionLife
            WITH life    <- [s \in SessionIds |-> sessions[s].state],
                 current <- [s \in SessionIds |-> sessions[s].hash]

\* Requests interleaved in any way change the session table only by the atomic
\* openings, rotations to a fresh token and final revocations of SessionLife.
ImplementsSessionLife == Life!Spec

\* SessionRepository.rotate_refresh_token: "a second redemption attempt with the same
\* raw token fails". A refresh that is answered with success redeems a token that no
\* committed rotation has replaced.
SingleRedemption ==
    \A r \in Requests :
        req[r].pc = "commit" /\ req[r].op = "refresh" => req[r].token \notin spent

\* What is left of it: a refresh that looks its token up after a rotation that replaced it
\* has committed is refused, so that only overlapping refreshes redeem one token twice.
ReplayIsRefused ==
    [][\A r \in Requests :
          req[r].pc = "idle" /\ req'[r].pc = "rotate" => req'[r].token \notin spent]_vars

\* The row locks of rotate_refresh_token and revoke: however refreshes and revocations
\* overlap, one transaction at a time has an uncommitted write of a session's row.
OneWriterPerRow ==
    \A r, q \in Requests, s \in SessionIds : Holds(r, s) /\ Holds(q, s) => r = q

\* AuthService.refresh: "a replayed old token is dead either way; revoke the session
\* outright too". A token refused with account_disabled opens no live session again.
DisabledRefreshKillsToken ==
    \A s \in SessionIds : sessions[s].hash \in denied => sessions[s].state = "revoked"
=============================================================================
