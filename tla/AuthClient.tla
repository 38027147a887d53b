----------------------------- MODULE AuthClient -----------------------------
(***************************************************************************)
(* The sign-in of one browser: the tabs' auth stores (authStore.ts) and    *)
(* request pipelines (apiClient.ts), the HttpOnly cookie the tabs share,   *)
(* and the endpoints of auth.py with the transactions they run in (Sessions *)
(* has these with the clock, the account and every abort). An access token *)
(* that expires is noticed as a 401; the request then waits for the tab's  *)
(* one refresh and is sent again.                                          *)
(*                                                                         *)
(* Tokens are numbered as they are issued: n is an access token and the    *)
(* refresh token answered with it. Access tokens expire in that order.     *)
(* A refresh looks its session up and rotates its token in two steps, and  *)
(* a write is committed or rolled back after it has been answered. The tab *)
(* handles an answer in a later step, with all that runs before the next   *)
(* await. A request that the server has not begun to serve is lost with    *)
(* the page that sent it; one that it has begun goes on.                   *)
(***************************************************************************)
EXTENDS Integers, FiniteSets

CONSTANTS Tabs, NoTab,
          Calls,        \* API calls under way at once, in all the tabs
          MaxTokens,    \* bound on the tokens issued
          Visited,      \* whether the cookie of an earlier visit is there
          MaxEvents     \* bound on expiries, page loads, revocations elsewhere and late commits

\* The cookie of an earlier visit has token 1.
ASSUME BoundAssumption ==
    MaxTokens \in Nat \ {0} /\ MaxEvents \in Nat /\ Visited \in BOOLEAN
ASSUME NoTabAssumption == NoTab \notin Tabs

VARIABLES
    login,      \* server: the login each token belongs to, named by its first token; 0: unissued
    life,       \* server, committed: "none", "live" or "revoked" for the session of each login
    current,    \* server, committed: the refresh token (its hash) of each session's row
    spent,      \* history: the tokens that a committed rotation replaced
    writing,    \* server: the token an open transaction has flushed to each row, 0 for none
    closing,    \* server: the sessions whose revocation is flushed and not yet committed
    lagging,    \* server: the sessions whose commit others may overtake (see CommitsKeepUp)
    expired,    \* access tokens up to this one have expired
    cookie,     \* the refresh token in the browser's cookie jar, 0 for none
    bearer,     \* apiClient: accessToken of each tab, 0 for null
    session,    \* authStore: the token of each tab's session, 0 for null
    booted,     \* authStore: tabs that are bootstrapped
    call,       \* the API calls under way
    events

table == <<life, current, spent>>
flushed == <<writing, closing, lagging>>
server == <<login, table, flushed, expired>>
vars == <<server, cookie, bearer, session, booted, call, events>>

Tokens == 1 .. MaxTokens
None == 0

\* kind "api": a page's request, loadProfile's included; "boot": the loadProfile that
\* restoreSession awaits; "gone": its tab has given it up,
\* the server has not. pc: sent, let in by the server (authed), answered (ok, refused),
\* waiting for another call's refresh, or redeeming the cookie itself (refresh; reading: its
\* session is looked up; rotated). carries: the bearer or cookie sent; got: the token answered;
\* captured: the session that loadProfile read before its request.
Call == [kind: {"none", "api", "boot", "restore", "login", "logout", "gone"},
         pc: {"sent", "authed", "ok", "refused", "waiting", "refresh", "reading", "rotated"},
         tab: Tabs \cup {NoTab}, retried: BOOLEAN, carries: 0 .. MaxTokens, got: 0 .. MaxTokens,
         captured: 0 .. MaxTokens]
NoCall == [kind |-> "none", pc |-> "sent", tab |-> NoTab, retried |-> FALSE,
           carries |-> None, got |-> None, captured |-> None]

TypeOK ==
    /\ login \in [Tokens -> 0 .. MaxTokens]
    /\ life \in [Tokens -> {"none", "live", "revoked"}]
    /\ current \in [Tokens -> 0 .. MaxTokens] /\ spent \in SUBSET Tokens
    /\ writing \in [Tokens -> 0 .. MaxTokens] /\ closing \in SUBSET Tokens
    /\ lagging \in SUBSET Tokens
    /\ expired \in 0 .. MaxTokens /\ cookie \in 0 .. MaxTokens
    /\ bearer \in [Tabs -> 0 .. MaxTokens] /\ session \in [Tabs -> 0 .. MaxTokens]
    /\ booted \in SUBSET Tabs
    /\ call \in [Calls -> Call]
    /\ events \in 0 .. MaxEvents

Init ==
    /\ cookie = IF Visited THEN 1 ELSE None
    /\ login = [n \in Tokens |-> IF n = cookie THEN 1 ELSE 0]
    /\ life = [l \in Tokens |-> IF l = cookie THEN "live" ELSE "none"]
    /\ current = [l \in Tokens |-> IF l = cookie THEN 1 ELSE None]
    /\ spent = {} /\ writing = [l \in Tokens |-> None] /\ closing = {}
    /\ lagging = {}
    /\ expired = 0 /\ events = 0
    /\ bearer = [t \in Tabs |-> None] /\ session = [t \in Tabs |-> None]
    /\ booted = {}
    /\ call = [c \in Calls |-> NoCall]

-----------------------------------------------------------------------------
(* Helpers *)

Issued == {n \in Tokens : login[n] # 0}
Fresh == Tokens \ Issued
NextToken == CHOOSE n \in Fresh : \A m \in Fresh : n <= m

\* get_current_session: the access token has not expired and its session is not revoked.
\* A login whose row is not committed yet has no session.
Accepted(n) == n > expired /\ life[login[n]] = "live"

\* No open transaction has written the row of login l, which would keep it locked.
Unlocked(l) == writing[l] = None /\ l \notin closing

Event == events < MaxEvents /\ events' = events + 1
Of(t, kinds) == {c \in Calls : call[c].tab = t /\ call[c].kind \in kinds}
Redeeming(c) == call[c].pc \in {"refresh", "reading", "rotated"}

\* tryRefresh: the calls of the tab that share its refreshInFlight.
Sharing(t) == {c \in Of(t, {"api", "boot"}) : Redeeming(c) \/ call[c].pc = "waiting"}

Is(c, rec) == call' = [call EXCEPT ![c] = rec]

\* What is left of a call its tab gives up: the transaction the server is at.
Dropped(c) ==
    IF call[c].pc \in {"reading", "authed"}
    THEN [NoCall EXCEPT !.kind = "gone", !.pc = call[c].pc, !.carries = call[c].carries]
    ELSE NoCall

\* The promise of call c settles; restoreSession ends by bootstrapping.
Booting(S) == {call[c].tab : c \in {d \in S : call[d].kind \in {"boot", "restore"}}}
End(c) == Is(c, Dropped(c)) /\ booted' = booted \cup Booting({c})

\* Mutant of Hydrate: the refresh leaves the bearer to the next login.
NotHydrated(t, n) == UNCHANGED bearer

\* authService: the bearer header is set before the caller of refresh goes on.
Hydrate(t, n) == bearer' = [bearer EXCEPT ![t] = n]

SignedOut(t) ==
    /\ bearer' = [bearer EXCEPT ![t] = None]
    /\ session' = [session EXCEPT ![t] = None]

-----------------------------------------------------------------------------
(* The calls a tab makes *)

Send(c, t, kind) ==
    /\ call[c].kind = "none"
    /\ Is(c, [NoCall EXCEPT !.kind = kind, !.tab = t,
                            !.carries = IF kind = "login" THEN None ELSE bearer[t],
                            !.captured = IF kind = "api" THEN session[t] ELSE None])
    /\ UNCHANGED <<server, cookie, bearer, session, booted, events>>

\* A page behind RequireAuth calls the API, loads the profile, or signs out.
PageCall(c, t) ==
    /\ t \in booted /\ session[t] # None
    /\ \E kind \in {"api", "logout"} : Send(c, t, kind)

\* The login page is shown without a session, or with one that RequireAuth finds expired.
Login(c, t) ==
    /\ t \in booted /\ session[t] <= expired
    /\ Of(t, {"login"}) = {}
    /\ Send(c, t, "login")

\* restoreSession: not twice, though effects may run twice.
RestoreGuard(t) == t \notin booted /\ Of(t, {"restore", "boot"}) = {}

\* AuthBootstrap renders nothing until this has redeemed the cookie, if there is one.
Restore(c, t) ==
    /\ RestoreGuard(t)
    /\ call[c].kind = "none"
    /\ Is(c, [NoCall EXCEPT !.kind = "restore", !.tab = t, !.pc = "refresh", !.carries = cookie])
    /\ UNCHANGED <<server, cookie, bearer, session, booted, events>>

-----------------------------------------------------------------------------
(* The server answers *)

\* The server's step of call c, whose answer a tab that is gone does not get.
Answer(c, pc, n) ==
    Is(c, IF call[c].kind = "gone" THEN NoCall
          ELSE [call[c] EXCEPT !.pc = pc, !.carries = None, !.got = n])

\* A new refresh token is flushed to the row of login l.
Issue(n, l) ==
    /\ login' = [login EXCEPT ![n] = l]
    /\ writing' = [writing EXCEPT ![l] = n]

\* create_session: the row is flushed, and committed after the answer.
ServeLogin(c) ==
    /\ call[c].kind = "login" /\ call[c].pc = "sent" /\ Fresh # {}
    /\ Issue(NextToken, NextToken)
    /\ Answer(c, "ok", NextToken)
    /\ UNCHANGED <<table, closing, lagging, expired, cookie, bearer, session, booted, events>>

\* get_current_session; logout then goes on to revoke, the other endpoints change nothing here.
Serve(c) ==
    /\ call[c].kind \in {"api", "boot", "logout"} /\ call[c].pc = "sent"
    /\ IF Accepted(call[c].carries) /\ call[c].kind = "logout"
       THEN Is(c, [call[c] EXCEPT !.pc = "authed"])
       ELSE Answer(c, IF Accepted(call[c].carries) THEN "ok" ELSE "refused", None)
    /\ UNCHANGED <<server, cookie, bearer, session, booted, events>>

\* POST /auth/logout: the revocation of the bearer's session is flushed and answered.
ServeLogout(c) ==
    LET l == login[call[c].carries] IN
    /\ call[c].pc = "authed" /\ Unlocked(l)
    /\ closing' = closing \cup {l}
    /\ Answer(c, "ok", None)
    /\ UNCHANGED <<login, table, writing, lagging, expired, cookie, bearer, session, booted,
                   events>>

\* POST /auth/refresh: the session of the cookie's token is looked up. (Without one that is
\* live the refresh is refused: RefreshFailed.)
ReadRefresh(c) ==
    LET raw == call[c].carries
        l == login[raw] IN
    /\ call[c].pc = "refresh" /\ raw # None
    /\ current[l] = raw /\ life[l] = "live"
    /\ Is(c, [call[c] EXCEPT !.pc = "reading"])
    /\ UNCHANGED <<server, cookie, bearer, session, booted, events>>

\* Its row gets a new token, whatever an overlapping request has made of it by now.
ServeRefresh(c) ==
    LET l == login[call[c].carries] IN
    /\ call[c].pc = "reading" /\ Unlocked(l) /\ Fresh # {}
    /\ Issue(NextToken, l)
    /\ Answer(c, "rotated", NextToken)
    /\ UNCHANGED <<table, closing, lagging, expired, cookie, bearer, session, booted, events>>

\* The transaction of a request whose client is gone is rolled back before it wrote.
Abandon(c) ==
    /\ call[c].kind = "gone"
    /\ Is(c, NoCall)
    /\ UNCHANGED <<server, cookie, bearer, session, booted, events>>

\* Mutant of CommitToken: the whole row is written as it was read.
CommitWholeRow(l) ==
    /\ writing[l] # None
    /\ life' = [life EXCEPT ![l] = "live"]
    /\ current' = [current EXCEPT ![l] = writing[l]]
    /\ spent' = spent \cup ({current[l]} \ {None})
    /\ writing' = [writing EXCEPT ![l] = None]
    /\ lagging' = lagging \ {l}
    /\ UNCHANGED <<login, closing, expired, cookie, bearer, session, booted, call, events>>

\* get_db_session commits what a login or a refresh flushed.
CommitToken(l) ==
    /\ writing[l] # None
    /\ life' = [life EXCEPT ![l] = IF @ = "none" THEN "live" ELSE @]
    /\ current' = [current EXCEPT ![l] = writing[l]]
    /\ spent' = spent \cup ({current[l]} \ {None})
    /\ writing' = [writing EXCEPT ![l] = None]
    /\ lagging' = lagging \ {l}
    /\ UNCHANGED <<login, closing, expired, cookie, bearer, session, booted, call, events>>

\* It commits a revocation.
CommitRevoke(l) ==
    /\ l \in closing
    /\ life' = [life EXCEPT ![l] = "revoked"]
    /\ closing' = closing \ {l}
    /\ lagging' = lagging \ {l}
    /\ UNCHANGED <<login, current, spent, writing, expired, cookie, bearer, session, booted,
                   call, events>>

\* The commit fails: the answer that was sent names a token, or a revocation, that is not.
Rollback(l) ==
    /\ l \in lagging
    /\ writing' = [writing EXCEPT ![l] = None]
    /\ closing' = closing \ {l}
    /\ lagging' = lagging \ {l}
    /\ UNCHANGED <<login, table, expired, cookie, bearer, session, booted, call, events>>

\* Bound: a commit that others overtake, or that fails, is one of the events.
Lag(l) ==
    /\ Event /\ ~Unlocked(l)
    /\ lagging' = lagging \cup {l}
    /\ UNCHANGED <<login, table, writing, closing, expired, cookie, bearer, session, booted, call>>

CommitsKeepUp == \A l \in Tokens : Unlocked(l) \/ l \in lagging

-----------------------------------------------------------------------------
(* The tab handles the answer *)

\* login() hydrates the bearer, handleSubmit signs in.
ReceiveLogin(c) ==
    LET t == call[c].tab
        n == call[c].got IN
    /\ call[c].kind = "login" /\ call[c].pc = "ok"
    /\ cookie' = n
    /\ bearer' = [bearer EXCEPT ![t] = n]
    /\ session' = [session EXCEPT ![t] = n]
    /\ booted' = booted \cup {t}
    /\ Is(c, NoCall)
    /\ UNCHANGED <<server, events>>

\* loadProfile, which may be any of the requests, spreads the session it read before.
ReceiveOk(c) ==
    LET t == call[c].tab IN
    /\ call[c].kind \in {"api", "boot"} /\ call[c].pc = "ok"
    /\ \/ call[c].kind = "api" /\ UNCHANGED session
       \/ session' = [session EXCEPT ![t] = call[c].captured]
    /\ End(c)
    /\ UNCHANGED <<server, cookie, bearer, events>>

\* handleLogout: the local state is cleared whatever the answer was; a 401 of an /auth route
\* is not retried, and only a 204 clears the cookie.
ReceiveLogout(c) ==
    /\ call[c].kind = "logout" /\ call[c].pc \in {"ok", "refused"}
    /\ cookie' = IF call[c].pc = "ok" THEN None ELSE cookie
    /\ SignedOut(call[c].tab)
    /\ Is(c, NoCall)
    /\ UNCHANGED <<server, booted, events>>

\* request: a 401 is worth a refresh once; refreshSession gives up without a session.
Retry(c) == ~call[c].retried /\ (session[call[c].tab] # None \/ Sharing(call[c].tab) # {})

\* Mutant of Shares: every 401 starts a refresh of its own.
NeverShares(c) == FALSE

Shares(c) == Sharing(call[c].tab) # {}

\* A 401: the call waits for the tab's refresh, starts it, or fails.
ReceiveRefused(c) ==
    /\ call[c].kind \in {"api", "boot"} /\ call[c].pc = "refused"
    /\ \/ /\ Retry(c) /\ Shares(c)
          /\ Is(c, [call[c] EXCEPT !.pc = "waiting", !.carries = None])
          /\ UNCHANGED booted
       \/ /\ Retry(c) /\ ~Shares(c)
          /\ Is(c, [call[c] EXCEPT !.pc = "refresh", !.carries = cookie])
          /\ UNCHANGED booted
       \/ ~Retry(c) /\ End(c)
    /\ UNCHANGED <<server, cookie, bearer, session, events>>

\* Mutant of Settle: calls whose refresh failed are kept.
SettleKept(t, ok, n) ==
    /\ call' = [c \in Calls |->
                  IF c \notin Sharing(t) THEN call[c]
                  ELSE IF ok THEN [call[c] EXCEPT !.pc = "sent", !.retried = TRUE, !.carries = n]
                  ELSE [call[c] EXCEPT !.pc = "failed"]]
    /\ booted' = IF ok THEN booted ELSE booted \cup Booting(Sharing(t))

\* The refresh of tab t has settled: its calls are sent again, or fail with their 401.
Settle(t, ok, n) ==
    /\ call' = [c \in Calls |->
                  IF c \notin Sharing(t) THEN call[c]
                  ELSE IF ok THEN [call[c] EXCEPT !.pc = "sent", !.retried = TRUE, !.carries = n]
                  ELSE Dropped(c)]
    /\ booted' = IF ok THEN booted ELSE booted \cup Booting(Sharing(t))

\* authService.refresh hydrates the bearer; then refreshSession reads the session again.
ReceiveRotated(c) ==
    LET t == call[c].tab
        n == call[c].got IN
    /\ call[c].kind # "restore" /\ call[c].pc = "rotated"
    /\ cookie' = n
    /\ Hydrate(t, n)
    /\ session' = [session EXCEPT ![t] = IF @ = None THEN None ELSE n]
    /\ Settle(t, session[t] # None, n)
    /\ UNCHANGED <<server, events>>

\* restoreSession sets a session, then awaits loadProfile.
ReceiveRestored(c) ==
    LET t == call[c].tab
        n == call[c].got IN
    /\ call[c].kind = "restore" /\ call[c].pc = "rotated"
    /\ cookie' = n
    /\ bearer' = [bearer EXCEPT ![t] = n]
    /\ session' = [session EXCEPT ![t] = n]
    /\ Is(c, [call[c] EXCEPT !.kind = "boot", !.pc = "sent", !.carries = n, !.captured = n])
    /\ UNCHANGED <<server, booted, events>>

\* Mutant of RefreshFailed: the 401 of a refresh is itself worth a refresh.
RefreshAwaitsItself(c) ==
    /\ call[c].kind # "gone" /\ Redeeming(c)
    /\ Is(c, [call[c] EXCEPT !.pc = "waiting"])
    /\ UNCHANGED <<server, cookie, bearer, session, booted, events>>

\* A refresh is refused, or it or its answer is lost: refreshSession signs out on any error,
\* restoreSession leaves the session null.
RefreshFailed(c) ==
    /\ call[c].kind # "gone" /\ Redeeming(c)
    /\ IF call[c].kind = "restore"
       THEN End(c) /\ UNCHANGED <<bearer, session>>
       ELSE SignedOut(call[c].tab) /\ Settle(call[c].tab, FALSE, None)
    /\ UNCHANGED <<server, cookie, events>>

\* A request or its answer is lost, or answered by another error.
Lose(c) ==
    /\ call[c].kind \notin {"none", "gone"} /\ call[c].pc \in {"sent", "authed", "ok", "refused"}
    /\ IF call[c].kind = "logout" THEN SignedOut(call[c].tab) ELSE UNCHANGED <<bearer, session>>
    /\ End(c)
    /\ UNCHANGED <<server, cookie, events>>

-----------------------------------------------------------------------------
(* The surroundings *)

Expire ==
    /\ Event /\ expired' = expired + 1 /\ expired' \in Issued
    /\ UNCHANGED <<login, table, flushed, cookie, bearer, session, booted, call>>

\* Another device revokes the session.
RevokeElsewhere(l) ==
    /\ Event /\ life[l] = "live" /\ Unlocked(l)
    /\ closing' = closing \cup {l}
    /\ UNCHANGED <<login, table, writing, lagging, expired, cookie, bearer, session, booted,
                   call>>

\* A reload: the tab's memory is gone, with its calls; what the server has begun goes on.
LoadPage(t) ==
    /\ Event
    /\ SignedOut(t)
    /\ booted' = booted \ {t}
    /\ call' = [c \in Calls |-> IF call[c].tab = t THEN Dropped(c) ELSE call[c]]
    /\ UNCHANGED <<server, cookie>>

\* The end of a transaction.
Ends(l) == CommitToken(l) \/ CommitRevoke(l) \/ Rollback(l) \/ Lag(l)

Next ==
    \/ \E l \in Tokens : Ends(l)
    \/ CommitsKeepUp /\ \E c \in Calls :
        \/ \E t \in Tabs : PageCall(c, t) \/ Login(c, t) \/ Restore(c, t)
        \/ ServeLogin(c) \/ Serve(c) \/ ServeLogout(c)
        \/ ReadRefresh(c) \/ ServeRefresh(c) \/ Abandon(c)
        \/ ReceiveLogin(c) \/ ReceiveOk(c) \/ ReceiveLogout(c)
        \/ ReceiveRefused(c) \/ ReceiveRotated(c) \/ ReceiveRestored(c)
        \/ RefreshFailed(c) \/ Lose(c)
    \/ CommitsKeepUp /\ \/ \E t \in Tabs : LoadPage(t)
                        \/ Expire
                        \/ \E l \in Tokens : RevokeElsewhere(l)

Spec == Init /\ [][Next]_vars

-----------------------------------------------------------------------------
(* Properties *)

\* authStore.ts, apiClient.ts: a tab never redeems the single-use cookie twice at once, by a
\* restore and a 401, by two restores, or by two calls that are refused together.
OneRefreshPerTab ==
    \A t \in Tabs : Cardinality({c \in Calls : call[c].tab = t /\ Redeeming(c)}) <= 1

\* Of one login, the store never shows a newer token than the one requests are sent with,
\* whichever of refresh, restore and profile answers came in between, and in which tab.
SessionNotAheadOfBearer ==
    \A t \in Tabs : session[t] # None /\ bearer[t] # None /\ login[session[t]] = login[bearer[t]]
                    => session[t] <= bearer[t]

\* A call that waits for a refresh has one to wait for, of another call: no call waits for
\* itself, for a refresh that has settled, or for one that went with its page.
WaitersHaveARefresh ==
    \A c \in Calls : call[c].kind # "none" /\ call[c].pc = "waiting"
        => \E d \in Sharing(call[c].tab) : Redeeming(d)

\* authStore.ts: an answer that comes late "must not resurrect a session the user (or another
\* 401) just cleared": only a sign-in and the restore of a page that boots end a sign-out.
\* Refuted by loadProfile.
StaysSignedOut ==
    [][\A t \in Tabs : session[t] = None /\ session'[t] # None
          => \E c \in Calls : ReceiveLogin(c) \/ ReceiveRestored(c)]_vars

\* The committed table of sessions, one for each login, which its first token names.
Life == INSTANCE SessionLife WITH SessionIds <- Tokens, NoToken <- None

\* Whatever the tabs do with a shared cookie, overlapping redemptions of one token, answers
\* that are lost or whose commit fails, reloads and late revocations, the committed sessions
\* change as SessionLife allows: a commit opens a session or replaces its token by one that
\* none had before, and no late write of an overtaken call revives a revoked session.
\* (This is Life!ResumedSpec: a session may be there from an earlier visit.)
ImplementsSessionLife == Life!ResumedSpec
=============================================================================
