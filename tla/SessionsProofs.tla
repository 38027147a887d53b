--------------------------- MODULE SessionsProofs ---------------------------
(***************************************************************************)
(* Proofs about Sessions, for any number of concurrent requests, accounts, *)
(* sessions and tokens and for any lifetimes: the type invariant, delivery *)
(* of the current token, finality of revocation, refused replays, one      *)
(* writer per row, the refinement of SessionLife, and what it keeps.       *)
(***************************************************************************)
EXTENDS Sessions, TLAPS

-----------------------------------------------------------------------------
(* The inductive invariant *)

\* r carries a refresh token that it has drawn and not committed yet.
Draws(r) ==
    \/ req[r].pc \in {"user_check", "answer"}
    \/ req[r].pc = "commit" /\ req[r].op \in {"login", "refresh"}

\* r is about to commit a row that does not exist yet.
Inserts(r) == req[r].pc = "commit" /\ req[r].op = "login"

\* r works on a row that it has read in the table.
Reads(r) ==
    \/ req[r].pc \in {"rotate", "user_check", "answer", "authed", "revoke"}
    \/ req[r].pc = "commit" /\ req[r].op \in {"refresh", "revoke"}

\* What a request knows of itself at each step.
RequestShape ==
    \A r \in Requests :
        /\ req[r].pc = "insert" \/ Inserts(r) => req[r].user \in Users
        /\ req[r].pc = "commit" => req[r].op # "none"
        /\ req[r].pc \in {"rotate", "user_check", "answer"} => req[r].token \in Tokens
        /\ req[r].pc = "commit" /\ Draws(r) => req[r].new \in issued

\* A row that was read exists for good; a row to be inserted does not exist, its
\* uuid carries an access token already, and no other request inserts it.
RowsOfRequests ==
    \A r \in Requests :
        /\ Reads(r) => req[r].sid \in SessionIds /\ sessions[req[r].sid].state # "none"
        /\ Inserts(r) => /\ req[r].sid \in SessionIds
                         /\ sessions[req[r].sid].state = "none"
                         /\ accessExp[req[r].sid] # 0
                         /\ \A q \in Requests \ {r} : Inserts(q) => req[q].sid # req[r].sid

\* A drawn token is in use nowhere else: not in a row, not replaced, not drawn twice.
DrawnTokens ==
    \A r \in Requests : Draws(r) =>
        /\ req[r].new \in 1 .. minted
        /\ req[r].new \notin spent
        /\ \A s \in SessionIds : sessions[s].hash # req[r].new
        /\ \A q \in Requests \ {r} : Draws(q) => req[q].new # req[r].new

\* The tokens of the table were drawn, delivered, not replaced, and differ.
TableTokens ==
    /\ spent \subseteq 1 .. minted
    /\ \A s \in SessionIds : sessions[s].state # "none" =>
          /\ sessions[s].hash \in 1 .. minted
          /\ sessions[s].hash \in issued
          /\ sessions[s].hash \notin spent
          /\ \A x \in SessionIds \ {s} : sessions[x].hash # sessions[s].hash

IInv ==
    /\ TypeOK
    /\ RequestShape
    /\ RowsOfRequests
    /\ DrawnTokens
    /\ TableTokens

-----------------------------------------------------------------------------
(* Type correctness *)

LEMMA IdleIsRequest == Idle \in Request
  BY DEF Idle, Request

LEMMA NoRowTyped ==
    /\ NoRow \notin Row
    /\ \A row \in Row \cup {NoRow} : row.state # "none" => row \in Row
    /\ \A row \in Row \cup {NoRow} : row.state = "none" => row = NoRow
  BY DEF NoRow, Row

\* The state of the table, of the requests and of the histories is well typed
\* whatever the requests do.
LEMMA InitTypeOK == Init => TypeOK
  BY TtlAssumption, IdleIsRequest DEF Init, TypeOK, Tokens, Row, NoRow


\* Every step keeps the state well typed.
LEMMA NextTypeOK == TypeOK /\ RequestShape /\ RowsOfRequests /\ DrawnTokens /\ [Next]_vars => TypeOK'
  <1> SUFFICES ASSUME TypeOK, RequestShape, RowsOfRequests, DrawnTokens, [Next]_vars
               PROVE  TypeOK'
    OBVIOUS
  <1> USE TtlAssumption, IdleIsRequest
  <1>1. ASSUME NEW r \in Requests, NEW u \in Users, LoginCheck(r, u)
        PROVE  TypeOK'
    BY <1>1 DEF LoginCheck, TypeOK, Request, Idle
  <1>2. ASSUME NEW r \in Requests, NEW s \in SessionIds, NEW t \in Tokens, LoginInsert(r, s, t)
        PROVE  TypeOK'
    <2>1. req[r] \in Request /\ now + RefreshTtl \in Nat /\ now + AccessTtl \in Nat
      BY DEF TypeOK
    <2>2. [req[r] EXCEPT !.pc = "commit", !.op = "login", !.sid = s,
                         !.new = t, !.exp = now + RefreshTtl] \in Request
      BY <2>1 DEF Request
    <2>3. req' \in [Requests -> Request]
      BY <1>2, <2>2 DEF LoginInsert, TypeOK
    <2>4. minted' \in 0 .. MaxTokens /\ issued' \in SUBSET Tokens
      BY <1>2 DEF LoginInsert, TypeOK, Tokens
    <2> QED BY <1>2, <2>1, <2>3, <2>4 DEF LoginInsert, TypeOK
  <1>3. ASSUME NEW r \in Requests, NEW s \in SessionIds, NEW t \in Tokens, RefreshRead(r, t, s)
        PROVE  TypeOK'
    BY <1>3 DEF RefreshRead, TypeOK, Request, Idle
  <1>4. ASSUME NEW r \in Requests, NEW t \in Tokens, RefreshRotate(r, t)
        PROVE  TypeOK'
    <2>1. req[r] \in Request /\ now + RefreshTtl \in Nat
      BY DEF TypeOK
    <2>2. [req[r] EXCEPT !.pc = "user_check", !.new = t, !.exp = now + RefreshTtl] \in Request
      BY <2>1 DEF Request
    <2>3. req' \in [Requests -> Request]
      BY <1>4, <2>2 DEF RefreshRotate, TypeOK
    <2>4. minted' \in 0 .. MaxTokens
      BY <1>4 DEF RefreshRotate, TypeOK, Tokens
    <2> QED BY <1>4, <2>3, <2>4 DEF RefreshRotate, TypeOK
  <1>5. ASSUME NEW r \in Requests, RefreshAnswer(r)
        PROVE  TypeOK'
    <2>1. req[r] \in Request /\ now + AccessTtl \in Nat
      BY DEF TypeOK
    <2>2. [req[r] EXCEPT !.pc = "commit", !.op = "refresh"] \in Request
      BY <2>1 DEF Request
    <2>3. req' \in [Requests -> Request]
      BY <1>5, <2>2 DEF RefreshAnswer, TypeOK
    <2>4. req[r].new \in Tokens
      BY <1>5 DEF RefreshAnswer, DrawnTokens, Draws, TypeOK, Tokens
    <2> QED BY <1>5, <2>1, <2>3, <2>4 DEF RefreshAnswer, TypeOK
  <1>6. ASSUME NEW r \in Requests, RefreshDisabled(r)
        PROVE  TypeOK'
    <2>1. req[r].token \in Tokens
      BY <1>6 DEF RefreshDisabled, RequestShape
    <2> QED BY <1>6, <2>1 DEF RefreshDisabled, TypeOK
  <1>7. ASSUME NEW r \in Requests, NEW s \in SessionIds, Authenticate(r, s)
        PROVE  TypeOK'
    <2>1. sessions[s].user_id \in Users
      BY <1>7, NoRowTyped DEF Authenticate, is_active, TypeOK, Row
    <2> QED BY <1>7, <2>1 DEF Authenticate, TypeOK, Request, Idle
  <1>8. ASSUME NEW r \in Requests, Logout(r)
        PROVE  TypeOK'
    BY <1>8 DEF Logout, TypeOK, Request
  <1>9. ASSUME NEW r \in Requests, NEW s \in SessionIds, RevokeSession(r, s)
        PROVE  TypeOK'
    <2>1. [req[r] EXCEPT !.pc = "revoke", !.sid = s] \in Request
      BY DEF TypeOK, Request
    <2> QED BY <1>9, <2>1 DEF RevokeSession, TypeOK
  <1>10. ASSUME NEW r \in Requests, NothingToWrite(r) \/ Abort(r)
         PROVE  TypeOK'
    BY <1>10 DEF NothingToWrite, Abort, TypeOK
  <1>11. ASSUME NEW r \in Requests, FlushRevoke(r)
         PROVE  TypeOK'
    <2>1. [req[r] EXCEPT !.pc = "commit", !.op = "revoke"] \in Request
      BY DEF TypeOK, Request
    <2> QED BY <1>11, <2>1 DEF FlushRevoke, TypeOK
  <1>12. ASSUME NEW r \in Requests, CommitLogin(r)
         PROVE  TypeOK'
    <2>1. /\ req[r].user \in Users
          /\ req[r].new \in Tokens
          /\ req[r].exp \in Nat
      BY <1>12 DEF CommitLogin, RequestShape, Inserts, DrawnTokens, Draws, TypeOK, Tokens, Request
    <2>2. [state |-> "live", user_id |-> req[r].user,
           hash |-> req[r].new, expires_at |-> req[r].exp] \in Row
      BY <2>1 DEF Row
    <2> QED BY <1>12, <2>2 DEF CommitLogin, TypeOK
  <1>13. ASSUME NEW r \in Requests, CommitRefresh(r)
         PROVE  TypeOK'
    <2>1. sessions[req[r].sid] \in Row
      BY <1>13, NoRowTyped DEF CommitRefresh, RowsOfRequests, Reads, TypeOK
    <2>2. req[r].new \in Tokens /\ req[r].exp \in Nat
      BY <1>13 DEF CommitRefresh, DrawnTokens, Draws, TypeOK, Tokens, Request
    <2>3. [sessions[req[r].sid] EXCEPT !.hash = req[r].new, !.expires_at = req[r].exp] \in Row
      BY <2>1, <2>2 DEF Row
    <2>4. sessions' \in [SessionIds -> Row \cup {NoRow}]
      BY <1>13, <2>3 DEF CommitRefresh, TypeOK
    <2>5. spent' \in SUBSET Tokens
      BY <1>13, <2>1 DEF CommitRefresh, TypeOK, Row
    <2> QED BY <1>13, <2>4, <2>5 DEF CommitRefresh, TypeOK
  <1>14. ASSUME NEW r \in Requests, CommitRevoke(r)
         PROVE  TypeOK'
    <2>1. sessions[req[r].sid] \in Row
      BY <1>14, NoRowTyped DEF CommitRevoke, RowsOfRequests, Reads, TypeOK
    <2>2. [sessions[req[r].sid] EXCEPT !.state = "revoked"] \in Row
      BY <2>1 DEF Row
    <2> QED BY <1>14, <2>2 DEF CommitRevoke, TypeOK
  <1>15. ASSUME NEW u \in Users, Disable(u)
         PROVE  TypeOK'
    BY <1>15 DEF Disable, TypeOK
  <1>16. CASE Tick
    BY <1>16 DEF Tick, TypeOK
  <1>17. CASE UNCHANGED vars
    BY <1>17 DEF vars, TypeOK
  <1>18. ASSUME NEW r \in Requests, UserCheck(r)
         PROVE  TypeOK'
    <2>1. [req[r] EXCEPT !.pc = "answer"] \in Request
      BY DEF TypeOK, Request
    <2> QED BY <1>18, <2>1 DEF UserCheck, TypeOK
  <1> QED
    BY <1>1, <1>2, <1>3, <1>4, <1>5, <1>6, <1>7, <1>8, <1>9, <1>10, <1>11, <1>12,
       <1>13, <1>14, <1>15, <1>16, <1>17, <1>18
       DEF Next, Receive, Progress, LoginRefused, RefreshInvalid

-----------------------------------------------------------------------------
(* The other parts of the inductive invariant *)

LEMMA InitIInv == Init => IInv
  <1> SUFFICES ASSUME Init PROVE IInv
    OBVIOUS
  <1>1. TypeOK
    BY InitTypeOK
  <1>2. RequestShape /\ RowsOfRequests /\ DrawnTokens
    BY DEF Init, Idle, RequestShape, RowsOfRequests, DrawnTokens, Draws, Inserts, Reads
  <1>3. TableTokens
    BY TtlAssumption DEF Init, TableTokens, NoRow
  <1> QED BY <1>1, <1>2, <1>3 DEF IInv

\* A step that only moves one request on, to a pc where it holds nothing new,
\* keeps the invariant.
LEMMA QuietStep ==
    ASSUME IInv, NEW r \in Requests, NEW q \in Request,
           req' = [req EXCEPT ![r] = q],
           q.pc \in {"idle", "insert", "rotate", "authed", "revoke"},
           q.pc = "insert" => q.user \in Users,
           q.pc = "rotate" => q.token \in Tokens,
           q.pc \in {"rotate", "authed", "revoke"} =>
               q.sid \in SessionIds /\ sessions[q.sid].state # "none",
           UNCHANGED <<sessions, accessExp, minted, issued, spent>>
    PROVE  RequestShape' /\ RowsOfRequests' /\ DrawnTokens' /\ TableTokens'
  <1> USE DEF IInv, TypeOK
  <1>1. req'[r] = q /\ \A x \in Requests \ {r} : req'[x] = req[x]
    OBVIOUS
  <1>2. ~Draws(r)' /\ ~Inserts(r)'
    BY <1>1 DEF Draws, Inserts
  <1>3. \A x \in Requests \ {r} : /\ Draws(x)' <=> Draws(x)
                                  /\ Inserts(x)' <=> Inserts(x)
                                  /\ Reads(x)' <=> Reads(x)
    BY <1>1 DEF Draws, Inserts, Reads
  <1>4. RequestShape'
    BY <1>1, <1>2, <1>3 DEF RequestShape
  <1>5. RowsOfRequests'
    BY <1>1, <1>2, <1>3 DEF RowsOfRequests, Reads
  <1>6. DrawnTokens'
    BY <1>1, <1>2, <1>3 DEF DrawnTokens
  <1>7. TableTokens'
    BY DEF TableTokens
  <1> QED BY <1>4, <1>5, <1>6, <1>7

LEMMA NextIInv == IInv /\ [Next]_vars => IInv'
  <1> SUFFICES ASSUME IInv, [Next]_vars
               PROVE  RequestShape' /\ RowsOfRequests' /\ DrawnTokens' /\ TableTokens'
    BY NextTypeOK DEF IInv
  <1> USE TtlAssumption, IdleIsRequest
  <1>0. \A x \in Requests : req[x] \in Request
    BY DEF IInv, TypeOK
  <1>1. ASSUME NEW r \in Requests, NEW u \in Users, LoginCheck(r, u)
        PROVE  RequestShape' /\ RowsOfRequests' /\ DrawnTokens' /\ TableTokens'
    <2> DEFINE q == [Idle EXCEPT !.pc = "insert", !.user = u]
    <2>1. q \in Request /\ q.pc = "insert" /\ q.user = u
      BY DEF Idle, Request
    <2> QED BY <1>1, <2>1, QuietStep DEF LoginCheck
  <1>2. ASSUME NEW r \in Requests, NEW s \in SessionIds, NEW t \in Tokens, RefreshRead(r, t, s)
        PROVE  RequestShape' /\ RowsOfRequests' /\ DrawnTokens' /\ TableTokens'
    <2> DEFINE q == [Idle EXCEPT !.pc = "rotate", !.sid = s, !.token = t]
    <2>1. q \in Request /\ q.pc = "rotate" /\ q.token = t /\ q.sid = s
      BY DEF Idle, Request
    <2>2. sessions[s].state # "none"
      BY <1>2 DEF RefreshRead, is_active
    <2> QED BY <1>2, <2>1, <2>2, QuietStep DEF RefreshRead
  <1>3. ASSUME NEW r \in Requests, NEW s \in SessionIds, Authenticate(r, s)
        PROVE  RequestShape' /\ RowsOfRequests' /\ DrawnTokens' /\ TableTokens'
    <2> DEFINE q == [Idle EXCEPT !.pc = "authed", !.sid = s, !.user = sessions[s].user_id]
    <2>1. sessions[s].state # "none"
      BY <1>3 DEF Authenticate, is_active
    <2>2. sessions[s].user_id \in Users
      BY <2>1, NoRowTyped DEF IInv, TypeOK, Row
    <2>3. q \in Request /\ q.pc = "authed" /\ q.sid = s
      BY <2>2 DEF Idle, Request
    <2> QED BY <1>3, <2>1, <2>3, QuietStep DEF Authenticate
  <1>4. ASSUME NEW r \in Requests, Logout(r)
        PROVE  RequestShape' /\ RowsOfRequests' /\ DrawnTokens' /\ TableTokens'
    <2> DEFINE q == [req[r] EXCEPT !.pc = "revoke"]
    <2>1. q \in Request /\ q.pc = "revoke" /\ q.sid = req[r].sid
      BY <1>0 DEF Request
    <2>2. req[r].sid \in SessionIds /\ sessions[req[r].sid].state # "none"
      BY <1>4 DEF Logout, IInv, RowsOfRequests, Reads
    <2> QED BY <1>4, <2>1, <2>2, QuietStep DEF Logout
  <1>5. ASSUME NEW r \in Requests, NEW s \in SessionIds, RevokeSession(r, s)
        PROVE  RequestShape' /\ RowsOfRequests' /\ DrawnTokens' /\ TableTokens'
    <2> DEFINE q == [req[r] EXCEPT !.pc = "revoke", !.sid = s]
    <2>1. q \in Request /\ q.pc = "revoke" /\ q.sid = s
      BY <1>0 DEF Request
    <2>2. sessions[s].state # "none"
      BY <1>5 DEF RevokeSession, is_active
    <2> QED BY <1>5, <2>1, <2>2, QuietStep DEF RevokeSession
  <1>6. ASSUME NEW r \in Requests, NothingToWrite(r) \/ Abort(r) \/ RefreshDisabled(r)
        PROVE  RequestShape' /\ RowsOfRequests' /\ DrawnTokens' /\ TableTokens'
    <2>1. Idle.pc = "idle"
      BY DEF Idle
    <2> QED BY <1>6, <2>1, QuietStep DEF NothingToWrite, Abort, RefreshDisabled
  <1>7. ASSUME NEW r \in Requests, NEW s \in SessionIds, NEW t \in Tokens, LoginInsert(r, s, t)
        PROVE  RequestShape' /\ RowsOfRequests' /\ DrawnTokens' /\ TableTokens'
    <2> USE DEF LoginInsert, IInv, TypeOK
    <2>1. /\ req'[r].pc = "commit" /\ req'[r].op = "login" /\ req'[r].sid = s
          /\ req'[r].new = t /\ req'[r].user = req[r].user
          /\ \A x \in Requests \ {r} : req'[x] = req[x]
      BY <1>0, <1>7 DEF Request
    <2>2. /\ Draws(r)' /\ Inserts(r)' /\ ~Reads(r)' /\ ~Draws(r) /\ ~Inserts(r) /\ ~Reads(r)
          /\ \A x \in Requests \ {r} : /\ Draws(x)' <=> Draws(x)
                                       /\ Inserts(x)' <=> Inserts(x)
                                       /\ Reads(x)' <=> Reads(x)
      BY <1>7, <2>1 DEF Draws, Inserts, Reads
    <2>3. RequestShape'
      BY <1>7, <2>1, <2>2 DEF RequestShape
    <2>4. RowsOfRequests'
      <3>1. accessExp'[s] # 0 /\ \A x \in SessionIds \ {s} : accessExp'[x] = accessExp[x]
        BY <1>7
      <3>2. \A x \in Requests : Inserts(x) => req[x].sid # s
        BY <1>7 DEF RowsOfRequests
      <3> QED BY <1>7, <2>1, <2>2, <3>1, <3>2 DEF RowsOfRequests
    <2>5. t \notin 1 .. minted /\ t \in 1 .. minted' /\ 1 .. minted \subseteq 1 .. minted'
      BY <1>7 DEF Tokens
    <2>6. \A x \in SessionIds : sessions[x].hash # t
      <3>1. \A x \in SessionIds : sessions[x].state = "none" => sessions[x].hash = NoToken
        BY NoRowTyped DEF NoRow
      <3>2. t # NoToken
        BY DEF Tokens, NoToken
      <3> QED BY <2>5, <3>1, <3>2 DEF TableTokens
    <2>7. DrawnTokens'
      BY <1>7, <2>1, <2>2, <2>5, <2>6 DEF DrawnTokens, TableTokens
    <2>8. TableTokens'
      BY <1>7, <2>5 DEF TableTokens
    <2> QED BY <2>3, <2>4, <2>7, <2>8
  <1>8. ASSUME NEW r \in Requests, NEW t \in Tokens, RefreshRotate(r, t)
        PROVE  RequestShape' /\ RowsOfRequests' /\ DrawnTokens' /\ TableTokens'
    <2> USE DEF RefreshRotate, IInv, TypeOK
    <2>1. /\ req'[r].pc = "user_check" /\ req'[r].sid = req[r].sid
          /\ req'[r].new = t /\ req'[r].token = req[r].token
          /\ \A x \in Requests \ {r} : req'[x] = req[x]
      BY <1>0, <1>8 DEF Request
    <2>2. /\ Draws(r)' /\ ~Inserts(r)' /\ Reads(r)' /\ ~Draws(r) /\ ~Inserts(r) /\ Reads(r)
          /\ \A x \in Requests \ {r} : /\ Draws(x)' <=> Draws(x)
                                       /\ Inserts(x)' <=> Inserts(x)
                                       /\ Reads(x)' <=> Reads(x)
      BY <1>8, <2>1 DEF Draws, Inserts, Reads
    <2>3. RequestShape'
      BY <1>8, <2>1, <2>2 DEF RequestShape
    <2>4. RowsOfRequests'
      BY <1>8, <2>1, <2>2 DEF RowsOfRequests
    <2>5. t \notin 1 .. minted /\ t \in 1 .. minted' /\ 1 .. minted \subseteq 1 .. minted'
      BY <1>8 DEF Tokens
    <2>6. \A x \in SessionIds : sessions[x].hash # t
      <3>1. \A x \in SessionIds : sessions[x].state = "none" => sessions[x].hash = NoToken
        BY NoRowTyped DEF NoRow
      <3>2. t # NoToken
        BY DEF Tokens, NoToken
      <3> QED BY <2>5, <3>1, <3>2 DEF TableTokens
    <2>7. DrawnTokens'
      BY <1>8, <2>1, <2>2, <2>5, <2>6 DEF DrawnTokens, TableTokens
    <2>8. TableTokens'
      BY <1>8, <2>5 DEF TableTokens
    <2> QED BY <2>3, <2>4, <2>7, <2>8
  <1>9. ASSUME NEW r \in Requests, RefreshAnswer(r)
        PROVE  RequestShape' /\ RowsOfRequests' /\ DrawnTokens' /\ TableTokens'
    <2> USE DEF RefreshAnswer, IInv, TypeOK
    <2>1. /\ req'[r].pc = "commit" /\ req'[r].op = "refresh" /\ req'[r].sid = req[r].sid
          /\ req'[r].new = req[r].new
          /\ \A x \in Requests \ {r} : req'[x] = req[x]
      BY <1>0, <1>9 DEF Request
    <2>2. /\ Draws(r)' /\ ~Inserts(r)' /\ Reads(r)' /\ Draws(r) /\ ~Inserts(r) /\ Reads(r)
          /\ \A x \in Requests \ {r} : /\ Draws(x)' <=> Draws(x)
                                       /\ Inserts(x)' <=> Inserts(x)
                                       /\ Reads(x)' <=> Reads(x)
      BY <1>9, <2>1 DEF Draws, Inserts, Reads
    <2>3. RequestShape'
      BY <1>9, <2>1, <2>2 DEF RequestShape
    <2>4. RowsOfRequests'
      <3>1. \A x \in SessionIds : accessExp[x] # 0 => accessExp'[x] # 0
        BY <1>9
      <3> QED BY <1>9, <2>1, <2>2, <3>1 DEF RowsOfRequests
    <2>5. DrawnTokens'
      BY <1>9, <2>1, <2>2 DEF DrawnTokens
    <2>6. TableTokens'
      BY <1>9 DEF TableTokens
    <2> QED BY <2>3, <2>4, <2>5, <2>6
  <1>10. ASSUME NEW r \in Requests, FlushRevoke(r)
         PROVE  RequestShape' /\ RowsOfRequests' /\ DrawnTokens' /\ TableTokens'
    <2> USE DEF FlushRevoke, IInv, TypeOK
    <2>1. /\ req'[r].pc = "commit" /\ req'[r].op = "revoke" /\ req'[r].sid = req[r].sid
          /\ \A x \in Requests \ {r} : req'[x] = req[x]
      BY <1>0, <1>10 DEF Request
    <2>2. /\ ~Draws(r)' /\ ~Inserts(r)' /\ Reads(r)' /\ ~Draws(r) /\ ~Inserts(r) /\ Reads(r)
          /\ \A x \in Requests \ {r} : /\ Draws(x)' <=> Draws(x)
                                       /\ Inserts(x)' <=> Inserts(x)
                                       /\ Reads(x)' <=> Reads(x)
      BY <1>10, <2>1 DEF Draws, Inserts, Reads
    <2>3. RequestShape'
      BY <1>10, <2>1, <2>2 DEF RequestShape
    <2>4. RowsOfRequests'
      BY <1>10, <2>1, <2>2 DEF RowsOfRequests
    <2>5. DrawnTokens'
      BY <1>10, <2>1, <2>2 DEF DrawnTokens
    <2>6. TableTokens'
      BY <1>10 DEF TableTokens
    <2> QED BY <2>3, <2>4, <2>5, <2>6
  <1>11. ASSUME NEW r \in Requests, CommitLogin(r)
         PROVE  RequestShape' /\ RowsOfRequests' /\ DrawnTokens' /\ TableTokens'
    <2> USE DEF CommitLogin, IInv, TypeOK
    <2> DEFINE s == req[r].sid
    <2>1. req'[r].pc = "idle" /\ \A x \in Requests \ {r} : req'[x] = req[x]
      BY <1>11 DEF Idle
    <2>2. /\ ~Draws(r)' /\ ~Inserts(r)' /\ ~Reads(r)' /\ Draws(r) /\ Inserts(r)
          /\ \A x \in Requests \ {r} : /\ Draws(x)' <=> Draws(x)
                                       /\ Inserts(x)' <=> Inserts(x)
                                       /\ Reads(x)' <=> Reads(x)
      BY <1>11, <2>1 DEF Draws, Inserts, Reads
    <2>3. /\ s \in SessionIds /\ sessions[s].state = "none"
          /\ \A x \in Requests \ {r} : Inserts(x) => req[x].sid # s
      BY <2>2 DEF RowsOfRequests
    <2>4. /\ sessions'[s].state = "live" /\ sessions'[s].hash = req[r].new
          /\ \A x \in SessionIds \ {s} : sessions'[x] = sessions[x]
      BY <1>11, <2>3
    <2>5. RequestShape'
      BY <1>11, <2>1, <2>2 DEF RequestShape
    <2>6. RowsOfRequests'
      BY <1>11, <2>1, <2>2, <2>3, <2>4 DEF RowsOfRequests
    <2>7. DrawnTokens'
      BY <1>11, <2>1, <2>2, <2>3, <2>4 DEF DrawnTokens
    <2>8. /\ req[r].new \in 1 .. minted /\ req[r].new \notin spent /\ req[r].new \in issued
          /\ \A x \in SessionIds : sessions[x].hash # req[r].new
      BY <1>11, <2>2 DEF DrawnTokens, RequestShape
    <2>9. TableTokens'
      BY <1>11, <2>3, <2>4, <2>8 DEF TableTokens
    <2> QED BY <2>5, <2>6, <2>7, <2>9
  <1>12. ASSUME NEW r \in Requests, CommitRefresh(r)
         PROVE  RequestShape' /\ RowsOfRequests' /\ DrawnTokens' /\ TableTokens'
    <2> USE DEF CommitRefresh, IInv, TypeOK
    <2> DEFINE s == req[r].sid
    <2>1. req'[r].pc = "idle" /\ \A x \in Requests \ {r} : req'[x] = req[x]
      BY <1>12 DEF Idle
    <2>2. /\ ~Draws(r)' /\ ~Inserts(r)' /\ ~Reads(r)' /\ Draws(r) /\ Reads(r)
          /\ \A x \in Requests \ {r} : /\ Draws(x)' <=> Draws(x)
                                       /\ Inserts(x)' <=> Inserts(x)
                                       /\ Reads(x)' <=> Reads(x)
      BY <1>12, <2>1 DEF Draws, Inserts, Reads
    <2>3. s \in SessionIds /\ sessions[s].state # "none"
      BY <2>2 DEF RowsOfRequests
    <2>4. /\ sessions'[s].state = sessions[s].state /\ sessions'[s].hash = req[r].new
          /\ \A x \in SessionIds \ {s} : sessions'[x] = sessions[x]
      <3>1. sessions[s] \in Row
        BY <2>3, NoRowTyped
      <3> QED BY <1>12, <2>3, <3>1 DEF Row
    <2>5. RequestShape'
      BY <1>12, <2>1, <2>2 DEF RequestShape
    <2>6. RowsOfRequests'
      BY <1>12, <2>1, <2>2, <2>3, <2>4 DEF RowsOfRequests
    <2>7. DrawnTokens'
      <3>1. \A x \in Requests : Draws(x) => req[x].new # sessions[s].hash
        BY <2>3 DEF DrawnTokens
      <3> QED BY <1>12, <2>1, <2>2, <2>3, <2>4, <3>1 DEF DrawnTokens
    <2>8. /\ req[r].new \in 1 .. minted /\ req[r].new \notin spent /\ req[r].new \in issued
          /\ \A x \in SessionIds : sessions[x].hash # req[r].new
      BY <1>12, <2>2 DEF DrawnTokens, RequestShape
    <2>9. TableTokens'
      BY <1>12, <2>3, <2>4, <2>8 DEF TableTokens
    <2> QED BY <2>5, <2>6, <2>7, <2>9
  <1>13. ASSUME NEW r \in Requests, CommitRevoke(r)
         PROVE  RequestShape' /\ RowsOfRequests' /\ DrawnTokens' /\ TableTokens'
    <2> USE DEF CommitRevoke, IInv, TypeOK
    <2> DEFINE s == req[r].sid
    <2>1. req'[r].pc = "idle" /\ \A x \in Requests \ {r} : req'[x] = req[x]
      BY <1>13 DEF Idle
    <2>2. /\ ~Draws(r)' /\ ~Inserts(r)' /\ ~Reads(r)' /\ ~Draws(r) /\ ~Inserts(r) /\ Reads(r)
          /\ \A x \in Requests \ {r} : /\ Draws(x)' <=> Draws(x)
                                       /\ Inserts(x)' <=> Inserts(x)
                                       /\ Reads(x)' <=> Reads(x)
      BY <1>13, <2>1 DEF Draws, Inserts, Reads
    <2>3. s \in SessionIds /\ sessions[s].state # "none"
      BY <2>2 DEF RowsOfRequests
    <2>4. /\ sessions'[s].state = "revoked" /\ sessions'[s].hash = sessions[s].hash
          /\ \A x \in SessionIds \ {s} : sessions'[x] = sessions[x]
      <3>1. sessions[s] \in Row
        BY <2>3, NoRowTyped
      <3> QED BY <1>13, <2>3, <3>1 DEF Row
    <2>5. RequestShape'
      BY <1>13, <2>1, <2>2 DEF RequestShape
    <2>6. RowsOfRequests'
      BY <1>13, <2>1, <2>2, <2>3, <2>4 DEF RowsOfRequests
    <2>7. DrawnTokens'
      BY <1>13, <2>1, <2>2, <2>3, <2>4 DEF DrawnTokens
    <2>8. TableTokens'
      BY <1>13, <2>3, <2>4 DEF TableTokens
    <2> QED BY <2>5, <2>6, <2>7, <2>8
  <1>15. ASSUME NEW r \in Requests, UserCheck(r)
         PROVE  RequestShape' /\ RowsOfRequests' /\ DrawnTokens' /\ TableTokens'
    <2> USE DEF UserCheck, IInv, TypeOK
    <2>1. /\ req'[r].pc = "answer" /\ req'[r].sid = req[r].sid
          /\ req'[r].new = req[r].new /\ req'[r].token = req[r].token
          /\ \A x \in Requests \ {r} : req'[x] = req[x]
      BY <1>0, <1>15 DEF Request
    <2>2. /\ Draws(r)' /\ ~Inserts(r)' /\ Reads(r)' /\ Draws(r) /\ ~Inserts(r) /\ Reads(r)
          /\ \A x \in Requests \ {r} : /\ Draws(x)' <=> Draws(x)
                                       /\ Inserts(x)' <=> Inserts(x)
                                       /\ Reads(x)' <=> Reads(x)
      BY <1>15, <2>1 DEF Draws, Inserts, Reads
    <2>3. RequestShape'
      BY <1>15, <2>1, <2>2 DEF RequestShape
    <2>4. RowsOfRequests'
      BY <1>15, <2>1, <2>2 DEF RowsOfRequests
    <2>5. DrawnTokens'
      BY <1>15, <2>1, <2>2 DEF DrawnTokens
    <2>6. TableTokens'
      BY <1>15 DEF TableTokens
    <2> QED BY <2>3, <2>4, <2>5, <2>6
  <1>14. ASSUME UNCHANGED <<sessions, req, accessExp, minted, issued, spent>>
         PROVE  RequestShape' /\ RowsOfRequests' /\ DrawnTokens' /\ TableTokens'
    BY <1>14 DEF IInv, RequestShape, RowsOfRequests, DrawnTokens, TableTokens,
                 Draws, Inserts, Reads
  <1> QED
    BY <1>1, <1>2, <1>3, <1>4, <1>5, <1>6, <1>7, <1>8, <1>9, <1>10, <1>11, <1>12,
       <1>13, <1>14, <1>15
       DEF Next, Receive, Progress, LoginRefused, RefreshInvalid, Disable, Tick, vars

\* Every reachable state satisfies the inductive invariant.
THEOREM InductiveInvariant == Spec => []IInv
  BY InitIInv, NextIInv, PTL DEF Spec

\* The state of Sessions is well typed; in particular a row that exists is complete.
THEOREM TypeCorrect == Spec => []TypeOK
  <1>1. IInv => TypeOK
    BY DEF IInv
  <1> QED BY <1>1, InductiveInvariant, PTL

\* Whatever refreshes overlap, fail or abort, the token a session accepts is one
\* that some client was sent.
THEOREM TokenDelivered == Spec => []CurrentTokenDelivered
  <1>1. IInv => TableTokens
    BY DEF IInv
  <1>2. TableTokens => CurrentTokenDelivered
    BY DEF TableTokens, CurrentTokenDelivered
  <1> QED BY <1>1, <1>2, InductiveInvariant, PTL

-----------------------------------------------------------------------------
(* Action properties *)

\* How a step may change the table: it inserts one row, replaces the token of one
\* row, revokes one row, or leaves states and hashes alone.
LEMMA TableSteps ==
    ASSUME IInv, [Next]_vars
    PROVE  \/ \E s \in SessionIds, t \in Tokens : Life!Open(s, t)
           \/ \E s \in SessionIds, t \in Tokens : Life!Rotate(s, t)
           \/ \E s \in SessionIds : Life!Close(s)
           \/ UNCHANGED <<sessions, spent>>
  <1> USE DEF IInv, TypeOK
  <1>1. ASSUME NEW r \in Requests, CommitLogin(r)
        PROVE  \E s \in SessionIds, t \in Tokens : Life!Open(s, t)
    <2>1. Inserts(r) /\ Draws(r)
      BY <1>1 DEF CommitLogin, Inserts, Draws
    <2>2. PICK s \in SessionIds : s = req[r].sid /\ sessions[s].state = "none"
      BY <2>1 DEF RowsOfRequests
    <2>3. PICK t \in Tokens : t = req[r].new /\ Life!Fresh(t)
      BY <2>1, TtlAssumption DEF DrawnTokens, Life!Fresh, Tokens
    <2>4. Life!Open(s, t)
      BY <1>1, <2>2, <2>3 DEF CommitLogin, Life!Open
    <2> QED BY <2>4
  <1>2. ASSUME NEW r \in Requests, CommitRefresh(r)
        PROVE  \E s \in SessionIds, t \in Tokens : Life!Rotate(s, t)
    <2>1. Reads(r) /\ Draws(r)
      BY <1>2 DEF CommitRefresh, Reads, Draws
    <2>2. PICK s \in SessionIds :
              s = req[r].sid /\ sessions[s].state # "none" /\ sessions[s] \in Row
      BY <2>1, NoRowTyped DEF RowsOfRequests
    <2>3. PICK t \in Tokens : t = req[r].new /\ Life!Fresh(t)
      BY <2>1, TtlAssumption DEF DrawnTokens, Life!Fresh, Tokens
    <2>4. Life!Rotate(s, t)
      BY <1>2, <2>2, <2>3 DEF CommitRefresh, Life!Rotate, Row
    <2> QED BY <2>4
  <1>3. ASSUME NEW r \in Requests, CommitRevoke(r)
        PROVE  \E s \in SessionIds : Life!Close(s)
    <2>1. Reads(r)
      BY <1>3 DEF CommitRevoke, Reads
    <2>2. PICK s \in SessionIds :
              s = req[r].sid /\ sessions[s].state # "none" /\ sessions[s] \in Row
      BY <2>1, NoRowTyped DEF RowsOfRequests
    <2>3. Life!Close(s)
      BY <1>3, <2>2 DEF CommitRevoke, Life!Close, Row
    <2> QED BY <2>3
  <1>4. CASE \E r \in Requests : CommitLogin(r) \/ CommitRefresh(r) \/ CommitRevoke(r)
    BY <1>1, <1>2, <1>3, <1>4
  <1>5. \/ UNCHANGED <<sessions, spent>>
        \/ \E r \in Requests : CommitLogin(r) \/ CommitRefresh(r) \/ CommitRevoke(r)
    <2>1. CASE \E r \in Requests : Receive(r)
      <3>1. ASSUME NEW r \in Requests, NEW u \in Users, LoginCheck(r, u)
            PROVE  UNCHANGED <<sessions, spent>>
        BY <3>1 DEF LoginCheck
      <3>2. ASSUME NEW r \in Requests, LoginRefused(r) PROVE UNCHANGED <<sessions, spent>>
        BY <3>2 DEF LoginRefused, vars
      <3>3. ASSUME NEW r \in Requests, NEW t \in Tokens, NEW s \in SessionIds, RefreshRead(r, t, s)
            PROVE  UNCHANGED <<sessions, spent>>
        BY <3>3 DEF RefreshRead
      <3>4. ASSUME NEW r \in Requests, NEW t \in Tokens, RefreshInvalid(r, t)
            PROVE  UNCHANGED <<sessions, spent>>
        BY <3>4 DEF RefreshInvalid, vars
      <3>5. ASSUME NEW r \in Requests, NEW s \in SessionIds, Authenticate(r, s)
            PROVE  UNCHANGED <<sessions, spent>>
        BY <3>5 DEF Authenticate
      <3> QED BY <2>1, <3>1, <3>2, <3>3, <3>4, <3>5 DEF Receive
    <2>2. CASE \E r \in Requests : Progress(r) \/ Abort(r)
      BY <2>2 DEF Progress, Abort, LoginInsert, RefreshRotate, UserCheck, RefreshAnswer,
                  RefreshDisabled, Logout, RevokeSession, NothingToWrite, FlushRevoke
    <2>3. CASE UNCHANGED vars \/ Tick \/ \E u \in Users : Disable(u)
      BY <2>3 DEF Disable, Tick, vars
    <2> QED BY <2>1, <2>2, <2>3 DEF Next
  <1> QED BY <1>4, <1>5

\* The committed session table implements SessionLife: with requests, transactions
\* and clock hidden, only atomic openings, rotations to a fresh token and final
\* revocations are left.
THEOREM Refinement == Spec => ImplementsSessionLife
  <1>1. Init => Life!Init
    BY DEF Init, Life!Init, NoRow, NoToken
  <1>2. IInv /\ [Next]_vars => [Life!Next]_(Life!vars)
    <2> SUFFICES ASSUME IInv, [Next]_vars
                 PROVE  Life!Next \/ UNCHANGED Life!vars
      OBVIOUS
    <2>1. CASE UNCHANGED <<sessions, spent>>
      BY <2>1 DEF Life!vars
    <2> QED BY <2>1, TableSteps DEF Life!Next
  <1> QED BY <1>1, <1>2, InductiveInvariant, PTL DEF Spec, ImplementsSessionLife, Life!Spec

\* The steps of SessionLife keep the tokens of its sessions apart, whoever takes them.
LEMMA LifeKeepsTokensApart == Life!Inv /\ [Life!Next]_(Life!vars) => Life!Inv'
  <1> DEFINE lf == [s \in SessionIds |-> sessions[s].state]
             cu == [s \in SessionIds |-> sessions[s].hash]
  <1> SUFFICES ASSUME Life!Inv, [Life!Next]_(Life!vars) PROVE Life!Inv'
    OBVIOUS
  <1>0. NoToken \notin Tokens
    BY TtlAssumption DEF NoToken, Tokens
  <1>1. /\ lf \in [SessionIds -> {"none", "live", "revoked"}]
        /\ cu \in [SessionIds -> Tokens \cup {NoToken}]
        /\ spent \in SUBSET Tokens
        /\ \A s \in SessionIds : lf[s] = "none" <=> cu[s] = NoToken
        /\ \A s \in SessionIds : lf[s] # "none" =>
              /\ cu[s] \in Tokens \ spent
              /\ \A q \in SessionIds : cu[q] = cu[s] => q = s
    BY DEF Life!Inv, Life!RowHasToken, Life!TokensApart
  <1>2. \/ \E s \in SessionIds, t \in Tokens :
              /\ lf[s] = "none" /\ t \notin spent /\ \A q \in SessionIds : cu[q] # t
              /\ lf' = [lf EXCEPT ![s] = "live"] /\ cu' = [cu EXCEPT ![s] = t]
              /\ spent' = spent
        \/ \E s \in SessionIds, t \in Tokens :
              /\ lf[s] # "none" /\ t \notin spent /\ \A q \in SessionIds : cu[q] # t
              /\ spent' = spent \cup {cu[s]} /\ cu' = [cu EXCEPT ![s] = t] /\ lf' = lf
        \/ \E s \in SessionIds :
              /\ lf[s] # "none" /\ lf' = [lf EXCEPT ![s] = "revoked"]
              /\ cu' = cu /\ spent' = spent
        \/ lf' = lf /\ cu' = cu /\ spent' = spent
    BY DEF Life!Next, Life!vars, Life!Open, Life!Rotate, Life!Close, Life!Fresh
  <1>3. /\ lf' \in [SessionIds -> {"none", "live", "revoked"}]
        /\ cu' \in [SessionIds -> Tokens \cup {NoToken}]
        /\ spent' \in SUBSET Tokens
        /\ \A s \in SessionIds : lf'[s] = "none" <=> cu'[s] = NoToken
        /\ \A s \in SessionIds : lf'[s] # "none" =>
              /\ cu'[s] \in Tokens \ spent'
              /\ \A q \in SessionIds : cu'[q] = cu'[s] => q = s
    <2> HIDE DEF lf, cu
    <2> QED BY <1>0, <1>1, <1>2
  <1> QED BY <1>3 DEF Life!Inv, Life!RowHasToken, Life!TokensApart

\* No two rows of the session table ever hold the same hash, and none holds one that a rotation
\* replaced: get_by_refresh_token_hash finds at most one session, the one whose token
\* it is, though concurrent requests insert, rotate and revoke.
THEOREM TokenNamesOneSession == Spec => []Life!Inv
  <1>1. Life!Init => Life!Inv
    BY DEF Life!Init, Life!Inv, Life!RowHasToken, Life!TokensApart
  <1> QED
    BY <1>1, LifeKeepsTokensApart, Refinement, PTL DEF ImplementsSessionLife, Life!Spec

\* A revoked session stays revoked, whatever a refresh that read it earlier writes.
THEOREM RevocationFinal == Spec => RevokedForever
  <1>1. IInv /\ [Next]_vars =>
          [\A s \in SessionIds :
              sessions[s].state = "revoked" => sessions'[s].state = "revoked"]_vars
    BY TableSteps DEF Life!Open, Life!Rotate, Life!Close
  <1> QED BY <1>1, InductiveInvariant, PTL DEF Spec, RevokedForever

\* Once a rotation has committed, the token it replaced is looked up in vain, for ever: it is
\* the hash of no row, and no row gets it back.
THEOREM SequentialReplayFails == Spec => ReplayIsRefused
  <1> DEFINE P == \A r \in Requests :
                     req[r].pc = "idle" /\ req'[r].pc = "rotate" => req'[r].token \notin spent
  <1>1. IInv /\ [Next]_vars => [P]_vars
    <2> SUFFICES ASSUME IInv, Next, NEW r \in Requests,
                        req[r].pc = "idle", req'[r].pc = "rotate"
                 PROVE  req'[r].token \notin spent
      OBVIOUS
    <2> USE DEF IInv, TypeOK
    <2>1. ASSUME NEW q \in Requests, NEW t \in Tokens, NEW s \in SessionIds, RefreshRead(q, t, s)
          PROVE  req'[r].token \notin spent
      <3>1. q = r
        BY <2>1 DEF RefreshRead
      <3>2. req'[r].token = t
        BY <2>1, <3>1 DEF RefreshRead, Idle
      <3>3. sessions[s].hash = t /\ sessions[s].state # "none"
        BY <2>1 DEF RefreshRead, is_active
      <3> QED BY <3>2, <3>3 DEF TableTokens
    <2>2. ASSUME NEW q \in Requests, NEW u \in Users, LoginCheck(q, u)
          PROVE  req'[r].pc # "rotate"
      BY <2>2 DEF LoginCheck, Idle
    <2>3. ASSUME NEW q \in Requests, NEW s \in SessionIds, Authenticate(q, s)
          PROVE  req'[r].pc # "rotate"
      BY <2>3 DEF Authenticate, Idle
    <2>4. ASSUME NEW q \in Requests, Progress(q) \/ Abort(q)
          PROVE  req'[r].pc # "rotate"
      <3>1. req[q].pc # "idle" /\ \A o \in Requests \ {q} : req'[o] = req[o]
        BY <2>4
        DEF Progress, Abort, LoginInsert, RefreshRotate, UserCheck, RefreshAnswer,
            RefreshDisabled, Logout, RevokeSession, NothingToWrite, FlushRevoke, CommitLogin, CommitRefresh, CommitRevoke
      <3> QED BY <3>1
    <2>5. CASE req' = req
      BY <2>5
    <2> QED
      BY <2>1, <2>2, <2>3, <2>4, <2>5
      DEF Next, Receive, LoginRefused, RefreshInvalid, Disable, Tick, vars
  <1> QED BY <1>1, InductiveInvariant, PTL DEF Spec, ReplayIsRefused

\* Who may come to hold a row: a request that held it already, or one that found it unlocked.
LEMMA HoldersStep ==
    ASSUME TypeOK, [Next]_vars, NEW r \in Requests, NEW s \in SessionIds, Holds(r, s)'
    PROVE  \/ Holds(r, s)
           \/ RowUnlocked(s) /\ \A q \in Requests \ {r} : req'[q] = req[q]
  <1> USE DEF TypeOK
  <1>1. CASE req'[r] = req[r]
    BY <1>1 DEF Holds
  <1>2. ASSUME NEW t \in Tokens, RefreshRotate(r, t)
        PROVE  RowUnlocked(s) /\ \A q \in Requests \ {r} : req'[q] = req[q]
    <2>1. req[r] \in Request /\ req'[r].sid = req[r].sid
      BY <1>2 DEF RefreshRotate, Request
    <2> QED BY <1>2, <2>1 DEF RefreshRotate, Holds
  <1>3. CASE FlushRevoke(r)
    <2>1. req[r] \in Request /\ req'[r].sid = req[r].sid
      BY <1>3 DEF FlushRevoke, Request
    <2> QED BY <1>3, <2>1 DEF FlushRevoke, Holds
  <1>4. CASE RefreshAnswer(r)
    <2>1. req[r] \in Request /\ req'[r].sid = req[r].sid
      BY <1>4 DEF RefreshAnswer, Request
    <2> QED BY <1>4, <2>1 DEF RefreshAnswer, Holds
  <1>9. CASE UserCheck(r)
    <2>1. req[r] \in Request /\ req'[r].sid = req[r].sid
      BY <1>9 DEF UserCheck, Request
    <2> QED BY <1>9, <2>1 DEF UserCheck, Holds
  <1>5. CASE req'[r] = Idle
    BY <1>5 DEF Idle, Holds
  <1>6. CASE req'[r].pc \in {"insert", "rotate", "authed", "revoke"}
    BY <1>6 DEF Holds
  <1>7. ASSUME NEW x \in SessionIds, NEW t \in Tokens, LoginInsert(r, x, t)
        PROVE  FALSE
    <2>1. req[r] \in Request /\ req'[r].pc = "commit" /\ req'[r].op = "login"
      BY <1>7 DEF LoginInsert, Request
    <2> QED BY <2>1 DEF Holds
  <1>8. \/ req'[r] = req[r] \/ req'[r] = Idle \/ FlushRevoke(r)
        \/ UserCheck(r) \/ RefreshAnswer(r)
        \/ \E t \in Tokens : RefreshRotate(r, t)
        \/ \E x \in SessionIds, t \in Tokens : LoginInsert(r, x, t)
        \/ req'[r].pc \in {"insert", "rotate", "authed", "revoke"}
    <2>1. ASSUME NEW q \in Requests, q # r, Receive(q) \/ Progress(q) \/ Abort(q)
          PROVE  req'[r] = req[r]
      BY <2>1
      DEF Receive, Progress, Abort, LoginCheck, LoginRefused, RefreshRead, RefreshInvalid,
          Authenticate, LoginInsert, RefreshRotate, UserCheck, RefreshAnswer, RefreshDisabled,
          Logout, RevokeSession, NothingToWrite, FlushRevoke, CommitLogin, CommitRefresh, CommitRevoke,
          vars
    <2>2. CASE Receive(r)
      <3>1. ASSUME NEW u \in Users, LoginCheck(r, u)
            PROVE  req'[r].pc = "insert"
        BY <3>1 DEF LoginCheck, Idle
      <3>2. ASSUME NEW t \in Tokens, NEW x \in SessionIds, RefreshRead(r, t, x)
            PROVE  req'[r].pc = "rotate"
        BY <3>2 DEF RefreshRead, Idle
      <3>3. ASSUME NEW x \in SessionIds, Authenticate(r, x)
            PROVE  req'[r].pc = "authed"
        BY <3>3 DEF Authenticate, Idle
      <3> QED BY <2>2, <3>1, <3>2, <3>3 DEF Receive, LoginRefused, RefreshInvalid, vars
    <2>3. CASE Logout(r) \/ \E x \in SessionIds : RevokeSession(r, x)
      <3>1. req[r] \in Request
        OBVIOUS
      <3>2. Logout(r) => req'[r].pc = "revoke"
        BY <3>1 DEF Logout, Request
      <3>3. ASSUME NEW x \in SessionIds, RevokeSession(r, x)
            PROVE  req'[r].pc = "revoke"
        BY <3>1, <3>3 DEF RevokeSession, Request
      <3> QED BY <2>3, <3>2, <3>3
    <2>4. CASE RefreshDisabled(r) \/ NothingToWrite(r) \/ CommitLogin(r) \/ CommitRefresh(r)
               \/ CommitRevoke(r) \/ Abort(r)
      BY <2>4 DEF RefreshDisabled, NothingToWrite, CommitLogin, CommitRefresh, CommitRevoke,
                  Abort
    <2>5. CASE UNCHANGED req
      BY <2>5
    <2> QED
      BY <2>1, <2>2, <2>3, <2>4, <2>5 DEF Next, Progress, Disable, Tick, vars
  <1> QED
    BY <1>1, <1>2, <1>3, <1>4, <1>5, <1>6, <1>7, <1>8, <1>9

\* The row lock of the UPDATEs: overlapping refreshes and revocations of one session write it
\* one after the other, each after the transaction before it has ended.
THEOREM OneWriter == Spec => []OneWriterPerRow
  <1>1. Init => OneWriterPerRow
    BY DEF Init, Idle, Holds, OneWriterPerRow
  <1>2. IInv /\ OneWriterPerRow /\ [Next]_vars => OneWriterPerRow'
    <2> SUFFICES ASSUME IInv, OneWriterPerRow, [Next]_vars,
                        NEW r \in Requests, NEW q \in Requests, NEW s \in SessionIds,
                        Holds(r, s)', Holds(q, s)', r # q
                 PROVE  FALSE
      BY DEF OneWriterPerRow
    <2>1. CASE Holds(r, s) /\ Holds(q, s)
      BY <2>1 DEF OneWriterPerRow
    <2>2. CASE RowUnlocked(s) /\ \A o \in Requests \ {r} : req'[o] = req[o]
      BY <2>2 DEF RowUnlocked, Holds
    <2>3. CASE RowUnlocked(s) /\ \A o \in Requests \ {q} : req'[o] = req[o]
      BY <2>3 DEF RowUnlocked, Holds
    <2> QED BY <2>1, <2>2, <2>3, HoldersStep DEF IInv
  <1> QED BY <1>1, <1>2, InductiveInvariant, PTL DEF Spec
=============================================================================
