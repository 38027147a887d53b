--------------------------- MODULE AccountsProofs ---------------------------
(***************************************************************************)
(* Proofs about Accounts, for any number of requests, e-mails, providers'  *)
(* subjects and accounts: a registered account is verified by its token    *)
(* only, and an external identity always enters the account it is linked   *)
(* to.                                                                     *)
(***************************************************************************)
EXTENDS Accounts, TLAPS

-----------------------------------------------------------------------------
(* The inductive invariant *)

\* The account of a link that a request inserts: the identity created it, or the provider
\* vouched for its e-mail.
Based(q) ==
    \E u \in users \cup q.row :
        u.id = q.user /\ (u.origin = q.origin \/ (q.vouched /\ u.email = q.email))

\* The row a request inserted is of its own account and origin, and not committed.
RowShape(q) ==
    /\ \A u \in q.row : /\ u.id = q.user /\ u.origin = q.origin /\ u.id \in 1 .. inserted
                        /\ \A w \in users : w.id # u.id
    /\ \A u, w \in q.row : u = w
    /\ q.pc \in {"idle", "register", "lookup", "create", "verified"} => q.row = {}
    /\ q.pc \in {"mail", "registered"} => q.row # {}

\* Who a request is about: a registration, a subject, or the owner of a token. The mail of
\* a registration is queued before the request is answered.
OriginShape(q) ==
    /\ q.pc \in {"register", "mail", "registered"} => q.origin = Local
    /\ q.pc \in {"lookup", "create", "link", "entered"} => q.origin \in Subjects
    /\ q.pc = "registered" => q.user \in Ids /\ mail[q.user] # "none"
    /\ q.pc = "verified" => \E u \in users : u.id = q.user

\* A request that lets an identity in found its link, or inserted the only one.
LinkShape(q) ==
    /\ q.link => q.pc = "entered" /\ q.origin \notin DOMAIN links
    /\ q.pc = "link" \/ q.link => Based(q)
    /\ q.pc = "entered" /\ ~q.link =>
           q.row = {} /\ q.origin \in DOMAIN links /\ links[q.origin].user = q.user

Shape(q) == RowShape(q) /\ OriginShape(q) /\ LinkShape(q)

\* Requests insert different accounts, and links of different subjects.
Apart ==
    \A r, s \in Requests :
        r # s => /\ \A u \in request[r].row, w \in request[s].row : u.id # w.id
                 /\ request[r].link /\ request[s].link => request[r].origin # request[s].origin

\* Ids are drawn in order, and name one account each.
UsersApart ==
    /\ \A u \in users : u.id \in 1 .. inserted
    /\ \A u, w \in users : u.id = w.id => u = w

ConfirmedKnown == \A i \in verified \cup used : \E u \in users : u.id = i

LinksBased ==
    \A s \in DOMAIN links : \E u \in users :
        u.id = links[s].user /\ (u.origin = s \/ (links[s].vouched /\ links[s].email = u.email))

EnteredLinked == \A s \in Subjects : \A i \in entered[s] : s \in DOMAIN links /\ links[s].user = i

IInv ==
    /\ TypeOK /\ (\A r \in Requests : Shape(request[r])) /\ Apart /\ UsersApart
    /\ ConfirmedKnown /\ VerifiedByToken /\ LinksBased /\ EnteredLinked

-----------------------------------------------------------------------------
(* Helpers *)

LEMMA IdleTyped ==
    /\ Idle \in Request /\ Idle.pc = "idle" /\ Idle.row = {} /\ ~Idle.link /\ Idle.origin = Local
    /\ Idle.user = 0
  BY BoundAssumption, OriginAssumption DEF Idle, Request, Origins, Names

LEMMA RequestTyped ==
    ASSUME TypeOK, NEW r \in Requests
    PROVE  /\ request \in [Requests -> Request] /\ request[r] \in Request
           /\ request[r].origin \in Origins /\ request[r].email \in Emails
           /\ request[r].name \in Names /\ request[r].vouched \in BOOLEAN
           /\ request[r].row \in SUBSET User /\ request[r].user \in 0 .. MaxAccounts
           /\ request[r].link \in BOOLEAN
  BY DEF TypeOK, Request

LEMMA UserTyped ==
    ASSUME TypeOK, NEW u \in users
    PROVE  u \in User /\ u.id \in Ids /\ u.email \in Emails /\ u.name \in Names /\ u.origin \in Origins
  BY DEF TypeOK, User

LEMMA IdleShape == Shape(Idle)
  BY IdleTyped DEF Shape, RowShape, OriginShape, LinkShape

\* A request goes on, and nothing else changes.
LEMMA QuietStep ==
    ASSUME IInv, Quiet, NEW r \in Requests, NEW rec \in Request, Go(r, rec), Shape(rec),
           rec.row \subseteq request[r].row,
           rec.link => \A o \in Requests \ {r} : ~(request[o].link /\ request[o].origin = rec.origin)
    PROVE  IInv'
  <1>1. request \in [Requests -> Request]
    BY DEF IInv, TypeOK
  <1>2. /\ request' \in [Requests -> Request] /\ request'[r] = rec
        /\ \A o \in Requests \ {r} : request'[o] = request[o]
    BY <1>1 DEF Go
  <1>3. TypeOK'
    BY <1>2 DEF IInv, TypeOK, Quiet
  <1>4. \A o \in Requests : Shape(request[o])'
    <2> TAKE o \in Requests
    <2>1. Shape(request'[o])
      BY <1>2 DEF IInv
    <2> QED BY <2>1 DEF Shape, RowShape, OriginShape, LinkShape, Based, Quiet
  <1>5. Apart'
    BY <1>2 DEF IInv, Apart
  <1> QED BY <1>3, <1>4, <1>5
      DEF IInv, UsersApart, ConfirmedKnown, VerifiedByToken, LinksBased, EnteredLinked, Quiet

\* A request gives up.
LEMMA GiveUp == ASSUME IInv, Quiet, NEW r \in Requests, Go(r, Idle) PROVE IInv'
  BY IdleTyped, IdleShape, QuietStep

-----------------------------------------------------------------------------
(* Steps that write nothing *)

LEMMA RegisterStep ==
    ASSUME IInv, NEW r \in Requests, NEW e \in Emails, NEW n \in Names, Register(r, e, n)
    PROVE  IInv'
  <1> DEFINE rec == [Idle EXCEPT !.pc = "register", !.email = e, !.name = n]
  <1>1. rec \in Request /\ rec.pc = "register" /\ rec.row = {} /\ ~rec.link /\ rec.origin = Local
    BY IdleTyped DEF Request
  <1>2. Go(r, rec) /\ Quiet
    BY DEF Register
  <1> HIDE DEF rec
  <1>3. Shape(rec)
    BY <1>1 DEF Shape, RowShape, OriginShape, LinkShape
  <1> QED BY <1>1, <1>2, <1>3, QuietStep

LEMMA VerifyEmailStep ==
    ASSUME IInv, NEW r \in Requests, NEW i \in Ids, VerifyEmail(r, i) PROVE IInv'
  <1> DEFINE rec == [Idle EXCEPT !.pc = "verified", !.user = i]
  <1>0. i \in 0 .. MaxAccounts
    BY BoundAssumption DEF Ids
  <1>1. /\ rec \in Request /\ rec.pc = "verified" /\ rec.row = {} /\ ~rec.link /\ rec.user = i
    BY <1>0, IdleTyped DEF Request
  <1>2. Go(r, rec) /\ Quiet /\ \E u \in users : u.id = i
    BY DEF VerifyEmail
  <1> HIDE DEF rec
  <1>3. Shape(rec)
    BY <1>1, <1>2 DEF Shape, RowShape, OriginShape, LinkShape
  <1> QED BY <1>1, <1>2, <1>3, QuietStep

LEMMA FindLinkStep ==
    ASSUME IInv, NEW r \in Requests, NEW s \in Subjects, NEW profile \in OidcProfile,
           FindLink(r, s, profile)
    PROVE  IInv'
  <1> DEFINE q == [Idle EXCEPT !.origin = s, !.email = profile.email, !.vouched = profile.vouched]
             known == [q EXCEPT !.pc = "entered", !.user = links[s].user]
             new == [q EXCEPT !.pc = "lookup"]
  <1>1. q \in Request /\ q.origin = s /\ q.row = {} /\ ~q.link
    BY IdleTyped DEF Request, Origins, OidcProfile
  <1>2. Quiet /\ IF s \in DOMAIN links THEN Go(r, known) ELSE Go(r, new)
    BY DEF FindLink
  <1> HIDE DEF q
  <1>3. CASE s \in DOMAIN links
    <2>1. links[s].user \in 0 .. MaxAccounts
      BY <1>3, BoundAssumption DEF IInv, TypeOK, Link, Ids
    <2>2. /\ known \in Request /\ known.pc = "entered" /\ known.user = links[s].user
          /\ known.origin = s /\ known.row = {} /\ ~known.link
      BY <1>1, <2>1 DEF Request
    <2> HIDE DEF known
    <2>3. Shape(known)
      BY <1>3, <2>2 DEF Shape, RowShape, OriginShape, LinkShape
    <2> QED BY <1>2, <1>3, <2>2, <2>3, QuietStep
  <1>4. CASE s \notin DOMAIN links
    <2>1. /\ new \in Request /\ new.pc = "lookup" /\ new.origin = s /\ new.row = {} /\ ~new.link
      BY <1>1 DEF Request
    <2> HIDE DEF new
    <2>2. Shape(new)
      BY <2>1 DEF Shape, RowShape, OriginShape, LinkShape
    <2> QED BY <1>2, <1>4, <2>1, <2>2, QuietStep
  <1> QED BY <1>3, <1>4

LEMMA FindByEmailStep == ASSUME IInv, NEW r \in Requests, FindByEmail(r) PROVE IInv'
  <1> DEFINE q == request[r]
  <1>1. PICK u \in WithEmail(q.email) :
            Go(r, IF q.vouched THEN [q EXCEPT !.pc = "link", !.user = u.id] ELSE Idle)
    BY DEF FindByEmail
  <1>2. Quiet /\ q.pc = "lookup" /\ q \in Request /\ Shape(q)
    BY RequestTyped DEF FindByEmail, IInv
  <1>3. u \in users /\ u.email = q.email /\ u.id \in 0 .. MaxAccounts
    BY UserTyped, BoundAssumption DEF WithEmail, IInv, Ids
  <1>4. CASE q.vouched
    <2> DEFINE rec == [q EXCEPT !.pc = "link", !.user = u.id]
    <2>1. /\ rec \in Request /\ rec.pc = "link" /\ rec.user = u.id /\ rec.origin = q.origin
          /\ rec.row = q.row /\ rec.link = q.link /\ rec.vouched = q.vouched
          /\ rec.email = q.email
      BY <1>2, <1>3 DEF Request
    <2>2. Go(r, rec)
      BY <1>1, <1>4
    <2> HIDE DEF rec
    <2>3. q.row = {} /\ ~q.link /\ q.origin \in Subjects
      BY <1>2 DEF Shape, RowShape, OriginShape, LinkShape
    <2>4. Based(rec)
      BY <1>3, <1>4, <2>1 DEF Based
    <2>5. Shape(rec)
      BY <2>1, <2>3, <2>4 DEF Shape, RowShape, OriginShape, LinkShape
    <2> QED BY <1>2, <2>1, <2>2, <2>3, <2>5, QuietStep
  <1>5. CASE ~q.vouched
    BY <1>1, <1>2, <1>5, GiveUp
  <1> QED BY <1>4, <1>5

LEMMA FindNameStep == ASSUME IInv, NEW r \in Requests, FindName(r) PROVE IInv'
  <1> DEFINE q == request[r]
  <1>1. PICK n \in Names : Go(r, [q EXCEPT !.pc = "create", !.name = n])
    BY DEF FindName
  <1> DEFINE rec == [q EXCEPT !.pc = "create", !.name = n]
  <1>2. Quiet /\ q.pc = "lookup" /\ q \in Request /\ Shape(q)
    BY RequestTyped DEF FindName, IInv
  <1>3. /\ rec \in Request /\ rec.pc = "create" /\ rec.origin = q.origin /\ rec.row = q.row
        /\ rec.link = q.link
    BY <1>2 DEF Request
  <1>4. Go(r, rec)
    BY <1>1
  <1> HIDE DEF rec
  <1>5. q.row = {} /\ ~q.link /\ q.origin \in Subjects
    BY <1>2 DEF Shape, RowShape, OriginShape, LinkShape
  <1>6. Shape(rec)
    BY <1>3, <1>5 DEF Shape, RowShape, OriginShape, LinkShape
  <1> QED BY <1>2, <1>3, <1>4, <1>5, <1>6, QuietStep

LEMMA InsertLinkStep == ASSUME IInv, NEW r \in Requests, InsertLink(r) PROVE IInv'
  <1> DEFINE q == request[r]
             rec == [q EXCEPT !.pc = "entered", !.link = TRUE]
  <1>1. /\ Quiet /\ q.pc = "link" /\ q \in Request /\ Shape(q)
        /\ \A o \in Requests \ {r} : ~(request[o].link /\ request[o].origin = q.origin)
        /\ Go(r, IF q.origin \in DOMAIN links THEN Idle ELSE rec)
    BY RequestTyped DEF InsertLink, IInv
  <1>2. CASE q.origin \in DOMAIN links
    BY <1>1, <1>2, GiveUp
  <1>3. CASE q.origin \notin DOMAIN links
    <2>1. /\ rec \in Request /\ rec.pc = "entered" /\ rec.link /\ rec.origin = q.origin
          /\ rec.row = q.row /\ rec.user = q.user /\ rec.vouched = q.vouched
          /\ rec.email = q.email
      BY <1>1 DEF Request
    <2>2. Go(r, rec)
      BY <1>1, <1>3
    <2> HIDE DEF rec
    <2>3. Based(rec)
      BY <1>1, <2>1 DEF Shape, LinkShape, Based
    <2>4. Shape(rec)
      BY <1>1, <1>3, <2>1, <2>3 DEF Shape, RowShape, OriginShape, LinkShape
    <2> QED BY <1>1, <2>1, <2>2, <2>4, QuietStep
  <1> QED BY <1>2, <1>3

LEMMA AbortStep == ASSUME IInv, NEW r \in Requests, Abort(r) PROVE IInv'
  BY GiveUp DEF Abort

-----------------------------------------------------------------------------
(* Inserting an account, and its mail *)

\* The row that is inserted has the next id.
LEMMA InsertUserStep ==
    ASSUME IInv, NEW r \in Requests, NEW next \in {"mail", "link"}, InsertUser(r, next),
           request[r].pc = IF next = "mail" THEN "register" ELSE "create"
    PROVE  IInv'
  <1> DEFINE q == request[r]
  <1>1. q \in Request /\ Shape(q) /\ UNCHANGED <<users, verified, used, links, entered, mail>>
    BY RequestTyped DEF InsertUser, IInv
  <1>2. q.row = {} /\ ~q.link /\ (next = "mail" => q.origin = Local)
        /\ (next = "link" => q.origin \in Subjects)
    BY <1>1 DEF Shape, RowShape, OriginShape, LinkShape
  <1>3. CASE \E u \in users : Clash(u, NewRow(q))
    <2>1. Go(r, Idle) /\ Quiet
      BY <1>3 DEF InsertUser, Quiet
    <2> QED BY <2>1, GiveUp
  <1>4. CASE ~\E u \in users : Clash(u, NewRow(q))
    <2> DEFINE row == NewRow(q)
               rec == [q EXCEPT !.pc = next, !.row = {row}, !.user = inserted + 1]
    <2>1. inserted < MaxAccounts /\ inserted' = inserted + 1 /\ Go(r, rec)
      BY <1>4 DEF InsertUser
    <2>2. inserted \in Nat /\ inserted + 1 \in Ids /\ inserted + 1 \in 0 .. MaxAccounts
      BY <2>1, BoundAssumption DEF IInv, TypeOK, Ids
    <2>3. /\ row \in User /\ row.id = inserted + 1 /\ row.origin = q.origin
      BY <1>1, <2>2, RequestTyped DEF IInv, NewRow, User
    <2> HIDE DEF row
    <2>4. /\ rec \in Request /\ rec.pc = next /\ rec.row = {row} /\ rec.user = inserted + 1
          /\ rec.origin = q.origin /\ rec.link = q.link
      BY <1>1, <2>2, <2>3 DEF Request
    <2> HIDE DEF rec
    <2>5. /\ request' \in [Requests -> Request] /\ request'[r] = rec
          /\ \A o \in Requests \ {r} : request'[o] = request[o]
      BY <2>1, <2>4 DEF Go, IInv, TypeOK
    <2>6. TypeOK'
      <3>1. inserted' \in 0 .. MaxAccounts
        BY <2>1, <2>2
      <3> QED BY <1>1, <2>5, <3>1 DEF IInv, TypeOK
    <2>7. \A w \in users : w.id \in 1 .. inserted /\ w.id # inserted + 1
      BY <2>2 DEF IInv, UsersApart
    <2>8. \A o \in Requests : \A w \in request[o].row : w.id \in 1 .. inserted /\ w.id # inserted + 1
      BY <2>2 DEF IInv, Shape, RowShape
    <2>9. Shape(request[r])'
      <3>1. RowShape(request[r])'
        <4>1. inserted + 1 \in 1 .. inserted'
          BY <2>1, <2>2
        <4>2. \A w \in users' : w.id # inserted + 1
          BY <1>1, <2>7
        <4> QED BY <2>3, <2>4, <2>5, <4>1, <4>2 DEF RowShape
      <3>2. OriginShape(request[r])'
        BY <1>2, <2>4, <2>5 DEF OriginShape
      <3>3. LinkShape(request[r])'
        BY <1>2, <2>3, <2>4, <2>5 DEF LinkShape, Based
      <3> QED BY <3>1, <3>2, <3>3 DEF Shape
    <2>10. ASSUME NEW o \in Requests \ {r} PROVE Shape(request[o])'
      <3>1. Shape(request[o]) /\ request'[o] = request[o] /\ 1 .. inserted \subseteq 1 .. inserted'
        BY <2>1, <2>2, <2>5 DEF IInv
      <3> QED BY <1>1, <3>1 DEF Shape, RowShape, OriginShape, LinkShape, Based
    <2>11. Apart'
      <3> SUFFICES ASSUME NEW s \in Requests, NEW o \in Requests, s # o
                   PROVE  /\ \A u \in request'[s].row, w \in request'[o].row : u.id # w.id
                          /\ request'[s].link /\ request'[o].link
                                 => request'[s].origin # request'[o].origin
        BY DEF Apart
      <3>1. /\ \A u \in request[s].row, w \in request[o].row : u.id # w.id
            /\ request[s].link /\ request[o].link => request[s].origin # request[o].origin
        BY DEF IInv, Apart
      <3>2. CASE s # r /\ o # r
        BY <2>5, <3>1, <3>2
      <3>3. CASE s = r
        BY <1>2, <2>3, <2>4, <2>5, <2>8, <3>3
      <3>4. CASE o = r
        BY <1>2, <2>3, <2>4, <2>5, <2>8, <3>4
      <3> QED BY <3>2, <3>3, <3>4
    <2>12. UsersApart'
      <3>1. 1 .. inserted \subseteq 1 .. inserted'
        BY <2>1, <2>2
      <3> QED BY <1>1, <3>1 DEF IInv, UsersApart
    <2> QED BY <1>1, <2>6, <2>9, <2>10, <2>11, <2>12
        DEF IInv, ConfirmedKnown, VerifiedByToken, LinksBased, EnteredLinked
  <1> QED BY <1>3, <1>4

LEMMA InsertAccountStep == ASSUME IInv, NEW r \in Requests, InsertAccount(r) PROVE IInv'
  BY InsertUserStep DEF InsertAccount

LEMMA CreateUserStep == ASSUME IInv, NEW r \in Requests, CreateUser(r) PROVE IInv'
  BY InsertUserStep DEF CreateUser

\* A step that takes no mail back.
LEMMA MailStep ==
    ASSUME IInv, TypeOK', UNCHANGED <<users, verified, used, links, entered, inserted>>,
           \A o \in Requests : RowShape(request'[o]) /\ LinkShape(request'[o]),
           \A o \in Requests : OriginShape(request[o])', Apart',
           \A i \in Ids : mail[i] # "none" => mail'[i] # "none"
    PROVE  IInv'
  <1>1. \A o \in Requests : Shape(request[o])'
    <2> TAKE o \in Requests
    <2>1. RowShape(request[o])' /\ LinkShape(request[o])'
      BY DEF RowShape, LinkShape, Based
    <2> QED BY <2>1 DEF Shape
  <1>2. VerifiedByToken'
    BY UserTyped DEF IInv, VerifiedByToken
  <1> QED BY <1>1, <1>2 DEF IInv, UsersApart, ConfirmedKnown, LinksBased, EnteredLinked

LEMMA QueueMailStep == ASSUME IInv, NEW r \in Requests, QueueMail(r) PROVE IInv'
  <1> DEFINE q == request[r]
             rec == [q EXCEPT !.pc = "registered"]
  <1>1. q.pc = "mail" /\ q \in Request /\ Shape(q) /\ Go(r, rec)
        /\ mail' = [mail EXCEPT ![q.user] = "queued"]
    BY RequestTyped DEF QueueMail, IInv
  <1>2. q.row # {} /\ \A u \in q.row : u.id = q.user
    BY <1>1 DEF Shape, RowShape
  <1>3. q.user \in Ids /\ \A w \in users : w.id # q.user
    <2>1. PICK u \in q.row : u.id = q.user
      BY <1>2
    <2>2. u \in User /\ \A w \in users : w.id # u.id
      BY <1>1, RequestTyped DEF IInv, Shape, RowShape
    <2> QED BY <2>1, <2>2 DEF User
  <1>4. /\ rec \in Request /\ rec.pc = "registered" /\ rec.row = q.row /\ rec.user = q.user
        /\ rec.origin = q.origin /\ rec.link = q.link
    BY <1>1 DEF Request
  <1> HIDE DEF rec
  <1>5. /\ request' \in [Requests -> Request] /\ request'[r] = rec
        /\ \A o \in Requests \ {r} : request'[o] = request[o]
    BY <1>1, <1>4 DEF Go, IInv, TypeOK
  <1>6. TypeOK'
    BY <1>1, <1>3, <1>5 DEF IInv, TypeOK, QueueMail
  <1>7. RowShape(rec) /\ LinkShape(rec) /\ rec.origin = Local
    BY <1>1, <1>4 DEF Shape, RowShape, OriginShape, LinkShape
  <1>8. \A o \in Requests : RowShape(request'[o]) /\ LinkShape(request'[o])
    BY <1>5, <1>7 DEF IInv, Shape
  <1>9. Apart'
    BY <1>4, <1>5 DEF IInv, Apart
  <1>10. \A i \in Ids : mail[i] # "none" => mail'[i] # "none"
    BY <1>1, <1>3 DEF IInv, TypeOK
  <1>11. ASSUME NEW o \in Requests PROVE OriginShape(request[o])'
    <2>1. CASE o = r
      <3>1. mail'[q.user] # "none"
        BY <1>1, <1>3 DEF IInv, TypeOK
      <3> QED BY <1>3, <1>4, <1>5, <1>7, <2>1, <3>1 DEF OriginShape
    <2>2. CASE o # r
      <3>1. OriginShape(request[o]) /\ request'[o] = request[o] /\ users' = users
        BY <1>5, <2>2 DEF IInv, Shape, QueueMail
      <3> QED BY <1>10, <3>1 DEF OriginShape
    <2> QED BY <2>1, <2>2
  <1> QED BY <1>6, <1>8, <1>9, <1>10, <1>11, MailStep DEF QueueMail

LEMMA SendMailStep == ASSUME IInv, NEW i \in Ids, SendMail(i) PROVE IInv'
  <1>1. TypeOK'
    BY DEF IInv, TypeOK, SendMail
  <1>2. Apart'
    BY DEF IInv, Apart, SendMail
  <1>3. \A k \in Ids : mail[k] # "none" => mail'[k] # "none"
    BY DEF IInv, TypeOK, SendMail
  <1>4. \A o \in Requests : OriginShape(request[o])'
    BY <1>3 DEF IInv, Shape, OriginShape, SendMail
  <1> QED BY <1>1, <1>2, <1>3, <1>4, MailStep DEF SendMail, IInv, Shape

-----------------------------------------------------------------------------
(* The commit *)

\* What a commit writes: the row and the link of the request, if it has them.
LEMMA CommitWrites ==
    ASSUME IInv, NEW r \in Requests, Commit(r)
    PROVE  LET q == request[r] IN
           /\ q \in Request /\ Shape(q) /\ q.pc \in {"registered", "entered", "verified"}
           /\ users' = users \cup q.row /\ verified' = verified \cup Confirmed(q)
           /\ used' = used \cup {i \in {q.user} : q.pc = "verified"}
           /\ q.user \in Ids /\ \E u \in users' : u.id = q.user
           /\ DOMAIN links' = DOMAIN links \cup {s \in {q.origin} : q.link}
           /\ \A s \in DOMAIN links : links'[s] = links[s]
           /\ q.link => /\ links'[q.origin].user = q.user /\ links'[q.origin].email = q.email
                        /\ links'[q.origin].vouched = q.vouched /\ links'[q.origin] \in Link
                        /\ q.origin \in Subjects
           /\ UNCHANGED <<mail, inserted>>
  <1> DEFINE q == request[r]
             link == [user |-> q.user, email |-> q.email, vouched |-> q.vouched]
  <1>1. /\ q \in Request /\ Shape(q) /\ q.pc \in {"registered", "entered", "verified"}
        /\ users' = users \cup q.row /\ verified' = verified \cup Confirmed(q)
        /\ used' = IF q.pc = "verified" THEN used \cup {q.user} ELSE used
        /\ UNCHANGED <<mail, inserted>>
    BY RequestTyped DEF Commit, IInv
  <1>2. links' = IF q.link THEN [s \in DOMAIN links \cup {q.origin} |->
                                    IF s = q.origin THEN link ELSE links[s]]
                 ELSE links
    BY DEF Commit
  <1>3. used' = used \cup {i \in {q.user} : q.pc = "verified"}
    BY <1>1
  <1>4. q.user \in Ids /\ \E u \in users' : u.id = q.user
    <2>1. \A u \in users \cup q.row : u.id \in Ids
      BY UserTyped, RequestTyped DEF IInv, User
    <2>2. CASE q.pc = "registered"
      BY <1>1, <2>1, <2>2 DEF Shape, RowShape
    <2>3. CASE q.pc = "verified"
      BY <1>1, <2>1, <2>3 DEF Shape, OriginShape
    <2>4. CASE q.pc = "entered" /\ q.link
      BY <1>1, <2>1, <2>4 DEF Shape, LinkShape, Based
    <2>5. CASE q.pc = "entered" /\ ~q.link
      <3>1. q.origin \in DOMAIN links /\ links[q.origin].user = q.user
        BY <1>1, <2>5 DEF Shape, LinkShape
      <3>2. PICK u \in users : u.id = q.user
        BY <3>1 DEF IInv, LinksBased
      <3> QED BY <1>1, <2>1, <3>2
    <2> QED BY <1>1, <2>2, <2>3, <2>4, <2>5
  <1>5. link \in Link /\ link.user = q.user /\ link.email = q.email /\ link.vouched = q.vouched
    BY <1>4, RequestTyped DEF IInv, Link
  <1> HIDE DEF link
  <1>6. q.link => q.origin \notin DOMAIN links /\ q.origin \in Subjects
    BY <1>1 DEF Shape, LinkShape, OriginShape
  <1>7. CASE q.link
    <2>1. links' = [s \in DOMAIN links \cup {q.origin} |->
                       IF s = q.origin THEN link ELSE links[s]]
      BY <1>2, <1>7
    <2>2. DOMAIN links' = DOMAIN links \cup {s \in {q.origin} : q.link}
      BY <1>7, <2>1
    <2>3. \A s \in DOMAIN links : links'[s] = links[s]
      BY <1>6, <1>7, <2>1
    <2>4. links'[q.origin] = link
      BY <2>1
    <2> QED BY <1>1, <1>3, <1>4, <1>5, <1>6, <2>2, <2>3, <2>4
  <1>8. CASE ~q.link
    <2>1. links' = links /\ {s \in {q.origin} : q.link} = {}
      BY <1>2, <1>8
    <2> QED BY <1>1, <1>3, <1>4, <1>8, <2>1
  <1> QED BY <1>7, <1>8

LEMMA CommitStep == ASSUME IInv, NEW r \in Requests, Commit(r) PROVE IInv'
  <1> DEFINE q == request[r]
  <1>1. /\ q \in Request /\ Shape(q) /\ q.pc \in {"registered", "entered", "verified"}
        /\ users' = users \cup q.row /\ verified' = verified \cup Confirmed(q)
        /\ used' = used \cup {i \in {q.user} : q.pc = "verified"}
        /\ q.user \in Ids /\ \E u \in users' : u.id = q.user
        /\ UNCHANGED <<mail, inserted>>
    BY CommitWrites
  <1>2. /\ DOMAIN links' = DOMAIN links \cup {s \in {q.origin} : q.link}
        /\ \A s \in DOMAIN links : links'[s] = links[s]
        /\ q.link => /\ links'[q.origin].user = q.user /\ links'[q.origin].email = q.email
                     /\ links'[q.origin].vouched = q.vouched /\ links'[q.origin] \in Link
                     /\ q.origin \in Subjects
    BY CommitWrites
  <1>3. /\ request' \in [Requests -> Request] /\ request'[r] = Idle
        /\ \A o \in Requests \ {r} : request'[o] = request[o]
    BY IdleTyped DEF Commit, Go, IInv, TypeOK
  <1>4. /\ q.pc = "entered" => q.origin \in Subjects
        /\ q.link => q.pc = "entered" /\ q.origin \notin DOMAIN links /\ Based(q)
        /\ q.pc = "entered" /\ ~q.link =>
               q.row = {} /\ q.origin \in DOMAIN links /\ links[q.origin].user = q.user
        /\ q.pc = "verified" => q.row = {} /\ \E u \in users : u.id = q.user
        /\ q.pc = "registered" => q.origin = Local /\ mail[q.user] # "none"
        /\ \A u \in q.row : /\ u.id = q.user /\ u.origin = q.origin /\ u.id \in 1 .. inserted
                            /\ \A w \in users : w.id # u.id
    BY <1>1 DEF Shape, RowShape, OriginShape, LinkShape
  <1>5. entered' = IF q.pc = "entered" THEN [entered EXCEPT ![q.origin] = @ \cup {q.user}]
                   ELSE entered
    BY DEF Commit
  <1>6. Confirmed(q) \subseteq {q.user}
    BY DEF Confirmed
  <1>7. TypeOK'
    <2>1. users' \in SUBSET User
      BY <1>1, RequestTyped DEF IInv, TypeOK
    <2>2. verified' \in SUBSET Ids /\ used' \in SUBSET Ids
      BY <1>1, <1>6 DEF IInv, TypeOK
    <2>3. DOMAIN links' \in SUBSET Subjects
      BY <1>2 DEF IInv, TypeOK
    <2>4. \A s \in DOMAIN links' : links'[s] \in Link
      BY <1>2 DEF IInv, TypeOK
    <2>5. entered' \in [Subjects -> SUBSET Ids]
      BY <1>1, <1>4, <1>5 DEF IInv, TypeOK
    <2> QED BY <1>1, <1>3, <2>1, <2>2, <2>3, <2>4, <2>5 DEF IInv, TypeOK
  <1>8. ASSUME NEW o \in Requests PROVE Shape(request[o])'
    <2>1. CASE o = r
      BY <1>3, <2>1, IdleTyped DEF Shape, RowShape, OriginShape, LinkShape
    <2>2. CASE o # r
      <3> DEFINE p == request[o]
      <3>1. /\ p \in Request /\ Shape(p) /\ request'[o] = p
            /\ \A u \in q.row, w \in p.row : u.id # w.id
            /\ q.link /\ p.link => q.origin # p.origin
        BY <1>3, <2>2, RequestTyped DEF IInv, Apart
      <3>2. RowShape(request[o])'
        BY <1>1, <3>1 DEF Shape, RowShape
      <3>3. OriginShape(request[o])'
        BY <1>1, <3>1 DEF Shape, OriginShape
      <3>4. LinkShape(request[o])'
        <4>1. p.link => p.pc = "entered" /\ p.origin \notin DOMAIN links'
          BY <1>2, <3>1 DEF Shape, LinkShape
        <4>2. p.pc = "link" \/ p.link => Based(request[o])'
          BY <1>1, <3>1 DEF Shape, LinkShape, Based
        <4>3. p.pc = "entered" /\ ~p.link =>
                  p.row = {} /\ p.origin \in DOMAIN links' /\ links'[p.origin].user = p.user
          BY <1>2, <3>1 DEF Shape, LinkShape
        <4> QED BY <3>1, <4>1, <4>2, <4>3 DEF LinkShape
      <3> QED BY <3>2, <3>3, <3>4 DEF Shape
    <2> QED BY <2>1, <2>2
  <1>9. Apart'
    BY <1>3, IdleTyped DEF IInv, Apart
  <1>10. UsersApart'
    BY <1>1, <1>4, RequestTyped DEF IInv, UsersApart, Shape, RowShape
  <1>11. ConfirmedKnown'
    <2>1. \A i \in verified \cup used : \E u \in users' : u.id = i
      BY <1>1 DEF IInv, ConfirmedKnown
    <2> QED BY <1>1, <1>6, <2>1 DEF ConfirmedKnown
  <1>12. VerifiedByToken'
    <2> SUFFICES ASSUME NEW u \in users', u.origin = Local
                 PROVE  /\ mail'[u.id] # "none"
                        /\ u.id \in verified' <=> u.id \in used'
      BY DEF VerifiedByToken
    <2>1. CASE q.pc = "registered"
      <3>1. Confirmed(q) = {} /\ verified' = verified /\ used' = used
        BY <1>1, <2>1 DEF Confirmed
      <3>2. CASE u \in users
        BY <1>1, <3>1, <3>2 DEF IInv, VerifiedByToken
      <3>3. CASE u \in q.row
        BY <1>1, <1>4, <2>1, <3>1, <3>3 DEF IInv, ConfirmedKnown
      <3> QED BY <1>1, <3>2, <3>3
    <2>2. CASE q.pc = "entered"
      <3>1. used' = used /\ u \notin q.row /\ u \in users
        BY <1>1, <1>4, <2>2, OriginAssumption
      <3>2. Confirmed(q) = IF q.row # {} THEN {q.user} ELSE {}
        BY <2>2 DEF Confirmed
      <3>3. u.id \notin Confirmed(q)
        BY <1>4, <3>1, <3>2
      <3> QED BY <1>1, <3>1, <3>3 DEF IInv, VerifiedByToken
    <2>3. CASE q.pc = "verified"
      <3>1. verified' = verified \cup {q.user} /\ used' = used \cup {q.user} /\ u \in users
        BY <1>1, <1>4, <2>3 DEF Confirmed
      <3> QED BY <1>1, <1>4, <2>3, <3>1 DEF IInv, VerifiedByToken
    <2> QED BY <1>1, <2>1, <2>2, <2>3
  <1>13. LinksBased'
    <2> SUFFICES ASSUME NEW s \in DOMAIN links'
                 PROVE  \E u \in users' : /\ u.id = links'[s].user
                                          /\ \/ u.origin = s
                                             \/ links'[s].vouched /\ links'[s].email = u.email
      BY DEF LinksBased
    <2>1. CASE s \in DOMAIN links
      BY <1>1, <1>2, <2>1 DEF IInv, LinksBased
    <2>2. CASE q.link /\ s = q.origin
      BY <1>1, <1>2, <1>4, <2>2 DEF Based
    <2> QED BY <1>2, <2>1, <2>2
  <1>14. EnteredLinked'
    <2> SUFFICES ASSUME NEW s \in Subjects, NEW i \in entered'[s]
                 PROVE  s \in DOMAIN links' /\ links'[s].user = i
      BY DEF EnteredLinked
    <2>1. CASE i \in entered[s]
      BY <1>2, <2>1 DEF IInv, EnteredLinked
    <2>2. CASE q.pc = "entered" /\ s = q.origin /\ i = q.user
      BY <1>2, <1>4, <2>2
    <2> QED BY <1>4, <1>5, <2>1, <2>2 DEF IInv, TypeOK
  <1> QED BY <1>7, <1>8, <1>9, <1>10, <1>11, <1>12, <1>13, <1>14 DEF IInv

-----------------------------------------------------------------------------
(* The theorems *)

LEMMA InitIInv == Init => IInv
  <1> SUFFICES ASSUME Init PROVE IInv
    OBVIOUS
  <1>1. users = {} /\ verified = {} /\ used = {} /\ DOMAIN links = {}
        /\ (\A r \in Requests : request[r] = Idle) /\ \A s \in Subjects : entered[s] = {}
    BY DEF Init
  <1>2. TypeOK
    BY <1>1, IdleTyped, BoundAssumption DEF Init, TypeOK
  <1>3. (\A r \in Requests : Shape(request[r])) /\ Apart
    BY <1>1, IdleShape, IdleTyped DEF Apart
  <1>4. UsersApart /\ ConfirmedKnown /\ VerifiedByToken /\ LinksBased /\ EnteredLinked
    BY <1>1 DEF UsersApart, ConfirmedKnown, VerifiedByToken, LinksBased, EnteredLinked
  <1> QED BY <1>2, <1>3, <1>4 DEF IInv

LEMMA StutterStep == ASSUME IInv, UNCHANGED vars PROVE IInv'
  <1>1. TypeOK' /\ Apart'
    BY DEF IInv, TypeOK, Apart, vars
  <1>2. \A o \in Requests : OriginShape(request[o])'
    BY DEF IInv, Shape, OriginShape, vars
  <1> QED BY <1>1, <1>2, MailStep DEF vars, IInv, Shape

LEMMA NextIInv == IInv /\ [Next]_vars => IInv'
  <1> SUFFICES ASSUME IInv, [Next]_vars PROVE IInv'
    OBVIOUS
  <1>1. ASSUME NEW r \in Requests, HandleAcs(r) \/ HandleCallback(r) PROVE IInv'
    <2>1. SamlProfile \subseteq OidcProfile
      BY DEF SamlProfile, OidcProfile
    <2>2. PICK s \in Subjects, profile \in OidcProfile : FindLink(r, s, profile)
      BY <1>1, <2>1, OriginAssumption DEF HandleAcs, HandleCallback
    <2> QED BY <2>2, FindLinkStep
  <1>2. CASE \E r \in Requests, e \in Emails, n \in Names : Register(r, e, n)
    BY <1>2, RegisterStep
  <1>3. CASE \E r \in Requests : \/ InsertAccount(r) \/ QueueMail(r)
                                 \/ \E i \in Ids : VerifyEmail(r, i)
    BY <1>3, InsertAccountStep, QueueMailStep, VerifyEmailStep
  <1>4. CASE \E r \in Requests : \/ FindByEmail(r) \/ FindName(r) \/ CreateUser(r) \/ InsertLink(r)
                                 \/ Commit(r) \/ Abort(r)
    BY <1>4, FindByEmailStep, FindNameStep, CreateUserStep, InsertLinkStep, CommitStep, AbortStep
  <1>5. CASE \E i \in Ids : SendMail(i)
    BY <1>5, SendMailStep
  <1>6. CASE UNCHANGED vars
    BY <1>6, StutterStep
  <1> QED BY <1>1, <1>2, <1>3, <1>4, <1>5, <1>6 DEF Next

\* The inductive invariant holds in every reachable state.
THEOREM InductiveInvariant == Spec => []IInv
  <1> QED BY InitIInv, NextIInv, PTL DEF Spec

\* Every variable keeps its type.
THEOREM TypeCorrect == Spec => []TypeOK
  <1>1. IInv => TypeOK
    BY DEF IInv
  <1> QED BY <1>1, InductiveInvariant, PTL

\* However registrations, redeemed tokens and sign-ins overlap or fail (auth_service.py,
\* external_identity_linker.py), a registered account has its mail on the way, and only its
\* own token verifies it.
THEOREM OnlyTokenVerifies == Spec => []VerifiedByToken
  <1>1. IInv => VerifiedByToken
    BY DEF IInv
  <1> QED BY <1>1, InductiveInvariant, PTL

\* However first sign-ins overlap, fail or change their e-mail, an external identity enters
\* one account only, which it created or whose e-mail its provider vouched for.
THEOREM OneAccountPerIdentity == Spec => []SameIdentitySameAccount
  <1>1. IInv => SameIdentitySameAccount
    <2> SUFFICES ASSUME IInv, NEW s \in Subjects, NEW i \in entered[s]
                 PROVE  /\ s \in DOMAIN links /\ links[s].user = i
                        /\ \E u \in users : /\ u.id = i
                                            /\ \/ u.origin = s
                                               \/ links[s].vouched /\ links[s].email = u.email
      BY DEF SameIdentitySameAccount
    <2>1. s \in DOMAIN links /\ links[s].user = i
      BY DEF IInv, EnteredLinked
    <2> QED BY <2>1 DEF IInv, LinksBased
  <1> QED BY <1>1, InductiveInvariant, PTL
=============================================================================
