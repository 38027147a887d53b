------------------------------ MODULE Accounts ------------------------------
(***************************************************************************)
(* Accounts and the two ways into being: registration with an e-mail to    *)
(* confirm (auth_service.py), and the sign-in with an identity of an       *)
(* external provider (external_identity_linker.py, which oidc_service.py   *)
(* and saml_service.py both call).                                         *)
(*                                                                         *)
(* A request reads what is committed, inserts and is answered in one       *)
(* transaction, which commits afterwards. An insert waits for another      *)
(* transaction's row with the same unique value and fails when that one    *)
(* commits. The verification mail is queued before the account commits; a  *)
(* worker sends it once, or logs its link when that fails.                 *)
(*                                                                         *)
(* A subject stands for a protocol, an issuer and a subject id; the token  *)
(* of an account is named by the account. E-mails share their local part,  *)
(* so all first sign-ins search the same user names: 0 is the local part   *)
(* itself, n the one with n appended.                                      *)
(***************************************************************************)
EXTENDS Integers, FiniteSets

CONSTANTS Requests, Emails, Subjects,
          SamlSubjects,  \* those of SAML providers; the others come by OIDC
          Local,         \* the origin of an account that was registered
          MaxAccounts    \* bound on the accounts inserted

ASSUME BoundAssumption == MaxAccounts \in Nat
ASSUME OriginAssumption ==
    Emails # {} /\ Local \notin Subjects /\ SamlSubjects \subseteq Subjects

VARIABLES
    users,    \* committed rows of users
    verified, \* email_verified of the committed rows
    used,     \* tokens whose used_at is committed
    links,    \* committed rows of external_identity_links, by subject
    entered,  \* the accounts each subject was let into
    mail,     \* the verification mail of each account
    inserted, \* accounts inserted so far
    request

vars == <<users, verified, used, links, entered, mail, inserted, request>>

Ids == 1 .. MaxAccounts
Names == 0 .. MaxAccounts
Origins == Subjects \cup {Local}

User == [id: Ids, email: Emails, name: Names, origin: Origins]

\* How a link came to be, with the e-mail the provider gave and whether it vouched for it.
Link == [user: Ids, email: Emails, vouched: BOOLEAN]

\* row: the user row it inserted. link: whether it inserted a link to the account `user'.
Request ==
    [pc: {"idle", "register", "mail", "registered", "lookup", "create", "link", "entered",
          "verified"},
     origin: Origins, email: Emails, name: Names, vouched: BOOLEAN,
     row: SUBSET User, user: 0 .. MaxAccounts, link: BOOLEAN]

Busy(r) == request[r].pc # "idle"

TypeOK ==
    /\ users \in SUBSET User
    /\ verified \in SUBSET Ids /\ used \in SUBSET Ids
    /\ DOMAIN links \in SUBSET Subjects /\ \A s \in DOMAIN links : links[s] \in Link
    /\ entered \in [Subjects -> SUBSET Ids]
    /\ mail \in [Ids -> {"none", "queued", "sent", "logged"}]
    /\ inserted \in 0 .. MaxAccounts
    /\ request \in [Requests -> Request]

Idle == [pc |-> "idle", origin |-> Local, email |-> CHOOSE e \in Emails : TRUE, name |-> 0,
         vouched |-> FALSE, row |-> {}, user |-> 0, link |-> FALSE]

Init ==
    /\ users = {} /\ verified = {} /\ used = {} /\ inserted = 0
    /\ links = [s \in {} |-> 0]
    /\ entered = [s \in Subjects |-> {}]
    /\ mail = [i \in Ids |-> "none"]
    /\ request = [r \in Requests |-> Idle]

-----------------------------------------------------------------------------
(* Helpers *)

Go(r, rec) == request' = [request EXCEPT ![r] = rec]
Quiet == UNCHANGED <<users, verified, used, links, entered, mail, inserted>>

Taken == {u.name : u \in users}
WithEmail(e) == {u \in users : u.email = e}

Clash(u, w) == u.email = w.email \/ u.name = w.name

\* Mutant of NewRow: the key is taken before it is drawn.
RowOfLastId(q) == [id |-> inserted, email |-> q.email, name |-> q.name, origin |-> q.origin]

\* The user row a request inserts.
NewRow(q) == [id |-> inserted + 1, email |-> q.email, name |-> q.name, origin |-> q.origin]

\* add: waits for a clashing row in flight; a committed one is an IntegrityError.
InsertUser(r, next) ==
    LET q == request[r] IN
    /\ \A o \in Requests \ {r} : \A u \in request[o].row : ~Clash(u, NewRow(q))
    /\ IF \E u \in users : Clash(u, NewRow(q))
       THEN Go(r, Idle) /\ UNCHANGED inserted
       ELSE /\ inserted < MaxAccounts /\ inserted' = inserted + 1
            /\ Go(r, [q EXCEPT !.pc = next, !.row = {NewRow(q)}, !.user = inserted + 1])
    /\ UNCHANGED <<users, verified, used, links, entered, mail>>

-----------------------------------------------------------------------------
(* Registration *)

\* The address and the name are not taken, the password is strong enough.
Register(r, e, n) ==
    /\ ~Busy(r) /\ inserted < MaxAccounts
    /\ WithEmail(e) = {} /\ n \notin Taken
    /\ Go(r, [Idle EXCEPT !.pc = "register", !.email = e, !.name = n])
    /\ Quiet

\* The account is inserted, and the hash of a fresh token.
InsertAccount(r) == request[r].pc = "register" /\ InsertUser(r, "mail")

\* The mail with the token is queued; the answer follows.
QueueMail(r) ==
    /\ request[r].pc = "mail"
    /\ mail' = [mail EXCEPT ![request[r].user] = "queued"]
    /\ Go(r, [request[r] EXCEPT !.pc = "registered"])
    /\ UNCHANGED <<users, verified, used, links, entered, inserted>>

\* The worker takes the mail off the queue. It tries to send it once; when that fails it
\* logs the link, token and all.
SendMail(i) ==
    /\ mail[i] = "queued"
    /\ \E fate \in {"sent", "logged"} : mail' = [mail EXCEPT ![i] = fate]
    /\ UNCHANGED <<users, verified, used, links, entered, inserted, request>>

\* A token is presented, however it was come by. Its hash is committed, and it is unused
\* and, while it is not refused, unexpired.
VerifyEmail(r, i) ==
    /\ ~Busy(r)
    /\ i \in {u.id : u \in {w \in users : w.origin = Local}} \ used
    /\ Go(r, [Idle EXCEPT !.pc = "verified", !.user = i])
    /\ Quiet

-----------------------------------------------------------------------------
(* Sign-in with an external identity *)

\* What a provider says of a subject, this time. A SAML response that passes its checks is
\* vouched for as a whole; an OIDC provider says whether it verified the address.
SamlProfile == [email: Emails, vouched: {TRUE}]
OidcProfile == [email: Emails, vouched: BOOLEAN]

\* An identity that is linked enters its account.
FindLink(r, s, profile) ==
    LET q == [Idle EXCEPT !.origin = s, !.email = profile.email, !.vouched = profile.vouched] IN
    /\ ~Busy(r)
    /\ IF s \in DOMAIN links
       THEN Go(r, [q EXCEPT !.pc = "entered", !.user = links[s].user])
       ELSE Go(r, [q EXCEPT !.pc = "lookup"])
    /\ Quiet

HandleAcs(r) == \E s \in SamlSubjects, p \in SamlProfile : FindLink(r, s, p)
HandleCallback(r) == \E s \in Subjects \ SamlSubjects, p \in OidcProfile : FindLink(r, s, p)

\* The account with that e-mail, when the provider vouches for it; else a conflict.
FindByEmail(r) ==
    /\ request[r].pc = "lookup"
    /\ \E u \in WithEmail(request[r].email) :
          Go(r, IF request[r].vouched THEN [request[r] EXCEPT !.pc = "link", !.user = u.id]
                ELSE Idle)
    /\ Quiet

\* No account has it: a user name is searched for a new one.
FindName(r) ==
    /\ request[r].pc = "lookup" /\ WithEmail(request[r].email) = {}
    /\ \E n \in Names \ Taken :
          /\ \A m \in 0 .. n - 1 : m \in Taken
          /\ Go(r, [request[r] EXCEPT !.pc = "create", !.name = n])
    /\ Quiet

CreateUser(r) == request[r].pc = "create" /\ InsertUser(r, "link")

\* Mutant of InsertLink: the link is written over one that is there (upsert).
UpsertLink(r) ==
    /\ request[r].pc = "link"
    /\ Go(r, [request[r] EXCEPT !.pc = "entered", !.link = TRUE])
    /\ Quiet

\* Waits for a link of the same subject in flight; a committed one is an IntegrityError. A
\* session is created in the same transaction, and the answer follows.
InsertLink(r) ==
    LET q == request[r] IN
    /\ q.pc = "link"
    /\ \A o \in Requests \ {r} : ~(request[o].link /\ request[o].origin = q.origin)
    /\ Go(r, IF q.origin \in DOMAIN links THEN Idle
             ELSE [q EXCEPT !.pc = "entered", !.link = TRUE])
    /\ Quiet

-----------------------------------------------------------------------------
(* The end of a request *)

\* Mutant of Confirmed: linking an account to an identity confirms its address.
ConfirmedByLink(q) == IF q.pc = "registered" THEN {} ELSE {q.user}

\* The accounts a request marks as verified: those the provider vouches for when it creates
\* them (vouched or not), and the one whose token is redeemed.
Confirmed(q) ==
    IF q.pc = "verified" \/ (q.pc = "entered" /\ q.row # {}) THEN {q.user} ELSE {}

Commit(r) ==
    LET q == request[r] IN
    /\ q.pc \in {"registered", "entered", "verified"}
    /\ users' = users \cup q.row
    /\ verified' = verified \cup Confirmed(q)
    /\ used' = IF q.pc = "verified" THEN used \cup {q.user} ELSE used
    /\ links' = IF q.link
                THEN [s \in DOMAIN links \cup {q.origin} |->
                         IF s = q.origin
                         THEN [user |-> q.user, email |-> q.email, vouched |-> q.vouched]
                         ELSE links[s]]
                ELSE links
    /\ entered' = IF q.pc = "entered" THEN [entered EXCEPT ![q.origin] = @ \cup {q.user}]
                  ELSE entered
    /\ Go(r, Idle)
    /\ UNCHANGED <<mail, inserted>>

\* A statement, the queue or the commit fails: nothing is written.
Abort(r) == Busy(r) /\ Go(r, Idle) /\ Quiet

Next ==
    \/ \E r \in Requests :
          \/ \E e \in Emails, n \in Names : Register(r, e, n)
          \/ HandleAcs(r) \/ HandleCallback(r)
          \/ InsertAccount(r) \/ QueueMail(r)
          \/ \E i \in Ids : VerifyEmail(r, i)
          \/ FindByEmail(r) \/ FindName(r) \/ CreateUser(r) \/ InsertLink(r)
          \/ Commit(r) \/ Abort(r)
    \/ \E i \in Ids : SendMail(i)

Spec == Init /\ [][Next]_vars

-----------------------------------------------------------------------------
(* Properties *)

\* An account that is registered has its mail on the way, and is verified exactly when its
\* token was redeemed (AuthService.register, verify_email): an identity that is linked to it
\* before confirms nothing, and no failure leaves an account nobody can verify.
VerifiedByToken ==
    \A u \in users : u.origin = Local =>
        /\ mail[u.id] # "none"
        /\ u.id \in verified <=> u.id \in used

\* An external identity always enters the same account, the one it is linked to: an account
\* its own first sign-in created, or one whose e-mail the provider vouched for; whatever the
\* provider says its e-mail is by now, and whichever sign-ins, registrations and failures
\* overlapped.
SameIdentitySameAccount ==
    \A s \in Subjects : \A i \in entered[s] :
        /\ s \in DOMAIN links /\ links[s].user = i
        /\ \E u \in users : u.id = i /\ (u.origin = s \/ (links[s].vouched /\ links[s].email = u.email))
=============================================================================
