---------------------------- MODULE IdentityKeys ----------------------------
(***************************************************************************)
(* The identity key pairs of the users: the key directory of the server    *)
(* (identity_key_service.py) and the browsers that recover, or generate,   *)
(* wrap and publish, the pair of the signed-in user (vault.ts, bootstrap   *)
(* and unlockWithPassword of messagingStore.ts).                           *)
(*                                                                         *)
(* A browser's code runs between awaits; an unlock goes on after the user  *)
(* signed out or somebody else signed in. A publish or a rotation reads    *)
(* the active keys, inserts, is answered, and commits only then. Nothing   *)
(* makes key_version unique.                                               *)
(*                                                                         *)
(* A pair is a number in the order of generation, or the browser whose     *)
(* legacy slot holds it. A row's wrap is the password its private keys are *)
(* wrapped under: unwrapping with another one fails.                       *)
(***************************************************************************)
EXTENDS Integers, FiniteSets

CONSTANTS Users, Browsers, Passwords,
          Unlocks,       \* concurrent unlocks and rotations
          NoUser, NoWrap,
          MaxIds,        \* bound on the rows and on the pairs generated
          MaxEvents      \* bound on sign-ins, page loads, cleared storages, rotations

ASSUME BoundAssumption == MaxIds \in Nat \ {0} /\ MaxEvents \in Nat
ASSUME Inhabited == Users # {} /\ Browsers # {}

VARIABLES
    rows,       \* committed rows of identity_keys
    pending,    \* transactions that are answered and not committed yet
    ids,        \* primary keys and pairs used so far
    session,    \* the user signed in at a browser
    cache,      \* localStorage: vayunx.identity.<userId> of each browser
    legacy,     \* browsers whose legacy global slot is filled
    identity,   \* the identity in the messaging store of each browser
    unlock,     \* the unlocks and rotations under way
    events

vars == <<rows, pending, ids, session, cache, legacy, identity, unlock, events>>
server == <<rows, pending>>

Ids == 1 .. MaxIds
Pairs == Ids \cup Browsers
Versions == 1 .. 2 * MaxIds

\* wrap: NoWrap for a row without wrapped material, or of the former cipher.
Row == [id: Ids, user: Users, pair: Pairs, version: Versions, active: BOOLEAN,
        wrap: Passwords \cup {NoWrap}]
NoRow == [id |-> 0, wrap |-> NoWrap]

\* out: the primary key of the row a rotation supersedes, 0 for a publish.
Transaction == [row: Row, out: 0 .. MaxIds]

\* LocalIdentity, with the user whose slot it was read from or written to. id 0: none.
LocalIdentity == [id: 0 .. MaxIds, pair: Pairs \cup {0}]
NoIdentity == [id |-> 0, pair |-> 0]

\* rec: the record fetched, or the outgoing row of a rotation; new: the row to insert.
\* pc "orphan": a publish whose page is gone.
Unlock == [pc: {"idle", "fetch", "wrap", "publish", "orphan", "rotate"}, browser: Browsers,
           user: Users, password: Passwords \cup {NoWrap},
           rec: Row \cup {NoRow}, new: Row \cup {NoRow}]
Idle == [pc |-> "idle", browser |-> CHOOSE b \in Browsers : TRUE,
         user |-> CHOOSE u \in Users : TRUE, password |-> NoWrap,
         rec |-> NoRow, new |-> NoRow]

TypeOK ==
    /\ rows \in SUBSET Row /\ pending \in SUBSET Transaction
    /\ ids \in 0 .. MaxIds /\ events \in 0 .. MaxEvents
    /\ session \in [Browsers -> Users \cup {NoUser}]
    /\ cache \in [Browsers -> [Users -> LocalIdentity]]
    /\ legacy \in SUBSET Browsers
    /\ identity \in [Browsers -> LocalIdentity]
    /\ unlock \in [Unlocks -> Unlock]

\* The table may hold a key published before wrapping, a browser a legacy identity.
Init ==
    /\ \E old \in SUBSET {CHOOSE u \in Users : TRUE} :
          rows = {[id |-> 1, user |-> u, pair |-> 1, version |-> 1, active |-> TRUE,
                   wrap |-> NoWrap] : u \in old}
    /\ pending = {} /\ ids = Cardinality(rows) /\ events = 0
    /\ session = [b \in Browsers |-> NoUser]
    /\ cache = [b \in Browsers |-> [u \in Users |-> NoIdentity]]
    /\ legacy \in {{}, {CHOOSE b \in Browsers : TRUE}}
    /\ identity = [b \in Browsers |-> NoIdentity]
    /\ unlock = [t \in Unlocks |-> Idle]

-----------------------------------------------------------------------------
(* Helpers *)

Active(u) == {r \in rows : r.user = u /\ r.active}

\* Rows that ORDER BY key_version DESC may put first: ties are broken anyhow.
Newest(u) == {r \in Active(u) : \A s \in Active(u) : s.version <= r.version}

NextVersion(u) == IF Active(u) = {} THEN 1 ELSE (CHOOSE r \in Newest(u) : TRUE).version + 1

\* Mutant of Successor: the version of the outgoing key is taken over.
SameVersion(out) == out.version

\* The version of the key that replaces the outgoing one.
Successor(out) == out.version + 1

Go(t, rec) == unlock' = [unlock EXCEPT ![t] = rec]
Stop(t) == Go(t, Idle)
Event == events < MaxEvents /\ events' = events + 1

\* storeLocalIdentity, then set({ identity }): under the user the unlock was started for.
Keep(t, id, pair) ==
    LET b == unlock[t].browser
        mine == [id |-> id, pair |-> pair] IN
    /\ cache' = [cache EXCEPT ![b] = [@ EXCEPT ![unlock[t].user] = mine]]
    /\ identity' = [identity EXCEPT ![b] = mine]

-----------------------------------------------------------------------------
(* The browsers *)

\* handleLogout and Login: nothing of the messaging store is reset, nothing under way stops.
SignIn(b, u) ==
    /\ Event
    /\ session[b] # u
    /\ session' = [session EXCEPT ![b] = u]
    /\ UNCHANGED <<server, ids, cache, legacy, identity, unlock>>

\* A page load ends what was under way and empties the store; the cookie restores the session.
LoadPage(b) ==
    /\ Event
    /\ unlock' = [t \in Unlocks |->
                    IF unlock[t].browser # b THEN unlock[t]
                    ELSE IF unlock[t].pc = "publish" THEN [unlock[t] EXCEPT !.pc = "orphan"]
                    ELSE IF unlock[t].pc \in {"fetch", "wrap"} THEN Idle ELSE unlock[t]]
    /\ identity' = [identity EXCEPT ![b] = NoIdentity]
    /\ UNCHANGED <<server, ids, session, cache, legacy>>

\* The user, or the browser, clears the site's storage.
ClearStorage(b) ==
    /\ Event
    /\ cache' = [cache EXCEPT ![b] = [u \in Users |-> NoIdentity]]
    /\ legacy' = legacy \ {b}
    /\ UNCHANGED <<server, ids, session, identity, unlock>>

\* unlockIdentity finds the cache filled.
UnlockCached(b) ==
    /\ session[b] # NoUser
    /\ cache[b][session[b]] # NoIdentity
    /\ identity' = [identity EXCEPT ![b] = cache[b][session[b]]]
    /\ UNCHANGED <<server, ids, session, cache, legacy, unlock, events>>

\* unlockIdentity with a password: that of the login, or what the unlock prompt is given.
StartUnlock(t, b, p) ==
    /\ unlock[t].pc = "idle" /\ session[b] # NoUser
    /\ cache[b][session[b]] = NoIdentity
    /\ Go(t, [Idle EXCEPT !.pc = "fetch", !.browser = b, !.user = session[b], !.password = p])
    /\ UNCHANGED <<server, ids, session, cache, legacy, identity, events>>

\* GET /users/me/identity-key.
FetchWrapped(t) ==
    LET u == unlock[t].user IN
    /\ unlock[t].pc = "fetch"
    /\ \E rec \in Newest(u) \cup {NoRow} :
          /\ rec = NoRow => Active(u) = {}
          /\ Go(t, [unlock[t] EXCEPT !.pc = "wrap", !.rec = rec])
    /\ UNCHANGED <<server, ids, session, cache, legacy, identity, events>>

Wrapped(t) == unlock[t].rec.wrap # NoWrap

\* The wrapping key derived from the password verifies the tag of the wrapped private keys.
Opens(t) == unlock[t].rec.wrap = unlock[t].password

\* Mutant of LegacyOrNew: no pair is generated.
LegacyOrNone(b) == IF b \in legacy THEN b ELSE 0

\* readLegacyGlobalKeypair() ?? generateKeypair().
LegacyOrNew(b) == IF b \in legacy THEN b ELSE ids + 1

\* The record is unwrapped with the password.
Recover(t) ==
    /\ unlock[t].pc = "wrap" /\ Wrapped(t) /\ Opens(t)
    /\ Keep(t, unlock[t].rec.id, unlock[t].rec.pair)
    /\ Stop(t)
    /\ UNCHANGED <<server, ids, session, legacy, events>>

\* A request fails, or the tag does not verify: the error is shown, nothing is kept.
UnlockFails(t) ==
    /\ unlock[t].pc \in {"fetch", "wrap", "publish", "orphan"}
    /\ unlock[t].pc = "wrap" /\ Wrapped(t) => ~Opens(t)
    /\ Stop(t)
    /\ UNCHANGED <<server, ids, session, cache, legacy, identity, events>>

\* No record, or none that can be unwrapped: the legacy pair or a new one is wrapped, and
\* published for whoever is signed in by now. The server reads the active keys.
PublishRead(t) ==
    LET b == unlock[t].browser IN
    /\ unlock[t].pc = "wrap" /\ ~Wrapped(t)
    /\ session[b] # NoUser /\ ids < MaxIds
    /\ ids' = ids + 1
    /\ Go(t, [unlock[t] EXCEPT !.pc = "publish", !.new =
                [id |-> ids + 1, user |-> session[b], active |-> TRUE,
                 pair |-> LegacyOrNew(b),
                 version |-> NextVersion(session[b]), wrap |-> unlock[t].password]])
    /\ UNCHANGED <<server, session, cache, legacy, identity, events>>

\* Mutant of PublishAnswer: a record that was fetched keeps naming the key.
PublishUnderOldRecord(t) ==
    /\ unlock[t].pc = "publish"
    /\ pending' = pending \cup {[row |-> unlock[t].new, out |-> 0]}
    /\ Keep(t, IF unlock[t].rec = NoRow THEN unlock[t].new.id ELSE unlock[t].rec.id,
            unlock[t].new.pair)
    /\ legacy' = legacy \ {unlock[t].browser}
    /\ Stop(t)
    /\ UNCHANGED <<rows, ids, session, events>>

\* The server inserts and answers; the browser keeps the identity and clears the legacy slot.
PublishAnswer(t) ==
    /\ unlock[t].pc = "publish"
    /\ pending' = pending \cup {[row |-> unlock[t].new, out |-> 0]}
    /\ Keep(t, unlock[t].new.id, unlock[t].new.pair)
    /\ legacy' = legacy \ {unlock[t].browser}
    /\ Stop(t)
    /\ UNCHANGED <<rows, ids, session, events>>

\* The same, with nobody to hear the answer, or with the answer lost on its way.
PublishUnheard(t) ==
    /\ unlock[t].pc \in {"publish", "orphan"}
    /\ pending' = pending \cup {[row |-> unlock[t].new, out |-> 0]}
    /\ Stop(t)
    /\ UNCHANGED <<rows, ids, session, cache, legacy, identity, events>>

-----------------------------------------------------------------------------
(* Rotation, which no page asks for, and the end of a transaction *)

\* rotate reads the key that is active; the attestation, which only the holder of its
\* private key can make, is verified with it.
RotateRead(t, u, p) ==
    /\ unlock[t].pc = "idle" /\ Event /\ ids < MaxIds
    /\ ids' = ids + 1
    /\ \E out \in Newest(u) :
          Go(t, [Idle EXCEPT !.pc = "rotate", !.user = u, !.rec = out, !.new =
                   [id |-> ids + 1, user |-> u, active |-> TRUE, pair |-> ids + 1,
                    version |-> Successor(out), wrap |-> p]])
    /\ UNCHANGED <<server, session, cache, legacy, identity>>

\* mark_superseded waits for the row; then the new key is inserted, and the answer sent.
RotateWrite(t) ==
    /\ unlock[t].pc = "rotate"
    /\ \A x \in pending : x.out # unlock[t].rec.id
    /\ pending' = pending \cup {[row |-> unlock[t].new, out |-> unlock[t].rec.id]}
    /\ Stop(t)
    /\ UNCHANGED <<rows, ids, session, cache, legacy, identity, events>>

RotateFails(t) ==
    /\ unlock[t].pc = "rotate"
    /\ Stop(t)
    /\ UNCHANGED <<server, ids, session, cache, legacy, identity, events>>

\* get_db_session commits: the key that was rotated out is superseded, the new one listed.
Commit(x) ==
    /\ x \in pending
    /\ pending' = pending \ {x}
    /\ rows' = {IF r.id = x.out THEN [r EXCEPT !.active = FALSE] ELSE r : r \in rows}
               \cup {x.row}
    /\ UNCHANGED <<ids, session, cache, legacy, identity, unlock, events>>

\* The commit fails: both writes are undone, and the answer was already sent.
Abort(x) ==
    /\ x \in pending
    /\ pending' = pending \ {x}
    /\ UNCHANGED <<rows, ids, session, cache, legacy, identity, unlock, events>>

Next ==
    \/ \E b \in Browsers : \/ \E u \in Users \cup {NoUser} : SignIn(b, u)
                           \/ LoadPage(b) \/ ClearStorage(b) \/ UnlockCached(b)
    \/ \E t \in Unlocks : \/ \E b \in Browsers, p \in Passwords : StartUnlock(t, b, p)
                          \/ FetchWrapped(t) \/ Recover(t) \/ UnlockFails(t)
                          \/ PublishRead(t) \/ PublishAnswer(t) \/ PublishUnheard(t)
                          \/ \E u \in Users, p \in Passwords : RotateRead(t, u, p)
                          \/ RotateWrite(t) \/ RotateFails(t)
    \/ \E x \in pending : Commit(x) \/ Abort(x)

Spec == Init /\ [][Next]_vars

-----------------------------------------------------------------------------
(* Properties *)

\* Whatever rotations and publishes overlapped, the key of a user that was superseded was
\* superseded by a newer one that is still active or has itself been followed: a user who
\* published once always has an active key, the newest one, for peers to seal to.
NewestIsActive ==
    \A r \in rows : ~r.active => \E s \in rows : s.active /\ s.user = r.user /\ s.version > r.version

\* The key id a browser keeps with an identity, which its messages will name, never names a
\* committed row of another pair: a peer that looks the id up verifies with the right key.
KeyIdNamesItsPair ==
    \A b \in Browsers : \A r \in rows :
        \A mine \in {identity[b]} \cup {cache[b][u] : u \in Users} :
            mine.id = r.id => mine.pair = r.pair

\* vault.ts: the keyId is bound to the account. Refuted by an unlock that publishes after
\* somebody else has signed in: the row is theirs.
KeyIdIsBoundToTheAccount ==
    \A b \in Browsers : \A u \in Users : \A r \in rows : cache[b][u].id = r.id => r.user = u
=============================================================================
