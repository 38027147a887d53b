------------------------- MODULE IdentityKeysProofs -------------------------
(***************************************************************************)
(* Proofs about IdentityKeys, for any number of users, browsers, unlocks   *)
(* and rotations: who published once always has an active key, the newest  *)
(* one, and a key id that a browser keeps names the pair it keeps.         *)
(***************************************************************************)
EXTENDS IdentityKeys, WellFoundedInduction, FiniteSetTheorems, TLAPS

-----------------------------------------------------------------------------
(* The inductive invariant *)

Inserting(t) == unlock[t].pc \in {"publish", "orphan", "rotate"}

\* The rows that are committed, or may be.
Directory == rows \cup {x.row : x \in pending}
             \cup {unlock[t].new : t \in {s \in Unlocks : Inserting(s)}}

Twins(a, c) == a.id = c.id /\ a.user = c.user /\ a.pair = c.pair /\ a.version = c.version

\* Primary keys are drawn in order, and a version is never ahead of them.
IdsAreDrawn == \A a \in Directory : a \in Row /\ a.id <= ids /\ a.version <= a.id

\* A primary key has one user, pair and version, whatever becomes of its row.
IdsAreNames == \A a, c \in Directory : a.id = c.id => Twins(a, c)

\* A row that is to supersede another one is of the same user, and newer.
Supersedes(row, out) ==
    /\ row.active
    /\ out # 0 => \E r \in rows : r.id = out /\ r.user = row.user /\ r.version < row.version

Rotations ==
    /\ \A x \in pending : Supersedes(x.row, x.out)
    /\ \A t \in Unlocks : /\ Inserting(t) => unlock[t].new.active
                          /\ unlock[t].pc = "rotate" => Supersedes(unlock[t].new, unlock[t].rec.id)

\* The pair that goes with a primary key that was answered, committed or not.
Kept(id, pair) == id <= ids /\ \A a \in Directory : a.id = id => a.pair = pair

Identities ==
    \A b \in Browsers : /\ Kept(identity[b].id, identity[b].pair)
                        /\ \A u \in Users : Kept(cache[b][u].id, cache[b][u].pair)

Fetched ==
    \A t \in Unlocks :
        unlock[t].pc = "wrap" /\ Wrapped(t) => Kept(unlock[t].rec.id, unlock[t].rec.pair)

IInv ==
    /\ TypeOK /\ IdsAreDrawn /\ IdsAreNames /\ Rotations
    /\ Identities /\ Fetched /\ NewestIsActive

-----------------------------------------------------------------------------
(* Helpers *)

LEMMA IdleTyped == Idle \in Unlock /\ Idle.pc = "idle" /\ Idle.rec = NoRow
  BY Inhabited DEF Idle, Unlock

LEMMA RowTyped ==
    \A r \in Row : /\ r.id \in Ids /\ r.user \in Users /\ r.pair \in Pairs
                   /\ r.version \in Versions /\ r.active \in BOOLEAN
                   /\ r.wrap \in Passwords \cup {NoWrap}
  BY DEF Row

\* What TypeOK says of the unlocks and of the browsers.
LEMMA UnlockTyped ==
    ASSUME TypeOK, NEW t \in Unlocks
    PROVE  /\ unlock \in [Unlocks -> Unlock] /\ unlock[t] \in Unlock
           /\ unlock[t].browser \in Browsers /\ unlock[t].user \in Users
           /\ unlock[t].password \in Passwords \cup {NoWrap}
           /\ unlock[t].rec \in Row \cup {NoRow} /\ unlock[t].new \in Row \cup {NoRow}
  BY DEF TypeOK, Unlock

\* A wrapped record is one that was fetched.
LEMMA WrappedTyped ==
    ASSUME TypeOK, NEW t \in Unlocks, Wrapped(t)
    PROVE  unlock[t].rec \in Row
  BY UnlockTyped DEF Wrapped, NoRow

LEMMA PairsTyped == Ids \subseteq Pairs /\ Browsers \subseteq Pairs
  BY DEF Pairs

\* Among the active rows of a user who has one there is a newest.
LEMMA NewestExists ==
    ASSUME IInv, NEW u \in Users, Active(u) # {}
    PROVE  Newest(u) # {}
  <1> DEFINE T == {2 * MaxIds - r.version : r \in Active(u)}
  <1>1. \A r \in Active(u) : r \in rows /\ r \in Row /\ r.version \in Versions
    BY RowTyped DEF Active, IInv, TypeOK
  <1>2. T \subseteq Nat /\ T # {}
    <2>1. \A r \in Active(u) : 2 * MaxIds - r.version \in Nat
      BY <1>1, BoundAssumption DEF Versions
    <2>2. PICK r \in Active(u) : TRUE
      OBVIOUS
    <2>3. 2 * MaxIds - r.version \in T
      OBVIOUS
    <2> QED BY <2>1, <2>3
  <1>3. PICK m \in T : \A y \in T : <<y, m>> \notin OpToRel(<, Nat)
    <2> HIDE DEF T
    <2> QED BY <1>2, NatLessThanWellFounded, WFMin
  <1>4. \A y \in T : m <= y
    <2> HIDE DEF T
    <2> TAKE y \in T
    <2>1. y \in Nat /\ m \in Nat
      BY <1>2
    <2>2. <<y, m>> \notin {ss \in Nat \X Nat : ss[1] < ss[2]}
      BY <1>3 DEF OpToRel
    <2> QED BY <2>1, <2>2
  <1>5. PICK r \in Active(u) : m = 2 * MaxIds - r.version
    OBVIOUS
  <1>6. \A s \in Active(u) : s.version <= r.version
    <2> TAKE s \in Active(u)
    <2>1. 2 * MaxIds - s.version \in T
      OBVIOUS
    <2>2. m <= 2 * MaxIds - s.version
      BY <1>4, <2>1
    <2> QED BY <1>1, <1>5, <2>2, BoundAssumption DEF Versions
  <1> QED BY <1>6 DEF Newest

\* A newest row is a committed one of that user.
LEMMA NewestTyped ==
    ASSUME IInv, NEW u \in Users, NEW r \in Newest(u)
    PROVE  r \in rows /\ r \in Row /\ r \in Directory /\ r.user = u /\ r.active
           /\ r.id \in 1 .. ids /\ r.version \in 1 .. r.id
  BY RowTyped DEF Newest, Active, IInv, TypeOK, IdsAreDrawn, Directory, Ids, Versions

LEMMA NextVersionTyped ==
    ASSUME IInv, NEW u \in Users
    PROVE  NextVersion(u) \in 1 .. ids + 1
  <1>1. CASE Active(u) = {}
    BY <1>1 DEF NextVersion, IInv, TypeOK
  <1>2. CASE Active(u) # {}
    <2>1. (CHOOSE r \in Newest(u) : TRUE) \in Newest(u)
      BY <1>2, NewestExists
    <2> QED BY <1>2, <2>1, NewestTyped DEF NextVersion, IInv, TypeOK
  <1> QED BY <1>1, <1>2

\* A row of the directory is kept under its own primary key.
LEMMA DirectoryIsKept ==
    ASSUME IInv, NEW a \in Directory
    PROVE  Kept(a.id, a.pair)
  BY DEF IInv, IdsAreDrawn, IdsAreNames, Kept, Twins

\* When each row of the new directory is as before or has the next primary key, nothing
\* that was kept is contradicted.
LEMMA Settle ==
    ASSUME IInv, TypeOK', Rotations', NewestIsActive', NEW fresh, ids' \in {ids, ids + 1},
           \A a \in Directory' :
               /\ a \in Row
               /\ \/ \E c \in Directory : Twins(a, c)
                  \/ a = fresh /\ a.id = ids + 1 /\ ids' = ids + 1 /\ a.version <= a.id,
           \A b \in Browsers : /\ Kept(identity'[b].id, identity'[b].pair)
                               /\ \A u \in Users : Kept(cache'[b][u].id, cache'[b][u].pair),
           \A t \in Unlocks :
               unlock'[t].pc = "wrap" /\ unlock'[t].rec.wrap # NoWrap
                   => Kept(unlock'[t].rec.id, unlock'[t].rec.pair)
    PROVE  IInv'
  <1>1. ids \in Nat
    BY DEF IInv, TypeOK
  <1>2. IdsAreDrawn'
    <2> SUFFICES ASSUME NEW a \in Directory'
                 PROVE  a \in Row /\ a.id <= ids' /\ a.version <= a.id
      BY DEF IdsAreDrawn
    <2>1. a \in Row /\ a.id \in Nat /\ a.version \in Nat
      BY RowTyped DEF Ids, Versions
    <2>2. CASE \E c \in Directory : Twins(a, c)
      BY <1>1, <2>1, <2>2 DEF IInv, IdsAreDrawn, Twins
    <2>3. CASE a.id = ids + 1 /\ ids' = ids + 1 /\ a.version <= a.id
      BY <1>1, <2>1, <2>3
    <2> QED BY <2>2, <2>3
  <1>3. \A c \in Directory : c.id # ids + 1
    <2>1. \A c \in Directory : c.id \in Nat /\ c.id <= ids
      BY RowTyped DEF IInv, IdsAreDrawn, Ids
    <2> QED BY <1>1, <2>1
  <1>4. IdsAreNames'
    <2> SUFFICES ASSUME NEW a \in Directory', NEW c \in Directory', a.id = c.id
                 PROVE  Twins(a, c)
      BY DEF IdsAreNames
    <2>1. CASE a = fresh /\ a.id = ids + 1
      BY <1>3, <2>1 DEF Twins
    <2>2. CASE \E x \in Directory : Twins(a, x)
      <3>1. PICK x \in Directory : Twins(a, x)
        BY <2>2
      <3>2. PICK y \in Directory : Twins(c, y)
        BY <1>3, <3>1 DEF Twins
      <3>3. Twins(x, y)
        BY <3>1, <3>2 DEF IInv, IdsAreNames, Twins
      <3> QED BY <3>1, <3>2, <3>3 DEF Twins
    <2> QED BY <2>1, <2>2
  <1>5. ASSUME NEW id \in 0 .. MaxIds, NEW pair, Kept(id, pair)
        PROVE  Kept(id, pair)'
    <2>1. id <= ids'
      BY <1>1, <1>5 DEF Kept
    <2>2. ASSUME NEW a \in Directory', a.id = id PROVE a.pair = pair
      <3>1. a.id # ids + 1
        BY <1>1, <1>5, <2>2 DEF Kept
      <3> QED BY <1>5, <2>2, <3>1 DEF Kept, Twins
    <2> QED BY <2>1, <2>2 DEF Kept
  <1>6. Identities'
    <2> SUFFICES ASSUME NEW b \in Browsers
                 PROVE  /\ Kept(identity[b].id, identity[b].pair)'
                        /\ \A u \in Users : Kept(cache[b][u].id, cache[b][u].pair)'
      BY DEF Identities
    <2>1. identity'[b] \in LocalIdentity /\ \A u \in Users : cache'[b][u] \in LocalIdentity
      BY DEF TypeOK
    <2>2. identity'[b].id \in 0 .. MaxIds /\ \A u \in Users : cache'[b][u].id \in 0 .. MaxIds
      BY <2>1 DEF LocalIdentity
    <2>3. Kept(identity[b].id, identity[b].pair)'
      <3>1. Kept(identity'[b].id, identity'[b].pair)
        OBVIOUS
      <3>2. PICK id \in 0 .. MaxIds, pair \in {identity'[b].pair} : id = identity'[b].id
        BY <2>2
      <3>3. Kept(id, pair)'
        BY <1>5, <3>1, <3>2
      <3> QED BY <3>2, <3>3 DEF Kept
    <2>4. ASSUME NEW u \in Users PROVE Kept(cache[b][u].id, cache[b][u].pair)'
      <3>1. Kept(cache'[b][u].id, cache'[b][u].pair)
        OBVIOUS
      <3>2. PICK id \in 0 .. MaxIds, pair \in {cache'[b][u].pair} : id = cache'[b][u].id
        BY <2>2
      <3>3. Kept(id, pair)'
        BY <1>5, <3>1, <3>2
      <3> QED BY <3>2, <3>3 DEF Kept
    <2> QED BY <2>3, <2>4
  <1>7. Fetched'
    <2> SUFFICES ASSUME NEW t \in Unlocks, unlock'[t].pc = "wrap", unlock'[t].rec.wrap # NoWrap
                 PROVE  Kept(unlock[t].rec.id, unlock[t].rec.pair)'
      BY DEF Fetched, Wrapped
    <2>1. unlock'[t].rec \in Row
      BY DEF TypeOK, Unlock, NoRow
    <2>2. unlock'[t].rec.id \in 0 .. MaxIds
      BY <2>1, RowTyped DEF Ids
    <2>3. Kept(unlock'[t].rec.id, unlock'[t].rec.pair)
      OBVIOUS
    <2>4. PICK id \in 0 .. MaxIds, pair \in {unlock'[t].rec.pair} : id = unlock'[t].rec.id
      BY <2>2
    <2>5. Kept(id, pair)'
      BY <1>5, <2>3, <2>4
    <2> QED BY <2>4, <2>5 DEF Kept
  <1> QED BY <1>2, <1>4, <1>6, <1>7 DEF IInv

-----------------------------------------------------------------------------
(* The browsers *)

KeptByAll ==
    \A b \in Browsers : /\ Kept(identity'[b].id, identity'[b].pair)
                        /\ \A u \in Users : Kept(cache'[b][u].id, cache'[b][u].pair)

\* A step that writes nothing at the server: what the browsers hold from now on was kept.
LEMMA BrowserStep ==
    ASSUME IInv, TypeOK', UNCHANGED <<rows, pending, ids>>, KeptByAll,
           \A t \in Unlocks :
               /\ Inserting(t)' => Inserting(t) /\ unlock'[t].new = unlock[t].new
               /\ unlock'[t].pc = "rotate" =>
                      unlock[t].pc = "rotate" /\ unlock'[t].rec = unlock[t].rec
               /\ unlock'[t].pc = "wrap" /\ unlock'[t].rec.wrap # NoWrap
                      => Kept(unlock'[t].rec.id, unlock'[t].rec.pair)
    PROVE  IInv'
  <1>1. ASSUME NEW a \in Directory'
        PROVE  a \in Row /\ \E c \in Directory : Twins(a, c)
    <2>1. a \in Directory
      BY DEF Directory
    <2> QED BY <2>1 DEF IInv, IdsAreDrawn, Twins
  <1>2. Rotations'
    <2>1. \A x \in pending' : Supersedes(x.row, x.out)'
      BY DEF IInv, Rotations, Supersedes
    <2>2. ASSUME NEW t \in Unlocks
          PROVE  /\ Inserting(t)' => unlock'[t].new.active
                 /\ unlock'[t].pc = "rotate" => Supersedes(unlock[t].new, unlock[t].rec.id)'
      <3>1. Inserting(t)' => unlock'[t].new.active
        BY DEF IInv, Rotations
      <3>2. ASSUME unlock'[t].pc = "rotate"
            PROVE  Supersedes(unlock[t].new, unlock[t].rec.id)'
        <4>1. Supersedes(unlock[t].new, unlock[t].rec.id) /\ unlock'[t].new = unlock[t].new
              /\ unlock'[t].rec = unlock[t].rec
          BY <3>2 DEF IInv, Rotations, Inserting
        <4> QED BY <4>1 DEF Supersedes
      <3> QED BY <3>1, <3>2
    <2> QED BY <2>1, <2>2 DEF Rotations
  <1>3. NewestIsActive'
    BY DEF IInv, NewestIsActive
  <1> QED BY <1>1, <1>2, <1>3, Settle DEF KeptByAll

\* Nothing is kept that was not kept before.
LEMMA SameKept ==
    ASSUME IInv, UNCHANGED <<identity, cache>>
    PROVE  KeptByAll
  BY DEF IInv, Identities, KeptByAll

\* No identity at all is no other row's.
LEMMA NoneKept ==
    ASSUME IInv
    PROVE  NoIdentity \in LocalIdentity /\ Kept(NoIdentity.id, NoIdentity.pair)
  <1>1. \A a \in Directory : a.id # 0
    BY RowTyped DEF IInv, IdsAreDrawn, Ids
  <1> QED BY <1>1, BoundAssumption DEF NoIdentity, LocalIdentity, Kept, IInv, TypeOK

\* An unlock that goes to a step that inserts nothing and has fetched nothing.
LEMMA QuietUnlock ==
    ASSUME IInv, NEW t \in Unlocks, NEW rec \in Unlock, Go(t, rec),
           rec.pc \in {"idle", "fetch"} \/ (rec.pc = "wrap" /\ (rec.rec.wrap # NoWrap
                                                 => Kept(rec.rec.id, rec.rec.pair)))
    PROVE  /\ unlock' \in [Unlocks -> Unlock]
           /\ \A s \in Unlocks :
               /\ Inserting(s)' => Inserting(s) /\ unlock'[s].new = unlock[s].new
               /\ unlock'[s].pc = "rotate" =>
                      unlock[s].pc = "rotate" /\ unlock'[s].rec = unlock[s].rec
               /\ unlock'[s].pc = "wrap" /\ unlock'[s].rec.wrap # NoWrap
                      => Kept(unlock'[s].rec.id, unlock'[s].rec.pair)
  <1>1. unlock \in [Unlocks -> Unlock]
    BY UnlockTyped DEF IInv
  <1>2. unlock' \in [Unlocks -> Unlock] /\ unlock'[t] = rec
        /\ \A s \in Unlocks \ {t} : unlock'[s] = unlock[s]
    BY <1>1 DEF Go
  <1>3. \A s \in Unlocks : unlock[s].pc = "wrap" /\ unlock[s].rec.wrap # NoWrap
                               => Kept(unlock[s].rec.id, unlock[s].rec.pair)
    BY DEF IInv, Fetched, Wrapped
  <1> QED BY <1>2, <1>3 DEF Inserting

LEMMA SignInStep ==
    ASSUME IInv, NEW b \in Browsers, NEW u \in Users \cup {NoUser}, SignIn(b, u)
    PROVE  IInv'
  <1>1. TypeOK'
    BY BoundAssumption DEF IInv, TypeOK, SignIn, Event, server
  <1>2. KeptByAll
    BY SameKept DEF SignIn
  <1> QED BY <1>1, <1>2, BrowserStep DEF SignIn, server, IInv, Fetched, Wrapped, Inserting

LEMMA LoadPageStep == ASSUME IInv, NEW b \in Browsers, LoadPage(b) PROVE IInv'
  <1>1. \A t \in Unlocks :
            \/ unlock'[t] = unlock[t]
            \/ unlock[t].pc = "publish" /\ unlock'[t] = [unlock[t] EXCEPT !.pc = "orphan"]
            \/ unlock'[t] = Idle
    BY DEF LoadPage
  <1>2. \A t \in Unlocks : unlock'[t] \in Unlock
    <2> TAKE t \in Unlocks
    <2>1. unlock[t] \in Unlock
      BY UnlockTyped DEF IInv
    <2>2. [unlock[t] EXCEPT !.pc = "orphan"] \in Unlock
      BY <2>1 DEF Unlock
    <2> QED BY <1>1, <2>1, <2>2, IdleTyped
  <1>3. TypeOK'
    <2>1. unlock' \in [Unlocks -> Unlock]
      BY <1>2 DEF LoadPage
    <2>2. identity' \in [Browsers -> LocalIdentity]
      BY NoneKept DEF LoadPage, IInv, TypeOK
    <2> QED BY <2>1, <2>2, BoundAssumption DEF IInv, TypeOK, LoadPage, Event, server
  <1>4. KeptByAll
    <2>1. \A c \in Browsers : identity'[c] \in {identity[c], NoIdentity} /\ cache'[c] = cache[c]
      BY DEF LoadPage, IInv, TypeOK
    <2> QED BY <2>1, NoneKept DEF IInv, Identities, KeptByAll
  <1>5. ASSUME NEW t \in Unlocks
        PROVE  /\ Inserting(t)' => Inserting(t) /\ unlock'[t].new = unlock[t].new
               /\ unlock'[t].pc = "rotate" =>
                      unlock[t].pc = "rotate" /\ unlock'[t].rec = unlock[t].rec
               /\ unlock'[t].pc = "wrap" /\ unlock'[t].rec.wrap # NoWrap
                      => Kept(unlock'[t].rec.id, unlock'[t].rec.pair)
    <2>1. unlock[t] \in Unlock
      BY UnlockTyped DEF IInv
    <2>2. unlock[t].pc = "wrap" /\ unlock[t].rec.wrap # NoWrap
              => Kept(unlock[t].rec.id, unlock[t].rec.pair)
      BY DEF IInv, Fetched, Wrapped
    <2>3. CASE unlock'[t] = unlock[t]
      BY <2>2, <2>3 DEF Inserting
    <2>4. CASE unlock[t].pc = "publish" /\ unlock'[t] = [unlock[t] EXCEPT !.pc = "orphan"]
      BY <2>1, <2>4 DEF Inserting, Unlock
    <2>5. CASE unlock'[t] = Idle
      BY <2>5, IdleTyped DEF Inserting
    <2> QED BY <1>1, <2>3, <2>4, <2>5
  <1> QED BY <1>3, <1>4, <1>5, BrowserStep DEF LoadPage, server

LEMMA ClearStorageStep == ASSUME IInv, NEW b \in Browsers, ClearStorage(b) PROVE IInv'
  <1>1. TypeOK'
    <2>1. cache' \in [Browsers -> [Users -> LocalIdentity]]
      BY NoneKept DEF ClearStorage, IInv, TypeOK
    <2> QED BY <2>1, BoundAssumption DEF IInv, TypeOK, ClearStorage, Event, server
  <1>2. KeptByAll
    <2>1. \A c \in Browsers, u \in Users :
              identity'[c] = identity[c] /\ cache'[c][u] \in {cache[c][u], NoIdentity}
      BY DEF ClearStorage, IInv, TypeOK
    <2>2. \A c \in Browsers : Kept(identity'[c].id, identity'[c].pair)
      BY DEF IInv, Identities, ClearStorage
    <2> QED BY <2>1, <2>2, NoneKept DEF IInv, Identities, KeptByAll
  <1> QED BY <1>1, <1>2, BrowserStep DEF ClearStorage, server, IInv, Fetched, Wrapped, Inserting

LEMMA UnlockCachedStep == ASSUME IInv, NEW b \in Browsers, UnlockCached(b) PROVE IInv'
  <1>1. session[b] \in Users
    BY DEF UnlockCached, IInv, TypeOK
  <1>2. TypeOK'
    BY <1>1 DEF IInv, TypeOK, UnlockCached, server
  <1>3. KeptByAll
    <2>1. \A c \in Browsers : identity'[c] \in {identity[c], cache[c][session[b]]}
                              /\ cache'[c] = cache[c]
      BY DEF UnlockCached, IInv, TypeOK
    <2> QED BY <1>1, <2>1 DEF IInv, Identities, KeptByAll
  <1> QED BY <1>2, <1>3, BrowserStep DEF UnlockCached, server, IInv, Fetched, Wrapped, Inserting

LEMMA StartUnlockStep ==
    ASSUME IInv, NEW t \in Unlocks, NEW b \in Browsers, NEW p \in Passwords, StartUnlock(t, b, p)
    PROVE  IInv'
  <1> DEFINE rec == [Idle EXCEPT !.pc = "fetch", !.browser = b, !.user = session[b],
                                 !.password = p]
  <1>1. rec \in Unlock /\ rec.pc = "fetch"
    BY IdleTyped DEF Unlock, StartUnlock, IInv, TypeOK
  <1>2. Go(t, rec)
    BY DEF StartUnlock
  <1>3. KeptByAll
    BY SameKept DEF StartUnlock
  <1> HIDE DEF rec
  <1>4. TypeOK'
    BY <1>1, <1>2, QuietUnlock DEF IInv, TypeOK, StartUnlock, server
  <1> QED BY <1>1, <1>2, <1>3, <1>4, QuietUnlock, BrowserStep DEF StartUnlock, server

LEMMA FetchWrappedStep == ASSUME IInv, NEW t \in Unlocks, FetchWrapped(t) PROVE IInv'
  <1>1. PICK r \in Newest(unlock[t].user) \cup {NoRow} :
            Go(t, [unlock[t] EXCEPT !.pc = "wrap", !.rec = r])
    BY DEF FetchWrapped
  <1> DEFINE rec == [unlock[t] EXCEPT !.pc = "wrap", !.rec = r]
  <1>2. unlock[t] \in Unlock /\ unlock[t].user \in Users
    BY UnlockTyped DEF IInv
  <1>3. (r \in Row /\ r \in Directory) \/ r = NoRow
    BY <1>2, NewestTyped
  <1>4. rec \in Unlock /\ rec.pc = "wrap" /\ rec.rec = r
    BY <1>2, <1>3 DEF Unlock
  <1>5. r.wrap # NoWrap => Kept(r.id, r.pair)
    BY <1>3, DirectoryIsKept DEF NoRow
  <1>6. KeptByAll
    BY SameKept DEF FetchWrapped
  <1>7. Go(t, rec)
    BY <1>1
  <1> HIDE DEF rec
  <1>8. TypeOK'
    BY <1>4, <1>5, <1>7, QuietUnlock DEF IInv, TypeOK, FetchWrapped, server
  <1> QED BY <1>4, <1>5, <1>6, <1>7, <1>8, QuietUnlock, BrowserStep DEF FetchWrapped, server

\* The two entries that Keep writes.
LEMMA KeepTyped ==
    ASSUME IInv, NEW t \in Unlocks, NEW id \in Ids, NEW pair \in Pairs, Keep(t, id, pair),
           Kept(id, pair)
    PROVE  /\ cache' \in [Browsers -> [Users -> LocalIdentity]]
           /\ identity' \in [Browsers -> LocalIdentity]
           /\ KeptByAll
  <1> DEFINE mine == [id |-> id, pair |-> pair]
  <1>1. mine \in LocalIdentity /\ mine.id = id /\ mine.pair = pair
    BY DEF LocalIdentity, Ids
  <1>2. /\ cache' = [cache EXCEPT ![unlock[t].browser] = [@ EXCEPT ![unlock[t].user] = mine]]
        /\ identity' = [identity EXCEPT ![unlock[t].browser] = mine]
    BY DEF Keep
  <1> HIDE DEF mine
  <1>3. /\ cache' \in [Browsers -> [Users -> LocalIdentity]]
        /\ identity' \in [Browsers -> LocalIdentity]
    BY <1>1, <1>2 DEF IInv, TypeOK
  <1>4. \A b \in Browsers, u \in Users :
            identity'[b] \in {identity[b], mine} /\ cache'[b][u] \in {cache[b][u], mine}
    BY <1>2 DEF IInv, TypeOK
  <1>5. \A b \in Browsers : identity'[b] \in {identity[b], mine}
    BY <1>2 DEF IInv, TypeOK
  <1>6. KeptByAll
    BY <1>1, <1>4, <1>5 DEF IInv, Identities, KeptByAll
  <1> QED BY <1>3, <1>6

LEMMA RecoverStep == ASSUME IInv, NEW t \in Unlocks, Recover(t) PROVE IInv'
  <1>1. unlock[t].rec \in Row
    BY WrappedTyped DEF Recover, IInv
  <1>2. Kept(unlock[t].rec.id, unlock[t].rec.pair)
    BY DEF Recover, IInv, Fetched
  <1>3. unlock[t].rec.id \in Ids /\ unlock[t].rec.pair \in Pairs
    BY <1>1, RowTyped
  <1>4. Go(t, Idle)
    BY DEF Recover, Stop
  <1>5. /\ cache' \in [Browsers -> [Users -> LocalIdentity]]
        /\ identity' \in [Browsers -> LocalIdentity]
        /\ KeptByAll
    BY <1>2, <1>3, KeepTyped DEF Recover
  <1>6. TypeOK'
    BY <1>4, <1>5, IdleTyped, QuietUnlock DEF IInv, TypeOK, Recover, server
  <1> QED BY <1>4, <1>5, <1>6, IdleTyped, QuietUnlock, BrowserStep DEF Recover, server

LEMMA UnlockFailsStep == ASSUME IInv, NEW t \in Unlocks, UnlockFails(t) PROVE IInv'
  <1>1. Go(t, Idle)
    BY DEF UnlockFails, Stop
  <1>2. KeptByAll
    BY SameKept DEF UnlockFails
  <1>3. TypeOK'
    BY <1>1, IdleTyped, QuietUnlock DEF IInv, TypeOK, UnlockFails, server
  <1> QED BY <1>1, <1>2, <1>3, IdleTyped, QuietUnlock, BrowserStep DEF UnlockFails, server

LEMMA RotateFailsStep == ASSUME IInv, NEW t \in Unlocks, RotateFails(t) PROVE IInv'
  <1>1. Go(t, Idle)
    BY DEF RotateFails, Stop
  <1>2. KeptByAll
    BY SameKept DEF RotateFails
  <1>3. TypeOK'
    BY <1>1, IdleTyped, QuietUnlock DEF IInv, TypeOK, RotateFails, server
  <1> QED BY <1>1, <1>2, <1>3, IdleTyped, QuietUnlock, BrowserStep DEF RotateFails, server

-----------------------------------------------------------------------------
(* The server *)

\* What unlocks have fetched is kept, when none fetches anything in the step.
LEMMA SameFetched ==
    ASSUME IInv, NEW t \in Unlocks, NEW rec \in Unlock, Go(t, rec), rec.pc # "wrap"
    PROVE  /\ unlock' \in [Unlocks -> Unlock] /\ unlock'[t] = rec
           /\ \A s \in Unlocks \ {t} : unlock'[s] = unlock[s]
           /\ \A s \in Unlocks : unlock'[s].pc = "wrap" /\ unlock'[s].rec.wrap # NoWrap
                  => Kept(unlock'[s].rec.id, unlock'[s].rec.pair)
  <1>1. unlock \in [Unlocks -> Unlock]
    BY UnlockTyped DEF IInv
  <1>2. unlock' \in [Unlocks -> Unlock] /\ unlock'[t] = rec
        /\ \A s \in Unlocks \ {t} : unlock'[s] = unlock[s]
    BY <1>1 DEF Go
  <1>3. \A s \in Unlocks : unlock[s].pc = "wrap" /\ unlock[s].rec.wrap # NoWrap
                               => Kept(unlock[s].rec.id, unlock[s].rec.pair)
    BY DEF IInv, Fetched, Wrapped
  <1> QED BY <1>2, <1>3

\* A request draws the primary key of the row it will insert.
LEMMA DrawStep ==
    ASSUME IInv, TypeOK', NEW t \in Unlocks, NEW rec \in Unlock, Go(t, rec), ids' = ids + 1,
           UNCHANGED <<rows, pending, identity, cache>>, rec.pc \in {"publish", "rotate"},
           rec.new \in Row, rec.new.id = ids + 1, rec.new.version <= ids + 1, rec.new.active,
           rec.pc = "rotate" => Supersedes(rec.new, rec.rec.id)
    PROVE  IInv'
  <1>1. /\ unlock'[t] = rec /\ \A s \in Unlocks \ {t} : unlock'[s] = unlock[s]
        /\ \A s \in Unlocks : unlock'[s].pc = "wrap" /\ unlock'[s].rec.wrap # NoWrap
                  => Kept(unlock'[s].rec.id, unlock'[s].rec.pair)
    BY SameFetched
  <1>2. ASSUME NEW a \in Directory'
        PROVE  /\ a \in Row
               /\ \/ \E c \in Directory : Twins(a, c)
                  \/ a = rec.new /\ a.id = ids + 1 /\ ids' = ids + 1 /\ a.version <= a.id
    <2>1. a \in Directory \/ a = rec.new
      BY <1>1 DEF Directory, Inserting
    <2> QED BY <2>1 DEF IInv, IdsAreDrawn, Twins
  <1>3. Rotations'
    <2>1. \A x \in pending' : Supersedes(x.row, x.out)'
      BY DEF IInv, Rotations, Supersedes
    <2>2. \A s \in Unlocks : Inserting(s)' => unlock'[s].new.active
      BY <1>1 DEF IInv, Rotations, Inserting
    <2>3. \A s \in Unlocks : unlock'[s].pc = "rotate"
                                 => Supersedes(unlock'[s].new, unlock'[s].rec.id)
      BY <1>1 DEF IInv, Rotations
    <2>4. \A s \in Unlocks : unlock'[s].pc = "rotate"
                                 => Supersedes(unlock[s].new, unlock[s].rec.id)'
      BY <2>3 DEF Supersedes
    <2> QED BY <2>1, <2>2, <2>4 DEF Rotations
  <1>4. NewestIsActive'
    BY DEF IInv, NewestIsActive
  <1>5. KeptByAll
    BY SameKept
  <1> QED BY <1>1, <1>2, <1>3, <1>4, <1>5, Settle DEF KeptByAll

LEMMA PublishReadStep == ASSUME IInv, NEW t \in Unlocks, PublishRead(t) PROVE IInv'
  <1> DEFINE b == unlock[t].browser
             new == [id |-> ids + 1, user |-> session[b], active |-> TRUE,
                     pair |-> LegacyOrNew(b),
                     version |-> NextVersion(session[b]), wrap |-> unlock[t].password]
             rec == [unlock[t] EXCEPT !.pc = "publish", !.new = new]
  <1>1. /\ unlock[t] \in Unlock /\ b \in Browsers
        /\ unlock[t].password \in Passwords \cup {NoWrap}
    BY UnlockTyped DEF IInv
  <1>2. ids + 1 \in Ids /\ ids \in Nat
    BY BoundAssumption DEF PublishRead, IInv, TypeOK, Ids
  <1>3. session[b] \in Users
    BY <1>1 DEF PublishRead, IInv, TypeOK
  <1>4. NextVersion(session[b]) \in 1 .. ids + 1
    BY <1>3, NextVersionTyped
  <1>5. LegacyOrNew(b) \in Pairs
    BY <1>1, <1>2, PairsTyped DEF LegacyOrNew
  <1>6. new \in Row /\ new.id = ids + 1 /\ new.version <= ids + 1 /\ new.active
    <2>1. NextVersion(session[b]) \in Versions
      BY <1>2, <1>4, BoundAssumption DEF Ids, Versions
    <2> QED BY <1>1, <1>2, <1>3, <1>4, <1>5, <2>1 DEF Row
  <1>7. Go(t, rec) /\ ids' = ids + 1
    BY DEF PublishRead
  <1> HIDE DEF new
  <1>8. rec \in Unlock /\ rec.pc = "publish" /\ rec.new = new
    BY <1>1, <1>6 DEF Unlock
  <1> HIDE DEF rec
  <1>9. TypeOK'
    <2>1. unlock' \in [Unlocks -> Unlock]
      BY <1>7, <1>8, SameFetched
    <2>2. ids' \in 0 .. MaxIds
      BY <1>2, <1>7, BoundAssumption DEF Ids
    <2> QED BY <2>1, <2>2 DEF IInv, TypeOK, PublishRead, server
  <1> QED BY <1>6, <1>7, <1>8, <1>9, DrawStep DEF PublishRead, server

LEMMA RotateReadStep ==
    ASSUME IInv, NEW t \in Unlocks, NEW u \in Users, NEW p \in Passwords, RotateRead(t, u, p)
    PROVE  IInv'
  <1>1. PICK out \in Newest(u) :
            Go(t, [Idle EXCEPT !.pc = "rotate", !.user = u, !.rec = out, !.new =
                     [id |-> ids + 1, user |-> u, active |-> TRUE, pair |-> ids + 1,
                      version |-> Successor(out), wrap |-> p]])
    BY DEF RotateRead
  <1> DEFINE new == [id |-> ids + 1, user |-> u, active |-> TRUE, pair |-> ids + 1,
                     version |-> Successor(out), wrap |-> p]
             rec == [Idle EXCEPT !.pc = "rotate", !.user = u, !.rec = out, !.new = new]
  <1>2. ids + 1 \in Ids /\ ids \in Nat
    BY BoundAssumption DEF RotateRead, IInv, TypeOK, Ids
  <1>3. /\ out \in rows /\ out \in Row /\ out.user = u /\ out.id \in 1 .. ids
        /\ out.version \in 1 .. out.id
    BY NewestTyped
  <1>4. Successor(out) = out.version + 1 /\ Successor(out) \in 1 .. ids + 1
    BY <1>2, <1>3 DEF Successor
  <1>5. new \in Row /\ new.id = ids + 1 /\ new.version <= ids + 1 /\ new.active
    <2>1. Successor(out) \in Versions
      BY <1>2, <1>4, BoundAssumption DEF Ids, Versions
    <2> QED BY <1>2, <1>4, <2>1, PairsTyped DEF Row
  <1>6. new.user = u /\ new.version = out.version + 1
    BY <1>4
  <1>7. Go(t, rec) /\ ids' = ids + 1
    BY <1>1 DEF RotateRead
  <1> HIDE DEF new
  <1>8. rec \in Unlock /\ rec.pc = "rotate" /\ rec.new = new /\ rec.rec = out
    BY <1>3, <1>5, IdleTyped DEF Unlock
  <1> HIDE DEF rec
  <1>9. Supersedes(rec.new, rec.rec.id)
    BY <1>3, <1>5, <1>6, <1>8 DEF Supersedes
  <1>10. TypeOK'
    <2>1. unlock' \in [Unlocks -> Unlock]
      BY <1>7, <1>8, SameFetched
    <2>2. ids' \in 0 .. MaxIds
      BY <1>2, <1>7, BoundAssumption DEF Ids
    <2>3. events' \in 0 .. MaxEvents
      BY BoundAssumption DEF RotateRead, Event, IInv, TypeOK
    <2> QED BY <2>1, <2>2, <2>3 DEF IInv, TypeOK, RotateRead, server
  <1> QED BY <1>5, <1>7, <1>8, <1>9, <1>10, DrawStep DEF RotateRead, server

\* A request inserts its row and is answered: the row is now in a transaction.
LEMMA InsertStep ==
    ASSUME IInv, TypeOK', NEW t \in Unlocks, NEW out, Inserting(t), Go(t, Idle),
           pending' = pending \cup {[row |-> unlock[t].new, out |-> out]},
           Supersedes(unlock[t].new, out), UNCHANGED <<rows, ids>>, KeptByAll
    PROVE  IInv'
  <1> DEFINE x == [row |-> unlock[t].new, out |-> out]
  <1>1. /\ unlock'[t] = Idle /\ \A s \in Unlocks \ {t} : unlock'[s] = unlock[s]
        /\ \A s \in Unlocks : unlock'[s].pc = "wrap" /\ unlock'[s].rec.wrap # NoWrap
                  => Kept(unlock'[s].rec.id, unlock'[s].rec.pair)
    BY SameFetched, IdleTyped
  <1>2. x.row = unlock[t].new /\ x.out = out /\ pending' = pending \cup {x}
    OBVIOUS
  <1> HIDE DEF x
  <1>3. ASSUME NEW a \in Directory'
        PROVE  a \in Row /\ \E c \in Directory : Twins(a, c)
    <2>1. a \in Directory
      BY <1>1, <1>2, IdleTyped DEF Directory, Inserting
    <2> QED BY <2>1 DEF IInv, IdsAreDrawn, Twins
  <1>4. Rotations'
    <2>1. \A y \in pending' : Supersedes(y.row, y.out)
      BY <1>2 DEF IInv, Rotations
    <2>2. \A y \in pending' : Supersedes(y.row, y.out)'
      BY <2>1 DEF Supersedes
    <2>3. \A s \in Unlocks : Inserting(s)' => unlock'[s].new.active
      BY <1>1, IdleTyped DEF IInv, Rotations, Inserting
    <2>4. \A s \in Unlocks : unlock'[s].pc = "rotate"
                                 => Supersedes(unlock'[s].new, unlock'[s].rec.id)
      BY <1>1, IdleTyped DEF IInv, Rotations
    <2>5. \A s \in Unlocks : unlock'[s].pc = "rotate"
                                 => Supersedes(unlock[s].new, unlock[s].rec.id)'
      BY <2>4 DEF Supersedes
    <2> QED BY <2>2, <2>3, <2>5 DEF Rotations
  <1>5. NewestIsActive'
    BY DEF IInv, NewestIsActive
  <1> QED BY <1>1, <1>3, <1>4, <1>5, Settle DEF KeptByAll

\* The row an unlock is about to insert is a row of the directory.
LEMMA InsertingTyped ==
    ASSUME IInv, NEW t \in Unlocks, Inserting(t)
    PROVE  /\ unlock[t].new \in Directory /\ unlock[t].new \in Row /\ unlock[t].new.active
           /\ unlock[t].new.id \in Ids /\ unlock[t].new.pair \in Pairs
           /\ \A out \in 0 .. MaxIds : [row |-> unlock[t].new, out |-> out] \in Transaction
  <1>1. unlock[t].new \in Directory /\ unlock[t].new.active
    BY DEF Directory, IInv, Rotations
  <1>2. unlock[t].new \in Row
    BY <1>1 DEF IInv, IdsAreDrawn
  <1> QED BY <1>1, <1>2, RowTyped DEF Transaction

LEMMA PublishAnswerStep == ASSUME IInv, NEW t \in Unlocks, PublishAnswer(t) PROVE IInv'
  <1>1. Inserting(t) /\ Go(t, Idle)
    BY DEF PublishAnswer, Inserting, Stop
  <1>2. Supersedes(unlock[t].new, 0)
    BY <1>1, InsertingTyped DEF Supersedes
  <1>3. Kept(unlock[t].new.id, unlock[t].new.pair)
    BY <1>1, InsertingTyped, DirectoryIsKept
  <1>4. /\ cache' \in [Browsers -> [Users -> LocalIdentity]]
        /\ identity' \in [Browsers -> LocalIdentity]
        /\ KeptByAll
    BY <1>1, <1>3, InsertingTyped, KeepTyped DEF PublishAnswer
  <1>5. TypeOK'
    <2>1. unlock' \in [Unlocks -> Unlock]
      BY <1>1, IdleTyped, SameFetched
    <2>2. pending' \in SUBSET Transaction
      BY <1>1, InsertingTyped, BoundAssumption DEF PublishAnswer, IInv, TypeOK
    <2> QED BY <1>4, <2>1, <2>2 DEF IInv, TypeOK, PublishAnswer
  <1> QED BY <1>1, <1>2, <1>4, <1>5, InsertStep DEF PublishAnswer

LEMMA PublishUnheardStep == ASSUME IInv, NEW t \in Unlocks, PublishUnheard(t) PROVE IInv'
  <1>1. Inserting(t) /\ Go(t, Idle)
    BY DEF PublishUnheard, Inserting, Stop
  <1>2. Supersedes(unlock[t].new, 0)
    BY <1>1, InsertingTyped DEF Supersedes
  <1>3. KeptByAll
    BY SameKept DEF PublishUnheard
  <1>4. TypeOK'
    <2>1. unlock' \in [Unlocks -> Unlock]
      BY <1>1, IdleTyped, SameFetched
    <2>2. pending' \in SUBSET Transaction
      BY <1>1, InsertingTyped, BoundAssumption DEF PublishUnheard, IInv, TypeOK
    <2> QED BY <2>1, <2>2 DEF IInv, TypeOK, PublishUnheard
  <1> QED BY <1>1, <1>2, <1>3, <1>4, InsertStep DEF PublishUnheard

LEMMA RotateWriteStep == ASSUME IInv, NEW t \in Unlocks, RotateWrite(t) PROVE IInv'
  <1>1. Inserting(t) /\ Go(t, Idle)
    BY DEF RotateWrite, Inserting, Stop
  <1>2. Supersedes(unlock[t].new, unlock[t].rec.id)
    BY DEF RotateWrite, IInv, Rotations
  <1>3. KeptByAll
    BY SameKept DEF RotateWrite
  <1>4. TypeOK'
    <2>1. unlock' \in [Unlocks -> Unlock]
      BY <1>1, IdleTyped, SameFetched
    <2>2. unlock[t].rec.id \in 0 .. MaxIds
      BY UnlockTyped, RowTyped, BoundAssumption DEF IInv, NoRow, Ids
    <2>3. pending' \in SUBSET Transaction
      BY <1>1, <2>2, InsertingTyped DEF RotateWrite, IInv, TypeOK
    <2> QED BY <2>1, <2>3 DEF IInv, TypeOK, RotateWrite
  <1> QED BY <1>1, <1>2, <1>3, <1>4, InsertStep DEF RotateWrite

LEMMA AbortStep == ASSUME IInv, NEW x \in pending, Abort(x) PROVE IInv'
  <1>1. TypeOK'
    BY DEF IInv, TypeOK, Abort
  <1>2. ASSUME NEW a \in Directory'
        PROVE  a \in Row /\ \E c \in Directory : Twins(a, c)
    <2>1. a \in Directory
      BY DEF Directory, Abort, Inserting
    <2> QED BY <2>1 DEF IInv, IdsAreDrawn, Twins
  <1>3. Rotations' /\ NewestIsActive'
    BY DEF IInv, Rotations, Supersedes, NewestIsActive, Abort, Inserting
  <1>4. KeptByAll
    BY SameKept DEF Abort
  <1> QED BY <1>1, <1>2, <1>3, <1>4, Settle
      DEF KeptByAll, Abort, IInv, Fetched, Wrapped

\* The commit keeps every row of the table, but for whether it is active.
LEMMA CommitKeepsRows ==
    ASSUME IInv, NEW x \in pending, Commit(x)
    PROVE  /\ x.row \in Row /\ x.row \in rows' /\ x.row \in Directory /\ x.row.active
           /\ \A a \in rows' : \/ a = x.row
                               \/ a \in rows /\ a.id # x.out
                               \/ \E r \in rows : /\ r.id = x.out /\ a = [r EXCEPT !.active = FALSE]
                                                  /\ a \in Row /\ Twins(a, r)
           /\ \A r \in rows : \E a \in rows' : Twins(a, r) /\ (r.id # x.out => a = r)
  <1> DEFINE f(r) == IF r.id = x.out THEN [r EXCEPT !.active = FALSE] ELSE r
  <1>1. rows' = {f(r) : r \in rows} \cup {x.row}
    BY DEF Commit
  <1>2. \A r \in rows : /\ f(r) \in Row /\ Twins(f(r), r)
                        /\ r.id = x.out => f(r) = [r EXCEPT !.active = FALSE]
                        /\ r.id # x.out => f(r) = r
    BY DEF IInv, TypeOK, Row, Twins
  <1>3. x.row \in Directory /\ x.row.active
    BY DEF Directory, IInv, Rotations, Supersedes
  <1>4. x.row \in Row
    BY <1>3 DEF IInv, IdsAreDrawn
  <1> HIDE DEF f
  <1> QED BY <1>1, <1>2, <1>3, <1>4

LEMMA CommitStep == ASSUME IInv, NEW x \in pending, Commit(x) PROVE IInv'
  <1>1. TypeOK'
    <2>1. rows' \in SUBSET Row
      BY CommitKeepsRows DEF IInv, TypeOK
    <2> QED BY <2>1 DEF IInv, TypeOK, Commit
  <1>2. ASSUME NEW a \in Directory'
        PROVE  a \in Row /\ \E c \in Directory : Twins(a, c)
    <2>1. CASE a \in rows'
      BY <2>1, <1>1, CommitKeepsRows DEF TypeOK, Directory, Twins
    <2>2. CASE a \notin rows'
      <3>1. a \in Directory
        BY <2>2 DEF Directory, Commit, Inserting
      <3> QED BY <3>1 DEF IInv, IdsAreDrawn, Twins
    <2> QED BY <2>1, <2>2
  <1>3. ASSUME NEW row, NEW out, Supersedes(row, out)
        PROVE  Supersedes(row, out)'
    BY <1>3, CommitKeepsRows DEF Supersedes, Twins
  <1>4. Rotations'
    <2>1. \A y \in pending' : Supersedes(y.row, y.out)'
      <3> TAKE y \in pending'
      <3>1. Supersedes(y.row, y.out)
        BY DEF IInv, Rotations, Commit
      <3> QED BY <1>3, <3>1
    <2>2. unlock' = unlock
      BY DEF Commit
    <2>3. \A s \in Unlocks : Inserting(s)' => unlock'[s].new.active
      BY <2>2 DEF IInv, Rotations, Inserting
    <2>4. ASSUME NEW s \in Unlocks, unlock'[s].pc = "rotate"
          PROVE  Supersedes(unlock[s].new, unlock[s].rec.id)'
      <3>1. Supersedes(unlock[s].new, unlock[s].rec.id)
        BY <2>2, <2>4 DEF IInv, Rotations
      <3>2. PICK row \in {unlock[s].new}, out \in {unlock[s].rec.id} : Supersedes(row, out)'
        BY <1>3, <3>1
      <3> QED BY <2>2, <3>2 DEF Supersedes
    <2> QED BY <2>1, <2>3, <2>4 DEF Rotations
  <1>5. NewestIsActive'
    <2> SUFFICES ASSUME NEW r \in rows', ~r.active
                 PROVE  \E s \in rows' : s.active /\ s.user = r.user /\ s.version > r.version
      BY DEF NewestIsActive
    <2>1. \A r0 \in rows : r0.id = x.out => x.row.user = r0.user /\ x.row.version > r0.version
      <3>1. Supersedes(x.row, x.out)
        BY DEF IInv, Rotations
      <3>2. ASSUME NEW r0 \in rows, r0.id = x.out
            PROVE  x.row.user = r0.user /\ x.row.version > r0.version
        <4>1. x.out # 0
          BY <3>2, RowTyped DEF IInv, TypeOK, Ids
        <4>2. PICK r1 \in rows : r1.id = x.out /\ r1.user = x.row.user
                                 /\ r1.version < x.row.version
          BY <3>1, <4>1 DEF Supersedes
        <4>3. Twins(r0, r1)
          BY <3>2, <4>2 DEF IInv, IdsAreNames, Directory
        <4>4. r1.version \in Int /\ x.row.version \in Int
          BY CommitKeepsRows, RowTyped DEF IInv, TypeOK, Versions
        <4> QED BY <4>2, <4>3, <4>4 DEF Twins
      <3> QED BY <3>2
    <2>2. CASE r \in rows /\ r.id # x.out
      <3>1. PICK s \in rows : s.active /\ s.user = r.user /\ s.version > r.version
        BY <2>2 DEF IInv, NewestIsActive
      <3>2. CASE s.id # x.out
        BY <3>1, <3>2, CommitKeepsRows
      <3>3. CASE s.id = x.out
        <4>1. x.row.user = r.user /\ x.row.version > s.version
          BY <2>1, <3>1, <3>3
        <4>2. x.row.version \in Int /\ s.version \in Int /\ r.version \in Int
          BY <2>2, CommitKeepsRows, RowTyped DEF IInv, TypeOK, Versions
        <4>3. x.row.version > r.version
          BY <3>1, <4>1, <4>2
        <4> QED BY <4>1, <4>3, CommitKeepsRows
      <3> QED BY <3>2, <3>3
    <2>3. CASE \E r0 \in rows : r0.id = x.out /\ Twins(r, r0)
      BY <2>1, <2>3, CommitKeepsRows DEF Twins
    <2> QED BY <2>2, <2>3, CommitKeepsRows
  <1>6. KeptByAll
    BY SameKept DEF Commit
  <1> QED BY <1>1, <1>2, <1>4, <1>5, <1>6, Settle
      DEF KeptByAll, Commit, IInv, Fetched, Wrapped

-----------------------------------------------------------------------------
(* The theorems *)

LEMMA InitIInv == Init => IInv
  <1> SUFFICES ASSUME Init PROVE IInv
    OBVIOUS
  <1> DEFINE first == [id |-> 1, user |-> CHOOSE u \in Users : TRUE, pair |-> 1, version |-> 1,
                       active |-> TRUE, wrap |-> NoWrap]
  <1>1. first \in Row /\ first.id = 1 /\ first.version = 1 /\ first.active
    BY Inhabited, BoundAssumption DEF Row, Ids, Pairs, Versions
  <1>2. rows = {} \/ rows = {first}
    <2>1. PICK old \in SUBSET {CHOOSE u \in Users : TRUE} :
              rows = {[id |-> 1, user |-> u, pair |-> 1, version |-> 1, active |-> TRUE,
                       wrap |-> NoWrap] : u \in old}
      BY DEF Init
    <2> QED BY <2>1
  <1> HIDE DEF first
  <1>3. (rows = {} /\ ids = 0) \/ (rows = {first} /\ ids = 1)
    BY <1>2, FS_EmptySet, FS_Singleton DEF Init
  <1>4. NoIdentity \in LocalIdentity /\ NoIdentity.id = 0
    BY BoundAssumption DEF NoIdentity, LocalIdentity
  <1>5. TypeOK
    <2>1. legacy \in SUBSET Browsers
      BY Inhabited DEF Init
    <2>2. rows \in SUBSET Row /\ ids \in 0 .. MaxIds
      BY <1>1, <1>3, BoundAssumption
    <2> QED BY <1>4, <2>1, <2>2, IdleTyped, BoundAssumption DEF Init, TypeOK
  <1>6. \A t \in Unlocks : unlock[t] = Idle
    BY DEF Init
  <1>7. Directory = rows
    BY <1>6, IdleTyped DEF Directory, Inserting, Init
  <1>8. IdsAreDrawn /\ IdsAreNames
    BY <1>1, <1>3, <1>7 DEF IdsAreDrawn, IdsAreNames, Twins
  <1>9. Rotations /\ Fetched
    BY <1>6, IdleTyped DEF Rotations, Fetched, Inserting, Init
  <1>10. Identities
    <2>1. \A a \in Directory : a.id # 0
      BY <1>1, <1>3, <1>7
    <2>2. 0 <= ids
      BY <1>3
    <2>3. \A b \in Browsers : /\ identity[b] = NoIdentity
                             /\ \A u \in Users : cache[b][u] = NoIdentity
      BY DEF Init
    <2> QED BY <1>4, <2>1, <2>2, <2>3 DEF Identities, Kept
  <1>11. NewestIsActive
    BY <1>1, <1>3 DEF NewestIsActive
  <1> QED BY <1>5, <1>8, <1>9, <1>10, <1>11 DEF IInv

LEMMA StutterStep == ASSUME IInv, UNCHANGED vars PROVE IInv'
  BY DEF IInv, TypeOK, IdsAreDrawn, IdsAreNames, Rotations, Identities, Fetched,
         NewestIsActive, Directory, Inserting, Supersedes, Kept, Wrapped, vars

LEMMA NextIInv == IInv /\ [Next]_vars => IInv'
  <1> SUFFICES ASSUME IInv, [Next]_vars PROVE IInv'
    OBVIOUS
  <1>1. CASE \E b \in Browsers : \/ \E u \in Users \cup {NoUser} : SignIn(b, u)
                                 \/ LoadPage(b) \/ ClearStorage(b) \/ UnlockCached(b)
    BY <1>1, SignInStep, LoadPageStep, ClearStorageStep, UnlockCachedStep
  <1>2. CASE \E t \in Unlocks : \/ \E b \in Browsers, p \in Passwords : StartUnlock(t, b, p)
                                \/ FetchWrapped(t) \/ Recover(t) \/ UnlockFails(t)
                                \/ PublishRead(t) \/ PublishAnswer(t) \/ PublishUnheard(t)
    BY <1>2, StartUnlockStep, FetchWrappedStep, RecoverStep, UnlockFailsStep,
       PublishReadStep, PublishAnswerStep, PublishUnheardStep
  <1>3. CASE \E t \in Unlocks : \/ \E u \in Users, p \in Passwords : RotateRead(t, u, p)
                                \/ RotateWrite(t) \/ RotateFails(t)
    BY <1>3, RotateReadStep, RotateWriteStep, RotateFailsStep
  <1>4. CASE \E x \in pending : Commit(x) \/ Abort(x)
    BY <1>4, CommitStep, AbortStep
  <1>5. CASE UNCHANGED vars
    BY <1>5, StutterStep
  <1> QED BY <1>1, <1>2, <1>3, <1>4, <1>5 DEF Next

\* The inductive invariant holds in every reachable state.
THEOREM InductiveInvariant == Spec => []IInv
  <1> QED BY InitIInv, NextIInv, PTL DEF Spec

\* Every variable keeps its type.
THEOREM TypeCorrect == Spec => []TypeOK
  <1>1. IInv => TypeOK
    BY DEF IInv
  <1> QED BY <1>1, InductiveInvariant, PTL

\* However rotations and publishes of a user overlap (identity_key_service.py), a key that
\* was superseded is followed by a newer, active one.
THEOREM PublishedStaysPublished == Spec => []NewestIsActive
  <1>1. IInv => NewestIsActive
    BY DEF IInv
  <1> QED BY <1>1, InductiveInvariant, PTL

\* However unlocks, changes of user and page loads overlap (vault.ts), the key id that goes
\* with a pair in a browser names no row of another pair.
THEOREM KeyIdsAreRight == Spec => []KeyIdNamesItsPair
  <1>1. IInv => KeyIdNamesItsPair
    <2> SUFFICES ASSUME IInv, NEW b \in Browsers, NEW r \in rows,
                        NEW mine \in {identity[b]} \cup {cache[b][u] : u \in Users}, mine.id = r.id
                 PROVE  mine.pair = r.pair
      BY DEF KeyIdNamesItsPair
    <2>1. r \in Directory
      BY DEF Directory
    <2>2. Kept(mine.id, mine.pair)
      BY DEF IInv, Identities
    <2> QED BY <2>1, <2>2 DEF Kept
  <1> QED BY <1>1, InductiveInvariant, PTL
=============================================================================
