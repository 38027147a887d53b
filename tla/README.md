# PQC messenger: TLA+ models, model checking and proofs

This directory holds specifications of the end-to-end encrypted messenger in
`src/`: a FastAPI backend over PostgreSQL, Redis and an object store, and a React
client that keeps the keys. The backend relays ciphertext; what can go wrong in it
is who may do what when requests overlap. The client decides under which key to
seal, and as whom it is signed in, from answers and events that arrive late, out
of order, or never.

Contents: the inventory, the modules and how they correspond to the code, the
runs, what is proved and how, what the runs found, what is not modelled, and
the plan.

## 1. Inventory

| Component | State it keeps | Operations | What is hard | What makes it correct | Module |
|---|---|---|---|---|---|
| Login sessions (`services/auth_service.py`, `session_service.py`, `session_repository.py`) | table `sessions` (token hash, expiry, `revoked_at`), `users.status` | login, refresh, logout, list, revoke | one transaction per request, response before commit, a rollback that undoes what the code relies on | a revocation is final; a session accepts one token, and that one was delivered; a replaced token is refused | `Sessions` implements `SessionLife` |
| Access tokens (`access_tokens.py`, `dependencies.py`) | none (signed, with an expiry) | mint, decode, `get_current_session` | checked against the table as it was at the check | see above | `Sessions`, `AuthClient` |
| Browser session (`authStore.ts`, `apiClient.ts`) | session and access token in each tab's memory, the refresh cookie that tabs share | restore, sign in, refresh, retry, load profile, sign out | two single-flight guards, answers that come after a sign-out | each tab redeems one token at a time; requests are sent with the newest token; no request waits for ever | `AuthClient` implements `SessionLife` |
| Accounts (`auth_service.py` register and verify, `external_identity_linker.py`, OIDC, SAML) | `users`, `email_verification_tokens`, `external_identity_links` | register, verify, first and later sign-in by an identity provider | check-then-insert, a mail queued before the commit | one account per external identity, for a reason; only a token that left for an address confirms it | `Accounts` |
| Second factors (`mfa_service.py`) | table `mfa_factors` | enrol, confirm, disable, verify at login | look-ups that expect one row, nothing that makes it one | no factor counts that its owner has not proved to have | `MfaFactors` |
| Conversations (`conversation_service.py`, `conversation_repository.py`) | tables `conversations`, `conversation_participants` | create direct or group, add, remove, leave, delete, reactivate | check-then-act across statements, hard delete against a send, row locks | memberships change only by an authorised request; nothing outlives its conversation | `Conversations` implements `MemberLife` |
| Messages (`messaging_service.py`, `api/ws/realtime.py`) | table `messages`, `last_message_at` | send (REST and websocket), list | foreign keys, a guard on a stale read | a removal from a group is not undone by a message | `Conversations` |
| Realtime (`connection_manager.py`, `api/ws/realtime.py`, `realtimeClient.ts`, `useRealtime.ts`) | sockets and subscriber tasks of each backend process, timers of each page | connect, publish, deliver, disconnect, reconnect | a task that disconnects itself, late close events, Redis failures | the registry and the tasks agree; events in order and once; one attempt per page | `Realtime` |
| Group keys in the browser (`messagingStore.ts`, `groupKeyManager.ts`) | `groupKeyStore` in `localStorage`, the listed conversations | start, add, remove, re-key, send, absorb, open, page load | several requests with awaits in between; lost events; closed pages | who never was a member holds no key of that time; the store's two entries agree | `GroupKeys` |
| Direct keys and their backup (`conversationCrypto.ts`, `messagingStore.ts`, `conversation_key_backup_*.py`) | `conversationKeyStore`, table `conversation_key_backups` | establish, seal, open, back up, recover | functions of one page that interleave; messages that cross | what is posted can be opened by a peer that reads all; keys have a source | `DirectKeys` |
| Identity keys and vault (`identity_key_service.py`, `vault.ts`) | table `identity_keys`, `localStorage` | publish, rotate, look up, unlock | several devices, a change of user during an unlock | a newest, active key; a key id names its pair | `IdentityKeys` |
| Files (`file_service.py`, `file_storage.py`, `sendFile` and `loadFile`) | object store, `messages` and `file_attachments`, the browser's caches | upload, download, prefetch, retry | two stores without a common transaction | what is offered is whole, and stays so while it is downloaded | `FileSharing` |
| User profiles and directory, crypto providers, configuration, logging, error bodies, pages, migrations | none that a protocol depends on | | | | not modelled |

Interactions. Every HTTP request runs in one database transaction that
`get_db_session` opens and ends; the websocket's `message.send` runs in
`session_scope`. Handlers of different requests share nothing but the database,
Redis and the object store. Membership changes and messages are published to
Redis, per user, and delivered to the user's sockets. The client reacts to its own
requests and to these events; its store is one object that asynchronous functions
read and write between their awaits. Tabs share the cookie and `localStorage`.

How the modules share the system: `Sessions` is the server side of what `AuthClient`
calls, which keeps of it the look-up, the flush, the row lock, the answer and the commit or
rollback that comes later, and leaves out the clock, the account and what is aborted
before it is answered; `Conversations` is the server side of
`GroupKeys`, which keeps of it only that a change is answered before it commits. In both
pairs an abstract specification says what the two sides agree on: `Sessions` and `AuthClient`
implement `SessionLife`, `Conversations` and `GroupKeys` implement `MemberLife`. So the
server that a client module assumes does nothing that the transactions of the real one are
not shown to promise.
`Realtime` is the channel whose losses and delays `GroupKeys` and `DirectKeys`
assume when they handle an event late or never.

## 2. Modules

| Module | What it is |
|---|---|
| `SessionLife` | abstract: what the session table promises (open, rotate to a fresh token, close for good) |
| `MemberLife` | abstract: what conversations promise about who is in them (create, admit, depart, delete, post) |
| `Sessions` | the session handlers as concurrent transactions |
| `Conversations` | conversation, membership and message handlers as concurrent transactions |
| `Accounts` | registration, verification and the external identity linker as concurrent transactions |
| `MfaFactors` | enrolment, confirmation and disabling of second factors as concurrent transactions |
| `GroupKeys` | the clients of one group, and as much of the server as they see |
| `DirectKeys` | the two clients of a direct conversation, their tasks, and the key backup |
| `IdentityKeys` | the browsers' unlocks and the server's key directory |
| `AuthClient` | the tabs of one browser, their calls, and the transactions of the endpoints they call |
| `Realtime` | the pages, sockets, backend instances and subscriber tasks of one user |
| `FileSharing` | uploads, the object store, and the browsers' downloads |
| `*Proofs` | theorems, with their proofs, about the module they are named after; `FactorsAndFilesProofs` about `MfaFactors` and `FileSharing`, `ClientProofs` about `AuthClient` and `Realtime` |
| `MC*` | symmetry sets for TLC |

### How a request is modelled

The backend modules cut a request where another one can be observed:

* the SELECTs see committed rows only (READ COMMITTED, no `FOR UPDATE` anywhere
  in the code), so what a request read is a copy in `req[r]` or `request[r]`;
* `flush()` sends the UPDATE, INSERT or DELETE. It waits for a row another
  transaction has written (`RowUnlocked`, `MemberUnlocked`, `WritesConv`, `Unlocked`,
  or an inserted row with the same unique value in `Accounts`), and from then on
  holds it;
* the answer leaves before the commit. `get_db_session` is a dependency with
  `yield`; in the FastAPI version of `uv.lock` its exit code runs after the
  response. So the token is in `issued`, the group's creator goes on, and a browser
  keeps the key id it was answered, while the row is still invisible;
* the commit writes the columns the handler assigned and no others: SQLAlchemy
  updates changed attributes;
* an exception, a lost connection or a crash is a rollback: `Abort`, or the
  error action of the handler (`RefreshDisabled`, `JoinConflict`,
  `SendOrphaned`).

SQLAlchemy's identity map matters in one place: `update_last_message_at`
compares with the value an earlier `get_by_id` of the same transaction read
(`seen`).

Some things are facts about PostgreSQL, Redis or the browser and not about `src/`;
the map marks them external: the row lock of an UPDATE, the KEY SHARE lock that
inserting a message takes on its conversation, the unique index entry that a
concurrent INSERT waits for, what a Redis channel does with an event nobody is
subscribed to.

### State against code

* `Sessions`. `sessions[s]` is a row: `state` folds "no row / `revoked_at` null /
  `revoked_at` set", `hash` is the refresh token's hash (the hash is injective,
  so the token stands for it), `expires_at` is in ticks. `accessExp[s]` is the
  expiry of the newest access token minted for `s`: older ones expire earlier. A refresh
  looks its session up, rotates it, looks the account up (`UserCheck`) and mints
  (`RefreshAnswer`) in four steps; the account may be disabled between any two.
  `issued`, `spent`, `denied` are history.
* `Conversations`. `convs`, `members`, `messages` are tables. `sent_at` is a stamp
  drawn from one clock, as all processes read the same kind of clock; it names the
  message.
* `GroupKeys`. `epochKey[u]` and `current[u]` are the two kinds of
  `localStorage` entries of `groupKeyStore`; `view[u]` is what `u`'s conversation
  list says of the group; `task[u]` is the one membership change or re-key `u`'s
  client is in the middle of, and its `pc` the await it stands at: an epoch is numbered,
  drawn and wrapped (`Wrap`), stored (`StoreNewKey`) and posted (`Send`); `writes` are
  membership changes answered and not yet committed.
* `DirectKeys`. `store[u]` is the `vayunx.convkey.<convId>` entry, `cached[u]`
  `decryptedCache`. A task is one run of `sendOutgoing`,
  `openIncomingForConversation` or a loop over it; its `key` is `existingKey`, read
  before an await and used after it. A message that cannot be opened, for whatever reason, is
  passed over (`OpenFails`). `puts` are backup requests nobody awaits.
* `IdentityKeys`. `cache[b][u]` is the `vayunx.identity.<userId>` slot, `legacy` the
  slot of the version before, `identity[b]` the messaging store's. `unlock[t]` is
  one run of `unlockIdentity` or of the server's `rotate`; `session[b]` may change
  under it. A `Row` of `identity_keys` has the password its private keys are
  wrapped under, since only that decides whether it can be unwrapped.
* `AuthClient`. `bearer[t]` is `apiClient`'s `accessToken`, `session[t]` the
  store's. A call's `pc` is the await it stands at; `Sharing(t)` is
  `refreshInFlight`, `RestoreGuard` the other single-flight guard. Token `n` is the
  pair of tokens the `n`-th answer carried. A request of kind `api` may be `loadProfile`. On the
  server, `life` and `current` are the committed rows of `sessions`, one for each login, which
  its first token names; `writing` and `closing` are what open transactions have flushed. A
  refresh is two steps, as in the code: the row is found by its hash (`ReadRefresh`) and
  updated by its key (`ServeRefresh`), so two redemptions of one token both succeed, one
  after the other's commit. `CommitToken`, `CommitRevoke` and `Rollback` come after the answer.
  A call whose page is gone stays (`gone`) for as long as the server is at it.
* `Realtime`. `connections[i]` and `registered[i]` are the two dictionaries of
  `ConnectionManager` for the one user, `task[k]` an asyncio task that outlives its
  registration until it meets its `CancelledError`. A socket has two ends: the page
  learns of a broken one by its close event, the endpoint by its own.
* `Accounts`. `users`, `verified`, `links`, `used` are what is committed;
  `request[r].row` and `.link` are what a request inserted. `mail[i]` is the queue and
  what the worker made of it: a mail sent, or, when sending failed, a line in the log with the
  link. Both carry the token, and `VerifyEmail` asks for nothing but the token.
* `MfaFactors`. `rows` is the table; a factor is its secret, `app` those shown to the
  user, `proved` those a code of which was verified.
* `FileSharing`. `upload[f]` is the step of the request, `object[f]` whether the object
  is missing, whole or of another size than declared, `attachments` the committed
  rows; `shown` and `failed` are the store's two caches, `load[l]` a download.

## 3. Runs

`tlc -workers 2 -config X.cfg M` in this directory. Times are for two workers.

| Run | Instance | Distinct states | Time |
|---|---|---|---|
| `sessions` | 2 requests, 1 account, 2 sessions, 3 tokens, refresh tokens live 2 ticks, access tokens 1, clock to 2 | 70,000 | 20 s |
| `conversations` | 3 requests, 3 users, 1 conversation, 2 messages | 522,000 | 2 min |
| `group_keys` | 3 users, 2 keys, 3 messages, 2 changes | 1,165,000 | 2.5 min |
| `direct_keys` | 2 users, 2 tasks, 2 keys, 2 messages, 1 backup request at a time, 1 event | 1,281,000 | 1 min |
| `identity_keys` | 1 user, 2 browsers, 2 passwords, 2 unlocks, 3 ids, 2 events | 1,068,000 | 1.5 min |
| `auth_client` | 2 tabs, 2 calls, 3 tokens, the cookie of an earlier visit, 1 event | 426,000 | 1 min |
| `realtime` | 2 pages, 2 sockets, 2 instances, 2 tasks, 2 events, 1 fault | 467,000 | 40 s |
| `accounts` | 2 requests, 2 e-mails, a SAML and an OIDC subject, 2 accounts | 1,652,000 | 1.5 min |
| `mfa` | 3 requests, 3 factors | 138,000 | 10 s |
| `files` | 2 files, 2 browsers, 3 downloads, 2 events | 13,400 | 4 s |
| `crossing` | as `direct_keys`, 2 backup requests, no event | stops at the violation | 4 s |
| `two_factors` | 2 requests, 2 factors | stops at the violation | 1 s |

What the passing runs check, beside the type invariants:

* `sessions`: `CurrentTokenDelivered`, the refinement `ImplementsSessionLife` (with it, that a
  revocation is final), `ReplayIsRefused`.
* `conversations`: the refinement `ImplementsMemberLife` (with it, that a direct conversation
  keeps its two members and that nothing outlives its conversation), `NoWaitCycle`,
  `RemovalUndoneByAdminOnly`, `MembershipChangesAuthorized`.
* `group_keys`: `NothingBeforeJoining` (who joins reads nothing older, whatever was
  under way), `CurrentIsNewestHeld`, `KeysAreBoundToEpochs`.
* `direct_keys`: `KeysAreAnnounced` (no message is sealed under a key that no
  keying message carried, unless that one failed), `KeysHaveASource`.
* `identity_keys`: `NewestIsActive` (whoever published has an active key that is the
  newest), `KeyIdNamesItsPair`.
* `auth_client`: `OneRefreshPerTab`, `SessionNotAheadOfBearer`, `WaitersHaveARefresh`, the refinement
  `ImplementsSessionLife` (of the committed rows, under everything the tabs and the
  transactions do).
* `realtime`: `RegistryMatches`, `InOrderAndOnce`, `OneAttemptPerPage`, `SilencedByRedisOnly`
  (no race of sockets, only a Redis failure, leaves a connected user without a subscriber).
* `accounts`: `VerifiedByToken`, `SameIdentitySameAccount`.
* `mfa`: `ActiveWasProved`, `DisabledForGood`.
* `files`: `ServedIsWhole`, `ObjectIsThere`, `OneDownloadPerFile`.

Each has a mutant of one action or helper, kept next to the definition it
changes and named in `PROJECT.json`, under which TLC finds the property violated.

### Bounds and why they are enough

* Two requests give every race of two transactions, including the waiting one. In
  `sessions`, three tokens let both of them refresh after a login, or one refresh
  twice; two sessions let one request of a session revoke the other; with refresh
  tokens living two ticks and access tokens one, each can expire, separately, while a
  request is under way. A second account adds no interaction: a request names
  one account and `RevokeSession` compares owners.
* Three requests in `conversations` allow an administrator removed while it
  removes somebody, with a sender in flight. One conversation: no handler touches
  two. In `mfa` three requests are an enrolment, the confirmation of its predecessor
  and a disabling.
* `group_keys`: two keys are the old and the new epoch, three messages are a
  distribution, content and the next distribution. Two changes give add and remove,
  remove and re-add, two re-keys, and a page load or a failed distribution in the middle
  of any one of them.
* `direct_keys`: two keys and two messages are what can cross; with two tasks a
  message arrives, or a second send starts, between the steps of a send. One event
  loses the page or the storage between any two steps. More messages repeat these.
* `identity_keys`: three ids are a legacy row and two publishes, or three rows of a
  rotation race. Two browsers have a slot to be overtaken in. A second user matters
  for the refuted `KeyIdIsBoundToTheAccount` only.
* `auth_client`: two tabs share the cookie; two calls of one tab share a refresh, one
  call of each compete for the cookie. The first token is in the cookie when a tab opens
  (`Visited`); the other two are a login and a rotation, or two overlapping redemptions
  of one token. The start without a cookie is left to the theorems. One event makes an
  access token expire, a page reload, a session end elsewhere, or a commit lag behind
  its answer. A commit that does not lag follows its answer at once
  (`CommitsKeepUp`), as far as others can see; one that lags may come at any later
  time, or fail. More events take TLC too long; the theorems cover any number.
* `realtime`: two pages on one instance share a subscriber, on two they do not. Two
  tasks are the cancelled one that winds down and its successor. One fault breaks a
  socket while it is delivered to, ends a subscriber, or takes the token away.
* `accounts`: two accounts can clash in e-mail and in name; one subject of each
  protocol, since only what they vouch for differs.
* `files`: files do not share state, so two show that one upload leaves the other
  alone; three downloads allow two of one browser and file, were it not for the guard.
* Requests are received only while the pools of tokens, ids and stamps have one
  left for each request under way, so that running out of a pool looks
  like no request being received and not like one being stuck. Deadlock is checked in
  `sessions`, `conversations` and `accounts`, where `Refused`, `LoginRefused` and `Abort`
  can always go on. The others stop when the bounds of their logs, keys, factors or
  events are reached, which is no state of the system: `CHECK_DEADLOCK FALSE`.
* Symmetry permutes requests, users, browsers, tabs, calls, tasks, sockets and files
  that the module treats alike (each `MC` module says which), and is used only in runs
  where every property treats them alike as well.

### Fairness

No module assumes fairness, and no run checks liveness. In the backend, what could keep a
request from ending is a circle of transactions that wait for each other's locks. A session
request takes the lock of one row and waits for nothing afterwards, so there is no such circle to
look for in `Sessions`; a request of `Conversations` holds several locks over several
statements, and `NoWaitCycle` says as an invariant that some request can always go on.

Beyond that the code promises no liveness: a Redis channel
forgets what nobody hears, a backup request or a mail is tried once, a lost request is
shown to the user and not repeated, and a client that finds no token does not
reconnect. Where somebody waits for somebody, an invariant says that there is somebody
to wait for (`WaitersHaveARefresh`, `OneAttemptPerPage`, `RegistryMatches`).

## 4. Proofs

`tlapm M.tla` in this directory checks the proofs of module `M`. They hold for every
value of the constants that satisfies the named assumptions of the module, and rest
on nothing else: any number of requests, users, browsers, tasks, files and factors,
and any bound. The assumptions say that the bounds are natural numbers, that the values
which stand for "nothing" are no members of the sets they complete, that an administrator
or sender is one of the users or browsers, and, where a proof needs it, that there is a
user, a browser or an e-mail, or one token to be drawn, at all. `Conversations` also assumes
finitely many requests, because it counts those that still need a stamp.

Two proof modules are about two components each: `FactorsAndFilesProofs` and
`ClientProofs` extend two modules that share no name, so that a theorem can speak of either
in its own words (`Spec` and `TypeOK` are those of `FileSharing` and `AuthClient`; `MfaSpec`,
`MfaTypeOK`, `RealtimeSpec` and `RealtimeTypeOK` those of the others). Nothing is said of the
two components together.

Each module proves `Spec => []IInv` (its theorem `InductiveInvariant`, in `ClientProofs`
`SignInInvariant` and `RealtimeInvariant`, or the first steps of its other theorems) and derives the properties from it. None of the properties is
inductive: each of them speaks of what is committed, stored or shown, and needs to know what
the requests, calls or tasks in flight hold. `IInv` says that, one lemma per action shows that the action keeps it,
and lemmas on what an action leaves alone spare the repetition.

| Module | Properties proved | What the inductive invariant adds |
|---|---|---|
| `SessionsProofs` | `TypeOK`, `CurrentTokenDelivered`, `RevokedForever`, `ImplementsSessionLife`, `Life!Inv`, `ReplayIsRefused`, `OneWriterPerRow` | `RequestShape`, `RowsOfRequests` (a row that was read exists for good, a row to be inserted is one request's), `DrawnTokens` (a drawn token is in use nowhere else), `TableTokens` (tokens of the table differ, were delivered and not replaced) |
| `ConversationsProofs` | `TypeOK`, `NothingOutlivesItsConversation`, `DirectMembersStay`, `MembershipChangesAuthorized`, `RemovalUndoneByAdminOnly`, `ImplementsMemberLife`, `Membership!Inv`, `SomebodyIsReady` | `Shape` (what a handler read is still so: roles are not rewritten, rows of a group not deleted), `Apart` (what locks and uuids keep apart), `DirectPairs`, `StampsLeft`, `OpsKnown` |
| `GroupKeysProofs` | `TypeOK`, `CurrentIsNewestHeld`, `KeysAreBoundToEpochs`, `NothingBeforeJoining`, `ImplementsMemberLife` | `KeyHasEpoch`, `KeysComeLater`, `Before` and `After`, `MembersJoined`; `WritesInv` (a change in flight is of one membership, and ends only one that there is) |
| `DirectKeysProofs` | `TypeOK`, `KeysAreAnnounced`, `KeysHaveASource` | `Sourced`: every key in a store, a task, a backup or a backup request is its user's own or came with the peer's message, and is announced |
| `IdentityKeysProofs` | `TypeOK`, `NewestIsActive`, `KeyIdNamesItsPair` | `IdsAreDrawn`, `IdsAreNames`, `Rotations`, `Identities`, `Fetched`, over the `Directory` of rows that are committed or may be |
| `AccountsProofs` | `TypeOK`, `VerifiedByToken`, `SameIdentitySameAccount` | `RowShape`, `OriginShape`, `LinkShape` of each request, `Apart` (requests insert different rows), `UsersApart`, `ConfirmedKnown`, `LinksBased`, `EnteredLinked` |
| `FactorsAndFilesProofs` (`MfaFactors`) | `MfaTypeOK`, `ActiveWasProved`, `DisabledForGood` | `ConfirmsProved` (who confirms verified a code of the row it locks), `OneRowPerFactor` |
| `FactorsAndFilesProofs` (`FileSharing`) | `TypeOK`, `ServedIsWhole`, `ObjectIsThere`, `OneDownloadPerFile` | `PassedIsWhole` (an upload past the comparison of sizes has its whole object), `RowsAreDone`, `LoadsAreDone` |
| `ClientProofs` (`AuthClient`) | `TypeOK`, `OneRefreshPerTab`, `WaitersHaveARefresh`, `SessionNotAheadOfBearer`, `ImplementsSessionLife` | `CallShape`, `BootsAlone`, `OneRedeemer` of the calls; `TokensInOrder`, `HeldKnown`, `AnswersApart`, `NotAhead` of the tokens; `TableInv` of the rows (`RowsNamed`: a row's token, and the one flushed to it, is of its own login and no replaced one; `RevokedAreThere`) |
| `ClientProofs` (`Realtime`) | `RealtimeTypeOK`, `RegistryMatches`, `InOrderAndOnce`, `OneAttemptPerPage`, `SilencedByRedisOnly` | `SocketsPlaced`, `InstancesHold`, `Delivering`, `Queues`, `PageSockets` |

The arguments, where they are not plain:

* `Sessions` implements `SessionLife` because a token drawn by a refresh is in no row and
  not spent until the refresh commits, whatever commits before: then the commit is a
  rotation to a fresh token of the row it read. One that finds it
  revoked replaces the token as well and revives nothing, which `SessionLife` allows.
* `AuthClient` implements the same specification, from any state of `Life!Inv`
  on (`Life!ResumedSpec`), since there may be a session of an earlier visit. A login is named by
  its first token. What needs an argument is that the token a transaction has flushed
  is fresh when it commits, whatever committed since the row was read, perhaps another
  redemption of the same token: a token is written to one row once, and the row lock keeps it the
  only flushed one there (`RowsNamed`). And that a commit of a refresh whose row was revoked
  meanwhile revives nothing: it writes the token's columns only.
* `Conversations` implements `MemberLife`: a commit is the step, all else stutters. A join commits as
  the admin's whom the handler looked up before it wrote, and it is the admin still
  (`MembershipWrite`, from `JoinShape` and `LeaveShape`); a send commits as a post of
  somebody who has a row, though perhaps not an active one any more. From the refinement
  follows what `MemberLife` itself keeps (`OneAdminForEver`): nobody but its creator is ever admin of a
  group, also when the creator has left, and then nobody can be added again.
* `GroupKeys` implements `MemberLife` with a server that is simpler and, in one way, freer: changes
  it has answered may commit in any order, however late, and together. `WritesInv` is what makes
  that harmless: none of them grants a role, and one that ends a membership was answered
  when there was one, which joining never takes back.
* `ReplayIsRefused` and `OneWriterPerRow` are what is left of the refuted `SingleRedemption`
  (section 5): once a rotation has committed, its old token is looked up in vain, because
  no row has a spent token (`TableTokens`). Two refreshes with one token succeed only if both
  looked it up before, and then they write the row in turn. The run checks `ReplayIsRefused`.
* A change of membership is authorised although the handler checks before it
  writes and not as it commits: `JoinShape` and `LeaveShape` say that nothing which may
  happen in between takes away what was checked. Nobody is demoted, nobody's row
  disappears from a group, and the target is the one that was checked. `DirectMembersStay`
  is the consequence for direct conversations: no handler changes a membership of one.
* `NothingBeforeJoining` needs to know of every way a key can reach somebody. `KeysComeLater`
  says that who has a key, or will get it from a posted or prepared distribution, joined before
  anything was sealed under that key. The exception is a creator that left the group while
  its first distribution was under way: its key is `Stuck`, nobody else has it and nothing
  will be sealed under it. `Before` and `After` separate the time before the group's
  creation commits, when its creator already has keys and a task, from the time afterwards.
  `KeyHasEpoch` is a history argument of its own: the number is chosen from the task's `base`,
  read before an await, so two keys can have one number, but never one key two.
* `KeysAreAnnounced` is about reuse: a send without an encapsulated key takes one from the
  store or from its task, and each such key, by `Sourced`, is on a keying message that
  was posted, is being posted, or was lost. A key read before an await may be written back over
  a newer one afterwards, so the store has no order to argue from: only where keys come from.
* `NewestIsActive`: a rotation commits the row that supersedes together with the change
  to the superseded one, and supersedes only an older row of the same user (`Rotations`).
  A row that supersedes may be superseded in its turn before or after, by another
  rotation that read the same row: each time a newer active row comes with the
  commit. `IdsAreDrawn` and `IdsAreNames` keep a primary key's meaning across rollbacks.
* `SessionNotAheadOfBearer` compares two variables of a tab that different calls write at
  different times: `loadProfile` and the boot write back a session they captured before an await,
  a refresh and a sign-in write both from an answer that was sent earlier. `NotAhead`
  therefore compares all that the tab shows or will show (`Shows`) with all that it sends
  or will send (`Bears`). It is kept because a rotated token is newer than
  every token issued before it (`TokensInOrder`), and because the answer of a sign-in is the
  only token of its login until it is handled: nobody can have rotated what is not in the cookie
  yet (`AnswersApart`).
* `OneRefreshPerTab`: `refreshInFlight` guards refreshes against each other and not against
  the restore of a boot. `BootsAlone` says why that is enough: while a page boots it makes
  no other call. `WaitersHaveARefresh` is inductive once `OneRedeemer` says that
  the refresh which settles is the one that is waited for.
* `RegistryMatches` follows the code's order of assignments: a task that winds down has been
  taken out of the registry before, and the last socket that leaves takes the task with it, also
  when the task itself disconnects the socket in the middle of a delivery.
* `SilencedByRedisOnly` is what is left of the refuted `ConnectedIsSubscribed` (section 5). By
  `RegistryMatches` an instance that is silent has a dead task registered; `DeadTasks` shows
  that only `RedisFails` makes one, and `RegistryMatches` that it goes when the last socket does.
* `InOrderAndOnce`: `Queues` says that the events of a task's queue increase, and that all a
  socket got lies below the head of the queue of its instance's task, or up to it when
  this delivery has served the socket. A socket that is accepted has got nothing, so a
  successor task that starts with an empty queue cannot repeat anything.
* `OneAttemptPerPage`: at most one socket of a page is still to have its close event
  handled, and there is no timer meanwhile (`PageSockets`): a timer is set by the mount of a
  page, which has no socket then, or by the close event of its only one. After an
  unmount the socket that is left is closed and its late event finds `mounted` false.
* `SomebodyIsReady` is `NoWaitCycle` with the guards of every step written out instead of
  ENABLED. What the locks order is: a commit waits for nothing; an insert, a send and a change
  of a membership wait for commits only; a delete waits for those and for sends. That the guards
  are the ones of the actions is `ReadyMeansEnabled`: put it on the INVARIANTS line of
  `conversations`, where it holds.
* `SameIdentitySameAccount`: of two first sign-ins that insert a link, the unique index
  makes the second wait, and then fail. `LinkShape` says that whoever goes on found
  the committed link or inserted the only one.

`[][A]_vars` properties follow from `IInv` and the actions; the last step of each temporal
theorem combines these facts with PTL. That a set of bounded
numbers has a maximum (`MaxOfSet`) follows from the library's `WFMin`: a nonempty set of
naturals has a least element.

Model-checked only: the word ENABLED in `NoWaitCycle`, which is beyond this prover, as
liveness would be. `ImplementsMemberLife` of `GroupKeys` is the other way
round: with the constants of `group_keys` its states take longer than a run here
may, so no configuration has it; with `MaxLog = 2` TLC confirms it (494,000 states without symmetry), and the
theorem covers the rest. Every other property of the passing runs is a
theorem. The two refuted ones (section 5) are false, so there is nothing to prove.

## 5. What the runs found

Two runs end in a violation and stay in the project:

* `crossing` (`CachesAgree`): two first messages that cross. Each side adopts the key
  of the other's message (`crypto/conversationCrypto.ts:229`), and after both have
  read everything they hold different keys: later messages of either open at neither.
* `two_factors` (`AtMostOneActive`): an enrolment that has found no active factor goes on
  while the factor of another enrolment is confirmed, and leaves a pending one beside it. That
  is confirmed as well: two active factors, and `scalar_one_or_none` raises at every login
  (`mfa_service.py:138`).

More statements of the repository are refuted by properties that are in the modules and
in no configuration. To see the counterexample, put the property on the INVARIANT or
PROPERTY line (alone) and change the constants as said:

| Property | Configuration | What the code does |
|---|---|---|
| `SingleRedemption` | `sessions` | two refreshes with one token both succeed (`session_repository.py:51`); the client's single-flight guard does not cover two tabs |
| `DisabledRefreshKillsToken` | `sessions` | the revocation in `AuthService.refresh` is rolled back by the exception it precedes (`auth_service.py:223`) |
| `OneDirectPerPair` | `conversations`, 2 requests, 2 users, 2 conversations, 1 message | two direct conversations for one pair (`conversation_service.py:89`) |
| `NewestMessageShown` | `conversations`, 2 requests, 2 users | `last_message_at` moves back (`conversation_repository.py:160`) |
| `DepartureRekeys` | `group_keys`, `MaxKeys = 3` | leaving a group re-keys nothing (`messagingStore.ts:989`) |
| `EpochsNeverCollide` | `group_keys`, `MaxKeys = 3` | one epoch number is distributed twice (`messagingStore.ts:1029`) |
| `KeyIdIsBoundToTheAccount` | `identity_keys`, 2 users, 1 browser, 1 password, no symmetry | an unlock publishes for whoever signed in meanwhile (`vault.ts:362`) |
| `StaysSignedOut` (PROPERTY) | `auth_client`, no symmetry | `loadProfile` restores the session it read before a sign-out (`authStore.ts:119`) |
| `ConnectedIsSubscribed` | `realtime` | a subscriber that Redis ended stays registered, and no other is started (`connection_manager.py:54`) |

Seen while modelling, without a property of its own: `list_sessions` also lists expired
sessions; deleting a direct conversation deletes it for both (`DirectMembersStay` shows
that the reactivation code of FR-055 is never reached); the epoch after a removal can
still be wrapped for the removed member; a pending factor that is confirmed while it is
replaced is deleted; a refresh that is answered after a sign-out leaves a bearer without
a session; any network error of a refresh signs out; a logout with an expired access
token leaves the server's session and the cookie; a browser keeps a key id whose publish
did not commit; two rotations take one version; a reconnect without a token is not tried
again; a send writes a stale key back; a first message that fails leaves a key the
peer never gets; an unvouched address still makes a verified account; two requests redeem one
verification token; nothing marks an upload as failed. `PROJECT.json` has each with its
line and the sentence it contradicts.

## 6. Not modelled, and why

* Cryptography: a sealed value is a record naming its key, a wrap its addressee or its
  password. Algorithms and encodings (`core/crypto`, `crypto/*.ts` primitives) have
  tests with vectors, which suit them better.
* Discovery, state cookies, redirects, assertions and signatures of OIDC and SAML: they
  decide who the subject is, by a library; `Accounts` starts from what they return.
* User profiles and directory: reads, and updates of one row without a protocol.
* Device labels, names, avatars, envelopes' contents: no decision depends on them.
* Identity key checks in `send` (`InvalidIdentityKeyError`): a refused send is `Refused`.
* `joined_at` against clock skew: `joined[u]` is a position in the log.
* Users with several devices, and identity rotation, in `GroupKeys`: a user is one
  browser with one identity key. In `DirectKeys` a user has one browser, whose storage can
  be cleared, which is what a second device looks like to the backup.
* Deletion of the conversation in `DirectKeys`: keys and cache go with it, and a new
  conversation has a new id.
* Deleted accounts: no code deletes a user.
* The cursor pagination of messages: a pure query over stamps.
* Rate limits (a library counts), audit records and e-mail transport: no state the
  properties see. Configuration, logging, error bodies, dependency wiring, `run.py`: no
  state of their own. Pages and widgets: rendering and form state. Migrations run offline;
  the tables are modelled from the ORM classes.

## 7. Plan

Done, in this order: sessions and their abstract specification; conversations,
memberships and messages; group keys; direct keys and their backup; identity keys; the browser
session; realtime delivery; accounts and external identities; second factors; files; the proofs of
their invariants; the abstract specifications that server and client modules share, and the
proofs that both sides implement them.

Left, the most useful first:

1. `GroupKeys` with several browsers of one user, and with a rotation of an identity key
   between the look-up of a member's key and the wrap.
2. The cursor of `list_for_conversation` against messages that are inserted while pages are
   read: an operator checked against a reference definition.
3. The directory and profile updates, once they have a protocol.
