----------------------------- MODULE GroupKeys -----------------------------
(***************************************************************************)
(* The epoch keys of one group conversation: the browser clients of its    *)
(* users (messagingStore.ts, groupKeyManager.ts) and what they see of the  *)
(* server. A membership change is made by one client, which then asks the  *)
(* server for the members, draws a new epoch key, stores it, wraps it for  *)
(* the members it was told of and posts the wraps as a message of the      *)
(* group. Other clients absorb the wraps from the websocket or when the    *)
(* conversation is opened.                                                 *)
(*                                                                         *)
(* Server steps are atomic here, but for one thing that the clients can    *)
(* see: a membership change is answered, and announced on the websockets,  *)
(* before its transaction commits (Conversations has the transactions).    *)
(*                                                                         *)
(* A wrap is modelled by its addressee: only the holder of the addressee's *)
(* KEM private key can unwrap it. Each user has one device.                *)
(***************************************************************************)
EXTENDS Integers, Sequences, FiniteSetsExt

CONSTANTS Users,
          Admin,        \* the creator of the group, its only group_admin
          MaxKeys,      \* bound on the epoch keys drawn
          MaxLog,       \* bound on the messages of the group
          MaxChanges    \* bound on the membership changes, re-keys and page loads after
                        \* startGroup, and the distributions that fail

ASSUME AdminAssumption == Admin \in Users

ASSUME BoundAssumption == MaxKeys \in Nat /\ MaxLog \in Nat /\ MaxChanges \in Nat

VARIABLES
    members,    \* users with a committed active membership
    joined,     \* joined_at: how many messages had been posted; Never before the first join
    writes,     \* membership changes answered but not committed yet
    log,        \* the messages of the group in the order of sent_at
    drawn,      \* how many epoch keys generateEpochKey has drawn
    epochKey,   \* groupKeyStore: epochKey[u][e] is the key u's browser stores for epoch e
    current,    \* groupKeyStore.getCurrentEpoch, 0 for null
    view,       \* the group's participants in u's conversation list, {} if it is not listed
    changes,    \* how many of the events that MaxChanges bounds there have been
    task        \* the membership change or re-key u's client is in the middle of

server == <<members, joined, writes, log>>
store == <<epochKey, current>>
vars == <<server, drawn, store, view, changes, task>>

\* Keys are named in the order in which they are drawn.
Keys == 1 .. MaxKeys
NoKey == 0
Epochs == 1 .. MaxKeys

Never == -1
NoBase == -1     \* distributeNewGroupEpoch called without a baseEpoch

\* op "create": the group with these users; "add", "remove": one membership.
Write == [op: {"create", "add", "remove"}, users: SUBSET Users]

\* kind "keys": a key distribution; "chat": sealed content.
\* to: whom its keyWraps are for; sent: the members it is announced to when it is posted.
Message == [kind: {"keys", "chat"}, by: Users, epoch: Epochs, key: Keys,
            to: SUBSET Users, sent: SUBSET Users]

\* pc "first": distributeNewGroupEpoch's send from startGroup; "undo": its clean-up.
Task == [pc: {"idle", "added", "removed", "wrap", "wrap_first", "set", "set_first",
              "send", "send_first", "undo"},
         user: Users, to: SUBSET Users, base: NoBase .. MaxKeys,
         epoch: 0 .. MaxKeys, key: 0 .. MaxKeys]

NoTask == [pc |-> "idle", user |-> Admin, to |-> {}, base |-> NoBase, epoch |-> 0, key |-> NoKey]

TypeOK ==
    /\ members \in SUBSET Users
    /\ joined \in [Users -> Never .. MaxLog]
    /\ writes \in SUBSET Write
    /\ log \in Seq(Message) /\ Len(log) <= MaxLog
    /\ drawn \in 0 .. MaxKeys
    /\ epochKey \in [Users -> [Epochs -> Keys \cup {NoKey}]]
    /\ current \in [Users -> 0 .. MaxKeys]
    /\ view \in [Users -> SUBSET Users]
    /\ changes \in 0 .. MaxChanges
    /\ task \in [Users -> Task]

Init ==
    /\ members = {}
    /\ joined = [u \in Users |-> Never]
    /\ writes = {}
    /\ log = <<>>
    /\ drawn = 0
    /\ epochKey = [u \in Users |-> [e \in Epochs |-> NoKey]]
    /\ current = [u \in Users |-> 0]
    /\ view = [u \in Users |-> {}]
    /\ changes = 0
    /\ task = [u \in Users |-> NoTask]

-----------------------------------------------------------------------------
(* Helpers *)

Begin == changes < MaxChanges /\ changes' = changes + 1

Larger(a, b) == IF a >= b THEN a ELSE b

\* What GET /conversations tells u of this group.
Listed(u) == IF u \in members THEN members ELSE {}

\* refreshConversations: what is listed afterwards. A request that fails changes nothing,
\* and the caller goes on.
Refreshed(u) == {Listed(u), view[u]}

Written(op, u) == \E w \in writes : w.op = op /\ u \in w.users

\* Mutant of SetKey: a late wrap is stored as the current epoch's.
SetKeyAsCurrent(u, e, k) ==
    /\ epochKey' = [epochKey EXCEPT ![u][Larger(current[u], e)] = k]
    /\ current' = [current EXCEPT ![u] = Larger(@, e)]

\* groupKeyStore.setKey.
SetKey(u, e, k) ==
    /\ epochKey' = [epochKey EXCEPT ![u][e] = k]
    /\ current' = [current EXCEPT ![u] = Larger(@, e)]

\* Mutant of ClearKeys: the pointer to the current epoch is kept.
ClearKeysOnly(u) ==
    /\ epochKey' = [epochKey EXCEPT ![u] = [e \in Epochs |-> NoKey]]
    /\ UNCHANGED current

\* groupKeyStore.clear: the keys of the epochs 1 to the current one, and the pointer.
ClearKeys(u) ==
    /\ epochKey' = [epochKey EXCEPT ![u] =
                      [e \in Epochs |-> IF e <= current[u] THEN NoKey ELSE @[e]]]
    /\ current' = [current EXCEPT ![u] = 0]

\* POST /conversations/{id}/messages: accepted from active members only, and announced to
\* the other active members.
Post(u, kind, e, k, to) ==
    /\ u \in members
    /\ Len(log) < MaxLog
    /\ log' = Append(log, [kind |-> kind, by |-> u, epoch |-> e, key |-> k,
                           to |-> to, sent |-> members \ {u}])
    /\ UNCHANGED <<members, joined, writes>>

SetTask(u, t) == task' = [task EXCEPT ![u] = t]

-----------------------------------------------------------------------------
(* Membership changes, as the client that makes them sees them *)

\* startGroup: the members' keys have been fetched, POST /conversations is answered.
StartGroup(others) ==
    /\ joined[Admin] = Never /\ writes = {}
    /\ others # {} /\ Admin \notin others
    /\ writes' = {[op |-> "create", users |-> others \cup {Admin}]}
    /\ SetTask(Admin, [NoTask EXCEPT !.pc = "wrap_first", !.to = others])
    /\ UNCHANGED <<members, joined, log, drawn, store, view, changes>>

\* addGroupMember: POST .../participants is answered.
AddMember(u, v) ==
    /\ task[u].pc = "idle"
    /\ Begin
    /\ view[u] # {}
    /\ u = Admin /\ u \in members /\ v \notin members
    /\ ~Written("add", v)
    /\ writes' = writes \cup {[op |-> "add", users |-> {v}]}
    /\ SetTask(u, [NoTask EXCEPT !.pc = "added", !.user = v])
    /\ UNCHANGED <<members, joined, log, drawn, store, view>>

\* removeGroupMember, of another member or of oneself: DELETE .../participants is answered.
RemoveMember(u, v) ==
    /\ task[u].pc = "idle"
    /\ Begin
    /\ view[u] # {}
    /\ u \in members /\ v \in members
    /\ u = v \/ u = Admin
    /\ writes' = writes \cup {[op |-> "remove", users |-> {v}]}
    /\ SetTask(u, [NoTask EXCEPT !.pc = "removed", !.user = v])
    /\ UNCHANGED <<members, joined, log, drawn, store, view>>

\* get_db_session commits, after the response.
Commit(w) ==
    /\ w \in writes
    /\ writes' = writes \ {w}
    /\ members' = IF w.op = "remove" THEN members \ w.users ELSE members \cup w.users
    /\ joined' = [u \in Users |-> IF w.op # "remove" /\ u \in w.users /\ joined[u] = Never
                                  THEN Len(log) ELSE joined[u]]
    /\ UNCHANGED <<log, drawn, store, view, task, changes>>

\* addGroupMember after its request: refreshConversations, then the keys of the members
\* listed, or of the added user alone when the group is not listed.
RefreshAfterAdd(u) ==
    /\ task[u].pc = "added"
    /\ \E listed \in Refreshed(u) :
          /\ view' = [view EXCEPT ![u] = listed]
          /\ SetTask(u, [task[u] EXCEPT !.pc = "wrap",
                           !.to = IF listed = {} THEN {task[u].user} ELSE listed \ {u}])
    /\ UNCHANGED <<server, drawn, store, changes>>

\* removeGroupMember after its request: nobody listed, nothing to distribute.
RefreshAfterRemove(u) ==
    /\ task[u].pc = "removed"
    /\ \E listed \in Refreshed(u) :
          /\ view' = [view EXCEPT ![u] = listed]
          /\ SetTask(u, IF listed \ {u} = {} THEN NoTask
                        ELSE [task[u] EXCEPT !.pc = "wrap", !.to = listed \ {u}])
    /\ UNCHANGED <<server, drawn, store, changes>>

\* rekeyGroup: the members as last listed, the epoch after the current one or after one
\* that a displayed message e names (key distributions are never displayed).
Rekey(u, e) ==
    /\ task[u].pc = "idle"
    /\ Begin
    /\ view[u] # {}
    /\ e = 0 \/ \E i \in 1 .. Len(log) : log[i].kind = "chat" /\ log[i].epoch = e
    /\ SetTask(u, [NoTask EXCEPT !.pc = "wrap", !.to = view[u] \ {u},
                                 !.base = Larger(current[u], e)])
    /\ UNCHANGED <<server, drawn, store, view>>

-----------------------------------------------------------------------------
(* distributeNewGroupEpoch *)

\* Mutant of NewEpoch: without a baseEpoch the stored epoch is not looked up.
NewEpochWithoutStore(u) == task[u].base + 1

\* baseEpoch ?? getCurrentEpoch ?? 0, plus one.
NewEpoch(u) == (IF task[u].base = NoBase THEN current[u] ELSE task[u].base) + 1

\* Mutant of Wrap: a member that holds a current key passes it on.
WrapCurrentKey(u) ==
    /\ task[u].pc \in {"wrap", "wrap_first"}
    /\ drawn < MaxKeys
    /\ LET k == IF current[u] = 0 THEN drawn + 1 ELSE epochKey[u][current[u]]
       IN  /\ drawn' = Larger(drawn, k)
           /\ SetTask(u, [task[u] EXCEPT !.epoch = NewEpoch(u), !.key = k,
                            !.pc = IF @ = "wrap" THEN "set" ELSE "set_first"])
    /\ UNCHANGED <<server, store, view, changes>>

\* The epoch is settled, a key is drawn and wrapped for the members fetched
\* (createAndWrapNewEpoch), which takes a while.
Wrap(u) ==
    /\ task[u].pc \in {"wrap", "wrap_first"}
    /\ drawn < MaxKeys
    /\ drawn' = drawn + 1
    /\ SetTask(u, [task[u] EXCEPT !.epoch = NewEpoch(u), !.key = drawn + 1,
                     !.pc = IF @ = "wrap" THEN "set" ELSE "set_first"])
    /\ UNCHANGED <<server, store, view, changes>>

\* The key is stored, over one that came for this epoch meanwhile, and the marker sealed.
StoreNewKey(u) ==
    /\ task[u].pc \in {"set", "set_first"}
    /\ SetKey(u, task[u].epoch, task[u].key)
    /\ SetTask(u, [task[u] EXCEPT !.pc = IF @ = "set" THEN "send" ELSE "send_first"])
    /\ UNCHANGED <<server, drawn, view, changes>>

\* The wraps are posted; startGroup then lists the new group. (rekeyGroup opens the
\* conversation again, which is Open, or nothing when that request fails.)
Send(u) ==
    /\ task[u].pc \in {"send", "send_first"}
    /\ Post(u, "keys", task[u].epoch, task[u].key, task[u].to)
    /\ view' = IF task[u].pc = "send_first"
               THEN [view EXCEPT ![u] = task[u].to \cup {u}] ELSE view
    /\ SetTask(u, NoTask)
    /\ UNCHANGED <<drawn, store, changes>>

\* A member's key could not be fetched or wrapped for (which may be found after the epoch's
\* key is drawn: it is dropped), the post is refused (403) or the network fails: the client
\* shows an error. What it stored stays stored.
Fail(u) ==
    /\ task[u].pc \in {"wrap", "wrap_first", "send", "send_first"}
    /\ Begin
    /\ SetTask(u, IF task[u].pc \in {"wrap_first", "send_first"}
                  THEN [NoTask EXCEPT !.pc = "undo"] ELSE NoTask)
    /\ UNCHANGED <<server, drawn, store, view>>

\* startGroup's apiDeleteConversation: leaves the group, or 404 before its commit.
Undo(u) ==
    /\ task[u].pc = "undo"
    /\ writes' = IF u \in members THEN writes \cup {[op |-> "remove", users |-> {u}]} ELSE writes
    /\ SetTask(u, NoTask)
    /\ UNCHANGED <<members, joined, log, drawn, store, view, changes>>

-----------------------------------------------------------------------------
(* Content, websocket events and opening the conversation *)

\* sendOutgoing under the current epoch.
Chat(u) ==
    /\ view[u] # {}
    /\ current[u] # 0 /\ epochKey[u][current[u]] # NoKey
    /\ Post(u, "chat", current[u], epochKey[u][current[u]], {})
    /\ UNCHANGED <<drawn, store, view, task, changes>>

\* acceptKeyDistribution finds a wrap for u in message i.
Wrapped(u, i) == log[i].kind = "keys" /\ u \in log[i].to

\* ingestRealtimeMessage of a key distribution (content changes nothing that is modelled).
\* An event may be handled late: handlers of one socket are not awaited one by one. It
\* may never be handled: the socket is down. A group not listed is looked up first.
Ingest(u, i) ==
    /\ i \in 1 .. Len(log) /\ u \in log[i].sent
    /\ \E listed \in IF view[u] = {} THEN Refreshed(u) ELSE {view[u]} :
          /\ view' = [view EXCEPT ![u] = listed]
          /\ IF listed # {} /\ Wrapped(u, i)
             THEN SetKey(u, log[i].epoch, log[i].key) ELSE UNCHANGED store
    /\ UNCHANGED <<server, drawn, changes, task>>

\* onGroupMembershipChanged, on an event announced before the change commits and handled
\* any time later: a group no longer listed is forgotten. (When the group is the open
\* one it is reloaded: Open.)
MembershipChanged(u) ==
    /\ changes > 0
    /\ \E listed \in Refreshed(u) :
          /\ view' = [view EXCEPT ![u] = listed]
          /\ IF listed = {} THEN ClearKeys(u) ELSE UNCHANGED store
    /\ UNCHANGED <<server, drawn, changes, task>>

\* The positions of the wraps for u that the history it is given holds.
History(u) == {i \in joined[u] + 1 .. Len(log) : Wrapped(u, i)}

\* selectConversation: every message since joined_at, oldest first, so that of two wraps
\* for one epoch the later one stays.
Open(u) ==
    /\ view[u] # {} /\ u \in members
    /\ LET of(e) == {i \in History(u) : log[i].epoch = e}
       IN  /\ epochKey' = [epochKey EXCEPT ![u] =
                 [e \in Epochs |-> IF of(e) # {} THEN log[Max(of(e))].key ELSE @[e]]]
           /\ current' = [current EXCEPT ![u] = Max({log[i].epoch : i \in History(u)} \cup {@})]
    /\ UNCHANGED <<server, drawn, view, changes, task>>

\* The page is loaded again: whatever the client was in the middle of is given up, and what
\* localStorage holds stays. bootstrap lists the conversations, and seedPreviews opens the
\* newest message; each request may fail.
Bootstrap(u) ==
    /\ Begin
    /\ SetTask(u, NoTask)
    /\ \E listed \in {Listed(u), {}} :
          /\ view' = [view EXCEPT ![u] = listed]
          /\ \/ UNCHANGED store
             \/ /\ listed # {} /\ log # <<>> /\ Wrapped(u, Len(log))
                /\ SetKey(u, log[Len(log)].epoch, log[Len(log)].key)
    /\ UNCHANGED <<server, drawn>>

Next ==
    \/ \E others \in SUBSET Users : StartGroup(others)
    \/ \E w \in writes : Commit(w)
    \/ \E u \in Users :
          \/ \E v \in Users : AddMember(u, v) \/ RemoveMember(u, v)
          \/ \E e \in 0 .. MaxKeys : Rekey(u, e)
          \/ RefreshAfterAdd(u) \/ RefreshAfterRemove(u)
          \/ Wrap(u) \/ StoreNewKey(u) \/ Send(u) \/ Fail(u) \/ Undo(u)
          \/ Chat(u)
          \/ \E i \in 1 .. MaxLog : Ingest(u, i)
          \/ MembershipChanged(u) \/ Open(u) \/ Bootstrap(u)

Spec == Init /\ [][Next]_vars

-----------------------------------------------------------------------------
(* Properties *)

Held(u) == {epochKey[u][e] : e \in Epochs}

\* The keys of the group's messages that are wrapped for u, or that u wrapped.
Given(u) ==
    {log[i].key : i \in {j \in 1 .. Len(log) :
        log[j].kind = "keys" /\ (log[j].by = u \/ u \in log[j].to)}}

\* groupKeyManager.ts: a newly added member reads "from the point of joining onward, not
\* retroactively". A key that sealed a message posted before a user first joined is never
\* held by that user nor wrapped for it, whatever changes, re-keys, failures and reloads
\* are interleaved.
NothingBeforeJoining ==
    \A u \in Users, i \in 1 .. Len(log) :
        log[i].kind = "chat" /\ (joined[u] = Never \/ i <= joined[u])
            => log[i].key \notin Held(u) \cup Given(u)

\* The two entries of groupKeyStore agree: the current epoch is the highest one with a
\* stored key, after any order of wraps, of being removed and of being added again
\* (setKey, clear); so sendOutgoing seals under the newest epoch the browser holds.
CurrentIsNewestHeld ==
    \A u \in Users :
        /\ current[u] # 0 => epochKey[u][current[u]] # NoKey
        /\ \A e \in Epochs : epochKey[u][e] # NoKey => e <= current[u]

\* A key comes to a browser only by its own draw or by a wrap addressed to it, and no key
\* is stored under two epochs: the key a message names by its epoch number is
\* the one some client drew for that epoch (acceptKeyDistribution, setKey).
KeysAreBoundToEpochs ==
    \A u, v \in Users, e, f \in Epochs :
        epochKey[u][e] # NoKey /\ epochKey[u][e] = epochKey[v][f] => e = f

\* Conversations.tsx: "a departure always triggers a rekey excluding the departing member
\* (FR-028)". When every client is done, the newest key distribution is neither by nor
\* for a user who has left the group.
DepartureRekeys ==
    (writes = {} /\ \A u \in Users : task[u] = NoTask) =>
        \A u \in Users \ members, i \in 1 .. Len(log) :
            log[i].kind = "keys" /\ (u = log[i].by \/ u \in log[i].to)
                => \E j \in i + 1 .. Len(log) : log[j].kind = "keys"

\* distributeNewGroupEpoch: "the new epoch is strictly greater than any existing one and
\* never collides with / overwrites an epoch other members may still hold".
EpochsNeverCollide ==
    \A i, j \in 1 .. Len(log) :
        i # j /\ log[i].kind = "keys" /\ log[j].kind = "keys" => log[i].epoch # log[j].epoch

\* The group as a conversation of Conversations: the creator's first joining makes it one.
TheGroup == "group"
KindOf == [c \in {TheGroup} |-> IF joined[Admin] = Never THEN "none" ELSE "group"]
RowOf == [c \in {TheGroup} |-> [u \in Users |-> IF u \in members THEN "active"
                                             ELSE IF joined[u] # Never THEN "left" ELSE "none"]]
AdminsOf == [c \in {TheGroup} |-> IF joined[Admin] = Never THEN {} ELSE {Admin}]
AuthorsOf == [c \in {TheGroup} |-> {u \in Users : \E i \in 1 .. Len(log) : log[i].by = u}]

Membership == INSTANCE MemberLife WITH Convs <- {TheGroup}, kind <- KindOf, row <- RowOf,
                                       admins <- AdminsOf, authors <- AuthorsOf

\* The server that the clients see, which commits a membership change some time after it has
\* answered it, keeps what Conversations' transactions keep: every change and every
\* post is one that the committed memberships allow, in whatever order they commit.
ImplementsMemberLife == Membership!Spec
=============================================================================
