----------------------------- MODULE DirectKeys -----------------------------
(***************************************************************************)
(* The message key of one direct conversation: conversationCrypto.ts and   *)
(* the direct paths of sendOutgoing, openIncomingForConversation and       *)
(* resolveConversationKey in messagingStore.ts, with the password-wrapped  *)
(* key backup of the server (conversation_key_backup_service.py).          *)
(*                                                                         *)
(* Each user has one browser. A task is a run of one of the store's async  *)
(* functions: its steps are the stretches between awaits, and nothing      *)
(* keeps two tasks of one browser apart. A key is a number in the order of *)
(* establishment; a keying message carries it encapsulated for the peer.   *)
(* An authenticated cipher opens a message under its own key only.         *)
(***************************************************************************)
EXTENDS Integers, Sequences, FiniteSets

CONSTANTS Users, Tasks, NoUser,
          MaxKeys,      \* bound on the keys established
          MaxMessages,  \* bound on the messages of the conversation
          MaxPuts,      \* bound on the backup requests at a time
          MaxEvents     \* bound on page loads and cleared storages

ASSUME BoundAssumption == MaxKeys \in Nat /\ MaxMessages \in Nat
                          /\ MaxPuts \in Nat /\ MaxEvents \in Nat

VARIABLES
    log,     \* the messages of the conversation, oldest first
    backup,  \* the key in each user's row of conversation_key_backups, 0: no row
    puts,    \* backup requests on their way
    store,   \* localStorage: vayunx.convkey.<convId> of each browser, 0: none
    cached,  \* the messages of decryptedCache in each browser
    owner,   \* the user that established each key so far, a sequence
    lost,    \* keys whose keying message was not accepted
    task,
    events

vars == <<log, backup, puts, store, cached, owner, lost, task, events>>

Keys == 1 .. MaxKeys
NoKey == 0
Positions == 1 .. MaxMessages

Message == [sender: Users, key: Keys, keying: BOOLEAN]
Put == [user: Users, key: Keys]

\* key: existingKey, later the key the message is sealed under. from, to: the messages
\* still to be opened, oldest first; both 0 for a send.
Task == [pc: {"idle", "fetch", "ready", "post"}, user: Users \cup {NoUser}, key: 0 .. MaxKeys,
         keying: BOOLEAN, from: 0 .. MaxMessages + 1, to: 0 .. MaxMessages]
Idle == [pc |-> "idle", user |-> NoUser, key |-> NoKey,
         keying |-> FALSE, from |-> 0, to |-> 0]

TypeOK ==
    /\ log \in Seq(Message) /\ Len(log) <= MaxMessages
    /\ backup \in [Users -> 0 .. MaxKeys] /\ puts \in SUBSET Put
    /\ store \in [Users -> 0 .. MaxKeys]
    /\ cached \in [Users -> SUBSET Positions]
    /\ owner \in Seq(Users) /\ Len(owner) <= MaxKeys
    /\ lost \in SUBSET Keys
    /\ task \in [Tasks -> Task]
    /\ events \in 0 .. MaxEvents

Init ==
    /\ log = << >> /\ owner = << >> /\ puts = {} /\ lost = {} /\ events = 0
    /\ backup = [u \in Users |-> NoKey] /\ store = [u \in Users |-> NoKey]
    /\ cached = [u \in Users |-> {}]
    /\ task = [t \in Tasks |-> Idle]

-----------------------------------------------------------------------------
(* Helpers *)

Go(t, rec) == task' = [task EXCEPT ![t] = rec]
SetKey(u, k) == store' = [store EXCEPT ![u] = k]

\* resolveConversationKey, first part: the local key, else the backup is asked for.
Resolve(rec, local) ==
    [rec EXCEPT !.pc = IF local = NoKey THEN "fetch" ELSE "ready", !.key = local]

\* The walk goes on with the next message that is not in the cache, or ends.
Onward(rec, seen, local) ==
    LET left == {i \in rec.from .. rec.to : i \notin seen} IN
    IF left = {} THEN Idle
    ELSE Resolve([rec EXCEPT !.from = CHOOSE i \in left : \A j \in left : i <= j], local)

Opening(t) == task[t].pc = "ready" /\ task[t].to # 0
Sending(t) == task[t].pc = "ready" /\ task[t].to = 0
Opened(t) == log[task[t].from]
Passed(t) == [task[t] EXCEPT !.from = @ + 1]

\* Mutant of Keying: the store is looked at when the envelope is built.
KeyingNow(t) == store[task[t].user] = NoKey

\* The message carries the encapsulated key when it had to be established.
Keying(t) == task[t].key = NoKey

-----------------------------------------------------------------------------
(* Sending and opening *)

\* sendOutgoing, for a direct conversation.
StartSend(t, u) ==
    /\ task[t].pc = "idle"
    /\ Go(t, Resolve([Idle EXCEPT !.user = u], store[u]))
    /\ UNCHANGED <<log, backup, puts, store, cached, owner, lost, events>>

\* ingestRealtimeMessage: an event may come late, twice or out of order.
Ingest(t, u, i) ==
    /\ task[t].pc = "idle" /\ log[i].sender # u
    /\ Go(t, Resolve([Idle EXCEPT !.user = u, !.from = i, !.to = i], store[u]))
    /\ UNCHANGED <<log, backup, puts, store, cached, owner, lost, events>>

\* seedPreviews opens the newest message, whoever sent it.
SeedPreview(t, u) ==
    /\ task[t].pc = "idle" /\ log # << >>
    /\ Go(t, Resolve([Idle EXCEPT !.user = u, !.from = Len(log), !.to = Len(log)], store[u]))
    /\ UNCHANGED <<log, backup, puts, store, cached, owner, lost, events>>

\* selectConversation: the whole history is fetched and opened, oldest first.
SelectConversation(t, u) ==
    /\ task[t].pc = "idle" /\ log # << >>
    /\ Go(t, Onward([Idle EXCEPT !.user = u, !.from = 1, !.to = Len(log)], cached[u], store[u]))
    /\ UNCHANGED <<log, backup, puts, store, cached, owner, lost, events>>

\* The backup answers with a key, which is stored whatever the store holds by now.
Recovered(t) ==
    LET u == task[t].user IN
    /\ task[t].pc = "fetch" /\ backup[u] # NoKey
    /\ SetKey(u, backup[u])
    /\ Go(t, [task[t] EXCEPT !.pc = "ready", !.key = backup[u]])
    /\ UNCHANGED <<log, backup, puts, cached, owner, lost, events>>

\* No backup, no wrapping key in this session, or the request failed.
NothingRecovered(t) ==
    /\ task[t].pc = "fetch"
    /\ Go(t, [task[t] EXCEPT !.pc = "ready"])
    /\ UNCHANGED <<log, backup, puts, store, cached, owner, lost, events>>

\* The peer's public keys, which a send without a key asks for, do not come.
NoPeerKeys(t) ==
    /\ Sending(t) /\ task[t].key = NoKey
    /\ Go(t, Idle)
    /\ UNCHANGED <<log, backup, puts, store, cached, owner, lost, events>>

\* prepareOutgoing is done. A key that was resolved is written back; one established here
\* is stored only where there is none by now, and backed up in any case.
Seal(t) ==
    LET u == task[t].user
        fresh == task[t].key = NoKey
        key == IF fresh THEN Len(owner) + 1 ELSE task[t].key IN
    /\ Sending(t)
    /\ fresh => Len(owner) < MaxKeys /\ Cardinality(puts) < MaxPuts
    /\ owner' = IF fresh THEN Append(owner, u) ELSE owner
    /\ store' = IF ~fresh \/ store[u] = NoKey THEN [store EXCEPT ![u] = key] ELSE store
    /\ puts' = IF fresh THEN puts \cup {[user |-> u, key |-> key]} ELSE puts
    /\ Go(t, [task[t] EXCEPT !.pc = "post", !.key = key, !.keying = Keying(t)])
    /\ UNCHANGED <<log, backup, cached, lost, events>>

\* POST /conversations/{id}/messages; the sender caches what it has just sealed.
Post(t) ==
    LET u == task[t].user IN
    /\ task[t].pc = "post" /\ Len(log) < MaxMessages
    /\ log' = Append(log, [sender |-> u, key |-> task[t].key, keying |-> task[t].keying])
    /\ cached' = [cached EXCEPT ![u] = @ \cup {Len(log) + 1}]
    /\ Go(t, Idle)
    /\ UNCHANGED <<backup, puts, store, owner, lost, events>>

\* The request fails: an error is shown, and the key stays where it was stored.
PostFails(t) ==
    /\ task[t].pc = "post"
    /\ lost' = IF task[t].keying THEN lost \cup {task[t].key} ELSE lost
    /\ Go(t, Idle)
    /\ UNCHANGED <<log, backup, puts, store, cached, owner, events>>

\* A message of one's own is opened under the key at hand, or not at all.
OpenOwn(t) ==
    LET u == task[t].user
        seen == IF task[t].key = Opened(t).key THEN cached[u] \cup {task[t].from} ELSE cached[u] IN
    /\ Opening(t) /\ Opened(t).sender = u
    /\ cached' = [cached EXCEPT ![u] = seen]
    /\ Go(t, Onward(Passed(t), seen, store[u]))
    /\ UNCHANGED <<log, backup, puts, store, owner, lost, events>>

\* openIncoming: a keying message's key is authoritative, stored and backed up.
OpenKeying(t) ==
    LET u == task[t].user
        m == Opened(t) IN
    /\ Opening(t) /\ m.sender # u /\ m.keying
    /\ Cardinality(puts) < MaxPuts
    /\ SetKey(u, m.key)
    /\ puts' = puts \cup {[user |-> u, key |-> m.key]}
    /\ cached' = [cached EXCEPT ![u] = @ \cup {task[t].from}]
    /\ Go(t, Onward(Passed(t), cached'[u], store'[u]))
    /\ UNCHANGED <<log, backup, owner, lost, events>>

\* Any other message is opened under the key at hand, which is then written back.
OpenOther(t) ==
    LET u == task[t].user IN
    /\ Opening(t) /\ Opened(t).sender # u /\ ~Opened(t).keying
    /\ task[t].key = Opened(t).key
    /\ SetKey(u, task[t].key)
    /\ cached' = [cached EXCEPT ![u] = @ \cup {task[t].from}]
    /\ Go(t, Onward(Passed(t), cached'[u], store'[u]))
    /\ UNCHANGED <<log, backup, puts, owner, lost, events>>

\* openIncoming throws: the sender's signing key does not come, a keying message was wrapped
\* for another identity, or the message is under a key that is not at hand.
OpenFails(t) ==
    LET u == task[t].user IN
    /\ Opening(t) /\ Opened(t).sender # u
    /\ Go(t, Onward(Passed(t), cached[u], store[u]))
    /\ UNCHANGED <<log, backup, puts, store, cached, owner, lost, events>>

-----------------------------------------------------------------------------
(* The backup and the browser's storage *)

\* Mutant of WriteBackup: the row is looked up by the conversation alone.
WriteSharedBackup(p) ==
    /\ p \in puts
    /\ backup' = [u \in Users |-> IF u = p.user \/ backup[u] # NoKey THEN p.key ELSE backup[u]]
    /\ puts' = puts \ {p}
    /\ UNCHANGED <<log, store, cached, owner, lost, task, events>>

\* ConversationKeyBackupRepository.upsert: the row is looked up, then updated or inserted.
WriteBackup(p) ==
    /\ p \in puts
    /\ backup' = [backup EXCEPT ![p.user] = p.key]
    /\ puts' = puts \ {p}
    /\ UNCHANGED <<log, store, cached, owner, lost, task, events>>

\* A failed request, or the second of two inserts that found no row, which violates
\* uq_conversation_key_backup: nobody hears of it.
PutFails(p) ==
    /\ p \in puts
    /\ puts' = puts \ {p}
    /\ UNCHANGED <<log, backup, store, cached, owner, lost, task, events>>

\* The page is loaded again: its tasks and its cache are gone; a request sent is not.
LoadPage(u) ==
    /\ events < MaxEvents /\ events' = events + 1
    /\ cached' = [cached EXCEPT ![u] = {}]
    /\ task' = [t \in Tasks |->
                  IF task[t].user = u /\ task[t].pc # "post" THEN Idle ELSE task[t]]
    /\ UNCHANGED <<log, backup, puts, store, owner, lost>>

\* Mutant of ClearStorage: the slot is removed from the record of slots.
RemoveSlot(u) ==
    /\ events < MaxEvents /\ events' = events + 1
    /\ store' = [v \in Users \ {u} |-> store[v]]
    /\ UNCHANGED <<log, backup, puts, cached, owner, lost, task>>

\* The storage is cleared: by the user, by the browser, or for another account.
ClearStorage(u) ==
    /\ events < MaxEvents /\ events' = events + 1
    /\ SetKey(u, NoKey)
    /\ UNCHANGED <<log, backup, puts, cached, owner, lost, task>>

Next ==
    \/ \E t \in Tasks :
          \/ \E u \in Users : \/ StartSend(t, u) \/ SeedPreview(t, u)
                              \/ SelectConversation(t, u)
                              \/ \E i \in 1 .. Len(log) : Ingest(t, u, i)
          \/ Recovered(t) \/ NothingRecovered(t) \/ NoPeerKeys(t)
          \/ Seal(t) \/ Post(t) \/ PostFails(t)
          \/ OpenOwn(t) \/ OpenKeying(t) \/ OpenOther(t) \/ OpenFails(t)
    \/ \E p \in puts : WriteBackup(p) \/ PutFails(p)
    \/ \E u \in Users : LoadPage(u) \/ ClearStorage(u)

Spec == Init /\ [][Next]_vars

-----------------------------------------------------------------------------
(* Properties *)

\* The keys that keying messages carry, or would have carried.
Announced ==
    {log[i].key : i \in {j \in 1 .. Len(log) : log[j].keying}} \cup lost
    \cup {task[t].key : t \in {s \in Tasks : task[s].pc = "post" /\ task[s].keying}}

\* Whatever sends, openings, recoveries and cleared storages overlapped, a message without
\* an encapsulated key is sealed under one that a keying message carries, unless the
\* request of that one failed or is still on its way: a peer that reads all can open it.
KeysAreAnnounced == \A i \in 1 .. Len(log) : log[i].key \in Announced

\* The key in a browser's storage or in a user's backup was established by that user or
\* came with a message of the peer: it is never another user's wrap, and never a key
\* that no message was sealed under.
KeysHaveASource ==
    \A u \in Users : \A k \in {store[u], backup[u]} \ {NoKey} :
        \/ owner[k] = u
        \/ \E i \in 1 .. Len(log) : log[i].key = k /\ log[i].keying /\ log[i].sender # u

\* conversationCrypto.ts: the protocol heals itself instead of reusing a stale key. Refuted
\* by two first messages that cross, all posted and all read: each browser ends with the key of the other.
CachesAgree ==
    (/\ \A t \in Tasks : task[t].pc = "idle"
     /\ lost = {}
     /\ \A u \in Users : cached[u] = 1 .. Len(log) /\ store[u] # NoKey)
    => \A u, v \in Users : store[u] = store[v]
=============================================================================
