-------------------------- MODULE DirectKeysProofs --------------------------
(***************************************************************************)
(* Proofs about DirectKeys, for any number of users, tasks, keys, messages *)
(* and events: no message is sealed under a key that was never announced,  *)
(* and no browser and no backup holds a key that is not its user's.        *)
(***************************************************************************)
EXTENDS DirectKeys, WellFoundedInduction, TLAPS

-----------------------------------------------------------------------------
(* The inductive invariant *)

\* A key u may hold: u established it, or it came with a message of the peer; and the
\* message that carries it was posted, is being posted, or was lost.
Sourced(u, k) ==
    k # NoKey =>
        /\ k \in 1 .. Len(owner) /\ k \in Announced
        /\ \/ owner[k] = u
           \/ \E i \in 1 .. Len(log) : log[i].key = k /\ log[i].keying /\ log[i].sender # u

\* A task that is under way has a user's key, and a message to open if it opens any.
Sound(rec) ==
    rec.pc # "idle" =>
        /\ rec.user \in Users /\ Sourced(rec.user, rec.key)
        /\ rec.pc = "post" => rec.key # NoKey
        /\ rec.pc # "post" /\ rec.to # 0 => rec.from \in 1 .. Len(log) /\ rec.to <= Len(log)

TasksSound == \A t \in Tasks : Sound(task[t])

HeldSourced ==
    /\ \A u \in Users : Sourced(u, store[u]) /\ Sourced(u, backup[u])
    /\ \A p \in puts : Sourced(p.user, p.key)

LogSourced == \A i \in 1 .. Len(log) : log[i].key \in 1 .. Len(owner)

IInv == TypeOK /\ TasksSound /\ HeldSourced /\ LogSourced /\ KeysAreAnnounced

-----------------------------------------------------------------------------
(* Helpers *)

LEMMA IdleTyped ==
    /\ Idle \in Task /\ Idle.pc = "idle" /\ Idle.user = NoUser /\ Idle.key = NoKey
    /\ Idle.from = 0 /\ Idle.to = 0
  BY BoundAssumption DEF Idle, Task, NoKey

LEMMA LogTyped ==
    ASSUME TypeOK
    PROVE  /\ Len(log) \in 0 .. MaxMessages /\ Len(owner) \in 0 .. MaxKeys
           /\ \A i \in 1 .. Len(log) : /\ log[i] \in Message /\ log[i].sender \in Users
                                       /\ log[i].key \in Keys /\ log[i].keying \in BOOLEAN
           /\ \A k \in 1 .. Len(owner) : owner[k] \in Users
  <1>1. /\ log \in Seq(Message) /\ Len(log) <= MaxMessages
        /\ owner \in Seq(Users) /\ Len(owner) <= MaxKeys
    BY DEF TypeOK
  <1>2. \A i \in 1 .. Len(log) : log[i] \in Message
    BY <1>1
  <1>3. Len(log) \in 0 .. MaxMessages /\ Len(owner) \in 0 .. MaxKeys
    BY <1>1, BoundAssumption
  <1> QED BY <1>1, <1>2, <1>3 DEF Message

LEMMA TaskTyped ==
    ASSUME TypeOK, NEW t \in Tasks
    PROVE  /\ task \in [Tasks -> Task] /\ task[t] \in Task
           /\ task[t].key \in 0 .. MaxKeys /\ task[t].from \in 0 .. MaxMessages + 1
           /\ task[t].to \in 0 .. MaxMessages /\ task[t].keying \in BOOLEAN
           /\ task[t].user \in Users \cup {NoUser}
  BY DEF TypeOK, Task

\* A set of numbers that is not empty has a least member.
LEMMA LeastOfSet ==
    ASSUME NEW S \in SUBSET Nat, S # {}
    PROVE  \E i \in S : \A j \in S : i <= j
  <1>1. PICK i \in S : \A j \in S : <<j, i>> \notin OpToRel(<, Nat)
    BY NatLessThanWellFounded, WFMin
  <1>2. \A j \in S : i <= j
    <2> TAKE j \in S
    <2>1. <<j, i>> \notin {ss \in Nat \X Nat : ss[1] < ss[2]}
      BY <1>1 DEF OpToRel
    <2> QED BY <2>1
  <1> QED BY <1>2

\* Resolving a key makes a task that opens what it is to open, or sends.
LEMMA ResolveSound ==
    ASSUME IInv, NEW rec \in Task, rec.user \in Users,
           rec.to # 0 => rec.from \in 1 .. Len(log) /\ rec.to <= Len(log),
           NEW local \in 0 .. MaxKeys, Sourced(rec.user, local)
    PROVE  /\ Resolve(rec, local) \in Task /\ Sound(Resolve(rec, local))
           /\ Resolve(rec, local).pc # "post"
  <1> DEFINE pc == IF local = NoKey THEN "fetch" ELSE "ready"
             res == [rec EXCEPT !.pc = pc, !.key = local]
  <1>1. pc \in {"fetch", "ready"}
    OBVIOUS
  <1>2. Resolve(rec, local) = res
    BY DEF Resolve
  <1> HIDE DEF pc
  <1>3. /\ res \in Task /\ res.pc = pc /\ res.key = local /\ res.user = rec.user
        /\ res.to = rec.to /\ res.from = rec.from
    BY <1>1 DEF Task
  <1> HIDE DEF res
  <1> QED BY <1>1, <1>2, <1>3 DEF Sound

\* So does going on with the next message.
LEMMA OnwardSound ==
    ASSUME IInv, NEW rec \in Task, rec.user \in Users, rec.from # 0, rec.to <= Len(log), NEW seen,
           NEW local \in 0 .. MaxKeys, Sourced(rec.user, local)
    PROVE  /\ Onward(rec, seen, local) \in Task /\ Sound(Onward(rec, seen, local))
           /\ Onward(rec, seen, local).pc # "post"
  <1> DEFINE left == {i \in rec.from .. rec.to : i \notin seen}
             next == CHOOSE i \in left : \A j \in left : i <= j
             res == [rec EXCEPT !.from = next]
  <1>1. /\ rec.from \in 1 .. MaxMessages + 1 /\ rec.to \in 0 .. MaxMessages
        /\ Len(log) \in 0 .. MaxMessages
    BY LogTyped, BoundAssumption DEF Task, IInv
  <1>2. CASE left = {}
    BY <1>2, IdleTyped DEF Onward, Sound
  <1>3. CASE left # {}
    <2>1. left \in SUBSET Nat /\ left \subseteq 1 .. Len(log)
      BY <1>1
    <2>2. next \in left
      <3> HIDE DEF left
      <3> QED BY <1>3, <2>1, LeastOfSet
    <2>3. next \in 1 .. Len(log) /\ next \in 0 .. MaxMessages + 1
      BY <1>1, <2>1, <2>2, BoundAssumption
    <2>4. Onward(rec, seen, local) = Resolve(res, local)
      BY <1>3 DEF Onward
    <2> HIDE DEF next
    <2>5. res \in Task /\ res.user = rec.user /\ res.from = next /\ res.to = rec.to
      BY <2>3 DEF Task
    <2> HIDE DEF res
    <2> QED BY <2>3, <2>4, <2>5, ResolveSound
  <1> QED BY <1>2, <1>3

-----------------------------------------------------------------------------
(* What steps have in common *)

\* A key that u may hold, u may hold from now on.
LEMMA StaysSourced ==
    ASSUME IInv, Announced \subseteq Announced',
           Len(owner') \in Nat, Len(owner) <= Len(owner'),
           \A k \in 1 .. Len(owner) : owner'[k] = owner[k],
           Len(log') \in Nat, Len(log) <= Len(log'),
           \A i \in 1 .. Len(log) : log'[i] = log[i]
    PROVE  /\ \A u, k : Sourced(u, k) => Sourced(u, k)'
           /\ \A rec \in Task : Sound(rec) => Sound(rec)'
  <1>1. Len(owner) \in Nat /\ Len(log) \in Nat
    BY LogTyped, BoundAssumption DEF IInv
  <1>2. ASSUME NEW u, NEW k, Sourced(u, k) PROVE Sourced(u, k)'
    <2> SUFFICES ASSUME k # NoKey PROVE Sourced(u, k)'
      BY DEF Sourced
    <2>1. k \in 1 .. Len(owner) /\ k \in 1 .. Len(owner') /\ k \in Announced' /\ owner'[k] = owner[k]
      BY <1>1, <1>2 DEF Sourced
    <2>2. CASE owner[k] = u
      BY <2>1, <2>2 DEF Sourced
    <2>3. CASE \E i \in 1 .. Len(log) : log[i].key = k /\ log[i].keying /\ log[i].sender # u
      <3>1. \A i \in 1 .. Len(log) : i \in 1 .. Len(log')
        BY <1>1
      <3> QED BY <2>1, <2>3, <3>1 DEF Sourced
    <2> QED BY <1>2, <2>2, <2>3 DEF Sourced
  <1>3. ASSUME NEW rec \in Task, Sound(rec) PROVE Sound(rec)'
    <2>1. rec.from \in 1 .. Len(log) => rec.from \in 1 .. Len(log')
      BY <1>1
    <2>2. rec.pc # "idle" => Sourced(rec.user, rec.key)'
      <3> SUFFICES ASSUME rec.pc # "idle" PROVE Sourced(rec.user, rec.key)'
        OBVIOUS
      <3>1. Sourced(rec.user, rec.key)
        BY <1>3 DEF Sound
      <3> QED BY <1>2, <3>1
    <2>3. rec.to <= Len(log) => rec.to <= Len(log')
      <3>1. rec.to \in Int
        BY BoundAssumption DEF Task
      <3> QED BY <1>1, <3>1
    <2> QED BY <1>1, <1>3, <2>1, <2>2, <2>3 DEF Sound
  <1> QED BY <1>2, <1>3

\* What is announced stays so, when the messages that are being posted stay so.
LEMMA StaysAnnounced ==
    ASSUME IInv, UNCHANGED log, lost \subseteq lost',
           \A t \in Tasks : task[t].pc = "post" => task'[t] = task[t]
    PROVE  Announced \subseteq Announced'
  <1>1. \A t \in Tasks : task[t].pc = "post" /\ task[t].keying =>
            /\ task'[t].pc = "post" /\ task'[t].keying /\ task'[t].key = task[t].key
    OBVIOUS
  <1>2. {task[t].key : t \in {s \in Tasks : task[s].pc = "post" /\ task[s].keying}} \subseteq
            {task'[t].key : t \in {s \in Tasks : task'[s].pc = "post" /\ task'[s].keying}}
    BY <1>1
  <1> QED BY <1>2 DEF Announced

\* A step that establishes no key: every task is sound, and the keys held and posted from
\* now on are some that could be held before.
LEMMA CarryStep ==
    ASSUME IInv, TypeOK', UNCHANGED owner, Announced \subseteq Announced',
           Len(log') \in Nat, Len(log) <= Len(log'),
           \A i \in 1 .. Len(log) : log'[i] = log[i],
           \A i \in 1 .. Len(log') :
               i \in 1 .. Len(log) \/ (log'[i].key \in 1 .. Len(owner) /\ log'[i].key \in Announced),
           \A t \in Tasks : Sound(task'[t]),
           \A u \in Users : Sourced(u, store'[u]) /\ Sourced(u, backup'[u]),
           \A p \in puts' : Sourced(p.user, p.key)
    PROVE  IInv'
  <1>1. /\ \A u, k : Sourced(u, k) => Sourced(u, k)'
        /\ \A rec \in Task : Sound(rec) => Sound(rec)'
    BY LogTyped, StaysSourced, BoundAssumption DEF IInv
  <1>2. TasksSound'
    <2> SUFFICES ASSUME NEW t \in Tasks PROVE Sound(task[t])'
      BY DEF TasksSound
    <2>1. PICK rec \in Task : rec = task'[t] /\ Sound(rec)
      BY DEF TypeOK
    <2>2. Sound(rec)'
      BY <1>1, <2>1
    <2> QED BY <2>1, <2>2 DEF Sound
  <1>3. HeldSourced'
    <2>1. ASSUME NEW u \in Users PROVE Sourced(u, store[u])' /\ Sourced(u, backup[u])'
      <3>1. PICK k, b : k = store'[u] /\ b = backup'[u]
        OBVIOUS
      <3>2. Sourced(u, k) /\ Sourced(u, b)
        BY <3>1
      <3>3. Sourced(u, k)' /\ Sourced(u, b)'
        BY <1>1, <3>2
      <3> QED BY <3>1, <3>3 DEF Sourced
    <2>2. \A p \in puts' : Sourced(p.user, p.key)'
      BY <1>1
    <2> QED BY <2>1, <2>2 DEF HeldSourced
  <1>4. LogSourced'
    BY DEF IInv, LogSourced
  <1>5. KeysAreAnnounced'
    BY DEF IInv, KeysAreAnnounced
  <1> QED BY <1>2, <1>3, <1>4, <1>5 DEF IInv

\* A step that appends to nothing, and lets the messages that are being posted be.
LEMMA QuietStep ==
    ASSUME IInv, TypeOK', UNCHANGED <<log, owner, lost>>,
           \A t \in Tasks : /\ task[t].pc = "post" => task'[t] = task[t]
                            /\ Sound(task'[t]),
           \A u \in Users : Sourced(u, store'[u]) /\ Sourced(u, backup'[u]),
           \A p \in puts' : Sourced(p.user, p.key)
    PROVE  IInv'
  <1>1. Announced \subseteq Announced'
    BY StaysAnnounced
  <1>2. Len(log) \in Nat
    BY LogTyped, BoundAssumption DEF IInv
  <1> QED BY <1>1, <1>2, CarryStep

\* A task that posts nothing goes on soundly, and the others wait.
LEMMA TaskStep ==
    ASSUME IInv, NEW t \in Tasks, NEW rec \in Task, Go(t, rec), task[t].pc # "post", Sound(rec)
    PROVE  /\ task' \in [Tasks -> Task]
           /\ \A s \in Tasks : /\ task[s].pc = "post" => task'[s] = task[s]
                               /\ Sound(task'[s])
  <1>1. task \in [Tasks -> Task] /\ \A s \in Tasks : Sound(task[s])
    BY DEF IInv, TypeOK, TasksSound
  <1>2. task' = [task EXCEPT ![t] = rec]
    BY DEF Go
  <1> QED BY <1>1, <1>2

\* A key that a user may hold is put into the storage.
LEMMA StoreStep ==
    ASSUME IInv, NEW u \in Users, NEW k \in 0 .. MaxKeys, Sourced(u, k),
           store' = [store EXCEPT ![u] = k]
    PROVE  store' \in [Users -> 0 .. MaxKeys] /\ \A v \in Users : Sourced(v, store'[v])
  <1>1. store \in [Users -> 0 .. MaxKeys] /\ \A v \in Users : Sourced(v, store[v])
    BY DEF IInv, TypeOK, HeldSourced
  <1>2. store' \in [Users -> 0 .. MaxKeys]
    BY <1>1
  <1>3. ASSUME NEW v \in Users PROVE Sourced(v, store'[v])
    <2>1. CASE v = u
      BY <1>1, <2>1
    <2>2. CASE v # u
      BY <1>1, <2>2
    <2> QED BY <2>1, <2>2
  <1> QED BY <1>2, <1>3

\* What the other variables hold is sourced.
LEMMA SameHeld ==
    ASSUME IInv
    PROVE  /\ \A u \in Users : /\ Sourced(u, store[u]) /\ Sourced(u, backup[u])
                               /\ store[u] \in 0 .. MaxKeys /\ backup[u] \in 0 .. MaxKeys
           /\ \A p \in puts : Sourced(p.user, p.key) /\ p.user \in Users /\ p.key \in Keys
  BY DEF IInv, HeldSourced, TypeOK, Put

\* No key at all is anybody's.
LEMMA NoKeySourced == \A u : Sourced(u, NoKey)
  BY DEF Sourced

\* A task under way.
LEMMA Under ==
    ASSUME IInv, NEW t \in Tasks, task[t].pc # "idle"
    PROVE  /\ task[t] \in Task /\ task[t].user \in Users /\ task[t].key \in 0 .. MaxKeys
           /\ Sourced(task[t].user, task[t].key) /\ Sound(task[t])
  BY TaskTyped DEF IInv, TasksSound, Sound

-----------------------------------------------------------------------------
(* The start of a task *)

LEMMA StartSendStep ==
    ASSUME IInv, NEW t \in Tasks, NEW u \in Users, StartSend(t, u) PROVE IInv'
  <1> DEFINE rec == [Idle EXCEPT !.user = u]
  <1>1. rec \in Task /\ rec.user = u /\ rec.to = 0
    BY IdleTyped DEF Task
  <1>2. Go(t, Resolve(rec, store[u])) /\ task[t].pc # "post"
    BY DEF StartSend
  <1> HIDE DEF rec
  <1>3. Resolve(rec, store[u]) \in Task /\ Sound(Resolve(rec, store[u]))
    BY <1>1, ResolveSound, SameHeld
  <1>4. /\ task' \in [Tasks -> Task]
        /\ \A s \in Tasks : /\ task[s].pc = "post" => task'[s] = task[s]
                            /\ Sound(task'[s])
    BY <1>2, <1>3, TaskStep
  <1>5. TypeOK'
    BY <1>4 DEF IInv, TypeOK, StartSend
  <1> QED BY <1>4, <1>5, SameHeld, QuietStep DEF StartSend

\* The positions of the log are within the bound.
LEMMA PositionTyped ==
    ASSUME IInv, NEW i \in 1 .. Len(log)
    PROVE  i \in 0 .. MaxMessages + 1 /\ i \in 0 .. MaxMessages
  BY LogTyped, BoundAssumption DEF IInv

LEMMA IngestStep ==
    ASSUME IInv, NEW t \in Tasks, NEW u \in Users, NEW i \in 1 .. Len(log), Ingest(t, u, i)
    PROVE  IInv'
  <1> DEFINE rec == [Idle EXCEPT !.user = u, !.from = i, !.to = i]
  <1>1. i \in i .. Len(log) /\ i <= Len(log)
    BY LogTyped, BoundAssumption DEF IInv
  <1>2. rec \in Task /\ rec.user = u /\ rec.from = i /\ rec.to = i
    BY <1>1, PositionTyped, IdleTyped DEF Task
  <1>3. Go(t, Resolve(rec, store[u])) /\ task[t].pc # "post"
    BY DEF Ingest
  <1> HIDE DEF rec
  <1>4. Resolve(rec, store[u]) \in Task /\ Sound(Resolve(rec, store[u]))
    BY <1>1, <1>2, ResolveSound, SameHeld
  <1>5. /\ task' \in [Tasks -> Task]
        /\ \A s \in Tasks : /\ task[s].pc = "post" => task'[s] = task[s]
                            /\ Sound(task'[s])
    BY <1>3, <1>4, TaskStep
  <1>6. TypeOK'
    BY <1>5 DEF IInv, TypeOK, Ingest
  <1> QED BY <1>5, <1>6, SameHeld, QuietStep DEF Ingest

\* A log that is not empty has a first and a last message.
LEMMA EndsOfLog ==
    ASSUME IInv, log # << >>
    PROVE  1 \in 1 .. Len(log) /\ Len(log) \in 1 .. Len(log) /\ Len(log) \in Len(log) .. Len(log)
  <1>1. log \in Seq(Message)
    BY DEF IInv, TypeOK
  <1>2. Len(log) \in Nat /\ Len(log) # 0
    BY <1>1
  <1> QED BY <1>2

LEMMA SeedPreviewStep ==
    ASSUME IInv, NEW t \in Tasks, NEW u \in Users, SeedPreview(t, u) PROVE IInv'
  <1> DEFINE rec == [Idle EXCEPT !.user = u, !.from = Len(log), !.to = Len(log)]
  <1>1. Len(log) \in 1 .. Len(log) /\ Len(log) \in Len(log) .. Len(log)
    BY EndsOfLog DEF SeedPreview
  <1>2. rec \in Task /\ rec.user = u /\ rec.from = Len(log) /\ rec.to = Len(log)
    BY <1>1, PositionTyped, IdleTyped DEF Task
  <1>3. Go(t, Resolve(rec, store[u])) /\ task[t].pc # "post"
    BY DEF SeedPreview
  <1> HIDE DEF rec
  <1>4. Resolve(rec, store[u]) \in Task /\ Sound(Resolve(rec, store[u]))
    BY <1>1, <1>2, ResolveSound, SameHeld
  <1>5. /\ task' \in [Tasks -> Task]
        /\ \A s \in Tasks : /\ task[s].pc = "post" => task'[s] = task[s]
                            /\ Sound(task'[s])
    BY <1>3, <1>4, TaskStep
  <1>6. TypeOK'
    BY <1>5 DEF IInv, TypeOK, SeedPreview
  <1> QED BY <1>5, <1>6, SameHeld, QuietStep DEF SeedPreview

LEMMA SelectConversationStep ==
    ASSUME IInv, NEW t \in Tasks, NEW u \in Users, SelectConversation(t, u) PROVE IInv'
  <1> DEFINE rec == [Idle EXCEPT !.user = u, !.from = 1, !.to = Len(log)]
             next == Onward(rec, cached[u], store[u])
  <1>1. 1 \in 1 .. Len(log) /\ Len(log) \in 1 .. Len(log)
    BY EndsOfLog DEF SelectConversation
  <1>2. rec \in Task /\ rec.user = u /\ rec.from = 1 /\ rec.to = Len(log)
    BY <1>1, PositionTyped, IdleTyped DEF Task
  <1>3. Go(t, next) /\ task[t].pc # "post"
    BY DEF SelectConversation
  <1> HIDE DEF rec
  <1>4. next \in Task /\ Sound(next)
    BY <1>1, <1>2, OnwardSound, SameHeld
  <1> HIDE DEF next
  <1>5. /\ task' \in [Tasks -> Task]
        /\ \A s \in Tasks : /\ task[s].pc = "post" => task'[s] = task[s]
                            /\ Sound(task'[s])
    BY <1>3, <1>4, TaskStep
  <1>6. TypeOK'
    BY <1>5 DEF IInv, TypeOK, SelectConversation
  <1> QED BY <1>5, <1>6, SameHeld, QuietStep DEF SelectConversation

-----------------------------------------------------------------------------
(* The key is recovered, or not *)

LEMMA RecoveredStep == ASSUME IInv, NEW t \in Tasks, Recovered(t) PROVE IInv'
  <1> DEFINE u == task[t].user
             rec == [task[t] EXCEPT !.pc = "ready", !.key = backup[u]]
  <1>1. task[t].pc # "idle" /\ task[t].pc # "post" /\ Go(t, rec)
    BY DEF Recovered
  <1>2. /\ task[t] \in Task /\ u \in Users /\ backup[u] \in 0 .. MaxKeys
        /\ Sourced(u, backup[u]) /\ Sound(task[t])
    BY <1>1, Under, SameHeld
  <1>3. rec \in Task /\ rec.pc = "ready" /\ rec.key = backup[u] /\ rec.user = u
        /\ rec.to = task[t].to /\ rec.from = task[t].from
    BY <1>2 DEF Task
  <1> HIDE DEF rec
  <1>4. Sound(rec)
    BY <1>1, <1>2, <1>3 DEF Sound
  <1>5. /\ task' \in [Tasks -> Task]
        /\ \A s \in Tasks : /\ task[s].pc = "post" => task'[s] = task[s]
                            /\ Sound(task'[s])
    BY <1>1, <1>3, <1>4, TaskStep
  <1>6. store' \in [Users -> 0 .. MaxKeys] /\ \A v \in Users : Sourced(v, store'[v])
    BY <1>2, StoreStep DEF Recovered, SetKey
  <1>7. TypeOK'
    BY <1>5, <1>6 DEF IInv, TypeOK, Recovered
  <1> QED BY <1>5, <1>6, <1>7, SameHeld, QuietStep DEF Recovered

LEMMA NothingRecoveredStep == ASSUME IInv, NEW t \in Tasks, NothingRecovered(t) PROVE IInv'
  <1> DEFINE rec == [task[t] EXCEPT !.pc = "ready"]
  <1>1. task[t].pc # "idle" /\ task[t].pc # "post" /\ Go(t, rec)
    BY DEF NothingRecovered
  <1>2. task[t] \in Task /\ Sound(task[t])
    BY <1>1, Under
  <1>3. rec \in Task /\ rec.pc = "ready" /\ rec.key = task[t].key /\ rec.user = task[t].user
        /\ rec.to = task[t].to /\ rec.from = task[t].from
    BY <1>2 DEF Task
  <1> HIDE DEF rec
  <1>4. Sound(rec)
    BY <1>1, <1>2, <1>3 DEF Sound
  <1>5. /\ task' \in [Tasks -> Task]
        /\ \A s \in Tasks : /\ task[s].pc = "post" => task'[s] = task[s]
                            /\ Sound(task'[s])
    BY <1>1, <1>3, <1>4, TaskStep
  <1>6. TypeOK'
    BY <1>5 DEF IInv, TypeOK, NothingRecovered
  <1> QED BY <1>5, <1>6, SameHeld, QuietStep DEF NothingRecovered

LEMMA NoPeerKeysStep == ASSUME IInv, NEW t \in Tasks, NoPeerKeys(t) PROVE IInv'
  <1>1. task[t].pc # "post" /\ Go(t, Idle) /\ Sound(Idle)
    BY IdleTyped DEF NoPeerKeys, Sending, Sound
  <1>2. /\ task' \in [Tasks -> Task]
        /\ \A s \in Tasks : /\ task[s].pc = "post" => task'[s] = task[s]
                            /\ Sound(task'[s])
    BY <1>1, IdleTyped, TaskStep
  <1>3. TypeOK'
    BY <1>2 DEF IInv, TypeOK, NoPeerKeys
  <1> QED BY <1>2, <1>3, SameHeld, QuietStep DEF NoPeerKeys

-----------------------------------------------------------------------------
(* Sending *)

LEMMA SealStep == ASSUME IInv, NEW t \in Tasks, Seal(t) PROVE IInv'
  <1> DEFINE u == task[t].user
  <1>1. task[t].pc = "ready" /\ task[t].to = 0
    BY DEF Seal, Sending
  <1>2. /\ task[t] \in Task /\ u \in Users /\ task[t].key \in 0 .. MaxKeys
        /\ Sourced(u, task[t].key) /\ Sound(task[t])
    BY <1>1, Under
  <1>3. CASE task[t].key # NoKey
    <2> DEFINE rec == [task[t] EXCEPT !.pc = "post", !.key = task[t].key, !.keying = Keying(t)]
    <2>1. Go(t, rec) /\ UNCHANGED <<owner, puts>> /\ store' = [store EXCEPT ![u] = task[t].key]
      BY <1>3 DEF Seal
    <2>2. rec \in Task /\ rec.key = task[t].key /\ rec.user = u /\ rec.pc = "post"
      BY <1>2 DEF Task, Keying
    <2> HIDE DEF rec
    <2>3. Sound(rec)
      BY <1>2, <1>3, <2>2 DEF Sound
    <2>4. /\ task' \in [Tasks -> Task]
          /\ \A s \in Tasks : /\ task[s].pc = "post" => task'[s] = task[s]
                              /\ Sound(task'[s])
      BY <1>1, <2>1, <2>2, <2>3, TaskStep
    <2>5. store' \in [Users -> 0 .. MaxKeys] /\ \A v \in Users : Sourced(v, store'[v])
      BY <1>2, <2>1, StoreStep
    <2>6. TypeOK'
      BY <2>1, <2>4, <2>5 DEF IInv, TypeOK, Seal
    <2> QED BY <2>1, <2>4, <2>5, <2>6, SameHeld, QuietStep DEF Seal
  <1>4. CASE task[t].key = NoKey
    <2>0. PICK w \in Users, key \in Keys : w = u /\ key = Len(owner) + 1
      BY <1>2, <1>4, LogTyped, BoundAssumption DEF Seal, IInv, Keys
    <2> DEFINE rec == [task[t] EXCEPT !.pc = "post", !.key = key, !.keying = Keying(t)]
               put == [user |-> w, key |-> key]
    <2>1. /\ Go(t, rec) /\ owner' = Append(owner, w) /\ puts' = puts \cup {put}
          /\ Len(owner) < MaxKeys /\ UNCHANGED <<log, backup, cached, lost, events>>
          /\ store' = IF store[w] = NoKey THEN [store EXCEPT ![w] = key] ELSE store
      BY <1>4, <2>0 DEF Seal
    <2>2. key = Len(owner) + 1 /\ Len(owner) \in Nat /\ owner \in Seq(Users) /\ key # NoKey
      BY <2>0, LogTyped, BoundAssumption DEF IInv, TypeOK, Keys, NoKey
    <2>3. /\ Len(owner') = key /\ owner' \in Seq(Users) /\ owner'[key] = w
          /\ \A k \in 1 .. Len(owner) : owner'[k] = owner[k]
      BY <1>2, <2>1, <2>2
    <2>4. put \in Put /\ put.user = w /\ put.key = key
      BY <1>2, <2>2 DEF Put
    <2> HIDE DEF put
    <2>5. rec \in Task /\ rec.key = key /\ rec.user = w /\ rec.pc = "post" /\ rec.keying
      <3>1. Keying(t) = TRUE
        BY <1>4 DEF Keying
      <3>2. key \in 0 .. MaxKeys
        BY BoundAssumption DEF Keys
      <3> QED BY <1>2, <2>0, <3>1, <3>2 DEF Task
    <2> HIDE DEF rec
    <2>6. task \in [Tasks -> Task]
      BY TaskTyped DEF IInv
    <2>7. /\ task' \in [Tasks -> Task] /\ task'[t] = rec
          /\ \A s \in Tasks \ {t} : task'[s] = task[s]
      BY <2>1, <2>5, <2>6 DEF Go
    <2>8. store' \in [Users -> 0 .. MaxKeys] /\ \A v \in Users : store'[v] = store[v]
                                                                \/ (v = w /\ store'[v] = key)
      <3>1. store \in [Users -> 0 .. MaxKeys] /\ key \in 0 .. MaxKeys
        BY <2>2 DEF IInv, TypeOK, Keys
      <3> QED BY <2>1, <3>1
    <2>9. TypeOK'
      <3>1. Len(owner') <= MaxKeys
        BY <2>2, <2>3 DEF Keys
      <3>2. puts' \in SUBSET Put
        BY <2>1, <2>4 DEF IInv, TypeOK
      <3> QED BY <2>1, <2>3, <2>7, <2>8, <3>1, <3>2 DEF IInv, TypeOK
    <2>10. Announced \subseteq Announced'
      BY <1>1, <2>1, <2>7, StaysAnnounced
    <2>11. key \in Announced'
      BY <2>5, <2>7 DEF Announced
    <2>12. Sourced(w, key)'
      <3>1. key \in 1 .. Len(owner')
        BY <2>2, <2>3
      <3> QED BY <2>3, <2>11, <3>1 DEF Sourced
    <2>13. /\ \A v, k : Sourced(v, k) => Sourced(v, k)'
           /\ \A r \in Task : Sound(r) => Sound(r)'
      <3>1. Len(owner') \in Nat /\ Len(owner) <= Len(owner')
        BY <2>2, <2>3
      <3>2. Len(log') \in Nat /\ Len(log) <= Len(log')
        BY <2>1, LogTyped, BoundAssumption DEF IInv
      <3> QED BY <2>1, <2>3, <2>10, <3>1, <3>2, StaysSourced
    <2>14. TasksSound'
      <3> SUFFICES ASSUME NEW s \in Tasks PROVE Sound(task[s])'
        BY DEF TasksSound
      <3>1. CASE s = t
        <4>1. Sourced(task[t].user, task[t].key)'
          BY <2>5, <2>7, <2>12 DEF Sourced
        <4> QED BY <1>2, <2>2, <2>5, <2>7, <3>1, <4>1 DEF Sound
      <3>2. CASE s # t
        <4>1. Sound(task[s]) /\ task[s] \in Task /\ task'[s] = task[s]
          BY <2>7, <3>2, TaskTyped DEF IInv, TasksSound
        <4>2. PICK r \in Task : r = task[s] /\ Sound(r)'
          BY <2>13, <4>1
        <4> QED BY <4>1, <4>2 DEF Sound
      <3> QED BY <3>1, <3>2
    <2>15. HeldSourced'
      <3>1. ASSUME NEW v \in Users PROVE Sourced(v, store[v])' /\ Sourced(v, backup[v])'
        <4>1. Sourced(v, store[v]) /\ Sourced(v, backup[v])
          BY SameHeld
        <4>2. PICK k, b : k = store[v] /\ b = backup[v] /\ Sourced(v, k)' /\ Sourced(v, b)'
          BY <2>13, <4>1
        <4>3. Sourced(v, backup[v])'
          BY <2>1, <4>2 DEF Sourced
        <4>4. Sourced(v, store[v])'
          BY <2>8, <2>12, <4>2 DEF Sourced
        <4> QED BY <4>3, <4>4
      <3>2. \A p \in puts' : Sourced(p.user, p.key)'
        <4> TAKE p \in puts'
        <4>1. CASE p = put
          BY <2>4, <2>12, <4>1
        <4>2. CASE p \in puts
          BY <2>13, <4>2, SameHeld
        <4> QED BY <2>1, <4>1, <4>2
      <3> QED BY <3>1, <3>2 DEF HeldSourced
    <2>16. LogSourced'
      <3>1. 1 .. Len(owner) \subseteq 1 .. Len(owner')
        BY <2>2, <2>3
      <3> QED BY <2>1, <3>1 DEF IInv, LogSourced
    <2>17. KeysAreAnnounced'
      BY <2>1, <2>10 DEF IInv, KeysAreAnnounced
    <2> QED BY <2>9, <2>14, <2>15, <2>16, <2>17 DEF IInv
  <1> QED BY <1>3, <1>4

LEMMA PostStep == ASSUME IInv, NEW t \in Tasks, Post(t) PROVE IInv'
  <1> DEFINE u == task[t].user
             m == [sender |-> u, key |-> task[t].key, keying |-> task[t].keying]
  <1>1. /\ task[t] \in Task /\ u \in Users /\ task[t].key \in 0 .. MaxKeys
        /\ Sourced(u, task[t].key) /\ task[t].key # NoKey /\ task[t].keying \in BOOLEAN
    BY Under, TaskTyped DEF Post, Sound, IInv
  <1>2. m \in Message /\ m.key = task[t].key /\ m.keying = task[t].keying
    BY <1>1 DEF Message, Keys, NoKey
  <1>3. log' = Append(log, m) /\ Len(log) < MaxMessages
    BY DEF Post
  <1> HIDE DEF m
  <1>4. log \in Seq(Message) /\ Len(log) \in Nat
    BY DEF IInv, TypeOK
  <1>5. /\ log' \in Seq(Message) /\ Len(log') = Len(log) + 1 /\ log'[Len(log) + 1] = m
        /\ \A i \in 1 .. Len(log) : log'[i] = log[i]
    BY <1>2, <1>3, <1>4
  <1>6. /\ task' \in [Tasks -> Task] /\ task'[t] = Idle
        /\ \A s \in Tasks \ {t} : task'[s] = task[s]
    BY IdleTyped DEF Post, Go, IInv, TypeOK
  <1>7. TypeOK'
    <2>1. Len(log') <= MaxMessages
      BY <1>3, <1>4, <1>5, BoundAssumption
    <2>2. Len(log) + 1 \in Positions
      BY <1>3, <1>4, BoundAssumption DEF Positions
    <2>3. cached' \in [Users -> SUBSET Positions]
      BY <2>2 DEF Post, IInv, TypeOK
    <2> QED BY <1>5, <1>6, <2>1, <2>3 DEF IInv, TypeOK, Post
  <1>8. Announced \subseteq Announced'
    <2> SUFFICES ASSUME NEW k \in Announced PROVE k \in Announced'
      OBVIOUS
    <2>1. CASE k \in lost
      BY <2>1 DEF Announced, Post
    <2>2. CASE \E i \in 1 .. Len(log) : log[i].keying /\ log[i].key = k
      <3>1. PICK i \in 1 .. Len(log') : log'[i].keying /\ log'[i].key = k
        BY <1>4, <1>5, <2>2
      <3> QED BY <3>1 DEF Announced
    <2>3. CASE \E s \in Tasks : task[s].pc = "post" /\ task[s].keying /\ task[s].key = k
      <3>1. PICK s \in Tasks : task[s].pc = "post" /\ task[s].keying /\ task[s].key = k
        BY <2>3
      <3>2. CASE s = t
        <4>1. Len(log') \in 1 .. Len(log') /\ log'[Len(log')].keying /\ log'[Len(log')].key = k
          BY <1>2, <1>4, <1>5, <3>1, <3>2
        <4> QED BY <4>1 DEF Announced
      <3>3. CASE s # t
        BY <1>6, <3>1, <3>3 DEF Announced
      <3> QED BY <3>2, <3>3
    <2> QED BY <2>1, <2>2, <2>3 DEF Announced
  <1>9. \A s \in Tasks : Sound(task'[s])
    BY <1>6, IdleTyped DEF IInv, TasksSound, Sound
  <1>10. \A i \in 1 .. Len(log') :
            i \in 1 .. Len(log) \/ (log'[i].key \in 1 .. Len(owner) /\ log'[i].key \in Announced)
    <2>1. m.key \in 1 .. Len(owner) /\ m.key \in Announced
      BY <1>1, <1>2 DEF Sourced
    <2> QED BY <1>4, <1>5, <2>1
  <1>11. Len(log') \in Nat /\ Len(log) <= Len(log')
    BY <1>4, <1>5
  <1> QED BY <1>5, <1>7, <1>8, <1>9, <1>10, <1>11, SameHeld, CarryStep DEF Post

LEMMA PostFailsStep == ASSUME IInv, NEW t \in Tasks, PostFails(t) PROVE IInv'
  <1>1. /\ task[t].pc = "post" /\ task[t] \in Task /\ task[t].key \in Keys
    BY Under, BoundAssumption DEF PostFails, Sound, Keys, NoKey
  <1>2. /\ task' \in [Tasks -> Task] /\ task'[t] = Idle
        /\ \A s \in Tasks \ {t} : task'[s] = task[s]
    BY IdleTyped DEF PostFails, Go, IInv, TypeOK
  <1>3. TypeOK'
    BY <1>1, <1>2 DEF IInv, TypeOK, PostFails
  <1>4. Announced \subseteq Announced'
    <2> SUFFICES ASSUME NEW k \in Announced PROVE k \in Announced'
      OBVIOUS
    <2>1. CASE k \in lost \/ \E i \in 1 .. Len(log) : log[i].keying /\ log[i].key = k
      BY <2>1 DEF Announced, PostFails
    <2>2. CASE \E s \in Tasks : task[s].pc = "post" /\ task[s].keying /\ task[s].key = k
      <3>1. PICK s \in Tasks : task[s].pc = "post" /\ task[s].keying /\ task[s].key = k
        BY <2>2
      <3>2. CASE s = t
        BY <3>1, <3>2 DEF Announced, PostFails
      <3>3. CASE s # t
        BY <1>2, <3>1, <3>3 DEF Announced
      <3> QED BY <3>2, <3>3
    <2> QED BY <2>1, <2>2 DEF Announced
  <1>5. \A s \in Tasks : Sound(task'[s])
    BY <1>2, IdleTyped DEF IInv, TasksSound, Sound
  <1>6. Len(log) \in Nat
    BY LogTyped, BoundAssumption DEF IInv
  <1> QED BY <1>3, <1>4, <1>5, <1>6, SameHeld, CarryStep DEF PostFails

-----------------------------------------------------------------------------
(* Opening *)

\* What Onward makes of the task that has opened its message.
LEMMA PassedSound ==
    ASSUME IInv, NEW t \in Tasks, Opening(t), NEW seen, NEW local \in 0 .. MaxKeys,
           Sourced(task[t].user, local), Go(t, Onward(Passed(t), seen, local))
    PROVE  /\ task' \in [Tasks -> Task]
           /\ \A s \in Tasks : /\ task[s].pc = "post" => task'[s] = task[s]
                               /\ Sound(task'[s])
  <1> DEFINE next == Onward(Passed(t), seen, local)
  <1>1. task[t].pc = "ready" /\ task[t].to # 0
    BY DEF Opening
  <1>2. /\ task[t] \in Task /\ task[t].user \in Users
        /\ task[t].from \in 1 .. Len(log) /\ task[t].to <= Len(log)
    BY <1>1, Under DEF Sound
  <1>3. task[t].from + 1 \in 0 .. MaxMessages + 1 /\ task[t].from + 1 # 0
    BY <1>2, LogTyped, BoundAssumption DEF IInv
  <1>4. /\ Passed(t) \in Task /\ Passed(t).user = task[t].user
        /\ Passed(t).from = task[t].from + 1 /\ Passed(t).to = task[t].to
    BY <1>2, <1>3 DEF Passed, Task
  <1>5. next \in Task /\ Sound(next)
    BY <1>2, <1>3, <1>4, OnwardSound
  <1> HIDE DEF next
  <1>6. Go(t, next)
    BY DEF next
  <1> QED BY <1>1, <1>5, <1>6, TaskStep

\* A task that opens has a user, a key or none, and a message.
LEMMA OpeningTyped ==
    ASSUME IInv, NEW t \in Tasks, Opening(t)
    PROVE  /\ task[t].user \in Users /\ task[t].key \in 0 .. MaxKeys
           /\ Sourced(task[t].user, task[t].key) /\ task[t].from \in 1 .. Len(log)
           /\ task[t].from \in Positions /\ Opened(t) = log[task[t].from]
           /\ Opened(t).key \in Keys
  <1>1. /\ task[t].user \in Users /\ task[t].key \in 0 .. MaxKeys
        /\ Sourced(task[t].user, task[t].key) /\ task[t].from \in 1 .. Len(log)
    BY Under DEF Opening, Sound
  <1> QED BY <1>1, LogTyped, BoundAssumption DEF IInv, Opened, Positions

LEMMA OpenOwnStep == ASSUME IInv, NEW t \in Tasks, OpenOwn(t) PROVE IInv'
  <1> DEFINE u == task[t].user
             seen == IF task[t].key = Opened(t).key THEN cached[u] \cup {task[t].from}
                     ELSE cached[u]
  <1>1. Opening(t) /\ Go(t, Onward(Passed(t), seen, store[u])) /\ cached' = [cached EXCEPT ![u] = seen]
    BY DEF OpenOwn
  <1>2. seen \in SUBSET Positions
    BY <1>1, OpeningTyped DEF IInv, TypeOK
  <1> HIDE DEF seen
  <1>3. /\ task' \in [Tasks -> Task]
        /\ \A s \in Tasks : /\ task[s].pc = "post" => task'[s] = task[s]
                            /\ Sound(task'[s])
    BY <1>1, OpeningTyped, SameHeld, PassedSound
  <1>4. TypeOK'
    BY <1>1, <1>2, <1>3 DEF IInv, TypeOK, OpenOwn
  <1> QED BY <1>3, <1>4, SameHeld, QuietStep DEF OpenOwn

LEMMA OpenKeyingStep == ASSUME IInv, NEW t \in Tasks, OpenKeying(t) PROVE IInv'
  <1> DEFINE u == task[t].user
             m == Opened(t)
             put == [user |-> u, key |-> m.key]
  <1>1. /\ Opening(t) /\ Go(t, Onward(Passed(t), cached'[u], store'[u]))
        /\ store' = [store EXCEPT ![u] = m.key] /\ puts' = puts \cup {put}
        /\ cached' = [cached EXCEPT ![u] = @ \cup {task[t].from}]
        /\ m.sender # u /\ m.keying
    BY DEF OpenKeying, SetKey
  <1>2. /\ u \in Users /\ m.key \in Keys /\ m.key \in 0 .. MaxKeys
        /\ task[t].from \in 1 .. Len(log) /\ task[t].from \in Positions /\ m = log[task[t].from]
    BY <1>1, OpeningTyped, BoundAssumption DEF Keys
  <1>3. Sourced(u, m.key)
    <2>1. m.key \in 1 .. Len(owner) /\ m.key \in Announced
      BY <1>2 DEF IInv, LogSourced, KeysAreAnnounced
    <2> HIDE DEF m
    <2> QED BY <1>1, <1>2, <2>1 DEF Sourced
  <1>4. store' \in [Users -> 0 .. MaxKeys] /\ \A v \in Users : Sourced(v, store'[v])
    BY <1>1, <1>2, <1>3, StoreStep
  <1>5. /\ task' \in [Tasks -> Task]
        /\ \A s \in Tasks : /\ task[s].pc = "post" => task'[s] = task[s]
                            /\ Sound(task'[s])
    <2>1. PICK seen \in {cached'[u]}, local \in 0 .. MaxKeys : local = store'[u]
      BY <1>2, <1>4
    <2>2. Sourced(u, local) /\ Go(t, Onward(Passed(t), seen, local))
      BY <1>1, <1>2, <1>4, <2>1
    <2> QED BY <1>1, <2>2, PassedSound
  <1>6. put \in Put /\ put.user = u /\ put.key = m.key
    BY <1>2 DEF Put
  <1>7. TypeOK'
    <2>1. cached' \in [Users -> SUBSET Positions]
      BY <1>1, <1>2 DEF IInv, TypeOK
    <2>2. puts' \in SUBSET Put
      BY <1>1, <1>6 DEF IInv, TypeOK
    <2> QED BY <1>4, <1>5, <2>1, <2>2 DEF IInv, TypeOK, OpenKeying
  <1>8. \A p \in puts' : Sourced(p.user, p.key)
    BY <1>1, <1>3, <1>6, SameHeld
  <1> QED BY <1>4, <1>5, <1>7, <1>8, SameHeld, QuietStep DEF OpenKeying

LEMMA OpenOtherStep == ASSUME IInv, NEW t \in Tasks, OpenOther(t) PROVE IInv'
  <1> DEFINE u == task[t].user
  <1>1. /\ Opening(t) /\ Go(t, Onward(Passed(t), cached'[u], store'[u]))
        /\ store' = [store EXCEPT ![u] = task[t].key]
        /\ cached' = [cached EXCEPT ![u] = @ \cup {task[t].from}]
    BY DEF OpenOther, SetKey
  <1>2. /\ u \in Users /\ task[t].key \in 0 .. MaxKeys /\ Sourced(u, task[t].key)
        /\ task[t].from \in Positions
    BY <1>1, OpeningTyped
  <1>3. store' \in [Users -> 0 .. MaxKeys] /\ \A v \in Users : Sourced(v, store'[v])
    BY <1>1, <1>2, StoreStep
  <1>4. /\ task' \in [Tasks -> Task]
        /\ \A s \in Tasks : /\ task[s].pc = "post" => task'[s] = task[s]
                            /\ Sound(task'[s])
    <2>1. PICK seen \in {cached'[u]}, local \in 0 .. MaxKeys : local = store'[u]
      BY <1>2, <1>3
    <2>2. Sourced(u, local) /\ Go(t, Onward(Passed(t), seen, local))
      BY <1>1, <1>2, <1>3, <2>1
    <2> QED BY <1>1, <2>2, PassedSound
  <1>5. TypeOK'
    <2>1. cached' \in [Users -> SUBSET Positions]
      BY <1>1, <1>2 DEF IInv, TypeOK
    <2> QED BY <1>3, <1>4, <2>1 DEF IInv, TypeOK, OpenOther
  <1> QED BY <1>3, <1>4, <1>5, SameHeld, QuietStep DEF OpenOther

LEMMA OpenFailsStep == ASSUME IInv, NEW t \in Tasks, OpenFails(t) PROVE IInv'
  <1> DEFINE u == task[t].user
  <1>1. Opening(t) /\ Go(t, Onward(Passed(t), cached[u], store[u]))
    BY DEF OpenFails
  <1>2. /\ task' \in [Tasks -> Task]
        /\ \A s \in Tasks : /\ task[s].pc = "post" => task'[s] = task[s]
                            /\ Sound(task'[s])
    BY <1>1, OpeningTyped, SameHeld, PassedSound
  <1>3. TypeOK'
    BY <1>1, <1>2 DEF IInv, TypeOK, OpenFails
  <1> QED BY <1>2, <1>3, SameHeld, QuietStep DEF OpenFails

-----------------------------------------------------------------------------
(* The backup and the browser's storage *)

LEMMA WriteBackupStep == ASSUME IInv, NEW p \in puts, WriteBackup(p) PROVE IInv'
  <1>1. backup' = [backup EXCEPT ![p.user] = p.key] /\ puts' \subseteq puts
    BY DEF WriteBackup
  <1>2. p.user \in Users /\ p.key \in 0 .. MaxKeys /\ Sourced(p.user, p.key)
    BY SameHeld, BoundAssumption DEF Keys
  <1>3. backup' \in [Users -> 0 .. MaxKeys]
    BY <1>1, <1>2 DEF IInv, TypeOK
  <1>4. ASSUME NEW v \in Users PROVE Sourced(v, backup'[v])
    <2>1. CASE v = p.user
      BY <1>1, <1>2, <2>1 DEF IInv, TypeOK
    <2>2. CASE v # p.user
      BY <1>1, <2>2, SameHeld DEF IInv, TypeOK
    <2> QED BY <2>1, <2>2
  <1>5. TypeOK'
    BY <1>1, <1>3 DEF IInv, TypeOK, WriteBackup
  <1> QED BY <1>1, <1>4, <1>5, SameHeld, QuietStep DEF WriteBackup, IInv, TasksSound

LEMMA PutFailsStep == ASSUME IInv, NEW p \in puts, PutFails(p) PROVE IInv'
  <1>1. TypeOK'
    BY DEF IInv, TypeOK, PutFails
  <1> QED BY <1>1, SameHeld, QuietStep DEF PutFails, IInv, TasksSound

LEMMA LoadPageStep == ASSUME IInv, NEW u \in Users, LoadPage(u) PROVE IInv'
  <1>1. \A t \in Tasks : /\ task'[t] \in {Idle, task[t]}
                         /\ task[t].pc = "post" => task'[t] = task[t]
    BY DEF LoadPage
  <1>2. \A t \in Tasks : Sound(task'[t]) /\ task'[t] \in Task
    <2>1. Sound(Idle)
      BY IdleTyped DEF Sound
    <2> QED BY <1>1, <2>1, IdleTyped, TaskTyped DEF IInv, TasksSound
  <1>3. TypeOK'
    <2>1. task' \in [Tasks -> Task]
      BY <1>2 DEF LoadPage
    <2>2. events' \in 0 .. MaxEvents
      BY BoundAssumption DEF LoadPage, IInv, TypeOK
    <2>3. cached' \in [Users -> SUBSET Positions]
      BY DEF LoadPage, IInv, TypeOK
    <2> QED BY <2>1, <2>2, <2>3 DEF IInv, TypeOK, LoadPage
  <1> QED BY <1>1, <1>2, <1>3, SameHeld, QuietStep DEF LoadPage

LEMMA ClearStorageStep == ASSUME IInv, NEW u \in Users, ClearStorage(u) PROVE IInv'
  <1>1. store' = [store EXCEPT ![u] = NoKey] /\ NoKey \in 0 .. MaxKeys /\ Sourced(u, NoKey)
    BY BoundAssumption, NoKeySourced DEF ClearStorage, SetKey, NoKey
  <1>2. store' \in [Users -> 0 .. MaxKeys] /\ \A v \in Users : Sourced(v, store'[v])
    BY <1>1, StoreStep
  <1>3. TypeOK'
    <2>1. events' \in 0 .. MaxEvents
      BY BoundAssumption DEF ClearStorage, IInv, TypeOK
    <2> QED BY <1>2, <2>1 DEF IInv, TypeOK, ClearStorage
  <1> QED BY <1>2, <1>3, SameHeld, QuietStep DEF ClearStorage, IInv, TasksSound

-----------------------------------------------------------------------------
(* The theorems *)

LEMMA InitIInv == Init => IInv
  <1> SUFFICES ASSUME Init PROVE IInv
    OBVIOUS
  <1>1. log = << >> /\ owner = << >> /\ puts = {} /\ Len(log) = 0 /\ Len(owner) = 0
    BY DEF Init
  <1>2. TypeOK
    BY <1>1, IdleTyped, BoundAssumption DEF Init, TypeOK, NoKey
  <1>3. TasksSound
    BY IdleTyped DEF Init, TasksSound, Sound
  <1>4. HeldSourced
    BY <1>1, NoKeySourced DEF Init, HeldSourced
  <1>5. LogSourced /\ KeysAreAnnounced
    BY <1>1 DEF LogSourced, KeysAreAnnounced
  <1> QED BY <1>2, <1>3, <1>4, <1>5 DEF IInv

LEMMA StutterStep == ASSUME IInv, UNCHANGED vars PROVE IInv'
  <1>1. TypeOK'
    BY DEF IInv, TypeOK, vars
  <1> QED BY <1>1, SameHeld, QuietStep DEF vars, IInv, TasksSound

LEMMA NextIInv == IInv /\ [Next]_vars => IInv'
  <1> SUFFICES ASSUME IInv, [Next]_vars PROVE IInv'
    OBVIOUS
  <1>1. CASE \E t \in Tasks, u \in Users : \/ StartSend(t, u) \/ SeedPreview(t, u)
                                           \/ SelectConversation(t, u)
                                           \/ \E i \in 1 .. Len(log) : Ingest(t, u, i)
    BY <1>1, StartSendStep, SeedPreviewStep, SelectConversationStep, IngestStep
  <1>2. CASE \E t \in Tasks : \/ Recovered(t) \/ NothingRecovered(t) \/ NoPeerKeys(t)
                              \/ Seal(t) \/ Post(t) \/ PostFails(t)
    BY <1>2, RecoveredStep, NothingRecoveredStep, NoPeerKeysStep, SealStep, PostStep,
       PostFailsStep
  <1>3. CASE \E t \in Tasks : OpenOwn(t) \/ OpenKeying(t) \/ OpenOther(t) \/ OpenFails(t)
    BY <1>3, OpenOwnStep, OpenKeyingStep, OpenOtherStep, OpenFailsStep
  <1>4. CASE \E p \in puts : WriteBackup(p) \/ PutFails(p)
    BY <1>4, WriteBackupStep, PutFailsStep
  <1>5. CASE \E u \in Users : LoadPage(u) \/ ClearStorage(u)
    BY <1>5, LoadPageStep, ClearStorageStep
  <1>6. CASE UNCHANGED vars
    BY <1>6, StutterStep
  <1> QED BY <1>1, <1>2, <1>3, <1>4, <1>5, <1>6 DEF Next

\* The inductive invariant holds in every reachable state.
THEOREM InductiveInvariant == Spec => []IInv
  <1> QED BY InitIInv, NextIInv, PTL DEF Spec

\* Every variable keeps its type.
THEOREM TypeCorrect == Spec => []TypeOK
  <1>1. IInv => TypeOK
    BY DEF IInv
  <1> QED BY <1>1, InductiveInvariant, PTL

\* However the tasks of a page overlap (sendOutgoing, openIncomingForConversation), no
\* message is sealed under a key that no keying message has carried to the peer, or would
\* have.
THEOREM NoKeyIsUnannounced == Spec => []KeysAreAnnounced
  <1>1. IInv => KeysAreAnnounced
    BY DEF IInv
  <1> QED BY <1>1, InductiveInvariant, PTL

\* A browser's storage and a user's backup (conversation_key_backup_service.py) hold keys
\* of that user or of messages to that user only.
THEOREM HeldKeysHaveASource == Spec => []KeysHaveASource
  <1>1. IInv => KeysHaveASource
    BY DEF IInv, HeldSourced, Sourced, KeysHaveASource
  <1> QED BY <1>1, InductiveInvariant, PTL
=============================================================================
