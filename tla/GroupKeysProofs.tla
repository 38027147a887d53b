-------------------------- MODULE GroupKeysProofs ---------------------------
(***************************************************************************)
(* Proofs about GroupKeys, for any set of users and any bounds: what each  *)
(* client's store holds is coherent, nobody comes by a key of the time     *)
(* before joining, and the group that the clients see implements           *)
(* MemberLife, as Conversations does.                                      *)
(***************************************************************************)
EXTENDS GroupKeys, WellFoundedInduction, TLAPS

-----------------------------------------------------------------------------
(* The inductive invariant *)

Joined == {u \in Users : joined[u] # Never}

\* The tasks that have drawn a key, which they are going to store and post.
Sends(u) == task[u].pc \in {"set", "set_first", "send", "send_first"}

\* Somebody takes k for the key of epoch e, or will.
Sighted(k, e) ==
    \/ \E u \in Users : epochKey[u][e] = k
    \/ \E i \in 1 .. Len(log) : log[i].key = k /\ log[i].epoch = e
    \/ \E u \in Users : Sends(u) /\ task[u].key = k /\ task[u].epoch = e

\* The number of an epoch is fixed when its key is drawn.
KeyHasEpoch ==
    /\ \A k \in Keys, e \in Epochs : Sighted(k, e) => k <= drawn /\ e <= drawn
    /\ \A k \in Keys, e, f \in Epochs : Sighted(k, e) /\ Sighted(k, f) => e = f

TaskShape ==
    \A u \in Users :
        /\ task[u].base <= drawn
        /\ Sends(u) => task[u].epoch \in Epochs /\ task[u].key \in Keys

\* u has k, or has a wrap of it, or is about to get one.
HasOrGets(u, k) ==
    \/ \E e \in Epochs : epochKey[u][e] = k
    \/ \E i \in 1 .. Len(log) : log[i].kind = "keys" /\ log[i].key = k
                                /\ (log[i].by = u \/ u \in log[i].to)
    \/ \E v \in Users : Sends(v) /\ task[v].key = k /\ (v = u \/ u \in task[v].to)

\* k can never be used: only the creator has it, who is not in the group (yet, or any more).
Stuck(k) ==
    /\ Admin \notin members
    /\ \A u \in Users, e \in Epochs : epochKey[u][e] = k => u = Admin
    /\ \A i \in 1 .. Len(log) : log[i].key # k
    /\ \A u \in Users : Sends(u) /\ task[u].key = k => u = Admin

\* Nothing was sealed under a key of u before u joined.
SealedLater(u, k) ==
    /\ u \in Joined
    /\ \A i \in 1 .. Len(log) : log[i].kind = "chat" /\ log[i].key = k => joined[u] < i

KeysComeLater == \A u \in Users, k \in Keys : HasOrGets(u, k) => SealedLater(u, k) \/ Stuck(k)

\* Before the group is committed: its creator is on the way to the first distribution.
Before ==
    joined[Admin] = Never =>
        /\ members = {} /\ Joined = {} /\ Len(log) = 0
        /\ \A u \in Users :
              /\ task[u].pc \in {"idle", "wrap_first", "set_first", "send_first", "undo"}
              /\ task[u].pc # "idle" => u = Admin /\ writes # {}
        /\ \A u \in Users, k \in Keys : HasOrGets(u, k) => writes # {}
        /\ \A w \in writes :
              /\ writes = {w} /\ w.op = "create" /\ Admin \in w.users
              /\ \A u \in Users : task[u].pc # "idle" => task[u].to \subseteq w.users
              /\ \A u \in Users, k \in Keys : HasOrGets(u, k) => u \in w.users

\* Afterwards: a creator that leaves does not come back.
After ==
    joined[Admin] # Never =>
        \A w \in writes : w.op # "create" /\ (w.op = "add" => Admin \notin w.users)

\* Whom a task will wrap for has joined, unless it is the task of a creator who left.
TaskOf(u) ==
    /\ task[u].pc = "added" => u = Admin /\ (view[u] = {} => u \notin members)
    /\ task[u].pc \in {"added", "removed"} => u \in Joined
    /\ task[u].pc \in {"wrap", "wrap_first", "set_first", "send_first"} =>
          \/ u \in Joined /\ task[u].to \subseteq Joined
          \/ u = Admin /\ u \notin members

MembersJoined ==
    /\ members \subseteq Joined
    /\ \A u \in Users : joined[u] <= Len(log)
    /\ \A u \in Users : view[u] \subseteq Joined /\ (view[u] # {} => u \in Joined)
    /\ \A u \in Users : TaskOf(u)

IInv == TypeOK /\ CurrentIsNewestHeld /\ KeyHasEpoch /\ TaskShape
        /\ KeysComeLater /\ Before /\ After /\ MembersJoined

-----------------------------------------------------------------------------
(* Helpers *)

\* Max of a bounded set of numbers is its largest member.
LEMMA MaxOfSet ==
    ASSUME NEW n \in Nat, NEW S \in SUBSET (0 .. n), S # {}
    PROVE  Max(S) \in S /\ \A s \in S : s <= Max(S)
  <1> DEFINE T == {n - s : s \in S}
  <1>1. T \subseteq Nat /\ T # {}
    <2>1. \A s \in S : n - s \in Nat
      OBVIOUS
    <2>2. PICK s \in S : TRUE
      OBVIOUS
    <2>3. n - s \in T
      OBVIOUS
    <2> QED BY <2>1, <2>3
  <1>2. PICK t \in T : \A y \in T : <<y, t>> \notin OpToRel(<, Nat)
    <2> HIDE DEF T
    <2> QED BY <1>1, NatLessThanWellFounded, WFMin
  <1>3. \A y \in T : t <= y
    <2> HIDE DEF T
    <2> TAKE y \in T
    <2>1. y \in Nat /\ t \in Nat
      BY <1>1
    <2>2. <<y, t>> \notin {ss \in Nat \X Nat : ss[1] < ss[2]}
      BY <1>2 DEF OpToRel
    <2> QED BY <2>1, <2>2
  <1>4. PICK m \in S : t = n - m
    OBVIOUS
  <1>5. \A s \in S : m >= s
    <2> TAKE s \in S
    <2>1. n - s \in T
      OBVIOUS
    <2> QED BY <1>3, <1>4, <2>1
  <1>6. \E x \in S : \A y \in S : x >= y
    BY <1>5
  <1>7. Max(S) \in S /\ \A y \in S : Max(S) >= y
    <2> HIDE DEF T
    <2> QED BY <1>6, Zenon DEF Max
  <1> QED BY <1>7

LEMMA NoTaskTyped == NoTask \in Task /\ NoTask.pc = "idle" /\ NoTask.to = {} /\ NoTask.base = NoBase
  BY AdminAssumption, BoundAssumption DEF NoTask, Task, NoBase, NoKey

LEMMA InitIInv == Init => IInv
  <1> SUFFICES ASSUME Init PROVE IInv
    OBVIOUS
  <1>1. \A u \in Users : task[u] = NoTask /\ view[u] = {} /\ joined[u] = Never
                        /\ current[u] = 0 /\ \A e \in Epochs : epochKey[u][e] = NoKey
    BY DEF Init
  <1>2. log = <<>> /\ Len(log) = 0 /\ drawn = 0 /\ members = {} /\ writes = {}
    BY DEF Init
  <1>3. TypeOK
    <2>1. joined \in [Users -> Never .. MaxLog] /\ current \in [Users -> 0 .. MaxKeys]
      BY BoundAssumption DEF Init, Never
    <2>2. log \in Seq(Message) /\ Len(log) <= MaxLog
      BY <1>2, BoundAssumption
    <2>3. task \in [Users -> Task]
      BY NoTaskTyped DEF Init
    <2> QED BY <1>2, <2>1, <2>2, <2>3, BoundAssumption DEF Init, TypeOK
  <1>4. CurrentIsNewestHeld
    BY <1>1 DEF CurrentIsNewestHeld
  <1>5. /\ \A k \in Keys, e \in Epochs : ~Sighted(k, e)
        /\ \A u \in Users, k \in Keys : ~HasOrGets(u, k)
    BY <1>1, <1>2, NoTaskTyped DEF Sighted, HasOrGets, Sends, Keys, NoKey
  <1>6. TaskShape
    BY <1>1, <1>2, NoTaskTyped DEF TaskShape, Sends, NoBase
  <1>7. Before /\ After
    <2>1. joined[Admin] = Never /\ Joined = {}
      BY <1>1, AdminAssumption DEF Joined
    <2>2. \A u \in Users : task[u].pc = "idle"
      BY <1>1, NoTaskTyped
    <2> QED BY <1>2, <1>5, <2>1, <2>2 DEF Before, After
  <1>8. MembersJoined
    BY <1>1, <1>2, NoTaskTyped DEF MembersJoined, TaskOf, Never
  <1>9. KeyHasEpoch /\ KeysComeLater
    BY <1>5 DEF KeyHasEpoch, KeysComeLater
  <1> QED BY <1>3, <1>4, <1>6, <1>7, <1>8, <1>9 DEF IInv

\* Without a new message or key, what is held and sent on was there before.
LEMMA SameLog ==
    ASSUME IInv, UNCHANGED <<members, joined, log, drawn>>,
           \A u \in Users, e \in Epochs :
              \/ epochKey'[u][e] \in {NoKey, epochKey[u][e]}
              \/ \E i \in 1 .. Len(log) : /\ Wrapped(u, i)
                                          /\ epochKey'[u][e] = log[i].key /\ e = log[i].epoch,
           \A u \in Users : task'[u].base <= drawn /\ (Sends(u)' => task'[u] = task[u])
    PROVE  /\ KeyHasEpoch' /\ TaskShape' /\ KeysComeLater'
           /\ \A u \in Users, k \in Keys : HasOrGets(u, k)' => HasOrGets(u, k)
  <1>1. \A u \in Users, k \in Keys, e \in Epochs : epochKey'[u][e] = k =>
           \/ epochKey[u][e] = k
           \/ \E i \in 1 .. Len(log) : Wrapped(u, i) /\ log[i].key = k /\ e = log[i].epoch
    BY DEF Keys, NoKey
  <1>2. \A u \in Users : Sends(u)' => Sends(u) /\ task'[u] = task[u]
    BY DEF Sends
  <1>3. \A k \in Keys, e \in Epochs : Sighted(k, e)' => Sighted(k, e)
    BY <1>1, <1>2 DEF Sighted
  <1>4. \A u \in Users, k \in Keys : HasOrGets(u, k)' => HasOrGets(u, k)
    BY <1>1, <1>2 DEF HasOrGets, Wrapped
  <1>5. \A k \in Keys : Stuck(k) => Stuck(k)'
    BY <1>1, <1>2 DEF Stuck
  <1>6. \A u \in Users, k \in Keys : SealedLater(u, k) => SealedLater(u, k)'
    BY DEF SealedLater, Joined
  <1>7. KeyHasEpoch'
    BY <1>3 DEF IInv, KeyHasEpoch
  <1>8. TaskShape'
    BY <1>2 DEF IInv, TaskShape
  <1>9. KeysComeLater'
    BY <1>4, <1>5, <1>6 DEF IInv, KeysComeLater
  <1> QED BY <1>4, <1>7, <1>8, <1>9

\* groupKeyStore.setKey keeps the pointer at the newest epoch.
LEMMA SetKeyAgrees ==
    ASSUME IInv, NEW u \in Users, NEW e \in Epochs, NEW k \in Keys, SetKey(u, e, k)
    PROVE  /\ epochKey' \in [Users -> [Epochs -> Keys \cup {NoKey}]]
           /\ current' \in [Users -> 0 .. MaxKeys]
           /\ CurrentIsNewestHeld'
           /\ epochKey'[u][e] = k
           /\ \A v \in Users, f \in Epochs : <<v, f>> # <<u, e>> => epochKey'[v][f] = epochKey[v][f]
  <1>1. /\ epochKey \in [Users -> [Epochs -> Keys \cup {NoKey}]]
        /\ current \in [Users -> 0 .. MaxKeys]
    BY DEF IInv, TypeOK
  <1>2. epochKey' \in [Users -> [Epochs -> Keys \cup {NoKey}]]
    BY <1>1 DEF SetKey
  <1>3. /\ epochKey'[u][e] = k
        /\ \A v \in Users, f \in Epochs : <<v, f>> # <<u, e>> => epochKey'[v][f] = epochKey[v][f]
    BY <1>1 DEF SetKey
  <1>4. /\ current'[u] \in {current[u], e} /\ current'[u] >= current[u] /\ current'[u] >= e
        /\ \A v \in Users \ {u} : current'[v] = current[v]
    BY <1>1, BoundAssumption DEF SetKey, Larger, Epochs
  <1>5. current' \in [Users -> 0 .. MaxKeys]
    <2>1. Larger(current[u], e) \in 0 .. MaxKeys
      BY <1>1, BoundAssumption DEF Larger, Epochs
    <2> QED BY <1>1, <2>1 DEF SetKey
  <1>6. CurrentIsNewestHeld'
    <2> SUFFICES ASSUME NEW v \in Users
                 PROVE  /\ current'[v] # 0 => epochKey'[v][current'[v]] # NoKey
                        /\ \A f \in Epochs : epochKey'[v][f] # NoKey => f <= current'[v]
      BY DEF CurrentIsNewestHeld
    <2>1. /\ current[v] # 0 => epochKey[v][current[v]] # NoKey
          /\ \A f \in Epochs : epochKey[v][f] # NoKey => f <= current[v]
      BY DEF IInv, CurrentIsNewestHeld
    <2>2. current[v] # 0 => current[v] \in Epochs
      BY <1>1, BoundAssumption DEF Epochs
    <2>3. k # NoKey
      BY DEF Keys, NoKey
    <2>4. CASE v = u
      <3>1. current'[v] # 0 => epochKey'[v][current'[v]] # NoKey
        BY <1>3, <1>4, <2>1, <2>2, <2>3, <2>4
      <3>2. ASSUME NEW f \in Epochs, epochKey'[v][f] # NoKey PROVE f <= current'[v]
        <4>1. current'[u] \in Int /\ current[u] \in Int /\ f \in Int
          BY <1>1, <1>5 DEF Epochs
        <4>2. f = e \/ f <= current[u]
          BY <1>3, <2>1, <2>4, <3>2
        <4> QED BY <1>4, <2>4, <4>1, <4>2
      <3> QED BY <3>1, <3>2
    <2>5. CASE v # u
      BY <1>3, <1>4, <2>1, <2>2, <2>5
    <2> QED BY <2>4, <2>5
  <1> QED BY <1>2, <1>3, <1>5, <1>6

\* What a client does with wraps it is given, with its list and when it gives a task up.
LEMMA StoreStep ==
    ASSUME IInv, NEW u \in Users, NEW listed \in {Listed(u), view[u], {}},
           UNCHANGED <<members, joined, log, writes, drawn>>,
           view' = [view EXCEPT ![u] = listed],
           task' = task \/ task' = [task EXCEPT ![u] = NoTask],
           listed = {} => task'[u] = NoTask \/ view[u] = {} \/ u \notin members,
           changes' \in 0 .. MaxChanges,
           epochKey' \in [Users -> [Epochs -> Keys \cup {NoKey}]],
           current' \in [Users -> 0 .. MaxKeys],
           CurrentIsNewestHeld',
           \A v \in Users, e \in Epochs :
              \/ epochKey'[v][e] \in {NoKey, epochKey[v][e]}
              \/ \E i \in 1 .. Len(log) : /\ Wrapped(v, i)
                                          /\ epochKey'[v][e] = log[i].key /\ e = log[i].epoch
    PROVE  IInv'
  <1>1. /\ task \in [Users -> Task] /\ view \in [Users -> SUBSET Users]
        /\ members \in SUBSET Users
    BY DEF IInv, TypeOK
  <1>2. \A v \in Users : task'[v] = task[v] \/ (v = u /\ task'[v] = NoTask)
    BY <1>1
  <1>3. task' \in [Users -> Task]
    BY <1>1, NoTaskTyped
  <1>4. view'[u] = listed /\ \A v \in Users \ {u} : view'[v] = view[v]
    BY <1>1
  <1>5. view' \in [Users -> SUBSET Users]
    BY <1>1 DEF Listed
  <1>6. TypeOK'
    BY <1>3, <1>5 DEF IInv, TypeOK
  <1>7. \A v \in Users : task'[v].base <= drawn /\ (Sends(v)' => task'[v] = task[v])
    <2>1. drawn \in Nat /\ \A v \in Users : task[v].base <= drawn
      BY DEF IInv, TypeOK, TaskShape
    <2> QED BY <1>2, <2>1, NoTaskTyped DEF NoBase, Sends
  <1>8. /\ KeyHasEpoch' /\ TaskShape' /\ KeysComeLater'
        /\ \A v \in Users, k \in Keys : HasOrGets(v, k)' => HasOrGets(v, k)
    BY <1>7, SameLog
  <1>9. Before'
    BY <1>2, <1>8, NoTaskTyped DEF IInv, Before, Joined
  <1>10. After'
    BY DEF IInv, After
  <1>11. MembersJoined'
    <2>1. Joined' = Joined
      BY DEF Joined
    <2>2. listed \subseteq Joined /\ (listed # {} => u \in Joined)
      BY DEF IInv, MembersJoined, Listed
    <2>3. \A v \in Users : TaskOf(v)'
      <3> TAKE v \in Users
      <3>1. CASE task'[v] = NoTask
        BY <3>1, NoTaskTyped DEF TaskOf
      <3>2. CASE task'[v] = task[v] /\ v = u
        BY <1>4, <2>1, <3>2, NoTaskTyped DEF IInv, MembersJoined, TaskOf
      <3>3. CASE task'[v] = task[v] /\ v # u
        BY <1>4, <2>1, <3>3 DEF IInv, MembersJoined, TaskOf
      <3> QED BY <1>2, <3>1, <3>2, <3>3
    <2> QED BY <1>4, <2>1, <2>2, <2>3 DEF IInv, MembersJoined
  <1> QED BY <1>6, <1>8, <1>9, <1>10, <1>11 DEF IInv

-----------------------------------------------------------------------------
(* The steps that absorb or forget keys *)

LEMMA LogTyped == ASSUME IInv PROVE Len(log) \in Nat /\ \A i \in 1 .. Len(log) : log[i] \in Message
  BY DEF IInv, TypeOK

\* Storing the key of a wrap that is addressed to u.
LEMMA AbsorbWrap ==
    ASSUME IInv, NEW u \in Users, NEW i \in 1 .. Len(log), Wrapped(u, i),
           SetKey(u, log[i].epoch, log[i].key)
    PROVE  /\ epochKey' \in [Users -> [Epochs -> Keys \cup {NoKey}]]
           /\ current' \in [Users -> 0 .. MaxKeys]
           /\ CurrentIsNewestHeld'
           /\ \A v \in Users, e \in Epochs :
                 \/ epochKey'[v][e] \in {NoKey, epochKey[v][e]}
                 \/ \E j \in 1 .. Len(log) : /\ Wrapped(v, j)
                                             /\ epochKey'[v][e] = log[j].key /\ e = log[j].epoch
  <1>1. log[i].epoch \in Epochs /\ log[i].key \in Keys
    BY LogTyped DEF Message
  <1> QED BY <1>1, SetKeyAgrees

LEMMA StoreTyped ==
    ASSUME IInv
    PROVE  /\ epochKey \in [Users -> [Epochs -> Keys \cup {NoKey}]]
           /\ current \in [Users -> 0 .. MaxKeys]
           /\ view \in [Users -> SUBSET Users]
           /\ changes \in 0 .. MaxChanges
           /\ CurrentIsNewestHeld
  BY DEF IInv, TypeOK

LEMMA SameStore ==
    ASSUME IInv, UNCHANGED store
    PROVE  /\ epochKey' \in [Users -> [Epochs -> Keys \cup {NoKey}]]
           /\ current' \in [Users -> 0 .. MaxKeys]
           /\ CurrentIsNewestHeld'
           /\ \A v \in Users, e \in Epochs : epochKey'[v][e] \in {NoKey, epochKey[v][e]}
  BY StoreTyped DEF store, CurrentIsNewestHeld

LEMMA IngestStep ==
    ASSUME IInv, NEW u \in Users, NEW i \in 1 .. MaxLog, Ingest(u, i) PROVE IInv'
  <1>1. PICK listed \in IF view[u] = {} THEN Refreshed(u) ELSE {view[u]} :
          /\ view' = [view EXCEPT ![u] = listed]
          /\ IF listed # {} /\ Wrapped(u, i)
             THEN SetKey(u, log[i].epoch, log[i].key) ELSE UNCHANGED store
    BY DEF Ingest
  <1>2. listed \in {Listed(u), view[u], {}} /\ (listed = {} => view[u] = {} \/ u \notin members)
    BY DEF Refreshed, Listed
  <1>3. i \in 1 .. Len(log) /\ UNCHANGED <<members, joined, log, writes, drawn, task, changes>>
    BY DEF Ingest, server
  <1>4. CASE SetKey(u, log[i].epoch, log[i].key) /\ Wrapped(u, i)
    BY <1>1, <1>2, <1>3, <1>4, AbsorbWrap, StoreTyped, StoreStep
  <1>5. CASE UNCHANGED store
    BY <1>1, <1>2, <1>3, <1>5, SameStore, StoreTyped, StoreStep
  <1> QED BY <1>1, <1>4, <1>5

LEMMA MembershipChangedStep == ASSUME IInv, NEW u \in Users, MembershipChanged(u) PROVE IInv'
  <1>1. PICK listed \in Refreshed(u) :
          /\ view' = [view EXCEPT ![u] = listed]
          /\ IF listed = {} THEN ClearKeys(u) ELSE UNCHANGED store
    BY DEF MembershipChanged
  <1>2. listed \in {Listed(u), view[u], {}} /\ (listed = {} => view[u] = {} \/ u \notin members)
    BY <1>1 DEF Refreshed, Listed
  <1>3. UNCHANGED <<members, joined, log, writes, drawn, task, changes>>
    BY DEF MembershipChanged, server
  <1>4. CASE ClearKeys(u)
    <2>1. /\ epochKey'[u] = [e \in Epochs |-> IF e <= current[u] THEN NoKey ELSE epochKey[u][e]]
          /\ current'[u] = 0
          /\ \A v \in Users \ {u} : epochKey'[v] = epochKey[v] /\ current'[v] = current[v]
      BY <1>4, StoreTyped DEF ClearKeys
    <2>2. /\ epochKey' \in [Users -> [Epochs -> Keys \cup {NoKey}]]
          /\ current' \in [Users -> 0 .. MaxKeys]
      BY <1>4, StoreTyped, BoundAssumption DEF ClearKeys
    <2>3. \A v \in Users, e \in Epochs : epochKey'[v][e] \in {NoKey, epochKey[v][e]}
      BY <2>1
    <2>4. CurrentIsNewestHeld'
      BY <2>1, StoreTyped DEF CurrentIsNewestHeld
    <2> QED BY <1>1, <1>2, <1>3, <2>2, <2>3, <2>4, StoreTyped, StoreStep
  <1>5. CASE UNCHANGED store
    BY <1>1, <1>2, <1>3, <1>5, SameStore, StoreTyped, StoreStep
  <1> QED BY <1>1, <1>4, <1>5

LEMMA BootstrapStep == ASSUME IInv, NEW u \in Users, Bootstrap(u) PROVE IInv'
  <1>1. PICK listed \in {Listed(u), {}} :
          /\ view' = [view EXCEPT ![u] = listed]
          /\ \/ UNCHANGED store
             \/ /\ listed # {} /\ log # <<>> /\ Wrapped(u, Len(log))
                /\ SetKey(u, log[Len(log)].epoch, log[Len(log)].key)
    BY DEF Bootstrap
  <1>2. /\ UNCHANGED <<members, joined, log, writes, drawn>>
        /\ task' = [task EXCEPT ![u] = NoTask] /\ task \in [Users -> Task]
        /\ changes' \in 0 .. MaxChanges
    BY BoundAssumption DEF Bootstrap, server, Begin, SetTask, IInv, TypeOK
  <1>3. task'[u] = NoTask
    BY <1>2
  <1>4. CASE UNCHANGED store
    BY <1>1, <1>2, <1>3, <1>4, SameStore, StoreStep
  <1>5. CASE /\ log # <<>> /\ Wrapped(u, Len(log))
             /\ SetKey(u, log[Len(log)].epoch, log[Len(log)].key)
    <2>1. Len(log) \in 1 .. Len(log)
      BY <1>5 DEF IInv, TypeOK
    <2> HIDE DEF Bootstrap
    <2> QED BY <1>1, <1>2, <1>3, <1>5, <2>1, AbsorbWrap, StoreStep
  <1> QED BY <1>1, <1>4, <1>5

LEMMA OpenStep == ASSUME IInv, NEW u \in Users, Open(u) PROVE IInv'
  <1> DEFINE of(e) == {i \in History(u) : log[i].epoch = e}
             epochs == {log[i].epoch : i \in History(u)} \cup {current[u]}
  <1>1. /\ epochKey' = [epochKey EXCEPT ![u] =
              [e \in Epochs |-> IF of(e) # {} THEN log[Max(of(e))].key ELSE epochKey[u][e]]]
        /\ current' = [current EXCEPT ![u] = Max(epochs)]
        /\ view[u] # {} /\ UNCHANGED <<members, joined, log, writes, drawn, task, changes, view>>
    BY StoreTyped DEF Open, server
  <1>2. Len(log) \in Nat /\ joined[u] \in Nat
    <2>1. u \in Joined /\ joined[u] \in Never .. MaxLog
      BY DEF Open, IInv, MembersJoined, TypeOK
    <2> QED BY <2>1, LogTyped, BoundAssumption DEF Joined, Never
  <1>3. History(u) \subseteq 1 .. Len(log) /\ \A i \in History(u) : Wrapped(u, i)
    BY <1>2 DEF History
  <1>4. \A i \in History(u) : log[i].epoch \in Epochs /\ log[i].key \in Keys
    BY <1>3, LogTyped DEF Message
  <1>5. \A e \in Epochs : of(e) # {} => Max(of(e)) \in of(e)
    <2> SUFFICES ASSUME NEW e \in Epochs, of(e) # {} PROVE Max(of(e)) \in of(e)
      OBVIOUS
    <2>1. of(e) \in SUBSET (0 .. Len(log))
      BY <1>2, <1>3
    <2> HIDE DEF of
    <2> QED BY <1>2, <2>1, MaxOfSet
  <1>6. Max(epochs) \in epochs /\ \A e \in epochs : e <= Max(epochs)
    <2>1. epochs \in SUBSET (0 .. MaxKeys) /\ epochs # {}
      BY <1>4, StoreTyped, BoundAssumption DEF Epochs
    <2> HIDE DEF epochs
    <2> QED BY <2>1, BoundAssumption, MaxOfSet
  <1>7. \A e \in Epochs : \/ epochKey'[u][e] = epochKey[u][e] /\ of(e) = {}
                          \/ \E i \in History(u) : log[i].epoch = e /\ epochKey'[u][e] = log[i].key
    <2> SUFFICES ASSUME NEW e \in Epochs
                 PROVE  \/ epochKey'[u][e] = epochKey[u][e] /\ of(e) = {}
                        \/ \E i \in of(e) : epochKey'[u][e] = log[i].key
      OBVIOUS
    <2>1. epochKey'[u][e] = IF of(e) # {} THEN log[Max(of(e))].key ELSE epochKey[u][e]
      BY <1>1, StoreTyped
    <2> HIDE DEF of
    <2> QED BY <1>5, <2>1
  <1>8. \A v \in Users \ {u} : epochKey'[v] = epochKey[v] /\ current'[v] = current[v]
    BY <1>1, StoreTyped
  <1>9. current'[u] = Max(epochs)
    BY <1>1, StoreTyped
  <1>10. epochKey' \in [Users -> [Epochs -> Keys \cup {NoKey}]]
    <2>1. [e \in Epochs |-> IF of(e) # {} THEN log[Max(of(e))].key ELSE epochKey[u][e]]
            \in [Epochs -> Keys \cup {NoKey}]
      <3>1. \A e \in Epochs : of(e) # {} => log[Max(of(e))].key \in Keys
        BY <1>4, <1>5
      <3> HIDE DEF of
      <3> QED BY <3>1, StoreTyped
    <2> HIDE DEF of
    <2> QED BY <1>1, <2>1, StoreTyped
  <1>11. current' \in [Users -> 0 .. MaxKeys]
    <2>1. Max(epochs) \in 0 .. MaxKeys
      BY <1>4, <1>6, StoreTyped, BoundAssumption DEF Epochs
    <2> HIDE DEF epochs
    <2> QED BY <1>1, <2>1, StoreTyped
  <1>12. CurrentIsNewestHeld'
    <2> SUFFICES ASSUME NEW v \in Users
                 PROVE  /\ current'[v] # 0 => epochKey'[v][current'[v]] # NoKey
                        /\ \A e \in Epochs : epochKey'[v][e] # NoKey => e <= current'[v]
      BY DEF CurrentIsNewestHeld
    <2>1. CASE v # u
      BY <1>8, <2>1, StoreTyped DEF CurrentIsNewestHeld
    <2>2. CASE v = u
      <3>1. /\ current[u] # 0 => epochKey[u][current[u]] # NoKey
            /\ \A e \in Epochs : epochKey[u][e] # NoKey => e <= current[u]
        BY StoreTyped DEF CurrentIsNewestHeld
      <3>2. current[u] \in epochs /\ \A i \in History(u) : log[i].epoch \in epochs
        OBVIOUS
      <3>3. ASSUME current'[u] # 0 PROVE epochKey'[u][current'[u]] # NoKey
        <4>1. current'[u] \in Epochs
          BY <1>11, <3>3, BoundAssumption DEF Epochs
        <4>2. CASE of(current'[u]) # {}
          BY <1>4, <1>7, <4>1, <4>2 DEF Keys, NoKey
        <4>3. CASE of(current'[u]) = {}
          <5>1. current'[u] = current[u]
            BY <1>6, <1>9, <4>3
          <5> QED BY <1>4, <1>7, <3>1, <3>3, <4>1, <5>1 DEF Keys, NoKey
        <4> QED BY <4>2, <4>3
      <3>4. ASSUME NEW e \in Epochs, epochKey'[u][e] # NoKey PROVE e <= current'[u]
        <4>1. CASE epochKey'[u][e] = epochKey[u][e]
          <5>1. e <= current[u] /\ current[u] <= Max(epochs)
            BY <1>6, <3>1, <3>2, <3>4, <4>1
          <5>2. e \in Int /\ current[u] \in Int /\ current'[u] \in Int
            BY <1>11, StoreTyped DEF Epochs
          <5> QED BY <1>9, <5>1, <5>2
        <4>2. CASE \E i \in History(u) : log[i].epoch = e
          BY <1>6, <1>9, <3>2, <4>2
        <4> QED BY <1>7, <4>1, <4>2
      <3> QED BY <2>2, <3>3, <3>4
    <2> QED BY <2>1, <2>2
  <1>13. \A v \in Users, e \in Epochs :
            \/ epochKey'[v][e] \in {NoKey, epochKey[v][e]}
            \/ \E i \in 1 .. Len(log) : /\ Wrapped(v, i)
                                        /\ epochKey'[v][e] = log[i].key /\ e = log[i].epoch
    BY <1>3, <1>7, <1>8
  <1>14. view' = [view EXCEPT ![u] = view[u]]
    BY <1>1, StoreTyped
  <1> HIDE DEF of, epochs
  <1> QED BY <1>1, <1>10, <1>11, <1>12, <1>13, <1>14, StoreTyped, StoreStep

-----------------------------------------------------------------------------
(* The steps of tasks that hold no key *)

\* A client goes on to something that holds no key; members, log and stores are as before.
LEMMA TaskStep ==
    ASSUME IInv, NEW u \in Users, NEW rec \in Task, NEW listed \in {Listed(u), view[u]},
           UNCHANGED <<members, joined, log, drawn, epochKey, current>>,
           task' = [task EXCEPT ![u] = rec],
           view' = [view EXCEPT ![u] = listed],
           changes' \in 0 .. MaxChanges,
           writes' \in SUBSET Write,
           rec.pc \notin {"set", "set_first", "send", "send_first"}, rec.base <= drawn,
           TaskOf(u)', Before', After'
    PROVE  IInv'
  <1>1. task \in [Users -> Task] /\ view \in [Users -> SUBSET Users] /\ members \in SUBSET Users
    BY DEF IInv, TypeOK
  <1>2. task'[u] = rec /\ \A v \in Users \ {u} : task'[v] = task[v]
    BY <1>1
  <1>3. view'[u] = listed /\ \A v \in Users \ {u} : view'[v] = view[v]
    BY <1>1
  <1>4. TypeOK'
    <2>1. task' \in [Users -> Task] /\ view' \in [Users -> SUBSET Users]
      BY <1>1 DEF Listed
    <2> QED BY <2>1 DEF IInv, TypeOK
  <1>5. CurrentIsNewestHeld'
    BY DEF IInv, CurrentIsNewestHeld
  <1>6. KeyHasEpoch' /\ TaskShape' /\ KeysComeLater'
    <2>1. \A v \in Users : task'[v].base <= drawn /\ (Sends(v)' => task'[v] = task[v])
      BY <1>2 DEF IInv, TaskShape, Sends
    <2> QED BY <2>1, SameLog
  <1>7. MembersJoined'
    <2>1. Joined' = Joined
      BY DEF Joined
    <2>2. listed \subseteq Joined /\ (listed # {} => u \in Joined)
      BY DEF IInv, MembersJoined, Listed
    <2>3. \A v \in Users \ {u} : TaskOf(v)'
      BY <1>2, <1>3, <2>1 DEF IInv, MembersJoined, TaskOf
    <2> QED BY <1>3, <2>1, <2>2, <2>3 DEF IInv, MembersJoined
  <1> QED BY <1>4, <1>5, <1>6, <1>7 DEF IInv

\* After the group is committed, and without a new write, that is all.
LEMMA LaterTaskStep ==
    ASSUME IInv, NEW u \in Users, NEW rec \in Task, NEW listed \in {Listed(u), view[u]},
           UNCHANGED <<server, drawn, store>>,
           joined[Admin] # Never,
           task' = [task EXCEPT ![u] = rec],
           view' = [view EXCEPT ![u] = listed],
           changes' \in 0 .. MaxChanges,
           rec.pc \notin {"set", "set_first", "send", "send_first"}, rec.base <= drawn,
           TaskOf(u)'
    PROVE  IInv'
  <1>1. UNCHANGED <<members, joined, log, writes, drawn, epochKey, current>>
    BY DEF server, store
  <1>2. Before' /\ After'
    BY <1>1 DEF IInv, Before, After
  <1>3. writes' \in SUBSET Write
    BY <1>1 DEF IInv, TypeOK
  <1> QED BY <1>1, <1>2, <1>3, TaskStep

\* Before it is committed, nobody lists it.
LEMMA ListedAfter ==
    ASSUME IInv, NEW u \in Users, view[u] # {} \/ u \in members
    PROVE  joined[Admin] # Never /\ u \in Joined
  BY DEF IInv, Before, MembersJoined

LEMMA TaskTyped == ASSUME IInv, NEW u \in Users PROVE task[u] \in Task /\ task[u].base <= drawn
  BY DEF IInv, TypeOK, TaskShape

LEMMA BaseDrawn == ASSUME IInv PROVE drawn \in Nat /\ NoBase <= drawn
  BY DEF IInv, TypeOK, NoBase

LEMMA StartGroupStep == ASSUME IInv, NEW others \in SUBSET Users, StartGroup(others) PROVE IInv'
  <1> DEFINE rec == [NoTask EXCEPT !.pc = "wrap_first", !.to = others]
             w == [op |-> "create", users |-> others \cup {Admin}]
  <1>1. rec \in Task /\ rec.pc = "wrap_first" /\ rec.to = others /\ rec.base = NoBase
    BY NoTaskTyped DEF NoTask, Task
  <1>2. /\ task' = [task EXCEPT ![Admin] = rec] /\ writes' = {w} /\ writes = {}
        /\ joined[Admin] = Never
        /\ UNCHANGED <<members, joined, log, drawn, epochKey, current, view, changes>>
    BY DEF StartGroup, SetTask, store
  <1>3. w \in Write /\ w.op = "create" /\ w.users = others \cup {Admin}
    BY AdminAssumption DEF Write
  <1>4. /\ members = {} /\ Joined = {} /\ Len(log) = 0
        /\ \A u \in Users : task[u].pc = "idle"
        /\ \A u \in Users, k \in Keys : ~HasOrGets(u, k)
    BY <1>2 DEF IInv, Before
  <1>5. task'[Admin] = rec /\ \A v \in Users \ {Admin} : task'[v] = task[v]
    BY <1>2, AdminAssumption DEF IInv, TypeOK
  <1> HIDE DEF rec, w
  <1>6. Before'
    <2>1. \A u \in Users, k \in Keys : ~HasOrGets(u, k)'
      BY <1>1, <1>2, <1>4, <1>5 DEF HasOrGets, Sends
    <2>2. Joined' = {}
      BY <1>2, <1>4 DEF Joined
    <2>3. \A u \in Users : /\ task'[u].pc \in {"idle", "wrap_first"}
                           /\ task'[u].pc # "idle" => u = Admin /\ task'[u].to = others
      BY <1>1, <1>4, <1>5
    <2>4. members' = {} /\ Len(log') = 0 /\ writes' # {}
      BY <1>2, <1>4
    <2>5. ASSUME NEW x \in writes'
          PROVE  /\ writes' = {x} /\ x.op = "create" /\ Admin \in x.users
                 /\ \A u \in Users : task'[u].pc # "idle" => task'[u].to \subseteq x.users
      <3>1. x = w
        BY <1>2, <2>5
      <3>2. writes' = {x} /\ x.op = "create" /\ Admin \in x.users /\ others \subseteq x.users
        BY <1>2, <1>3, <3>1
      <3> QED BY <2>3, <3>2
    <2> QED BY <2>1, <2>2, <2>3, <2>4, <2>5 DEF Before
  <1>7. After'
    BY <1>2 DEF After
  <1>8. TaskOf(Admin)'
    BY <1>1, <1>2, <1>4, <1>5 DEF TaskOf
  <1>9. view' = [view EXCEPT ![Admin] = view[Admin]]
    BY <1>2, StoreTyped
  <1> QED BY <1>1, <1>2, <1>3, <1>6, <1>7, <1>8, <1>9, AdminAssumption, StoreTyped, BaseDrawn,
             TaskStep

LEMMA AddMemberStep ==
    ASSUME IInv, NEW u \in Users, NEW v \in Users, AddMember(u, v) PROVE IInv'
  <1> DEFINE rec == [NoTask EXCEPT !.pc = "added", !.user = v]
             w == [op |-> "add", users |-> {v}]
  <1>1. rec \in Task /\ rec.pc = "added" /\ rec.base = NoBase
    BY NoTaskTyped DEF NoTask, Task
  <1>2. /\ task' = [task EXCEPT ![u] = rec] /\ writes' = writes \cup {w}
        /\ u = Admin /\ u \in members /\ v # u /\ view[u] # {}
        /\ UNCHANGED <<members, joined, log, drawn, epochKey, current, view>>
        /\ changes' \in 0 .. MaxChanges
    BY BoundAssumption DEF AddMember, SetTask, store, Begin, IInv, TypeOK
  <1>3. w \in Write /\ w.op = "add" /\ w.users = {v}
    BY DEF Write
  <1>4. joined[Admin] # Never /\ u \in Joined
    BY <1>2, ListedAfter
  <1>5. task'[u] = rec
    BY <1>2 DEF IInv, TypeOK
  <1>6. view' = [view EXCEPT ![u] = view[u]]
    BY <1>2, StoreTyped
  <1> HIDE DEF rec, w
  <1>7. Before' /\ After'
    BY <1>2, <1>3, <1>4 DEF IInv, Before, After
  <1>8. TaskOf(u)'
    BY <1>1, <1>2, <1>4, <1>5 DEF TaskOf, Joined
  <1>9. writes' \in SUBSET Write
    BY <1>2, <1>3 DEF IInv, TypeOK
  <1> QED BY <1>1, <1>2, <1>6, <1>7, <1>8, <1>9, BaseDrawn, TaskStep

LEMMA RemoveMemberStep ==
    ASSUME IInv, NEW u \in Users, NEW v \in Users, RemoveMember(u, v) PROVE IInv'
  <1> DEFINE rec == [NoTask EXCEPT !.pc = "removed", !.user = v]
             w == [op |-> "remove", users |-> {v}]
  <1>1. rec \in Task /\ rec.pc = "removed" /\ rec.base = NoBase
    BY NoTaskTyped DEF NoTask, Task
  <1>2. /\ task' = [task EXCEPT ![u] = rec] /\ writes' = writes \cup {w}
        /\ u \in members /\ view[u] # {}
        /\ UNCHANGED <<members, joined, log, drawn, epochKey, current, view>>
        /\ changes' \in 0 .. MaxChanges
    BY BoundAssumption DEF RemoveMember, SetTask, store, Begin, IInv, TypeOK
  <1>3. w \in Write /\ w.op = "remove"
    BY DEF Write
  <1>4. joined[Admin] # Never /\ u \in Joined
    BY <1>2, ListedAfter
  <1>5. task'[u] = rec
    BY <1>2 DEF IInv, TypeOK
  <1>6. view' = [view EXCEPT ![u] = view[u]]
    BY <1>2, StoreTyped
  <1> HIDE DEF rec, w
  <1>7. Before' /\ After'
    BY <1>2, <1>3, <1>4 DEF IInv, Before, After
  <1>8. TaskOf(u)'
    BY <1>1, <1>2, <1>4, <1>5 DEF TaskOf, Joined
  <1>9. writes' \in SUBSET Write
    BY <1>2, <1>3 DEF IInv, TypeOK
  <1> QED BY <1>1, <1>2, <1>6, <1>7, <1>8, <1>9, BaseDrawn, TaskStep

\* Whatever a refresh answers, an empty list means that the client is not a member.
LEMMA RefreshedListed ==
    ASSUME IInv, NEW u \in Users, NEW listed \in Refreshed(u)
    PROVE  /\ listed \in {Listed(u), view[u]} /\ listed \subseteq Joined
           /\ listed = {} => view[u] = {} \/ u \notin members
  BY DEF Refreshed, Listed, IInv, MembersJoined

LEMMA RefreshAfterAddStep == ASSUME IInv, NEW u \in Users, RefreshAfterAdd(u) PROVE IInv'
  <1>1. PICK listed \in Refreshed(u) :
          /\ view' = [view EXCEPT ![u] = listed]
          /\ SetTask(u, [task[u] EXCEPT !.pc = "wrap",
                           !.to = IF listed = {} THEN {task[u].user} ELSE listed \ {u}])
    BY DEF RefreshAfterAdd
  <1> DEFINE to == IF listed = {} THEN {task[u].user} ELSE listed \ {u}
             rec == [task[u] EXCEPT !.pc = "wrap", !.to = to]
  <1>2. /\ u = Admin /\ (view[u] = {} => u \notin members) /\ u \in Joined
        /\ task[u].pc = "added"
    BY DEF RefreshAfterAdd, IInv, MembersJoined, TaskOf
  <1>3. /\ listed \in {Listed(u), view[u]} /\ listed \subseteq Joined
        /\ listed = {} => u \notin members
    BY <1>2, RefreshedListed
  <1>4. to \in SUBSET Users /\ (to \subseteq Joined \/ u \notin members)
    BY <1>3, TaskTyped DEF Joined, Task
  <1>5. rec \in Task /\ rec.pc = "wrap" /\ rec.base = task[u].base /\ rec.to = to
    <2>1. task[u] \in Task
      BY TaskTyped
    <2> HIDE DEF to
    <2> QED BY <1>4, <2>1 DEF Task
  <1>6. /\ task' = [task EXCEPT ![u] = rec]
        /\ UNCHANGED <<server, drawn, store, changes>>
    BY <1>1 DEF SetTask, RefreshAfterAdd
  <1> HIDE DEF to, rec
  <1>7. joined[Admin] # Never /\ rec.base <= drawn /\ changes' \in 0 .. MaxChanges
    BY <1>2, <1>5, <1>6, TaskTyped, StoreTyped DEF Joined
  <1>8. TaskOf(u)'
    <2>1. task'[u] = rec
      BY <1>6 DEF IInv, TypeOK
    <2> QED BY <1>2, <1>4, <1>5, <1>6, <2>1 DEF TaskOf, Joined, server
  <1> QED BY <1>1, <1>3, <1>5, <1>6, <1>7, <1>8, LaterTaskStep

LEMMA RefreshAfterRemoveStep == ASSUME IInv, NEW u \in Users, RefreshAfterRemove(u) PROVE IInv'
  <1>1. PICK listed \in Refreshed(u) :
          /\ view' = [view EXCEPT ![u] = listed]
          /\ SetTask(u, IF listed \ {u} = {} THEN NoTask
                        ELSE [task[u] EXCEPT !.pc = "wrap", !.to = listed \ {u}])
    BY DEF RefreshAfterRemove
  <1> DEFINE wrap == [task[u] EXCEPT !.pc = "wrap", !.to = listed \ {u}]
             rec == IF listed \ {u} = {} THEN NoTask ELSE wrap
  <1>2. task[u].pc = "removed" /\ u \in Joined
    BY DEF RefreshAfterRemove, IInv, MembersJoined, TaskOf
  <1>3. listed \in {Listed(u), view[u]} /\ listed \subseteq Joined
    BY RefreshedListed
  <1>4. wrap \in Task /\ wrap.pc = "wrap" /\ wrap.base = task[u].base /\ wrap.to = listed \ {u}
    <2>1. task[u] \in Task /\ listed \ {u} \in SUBSET Users
      BY <1>3, TaskTyped DEF Joined
    <2> QED BY <2>1 DEF Task
  <1>5. /\ rec \in Task /\ rec.pc \in {"idle", "wrap"} /\ rec.base <= drawn
        /\ rec.pc = "wrap" => rec.to \subseteq Joined
    <2> HIDE DEF wrap
    <2> QED BY <1>3, <1>4, NoTaskTyped, TaskTyped, BaseDrawn
  <1>6. /\ task' = [task EXCEPT ![u] = rec]
        /\ UNCHANGED <<server, drawn, store, changes>>
    BY <1>1 DEF SetTask, RefreshAfterRemove
  <1> HIDE DEF rec
  <1>7. joined[Admin] # Never /\ changes' \in 0 .. MaxChanges
    BY <1>2, <1>6, StoreTyped DEF IInv, Before
  <1>8. TaskOf(u)'
    <2>1. task'[u] = rec
      BY <1>6 DEF IInv, TypeOK
    <2> QED BY <1>2, <1>5, <1>6, <2>1 DEF TaskOf, Joined, server
  <1> QED BY <1>1, <1>3, <1>5, <1>6, <1>7, <1>8, LaterTaskStep

LEMMA RekeyStep == ASSUME IInv, NEW u \in Users, NEW e \in 0 .. MaxKeys, Rekey(u, e) PROVE IInv'
  <1> DEFINE base == Larger(current[u], e)
             rec == [NoTask EXCEPT !.pc = "wrap", !.to = view[u] \ {u}, !.base = base]
  <1>1. base \in 0 .. MaxKeys /\ base <= drawn
    <2>1. drawn \in Nat /\ current[u] \in 0 .. MaxKeys
      BY StoreTyped, BaseDrawn
    <2>2. current[u] <= drawn
      <3>1. CASE current[u] = 0
        BY <2>1, <3>1
      <3>2. CASE current[u] # 0
        <4>1. current[u] \in Epochs /\ epochKey[u][current[u]] \in Keys
          BY <2>1, <3>2, StoreTyped, BoundAssumption DEF Epochs, CurrentIsNewestHeld
        <4>2. Sighted(epochKey[u][current[u]], current[u])
          BY DEF Sighted
        <4> QED BY <4>1, <4>2 DEF IInv, KeyHasEpoch
      <3> QED BY <3>1, <3>2
    <2>3. e <= drawn
      <3>1. CASE e = 0
        BY <2>1, <3>1
      <3>2. CASE \E i \in 1 .. Len(log) : log[i].kind = "chat" /\ log[i].epoch = e
        <4>1. PICK i \in 1 .. Len(log) : log[i].epoch = e
          BY <3>2
        <4>2. log[i].epoch \in Epochs /\ log[i].key \in Keys /\ Sighted(log[i].key, log[i].epoch)
          BY LogTyped DEF Message, Sighted
        <4> QED BY <4>1, <4>2 DEF IInv, KeyHasEpoch
      <3> QED BY <3>1, <3>2 DEF Rekey
    <2> QED BY <2>1, <2>2, <2>3 DEF Larger
  <1>2. view[u] # {} /\ view[u] \subseteq Joined /\ u \in Joined /\ joined[Admin] # Never
    BY ListedAfter DEF Rekey, IInv, MembersJoined
  <1>3. rec \in Task /\ rec.pc = "wrap" /\ rec.base = base /\ rec.to = view[u] \ {u}
    <2>1. view[u] \ {u} \in SUBSET Users /\ base \in NoBase .. MaxKeys
      BY <1>1, StoreTyped, BoundAssumption DEF NoBase
    <2> HIDE DEF base
    <2> QED BY <2>1, NoTaskTyped DEF NoTask, Task
  <1>4. /\ task' = [task EXCEPT ![u] = rec]
        /\ UNCHANGED <<server, drawn, store, view>> /\ changes' \in 0 .. MaxChanges
    BY BoundAssumption DEF SetTask, Rekey, Begin, IInv, TypeOK
  <1> HIDE DEF rec, base
  <1>5. TaskOf(u)'
    <2>1. task'[u] = rec
      BY <1>4 DEF IInv, TypeOK
    <2> QED BY <1>2, <1>3, <1>4, <2>1 DEF TaskOf, Joined, server
  <1>6. view' = [view EXCEPT ![u] = view[u]]
    BY <1>4, StoreTyped
  <1> QED BY <1>1, <1>2, <1>3, <1>4, <1>5, <1>6, LaterTaskStep

\* What startGroup leaves undone is given up.
LEMMA GivenUp ==
    ASSUME IInv, NEW u \in Users, NEW rec \in {NoTask, [NoTask EXCEPT !.pc = "undo"]},
           UNCHANGED <<members, joined, log, drawn, store, view>>,
           changes' \in 0 .. MaxChanges,
           task' = [task EXCEPT ![u] = rec],
           task[u].pc # "idle",
           writes' \in SUBSET Write, writes # {} => writes' # {},
           \A w \in writes' \ writes : w.op = "remove" /\ u \in members
    PROVE  IInv'
  <1>1. /\ rec \in Task /\ rec.pc \in {"idle", "undo"} /\ rec.base = NoBase
        /\ rec.to = {}
    BY NoTaskTyped DEF NoTask, Task
  <1>2. /\ task'[u] = rec /\ \A v \in Users \ {u} : task'[v] = task[v]
        /\ UNCHANGED <<epochKey, current>>
    BY DEF store, IInv, TypeOK
  <1>3. CASE joined[Admin] = Never
    <2>1. writes' = writes /\ writes # {} /\ u = Admin
      <3>1. writes # {} /\ u = Admin /\ members = {} /\ \A w \in writes : writes = {w}
        BY <1>3 DEF IInv, Before
      <3>2. writes' \subseteq writes /\ writes' # {}
        BY <3>1
      <3> QED BY <3>1, <3>2
    <2>2. \A v \in Users, k \in Keys : HasOrGets(v, k)' => HasOrGets(v, k)
      BY <1>1, <1>2 DEF HasOrGets, Sends
    <2>3. Before'
      BY <1>1, <1>2, <2>1, <2>2 DEF IInv, Before, Joined
    <2>4. After'
      BY <1>3 DEF After
    <2>5. TaskOf(u)'
      BY <1>1, <1>2 DEF TaskOf
    <2>6. view' = [view EXCEPT ![u] = view[u]]
      BY StoreTyped
    <2> QED BY <1>1, <1>2, <2>3, <2>4, <2>5, <2>6, BaseDrawn, StoreTyped, TaskStep
  <1>4. CASE joined[Admin] # Never
    <2>1. Before' /\ After'
      BY <1>4 DEF IInv, Before, After
    <2>2. TaskOf(u)'
      BY <1>1, <1>2 DEF TaskOf
    <2>3. view' = [view EXCEPT ![u] = view[u]]
      BY StoreTyped
    <2> QED BY <1>1, <1>2, <2>1, <2>2, <2>3, BaseDrawn, StoreTyped, TaskStep
  <1> QED BY <1>3, <1>4

LEMMA FailStep == ASSUME IInv, NEW u \in Users, Fail(u) PROVE IInv'
  <1>1. PICK rec \in {NoTask, [NoTask EXCEPT !.pc = "undo"]} : task' = [task EXCEPT ![u] = rec]
    BY DEF Fail, SetTask
  <1>2. /\ UNCHANGED <<members, joined, log, writes, drawn, store, view>>
        /\ task[u].pc # "idle" /\ writes \in SUBSET Write /\ changes' \in 0 .. MaxChanges
    BY BoundAssumption DEF Fail, Begin, server, IInv, TypeOK
  <1> QED BY <1>1, <1>2, GivenUp

LEMMA UndoStep == ASSUME IInv, NEW u \in Users, Undo(u) PROVE IInv'
  <1> DEFINE w == [op |-> "remove", users |-> {u}]
  <1>1. w \in Write /\ w.op = "remove"
    BY DEF Write
  <1>2. /\ UNCHANGED <<members, joined, log, drawn, store, view, changes>>
        /\ task' = [task EXCEPT ![u] = NoTask] /\ task[u].pc # "idle"
        /\ writes' = IF u \in members THEN writes \cup {w} ELSE writes
        /\ writes \in SUBSET Write /\ changes' \in 0 .. MaxChanges
    BY DEF Undo, SetTask, IInv, TypeOK
  <1> HIDE DEF w
  <1> QED BY <1>1, <1>2, GivenUp

-----------------------------------------------------------------------------
(* A membership change commits *)

\* The group comes into being: everybody who was given something joins.
LEMMA FirstCommit ==
    ASSUME IInv, NEW w \in writes, Commit(w), joined[Admin] = Never
    PROVE  KeysComeLater' /\ Before' /\ After' /\ MembersJoined'
  <1>1. /\ members = {} /\ Joined = {} /\ Len(log) = 0
        /\ \A u \in Users :
              /\ task[u].pc \in {"idle", "wrap_first", "set_first", "send_first", "undo"}
              /\ task[u].pc # "idle" => u = Admin
        /\ writes = {w} /\ w.op = "create" /\ Admin \in w.users /\ w.users \subseteq Users
        /\ \A u \in Users : task[u].pc # "idle" => task[u].to \subseteq w.users
        /\ \A u \in Users, k \in Keys : HasOrGets(u, k) => u \in w.users
    BY DEF IInv, Before, TypeOK, Write
  <1>2. /\ members' = w.users /\ writes' = {}
        /\ \A u \in Users : joined'[u] = IF u \in w.users THEN 0 ELSE Never
        /\ UNCHANGED <<log, drawn, epochKey, current, view, task, changes>>
    <2>1. \A u \in Users : joined[u] = Never
      BY <1>1 DEF Joined
    <2> QED BY <1>1, <2>1 DEF Commit, store
  <1>3. Joined' = w.users /\ joined'[Admin] # Never
    BY <1>1, <1>2 DEF Joined, Never
  <1>4. KeysComeLater'
    <2>1. \A u \in Users, k \in Keys : HasOrGets(u, k)' => HasOrGets(u, k)
      BY <1>2 DEF HasOrGets, Sends
    <2>2. \A u \in Users, k \in Keys : u \in w.users => SealedLater(u, k)'
      BY <1>1, <1>2, <1>3 DEF SealedLater
    <2> QED BY <1>1, <2>1, <2>2 DEF KeysComeLater
  <1>5. Before' /\ After'
    BY <1>2, <1>3 DEF Before, After
  <1>6. MembersJoined'
    <2>1. \A u \in Users : joined'[u] <= Len(log)
      BY <1>1, <1>2 DEF Never
    <2>2. \A u \in Users : view[u] = {}
      BY <1>1 DEF IInv, MembersJoined
    <2>3. \A u \in Users : TaskOf(u)'
      BY <1>1, <1>2, <1>3 DEF TaskOf
    <2> QED BY <1>2, <1>3, <2>1, <2>2, <2>3 DEF MembersJoined
  <1> QED BY <1>4, <1>5, <1>6

\* Later on, somebody joins or leaves; the creator does not come back.
LEMMA LaterCommit ==
    ASSUME IInv, NEW w \in writes, Commit(w), joined[Admin] # Never
    PROVE  KeysComeLater' /\ Before' /\ After' /\ MembersJoined'
  <1>1. /\ w.op \in {"add", "remove"} /\ (w.op = "add" => Admin \notin w.users)
        /\ w.users \subseteq Users
    BY DEF IInv, After, TypeOK, Write
  <1>2. /\ members' = IF w.op = "remove" THEN members \ w.users ELSE members \cup w.users
        /\ \A u \in Users : joined'[u] = IF w.op # "remove" /\ u \in w.users /\ joined[u] = Never
                                        THEN Len(log) ELSE joined[u]
        /\ writes' \subseteq writes
        /\ UNCHANGED <<log, drawn, epochKey, current, view, task, changes>>
    BY DEF Commit, store
  <1>3. Len(log) \in Nat /\ Len(log) # Never
    BY LogTyped DEF Never
  <1>4. \A u \in Joined : u \in Joined' /\ joined'[u] = joined[u]
    BY <1>2 DEF Joined
  <1>5. Admin \in members' => Admin \in members
    BY <1>1, <1>2
  <1>6. KeysComeLater'
    <2>1. \A u \in Users, k \in Keys : HasOrGets(u, k)' => HasOrGets(u, k)
      BY <1>2 DEF HasOrGets, Sends
    <2>2. \A k \in Keys : Stuck(k) => Stuck(k)'
      BY <1>2, <1>5 DEF Stuck, Sends
    <2>3. \A u \in Users, k \in Keys : SealedLater(u, k) => SealedLater(u, k)'
      BY <1>2, <1>4 DEF SealedLater
    <2> QED BY <2>1, <2>2, <2>3 DEF IInv, KeysComeLater
  <1>7. Before' /\ After'
    <2>1. joined'[Admin] # Never
      BY <1>4, AdminAssumption DEF Joined
    <2> QED BY <1>2, <2>1 DEF IInv, Before, After
  <1>8. MembersJoined'
    <2>1. members' \subseteq Joined'
      <3>1. members \subseteq Joined /\ members \subseteq Users
        BY DEF IInv, MembersJoined, TypeOK
      <3>2. w.op # "remove" => w.users \subseteq Joined'
        BY <1>1, <1>2, <1>3 DEF Joined
      <3> QED BY <1>2, <1>4, <3>1, <3>2
    <2>2. \A u \in Users : joined'[u] <= Len(log)
      BY <1>2, <1>3 DEF IInv, MembersJoined
    <2>3. \A u \in Users : view[u] \subseteq Joined' /\ (view[u] # {} => u \in Joined')
      BY <1>4 DEF IInv, MembersJoined
    <2>4. \A u \in Users : TaskOf(u)'
      BY <1>2, <1>4, <1>5 DEF IInv, MembersJoined, TaskOf
    <2> QED BY <1>2, <2>1, <2>2, <2>3, <2>4 DEF MembersJoined
  <1> QED BY <1>6, <1>7, <1>8

LEMMA CommitStep == ASSUME IInv, NEW w \in writes, Commit(w) PROVE IInv'
  <1>1. UNCHANGED <<log, drawn, epochKey, current, view, task, changes>>
    BY DEF Commit, store
  <1>2. TypeOK'
    <2>1. w \in Write /\ writes \in SUBSET Write /\ members \in SUBSET Users
          /\ joined \in [Users -> Never .. MaxLog] /\ Len(log) \in Never .. MaxLog
      BY LogTyped, BoundAssumption DEF IInv, TypeOK, Never
    <2>2. writes' \in SUBSET Write
      BY <2>1 DEF Commit
    <2>3. members' \in SUBSET Users
      BY <2>1 DEF Commit, Write
    <2>4. joined' \in [Users -> Never .. MaxLog]
      BY <2>1 DEF Commit
    <2> QED BY <1>1, <2>2, <2>3, <2>4 DEF IInv, TypeOK
  <1>3. CurrentIsNewestHeld' /\ TaskShape'
    BY <1>1 DEF IInv, CurrentIsNewestHeld, TaskShape, Sends
  <1>4. KeyHasEpoch'
    BY <1>1 DEF IInv, KeyHasEpoch, Sighted, Sends
  <1> QED BY <1>2, <1>3, <1>4, FirstCommit, LaterCommit DEF IInv

-----------------------------------------------------------------------------
(* A key is drawn *)

\* What is held or sent was drawn.
LEMMA KeysWereDrawn ==
    ASSUME IInv
    PROVE  /\ \A k \in Keys, e \in Epochs : Sighted(k, e) => k <= drawn /\ e <= drawn
           /\ \A u \in Users, k \in Keys : HasOrGets(u, k) => k <= drawn
           /\ \A u \in Users, e \in Epochs : epochKey[u][e] <= drawn
           /\ \A i \in 1 .. Len(log) : log[i].key <= drawn
           /\ \A u \in Users : Sends(u) => task[u].key <= drawn
           /\ \A u \in Users : current[u] <= drawn
  <1>1. \A k \in Keys, e \in Epochs : Sighted(k, e) => k <= drawn /\ e <= drawn
    BY DEF IInv, KeyHasEpoch
  <1>2. drawn \in Nat
    BY BaseDrawn
  <1>3. \A u \in Users, e \in Epochs : epochKey[u][e] <= drawn
    <2> SUFFICES ASSUME NEW u \in Users, NEW e \in Epochs PROVE epochKey[u][e] <= drawn
      OBVIOUS
    <2>1. epochKey[u][e] \in Keys \cup {NoKey} /\ Sighted(epochKey[u][e], e)
      BY StoreTyped DEF Sighted
    <2> QED BY <1>1, <1>2, <2>1 DEF NoKey
  <1>4. \A i \in 1 .. Len(log) : log[i].key <= drawn
    BY <1>1, LogTyped DEF Sighted, Message
  <1>5. \A u \in Users : Sends(u) => task[u].key <= drawn
    BY <1>1 DEF IInv, TaskShape, Sighted
  <1>6. \A u \in Users, k \in Keys : HasOrGets(u, k) => k <= drawn
    BY <1>3, <1>4, <1>5 DEF HasOrGets
  <1>7. \A u \in Users : current[u] <= drawn
    <2> SUFFICES ASSUME NEW u \in Users PROVE current[u] <= drawn
      OBVIOUS
    <2>1. CASE current[u] = 0
      BY <1>2, <2>1
    <2>2. CASE current[u] # 0
      <3>1. current[u] \in Epochs /\ epochKey[u][current[u]] \in Keys
        BY <2>2, StoreTyped, BoundAssumption DEF Epochs, CurrentIsNewestHeld
      <3>2. Sighted(epochKey[u][current[u]], current[u])
        BY DEF Sighted
      <3> QED BY <1>1, <3>1, <3>2
    <2> QED BY <2>1, <2>2
  <1> QED BY <1>1, <1>3, <1>4, <1>5, <1>6, <1>7

LEMMA WrapStep == ASSUME IInv, NEW u \in Users, Wrap(u) PROVE IInv'
  <1> DEFINE new == drawn + 1
             rec == [task[u] EXCEPT !.epoch = NewEpoch(u), !.key = new,
                                    !.pc = IF @ = "wrap" THEN "set" ELSE "set_first"]
  <1>1. /\ task' = [task EXCEPT ![u] = rec] /\ drawn' = new
        /\ task[u].pc \in {"wrap", "wrap_first"} /\ drawn < MaxKeys
        /\ UNCHANGED <<members, joined, writes, log, epochKey, current, view, changes>>
    BY DEF Wrap, SetTask, server, store
  <1>2. drawn \in Nat /\ drawn <= MaxKeys /\ new \in Keys
    BY <1>1, BaseDrawn, BoundAssumption DEF Keys
  <1>3. task[u] \in Task /\ task[u].base <= drawn /\ task[u].base \in NoBase .. MaxKeys
    BY TaskTyped DEF Task
  <1>4. NewEpoch(u) \in Epochs /\ NewEpoch(u) <= new
    <2>1. current[u] \in 0 .. MaxKeys /\ current[u] <= drawn
      BY StoreTyped, KeysWereDrawn
    <2> QED BY <1>1, <1>2, <1>3, <2>1, BoundAssumption DEF NewEpoch, Epochs, NoBase
  <1>5. /\ rec \in Task /\ rec.pc = (IF task[u].pc = "wrap" THEN "set" ELSE "set_first")
        /\ rec.key = new /\ rec.epoch = NewEpoch(u) /\ rec.base = task[u].base
        /\ rec.to = task[u].to
    <2>1. NewEpoch(u) \in 0 .. MaxKeys /\ new \in 0 .. MaxKeys
      BY <1>2, <1>4 DEF Epochs, Keys
    <2> HIDE DEF new
    <2> QED BY <1>3, <2>1 DEF Task
  <1>6. CurrentIsNewestHeld'
    BY <1>1 DEF IInv, CurrentIsNewestHeld
  <1>7. task'[u] = rec /\ \A v \in Users \ {u} : task'[v] = task[v]
    BY <1>1 DEF IInv, TypeOK
  <1>8. ~Sends(u)
    BY <1>1 DEF Sends
  <1>9. TypeOK'
    <2>1. drawn' \in 0 .. MaxKeys
      BY <1>1, <1>2 DEF Keys
    <2>2. task' \in [Users -> Task]
      BY <1>1, <1>5 DEF IInv, TypeOK
    <2> QED BY <1>1, <2>1, <2>2 DEF IInv, TypeOK
  <1> DEFINE epoch == NewEpoch(u)
  <1>10. rec.epoch = epoch /\ epoch \in Epochs /\ epoch <= new
    BY <1>4, <1>5
  <1>11. \A k \in Keys : k <= drawn => k # new
    BY <1>2
  <1> HIDE DEF rec, epoch, new
  <1>12. \A k \in Keys, e \in Epochs : Sighted(k, e)' => Sighted(k, e) \/ (k = new /\ e = epoch)
    BY <1>1, <1>5, <1>7, <1>10 DEF Sighted, Sends
  <1>13. KeyHasEpoch'
    <2>1. \A k \in Keys, e \in Epochs : Sighted(k, e) => k <= drawn /\ e <= drawn /\ k # new
      BY <1>11, KeysWereDrawn
    <2>2. drawn <= new /\ new <= new /\ new \in Int
      BY <1>2 DEF new
    <2>3. \A k \in Keys, e \in Epochs : Sighted(k, e)' => k <= new /\ e <= new
      BY <1>2, <1>10, <1>12, <2>1, <2>2 DEF Keys, Epochs
    <2>4. \A k \in Keys, e, f \in Epochs : Sighted(k, e)' /\ Sighted(k, f)' => e = f
      BY <1>12, <2>1 DEF IInv, KeyHasEpoch
    <2> QED BY <1>1, <2>3, <2>4 DEF KeyHasEpoch
  <1>14. TaskShape'
    <2>1. \A v \in Users : task[v].base <= new
      <3> TAKE v \in Users
      <3>1. task[v].base <= drawn /\ task[v].base \in Int /\ drawn <= new /\ new \in Int
        BY <1>2, TaskTyped DEF Task, NoBase, new
      <3> QED BY <1>2, <3>1
    <2> QED BY <1>1, <1>2, <1>5, <1>7, <1>10, <2>1 DEF IInv, TaskShape, Sends
  <1>15. \A v \in Users, k \in Keys :
            HasOrGets(v, k)' => HasOrGets(v, k) \/ (k = new /\ (v = u \/ v \in task[u].to))
    BY <1>1, <1>5, <1>7, <1>10 DEF HasOrGets, Sends
  <1>16. KeysComeLater'
    <2>1. \A k \in Keys : Stuck(k) /\ k <= drawn => Stuck(k)'
      BY <1>1, <1>5, <1>7, <1>10, <1>11 DEF Stuck, Sends
    <2>2. \A i \in 1 .. Len(log) : log[i].key # new
      <3> TAKE i \in 1 .. Len(log)
      <3>1. log[i].key <= drawn /\ log[i].key \in Keys
        BY KeysWereDrawn, LogTyped DEF Message
      <3> QED BY <1>11, <3>1
    <2>3. \A v \in Users, k \in Keys : SealedLater(v, k) => SealedLater(v, k)'
      BY <1>1 DEF SealedLater, Joined
    <2>4. \/ u \in Joined /\ task[u].to \subseteq Joined
          \/ u = Admin /\ u \notin members
      BY <1>1 DEF IInv, MembersJoined, TaskOf
    <2>5. \A v \in Joined, k \in Keys : k = new => SealedLater(v, k)'
      BY <1>1, <2>2 DEF SealedLater, Joined
    <2>6. \A k \in Keys : k = new /\ u = Admin /\ u \notin members => Stuck(k)'
      <3>1. \A v \in Users, e \in Epochs : epochKey'[v][e] = new => v = u
        <4>1. \A v \in Users, e \in Epochs : epochKey[v][e] # new
          <5> TAKE v \in Users, e \in Epochs
          <5>1. epochKey[v][e] <= drawn /\ epochKey[v][e] \in Keys \cup {NoKey}
            BY KeysWereDrawn, StoreTyped
          <5> QED BY <1>2, <1>11, <5>1 DEF Keys, NoKey
        <4> QED BY <1>1, <4>1
      <3>2. \A v \in Users : Sends(v)' /\ task'[v].key = new => v = u
        <4>1. \A v \in Users : Sends(v) => task[v].key # new
          BY <1>11, KeysWereDrawn DEF IInv, TaskShape
        <4> QED BY <1>7, <4>1 DEF Sends
      <3> QED BY <1>1, <2>2, <3>1, <3>2 DEF Stuck
    <2>7. ASSUME NEW v \in Users, NEW k \in Keys, HasOrGets(v, k)'
          PROVE  SealedLater(v, k)' \/ Stuck(k)'
      <3>1. CASE HasOrGets(v, k)
        BY <2>1, <2>3, <3>1, KeysWereDrawn DEF IInv, KeysComeLater
      <3>2. CASE k = new /\ (v = u \/ v \in task[u].to)
        BY <2>4, <2>5, <2>6, <3>2
      <3> QED BY <1>15, <2>7, <3>1, <3>2
    <2> QED BY <2>7 DEF KeysComeLater
  <1>17. Before'
    <2> SUFFICES ASSUME joined[Admin] = Never PROVE Before'
      BY <1>1 DEF Before
    <2>1. /\ members = {} /\ Joined' = {} /\ Len(log) = 0 /\ writes # {}
          /\ u = Admin /\ rec.pc = "set_first"
      BY <1>1, <1>5 DEF IInv, Before, Joined
    <2>2. \A v \in Users :
             /\ task'[v].pc \in {"idle", "wrap_first", "set_first", "send_first", "undo"}
             /\ task'[v].pc # "idle" => v = Admin
      BY <1>7, <2>1 DEF IInv, Before
    <2>3. ASSUME NEW w \in writes
          PROVE  /\ writes = {w} /\ w.op = "create" /\ Admin \in w.users
                 /\ \A v \in Users : task'[v].pc # "idle" => task'[v].to \subseteq w.users
                 /\ \A v \in Users, k \in Keys : HasOrGets(v, k)' => v \in w.users
      <3>1. /\ writes = {w} /\ w.op = "create" /\ Admin \in w.users
            /\ \A v \in Users : task[v].pc # "idle" => task[v].to \subseteq w.users
            /\ \A v \in Users, k \in Keys : HasOrGets(v, k) => v \in w.users
        BY DEF IInv, Before
      <3>2. task[u].to \subseteq w.users
        BY <1>1, <3>1
      <3> QED BY <1>5, <1>7, <1>15, <2>1, <3>1, <3>2
    <2> QED BY <1>1, <2>1, <2>2, <2>3 DEF Before
  <1>18. After'
    BY <1>1 DEF IInv, After
  <1>19. MembersJoined'
    <2>1. Joined' = Joined
      BY <1>1 DEF Joined
    <2>2. TaskOf(u)'
      BY <1>1, <1>5, <1>7, <2>1 DEF IInv, MembersJoined, TaskOf
    <2>3. \A v \in Users \ {u} : TaskOf(v)'
      BY <1>1, <1>7, <2>1 DEF IInv, MembersJoined, TaskOf
    <2> QED BY <1>1, <2>1, <2>2, <2>3 DEF IInv, MembersJoined
  <1> QED BY <1>6, <1>9, <1>13, <1>14, <1>16, <1>17, <1>18, <1>19 DEF IInv

\* The key is one that the client was about to post, of the epoch it drew it for.
LEMMA StoreNewKeyStep == ASSUME IInv, NEW u \in Users, StoreNewKey(u) PROVE IInv'
  <1> DEFINE rec == [task[u] EXCEPT !.pc = IF @ = "set" THEN "send" ELSE "send_first"]
             key == task[u].key
             epoch == task[u].epoch
  <1>1. /\ SetKey(u, epoch, key) /\ task' = [task EXCEPT ![u] = rec]
        /\ task[u].pc \in {"set", "set_first"}
        /\ UNCHANGED <<members, joined, writes, log, drawn, view, changes>>
    BY DEF StoreNewKey, SetTask, server
  <1>2. Sends(u) /\ key \in Keys /\ epoch \in Epochs
    BY <1>1 DEF IInv, TaskShape, Sends
  <1>3. /\ rec \in Task /\ rec.pc = (IF task[u].pc = "set" THEN "send" ELSE "send_first")
        /\ rec.key = key /\ rec.epoch = epoch /\ rec.base = task[u].base /\ rec.to = task[u].to
    BY <1>1, TaskTyped DEF Task
  <1>4. /\ epochKey' \in [Users -> [Epochs -> Keys \cup {NoKey}]]
        /\ current' \in [Users -> 0 .. MaxKeys]
        /\ CurrentIsNewestHeld'
        /\ epochKey'[u][epoch] = key
        /\ \A v \in Users, f \in Epochs :
              <<v, f>> # <<u, epoch>> => epochKey'[v][f] = epochKey[v][f]
    BY <1>1, <1>2, SetKeyAgrees
  <1>5. task'[u] = rec /\ \A v \in Users \ {u} : task'[v] = task[v]
    BY <1>1 DEF IInv, TypeOK
  <1>6. TypeOK'
    <2>1. task' \in [Users -> Task]
      BY <1>1, <1>3 DEF IInv, TypeOK
    <2> QED BY <1>1, <1>4, <2>1 DEF IInv, TypeOK
  <1> HIDE DEF rec, key, epoch
  <1>7. \A v \in Users : /\ Sends(v)' => Sends(v)
                         /\ task'[v].key = task[v].key /\ task'[v].epoch = task[v].epoch
                         /\ task'[v].to = task[v].to /\ task'[v].base = task[v].base
    BY <1>2, <1>3, <1>5 DEF Sends, key, epoch
  <1>8. task[u].key = key /\ task[u].epoch = epoch
    BY DEF key, epoch
  <1>9. \A v \in Users, e \in Epochs : \/ epochKey'[v][e] = epochKey[v][e]
                                        \/ (v = u /\ e = epoch /\ epochKey'[v][e] = key)
    BY <1>4
  <1>10. \A k \in Keys, e \in Epochs : Sighted(k, e)' => Sighted(k, e)
    BY <1>1, <1>2, <1>7, <1>8, <1>9 DEF Sighted
  <1>11. \A v \in Users, k \in Keys : HasOrGets(v, k)' => HasOrGets(v, k)
    BY <1>1, <1>2, <1>7, <1>8, <1>9 DEF HasOrGets
  <1>12. \A k \in Keys : Stuck(k) => Stuck(k)'
    BY <1>1, <1>2, <1>7, <1>8, <1>9 DEF Stuck
  <1>13. \A v \in Users, k \in Keys : SealedLater(v, k) => SealedLater(v, k)'
    BY <1>1 DEF SealedLater, Joined
  <1>14. KeyHasEpoch'
    BY <1>1, <1>10 DEF IInv, KeyHasEpoch
  <1>15. TaskShape'
    BY <1>1, <1>7 DEF IInv, TaskShape
  <1>16. KeysComeLater'
    BY <1>11, <1>12, <1>13 DEF IInv, KeysComeLater
  <1>17. Before'
    <2>1. \A v \in Users : \/ task'[v].pc = task[v].pc
                           \/ task'[v].pc = "send" /\ task[v].pc = "set"
                           \/ task'[v].pc = "send_first" /\ task[v].pc = "set_first"
      BY <1>1, <1>3, <1>5
    <2>2. Joined' = Joined
      BY <1>1 DEF Joined
    <2> QED BY <1>1, <1>7, <1>11, <2>1, <2>2 DEF IInv, Before
  <1>18. After'
    BY <1>1 DEF IInv, After
  <1>19. MembersJoined'
    <2>1. Joined' = Joined
      BY <1>1 DEF Joined
    <2>2. TaskOf(u)'
      BY <1>1, <1>3, <1>5, <2>1 DEF IInv, MembersJoined, TaskOf
    <2>3. \A v \in Users \ {u} : TaskOf(v)'
      BY <1>1, <1>5, <2>1 DEF IInv, MembersJoined, TaskOf
    <2> QED BY <1>1, <2>1, <2>2, <2>3 DEF IInv, MembersJoined
  <1> QED BY <1>4, <1>6, <1>14, <1>15, <1>16, <1>17, <1>18, <1>19 DEF IInv

-----------------------------------------------------------------------------
(* A message is posted *)

\* Its key is one that somebody uses in the group, and is wrapped for whom it was meant.
LEMMA PostStep ==
    ASSUME IInv, NEW u \in members, NEW m \in Message,
           Len(log) < MaxLog, log' = Append(log, m),
           UNCHANGED <<members, joined, writes, drawn, epochKey, current, changes>>,
           Sighted(m.key, m.epoch), ~Stuck(m.key),
           m.kind = "keys" => \A v \in Users : v = m.by \/ v \in m.to => HasOrGets(v, m.key),
           task' = task \/ task' = [task EXCEPT ![u] = NoTask],
           view' \in [Users -> SUBSET Users],
           view'[u] \subseteq Joined, view'[u] = {} => view[u] = {},
           \A v \in Users \ {u} : view'[v] = view[v]
    PROVE  IInv'
  <1>1. u \in Users /\ u \in Joined /\ joined[Admin] # Never
    BY ListedAfter DEF IInv, TypeOK
  <1>2. /\ Len(log') = Len(log) + 1 /\ log' \in Seq(Message)
        /\ \A i \in 1 .. Len(log) : log'[i] = log[i]
        /\ log'[Len(log) + 1] = m /\ Len(log) \in Nat
    BY DEF IInv, TypeOK
  <1>3. \A i \in 1 .. Len(log') : log'[i] = m \/ (i \in 1 .. Len(log) /\ log'[i] = log[i])
    BY <1>2
  <1>4. \A v \in Users : task'[v] = task[v] \/ (v = u /\ task'[v] = NoTask)
    BY DEF IInv, TypeOK
  <1>5. TypeOK'
    <2>1. task' \in [Users -> Task]
      BY NoTaskTyped DEF IInv, TypeOK
    <2>2. Len(log') <= MaxLog
      BY <1>2, BoundAssumption
    <2> QED BY <1>2, <2>1, <2>2 DEF IInv, TypeOK
  <1>6. CurrentIsNewestHeld'
    BY DEF IInv, CurrentIsNewestHeld
  <1>7. \A v \in Users : Sends(v)' => Sends(v) /\ task'[v] = task[v]
    BY <1>4, NoTaskTyped DEF Sends
  <1>8. \A k \in Keys, e \in Epochs : Sighted(k, e)' => Sighted(k, e)
    <2> SUFFICES ASSUME NEW k \in Keys, NEW e \in Epochs, Sighted(k, e)' PROVE Sighted(k, e)
      OBVIOUS
    <2>1. CASE \E v \in Users : epochKey'[v][e] = k
      BY <2>1 DEF Sighted
    <2>2. CASE \E i \in 1 .. Len(log') : log'[i].key = k /\ log'[i].epoch = e
      BY <1>3, <2>2 DEF Sighted
    <2>3. CASE \E v \in Users : Sends(v)' /\ task'[v].key = k /\ task'[v].epoch = e
      BY <1>7, <2>3 DEF Sighted
    <2> QED BY <2>1, <2>2, <2>3 DEF Sighted
  <1>9. KeyHasEpoch'
    BY <1>8 DEF IInv, KeyHasEpoch
  <1>10. TaskShape'
    <2>1. \A v \in Users : task'[v].base <= drawn
      BY <1>4, NoTaskTyped, BaseDrawn, TaskTyped
    <2> QED BY <1>7, <2>1 DEF IInv, TaskShape
  <1>11. \A v \in Users, k \in Keys : HasOrGets(v, k)' => HasOrGets(v, k)
    <2> SUFFICES ASSUME NEW v \in Users, NEW k \in Keys, HasOrGets(v, k)' PROVE HasOrGets(v, k)
      OBVIOUS
    <2>1. CASE \E e \in Epochs : epochKey'[v][e] = k
      BY <2>1 DEF HasOrGets
    <2>2. CASE \E i \in 1 .. Len(log') : log'[i].kind = "keys" /\ log'[i].key = k
                                         /\ (log'[i].by = v \/ v \in log'[i].to)
      BY <1>3, <2>2 DEF HasOrGets
    <2>3. CASE \E x \in Users : Sends(x)' /\ task'[x].key = k /\ (x = v \/ v \in task'[x].to)
      BY <1>7, <2>3 DEF HasOrGets
    <2> QED BY <2>1, <2>2, <2>3 DEF HasOrGets
  <1>12. KeysComeLater'
    <2>1. \A k \in Keys : Stuck(k) => Stuck(k)'
      BY <1>3, <1>7 DEF Stuck
    <2>2. ASSUME NEW v \in Users, NEW k \in Keys, SealedLater(v, k) PROVE SealedLater(v, k)'
      <3>1. joined[v] <= Len(log) /\ joined[v] \in Int
        BY DEF IInv, MembersJoined, TypeOK, Never
      <3>2. ASSUME NEW i \in 1 .. Len(log'), log'[i].kind = "chat", log'[i].key = k
            PROVE  joined[v] < i
        <4>1. CASE i \in 1 .. Len(log)
          BY <1>2, <2>2, <3>2, <4>1 DEF SealedLater
        <4>2. CASE i = Len(log) + 1
          BY <1>2, <3>1, <4>2
        <4> QED BY <1>2, <4>1, <4>2
      <3> QED BY <2>2, <3>2 DEF SealedLater, Joined
    <2> QED BY <1>11, <2>1, <2>2 DEF IInv, KeysComeLater
  <1>13. Before' /\ After'
    BY <1>1 DEF IInv, Before, After
  <1>14. MembersJoined'
    <2>1. Joined' = Joined
      BY DEF Joined
    <2>2. \A v \in Users : joined'[v] <= Len(log')
      <3> TAKE v \in Users
      <3>1. joined[v] <= Len(log) /\ joined[v] \in Int
        BY DEF IInv, MembersJoined, TypeOK, Never
      <3> QED BY <1>2, <3>1
    <2>3. \A v \in Users : view'[v] \subseteq Joined /\ (view'[v] # {} => v \in Joined)
      BY <1>1 DEF IInv, MembersJoined
    <2>4. TaskOf(u)'
      BY <1>4, <2>1, NoTaskTyped, <1>1 DEF IInv, MembersJoined, TaskOf
    <2>5. \A v \in Users \ {u} : TaskOf(v)'
      BY <1>4, <2>1 DEF IInv, MembersJoined, TaskOf
    <2> QED BY <2>1, <2>2, <2>3, <2>4, <2>5 DEF IInv, MembersJoined
  <1> QED BY <1>5, <1>6, <1>9, <1>10, <1>12, <1>13, <1>14 DEF IInv

LEMMA SendStep == ASSUME IInv, NEW u \in Users, Send(u) PROVE IInv'
  <1> DEFINE m == [kind |-> "keys", by |-> u, epoch |-> task[u].epoch, key |-> task[u].key,
                   to |-> task[u].to, sent |-> members \ {u}]
  <1>1. /\ u \in members /\ Len(log) < MaxLog /\ log' = Append(log, m)
        /\ UNCHANGED <<members, joined, writes, drawn, epochKey, current, changes>>
        /\ task' = [task EXCEPT ![u] = NoTask]
        /\ view' = IF task[u].pc = "send_first"
                   THEN [view EXCEPT ![u] = task[u].to \cup {u}] ELSE view
        /\ Sends(u)
    BY DEF Send, Post, SetTask, store, Sends
  <1>2. /\ m \in Message /\ m.kind = "keys" /\ m.key = task[u].key /\ m.epoch = task[u].epoch
        /\ m.by = u /\ m.to = task[u].to
    <2>1. task[u].epoch \in Epochs /\ task[u].key \in Keys
      BY <1>1 DEF IInv, TaskShape
    <2>2. task[u].to \in SUBSET Users /\ members \ {u} \in SUBSET Users
      BY TaskTyped DEF Task, IInv, TypeOK
    <2> QED BY <2>1, <2>2 DEF Message
  <1> HIDE DEF m
  <1>3. Sighted(m.key, m.epoch) /\ ~Stuck(m.key)
    BY <1>1, <1>2 DEF Sighted, Stuck
  <1>4. \A v \in Users : v = m.by \/ v \in m.to => HasOrGets(v, m.key)
    BY <1>1, <1>2 DEF HasOrGets
  <1>5. /\ view' \in [Users -> SUBSET Users] /\ view'[u] \subseteq Joined
        /\ view'[u] = {} => view[u] = {}
        /\ \A v \in Users \ {u} : view'[v] = view[v]
    <2>1. CASE task[u].pc = "send_first"
      <3>1. task[u].to \subseteq Joined /\ u \in Joined
        BY <1>1, <2>1 DEF IInv, MembersJoined, TaskOf
      <3>2. task[u].to \cup {u} \in SUBSET Users
        BY TaskTyped DEF Task
      <3> QED BY <1>1, <2>1, <3>1, <3>2, StoreTyped
    <2>2. CASE task[u].pc # "send_first"
      BY <1>1, <2>2, StoreTyped DEF IInv, MembersJoined
    <2> QED BY <2>1, <2>2
  <1> QED BY <1>1, <1>2, <1>3, <1>4, <1>5, PostStep

LEMMA ChatStep == ASSUME IInv, NEW u \in Users, Chat(u) PROVE IInv'
  <1> DEFINE m == [kind |-> "chat", by |-> u, epoch |-> current[u],
                   key |-> epochKey[u][current[u]], to |-> {}, sent |-> members \ {u}]
  <1>1. /\ u \in members /\ Len(log) < MaxLog /\ log' = Append(log, m)
        /\ UNCHANGED <<members, joined, writes, drawn, epochKey, current, changes, task, view>>
        /\ current[u] # 0 /\ epochKey[u][current[u]] # NoKey
    BY DEF Chat, Post, store
  <1>2. current[u] \in Epochs /\ epochKey[u][current[u]] \in Keys
    <2>1. current[u] \in Epochs
      BY <1>1, StoreTyped, BoundAssumption DEF Epochs
    <2> QED BY <1>1, <2>1, StoreTyped
  <1>3. m \in Message /\ m.kind = "chat" /\ m.key = epochKey[u][current[u]] /\ m.epoch = current[u]
    <2>1. members \ {u} \in SUBSET Users
      BY DEF IInv, TypeOK
    <2> QED BY <1>2, <2>1 DEF Message
  <1> HIDE DEF m
  <1>4. Sighted(m.key, m.epoch) /\ ~Stuck(m.key)
    BY <1>1, <1>2, <1>3 DEF Sighted, Stuck
  <1>5. view[u] \subseteq Joined /\ view \in [Users -> SUBSET Users]
    BY StoreTyped DEF IInv, MembersJoined
  <1> QED BY <1>1, <1>3, <1>4, <1>5, PostStep

-----------------------------------------------------------------------------
(* The theorems *)

LEMMA NextIInv == IInv /\ [Next]_vars => IInv'
  <1> SUFFICES ASSUME IInv, [Next]_vars PROVE IInv'
    OBVIOUS
  <1>1. ASSUME NEW others \in SUBSET Users, StartGroup(others) PROVE IInv'
    BY <1>1, StartGroupStep
  <1>2. ASSUME NEW w \in writes, Commit(w) PROVE IInv'
    BY <1>2, CommitStep
  <1>3. ASSUME NEW u \in Users, NEW v \in Users, AddMember(u, v) \/ RemoveMember(u, v)
        PROVE  IInv'
    BY <1>3, AddMemberStep, RemoveMemberStep
  <1>4. ASSUME NEW u \in Users, NEW e \in 0 .. MaxKeys, Rekey(u, e) PROVE IInv'
    BY <1>4, RekeyStep
  <1>5. ASSUME NEW u \in Users, \/ RefreshAfterAdd(u) \/ RefreshAfterRemove(u)
                                \/ Wrap(u) \/ StoreNewKey(u) \/ Send(u) \/ Fail(u) \/ Undo(u)
        PROVE  IInv'
    BY <1>5, RefreshAfterAddStep, RefreshAfterRemoveStep, WrapStep, StoreNewKeyStep, SendStep,
       FailStep, UndoStep
  <1>6. ASSUME NEW u \in Users, NEW i \in 1 .. MaxLog, Ingest(u, i) PROVE IInv'
    BY <1>6, IngestStep
  <1>7. ASSUME NEW u \in Users,
               Chat(u) \/ MembershipChanged(u) \/ Open(u) \/ Bootstrap(u)
        PROVE  IInv'
    BY <1>7, ChatStep, MembershipChangedStep, OpenStep, BootstrapStep
  <1>8. CASE UNCHANGED vars
    <2>1. UNCHANGED <<members, joined, writes, log, drawn, epochKey, current, view, changes, task>>
      BY <1>8 DEF vars, server, store
    <2>2. TypeOK' /\ CurrentIsNewestHeld'
      BY <2>1 DEF IInv, TypeOK, CurrentIsNewestHeld
    <2>3. KeyHasEpoch' /\ TaskShape' /\ KeysComeLater'
      <3>1. /\ \A u \in Users, e \in Epochs : epochKey'[u][e] \in {NoKey, epochKey[u][e]}
            /\ \A u \in Users : task'[u].base <= drawn /\ (Sends(u)' => task'[u] = task[u])
        BY <2>1, TaskTyped
      <3> QED BY <2>1, <3>1, SameLog
    <2>4. Before' /\ After'
      BY <2>1 DEF IInv, Before, After, Joined, HasOrGets, Sends
    <2>5. MembersJoined'
      BY <2>1 DEF IInv, MembersJoined, TaskOf, Joined
    <2> QED BY <2>2, <2>3, <2>4, <2>5 DEF IInv
  <1> QED BY <1>1, <1>2, <1>3, <1>4, <1>5, <1>6, <1>7, <1>8 DEF Next

\* The invariant holds throughout, for any group and any bounds.
THEOREM InductiveInvariant == Spec => []IInv
  <1> QED BY InitIInv, NextIInv, PTL DEF Spec

\* Every variable keeps its type.
THEOREM TypeCorrect == Spec => []TypeOK
  <1>1. IInv => TypeOK
    BY DEF IInv
  <1> QED BY <1>1, InductiveInvariant, PTL

\* sendOutgoing seals under the newest epoch the browser holds: setKey and clear keep the two
\* entries of the store in agreement.
THEOREM NewestEpochIsCurrent == Spec => []CurrentIsNewestHeld
  <1>1. IInv => CurrentIsNewestHeld
    BY DEF IInv
  <1> QED BY <1>1, InductiveInvariant, PTL

\* No two clients store one key under two epoch numbers.
THEOREM KeysKeepTheirEpoch == Spec => []KeysAreBoundToEpochs
  <1>1. IInv => KeysAreBoundToEpochs
    <2> SUFFICES ASSUME IInv, NEW u \in Users, NEW v \in Users, NEW e \in Epochs, NEW f \in Epochs,
                        epochKey[u][e] # NoKey, epochKey[u][e] = epochKey[v][f]
                 PROVE  e = f
      BY DEF KeysAreBoundToEpochs
    <2>1. epochKey[u][e] \in Keys
      BY StoreTyped
    <2>2. Sighted(epochKey[u][e], e) /\ Sighted(epochKey[u][e], f)
      BY DEF Sighted
    <2> QED BY <2>1, <2>2 DEF IInv, KeyHasEpoch
  <1> QED BY <1>1, InductiveInvariant, PTL

\* A newly added member reads from the point of joining onward: no key it holds, or that was
\* ever wrapped for it, sealed a message posted before.
THEOREM ReadsFromJoiningOnward == Spec => []NothingBeforeJoining
  <1>1. IInv => NothingBeforeJoining
    <2> SUFFICES ASSUME IInv, NEW u \in Users, NEW i \in 1 .. Len(log), log[i].kind = "chat",
                        joined[u] = Never \/ i <= joined[u],
                        log[i].key \in Held(u) \cup Given(u)
                 PROVE  FALSE
      BY DEF NothingBeforeJoining
    <2>1. log[i].key \in Keys
      BY LogTyped DEF Message
    <2>2. HasOrGets(u, log[i].key)
      BY DEF HasOrGets, Held, Given
    <2>3. SealedLater(u, log[i].key)
      BY <2>1, <2>2 DEF IInv, KeysComeLater, Stuck
    <2>4. joined[u] # Never /\ joined[u] < i /\ joined[u] \in Int /\ i \in Int
      BY <2>3 DEF SealedLater, Joined, IInv, TypeOK, Never
    <2> QED BY <2>4
  <1> QED BY <1>1, InductiveInvariant, PTL

-----------------------------------------------------------------------------
(* The group is one of Conversations *)

\* What is answered and not committed yet: the group, or one membership, which is ended
\* only for somebody who has one.
WritesInv ==
    \A w \in writes :
        /\ w.op = "create" => Admin \in w.users
        /\ w.op # "create" => \E v \in Users : w.users = {v} /\ (w.op = "remove" => v \in Joined)

LEMMA WritesStep ==
    ASSUME IInv, WritesInv, [Next]_vars
    PROVE  WritesInv'
  <1>1. ASSUME Joined \subseteq Joined',
               \A w \in writes' \ writes :
                  \/ w.op = "create" /\ Admin \in w.users
                  \/ w.op = "add" /\ \E v \in Users : w.users = {v}
                  \/ w.op = "remove" /\ \E v \in Joined : w.users = {v}
        PROVE  WritesInv'
    BY <1>1 DEF WritesInv, Joined
  <1>2. members \subseteq Joined
    BY DEF IInv, MembersJoined
  <1>3. ASSUME NEW others \in SUBSET Users, StartGroup(others) PROVE WritesInv'
    BY <1>1, <1>3 DEF StartGroup, Joined
  <1>4. ASSUME NEW u \in Users, NEW v \in Users, AddMember(u, v) \/ RemoveMember(u, v)
        PROVE  WritesInv'
    BY <1>1, <1>2, <1>4 DEF AddMember, RemoveMember, Joined
  <1>5. ASSUME NEW u \in Users, Undo(u) PROVE WritesInv'
    BY <1>1, <1>2, <1>5 DEF Undo, Joined
  <1>6. ASSUME NEW w \in writes, Commit(w) PROVE WritesInv'
    <2>1. Len(log) # Never
      BY LogTyped DEF Never
    <2>2. Joined \subseteq Joined'
      BY <1>6, <2>1 DEF Commit, Joined, IInv, TypeOK
    <2> QED BY <1>1, <1>6, <2>2 DEF Commit
  <1>7. ASSUME UNCHANGED <<writes, joined>> PROVE WritesInv'
    BY <1>1, <1>7 DEF Joined
  <1>8. CASE UNCHANGED vars
    <2>1. UNCHANGED <<writes, joined>>
      BY <1>8, Zenon DEF vars, server
    <2> QED BY <1>7, <2>1
  <1>9. ASSUME NEW u \in Users,
               \/ \E e \in 0 .. MaxKeys : Rekey(u, e)
               \/ RefreshAfterAdd(u) \/ RefreshAfterRemove(u)
               \/ Wrap(u) \/ StoreNewKey(u) \/ Send(u) \/ Fail(u) \/ Chat(u)
               \/ \E i \in 1 .. MaxLog : Ingest(u, i)
               \/ MembershipChanged(u) \/ Open(u) \/ Bootstrap(u)
        PROVE  WritesInv'
    BY <1>7, <1>9 DEF Rekey, RefreshAfterAdd, RefreshAfterRemove, Wrap, StoreNewKey, Send, Fail,
                      Chat, Post, Ingest, MembershipChanged, Open, Bootstrap, server
  <1> QED BY <1>3, <1>4, <1>5, <1>6, <1>8, <1>9 DEF Next

\* The group comes into being for the creator and those it named.
LEMMA GroupIsCreated ==
    ASSUME IInv, WritesInv, NEW w \in writes, Commit(w), joined[Admin] = Never
    PROVE  Membership!CreateGroup(TheGroup, Admin, w.users)
  <1>1. /\ members = {} /\ Joined = {} /\ Len(log) = 0
        /\ w.op = "create" /\ Admin \in w.users
    BY DEF IInv, Before
  <1>2. \A u \in Users : joined[u] = Never
    BY <1>1 DEF Joined
  <1>3. /\ members' = w.users
        /\ \A u \in Users : joined'[u] = IF u \in w.users THEN 0 ELSE Never
        /\ joined'[Admin] # Never /\ log' = log
    BY <1>1, <1>2, AdminAssumption DEF Commit, Never
  <1>4. RowOf' = [RowOf EXCEPT ![TheGroup] = Membership!Rows(w.users)]
    <2>1. [u \in Users |-> IF u \in members' THEN "active"
                           ELSE IF joined'[u] # Never THEN "left" ELSE "none"]
            = [u \in Users |-> IF u \in w.users THEN "active" ELSE "none"]
      BY <1>3
    <2> QED BY <2>1 DEF RowOf, Membership!Rows
  <1>5. /\ KindOf' = [KindOf EXCEPT ![TheGroup] = "group"]
        /\ AdminsOf' = [AdminsOf EXCEPT ![TheGroup] = {Admin}]
        /\ KindOf[TheGroup] = "none"
    BY <1>3 DEF KindOf, AdminsOf
  <1>6. UNCHANGED AuthorsOf
    BY <1>3 DEF AuthorsOf
  <1> QED BY <1>1, <1>4, <1>5, <1>6 DEF Membership!CreateGroup

\* Whoever commits first, a later change gives or ends one membership.
LEMMA MembershipIsChanged ==
    ASSUME IInv, WritesInv, NEW w \in writes, Commit(w), joined[Admin] # Never
    PROVE  \E v \in Users : Membership!Admit(TheGroup, Admin, v)
                            \/ Membership!Depart(TheGroup, Admin, v)
  <1>1. w.op # "create" /\ w.op \in {"create", "add", "remove"}
    BY DEF IInv, After, TypeOK, Write
  <1>2. PICK v \in Users : w.users = {v} /\ (w.op = "remove" => v \in Joined)
    BY <1>1 DEF WritesInv
  <1>3. Len(log) # Never
    BY LogTyped DEF Never
  <1>4. /\ \A u \in Users : joined'[u] = IF w.op = "add" /\ u = v /\ joined[u] = Never
                                        THEN Len(log) ELSE joined[u]
        /\ members' = IF w.op = "remove" THEN members \ {v} ELSE members \cup {v}
        /\ log' = log
    BY <1>1, <1>2 DEF Commit
  <1>5. joined'[Admin] # Never
    BY <1>3, <1>4, AdminAssumption
  <1>6. /\ UNCHANGED KindOf /\ UNCHANGED AdminsOf /\ UNCHANGED AuthorsOf
        /\ KindOf[TheGroup] = "group" /\ Admin \in AdminsOf[TheGroup]
    BY <1>4, <1>5 DEF KindOf, AdminsOf, AuthorsOf
  <1> DEFINE st == IF w.op = "add" THEN "active" ELSE "left"
  <1>7. RowOf' = [RowOf EXCEPT ![TheGroup] = [@ EXCEPT ![v] = st]]
    <2>1. \A u \in Users \ {v} : (u \in members') = (u \in members) /\ joined'[u] = joined[u]
      BY <1>4
    <2>2. st = IF v \in members' THEN "active" ELSE IF joined'[v] # Never THEN "left" ELSE "none"
      BY <1>1, <1>2, <1>4 DEF Joined
    <2> HIDE DEF st
    <2>3. [u \in Users |-> IF u \in members' THEN "active"
                           ELSE IF joined'[u] # Never THEN "left" ELSE "none"]
            = [[u \in Users |-> IF u \in members THEN "active"
                                ELSE IF joined[u] # Never THEN "left" ELSE "none"]
                 EXCEPT ![v] = st]
      BY <2>1, <2>2
    <2> QED BY <2>3 DEF RowOf
  <1>8. CASE w.op = "add"
    BY <1>6, <1>7, <1>8 DEF Membership!Admit
  <1>9. CASE w.op = "remove"
    <2>1. RowOf[TheGroup][v] # "none"
      BY <1>2, <1>9 DEF RowOf, Joined
    <2> QED BY <1>6, <1>7, <1>9, <2>1 DEF Membership!Depart
  <1> QED BY <1>1, <1>8, <1>9

\* A message is by an active member.
LEMMA MessageIsPosted ==
    ASSUME IInv, NEW u \in Users, NEW t, NEW e, NEW k, NEW to, Post(u, t, e, k, to)
    PROVE  Membership!Post(TheGroup, u)
  <1>1. u \in members /\ members' = members /\ joined' = joined
    BY DEF Post
  <1>2. /\ Len(log') = Len(log) + 1 /\ Len(log) \in Nat
        /\ \A i \in 1 .. Len(log) : log'[i] = log[i]
        /\ log'[Len(log) + 1].by = u
    BY LogTyped DEF Post, IInv, TypeOK
  <1>3. {v \in Users : \E i \in 1 .. Len(log') : log'[i].by = v}
          = {v \in Users : \E i \in 1 .. Len(log) : log[i].by = v} \cup {u}
    <2>1. \A v \in Users :
             (\E i \in 1 .. Len(log') : log'[i].by = v)
               <=> (v = u \/ \E i \in 1 .. Len(log) : log[i].by = v)
      BY <1>2
    <2> QED BY <2>1
  <1>4. AuthorsOf' = [AuthorsOf EXCEPT ![TheGroup] = AuthorsOf[TheGroup] \cup {u}]
    BY <1>3 DEF AuthorsOf
  <1>5. UNCHANGED KindOf /\ UNCHANGED RowOf /\ UNCHANGED AdminsOf /\ RowOf[TheGroup][u] # "none"
    BY <1>1 DEF KindOf, RowOf, AdminsOf
  <1> QED BY <1>4, <1>5 DEF Membership!Post

LEMMA StepOfMemberLife ==
    ASSUME IInv, WritesInv, [Next]_vars
    PROVE  Membership!Next \/ UNCHANGED Membership!vars
  <1>1. ASSUME UNCHANGED <<members, joined, log>> PROVE UNCHANGED Membership!vars
    BY <1>1 DEF Membership!vars, KindOf, RowOf, AdminsOf, AuthorsOf
  <1>2. ASSUME NEW w \in writes, Commit(w) PROVE Membership!Next
    <2>1. w.users \in SUBSET Users
      BY DEF IInv, TypeOK, Write
    <2> QED BY <1>2, <2>1, GroupIsCreated, MembershipIsChanged, AdminAssumption
               DEF Membership!Next
  <1>3. ASSUME NEW u \in Users, Send(u) \/ Chat(u) PROVE Membership!Next
    <2>1. Membership!Post(TheGroup, u)
      BY <1>3, MessageIsPosted DEF Send, Chat
    <2> QED BY <2>1 DEF Membership!Next
  <1>4. CASE UNCHANGED vars
    BY <1>1, <1>4 DEF vars, server
  <1>5. ASSUME NEW others \in SUBSET Users, StartGroup(others) PROVE UNCHANGED Membership!vars
    BY <1>1, <1>5 DEF StartGroup
  <1>6. ASSUME NEW u \in Users, NEW v \in Users, AddMember(u, v) \/ RemoveMember(u, v)
        PROVE  UNCHANGED Membership!vars
    BY <1>1, <1>6 DEF AddMember, RemoveMember
  <1>7. ASSUME NEW u \in Users,
               \/ \E e \in 0 .. MaxKeys : Rekey(u, e)
               \/ RefreshAfterAdd(u) \/ RefreshAfterRemove(u)
               \/ Wrap(u) \/ StoreNewKey(u) \/ Fail(u) \/ Undo(u)
               \/ \E i \in 1 .. MaxLog : Ingest(u, i)
               \/ MembershipChanged(u) \/ Open(u) \/ Bootstrap(u)
        PROVE  UNCHANGED Membership!vars
    BY <1>1, <1>7 DEF Rekey, RefreshAfterAdd, RefreshAfterRemove, Wrap, StoreNewKey, Fail, Undo,
                      Ingest, MembershipChanged, Open, Bootstrap, server
  <1> QED BY <1>2, <1>3, <1>4, <1>5, <1>6, <1>7 DEF Next

\* The group the clients see implements MemberLife: whatever they do, and in whatever order
\* the changes commit that were answered before, the server's memberships and messages
\* keep what Conversations' transactions keep of them.
THEOREM GroupIsAConversation == Spec => ImplementsMemberLife
  <1>1. Init => Membership!Init /\ WritesInv
    BY AdminAssumption DEF Init, Membership!Init, KindOf, RowOf, AdminsOf, AuthorsOf, Never,
                           WritesInv
  <1>2. IInv /\ WritesInv /\ [Next]_vars => WritesInv' /\ [Membership!Next]_(Membership!vars)
    BY WritesStep, StepOfMemberLife
  <1> QED BY <1>1, <1>2, InductiveInvariant, PTL
             DEF Spec, ImplementsMemberLife, Membership!Spec
=============================================================================
