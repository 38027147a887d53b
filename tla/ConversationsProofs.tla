------------------------ MODULE ConversationsProofs ------------------------
(***************************************************************************)
(* Proofs about Conversations, for any finite set of concurrent requests   *)
(* and any users, conversations and number of messages: the type           *)
(* invariant, that no message or membership outlives its conversation,     *)
(* that a direct conversation keeps its two members, that a membership of  *)
(* a group changes only as its admins and its leaver decided, and that the *)
(* committed tables implement MemberLife.                                  *)
(***************************************************************************)
EXTENDS Conversations, FiniteSetTheorems, TLAPS

-----------------------------------------------------------------------------
(* The inductive invariant *)

\* What r is about to do, from its first read to its commit.
Joins(r) ==
    \/ req[r].pc = "read_target"
    \/ req[r].pc \in {"flush", "commit"} /\ req[r].op \in {"join", "rejoin"}

Leaves(r) ==
    \/ req[r].pc = "read_actor"
    \/ req[r].pc \in {"flush", "commit"} /\ req[r].op = "leave"

Deletes(r) == req[r].pc \in {"flush", "commit"} /\ req[r].op = "delete"

Creates(r) == req[r].pc = "commit" /\ req[r].op \in {"create_direct", "create_group"}

Sends(r) ==
    \/ req[r].pc \in {"read", "touch"}
    \/ req[r].pc = "commit" /\ req[r].op \in {"send", "send_touch"}

\* The membership row r works on, and the one of its actor.
TargetRow(r) == members[req[r].conv][req[r].target]
ActorRow(r) == members[req[r].conv][req[r].actor]

Names(r) == req[r].conv \in Convs /\ req[r].actor \in Users

\* A membership is changed in a group only, and what the handler read of it is still
\* so: roles are never rewritten and rows of a group never deleted.
JoinShape(r) == Joins(r) =>
    /\ Names(r) /\ req[r].target \in Users
    /\ convs[req[r].conv].kind = "group"
    /\ ActorRow(r).role = "group_admin"
    /\ req[r].pc # "read_target" /\ req[r].op = "rejoin" => TargetRow(r).state # "none"
    /\ req[r].pc = "commit" /\ req[r].op = "join" => TargetRow(r).state = "none"

LeaveShape(r) == Leaves(r) =>
    /\ Names(r) /\ req[r].target \in Users
    /\ convs[req[r].conv].kind = "group"
    /\ TargetRow(r).state # "none"
    /\ \/ req[r].pc = "read_actor"
       \/ req[r].actor = req[r].target
       \/ ActorRow(r).role = "group_admin"

DeleteShape(r) == Deletes(r) =>
    Names(r) /\ convs[req[r].conv].kind \in {"direct", "deleted"}

CreateShape(r) == Creates(r) =>
    /\ Names(r)
    /\ convs[req[r].conv].kind = "none"
    /\ req[r].op = "create_direct" => req[r].target \in Users \ {req[r].actor}

\* The conversation of a send can disappear until its message is inserted, not after.
SendShape(r) ==
    /\ req[r].pc = "insert" =>
          /\ Names(r)
          /\ convs[req[r].conv].kind \in {"direct", "group", "deleted"}
          /\ convs[req[r].conv].kind # "deleted" => ActorRow(r).state # "none"
    /\ Sends(r) =>
          /\ Names(r) /\ req[r].sent_at \in Stamps
          /\ convs[req[r].conv].kind \in {"direct", "group"}
          /\ ActorRow(r).state # "none"
          /\ req[r].pc # "read" => req[r].others = {}

Shape(r) ==
    /\ JoinShape(r)
    /\ LeaveShape(r)
    /\ DeleteShape(r)
    /\ CreateShape(r)
    /\ SendShape(r)

\* What the locks and the uuids keep apart: a conversation being created is known to its
\* creator alone, nobody else writes a membership being inserted, and nobody sends
\* into a conversation whose DELETE has been flushed.
Apart(r, q) ==
    /\ Creates(r) => req[q].conv # req[r].conv
    /\ req[r].pc = "commit" /\ req[r].op = "join" =>
           ~WritesMember(q, req[r].conv, req[r].target)
    /\ req[r].pc = "commit" /\ req[r].op = "delete" =>
           ~(Sends(q) /\ req[q].conv = req[r].conv)

RequestsInv ==
    /\ \A r \in Requests : Shape(r)
    /\ \A r, q \in Requests : r # q => Apart(r, q)

\* The row create_direct writes for each of its two members.
DirectRow == [state |-> "active", role |-> "null"]

\* The two members of a direct conversation.
DirectPairs ==
    \A c \in Convs : convs[c].kind = "direct" =>
        \E u, v \in Users :
            /\ u # v
            /\ \A w \in Users :
                  members[c][w] = IF w \in {u, v} THEN DirectRow ELSE NoParticipant

Inserting == {r \in Requests : req[r].pc = "insert"}

\* There is a stamp left for every message about to be inserted.
StampsLeft == Cardinality(Inserting) <= MaxMessages - clock

IInv ==
    /\ TypeOK
    /\ RequestsInv
    /\ NothingOutlivesItsConversation
    /\ DirectPairs
    /\ StampsLeft

-----------------------------------------------------------------------------
(* Type correctness *)

LEMMA IdleIsRequest == Idle \in Request
  BY DEF Idle, Request

LEMMA RowsTyped ==
    /\ NoParticipant \in Participant /\ DirectRow \in Participant
    /\ \A p \in Participant : /\ p.state \in {"none", "active", "left"}
                              /\ p.role \in {"null", "member", "group_admin"}
                              /\ p = [state |-> p.state, role |-> p.role]
                              /\ p.state = "none" <=> p = NoParticipant
                              /\ p.role = "group_admin" => p.state # "none"
  BY DEF NoParticipant, DirectRow, Participant

\* The users of an actor, conversation and target that were read.
LEMMA RequestTyped ==
    ASSUME TypeOK, NEW r \in Requests
    PROVE  /\ req[r] \in Request
           /\ req[r].actor \in Users \cup {NoUser} /\ req[r].target \in Users \cup {NoUser}
           /\ req[r].conv \in Convs \cup {NoConv} /\ req[r].others \in SUBSET Users
           /\ req[r].sent_at \in Stamps \cup {NoStamp} /\ req[r].seen \in Stamps \cup {NoStamp}
  BY DEF TypeOK, Request

LEMMA InitTypeOK == Init => TypeOK
  BY IdleIsRequest, RowsTyped, MaxAssumption
     DEF Init, TypeOK, Conversation, NoStamp

\* A request about to insert a message leaves a stamp for itself.
LEMMA StampForInsert ==
    ASSUME TypeOK, StampsLeft, NEW r \in Requests, req[r].pc = "insert"
    PROVE  clock + 1 \in Stamps
  <1>1. IsFiniteSet(Inserting)
    BY RequestsAssumption, FS_Subset DEF Inserting
  <1>2. Inserting # {}
    BY DEF Inserting
  <1>3. Cardinality(Inserting) \in Nat /\ Cardinality(Inserting) # 0
    BY <1>1, <1>2, FS_CardinalityType, FS_EmptySet
  <1>4. clock \in 0 .. MaxMessages
    BY DEF TypeOK
  <1>5. Cardinality(Inserting) <= MaxMessages - clock
    BY DEF StampsLeft
  <1> QED BY <1>3, <1>4, <1>5, MaxAssumption DEF Stamps
\* Every step keeps the state well typed.
LEMMA NextTypeOK == IInv /\ [Next]_vars => TypeOK'
  <1> SUFFICES ASSUME IInv, [Next]_vars
               PROVE  TypeOK'
    OBVIOUS
  <1>t. TypeOK
    BY DEF IInv
  <1> USE IdleIsRequest
  <1>1. ASSUME NEW r \in Requests, NEW u \in Users, NEW v \in Users, NEW c \in Convs,
               \/ DirectFound(r, u, v, c) \/ DirectInsert(r, u, v, c)
               \/ AddAuthorize(r, u, c, v) \/ RemoveRead(r, u, c, v)
               \/ LeaveRead(r, u, c) \/ DeleteRead(r, u, c) \/ SendAuthorize(r, u, c)
        PROVE  TypeOK'
    <2>1. PICK q \in Request : Become(r, q)
      <3>1. /\ [Idle EXCEPT !.pc = "flush", !.op = "rejoin",
                            !.actor = u, !.target = u, !.conv = c] \in Request
            /\ [Idle EXCEPT !.pc = "commit", !.op = "create_direct",
                            !.actor = u, !.target = v, !.conv = c] \in Request
            /\ [Idle EXCEPT !.pc = "flush", !.op = "leave",
                            !.actor = u, !.target = u, !.conv = c] \in Request
        BY DEF Request, Idle
      <3>2. /\ [Idle EXCEPT !.pc = "read_target", !.actor = u, !.target = v, !.conv = c] \in Request
            /\ [Idle EXCEPT !.pc = "read_actor", !.actor = u, !.target = v, !.conv = c] \in Request
        BY DEF Request, Idle
      <3>3. /\ [Idle EXCEPT !.pc = "flush", !.op = "delete", !.actor = u, !.conv = c] \in Request
            /\ [Idle EXCEPT !.pc = "insert", !.actor = u, !.conv = c] \in Request
        BY DEF Request, Idle
      <3> QED BY <1>1, <3>1, <3>2, <3>3
                 DEF DirectFound, DirectInsert, AddAuthorize, RemoveRead, LeaveRead,
                     DeleteRead, SendAuthorize
    <2>2. TablesUnchanged
      BY <1>1 DEF DirectFound, DirectInsert, AddAuthorize, RemoveRead, LeaveRead,
                  DeleteRead, SendAuthorize
    <2> QED BY <1>t, <2>1, <2>2 DEF TypeOK, TablesUnchanged, Become
  <1>2. ASSUME NEW r \in Requests, NEW u \in Users, NEW c \in Convs, NEW others \in SUBSET Users,
               GroupInsert(r, u, others, c)
        PROVE  TypeOK'
    <2>1. [Idle EXCEPT !.pc = "commit", !.op = "create_group",
                       !.actor = u, !.others = others, !.conv = c] \in Request
      BY DEF Request, Idle
    <2> QED BY <1>t, <1>2, <2>1 DEF TypeOK, GroupInsert, Become, TablesUnchanged
  <1>3. ASSUME NEW r \in Requests,
               \/ AddAlreadyActive(r) \/ JoinConflict(r) \/ RemoveRefused(r)
               \/ SendOrphaned(r) \/ Abort(r)
        PROVE  TypeOK'
    BY <1>t, <1>3 DEF TypeOK, AddAlreadyActive, JoinConflict, RemoveRefused, SendOrphaned,
                      Abort, Become, TablesUnchanged
  <1>4. ASSUME NEW r \in Requests,
               \/ AddReadLeft(r) \/ AddReadNone(r) \/ FlushJoin(r) \/ RemoveAuthorize(r)
               \/ FlushMembership(r) \/ FlushDelete(r) \/ SendKeep(r) \/ SendTouch(r)
        PROVE  TypeOK'
    <2>1. req[r] \in Request
      BY <1>t DEF TypeOK
    <2>2. /\ [req[r] EXCEPT !.pc = "flush", !.op = "rejoin"] \in Request
          /\ [req[r] EXCEPT !.pc = "flush", !.op = "join"] \in Request
          /\ [req[r] EXCEPT !.pc = "flush", !.op = "leave"] \in Request
          /\ [req[r] EXCEPT !.pc = "commit"] \in Request
          /\ [req[r] EXCEPT !.pc = "commit", !.op = "send"] \in Request
          /\ [req[r] EXCEPT !.pc = "commit", !.op = "send_touch"] \in Request
      <3>1. \A op \in {"rejoin", "join", "leave"} :
               [req[r] EXCEPT !.pc = "flush", !.op = op] \in Request
        BY <2>1 DEF Request
      <3>2. \A op \in {"send", "send_touch"} :
               [req[r] EXCEPT !.pc = "commit", !.op = op] \in Request
        BY <2>1 DEF Request
      <3>3. [req[r] EXCEPT !.pc = "commit"] \in Request
        BY <2>1 DEF Request
      <3> QED BY <3>1, <3>2, <3>3
    <2>3. req' \in [Requests -> Request]
      BY <1>t, <1>4, <2>2 DEF TypeOK, AddReadLeft, AddReadNone, FlushJoin, RemoveAuthorize,
                              FlushMembership, FlushDelete, SendKeep, SendTouch, Become
    <2>4. UNCHANGED <<convs, members, messages, clock>>
      BY <1>4 DEF AddReadLeft, AddReadNone, FlushJoin, RemoveAuthorize, FlushMembership,
                  FlushDelete, SendKeep, SendTouch, TablesUnchanged
    <2> QED BY <1>t, <2>3, <2>4 DEF TypeOK
  <1>5. ASSUME NEW r \in Requests, SendInsert(r)
        PROVE  TypeOK'
    <2>1. clock + 1 \in Stamps /\ clock + 1 \in 0 .. MaxMessages
      BY <1>5, StampForInsert, MaxAssumption DEF SendInsert, IInv, Stamps
    <2>2. [req[r] EXCEPT !.pc = "read", !.sent_at = clock + 1] \in Request
      BY <1>t, <2>1 DEF TypeOK, Request
    <2> QED BY <1>t, <1>5, <2>1, <2>2 DEF TypeOK, SendInsert, Become
  <1>6. ASSUME NEW r \in Requests, SendRead(r)
        PROVE  TypeOK'
    <2>1. req[r].conv \in Convs
      BY <1>6 DEF SendRead, IInv, RequestsInv, Shape, SendShape, Sends, Names
    <2>2. LeftRecipients(req[r].conv) \in SUBSET Users
      BY DEF LeftRecipients
    <2>3. convs[req[r].conv].last_message_at \in Stamps \cup {NoStamp}
      BY <1>t, <2>1 DEF TypeOK, Conversation
    <2>4. [req[r] EXCEPT !.pc = "touch", !.others = LeftRecipients(req[r].conv),
                         !.seen = convs[req[r].conv].last_message_at] \in Request
      BY <1>t, <2>2, <2>3 DEF TypeOK, Request
    <2> QED BY <1>t, <1>6, <2>4 DEF TypeOK, SendRead, Become, TablesUnchanged
  <1>7. ASSUME NEW r \in Requests, CommitDirect(r)
        PROVE  TypeOK'
    <2>1. members' \in [Convs -> [Users -> Participant]]
      BY <1>t, <1>7, RowsTyped DEF TypeOK, CommitDirect, DirectRow
    <2>2. convs' \in [Convs -> Conversation]
      BY <1>t, <1>7 DEF TypeOK, CommitDirect, Conversation
    <2> QED BY <1>t, <1>7, <2>1, <2>2 DEF TypeOK, CommitDirect, Become
  <1>8. ASSUME NEW r \in Requests, CommitGroup(r)
        PROVE  TypeOK'
    <2>1. members' \in [Convs -> [Users -> Participant]]
      BY <1>t, <1>8, RowsTyped DEF TypeOK, CommitGroup, Participant
    <2>2. convs' \in [Convs -> Conversation]
      BY <1>t, <1>8 DEF TypeOK, CommitGroup, Conversation
    <2> QED BY <1>t, <1>8, <2>1, <2>2 DEF TypeOK, CommitGroup, Become
  <1>9. ASSUME NEW r \in Requests, CommitJoin(r) \/ CommitRejoin(r) \/ CommitLeave(r)
        PROVE  TypeOK'
    <2>1. req[r].conv \in Convs /\ req[r].target \in Users
      BY <1>9 DEF CommitJoin, CommitRejoin, CommitLeave, IInv, RequestsInv, Shape,
                  JoinShape, LeaveShape, Joins, Leaves, Names
    <2>2. members[req[r].conv][req[r].target] \in Participant
      BY <1>t, <2>1 DEF TypeOK
    <2>3. /\ [state |-> "active", role |-> "member"] \in Participant
          /\ [members[req[r].conv][req[r].target] EXCEPT !.state = "active"] \in Participant
          /\ [members[req[r].conv][req[r].target] EXCEPT !.state = "left"] \in Participant
      BY <2>2, RowsTyped DEF Participant
    <2>4. PICK p \in Participant :
              members' = [members EXCEPT ![req[r].conv] =
                             [members[req[r].conv] EXCEPT ![req[r].target] = p]]
      BY <1>t, <1>9, <2>1, <2>3 DEF TypeOK, CommitJoin, CommitRejoin, CommitLeave
    <2>5. members' \in [Convs -> [Users -> Participant]]
      BY <1>t, <2>1, <2>4 DEF TypeOK
    <2> QED BY <1>t, <1>9, <2>5 DEF TypeOK, CommitJoin, CommitRejoin, CommitLeave, Become
  <1>10. ASSUME NEW r \in Requests, CommitDelete(r)
         PROVE  TypeOK'
    <2>1. members' \in [Convs -> [Users -> Participant]]
      BY <1>t, <1>10, RowsTyped DEF TypeOK, CommitDelete
    <2>2. convs' \in [Convs -> Conversation]
      BY <1>t, <1>10 DEF TypeOK, CommitDelete, Conversation
    <2> QED BY <1>t, <1>10, <2>1, <2>2 DEF TypeOK, CommitDelete, Become
  <1>11. ASSUME NEW r \in Requests, CommitSend(r)
         PROVE  TypeOK'
    <2>1. req[r].conv \in Convs /\ req[r].actor \in Users /\ req[r].sent_at \in Stamps
      BY <1>11 DEF CommitSend, IInv, RequestsInv, Shape, SendShape, Sends, Names
    <2>2. messages' \in SUBSET Message
      BY <1>t, <1>11, <2>1 DEF TypeOK, CommitSend, Message
    <2>3. \A u \in Users : [members[req[r].conv][u] EXCEPT !.state = "active"] \in Participant
      BY <1>t, <2>1, RowsTyped DEF TypeOK, Participant
    <2>4. members' \in [Convs -> [Users -> Participant]]
      BY <1>t, <1>11, <2>1, <2>3 DEF TypeOK, CommitSend
    <2>5. convs' \in [Convs -> Conversation]
      BY <1>t, <1>11, <2>1 DEF TypeOK, CommitSend, Conversation
    <2> QED BY <1>t, <1>11, <2>2, <2>4, <2>5 DEF TypeOK, CommitSend, Become
  <1>12. CASE UNCHANGED vars
    BY <1>t, <1>12 DEF vars, TypeOK
  <1> QED
    BY <1>1, <1>2, <1>3, <1>4, <1>5, <1>6, <1>7, <1>8, <1>9, <1>10, <1>11, <1>12
       DEF Next, Receive, Progress, Refused
-----------------------------------------------------------------------------
(* Requests and tables *)

LEMMA InitIInv == Init => IInv
  <1> SUFFICES ASSUME Init PROVE IInv
    OBVIOUS
  <1>1. \A r \in Requests : req[r].pc = "idle" /\ req[r].op = "none"
    BY DEF Init, Idle
  <1>2. RequestsInv
    BY <1>1 DEF RequestsInv, Shape, JoinShape, LeaveShape, DeleteShape, CreateShape, SendShape,
                Apart, Joins, Leaves, Deletes, Creates, Sends
  <1>3. NothingOutlivesItsConversation /\ DirectPairs
    BY DEF Init, NothingOutlivesItsConversation, DirectPairs, NoParticipant
  <1>4. Inserting = {}
    BY <1>1 DEF Inserting
  <1>5. StampsLeft
    BY <1>4, FS_EmptySet, MaxAssumption DEF Init, StampsLeft
  <1> QED BY <1>2, <1>3, <1>5, InitTypeOK DEF IInv

\* A step that commits nothing keeps the invariant if the one request it moves does.
LEMMA QuietStep ==
    ASSUME RequestsInv, NothingOutlivesItsConversation, DirectPairs,
           NEW r \in Requests,
           \A q \in Requests \ {r} : req'[q] = req[q],
           UNCHANGED <<convs, members, messages>>,
           Shape(r)',
           \A q \in Requests \ {r} : Apart(r, q)' /\ Apart(q, r)'
    PROVE  RequestsInv' /\ NothingOutlivesItsConversation' /\ DirectPairs'
  <1>1. \A q \in Requests \ {r} : Shape(q)'
    <2> SUFFICES ASSUME NEW q \in Requests \ {r} PROVE Shape(q)'
      OBVIOUS
    <2>1. Shape(q) /\ req'[q] = req[q]
      BY DEF RequestsInv
    <2> QED BY <2>1 DEF Shape, JoinShape, LeaveShape, DeleteShape, CreateShape, SendShape,
                        Joins, Leaves, Deletes, Creates, Sends, Names, ActorRow, TargetRow
  <1>2. \A p, q \in Requests : p # q => Apart(p, q)'
    <2> SUFFICES ASSUME NEW p \in Requests, NEW q \in Requests, p # q PROVE Apart(p, q)'
      OBVIOUS
    <2>1. CASE p = r \/ q = r
      BY <2>1
    <2>2. CASE p # r /\ q # r
      <3>1. Apart(p, q) /\ req'[p] = req[p] /\ req'[q] = req[q]
        BY <2>2 DEF RequestsInv
      <3> QED BY <3>1 DEF Apart, Creates, Sends, WritesMember
    <2> QED BY <2>1, <2>2
  <1>3. RequestsInv'
    BY <1>1, <1>2 DEF RequestsInv
  <1>4. NothingOutlivesItsConversation' /\ DirectPairs'
    BY DEF NothingOutlivesItsConversation, DirectPairs
  <1> QED BY <1>3, <1>4

\* An idle request holds nothing.
LEMMA IdleHoldsNothing ==
    ASSUME RequestsInv, NEW r \in Requests,
           req'[r] = Idle,
           \A q \in Requests \ {r} : req'[q] = req[q] /\ Shape(q)'
    PROVE  Shape(r)' /\ \A q \in Requests \ {r} : Apart(r, q)' /\ Apart(q, r)'
  <1>1. req'[r].pc = "idle" /\ req'[r].op = "none" /\ req'[r].conv = NoConv
    BY DEF Idle
  <1>2. Shape(r)'
    BY <1>1 DEF Shape, JoinShape, LeaveShape, DeleteShape, CreateShape, SendShape,
                Joins, Leaves, Deletes, Creates, Sends
  <1>3. ASSUME NEW q \in Requests \ {r}
        PROVE  Apart(r, q)' /\ Apart(q, r)'
    <2>1. Apart(r, q)'
      BY <1>1 DEF Apart, Creates
    <2>2. Creates(q)' => req'[q].conv # NoConv
      BY NullAssumption DEF Shape, CreateShape, Names
    <2> QED BY <1>1, <2>1, <2>2 DEF Apart, WritesMember, Sends
  <1> QED BY <1>2, <1>3
\* A request that ends: what the others hold stays apart.
LEMMA EndStep ==
    ASSUME TypeOK, RequestsInv, NEW r \in Requests, Become(r, Idle),
           \A q \in Requests \ {r} : Shape(q)'
    PROVE  RequestsInv'
  <1>1. req'[r] = Idle /\ \A q \in Requests \ {r} : req'[q] = req[q]
    BY DEF Become, TypeOK
  <1>2. Shape(r)' /\ \A q \in Requests \ {r} : Apart(r, q)' /\ Apart(q, r)'
    BY <1>1, IdleHoldsNothing
  <1>3. \A p, q \in Requests : p # q => Apart(p, q)'
    <2> SUFFICES ASSUME NEW p \in Requests, NEW q \in Requests, p # q PROVE Apart(p, q)'
      OBVIOUS
    <2>1. CASE p = r \/ q = r
      BY <1>2, <2>1
    <2>2. CASE p # r /\ q # r
      <3>1. Apart(p, q) /\ req'[p] = req[p] /\ req'[q] = req[q]
        BY <1>1, <2>2 DEF RequestsInv
      <3> QED BY <3>1 DEF Apart, Creates, Sends, WritesMember
    <2> QED BY <2>1, <2>2
  <1> QED BY <1>2, <1>3 DEF RequestsInv

\* A request refused or rolled back.
LEMMA RollbackStep ==
    ASSUME IInv, NEW r \in Requests, Become(r, Idle), TablesUnchanged
    PROVE  RequestsInv' /\ NothingOutlivesItsConversation' /\ DirectPairs'
  <1>1. \A q \in Requests \ {r} : req'[q] = req[q]
    BY DEF Become, IInv, TypeOK
  <1>2. \A q \in Requests \ {r} : Shape(q)'
    <2> SUFFICES ASSUME NEW q \in Requests \ {r} PROVE Shape(q)'
      OBVIOUS
    <2>1. Shape(q) /\ req'[q] = req[q]
      BY <1>1 DEF IInv, RequestsInv
    <2> QED BY <2>1 DEF TablesUnchanged, Shape, JoinShape, LeaveShape, DeleteShape, CreateShape,
                        SendShape, Joins, Leaves, Deletes, Creates, Sends, Names, ActorRow,
                        TargetRow
  <1>3. RequestsInv'
    BY <1>2, EndStep DEF IInv
  <1>4. NothingOutlivesItsConversation' /\ DirectPairs'
    BY DEF IInv, TablesUnchanged, NothingOutlivesItsConversation, DirectPairs
  <1> QED BY <1>3, <1>4

\* Nobody ever leaves a direct conversation, so no send reactivates anybody.
LEMMA NoLeftRecipients ==
    ASSUME TypeOK, DirectPairs, NEW c \in Convs
    PROVE  /\ LeftRecipients(c) = {}
           /\ convs[c].kind = "direct" => \A u \in Users : members[c][u].state # "left"
  BY DEF DirectPairs, LeftRecipients, DirectRow, NoParticipant

\* A request that is still reading stays apart from the others as long as it does not
\* name a conversation that one of them is creating.
LEMMA ReadsApart ==
    ASSUME RequestsInv, NEW r \in Requests,
           \A q \in Requests \ {r} : req'[q] = req[q],
           req'[r].pc \in {"read_target", "read_actor", "flush", "insert"},
           \A q \in Requests \ {r} : Creates(q) => req'[r].conv # req[q].conv
    PROVE  \A q \in Requests \ {r} : Apart(r, q)' /\ Apart(q, r)'
  <1> SUFFICES ASSUME NEW q \in Requests \ {r} PROVE Apart(r, q)' /\ Apart(q, r)'
    OBVIOUS
  <1>1. Apart(r, q)'
    BY DEF Apart, Creates
  <1>2. Creates(q)' => req'[r].conv # req'[q].conv
    BY DEF Creates
  <1>3. ~Sends(r)' /\ \A c, u : ~WritesMember(r, c, u)'
    BY DEF Sends, WritesMember
  <1> QED BY <1>1, <1>2, <1>3 DEF Apart

\* The first reads of a request.
LEMMA ReceiveStep ==
    ASSUME IInv, NEW r \in Requests, Receive(r)
    PROVE  RequestsInv' /\ NothingOutlivesItsConversation' /\ DirectPairs'
  <1> USE DEF IInv
  <1> DEFINE Goal == RequestsInv' /\ NothingOutlivesItsConversation' /\ DirectPairs'
  <1>e. \A c \in Convs, u \in Users : Active(c, u) => convs[c].kind \in {"direct", "group"}
    BY DEF NothingOutlivesItsConversation, Active
  <1>c. \A q \in Requests, c \in Convs :
            Creates(q) /\ convs[c].kind # "none" => req[q].conv # c
    BY DEF RequestsInv, Shape, CreateShape
  <1>1. ASSUME NEW u \in Users, NEW v \in Users, NEW c \in Convs, DirectFound(r, u, v, c)
        PROVE  Goal
    <2>1. members[c][u].state # "left"
      BY <1>1, NoLeftRecipients DEF DirectFound, DirectsOf
    <2> QED BY <1>1, <2>1, RollbackStep DEF DirectFound
  <1>2. ASSUME NEW u \in Users, NEW v \in Users, NEW c \in Convs, DirectInsert(r, u, v, c)
        PROVE  Goal
    <2>1. /\ req'[r].pc = "commit" /\ req'[r].op = "create_direct" /\ req'[r].conv = c
          /\ req'[r].actor = u /\ req'[r].target = v
          /\ \A q \in Requests \ {r} : req'[q] = req[q] /\ req[q].conv # c
          /\ UNCHANGED <<convs, members, messages>>
      BY <1>2 DEF DirectInsert, Become, TablesUnchanged, TypeOK, Idle, Fresh
    <2>2. Shape(r)'
      BY <1>2, <2>1 DEF DirectInsert, Fresh, Shape, JoinShape, LeaveShape, DeleteShape,
                        CreateShape, SendShape, Joins, Leaves, Deletes, Creates, Sends, Names
    <2>3. \A q \in Requests \ {r} : Apart(r, q)' /\ Apart(q, r)'
      BY <2>1 DEF Apart, Creates, Sends, WritesMember
    <2> QED BY <2>1, <2>2, <2>3, QuietStep
  <1>3. ASSUME NEW u \in Users, NEW others \in SUBSET Users, NEW c \in Convs,
               GroupInsert(r, u, others, c)
        PROVE  Goal
    <2>1. /\ req'[r].pc = "commit" /\ req'[r].op = "create_group" /\ req'[r].conv = c
          /\ req'[r].actor = u
          /\ \A q \in Requests \ {r} : req'[q] = req[q] /\ req[q].conv # c
          /\ UNCHANGED <<convs, members, messages>>
      BY <1>3 DEF GroupInsert, Become, TablesUnchanged, TypeOK, Idle, Fresh
    <2>2. Shape(r)'
      BY <1>3, <2>1 DEF GroupInsert, Fresh, Shape, JoinShape, LeaveShape, DeleteShape,
                        CreateShape, SendShape, Joins, Leaves, Deletes, Creates, Sends, Names
    <2>3. \A q \in Requests \ {r} : Apart(r, q)' /\ Apart(q, r)'
      BY <2>1 DEF Apart, Creates, Sends, WritesMember
    <2> QED BY <2>1, <2>2, <2>3, QuietStep
  <1>4. ASSUME NEW u \in Users, NEW v \in Users, NEW c \in Convs, AddAuthorize(r, u, c, v)
        PROVE  Goal
    <2>1. /\ req'[r].pc = "read_target" /\ req'[r].op = "none" /\ req'[r].conv = c
          /\ req'[r].actor = u /\ req'[r].target = v
          /\ \A q \in Requests \ {r} : req'[q] = req[q]
          /\ UNCHANGED <<convs, members, messages>>
      BY <1>4 DEF AddAuthorize, Become, TablesUnchanged, TypeOK, Idle
    <2>2. Shape(r)'
      BY <1>4, <2>1 DEF AddAuthorize, IsGroupAdmin, Shape, JoinShape, LeaveShape, DeleteShape,
                        CreateShape, SendShape, Joins, Leaves, Deletes, Creates, Sends, Names,
                        ActorRow
    <2>3. \A q \in Requests \ {r} : Creates(q) => req'[r].conv # req[q].conv
      BY <1>4, <1>c, <2>1 DEF AddAuthorize
    <2>4. \A q \in Requests \ {r} : Apart(r, q)' /\ Apart(q, r)'
      BY <2>1, <2>3, ReadsApart
    <2> QED BY <2>1, <2>2, <2>4, QuietStep
  <1>5. ASSUME NEW u \in Users, NEW v \in Users, NEW c \in Convs, RemoveRead(r, u, c, v)
        PROVE  Goal
    <2>1. /\ req'[r].pc = "read_actor" /\ req'[r].op = "none" /\ req'[r].conv = c
          /\ req'[r].actor = u /\ req'[r].target = v
          /\ \A q \in Requests \ {r} : req'[q] = req[q]
          /\ UNCHANGED <<convs, members, messages>>
      BY <1>5 DEF RemoveRead, Become, TablesUnchanged, TypeOK, Idle
    <2>2. Shape(r)'
      BY <1>5, <2>1 DEF RemoveRead, Active, Shape, JoinShape, LeaveShape, DeleteShape,
                        CreateShape, SendShape, Joins, Leaves, Deletes, Creates, Sends, Names,
                        TargetRow
    <2>3. \A q \in Requests \ {r} : Creates(q) => req'[r].conv # req[q].conv
      BY <1>5, <1>c, <2>1 DEF RemoveRead
    <2>4. \A q \in Requests \ {r} : Apart(r, q)' /\ Apart(q, r)'
      BY <2>1, <2>3, ReadsApart
    <2> QED BY <2>1, <2>2, <2>4, QuietStep
  <1>6. ASSUME NEW u \in Users, NEW c \in Convs, LeaveRead(r, u, c)
        PROVE  Goal
    <2>1. /\ req'[r].pc = "flush" /\ req'[r].op = "leave" /\ req'[r].conv = c
          /\ req'[r].actor = u /\ req'[r].target = u
          /\ \A q \in Requests \ {r} : req'[q] = req[q]
          /\ UNCHANGED <<convs, members, messages>>
      BY <1>6 DEF LeaveRead, Become, TablesUnchanged, TypeOK, Idle
    <2>2. Shape(r)'
      BY <1>6, <2>1 DEF LeaveRead, Active, Shape, JoinShape, LeaveShape, DeleteShape,
                        CreateShape, SendShape, Joins, Leaves, Deletes, Creates, Sends, Names,
                        TargetRow
    <2>3. \A q \in Requests \ {r} : Creates(q) => req'[r].conv # req[q].conv
      BY <1>6, <1>c, <2>1 DEF LeaveRead
    <2>4. \A q \in Requests \ {r} : Apart(r, q)' /\ Apart(q, r)'
      BY <2>1, <2>3, ReadsApart
    <2> QED BY <2>1, <2>2, <2>4, QuietStep
  <1>7. ASSUME NEW u \in Users, NEW c \in Convs, DeleteRead(r, u, c)
        PROVE  Goal
    <2>1. /\ req'[r].pc = "flush" /\ req'[r].op = "delete" /\ req'[r].conv = c
          /\ req'[r].actor = u
          /\ \A q \in Requests \ {r} : req'[q] = req[q]
          /\ UNCHANGED <<convs, members, messages>>
      BY <1>7 DEF DeleteRead, Become, TablesUnchanged, TypeOK, Idle
    <2>2. Shape(r)'
      BY <1>7, <2>1 DEF DeleteRead, Shape, JoinShape, LeaveShape, DeleteShape,
                        CreateShape, SendShape, Joins, Leaves, Deletes, Creates, Sends, Names
    <2>3. \A q \in Requests \ {r} : Creates(q) => req'[r].conv # req[q].conv
      BY <1>7, <1>c, <2>1 DEF DeleteRead
    <2>4. \A q \in Requests \ {r} : Apart(r, q)' /\ Apart(q, r)'
      BY <2>1, <2>3, ReadsApart
    <2> QED BY <2>1, <2>2, <2>4, QuietStep
  <1>8. ASSUME NEW u \in Users, NEW c \in Convs, SendAuthorize(r, u, c)
        PROVE  Goal
    <2>1. /\ req'[r].pc = "insert" /\ req'[r].op = "none" /\ req'[r].conv = c
          /\ req'[r].actor = u
          /\ \A q \in Requests \ {r} : req'[q] = req[q]
          /\ UNCHANGED <<convs, members, messages>>
      BY <1>8 DEF SendAuthorize, Become, TablesUnchanged, TypeOK, Idle
    <2>2. convs[c].kind \in {"direct", "group"}
      BY <1>8, <1>e DEF SendAuthorize
    <2>3. Shape(r)'
      BY <1>8, <2>1, <2>2 DEF SendAuthorize, Active, Shape, JoinShape, LeaveShape, DeleteShape,
                        CreateShape, SendShape, Joins, Leaves, Deletes, Creates, Sends, Names,
                        ActorRow
    <2>4. \A q \in Requests \ {r} : Creates(q) => req'[r].conv # req[q].conv
      BY <1>c, <2>1, <2>2
    <2>5. \A q \in Requests \ {r} : Apart(r, q)' /\ Apart(q, r)'
      BY <2>1, <2>4, ReadsApart
    <2> QED BY <2>1, <2>3, <2>5, QuietStep
  <1> QED BY <1>1, <1>2, <1>3, <1>4, <1>5, <1>6, <1>7, <1>8 DEF Receive
\* The later reads and the flushes of a request.
LEMMA ReadOrFlushStep ==
    ASSUME IInv, NEW r \in Requests,
           \/ AddReadLeft(r) \/ AddReadNone(r) \/ RemoveAuthorize(r)
           \/ FlushJoin(r) \/ FlushMembership(r) \/ FlushDelete(r)
    PROVE  RequestsInv' /\ NothingOutlivesItsConversation' /\ DirectPairs'
  <1> USE DEF IInv
  <1> DEFINE Goal == RequestsInv' /\ NothingOutlivesItsConversation' /\ DirectPairs'
  <1>t. req[r] \in Request
    BY DEF TypeOK
  <1>s. Shape(r)
    BY DEF RequestsInv
  <1>c. \A q \in Requests \ {r} : Creates(q) => req[r].conv # req[q].conv
    BY DEF RequestsInv, Apart
  <1>u. UNCHANGED <<convs, members, messages>>
    BY DEF AddReadLeft, AddReadNone, RemoveAuthorize, FlushJoin, FlushMembership, FlushDelete,
           TablesUnchanged
  <1>k. /\ req'[r].conv = req[r].conv /\ req'[r].actor = req[r].actor
        /\ req'[r].target = req[r].target
        /\ \A q \in Requests \ {r} : req'[q] = req[q]
    <2>1. CASE AddReadLeft(r)
      BY <1>t, <2>1 DEF AddReadLeft, Become, TypeOK, Request
    <2>2. CASE AddReadNone(r)
      BY <1>t, <2>2 DEF AddReadNone, Become, TypeOK, Request
    <2>3. CASE RemoveAuthorize(r)
      BY <1>t, <2>3 DEF RemoveAuthorize, Become, TypeOK, Request
    <2>4. CASE FlushJoin(r)
      BY <1>t, <2>4 DEF FlushJoin, Become, TypeOK, Request
    <2>5. CASE FlushMembership(r)
      BY <1>t, <2>5 DEF FlushMembership, Become, TypeOK, Request
    <2>6. CASE FlushDelete(r)
      BY <1>t, <2>6 DEF FlushDelete, Become, TypeOK, Request
    <2> QED BY <2>1, <2>2, <2>3, <2>4, <2>5, <2>6
  <1>1. ASSUME AddReadLeft(r) \/ AddReadNone(r) \/ RemoveAuthorize(r)
        PROVE  Goal
    <2>1. /\ req'[r].pc = "flush"
          /\ \/ /\ req[r].pc = "read_target" /\ req'[r].op = "rejoin"
                /\ TargetRow(r).state # "none"
             \/ req[r].pc = "read_target" /\ req'[r].op = "join"
             \/ /\ req[r].pc = "read_actor" /\ req'[r].op = "leave"
                /\ ActorRow(r).role = "group_admin"
      <3>1. CASE AddReadLeft(r)
        BY <1>t, <3>1 DEF AddReadLeft, Become, TypeOK, Request, TargetRow
      <3>2. CASE AddReadNone(r)
        BY <1>t, <3>2 DEF AddReadNone, Become, TypeOK, Request
      <3>3. CASE RemoveAuthorize(r)
        BY <1>t, <3>3 DEF RemoveAuthorize, Become, TypeOK, Request, ActorRow, IsGroupAdmin
      <3> QED BY <1>1, <3>1, <3>2, <3>3
    <2>2. Shape(r)'
      BY <1>s, <1>u, <1>k, <2>1
         DEF Shape, JoinShape, LeaveShape, DeleteShape, CreateShape, SendShape, Joins, Leaves,
             Deletes, Creates, Sends, Names, ActorRow, TargetRow
    <2>3. \A q \in Requests \ {r} : Creates(q) => req'[r].conv # req[q].conv
      BY <1>c, <1>k
    <2>4. \A q \in Requests \ {r} : Apart(r, q)' /\ Apart(q, r)'
      BY <1>k, <2>1, <2>3, ReadsApart
    <2> QED BY <1>u, <1>k, <2>2, <2>4, QuietStep
  <1>2. ASSUME FlushJoin(r) \/ FlushMembership(r) \/ FlushDelete(r)
        PROVE  Goal
    <2>1. /\ req[r].pc = "flush" /\ req'[r].pc = "commit" /\ req'[r].op = req[r].op
          /\ req[r].op \in {"join", "rejoin", "leave", "delete"}
          /\ req[r].op = "join" => TargetRow(r).state = "none"
          /\ req[r].op # "delete" =>
                \A q \in Requests : ~WritesMember(q, req[r].conv, req[r].target)
          /\ req[r].op = "delete" => \A q \in Requests : ~SharesConv(q, req[r].conv)
      <3>1. CASE FlushJoin(r)
        BY <1>t, <3>1 DEF FlushJoin, Become, TypeOK, Request, TargetRow, MemberUnlocked
      <3>2. CASE FlushMembership(r)
        BY <1>t, <3>2 DEF FlushMembership, Become, TypeOK, Request, MemberUnlocked
      <3>3. CASE FlushDelete(r)
        BY <1>t, <3>3 DEF FlushDelete, Become, TypeOK, Request
      <3> QED BY <1>2, <3>1, <3>2, <3>3
    <2>2. Shape(r)'
      BY <1>s, <1>u, <1>k, <2>1
         DEF Shape, JoinShape, LeaveShape, DeleteShape, CreateShape, SendShape, Joins, Leaves,
             Deletes, Creates, Sends, Names, ActorRow, TargetRow
    <2>3. ASSUME NEW q \in Requests \ {r}
          PROVE  Apart(r, q)' /\ Apart(q, r)'
      <3>1. Apart(q, r) /\ req'[q] = req[q]
        BY <1>k DEF RequestsInv
      <3>2. Apart(r, q)'
        BY <1>k, <2>1, <3>1 DEF Apart, Creates, Sends, SharesConv, WritesMember
      <3>3. ~Sends(r)'
        BY <2>1 DEF Sends
      <3>4. Creates(q)' => req'[r].conv # req'[q].conv
        BY <1>k, <3>1 DEF Apart, Creates
      <3>5. req[q].pc = "commit" /\ req[q].op = "join" =>
                ~WritesMember(r, req[q].conv, req[q].target)'
        <4>1. req[q].pc = "commit" /\ req[q].op = "join" =>
                  WritesMember(q, req[q].conv, req[q].target)
          BY DEF WritesMember
        <4> QED BY <1>k, <2>1, <4>1 DEF WritesMember
      <3>6. req'[q].pc = "commit" /\ req'[q].op = "join" =>
                ~WritesMember(r, req[q].conv, req[q].target)'
        BY <3>1, <3>5
      <3> QED BY <1>k, <3>1, <3>2, <3>3, <3>4, <3>6 DEF Apart, WritesMember
    <2> QED BY <1>u, <1>k, <2>2, <2>3, QuietStep
  <1> QED BY <1>1, <1>2

\* The steps of a send before its commit.
LEMMA SendStep ==
    ASSUME IInv, NEW r \in Requests,
           SendInsert(r) \/ SendRead(r) \/ SendKeep(r) \/ SendTouch(r)
    PROVE  RequestsInv' /\ NothingOutlivesItsConversation' /\ DirectPairs'
  <1> USE DEF IInv
  <1>t. req[r] \in Request
    BY DEF TypeOK
  <1>s. Shape(r)
    BY DEF RequestsInv
  <1>u. UNCHANGED <<convs, members, messages>>
    BY DEF SendInsert, SendRead, SendKeep, SendTouch, TablesUnchanged
  <1>k. /\ req'[r].conv = req[r].conv /\ req'[r].actor = req[r].actor
        /\ \A q \in Requests \ {r} : req'[q] = req[q]
    <2>1. CASE SendInsert(r)
      BY <1>t, <2>1 DEF SendInsert, Become, TypeOK, Request
    <2>2. CASE SendRead(r)
      BY <1>t, <2>2 DEF SendRead, Become, TypeOK, Request
    <2>3. CASE SendKeep(r)
      BY <1>t, <2>3 DEF SendKeep, Become, TypeOK, Request
    <2>4. CASE SendTouch(r)
      BY <1>t, <2>4 DEF SendTouch, Become, TypeOK, Request
    <2> QED BY <2>1, <2>2, <2>3, <2>4
  <1>p. \/ req'[r].pc \in {"read", "touch"}
        \/ req'[r].pc = "commit" /\ req'[r].op \in {"send", "send_touch"}
    <2>1. CASE SendInsert(r)
      BY <1>t, <2>1 DEF SendInsert, Become, TypeOK, Request
    <2>2. CASE SendRead(r)
      BY <1>t, <2>2 DEF SendRead, Become, TypeOK, Request
    <2>3. CASE SendKeep(r)
      BY <1>t, <2>3 DEF SendKeep, Become, TypeOK, Request
    <2>4. CASE SendTouch(r)
      BY <1>t, <2>4 DEF SendTouch, Become, TypeOK, Request
    <2> QED BY <2>1, <2>2, <2>3, <2>4
  <1>1. /\ Sends(r)' /\ req'[r].pc # "insert"
        /\ ~Creates(r)' /\ ~Joins(r)' /\ ~Leaves(r)' /\ ~Deletes(r)'
    BY <1>p DEF Sends, Creates, Joins, Leaves, Deletes
  <1>2. \/ Sends(r)
        \/ /\ req[r].pc = "insert" /\ convs[req[r].conv].kind # "deleted"
           /\ \A q \in Requests : ~DeletesConv(q, req[r].conv)
    BY DEF SendInsert, SendRead, SendKeep, SendTouch, Sends
  <1>3. req'[r].sent_at \in Stamps /\ (req'[r].pc # "read" => req'[r].others = {})
    <2>1. CASE SendInsert(r)
      <3>1. clock + 1 \in Stamps
        BY <2>1, StampForInsert DEF SendInsert
      <3> QED BY <1>t, <2>1, <3>1 DEF SendInsert, Become, TypeOK, Request
    <2>2. CASE SendRead(r)
      <3>1. req[r].conv \in Convs /\ req[r].sent_at \in Stamps
        BY <1>s, <2>2 DEF SendRead, Shape, SendShape, Sends, Names
      <3>2. LeftRecipients(req[r].conv) = {}
        BY <3>1, NoLeftRecipients
      <3> QED BY <1>t, <2>2, <3>1, <3>2 DEF SendRead, Become, TypeOK, Request
    <2>3. CASE SendKeep(r)
      <3>1. req[r].sent_at \in Stamps /\ req[r].others = {}
        BY <1>s, <2>3 DEF SendKeep, Shape, SendShape, Sends
      <3> QED BY <1>t, <2>3, <3>1 DEF SendKeep, Become, TypeOK, Request
    <2>4. CASE SendTouch(r)
      <3>1. req[r].sent_at \in Stamps /\ req[r].others = {}
        BY <1>s, <2>4 DEF SendTouch, Shape, SendShape, Sends
      <3> QED BY <1>t, <2>4, <3>1 DEF SendTouch, Become, TypeOK, Request
    <2> QED BY <2>1, <2>2, <2>3, <2>4
  <1>4. Shape(r)'
    BY <1>s, <1>u, <1>k, <1>1, <1>2, <1>3
       DEF Shape, JoinShape, LeaveShape, DeleteShape, CreateShape, SendShape, Names, ActorRow
  <1>5. ASSUME NEW q \in Requests \ {r}
        PROVE  Apart(r, q)' /\ Apart(q, r)'
    <2>1. Apart(q, r) /\ req'[q] = req[q]
      BY <1>k DEF RequestsInv
    <2>2. Apart(r, q)'
      BY <1>1 DEF Apart, Creates, Sends
    <2>3. \A c, u : ~WritesMember(r, c, u)'
      BY <1>1, <1>3 DEF Sends, WritesMember
    <2>4. Creates(q)' => req'[r].conv # req'[q].conv
      BY <1>k, <2>1 DEF Apart, Creates
    <2>5. req'[q].pc = "commit" /\ req'[q].op = "delete" => req'[r].conv # req'[q].conv
      BY <1>2, <1>k, <2>1 DEF Apart, DeletesConv, WritesConv
    <2> QED BY <2>2, <2>3, <2>4, <2>5 DEF Apart
  <1> QED BY <1>u, <1>k, <1>4, <1>5, QuietStep
-----------------------------------------------------------------------------
(* Commits *)

\* What a request has read stays good when its conversation stays, rows there keep
\* their roles and none disappears, and the row it is about to insert is still missing.
LEMMA KeptShape ==
    ASSUME TypeOK, NEW q \in Requests, Shape(q), req'[q] = req[q],
           \A c \in Convs : c = req[q].conv =>
               /\ convs'[c].kind = convs[c].kind
               /\ \A u \in Users : members[c][u].state # "none" =>
                      members'[c][u].state # "none" /\ members'[c][u].role = members[c][u].role
               /\ req[q].pc = "commit" /\ req[q].op = "join" =>
                      members'[c][req[q].target] = members[c][req[q].target]
    PROVE  Shape(q)'
  <1>1. \A c \in Convs, u \in Users :
            members[c][u].role = "group_admin" => members[c][u].state # "none"
    BY RowsTyped DEF TypeOK
  <1>2. JoinShape(q)'
    BY <1>1 DEF Shape, JoinShape, Joins, Names, ActorRow, TargetRow
  <1>3. LeaveShape(q)'
    BY <1>1 DEF Shape, LeaveShape, Leaves, Names, ActorRow, TargetRow
  <1>4. DeleteShape(q)' /\ CreateShape(q)'
    BY DEF Shape, DeleteShape, CreateShape, Deletes, Creates, Names
  <1>5. SendShape(q)'
    BY DEF Shape, SendShape, Sends, Names, ActorRow
  <1> QED BY <1>2, <1>3, <1>4, <1>5 DEF Shape

\* The commit of a new conversation, which nobody else has seen.
LEMMA CommitCreateStep ==
    ASSUME IInv, NEW r \in Requests, CommitDirect(r) \/ CommitGroup(r)
    PROVE  RequestsInv' /\ NothingOutlivesItsConversation' /\ DirectPairs'
  <1> USE DEF IInv
  <1> DEFINE c0 == req[r].conv
  <1>1. /\ Creates(r) /\ c0 \in Convs /\ convs[c0].kind = "none" /\ req[r].actor \in Users
        /\ req[r].op = "create_direct" => req[r].target \in Users \ {req[r].actor}
    BY DEF CommitDirect, CommitGroup, RequestsInv, Shape, CreateShape, Creates, Names
  <1>2. \A c \in Convs \ {c0} : members'[c] = members[c] /\ convs'[c] = convs[c]
    BY DEF CommitDirect, CommitGroup, TypeOK
  <1>3. Become(r, Idle) /\ messages' = messages
    BY DEF CommitDirect, CommitGroup
  <1>4. \A q \in Requests \ {r} : Shape(q)'
    <2> SUFFICES ASSUME NEW q \in Requests \ {r} PROVE Shape(q)'
      OBVIOUS
    <2>1. Shape(q) /\ req'[q] = req[q] /\ req[q].conv # c0
      BY <1>1, <1>3 DEF RequestsInv, Apart, Become, TypeOK
    <2> QED BY <1>2, <2>1, KeptShape
  <1>5. RequestsInv'
    BY <1>3, <1>4, EndStep
  <1>6. convs'[c0].kind \in {"direct", "group"}
    BY <1>1 DEF CommitDirect, CommitGroup, TypeOK, Conversation
  <1>7. NothingOutlivesItsConversation'
    <2>1. \A m \in messages : m.conv \in Convs \ {c0} /\ m.sender \in Users
      BY <1>1 DEF NothingOutlivesItsConversation, TypeOK, Message
    <2> QED BY <1>2, <1>3, <1>6, <2>1 DEF NothingOutlivesItsConversation
  <1>8. DirectPairs'
    <2>1. CASE CommitDirect(r)
      <3>1. \A w \in Users : members'[c0][w] = IF w \in {req[r].actor, req[r].target}
                                               THEN DirectRow ELSE NoParticipant
        BY <1>1, <2>1 DEF CommitDirect, TypeOK, DirectRow
      <3>2. req[r].target \in Users /\ req[r].actor # req[r].target
        BY <1>1, <2>1 DEF CommitDirect
      <3>3. \E u, v \in Users : /\ u # v
                               /\ \A w \in Users : members'[c0][w] =
                                     IF w \in {u, v} THEN DirectRow ELSE NoParticipant
        BY <1>1, <3>1, <3>2
      <3> QED BY <1>2, <3>3 DEF DirectPairs
    <2>2. CASE CommitGroup(r)
      <3>1. convs'[c0].kind = "group"
        BY <1>1, <2>2 DEF CommitGroup, TypeOK, Conversation
      <3> QED BY <1>2, <3>1 DEF DirectPairs
    <2> QED BY <2>1, <2>2
  <1> QED BY <1>5, <1>7, <1>8

\* The commit of a join, a rejoin or a leave, which writes one row of a group.
LEMMA MembershipWrite ==
    ASSUME IInv, NEW r \in Requests, CommitJoin(r) \/ CommitRejoin(r) \/ CommitLeave(r)
    PROVE  /\ Become(r, Idle) /\ UNCHANGED <<convs, messages, clock>>
           /\ req[r].conv \in Convs /\ req[r].actor \in Users /\ req[r].target \in Users
           /\ convs[req[r].conv].kind = "group"
           /\ \E p \in Participant :
                 /\ members' = [members EXCEPT ![req[r].conv] =
                                   [members[req[r].conv] EXCEPT ![req[r].target] = p]]
                 /\ p.state # "none"
                 /\ TargetRow(r).state # "none" => p.role = TargetRow(r).role
                 /\ req[r].op # "leave" => ActorRow(r).role = "group_admin"
                 /\ req[r].op = "leave" => p.state = "left" /\
                        (req[r].actor = req[r].target \/ ActorRow(r).role = "group_admin")
                 /\ req[r].op = "join" => TargetRow(r).state = "none"
                 /\ req[r].op # "leave" => p.state = "active"
                 /\ req[r].op # "join" => TargetRow(r).state # "none"
                 /\ TargetRow(r).state = "none" => p.role = "member"
  <1> USE DEF IInv
  <1>1. Become(r, Idle) /\ UNCHANGED <<convs, messages, clock>>
    BY DEF CommitJoin, CommitRejoin, CommitLeave
  <1>2. Shape(r)
    BY DEF RequestsInv
  <1>3. /\ req[r].conv \in Convs /\ req[r].actor \in Users /\ req[r].target \in Users
        /\ convs[req[r].conv].kind = "group"
    BY <1>2 DEF CommitJoin, CommitRejoin, CommitLeave, Shape, JoinShape, LeaveShape, Joins,
                Leaves, Names
  <1>4. TargetRow(r) \in Participant
    BY <1>3 DEF TypeOK, TargetRow
  <1>5. CASE CommitJoin(r)
    <2>1. TargetRow(r).state = "none" /\ ActorRow(r).role = "group_admin" /\ req[r].op = "join"
      BY <1>2, <1>5 DEF CommitJoin, Shape, JoinShape, Joins
    <2>2. PICK p \in Participant : p = [state |-> "active", role |-> "member"]
      BY DEF Participant
    <2>3. members' = [members EXCEPT ![req[r].conv] =
                         [members[req[r].conv] EXCEPT ![req[r].target] = p]]
      BY <1>3, <1>5, <2>2 DEF CommitJoin, TypeOK
    <2>4. p.state = "active" /\ p.role = "member"
      BY <2>2
    <2> QED BY <1>1, <1>3, <2>1, <2>3, <2>4
  <1>6. CASE CommitRejoin(r)
    <2>1. TargetRow(r).state # "none" /\ ActorRow(r).role = "group_admin" /\ req[r].op = "rejoin"
      BY <1>2, <1>6 DEF CommitRejoin, Shape, JoinShape, Joins
    <2>2. PICK p \in Participant : p = [TargetRow(r) EXCEPT !.state = "active"]
      <3>1. TargetRow(r).role \in {"null", "member", "group_admin"}
        BY <1>4, RowsTyped
      <3>2. [state |-> "active", role |-> TargetRow(r).role] \in Participant
        BY <3>1 DEF Participant
      <3>3. TargetRow(r) = [state |-> TargetRow(r).state, role |-> TargetRow(r).role]
        BY <1>4, RowsTyped
      <3>4. [TargetRow(r) EXCEPT !.state = "active"]
               = [state |-> "active", role |-> TargetRow(r).role]
        BY <3>3
      <3> QED BY <3>2, <3>4
    <2>3. members' = [members EXCEPT ![req[r].conv] =
                         [members[req[r].conv] EXCEPT ![req[r].target] = p]]
      BY <1>3, <1>6, <2>2 DEF CommitRejoin, TypeOK, TargetRow
    <2>4. p.state = "active" /\ p.role = TargetRow(r).role
      BY <1>4, <2>2, RowsTyped
    <2> QED BY <1>1, <1>3, <2>1, <2>3, <2>4
  <1>7. CASE CommitLeave(r)
    <2>1. /\ TargetRow(r).state # "none" /\ req[r].op = "leave"
          /\ req[r].actor = req[r].target \/ ActorRow(r).role = "group_admin"
      BY <1>2, <1>7 DEF CommitLeave, Shape, LeaveShape, Leaves
    <2>2. PICK p \in Participant : p = [TargetRow(r) EXCEPT !.state = "left"]
      <3>1. TargetRow(r).role \in {"null", "member", "group_admin"}
        BY <1>4, RowsTyped
      <3>2. [state |-> "left", role |-> TargetRow(r).role] \in Participant
        BY <3>1 DEF Participant
      <3>3. TargetRow(r) = [state |-> TargetRow(r).state, role |-> TargetRow(r).role]
        BY <1>4, RowsTyped
      <3>4. [TargetRow(r) EXCEPT !.state = "left"] = [state |-> "left", role |-> TargetRow(r).role]
        BY <3>3
      <3> QED BY <3>2, <3>4
    <2>3. members' = [members EXCEPT ![req[r].conv] =
                         [members[req[r].conv] EXCEPT ![req[r].target] = p]]
      BY <1>3, <1>7, <2>2 DEF CommitLeave, TypeOK, TargetRow
    <2>4. p.state = "left" /\ p.role = TargetRow(r).role
      BY <1>4, <2>2, RowsTyped
    <2> QED BY <1>1, <1>3, <2>1, <2>3, <2>4
  <1> QED BY <1>5, <1>6, <1>7

LEMMA CommitMembershipStep ==
    ASSUME IInv, NEW r \in Requests, CommitJoin(r) \/ CommitRejoin(r) \/ CommitLeave(r)
    PROVE  RequestsInv' /\ NothingOutlivesItsConversation' /\ DirectPairs'
  <1> USE DEF IInv
  <1> DEFINE c0 == req[r].conv
             t0 == req[r].target
  <1>1. /\ Become(r, Idle) /\ UNCHANGED <<convs, messages>>
        /\ c0 \in Convs /\ t0 \in Users /\ convs[c0].kind = "group"
    BY MembershipWrite
  <1>2. PICK p \in Participant :
            /\ members' = [members EXCEPT ![c0] = [members[c0] EXCEPT ![t0] = p]]
            /\ p.state # "none"
            /\ members[c0][t0].state # "none" => p.role = members[c0][t0].role
    BY MembershipWrite DEF TargetRow
  <1>3. /\ members'[c0][t0] = p
        /\ \A u \in Users \ {t0} : members'[c0][u] = members[c0][u]
        /\ \A c \in Convs \ {c0} : members'[c] = members[c]
    BY <1>1, <1>2 DEF TypeOK
  <1>4. \A q \in Requests \ {r} : Shape(q)'
    <2> SUFFICES ASSUME NEW q \in Requests \ {r} PROVE Shape(q)'
      OBVIOUS
    <2>1. Shape(q) /\ Apart(q, r) /\ req'[q] = req[q]
      BY <1>1 DEF RequestsInv, Become, TypeOK
    <2>2. WritesMember(r, c0, t0)
      BY DEF WritesMember, CommitJoin, CommitRejoin, CommitLeave
    <2>3. req[q].pc = "commit" /\ req[q].op = "join" /\ req[q].conv = c0 =>
              req[q].target \in Users \ {t0}
      BY <2>1, <2>2 DEF Apart, Shape, JoinShape, Joins
    <2> QED BY <1>1, <1>2, <1>3, <2>1, <2>3, KeptShape
  <1>5. RequestsInv'
    BY <1>1, <1>4, EndStep
  <1>6. NothingOutlivesItsConversation'
    <2>1. \A m \in messages : m.conv \in Convs /\ m.sender \in Users
      BY DEF TypeOK, Message
    <2> QED BY <1>1, <1>2, <1>3, <2>1 DEF NothingOutlivesItsConversation
  <1>7. DirectPairs'
    BY <1>1, <1>3 DEF DirectPairs
  <1> QED BY <1>5, <1>6, <1>7

\* The commit of a hard delete: nobody is sending into the conversation any more.
LEMMA CommitDeleteStep ==
    ASSUME IInv, NEW r \in Requests, CommitDelete(r)
    PROVE  RequestsInv' /\ NothingOutlivesItsConversation' /\ DirectPairs'
  <1> USE DEF IInv
  <1> DEFINE c0 == req[r].conv
  <1>1. c0 \in Convs /\ convs[c0].kind \in {"direct", "deleted"}
    BY DEF CommitDelete, RequestsInv, Shape, DeleteShape, Deletes, Names
  <1>2. \A c \in Convs \ {c0} : members'[c] = members[c] /\ convs'[c] = convs[c]
    BY DEF CommitDelete, TypeOK
  <1>3. /\ convs'[c0].kind = "deleted"
        /\ \A u \in Users : members'[c0][u] = NoParticipant
    BY <1>1 DEF CommitDelete, TypeOK
  <1>4. \A q \in Requests \ {r} : Shape(q)'
    <2> SUFFICES ASSUME NEW q \in Requests \ {r} PROVE Shape(q)'
      OBVIOUS
    <2>1. Shape(q) /\ Apart(r, q) /\ req'[q] = req[q]
      BY DEF RequestsInv, CommitDelete, Become, TypeOK
    <2>2. CASE req[q].conv # c0
      BY <1>2, <2>1, <2>2, KeptShape
    <2>3. CASE req[q].conv = c0
      <3>1. ~Sends(q)
        BY <2>1, <2>3 DEF Apart, CommitDelete
      <3>2. ~Joins(q) /\ ~Leaves(q) /\ ~Creates(q)
        BY <1>1, <2>1, <2>3 DEF Shape, JoinShape, LeaveShape, CreateShape
      <3> QED BY <1>3, <2>1, <2>3, <3>1, <3>2
                 DEF Shape, JoinShape, LeaveShape, DeleteShape, CreateShape, SendShape,
                     Joins, Leaves, Deletes, Creates, Sends, Names
    <2> QED BY <2>2, <2>3
  <1>5. RequestsInv'
    BY <1>4, EndStep DEF CommitDelete
  <1>6. NothingOutlivesItsConversation'
    <2>1. \A m \in messages' : m \in messages /\ m.conv \in Convs \ {c0} /\ m.sender \in Users
      BY DEF CommitDelete, TypeOK, Message
    <2> QED BY <1>2, <1>3, <2>1 DEF NothingOutlivesItsConversation, NoParticipant
  <1>7. DirectPairs'
    BY <1>2, <1>3 DEF DirectPairs
  <1> QED BY <1>5, <1>6, <1>7

\* The commit of a message: nobody is reactivated by it.
LEMMA SendWrite ==
    ASSUME IInv, NEW r \in Requests, CommitSend(r)
    PROVE  /\ Become(r, Idle) /\ members' = members
           /\ \A c \in Convs : convs'[c].kind = convs[c].kind
           /\ req[r].conv \in Convs /\ convs[req[r].conv].kind \in {"direct", "group"}
           /\ req[r].actor \in Users /\ ActorRow(r).state # "none"
  <1> USE DEF IInv
  <1>1. /\ req[r].conv \in Convs /\ convs[req[r].conv].kind \in {"direct", "group"}
        /\ req[r].actor \in Users /\ ActorRow(r).state # "none" /\ req[r].others = {}
    BY DEF CommitSend, RequestsInv, Shape, SendShape, Sends, Names
  <1>2. members' = [members EXCEPT ![req[r].conv] = [u \in Users |-> members[req[r].conv][u]]]
    BY <1>1 DEF CommitSend
  <1>3. members' = members
    BY <1>1, <1>2 DEF TypeOK
  <1>4. \A c \in Convs : convs'[c].kind = convs[c].kind
    BY <1>1 DEF CommitSend, TypeOK, Conversation
  <1> QED BY <1>1, <1>3, <1>4 DEF CommitSend

LEMMA CommitSendStep ==
    ASSUME IInv, NEW r \in Requests, CommitSend(r)
    PROVE  RequestsInv' /\ NothingOutlivesItsConversation' /\ DirectPairs'
  <1> USE DEF IInv
  <1>1. /\ Become(r, Idle) /\ members' = members
        /\ \A c \in Convs : convs'[c].kind = convs[c].kind
    BY SendWrite
  <1>2. \A q \in Requests \ {r} : Shape(q)'
    <2> SUFFICES ASSUME NEW q \in Requests \ {r} PROVE Shape(q)'
      OBVIOUS
    <2>1. Shape(q) /\ req'[q] = req[q]
      BY <1>1 DEF RequestsInv, Become, TypeOK
    <2> QED BY <1>1, <2>1, KeptShape
  <1>3. RequestsInv'
    BY <1>1, <1>2, EndStep
  <1>4. NothingOutlivesItsConversation'
    <2>1. \A m \in messages : m.conv \in Convs /\ m.sender \in Users
      BY DEF TypeOK, Message
    <2>2. \A m \in messages' : \/ m \in messages
                               \/ m.conv = req[r].conv /\ m.sender = req[r].actor
      BY DEF CommitSend
    <2> QED BY <1>1, <2>1, <2>2, SendWrite DEF NothingOutlivesItsConversation, ActorRow
  <1>5. DirectPairs'
    BY <1>1 DEF DirectPairs
  <1> QED BY <1>3, <1>4, <1>5
-----------------------------------------------------------------------------
(* The bound on the clock *)

\* Every step leaves a stamp for each message about to be inserted.
LEMMA StampsStep == IInv /\ [Next]_vars => StampsLeft'
  <1> SUFFICES ASSUME IInv, [Next]_vars
               PROVE  StampsLeft'
    OBVIOUS
  <1> USE DEF IInv
  <1>f. IsFiniteSet(Inserting) /\ Cardinality(Inserting) \in Nat
    BY RequestsAssumption, FS_Subset, FS_CardinalityType DEF Inserting
  <1>n. clock \in Nat /\ MaxMessages \in Nat /\ Cardinality(Inserting) <= MaxMessages - clock
    BY MaxAssumption DEF TypeOK, StampsLeft
  <1>1. ASSUME clock' = clock, Inserting' \subseteq Inserting
        PROVE  StampsLeft'
    <2>1. Inserting' \in SUBSET Inserting
      BY <1>1
    <2>2. PICK S \in SUBSET Inserting : S = Inserting'
      BY <2>1
    <2>3. IsFiniteSet(S) /\ Cardinality(S) \in Nat /\ Cardinality(S) <= Cardinality(Inserting)
      BY <1>f, FS_Subset, FS_CardinalityType
    <2>4. Cardinality(S) <= MaxMessages - clock'
      BY <1>f, <1>n, <1>1, <2>3
    <2> QED BY <2>2, <2>4 DEF StampsLeft
  <1>2. ASSUME NEW r \in Requests, NEW u \in Users, NEW c \in Convs, SendAuthorize(r, u, c)
        PROVE  StampsLeft'
    <2>1. Inserting' = Inserting \cup {r} /\ r \notin Inserting /\ clock' = clock
      BY <1>2 DEF SendAuthorize, Become, TypeOK, Idle, Inserting, TablesUnchanged
    <2>2. Cardinality(Inserting \cup {r}) = Cardinality(Inserting) + 1
      BY <1>f, <2>1, FS_AddElement
    <2>3. Cardinality(Inserting) < MaxMessages - clock
      BY <1>2 DEF SendAuthorize, Inserting
    <2>4. Cardinality(Inserting \cup {r}) <= MaxMessages - clock
      BY <1>f, <1>n, <2>2, <2>3
    <2> QED BY <2>1, <2>4 DEF StampsLeft
  <1>3. ASSUME NEW r \in Requests, SendInsert(r)
        PROVE  StampsLeft'
    <2>1. req[r] \in Request
      BY DEF TypeOK
    <2>2. Inserting' = Inserting \ {r} /\ r \in Inserting /\ clock' = clock + 1
      BY <1>3, <2>1 DEF SendInsert, Become, TypeOK, Inserting, Request
    <2>3. Cardinality(Inserting \ {r}) = Cardinality(Inserting) - 1
      BY <1>f, <2>2, FS_RemoveElement
    <2>4. Cardinality(Inserting \ {r}) <= MaxMessages - (clock + 1)
      BY <1>f, <1>n, <2>3
    <2> QED BY <2>2, <2>4 DEF StampsLeft
  <1>4. ASSUME NEW r \in Requests, NEW u \in Users, NEW v \in Users, NEW c \in Convs,
               \/ DirectFound(r, u, v, c) \/ DirectInsert(r, u, v, c)
               \/ AddAuthorize(r, u, c, v) \/ RemoveRead(r, u, c, v)
               \/ LeaveRead(r, u, c) \/ DeleteRead(r, u, c)
        PROVE  StampsLeft'
    <2>1. clock' = clock /\ \A q \in Requests \ {r} : req'[q] = req[q]
      BY <1>4 DEF DirectFound, DirectInsert, AddAuthorize, RemoveRead, LeaveRead, DeleteRead,
                  TablesUnchanged, Become, TypeOK
    <2>2. req'[r].pc # "insert"
      <3>1. CASE DirectFound(r, u, v, c)
        BY <3>1 DEF DirectFound, Become, TypeOK, Idle
      <3>2. CASE DirectInsert(r, u, v, c)
        BY <3>2 DEF DirectInsert, Become, TypeOK, Idle
      <3>3. CASE AddAuthorize(r, u, c, v)
        BY <3>3 DEF AddAuthorize, Become, TypeOK, Idle
      <3>4. CASE RemoveRead(r, u, c, v)
        BY <3>4 DEF RemoveRead, Become, TypeOK, Idle
      <3>5. CASE LeaveRead(r, u, c)
        BY <3>5 DEF LeaveRead, Become, TypeOK, Idle
      <3>6. CASE DeleteRead(r, u, c)
        BY <3>6 DEF DeleteRead, Become, TypeOK, Idle
      <3> QED BY <1>4, <3>1, <3>2, <3>3, <3>4, <3>5, <3>6
    <2> QED BY <1>1, <2>1, <2>2 DEF Inserting
  <1>5. ASSUME NEW r \in Requests, NEW u \in Users, NEW c \in Convs, NEW others \in SUBSET Users,
               GroupInsert(r, u, others, c)
        PROVE  StampsLeft'
    <2>1. /\ clock' = clock /\ \A q \in Requests \ {r} : req'[q] = req[q]
          /\ req'[r].pc # "insert"
      BY <1>5 DEF GroupInsert, TablesUnchanged, Become, TypeOK, Idle
    <2> QED BY <1>1, <2>1 DEF Inserting
  <1>6. ASSUME NEW r \in Requests,
               \/ AddAlreadyActive(r) \/ JoinConflict(r) \/ RemoveRefused(r) \/ SendOrphaned(r)
               \/ CommitDirect(r) \/ CommitGroup(r) \/ CommitJoin(r) \/ CommitRejoin(r)
               \/ CommitLeave(r) \/ CommitDelete(r) \/ CommitSend(r) \/ Abort(r)
        PROVE  StampsLeft'
    <2>1. Become(r, Idle) /\ clock' = clock
      BY <1>6 DEF AddAlreadyActive, JoinConflict, RemoveRefused, SendOrphaned, CommitDirect,
                  CommitGroup, CommitJoin, CommitRejoin, CommitLeave, CommitDelete,
                  CommitSend, Abort, TablesUnchanged
    <2>t. req \in [Requests -> Request]
      BY DEF TypeOK
    <2>2. \A q \in Requests \ {r} : req'[q] = req[q]
      BY <2>1, <2>t DEF Become
    <2>3. req'[r].pc # "insert"
      BY <2>1, <2>t DEF Become, Idle
    <2> QED BY <1>1, <2>1, <2>2, <2>3 DEF Inserting
  <1>7. ASSUME NEW r \in Requests,
               \/ AddReadLeft(r) \/ AddReadNone(r) \/ FlushJoin(r) \/ RemoveAuthorize(r)
               \/ FlushMembership(r) \/ FlushDelete(r)
               \/ SendRead(r) \/ SendKeep(r) \/ SendTouch(r)
        PROVE  StampsLeft'
    <2>1. clock' = clock /\ \A q \in Requests \ {r} : req'[q] = req[q]
      BY <1>7 DEF AddReadLeft, AddReadNone, FlushJoin, RemoveAuthorize, FlushMembership,
                  FlushDelete, SendRead, SendKeep, SendTouch, TablesUnchanged, Become, TypeOK
    <2>2. req[r] \in Request
      BY DEF TypeOK
    <2>3. req'[r].pc \in {"flush", "commit", "touch"}
      <3>1. CASE AddReadLeft(r)
        BY <2>2, <3>1 DEF AddReadLeft, Become, TypeOK, Request
      <3>2. CASE AddReadNone(r)
        BY <2>2, <3>2 DEF AddReadNone, Become, TypeOK, Request
      <3>3. CASE FlushJoin(r)
        BY <2>2, <3>3 DEF FlushJoin, Become, TypeOK, Request
      <3>4. CASE RemoveAuthorize(r)
        BY <2>2, <3>4 DEF RemoveAuthorize, Become, TypeOK, Request
      <3>5. CASE FlushMembership(r)
        BY <2>2, <3>5 DEF FlushMembership, Become, TypeOK, Request
      <3>6. CASE FlushDelete(r)
        BY <2>2, <3>6 DEF FlushDelete, Become, TypeOK, Request
      <3>7. CASE SendRead(r)
        BY <2>2, <3>7 DEF SendRead, Become, TypeOK, Request
      <3>8. CASE SendKeep(r)
        BY <2>2, <3>8 DEF SendKeep, Become, TypeOK, Request
      <3>9. CASE SendTouch(r)
        BY <2>2, <3>9 DEF SendTouch, Become, TypeOK, Request
      <3> QED BY <1>7, <3>1, <3>2, <3>3, <3>4, <3>5, <3>6, <3>7, <3>8, <3>9
    <2> QED BY <1>1, <2>1, <2>3 DEF Inserting
  <1>8. CASE UNCHANGED vars
    BY <1>1, <1>8 DEF vars, Inserting
  <1> QED
    BY <1>2, <1>3, <1>4, <1>5, <1>6, <1>7, <1>8 DEF Next, Receive, Progress, Refused

-----------------------------------------------------------------------------
(* The theorems *)

LEMMA NextIInv == IInv /\ [Next]_vars => IInv'
  <1> SUFFICES ASSUME IInv, [Next]_vars
               PROVE  RequestsInv' /\ NothingOutlivesItsConversation' /\ DirectPairs'
    BY NextTypeOK, StampsStep DEF IInv
  <1>1. ASSUME NEW r \in Requests, Receive(r)
        PROVE  RequestsInv' /\ NothingOutlivesItsConversation' /\ DirectPairs'
    BY <1>1, ReceiveStep
  <1>2. ASSUME NEW r \in Requests,
               \/ AddAlreadyActive(r) \/ JoinConflict(r) \/ RemoveRefused(r)
               \/ SendOrphaned(r) \/ Abort(r)
        PROVE  RequestsInv' /\ NothingOutlivesItsConversation' /\ DirectPairs'
    BY <1>2, RollbackStep DEF AddAlreadyActive, JoinConflict, RemoveRefused, SendOrphaned, Abort
  <1>3. ASSUME NEW r \in Requests,
               \/ AddReadLeft(r) \/ AddReadNone(r) \/ RemoveAuthorize(r)
               \/ FlushJoin(r) \/ FlushMembership(r) \/ FlushDelete(r)
        PROVE  RequestsInv' /\ NothingOutlivesItsConversation' /\ DirectPairs'
    BY <1>3, ReadOrFlushStep
  <1>4. ASSUME NEW r \in Requests, SendInsert(r) \/ SendRead(r) \/ SendKeep(r) \/ SendTouch(r)
        PROVE  RequestsInv' /\ NothingOutlivesItsConversation' /\ DirectPairs'
    BY <1>4, SendStep
  <1>5. ASSUME NEW r \in Requests,
               \/ CommitDirect(r) \/ CommitGroup(r) \/ CommitJoin(r) \/ CommitRejoin(r)
               \/ CommitLeave(r) \/ CommitDelete(r) \/ CommitSend(r)
        PROVE  RequestsInv' /\ NothingOutlivesItsConversation' /\ DirectPairs'
    BY <1>5, CommitCreateStep, CommitMembershipStep, CommitDeleteStep, CommitSendStep
  <1>6. CASE UNCHANGED vars
    BY <1>6 DEF vars, IInv, RequestsInv, Shape, JoinShape, LeaveShape, DeleteShape, CreateShape,
                SendShape, Apart, Joins, Leaves, Deletes, Creates, Sends, Names, ActorRow,
                TargetRow, WritesMember, NothingOutlivesItsConversation, DirectPairs
  <1> QED
    BY <1>1, <1>2, <1>3, <1>4, <1>5, <1>6 DEF Next, Progress, Refused

\* What every request has read and flushed stays consistent with the tables and with what
\* the others hold.
THEOREM InductiveInvariant == Spec => []IInv
  BY InitIInv, NextIInv, PTL DEF Spec

\* Every state of the tables and of the requests is well typed, the clock within its
\* bound included.
THEOREM TypeCorrect == Spec => []TypeOK
  BY InductiveInvariant, PTL DEF IInv

\* However sends race hard deletes and rollbacks, no message and no membership is left
\* without its conversation, and no message without a membership row of its sender.
THEOREM NothingOutlives == Spec => []NothingOutlivesItsConversation
  BY InductiveInvariant, PTL DEF IInv

\* A direct conversation has exactly its two members, active, as long as it exists.
THEOREM DirectMembers == Spec => []DirectMembersStay
  <1>1. IInv => DirectMembersStay
    <2> SUFFICES ASSUME IInv, NEW c \in Convs, convs[c].kind = "direct"
                 PROVE  /\ Cardinality({u \in Users : Active(c, u)}) = 2
                        /\ \A u \in Users : members[c][u] \in {NoParticipant, DirectRow}
      BY DEF DirectMembersStay, DirectRow
    <2>1. PICK u \in Users, v \in Users :
              /\ u # v
              /\ \A w \in Users :
                    members[c][w] = IF w \in {u, v} THEN DirectRow ELSE NoParticipant
      BY DEF IInv, DirectPairs
    <2>2. {w \in Users : Active(c, w)} = {u} \cup {v}
      BY <2>1 DEF Active, DirectRow, NoParticipant
    <2>3. Cardinality({u} \cup {v}) = 2
      <3>1. IsFiniteSet({u}) /\ Cardinality({u}) = 1
        BY FS_Singleton
      <3>2. Cardinality({u} \cup {v}) = Cardinality({u}) + 1
        BY <2>1, <3>1, FS_AddElement
      <3> QED BY <3>1, <3>2
    <2> QED BY <2>1, <2>2, <2>3
  <1> QED BY <1>1, InductiveInvariant, PTL

\* Only the commit of a join, a rejoin or a leave changes a membership of a group.
LEMMA ChangesByMembershipCommit ==
    ASSUME IInv, [Next]_vars, NEW c \in Convs, NEW u \in Users,
           convs[c].kind = "group", members[c][u] # members'[c][u]
    PROVE  \E r \in Requests : CommitJoin(r) \/ CommitRejoin(r) \/ CommitLeave(r)
  <1> SUFFICES ASSUME \A r \in Requests : ~(CommitJoin(r) \/ CommitRejoin(r) \/ CommitLeave(r))
               PROVE  FALSE
    OBVIOUS
  <1>1. ASSUME NEW r \in Requests, CommitDirect(r) \/ CommitGroup(r)
        PROVE  FALSE
    <2>1. Shape(r) /\ Creates(r)
      BY <1>1 DEF IInv, RequestsInv, Creates, CommitDirect, CommitGroup
    <2>2. req[r].conv # c
      BY <2>1 DEF Shape, CreateShape
    <2> QED BY <1>1, <2>2 DEF CommitDirect, CommitGroup, IInv, TypeOK
  <1>2. ASSUME NEW r \in Requests, CommitDelete(r)
        PROVE  FALSE
    <2>1. Shape(r) /\ Deletes(r)
      BY <1>2 DEF IInv, RequestsInv, Deletes, CommitDelete
    <2>2. req[r].conv # c
      BY <2>1 DEF Shape, DeleteShape
    <2> QED BY <1>2, <2>2 DEF CommitDelete, IInv, TypeOK
  <1>3. ASSUME NEW r \in Requests, CommitSend(r)
        PROVE  FALSE
    BY <1>3, SendWrite
  <1>4. ASSUME NEW r \in Requests, Receive(r)
        PROVE  members' = members
    <2>1. ASSUME NEW x \in Users, NEW y \in Users, NEW d \in Convs,
                 \/ DirectFound(r, x, y, d) \/ DirectInsert(r, x, y, d)
                 \/ AddAuthorize(r, x, d, y) \/ RemoveRead(r, x, d, y)
          PROVE  members' = members
      BY <2>1 DEF DirectFound, DirectInsert, AddAuthorize, RemoveRead, TablesUnchanged
    <2>2. ASSUME NEW x \in Users, NEW d \in Convs,
                 \/ LeaveRead(r, x, d) \/ DeleteRead(r, x, d) \/ SendAuthorize(r, x, d)
          PROVE  members' = members
      BY <2>2 DEF LeaveRead, DeleteRead, SendAuthorize, TablesUnchanged
    <2>3. ASSUME NEW x \in Users, NEW d \in Convs, NEW others \in SUBSET Users,
                 GroupInsert(r, x, others, d)
          PROVE  members' = members
      BY <2>3 DEF GroupInsert, TablesUnchanged
    <2> QED BY <1>4, <2>1, <2>2, <2>3 DEF Receive
  <1>5. ASSUME NEW r \in Requests, Progress(r) \/ Refused(r) \/ Abort(r)
        PROVE  members' = members
    BY <1>1, <1>2, <1>3, <1>5
       DEF Progress, AddAlreadyActive, AddReadLeft, AddReadNone, JoinConflict, FlushJoin,
           RemoveAuthorize, RemoveRefused, FlushMembership, FlushDelete, SendInsert,
           SendOrphaned, SendRead, SendKeep, SendTouch, Refused, Abort, TablesUnchanged, vars
  <1> QED BY <1>4, <1>5 DEF Next, vars

\* Whatever is in flight, a membership of a group changes only by a commit in the name of
\* the member itself or of an admin of that group, and keeps its role.
THEOREM MembershipChanges == Spec => MembershipChangesAuthorized
  <1> DEFINE Changes ==
        \A c \in Convs, u \in Users :
            convs[c].kind = "group" /\ members[c][u] # members'[c][u] =>
                \E r \in Requests :
                    /\ req[r].pc = "commit" /\ req[r].conv = c
                    /\ req[r].target = u
                    /\ \/ req[r].actor = u /\ req[r].op = "leave"
                       \/ members[c][req[r].actor].role = "group_admin"
                    /\ members[c][u].state # "none" =>
                           members'[c][u].role = members[c][u].role
  <1>1. IInv /\ [Next]_vars => Changes
    <2> SUFFICES ASSUME IInv, [Next]_vars, NEW c \in Convs, NEW u \in Users,
                        convs[c].kind = "group", members[c][u] # members'[c][u]
                 PROVE  \E r \in Requests :
                            /\ req[r].pc = "commit" /\ req[r].conv = c
                            /\ req[r].target = u
                            /\ \/ req[r].actor = u /\ req[r].op = "leave"
                               \/ members[c][req[r].actor].role = "group_admin"
                            /\ members[c][u].state # "none" =>
                                   members'[c][u].role = members[c][u].role
      OBVIOUS
    <2>1. PICK r \in Requests : CommitJoin(r) \/ CommitRejoin(r) \/ CommitLeave(r)
      BY ChangesByMembershipCommit
    <2>2. req[r].pc = "commit" /\ req[r].op \in {"join", "rejoin", "leave"}
      BY <2>1 DEF CommitJoin, CommitRejoin, CommitLeave
    <2>3. /\ req[r].conv \in Convs /\ req[r].target \in Users
          /\ \E p \in Participant :
                 /\ members' = [members EXCEPT ![req[r].conv] =
                                   [members[req[r].conv] EXCEPT ![req[r].target] = p]]
                 /\ TargetRow(r).state # "none" => p.role = TargetRow(r).role
          /\ \/ req[r].op = "leave" /\ req[r].actor = req[r].target
             \/ ActorRow(r).role = "group_admin"
      BY <2>1, <2>2, MembershipWrite
    <2>4. req[r].conv = c /\ req[r].target = u
      BY <2>3 DEF IInv, TypeOK
    <2>5. members[c][u].state # "none" => members'[c][u].role = members[c][u].role
      BY <2>3, <2>4 DEF IInv, TypeOK, TargetRow
    <2> QED BY <2>2, <2>3, <2>4, <2>5 DEF ActorRow
  <1> QED BY <1>1, InductiveInvariant, PTL DEF Spec, MembershipChangesAuthorized

\* A member who left a group is active again only by the commit of an add_participant
\* whose actor is an admin of that group: no send undoes a removal.
THEOREM RemovalUndone == Spec => RemovalUndoneByAdminOnly
  <1> DEFINE Undone ==
        \A c \in Convs, u \in Users :
            members[c][u].state = "left" /\ members'[c][u].state = "active" =>
                \E r \in Requests :
                    /\ req[r].pc = "commit" /\ req[r].op = "rejoin"
                    /\ req[r].conv = c /\ req[r].target = u
                    /\ members[c][req[r].actor].role = "group_admin"
  <1>1. IInv /\ [Next]_vars => Undone
    <2> SUFFICES ASSUME IInv, [Next]_vars, NEW c \in Convs, NEW u \in Users,
                        members[c][u].state = "left", members'[c][u].state = "active"
                 PROVE  \E r \in Requests :
                            /\ req[r].pc = "commit" /\ req[r].op = "rejoin"
                            /\ req[r].conv = c /\ req[r].target = u
                            /\ members[c][req[r].actor].role = "group_admin"
      OBVIOUS
    <2>1. convs[c].kind = "group"
      BY NoLeftRecipients DEF IInv, NothingOutlivesItsConversation
    <2>2. PICK r \in Requests : CommitJoin(r) \/ CommitRejoin(r) \/ CommitLeave(r)
      BY <2>1, ChangesByMembershipCommit
    <2>3. PICK p \in Participant :
              /\ req[r].conv \in Convs /\ req[r].target \in Users
              /\ members' = [members EXCEPT ![req[r].conv] =
                                [members[req[r].conv] EXCEPT ![req[r].target] = p]]
              /\ req[r].op # "leave" => ActorRow(r).role = "group_admin"
              /\ req[r].op = "leave" => p.state = "left"
              /\ req[r].op = "join" => TargetRow(r).state = "none"
      BY <2>2, MembershipWrite
    <2>4. req[r].conv = c /\ req[r].target = u /\ members'[c][u] = p
      BY <2>3 DEF IInv, TypeOK
    <2>5. req[r].op \notin {"leave", "join"}
      BY <2>3, <2>4 DEF TargetRow
    <2>6. req[r].pc = "commit" /\ req[r].op \in {"join", "rejoin", "leave"}
      BY <2>2 DEF CommitJoin, CommitRejoin, CommitLeave
    <2> QED BY <2>3, <2>4, <2>5, <2>6 DEF ActorRow
  <1> QED BY <1>1, InductiveInvariant, PTL DEF Spec, RemovalUndoneByAdminOnly

-----------------------------------------------------------------------------
(* The tables implement MemberLife *)

\* A step that leaves memberships, kinds and messages alone.
LEMMA TablesKept ==
    ASSUME IInv, members' = members, convs' = convs, messages' = messages
    PROVE  UNCHANGED Membership!vars
  BY DEF Membership!vars, KindOf, RowOf, AdminsOf, AuthorsOf

\* Where there is nobody there is no admin; nor is there one in a direct conversation.
LEMMA NobodyThere ==
    ASSUME IInv, NEW c \in Convs
    PROVE  /\ convs[c].kind \in {"none", "deleted"} =>
                 /\ \A u \in Users : members[c][u] = NoParticipant
                 /\ \A m \in messages : m.conv # c
           /\ convs[c].kind # "group" => AdminsOf[c] = {}
  <1>1. ASSUME convs[c].kind \in {"none", "deleted"}
        PROVE  /\ \A u \in Users : members[c][u] = NoParticipant
               /\ \A m \in messages : m.conv # c
    <2>1. \A u \in Users : members[c][u] \in Participant
      BY DEF IInv, TypeOK
    <2> QED BY <1>1, <2>1, RowsTyped DEF IInv, NothingOutlivesItsConversation
  <1>2. ASSUME convs[c].kind = "direct"
        PROVE  \A u \in Users : members[c][u].role = "null"
    BY <1>2 DEF IInv, DirectPairs, DirectRow, NoParticipant
  <1>3. convs[c].kind \in {"none", "direct", "group", "deleted"}
    BY DEF IInv, TypeOK, Conversation
  <1> QED BY <1>1, <1>2, <1>3 DEF AdminsOf, NoParticipant

LEMMA DirectIsCreated ==
    ASSUME IInv, NEW r \in Requests, CommitDirect(r)
    PROVE  Membership!Next
  <1> USE DEF IInv
  <1>1. /\ Creates(r) /\ Shape(r)
    BY DEF CommitDirect, RequestsInv, Creates
  <1>2. PICK c \in Convs, u \in Users, v \in Users :
            /\ c = req[r].conv /\ u = req[r].actor /\ v = req[r].target
            /\ u # v /\ convs[c].kind = "none"
    BY <1>1 DEF CommitDirect, Shape, CreateShape, Names
  <1>3. /\ \A d \in Convs : convs'[d].kind = IF d = c THEN "direct" ELSE convs[d].kind
        /\ \A d \in Convs \ {c} : members'[d] = members[d]
        /\ \A w \in Users : members'[c][w] = IF w \in {u, v} THEN DirectRow ELSE NoParticipant
        /\ messages' = messages
    BY <1>2 DEF CommitDirect, TypeOK, Conversation, DirectRow
  <1>4. \A w \in Users : /\ members'[c][w].state = IF w \in {u, v} THEN "active" ELSE "none"
                         /\ members'[c][w].role = "null"
    BY <1>3 DEF NoParticipant, DirectRow
  <1>5. KindOf' = [KindOf EXCEPT ![c] = "direct"]
    BY <1>3 DEF KindOf
  <1>6. RowOf' = [RowOf EXCEPT ![c] = Membership!Rows({u, v})]
    <2>1. [w \in Users |-> members'[c][w].state] = Membership!Rows({u, v})
      BY <1>4 DEF Membership!Rows
    <2> QED BY <1>3, <2>1 DEF RowOf
  <1>7. AdminsOf' = AdminsOf
    <2>1. AdminsOf[c] = {}
      BY <1>2, NobodyThere
    <2>2. {w \in Users : members'[c][w].role = "group_admin"} = {}
      BY <1>4
    <2> QED BY <1>3, <2>1, <2>2 DEF AdminsOf
  <1>8. AuthorsOf' = AuthorsOf
    BY <1>3 DEF AuthorsOf
  <1>9. KindOf[c] = "none"
    BY <1>2 DEF KindOf
  <1>10. Membership!CreateDirect(c, u, v)
    BY <1>2, <1>5, <1>6, <1>7, <1>8, <1>9 DEF Membership!CreateDirect
  <1> QED BY <1>10 DEF Membership!Next

LEMMA GroupIsCreated ==
    ASSUME IInv, NEW r \in Requests, CommitGroup(r)
    PROVE  Membership!Next
  <1> USE DEF IInv
  <1>1. /\ Creates(r) /\ Shape(r)
    BY DEF CommitGroup, RequestsInv, Creates
  <1>2. PICK c \in Convs, a \in Users, us \in SUBSET Users :
            /\ c = req[r].conv /\ a = req[r].actor /\ us = req[r].others \cup {a}
            /\ convs[c].kind = "none"
    <2>1. req[r].conv \in Convs /\ req[r].actor \in Users /\ convs[req[r].conv].kind = "none"
      BY <1>1 DEF CommitGroup, Shape, CreateShape, Names
    <2>2. req[r].others \cup {req[r].actor} \in SUBSET Users
      BY <2>1, RequestTyped
    <2> QED BY <2>1, <2>2
  <1>3. /\ \A d \in Convs : convs'[d].kind = IF d = c THEN "group" ELSE convs[d].kind
        /\ \A d \in Convs \ {c} : members'[d] = members[d]
        /\ \A w \in Users : members'[c][w] =
              IF w = a THEN [state |-> "active", role |-> "group_admin"]
              ELSE IF w \in req[r].others THEN [state |-> "active", role |-> "member"]
              ELSE NoParticipant
        /\ messages' = messages
    BY <1>2 DEF CommitGroup, TypeOK, Conversation
  <1>4. \A w \in Users : /\ members'[c][w].state = IF w \in us THEN "active" ELSE "none"
                         /\ members'[c][w].role = "group_admin" <=> w = a
    BY <1>2, <1>3 DEF NoParticipant
  <1>5. KindOf' = [KindOf EXCEPT ![c] = "group"]
    BY <1>3 DEF KindOf
  <1>6. RowOf' = [RowOf EXCEPT ![c] = Membership!Rows(us)]
    <2>1. [w \in Users |-> members'[c][w].state] = Membership!Rows(us)
      BY <1>4 DEF Membership!Rows
    <2> QED BY <1>3, <2>1 DEF RowOf
  <1>7. AdminsOf' = [AdminsOf EXCEPT ![c] = {a}]
    <2>1. {u \in Users : members'[c][u].role = "group_admin"} = {a}
      BY <1>4
    <2> QED BY <1>3, <2>1 DEF AdminsOf
  <1>8. AuthorsOf' = AuthorsOf
    BY <1>3 DEF AuthorsOf
  <1>9. KindOf[c] = "none" /\ a \in us
    BY <1>2 DEF KindOf
  <1>10. Membership!CreateGroup(c, a, us)
    BY <1>5, <1>6, <1>7, <1>8, <1>9 DEF Membership!CreateGroup
  <1> QED BY <1>10 DEF Membership!Next

LEMMA MemberChanges ==
    ASSUME IInv, NEW r \in Requests, CommitJoin(r) \/ CommitRejoin(r) \/ CommitLeave(r)
    PROVE  Membership!Next
  <1> USE DEF IInv
  <1>1. PICK c \in Convs, by \in Users, u \in Users :
            /\ c = req[r].conv /\ by = req[r].actor /\ u = req[r].target
            /\ convs[c].kind = "group" /\ convs' = convs /\ messages' = messages
    BY MembershipWrite
  <1>2. PICK p \in Participant :
            /\ members' = [members EXCEPT ![c] = [members[c] EXCEPT ![u] = p]]
            /\ p.state # "none"
            /\ members[c][u].state # "none" => p.role = members[c][u].role
            /\ req[r].op # "leave" => members[c][by].role = "group_admin"
            /\ req[r].op = "leave" => p.state = "left" /\
                   (by = u \/ members[c][by].role = "group_admin")
            /\ req[r].op # "leave" => p.state = "active"
            /\ req[r].op # "join" => members[c][u].state # "none"
            /\ members[c][u].state = "none" => p.role = "member"
    BY <1>1, MembershipWrite DEF TargetRow, ActorRow
  <1>3. /\ \A d \in Convs \ {c} : members'[d] = members[d]
        /\ \A w \in Users : members'[c][w] = IF w = u THEN p ELSE members[c][w]
    BY <1>2 DEF TypeOK
  <1>4. KindOf' = KindOf /\ AuthorsOf' = AuthorsOf /\ KindOf[c] = "group"
    BY <1>1 DEF KindOf, AuthorsOf
  <1>5. RowOf' = [RowOf EXCEPT ![c] = [RowOf[c] EXCEPT ![u] = p.state]]
    <2>1. RowOf[c] = [w \in Users |-> members[c][w].state]
      BY DEF RowOf
    <2>2. [w \in Users |-> members'[c][w].state] = [RowOf[c] EXCEPT ![u] = p.state]
      BY <1>3, <2>1
    <2> QED BY <1>3, <2>2 DEF RowOf
  <1>6. AdminsOf' = AdminsOf
    <2>1. members[c][u] \in Participant
      BY DEF TypeOK
    <2>2. p.role = "group_admin" <=> members[c][u].role = "group_admin"
      BY <1>2, <2>1, RowsTyped
    <2>3. \A w \in Users : members'[c][w].role = "group_admin"
                               <=> members[c][w].role = "group_admin"
      BY <1>3, <2>2
    <2> QED BY <1>3, <2>3 DEF AdminsOf
  <1>7. CASE req[r].op = "leave"
    <2>1. by \in AdminsOf[c] \cup {u} /\ RowOf[c][u] # "none" /\ p.state = "left"
      BY <1>2, <1>7 DEF AdminsOf, RowOf
    <2>2. Membership!Depart(c, by, u)
      BY <1>4, <1>5, <1>6, <2>1 DEF Membership!Depart
    <2> QED BY <2>2 DEF Membership!Next
  <1>8. CASE req[r].op # "leave"
    <2>1. by \in AdminsOf[c] /\ p.state = "active"
      BY <1>2, <1>8 DEF AdminsOf
    <2>2. Membership!Admit(c, by, u)
      BY <1>4, <1>5, <1>6, <2>1 DEF Membership!Admit
    <2> QED BY <2>2 DEF Membership!Next
  <1> QED BY <1>7, <1>8

\* The second of two deletes finds nothing to delete.
LEMMA DirectIsDeleted ==
    ASSUME IInv, NEW r \in Requests, CommitDelete(r)
    PROVE  Membership!Next \/ UNCHANGED Membership!vars
  <1> USE DEF IInv
  <1>1. PICK c \in Convs : c = req[r].conv /\ convs[c].kind \in {"direct", "deleted"}
    BY DEF CommitDelete, RequestsInv, Shape, DeleteShape, Deletes, Names
  <1>2. /\ \A d \in Convs : convs'[d].kind = IF d = c THEN "deleted" ELSE convs[d].kind
        /\ \A d \in Convs : members'[d] = IF d = c THEN [u \in Users |-> NoParticipant]
                                          ELSE members[d]
        /\ messages' = {m \in messages : m.conv # c}
    BY <1>1 DEF CommitDelete, TypeOK
  <1>3. KindOf' = [KindOf EXCEPT ![c] = "deleted"]
    BY <1>2 DEF KindOf
  <1>4. RowOf' = [RowOf EXCEPT ![c] = Membership!Rows({})]
    <2>1. [u \in Users |-> members'[c][u].state] = Membership!Rows({})
      BY <1>2 DEF Membership!Rows, NoParticipant
    <2> QED BY <1>2, <2>1 DEF RowOf
  <1>5. AdminsOf' = AdminsOf
    <2>1. AdminsOf[c] = {}
      BY <1>1, NobodyThere
    <2>2. \A w \in Users : members'[c][w].role # "group_admin"
      BY <1>2 DEF NoParticipant
    <2> QED BY <1>2, <2>1, <2>2 DEF AdminsOf
  <1>6. AuthorsOf' = [AuthorsOf EXCEPT ![c] = {}]
    BY <1>2 DEF AuthorsOf
  <1>7. CASE convs[c].kind = "direct"
    <2>1. Membership!Delete(c)
      BY <1>3, <1>4, <1>5, <1>6, <1>7 DEF Membership!Delete, KindOf
    <2> QED BY <2>1 DEF Membership!Next
  <1>8. CASE convs[c].kind = "deleted"
    <2>1. /\ \A u \in Users : members[c][u] = NoParticipant
          /\ \A m \in messages : m.conv # c
      BY <1>8, NobodyThere
    <2>2. KindOf' = KindOf
      BY <1>2, <1>8 DEF KindOf
    <2>3. RowOf' = RowOf
      BY <1>2, <2>1 DEF RowOf
    <2>4. AuthorsOf' = AuthorsOf
      BY <1>2, <2>1 DEF AuthorsOf
    <2> QED BY <1>5, <2>2, <2>3, <2>4 DEF Membership!vars
  <1> QED BY <1>1, <1>7, <1>8

LEMMA MessageIsPosted ==
    ASSUME IInv, NEW r \in Requests, CommitSend(r)
    PROVE  Membership!Next
  <1>1. PICK c \in Convs, u \in Users :
            /\ c = req[r].conv /\ u = req[r].actor /\ members[c][u].state # "none"
            /\ members' = members /\ \A d \in Convs : convs'[d].kind = convs[d].kind
    BY SendWrite DEF ActorRow
  <1>2. KindOf' = KindOf /\ RowOf' = RowOf /\ AdminsOf' = AdminsOf
    BY <1>1 DEF KindOf, RowOf, AdminsOf
  <1>3. AuthorsOf' = [AuthorsOf EXCEPT ![c] = AuthorsOf[c] \cup {u}]
    <2> DEFINE m0 == [sent_at |-> req[r].sent_at, conv |-> c, sender |-> u]
    <2>1. messages' = messages \cup {m0}
      BY <1>1 DEF CommitSend
    <2>2. m0.conv = c /\ m0.sender = u
      OBVIOUS
    <2> HIDE DEF m0
    <2>3. \A d \in Convs \ {c} : AuthorsOf'[d] = AuthorsOf[d]
      BY <2>1, <2>2 DEF AuthorsOf
    <2>4. AuthorsOf'[c] = AuthorsOf[c] \cup {u}
      BY <2>1, <2>2 DEF AuthorsOf
    <2>5. /\ AuthorsOf = [d \in Convs |-> AuthorsOf[d]]
          /\ AuthorsOf' = [d \in Convs |-> AuthorsOf'[d]]
      BY DEF AuthorsOf
    <2> QED BY <2>3, <2>4, <2>5
  <1>4. RowOf[c][u] # "none"
    BY <1>1 DEF RowOf
  <1>5. Membership!Post(c, u)
    BY <1>2, <1>3, <1>4 DEF Membership!Post
  <1> QED BY <1>5 DEF Membership!Next

\* Every step of a request is one of MemberLife, or changes nothing it tells of.
LEMMA StepOfMemberLife ==
    ASSUME IInv, [Next]_vars
    PROVE  Membership!Next \/ UNCHANGED Membership!vars
  <1>1. ASSUME NEW r \in Requests, Receive(r)
        PROVE  members' = members /\ convs' = convs /\ messages' = messages
    <2>1. ASSUME NEW x \in Users, NEW y \in Users, NEW d \in Convs,
                 \/ DirectFound(r, x, y, d) \/ DirectInsert(r, x, y, d)
                 \/ AddAuthorize(r, x, d, y) \/ RemoveRead(r, x, d, y)
          PROVE  members' = members /\ convs' = convs /\ messages' = messages
      BY <2>1 DEF DirectFound, DirectInsert, AddAuthorize, RemoveRead, TablesUnchanged
    <2>2. ASSUME NEW x \in Users, NEW d \in Convs,
                 \/ LeaveRead(r, x, d) \/ DeleteRead(r, x, d) \/ SendAuthorize(r, x, d)
          PROVE  members' = members /\ convs' = convs /\ messages' = messages
      BY <2>2 DEF LeaveRead, DeleteRead, SendAuthorize, TablesUnchanged
    <2>3. ASSUME NEW x \in Users, NEW d \in Convs, NEW others \in SUBSET Users,
                 GroupInsert(r, x, others, d)
          PROVE  members' = members /\ convs' = convs /\ messages' = messages
      BY <2>3 DEF GroupInsert, TablesUnchanged
    <2> QED BY <1>1, <2>1, <2>2, <2>3 DEF Receive
  <1>2. ASSUME NEW r \in Requests, Progress(r) \/ Refused(r) \/ Abort(r)
        PROVE  \/ CommitDirect(r) \/ CommitGroup(r) \/ CommitDelete(r) \/ CommitSend(r)
               \/ CommitJoin(r) \/ CommitRejoin(r) \/ CommitLeave(r)
               \/ members' = members /\ convs' = convs /\ messages' = messages
    BY <1>2
       DEF Progress, AddAlreadyActive, AddReadLeft, AddReadNone, JoinConflict, FlushJoin,
           RemoveAuthorize, RemoveRefused, FlushMembership, FlushDelete, SendInsert,
           SendOrphaned, SendRead, SendKeep, SendTouch, Refused, Abort, TablesUnchanged, vars
  <1> QED BY <1>1, <1>2, TablesKept, DirectIsCreated, GroupIsCreated, MemberChanges,
             DirectIsDeleted, MessageIsPosted DEF Next, vars

\* The committed tables implement MemberLife: with requests, locks and stamps hidden, who is in
\* a conversation changes by atomic steps that its admin, its members or its deletion
\* account for, however stale what the requests had read.
THEOREM Refinement == Spec => ImplementsMemberLife
  <1>1. Init => Membership!Init
    BY DEF Init, Membership!Init, KindOf, RowOf, AdminsOf, AuthorsOf, NoParticipant
  <1>2. IInv /\ [Next]_vars => [Membership!Next]_(Membership!vars)
    BY StepOfMemberLife
  <1> QED BY <1>1, <1>2, InductiveInvariant, PTL
             DEF Spec, ImplementsMemberLife, Membership!Spec

\* What MemberLife's own steps keep.
\* A direct conversation stays one of two: it was one and keeps its rows, or it gets two now.
LEMMA DirectStaysOfTwo ==
    ASSUME Membership!DirectOfTwo,
           \A d \in Convs : KindOf'[d] = "direct" =>
               \/ KindOf[d] = "direct" /\ RowOf'[d] = RowOf[d]
               \/ \E u, v \in Users : /\ u # v
                                      /\ RowOf'[d] = [w \in Users |->
                                            IF w \in {u, v} THEN "active" ELSE "none"]
    PROVE  Membership!DirectOfTwo'
<1> SUFFICES ASSUME NEW d \in Convs, KindOf'[d] = "direct"
             PROVE  \E u, v \in Users : /\ u # v
                                        /\ RowOf'[d] = [w \in Users |->
                                              IF w \in {u, v} THEN "active" ELSE "none"]
    BY Zenon DEF Membership!DirectOfTwo, Membership!Rows
<1>1. CASE KindOf[d] = "direct" /\ RowOf'[d] = RowOf[d]
    <2>1. PICK u \in Users, v \in Users :
             u # v /\ RowOf[d] = [w \in Users |-> IF w \in {u, v} THEN "active" ELSE "none"]
        BY <1>1, Zenon DEF Membership!DirectOfTwo, Membership!Rows
    <2>2. u # v /\ RowOf'[d] = [w \in Users |-> IF w \in {u, v} THEN "active" ELSE "none"]
        BY <1>1, <2>1, Zenon
    <2> HIDE DEF RowOf
    <2> QED
        BY <2>2
<1> QED
    BY <1>1, Zenon

LEMMA MemberLifeKeeps ==
    ASSUME Membership!Inv, [Membership!Next]_(Membership!vars)
    PROVE  Membership!Inv'
  <1> USE DEF Membership!Inv
  <1>1. ASSUME NEW c \in Convs, NEW u \in Users, NEW v \in Users,
               Membership!CreateDirect(c, u, v)
        PROVE  Membership!Inv'
    <2> USE <1>1 DEF Membership!CreateDirect, Membership!Rows
    <2>1. /\ KindOf' \in [Convs -> {"none", "direct", "group", "deleted"}]
          /\ RowOf' \in [Convs -> [Users -> {"none", "active", "left"}]]
      OBVIOUS
    <2>2. /\ RowOf'[c] = Membership!Rows({u, v})
          /\ \A d \in Convs \ {c} : RowOf'[d] = RowOf[d] /\ KindOf'[d] = KindOf[d]
          /\ KindOf'[c] = "direct" /\ AdminsOf[c] = {} /\ AuthorsOf[c] = {}
      BY DEF Membership!GroupHasItsAdmin, Membership!AuthorsAreMembers
    <2>3. Membership!GroupHasItsAdmin'
      BY <2>2 DEF Membership!GroupHasItsAdmin, Membership!Members
    <2>4. u # v /\ RowOf'[c] = [w \in Users |-> IF w \in {u, v} THEN "active" ELSE "none"]
      BY <2>2
    <2>6. Membership!DirectOfTwo'
      <3> HIDE <1>1 DEF Membership!CreateDirect, Membership!Rows
      <3>1. ASSUME NEW d \in Convs, KindOf'[d] = "direct", d # c
            PROVE  KindOf[d] = "direct" /\ RowOf'[d] = RowOf[d]
        BY <2>2, <3>1
      <3>2. ASSUME NEW d \in Convs, KindOf'[d] = "direct"
            PROVE  \/ KindOf[d] = "direct" /\ RowOf'[d] = RowOf[d]
                   \/ \E x, y \in Users : /\ x # y
                                          /\ RowOf'[d] = [w \in Users |->
                                                IF w \in {x, y} THEN "active" ELSE "none"]
        <4>1. CASE d = c
          <5>1. u # v /\ RowOf'[d] = [w \in Users |-> IF w \in {u, v} THEN "active" ELSE "none"]
            BY <2>4, <4>1
          <5> QED BY <5>1
        <4>2. CASE d # c
          BY <3>1, <3>2, <4>2, Zenon
        <4> QED BY <4>1, <4>2
      <3> QED BY <3>2, DirectStaysOfTwo, Zenon
    <2>5. Membership!AuthorsAreMembers'
      BY <2>2 DEF Membership!AuthorsAreMembers, Membership!Members
    <2> QED BY <2>1, <2>3, <2>5, <2>6
  <1>2. ASSUME NEW c \in Convs, NEW a \in Users, NEW us \in SUBSET Users,
               Membership!CreateGroup(c, a, us)
        PROVE  Membership!Inv'
    <2> USE <1>2 DEF Membership!CreateGroup
    <2>1. /\ KindOf' \in [Convs -> {"none", "direct", "group", "deleted"}]
          /\ RowOf' \in [Convs -> [Users -> {"none", "active", "left"}]]
      BY DEF Membership!Rows
    <2>2. /\ \A d \in Convs \ {c} : RowOf'[d] = RowOf[d] /\ KindOf'[d] = KindOf[d]
          /\ KindOf'[c] = "group" /\ AuthorsOf[c] = {} /\ RowOf'[c][a] = "active"
      BY DEF Membership!AuthorsAreMembers, Membership!Rows
    <2>3. /\ \A d \in Convs \ {c} : AdminsOf'[d] = AdminsOf[d]
          /\ AdminsOf'[c] = {a}
      BY DEF AdminsOf
    <2>4. Membership!GroupHasItsAdmin'
      BY <2>2, <2>3 DEF Membership!GroupHasItsAdmin, Membership!Members
    <2>5. Membership!DirectOfTwo'
      BY <2>2, DirectStaysOfTwo
    <2>6. Membership!AuthorsAreMembers'
      BY <2>2 DEF Membership!AuthorsAreMembers, Membership!Members
    <2> QED BY <2>1, <2>4, <2>5, <2>6
  <1>3. ASSUME NEW c \in Convs, NEW by \in Users, NEW u \in Users,
               Membership!Admit(c, by, u) \/ Membership!Depart(c, by, u)
        PROVE  Membership!Inv'
    <2> USE <1>3 DEF Membership!Admit, Membership!Depart
    <2>1. /\ KindOf' = KindOf /\ AdminsOf' = AdminsOf /\ AuthorsOf' = AuthorsOf
          /\ KindOf[c] = "group"
          /\ \E st \in {"active", "left"} :
                RowOf' = [RowOf EXCEPT ![c] = [RowOf[c] EXCEPT ![u] = st]]
      OBVIOUS
    <2>2. RowOf' \in [Convs -> [Users -> {"none", "active", "left"}]]
      BY <2>1
    <2>3. /\ \A d \in Convs \ {c} : RowOf'[d] = RowOf[d]
          /\ \A w \in Users : RowOf[c][w] # "none" => RowOf'[c][w] # "none"
      BY <2>1
    <2>4. Membership!GroupHasItsAdmin'
      BY <2>1, <2>3 DEF Membership!GroupHasItsAdmin, Membership!Members
    <2>5. Membership!DirectOfTwo'
      <3>1. \A d \in Convs : KindOf'[d] = "direct" => KindOf[d] = "direct" /\ RowOf'[d] = RowOf[d]
        BY <2>1, <2>3
      <3> QED BY <3>1, DirectStaysOfTwo
    <2>6. Membership!AuthorsAreMembers'
      BY <2>1, <2>3 DEF Membership!AuthorsAreMembers, Membership!Members
    <2> QED BY <2>1, <2>2, <2>4, <2>5, <2>6
  <1>4. ASSUME NEW c \in Convs, Membership!Delete(c) PROVE Membership!Inv'
    <2> USE <1>4 DEF Membership!Delete
    <2>1. /\ KindOf' \in [Convs -> {"none", "direct", "group", "deleted"}]
          /\ RowOf' \in [Convs -> [Users -> {"none", "active", "left"}]]
      BY DEF Membership!Rows
    <2>2. /\ \A d \in Convs \ {c} : RowOf'[d] = RowOf[d] /\ KindOf'[d] = KindOf[d]
          /\ KindOf'[c] = "deleted" /\ AdminsOf[c] = {} /\ AdminsOf' = AdminsOf
          /\ \A u \in Users : RowOf'[c][u] = "none"
      BY DEF Membership!GroupHasItsAdmin, Membership!Rows
    <2>3. /\ \A d \in Convs \ {c} : AuthorsOf'[d] = AuthorsOf[d]
          /\ AuthorsOf'[c] = {}
      BY DEF AuthorsOf
    <2>4. Membership!GroupHasItsAdmin'
      BY <2>2 DEF Membership!GroupHasItsAdmin, Membership!Members
    <2>5. Membership!DirectOfTwo'
      BY <2>2, DirectStaysOfTwo
    <2>6. Membership!AuthorsAreMembers'
      BY <2>2, <2>3 DEF Membership!AuthorsAreMembers, Membership!Members
    <2> QED BY <2>1, <2>4, <2>5, <2>6
  <1>5. ASSUME NEW c \in Convs, NEW u \in Users, Membership!Post(c, u) PROVE Membership!Inv'
    <2> USE <1>5 DEF Membership!Post
    <2>1. /\ \A d \in Convs \ {c} : AuthorsOf'[d] = AuthorsOf[d]
          /\ AuthorsOf'[c] = AuthorsOf[c] \cup {u}
      BY DEF AuthorsOf
    <2>2. Membership!GroupHasItsAdmin' /\ Membership!DirectOfTwo'
      BY DEF Membership!GroupHasItsAdmin, Membership!DirectOfTwo, Membership!Members
    <2>3. Membership!AuthorsAreMembers'
      BY <2>1 DEF Membership!AuthorsAreMembers, Membership!Members
    <2> QED BY <2>2, <2>3
  <1>6. CASE UNCHANGED Membership!vars
    BY <1>6 DEF Membership!vars, Membership!GroupHasItsAdmin, Membership!DirectOfTwo,
                Membership!AuthorsAreMembers, Membership!Members, Membership!Rows
  <1> QED BY <1>1, <1>2, <1>3, <1>4, <1>5, <1>6 DEF Membership!Next

\* A group keeps its creator for its one admin, who may have left it, and never gets another;
\* a direct conversation keeps its two members; and no message of a conversation is
\* by somebody who never was in it. (ConversationService has no operation that grants
\* a role: a group whose creator has left can never add anybody again.)
THEOREM OneAdminForEver == Spec => []Membership!Inv
  <1>1. Membership!Init => Membership!Inv
    BY DEF Membership!Init, Membership!Inv, Membership!GroupHasItsAdmin, Membership!DirectOfTwo,
           Membership!AuthorsAreMembers, Membership!Members
  <1> QED BY <1>1, MemberLifeKeeps, Refinement, PTL DEF ImplementsMemberLife, Membership!Spec

-----------------------------------------------------------------------------
(* Nobody waits for ever *)

\* Each write a request flushes or commits has its statement.
OpsKnown ==
    \A r \in Requests :
        /\ req[r].pc = "flush" => req[r].op \in {"join", "rejoin", "leave", "delete"}
        /\ req[r].pc = "commit" => req[r].op # "none"

LEMMA OpsStep ==
    ASSUME TypeOK, OpsKnown, [Next]_vars
    PROVE  OpsKnown'
<1> DEFINE Fits(q) == /\ q.pc = "flush" => q.op \in {"join", "rejoin", "leave", "delete"}
                      /\ q.pc = "commit" => q.op # "none"
<1>1. CASE UNCHANGED vars
    BY <1>1 DEF vars, OpsKnown
<1>2. ASSUME NEW r \in Requests, \A o \in Requests \ {r} : req'[o] = req[o], Fits(req'[r])
      PROVE  OpsKnown'
    BY <1>2 DEF OpsKnown
<1>3. Fits(Idle)
    BY DEF Idle
<1>4. ASSUME NEW r \in Requests, NEW u \in Users, NEW c \in Convs, NEW v \in Users,
             \/ DirectFound(r, u, v, c) \/ DirectInsert(r, u, v, c)
             \/ AddAuthorize(r, u, c, v) \/ RemoveRead(r, u, c, v)
      PROVE  OpsKnown'
    <2>1. CASE DirectFound(r, u, v, c)
        BY <1>2, <1>3, <2>1 DEF TypeOK, Become, DirectFound, Idle
    <2>2. CASE DirectInsert(r, u, v, c)
        BY <1>2, <2>2 DEF TypeOK, Become, DirectInsert, Idle
    <2>3. CASE AddAuthorize(r, u, c, v) \/ RemoveRead(r, u, c, v)
        <3>t. req \in [Requests -> Request]
            BY DEF TypeOK
        <3>1. req'[r].pc \in {"read_target", "read_actor"}
            BY <2>3, <3>t DEF Become, AddAuthorize, RemoveRead, Idle
        <3>2. \A o \in Requests \ {r} : req'[o] = req[o]
            BY <2>3, <3>t DEF Become, AddAuthorize, RemoveRead
        <3> QED
            BY <1>2, <3>1, <3>2
    <2> QED
        BY <1>4, <2>1, <2>2, <2>3
<1>5. ASSUME NEW r \in Requests, NEW u \in Users, NEW c \in Convs,
             \/ \E others \in SUBSET Users : GroupInsert(r, u, others, c)
             \/ LeaveRead(r, u, c) \/ DeleteRead(r, u, c) \/ SendAuthorize(r, u, c)
      PROVE  OpsKnown'
    <2>t. req \in [Requests -> Request]
        BY DEF TypeOK
    <2>1. \A o \in Requests \ {r} : req'[o] = req[o]
        BY <1>5, <2>t DEF Become, GroupInsert, LeaveRead, DeleteRead, SendAuthorize
    <2>2. CASE \E others \in SUBSET Users : GroupInsert(r, u, others, c)
        <3>1. Fits(req'[r])
            BY <2>2, <2>t DEF Become, GroupInsert, Idle
        <3> QED
            BY <1>2, <2>1, <3>1
    <2>3. CASE LeaveRead(r, u, c)
        <3>1. Fits(req'[r])
            BY <2>3, <2>t DEF Become, LeaveRead, Idle
        <3> QED
            BY <1>2, <2>1, <3>1
    <2>4. CASE DeleteRead(r, u, c)
        <3>1. Fits(req'[r])
            BY <2>4, <2>t DEF Become, DeleteRead, Idle
        <3> QED
            BY <1>2, <2>1, <3>1
    <2>5. CASE SendAuthorize(r, u, c)
        <3>1. Fits(req'[r])
            BY <2>5, <2>t DEF Become, SendAuthorize, Idle
        <3> QED
            BY <1>2, <2>1, <3>1
    <2> QED
        BY <1>5, <2>2, <2>3, <2>4, <2>5
<1>6. ASSUME NEW r \in Requests,
             \/ AddReadLeft(r) \/ AddReadNone(r) \/ RemoveAuthorize(r) \/ FlushJoin(r)
             \/ FlushMembership(r) \/ FlushDelete(r)
             \/ SendInsert(r) \/ SendRead(r) \/ SendKeep(r) \/ SendTouch(r)
      PROVE  OpsKnown'
    <2>1. req[r] \in Request
        BY DEF TypeOK
    <2>2. \A o \in Requests \ {r} : req'[o] = req[o]
        BY <1>6 DEF TypeOK, Become, AddReadLeft, AddReadNone, RemoveAuthorize, FlushJoin,
            FlushMembership, FlushDelete, SendInsert, SendRead, SendKeep, SendTouch
    <2>3. CASE AddReadLeft(r)
        <3>1. req'[r].op = "rejoin" /\ req'[r].pc = "flush"
            BY <2>1, <2>3 DEF TypeOK, Become, AddReadLeft, Request
        <3> QED
            BY <1>2, <2>2, <3>1
    <2>4. CASE AddReadNone(r)
        <3>1. req'[r].op = "join" /\ req'[r].pc = "flush"
            BY <2>1, <2>4 DEF TypeOK, Become, AddReadNone, Request
        <3> QED
            BY <1>2, <2>2, <3>1
    <2>5. CASE RemoveAuthorize(r)
        <3>1. req'[r].op = "leave" /\ req'[r].pc = "flush"
            BY <2>1, <2>5 DEF TypeOK, Become, RemoveAuthorize, Request
        <3> QED
            BY <1>2, <2>2, <3>1
    <2>6. CASE SendInsert(r)
        <3>1. req'[r].pc = "read"
            BY <2>1, <2>6 DEF TypeOK, Become, SendInsert, Request
        <3> QED
            BY <1>2, <2>2, <3>1
    <2>7. CASE SendRead(r)
        <3>1. req'[r].pc = "touch"
            BY <2>1, <2>7 DEF TypeOK, Become, SendRead, Request
        <3> QED
            BY <1>2, <2>2, <3>1
    <2>8. CASE SendKeep(r)
        <3>1. req'[r].op = "send" /\ req'[r].pc = "commit"
            BY <2>1, <2>8 DEF TypeOK, Become, SendKeep, Request
        <3> QED
            BY <1>2, <2>2, <3>1
    <2>9. CASE SendTouch(r)
        <3>1. req'[r].op = "send_touch" /\ req'[r].pc = "commit"
            BY <2>1, <2>9 DEF TypeOK, Become, SendTouch, Request
        <3> QED
            BY <1>2, <2>2, <3>1
    <2>10. CASE FlushJoin(r) \/ FlushMembership(r) \/ FlushDelete(r)
        <3>1. req'[r].pc = "commit" /\ req'[r].op \in {"rejoin", "join", "leave", "delete"}
            BY <2>1, <2>10 DEF TypeOK, Become, FlushJoin, FlushMembership, FlushDelete, Request
        <3> QED
            BY <1>2, <2>2, <3>1
    <2> QED
        BY <1>6, <2>3, <2>4, <2>5, <2>6, <2>7, <2>8, <2>9, <2>10
<1>7. ASSUME NEW r \in Requests,
             \/ AddAlreadyActive(r) \/ JoinConflict(r) \/ RemoveRefused(r) \/ SendOrphaned(r)
             \/ Abort(r)
             \/ CommitDirect(r) \/ CommitGroup(r) \/ CommitJoin(r) \/ CommitRejoin(r)
             \/ CommitLeave(r) \/ CommitDelete(r) \/ CommitSend(r)
      PROVE  OpsKnown'
    <2>1. Fits(req'[r]) /\ \A o \in Requests \ {r} : req'[o] = req[o]
        BY <1>3, <1>7
        DEF TypeOK, Become, AddAlreadyActive, JoinConflict, RemoveRefused, SendOrphaned, Abort,
            CommitDirect, CommitGroup, CommitJoin, CommitRejoin, CommitLeave, CommitDelete,
            CommitSend
    <2> QED
        BY <1>2, <2>1
<1> QED
    BY <1>1, <1>4, <1>5, <1>6, <1>7 DEF Next, Refused, Receive, Progress

\* NoWaitCycle, with the guards written out: while any of the requests is under way, one of
\* them has a statement that waits for nobody. A commit waits for nothing; a send, an insert
\* and a change of a membership wait for commits only; a delete waits for these and for sends.
THEOREM NoCircleOfWaiters == Spec => []SomebodyIsReady
<1>1. ASSUME TypeOK, RequestsInv, OpsKnown, NEW r \in Requests, req[r].pc # "idle"
      PROVE  \E q \in Requests : Ready(q)
    <2>1. CASE \E q \in Requests : req[q].pc = "commit"
        <3>1. PICK q \in Requests : req[q].pc = "commit"
            BY <2>1
        <3>2. req[q].op \in {"create_direct", "create_group", "join", "rejoin", "leave",
                             "delete", "send", "send_touch"}
            BY <1>1, <3>1 DEF TypeOK, Request, OpsKnown
        <3> QED
            BY <3>1, <3>2 DEF Ready
    <2>2. CASE \A q \in Requests : req[q].pc # "commit"
        <3>1. /\ \A q \in Requests : \A c, u : ~WritesMember(q, c, u)
              /\ \A q \in Requests : \A c : ~WritesConv(q, c) /\ ~DeletesConv(q, c)
            BY <2>2 DEF WritesMember, WritesConv, DeletesConv
        <3>2. \A c, u : MemberUnlocked(c, u)
            BY <3>1 DEF MemberUnlocked
        <3>3. ASSUME NEW q \in Requests, req[q].pc = "touch"
              PROVE  Ready(q)
            <4>1. req[q].seen \in Nat /\ req[q].sent_at \in Nat
                BY <1>1, RequestTyped, MaxAssumption DEF Stamps, NoStamp
            <4>2. req[q].seen >= req[q].sent_at \/ req[q].seen < req[q].sent_at
                BY <4>1
            <4> QED
                BY <3>1, <3>2, <3>3, <4>2 DEF Ready
        <3>4. ASSUME NEW q \in Requests, req[q].pc = "read"
              PROVE  Ready(q)
            BY <3>4 DEF Ready
        <3>5. CASE \A q \in Requests : req[q].pc \notin {"read", "touch"}
            <4>1. \A q \in Requests : \A c : ~SharesConv(q, c)
                BY <2>2, <3>5 DEF SharesConv
            <4>2. req[r].pc \in {"read_target", "read_actor", "flush", "insert"}
                BY <1>1, <2>2, <3>5 DEF TypeOK, Request
            <4>3. CASE req[r].pc = "read_target"
                <5>1. TargetRow(r) \in Participant
                    BY <1>1, <4>3
                    DEF RequestsInv, Shape, JoinShape, Joins, Names, TypeOK, TargetRow
                <5> QED
                    BY <4>3, <5>1, RowsTyped DEF Ready, TargetRow
            <4>4. CASE req[r].pc = "read_actor"
                BY <4>4 DEF Ready
            <4>5. CASE req[r].pc = "flush"
                <5>1. req[r].op \in {"join", "rejoin", "leave", "delete"}
                    BY <1>1, <4>5 DEF OpsKnown
                <5> QED
                    BY <3>1, <3>2, <4>1, <4>5, <5>1 DEF Ready
            <4>6. CASE req[r].pc = "insert"
                BY <3>1, <4>6 DEF Ready
            <4> QED
                BY <4>2, <4>3, <4>4, <4>5, <4>6
        <3> QED
            BY <3>3, <3>4, <3>5
    <2> QED
        BY <2>1, <2>2
<1>2. Init => OpsKnown
    BY DEF Init, Idle, OpsKnown
<1>3. IInv /\ OpsKnown /\ [Next]_vars => OpsKnown'
    BY OpsStep DEF IInv
<1>4. IInv /\ OpsKnown => SomebodyIsReady
    BY <1>1 DEF IInv, SomebodyIsReady
<1> QED
    BY <1>2, <1>3, <1>4, InductiveInvariant, PTL DEF Spec
=============================================================================
