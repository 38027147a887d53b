--------------------------- MODULE Conversations ---------------------------
(***************************************************************************)
(* Conversations, their memberships and their messages (ConversationService, *)
(* MessagingService and their repositories), as concurrent requests. As in *)
(* Sessions, a request is one READ COMMITTED transaction: its SELECTs see  *)
(* the committed rows, its writes become visible when it commits, and what *)
(* it read may be stale by then. PostgreSQL itself keeps three promises    *)
(* the handlers rely on:                                                   *)
(*                                                                         *)
(*   - an UPDATE or DELETE holds its row until the transaction ends;       *)
(*   - an INSERT INTO messages takes a KEY SHARE lock on its conversation, *)
(*     which a DELETE of the conversation waits for, and fails when the    *)
(*     conversation is gone (foreign key, ON DELETE CASCADE);              *)
(*   - an INSERT INTO conversation_participants waits for an uncommitted   *)
(*     row of the same conversation and user, and fails on a committed one *)
(*     (uq_conversation_participant).                                      *)
(*                                                                         *)
(* A handler step that raises ends the request with a rollback: since it   *)
(* has committed nothing, the request just becomes idle.                   *)
(***************************************************************************)
EXTENDS Naturals, FiniteSets

CONSTANTS Requests,     \* slots for requests being served at the same time
          Users,
          Convs,        \* primary keys uuid4 can draw for table conversations
          NoUser, NoConv,
          MaxMessages   \* bound on the messages sent

ASSUME MaxAssumption == MaxMessages \in Nat

\* The connection pool is finite.
ASSUME RequestsAssumption == IsFiniteSet(Requests)

ASSUME NullAssumption ==
    /\ NoUser \notin Users
    /\ NoConv \notin Convs

VARIABLES
    convs,      \* the committed rows of table conversations
    members,    \* members[c][u]: the committed membership row of u in c
    messages,   \* the committed rows of table messages
    clock,      \* sent_at of the newest message any request has stamped
    req         \* what each request has read and flushed so far

vars == <<convs, members, messages, clock, req>>

\* sent_at of a message, in the order datetime.now was read; it also names the message.
Stamps == 1 .. MaxMessages
NoStamp == 0

\* kind "deleted": the row is gone and uuid4 never draws its key again.
Conversation ==
    [kind: {"none", "direct", "group", "deleted"}, last_message_at: Stamps \cup {NoStamp}]

\* state "none": no row; "left": left_at is set. A direct conversation has no roles.
NoParticipant == [state |-> "none", role |-> "null"]

Participant ==
    [state: {"active", "left"}, role: {"null", "member", "group_admin"}] \cup {NoParticipant}

Message == [sent_at: Stamps, conv: Convs, sender: Users]

(***************************************************************************)
(* pc: the next step of the request.                                       *)
(* op: the write it is about to flush or commit.                           *)
(* target: the user whose membership is written.                           *)
(* others: create_group's members; send's members to reactivate.           *)
(* seen: conversation.last_message_at as send read it.                     *)
(***************************************************************************)
Request ==
    [pc: {"idle", "read_target", "read_actor", "flush", "insert", "read", "touch", "commit"},
     op: {"none", "create_direct", "create_group", "join", "rejoin", "leave", "delete",
          "send", "send_touch"},
     actor: Users \cup {NoUser}, target: Users \cup {NoUser}, conv: Convs \cup {NoConv},
     others: SUBSET Users, sent_at: Stamps \cup {NoStamp}, seen: Stamps \cup {NoStamp}]

Idle == [pc |-> "idle", op |-> "none", actor |-> NoUser, target |-> NoUser,
         conv |-> NoConv, others |-> {}, sent_at |-> NoStamp, seen |-> NoStamp]

TypeOK ==
    /\ convs \in [Convs -> Conversation]
    /\ members \in [Convs -> [Users -> Participant]]
    /\ messages \in SUBSET Message
    /\ clock \in 0 .. MaxMessages
    /\ req \in [Requests -> Request]

Init ==
    /\ convs = [c \in Convs |-> [kind |-> "none", last_message_at |-> NoStamp]]
    /\ members = [c \in Convs |-> [u \in Users |-> NoParticipant]]
    /\ messages = {}
    /\ clock = 0
    /\ req = [r \in Requests |-> Idle]

-----------------------------------------------------------------------------
(* What the committed rows say *)

Active(c, u) == members[c][u].state = "active"

\* _authorize_group_admin: an active membership with the role group_admin.
\* Mutant of IsGroupAdmin: the role is not looked at.
IsAnyMember(c, u) == Active(c, u)

IsGroupAdmin(c, u) == Active(c, u) /\ members[c][u].role = "group_admin"

\* ConversationRepository.find_direct, before its LIMIT 1: whatever left_at says.
DirectsOf(u, v) ==
    {c \in Convs : /\ convs[c].kind = "direct"
                   /\ members[c][u].state # "none"
                   /\ members[c][v].state # "none"}

-----------------------------------------------------------------------------
(* Row locks, held from the flush to the end of the transaction *)

\* KEY SHARE on the conversation, taken by the INSERT of a message.
SharesConv(r, c) ==
    /\ req[r].conv = c
    /\ \/ req[r].pc \in {"read", "touch"}
       \/ req[r].pc = "commit" /\ req[r].op \in {"send", "send_touch"}

\* The row of the conversation, written by an UPDATE of last_message_at or a DELETE.
WritesConv(r, c) ==
    /\ req[r].conv = c
    /\ req[r].pc = "commit" /\ req[r].op \in {"send_touch", "delete"}

DeletesConv(r, c) == WritesConv(r, c) /\ req[r].op = "delete"

\* The membership row (or, for an INSERT, the unique index entry) of u in c.
WritesMember(r, c, u) ==
    /\ req[r].conv = c /\ req[r].pc = "commit"
    /\ \/ req[r].op \in {"join", "rejoin", "leave"} /\ req[r].target = u
       \/ req[r].op \in {"send", "send_touch"} /\ u \in req[r].others

MemberUnlocked(c, u) == \A r \in Requests : ~WritesMember(r, c, u)

\* A uuid that is in no table and that no other request has drawn.
Fresh(c) ==
    /\ convs[c].kind = "none"
    /\ \A r \in Requests : req[r].conv # c

\* r goes on as q; nothing is committed by its step.
Become(r, q) == req' = [req EXCEPT ![r] = q]

TablesUnchanged == UNCHANGED <<convs, members, messages, clock>>

\* A request whose first check fails: 403, 404 or 422 and nothing written.
Refused(r) ==
    /\ req[r].pc = "idle"
    /\ UNCHANGED vars

-----------------------------------------------------------------------------
(* POST /conversations *)

\* A direct conversation of the pair exists: it is reused, and the caller's membership
\* reactivated if it was left.
DirectFound(r, u, v, c) ==
    /\ req[r].pc = "idle"
    /\ u # v
    /\ c \in DirectsOf(u, v)
    /\ Become(r, IF members[c][u].state = "left"
                 THEN [Idle EXCEPT !.pc = "flush", !.op = "rejoin",
                                   !.actor = u, !.target = u, !.conv = c]
                 ELSE Idle)
    /\ TablesUnchanged

\* find_direct found none: INSERT a conversation and its two memberships.
DirectInsert(r, u, v, c) ==
    /\ req[r].pc = "idle"
    /\ u # v
    /\ DirectsOf(u, v) = {}
    /\ Fresh(c)
    /\ Become(r, [Idle EXCEPT !.pc = "commit", !.op = "create_direct",
                              !.actor = u, !.target = v, !.conv = c])
    /\ TablesUnchanged

GroupInsert(r, u, others, c) ==
    /\ req[r].pc = "idle"
    /\ others # {} /\ u \notin others
    /\ Fresh(c)
    /\ Become(r, [Idle EXCEPT !.pc = "commit", !.op = "create_group",
                              !.actor = u, !.others = others, !.conv = c])
    /\ TablesUnchanged

-----------------------------------------------------------------------------
(* POST /conversations/{c}/participants: add_participant *)

AddAuthorize(r, u, c, v) ==
    /\ req[r].pc = "idle"
    /\ convs[c].kind = "group"
    /\ IsGroupAdmin(c, u)
    /\ Become(r, [Idle EXCEPT !.pc = "read_target", !.actor = u, !.target = v, !.conv = c])
    /\ TablesUnchanged

\* ParticipantAlreadyActiveError, 409.
AddAlreadyActive(r) ==
    /\ req[r].pc = "read_target"
    /\ Active(req[r].conv, req[r].target)
    /\ Become(r, Idle)
    /\ TablesUnchanged

AddReadLeft(r) ==
    /\ req[r].pc = "read_target"
    /\ members[req[r].conv][req[r].target].state = "left"
    /\ Become(r, [req[r] EXCEPT !.pc = "flush", !.op = "rejoin"])
    /\ TablesUnchanged

AddReadNone(r) ==
    /\ req[r].pc = "read_target"
    /\ members[req[r].conv][req[r].target].state = "none"
    /\ Become(r, [req[r] EXCEPT !.pc = "flush", !.op = "join"])
    /\ TablesUnchanged

\* The INSERT finds a row committed since the SELECT: IntegrityError, rollback.
JoinConflict(r) ==
    /\ req[r].pc = "flush" /\ req[r].op = "join"
    /\ members[req[r].conv][req[r].target].state # "none"
    /\ Become(r, Idle)
    /\ TablesUnchanged

FlushJoin(r) ==
    /\ req[r].pc = "flush" /\ req[r].op = "join"
    /\ MemberUnlocked(req[r].conv, req[r].target)
    /\ members[req[r].conv][req[r].target].state = "none"
    /\ Become(r, [req[r] EXCEPT !.pc = "commit"])
    /\ TablesUnchanged

-----------------------------------------------------------------------------
(* DELETE /conversations/{c}/participants/{v}: remove_participant *)

\* A member leaves: no further check.
LeaveRead(r, u, c) ==
    /\ req[r].pc = "idle"
    /\ convs[c].kind = "group"
    /\ Active(c, u)
    /\ Become(r, [Idle EXCEPT !.pc = "flush", !.op = "leave",
                              !.actor = u, !.target = u, !.conv = c])
    /\ TablesUnchanged

\* The target is read before the actor is authorized.
RemoveRead(r, u, c, v) ==
    /\ req[r].pc = "idle"
    /\ convs[c].kind = "group"
    /\ u # v
    /\ Active(c, v)
    /\ Become(r, [Idle EXCEPT !.pc = "read_actor", !.actor = u, !.target = v, !.conv = c])
    /\ TablesUnchanged

RemoveAuthorize(r) ==
    /\ req[r].pc = "read_actor"
    /\ IsGroupAdmin(req[r].conv, req[r].actor)
    /\ Become(r, [req[r] EXCEPT !.pc = "flush", !.op = "leave"])
    /\ TablesUnchanged

\* NotGroupAdminError, 403.
RemoveRefused(r) ==
    /\ req[r].pc = "read_actor"
    /\ ~IsGroupAdmin(req[r].conv, req[r].actor)
    /\ Become(r, Idle)
    /\ TablesUnchanged

\* mark_left and mark_reactivated: an UPDATE of left_at that waits for the row.
FlushMembership(r) ==
    /\ req[r].pc = "flush" /\ req[r].op \in {"leave", "rejoin"}
    /\ MemberUnlocked(req[r].conv, req[r].target)
    /\ Become(r, [req[r] EXCEPT !.pc = "commit"])
    /\ TablesUnchanged

-----------------------------------------------------------------------------
(* DELETE /conversations/{c}: delete_conversation. On a group it is LeaveRead. *)

\* A direct conversation is deleted for both of its members.
DeleteRead(r, u, c) ==
    /\ req[r].pc = "idle"
    /\ convs[c].kind = "direct"
    /\ Active(c, u)
    /\ Become(r, [Idle EXCEPT !.pc = "flush", !.op = "delete", !.actor = u, !.conv = c])
    /\ TablesUnchanged

\* Mutant of FlushDelete: the DELETE does not wait for the messages being inserted.
FlushDeleteAtOnce(r) ==
    /\ req[r].pc = "flush" /\ req[r].op = "delete"
    /\ Become(r, [req[r] EXCEPT !.pc = "commit"])
    /\ TablesUnchanged

\* DELETE of the memberships, the messages and the conversation, which waits for every
\* transaction that inserted a message or wrote the row. A row that is gone by then
\* is deleted again without an error (SQLAlchemy only warns).
FlushDelete(r) ==
    /\ req[r].pc = "flush" /\ req[r].op = "delete"
    /\ \A q \in Requests : ~SharesConv(q, req[r].conv) /\ ~WritesConv(q, req[r].conv)
    /\ Become(r, [req[r] EXCEPT !.pc = "commit"])
    /\ TablesUnchanged

-----------------------------------------------------------------------------
(* POST /conversations/{c}/messages and message.send on the websocket *)

\* The sender is an active participant, its identity key is current, the envelope is
\* well formed. (The bound on the clock leaves a stamp for every request under way.)
SendAuthorize(r, u, c) ==
    /\ req[r].pc = "idle"
    /\ Active(c, u)
    /\ Cardinality({q \in Requests : req[q].pc = "insert"}) < MaxMessages - clock
    /\ Become(r, [Idle EXCEPT !.pc = "insert", !.actor = u, !.conv = c])
    /\ TablesUnchanged

\* The INSERT of the message, stamped now; it waits for a DELETE of the conversation.
SendInsert(r) ==
    /\ req[r].pc = "insert"
    /\ convs[req[r].conv].kind # "deleted"
    /\ \A q \in Requests : ~DeletesConv(q, req[r].conv)
    /\ clock' = clock + 1
    /\ Become(r, [req[r] EXCEPT !.pc = "read", !.sent_at = clock + 1])
    /\ UNCHANGED <<convs, members, messages>>

\* The conversation was deleted since the sender was authorized: foreign key violation.
SendOrphaned(r) ==
    /\ req[r].pc = "insert"
    /\ convs[req[r].conv].kind = "deleted"
    /\ Become(r, Idle)
    /\ TablesUnchanged

\* Mutant of LeftRecipients: a group is treated like a direct conversation.
LeftRecipientsAnyKind(c) == {u \in Users : members[c][u].state = "left"}

\* The members mark_reactivated is called for: none unless the conversation is direct.
LeftRecipients(c) ==
    {u \in Users : convs[c].kind = "direct" /\ members[c][u].state = "left"}

\* list_all_participants and get_by_id.
SendRead(r) ==
    /\ req[r].pc = "read"
    /\ Become(r, [req[r] EXCEPT !.pc = "touch", !.others = LeftRecipients(req[r].conv),
                                !.seen = convs[req[r].conv].last_message_at])
    /\ TablesUnchanged

\* The stamp read earlier is newer: update_last_message_at writes nothing.
SendKeep(r) ==
    /\ req[r].pc = "touch"
    /\ req[r].seen >= req[r].sent_at
    /\ \A u \in req[r].others : MemberUnlocked(req[r].conv, u)
    /\ Become(r, [req[r] EXCEPT !.pc = "commit", !.op = "send"])
    /\ TablesUnchanged

\* Mutant of SendTouch: the UPDATE queues behind itself.
SendTouchSelfQueued(r) ==
    /\ req[r].pc = "touch"
    /\ req[r].seen < req[r].sent_at
    /\ \A q \in Requests : ~WritesConv(q, req[r].conv) /\ ~SharesConv(q, req[r].conv)
    /\ Become(r, [req[r] EXCEPT !.pc = "commit", !.op = "send_touch"])
    /\ TablesUnchanged

\* mark_reactivated of the members read as left, then the UPDATE of last_message_at.
SendTouch(r) ==
    /\ req[r].pc = "touch"
    /\ req[r].seen < req[r].sent_at
    /\ \A u \in req[r].others : MemberUnlocked(req[r].conv, u)
    /\ \A q \in Requests : ~WritesConv(q, req[r].conv)
    /\ Become(r, [req[r] EXCEPT !.pc = "commit", !.op = "send_touch"])
    /\ TablesUnchanged

-----------------------------------------------------------------------------
(* The end of a transaction: what was flushed becomes visible. *)

CommitDirect(r) ==
    /\ req[r].pc = "commit" /\ req[r].op = "create_direct"
    /\ convs' = [convs EXCEPT ![req[r].conv].kind = "direct"]
    /\ members' = [members EXCEPT ![req[r].conv] =
                      [u \in Users |-> IF u \in {req[r].actor, req[r].target}
                                       THEN [state |-> "active", role |-> "null"]
                                       ELSE NoParticipant]]
    /\ Become(r, Idle)
    /\ UNCHANGED <<messages, clock>>

CommitGroup(r) ==
    /\ req[r].pc = "commit" /\ req[r].op = "create_group"
    /\ convs' = [convs EXCEPT ![req[r].conv].kind = "group"]
    /\ members' = [members EXCEPT ![req[r].conv] =
                      [u \in Users |->
                          IF u = req[r].actor THEN [state |-> "active", role |-> "group_admin"]
                          ELSE IF u \in req[r].others THEN [state |-> "active", role |-> "member"]
                          ELSE NoParticipant]]
    /\ Become(r, Idle)
    /\ UNCHANGED <<messages, clock>>

CommitJoin(r) ==
    /\ req[r].pc = "commit" /\ req[r].op = "join"
    /\ members' = [members EXCEPT ![req[r].conv][req[r].target] =
                      [state |-> "active", role |-> "member"]]
    /\ Become(r, Idle)
    /\ UNCHANGED <<convs, messages, clock>>

\* left_at is cleared; role and joined_at stay.
CommitRejoin(r) ==
    /\ req[r].pc = "commit" /\ req[r].op = "rejoin"
    /\ members' = [members EXCEPT ![req[r].conv][req[r].target].state = "active"]
    /\ Become(r, Idle)
    /\ UNCHANGED <<convs, messages, clock>>

\* Mutant of CommitLeave: the row is given up but its role is kept.
CommitLeaveUnlinked(r) ==
    /\ req[r].pc = "commit" /\ req[r].op = "leave"
    /\ members' = [members EXCEPT ![req[r].conv][req[r].target].state = "none"]
    /\ Become(r, Idle)
    /\ UNCHANGED <<convs, messages, clock>>

CommitLeave(r) ==
    /\ req[r].pc = "commit" /\ req[r].op = "leave"
    /\ members' = [members EXCEPT ![req[r].conv][req[r].target].state = "left"]
    /\ Become(r, Idle)
    /\ UNCHANGED <<convs, messages, clock>>

\* The foreign keys cascade to every membership and every message.
CommitDelete(r) ==
    /\ req[r].pc = "commit" /\ req[r].op = "delete"
    /\ convs' = [convs EXCEPT ![req[r].conv] =
                    [kind |-> "deleted", last_message_at |-> NoStamp]]
    /\ members' = [members EXCEPT ![req[r].conv] = [u \in Users |-> NoParticipant]]
    /\ messages' = {m \in messages : m.conv # req[r].conv}
    /\ Become(r, Idle)
    /\ UNCHANGED clock

CommitSend(r) ==
    /\ req[r].pc = "commit" /\ req[r].op \in {"send", "send_touch"}
    /\ messages' = messages \cup
          {[sent_at |-> req[r].sent_at, conv |-> req[r].conv, sender |-> req[r].actor]}
    /\ members' = [members EXCEPT ![req[r].conv] =
                      [u \in Users |-> IF u \in req[r].others
                                       THEN [@[u] EXCEPT !.state = "active"] ELSE @[u]]]
    /\ convs' = [convs EXCEPT ![req[r].conv].last_message_at =
                    IF req[r].op = "send_touch" THEN req[r].sent_at ELSE @]
    /\ Become(r, Idle)
    /\ UNCHANGED clock

\* The connection or the process is lost, or the handler raised: rollback.
Abort(r) ==
    /\ req[r].pc # "idle"
    /\ Become(r, Idle)
    /\ TablesUnchanged

-----------------------------------------------------------------------------
\* The steps a request takes by itself once it has been received.
Progress(r) ==
    \/ AddAlreadyActive(r) \/ AddReadLeft(r) \/ AddReadNone(r)
    \/ JoinConflict(r) \/ FlushJoin(r)
    \/ RemoveAuthorize(r) \/ RemoveRefused(r)
    \/ FlushMembership(r)
    \/ FlushDelete(r)
    \/ SendInsert(r) \/ SendOrphaned(r) \/ SendRead(r) \/ SendKeep(r) \/ SendTouch(r)
    \/ CommitDirect(r) \/ CommitGroup(r) \/ CommitJoin(r) \/ CommitRejoin(r)
    \/ CommitLeave(r) \/ CommitDelete(r) \/ CommitSend(r)

Receive(r) ==
    \E u \in Users, c \in Convs :
        \/ \E v \in Users : \/ DirectFound(r, u, v, c) \/ DirectInsert(r, u, v, c)
                           \/ AddAuthorize(r, u, c, v) \/ RemoveRead(r, u, c, v)
        \/ \E others \in SUBSET Users : GroupInsert(r, u, others, c)
        \/ LeaveRead(r, u, c) \/ DeleteRead(r, u, c) \/ SendAuthorize(r, u, c)

Next == \E r \in Requests : Refused(r) \/ Receive(r) \/ Progress(r) \/ Abort(r)

Spec == Init /\ [][Next]_vars

-----------------------------------------------------------------------------
(* Properties *)

\* A message and a membership belong to a conversation that exists, and the sender of a
\* message has a membership row there: hard delete (delete_conversation) against a send
\* that was authorized before it.
NothingOutlivesItsConversation ==
    /\ \A m \in messages :
          /\ convs[m.conv].kind \in {"direct", "group"}
          /\ members[m.conv][m.sender].state # "none"
    /\ \A c \in Convs, u \in Users :
          members[c][u].state # "none" => convs[c].kind \in {"direct", "group"}

\* A direct conversation has exactly two members and neither of them ever leaves it: it
\* disappears for both or for none, and nobody is ever reactivated by a send
\* (delete_conversation's hard delete against MessagingService.send's FR-055 branch).
DirectMembersStay ==
    \A c \in Convs : convs[c].kind = "direct" =>
        /\ Cardinality({u \in Users : Active(c, u)}) = 2
        /\ \A u \in Users : members[c][u] \in
               {NoParticipant, [state |-> "active", role |-> "null"]}

\* MessagingService.send: a removal from a group "MUST NOT be silently undone by the next
\* message". Whatever else is in flight, a member who left a group is active again only
\* by the commit of an add_participant whose actor is a group_admin of that group.
RemovalUndoneByAdminOnly ==
    [][\A c \in Convs, u \in Users :
          members[c][u].state = "left" /\ members'[c][u].state = "active" =>
              \E r \in Requests :
                  /\ req[r].pc = "commit" /\ req[r].op = "rejoin"
                  /\ req[r].conv = c /\ req[r].target = u
                  /\ members[c][req[r].actor].role = "group_admin"]_vars

\* A membership of a group changes by the commit of a request whose target it is and whose
\* actor is a group_admin of that group, or the leaving member itself; and a row
\* keeps its role: two adds racing past the check in add_participant, or a leave and
\* a re-add, never overwrite it (remove_participant, uq_conversation_participant).
MembershipChangesAuthorized ==
    [][\A c \in Convs, u \in Users :
          convs[c].kind = "group" /\ members[c][u] # members'[c][u] =>
              \E r \in Requests :
                  /\ req[r].pc = "commit" /\ req[r].conv = c
                  /\ req[r].target = u
                  /\ \/ req[r].actor = u /\ req[r].op = "leave"
                     \/ members[c][req[r].actor].role = "group_admin"
                  /\ members[c][u].state # "none" =>
                         members'[c][u].role = members[c][u].role]_vars

\* Senders, deleters and membership changes never wait for each other in a circle: while
\* requests are under way, one of them can take its next step.
NoWaitCycle ==
    (\E r \in Requests : req[r].pc # "idle") => \E r \in Requests : ENABLED Progress(r)

\* Each step of Progress(r) by its guards: a statement that waits for nothing, or one whose
\* locks are free. ReadyMeansEnabled says that this is what enables it.
Ready(r) ==
    LET q == req[r]
        row == members[q.conv][q.target].state
    IN  \/ q.pc = "read_target" /\ row \in {"active", "left", "none"}
        \/ q.pc \in {"read_actor", "read"}
        \/ q.pc = "flush" /\ q.op = "join" /\ (row = "none" => MemberUnlocked(q.conv, q.target))
        \/ q.pc = "flush" /\ q.op \in {"rejoin", "leave"} /\ MemberUnlocked(q.conv, q.target)
        \/ /\ q.pc = "flush" /\ q.op = "delete"
           /\ \A o \in Requests : ~SharesConv(o, q.conv) /\ ~WritesConv(o, q.conv)
        \/ /\ q.pc = "insert"
           /\ convs[q.conv].kind = "deleted" \/ \A o \in Requests : ~DeletesConv(o, q.conv)
        \/ /\ q.pc = "touch"
           /\ \A u \in q.others : MemberUnlocked(q.conv, u)
           /\ q.seen >= q.sent_at \/ \A o \in Requests : ~WritesConv(o, q.conv)
        \/ q.pc = "commit" /\ q.op # "none"

\* NoWaitCycle in these terms, which the prover understands, and the link between the two.
SomebodyIsReady == (\E r \in Requests : req[r].pc # "idle") => \E r \in Requests : Ready(r)
ReadyMeansEnabled == \A r \in Requests : Ready(r) <=> ENABLED Progress(r)

\* ConversationService.create_direct: "two clients starting the same pair concurrently
\* cannot produce two direct conversations between the same two users".
OneDirectPerPair ==
    \A u, v \in Users : u # v => Cardinality(DirectsOf(u, v)) <= 1

\* ConversationRepository.update_last_message_at moves the stamp forward only ("sent_at >
\* conversation.last_message_at"): when no request is under way, a conversation shows
\* the time of its newest message.
NewestMessageShown ==
    (\A r \in Requests : req[r].pc = "idle") =>
        \A m \in messages : m.sent_at <= convs[m.conv].last_message_at

\* The committed tables, with requests, locks and stamps hidden, implement MemberLife.
KindOf == [c \in Convs |-> convs[c].kind]
RowOf == [c \in Convs |-> [u \in Users |-> members[c][u].state]]
AdminsOf == [c \in Convs |-> {u \in Users : members[c][u].role = "group_admin"}]
AuthorsOf == [c \in Convs |-> {u \in Users : \E m \in messages : m.conv = c /\ m.sender = u}]

Membership == INSTANCE MemberLife
                  WITH kind <- KindOf, row <- RowOf, admins <- AdminsOf, authors <- AuthorsOf

\* Requests interleaved in any way change who is in a conversation only by the atomic steps of
\* MemberLife: a group has its creator for its one admin, whoever is added, leaves and
\* comes back; and what a stale check lets through is no more than a message of
\* somebody who has left since.
ImplementsMemberLife == Membership!Spec
=============================================================================
