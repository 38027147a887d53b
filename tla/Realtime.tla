------------------------------ MODULE Realtime ------------------------------
(***************************************************************************)
(* The websockets of one user: the RealtimeClient of each open page        *)
(* (realtimeClient.ts, mounted by useRealtime.ts), the endpoint that       *)
(* serves a socket (realtime.py), the registry of each backend instance    *)
(* with its one subscriber task per user (connection_manager.py), and the  *)
(* Redis channel of the user. Users share nothing but Redis.               *)
(*                                                                         *)
(* A coroutine runs between awaits. A socket breaks at both ends at        *)
(* different times, Redis fails when it likes, and a page learns of a      *)
(* close only from its event.                                              *)
(***************************************************************************)
EXTENDS Integers, Sequences, FiniteSets

CONSTANTS Pages, Sockets, Instances,
          Tasks,        \* subscriber tasks that exist at once, of all instances
          NoPage, NoSocket, NoTask, NoInstance,
          MaxPublished, \* bound on the events published to the user
          MaxFaults     \* bound on broken sockets, failing Redis connections and sign-outs

ASSUME RealtimeAssumption ==
    /\ MaxPublished \in Nat /\ MaxFaults \in Nat
    /\ NoTask \notin Tasks /\ NoSocket \notin Sockets
    /\ NoPage \notin Pages /\ NoInstance \notin Instances

VARIABLES
    token,       \* apiClient has an access token
    page,        \* the RealtimeClient of each mounted page
    sock,        \* the websockets
    connections, \* ConnectionManager._connections of each instance
    registered,  \* ConnectionManager._subscriber_tasks of each instance
    task,        \* the subscriber tasks that run or wind down
    published,   \* how many events were published
    faults

manager == <<connections, registered, task>>
realtimeVars == <<token, page, sock, manager, published, faults>>

Timers == {"none", "connect", "reconnect"}
Events == 1 .. MaxPublished

\* mounted: intentionallyClosed is false; timer: the one of the two that is armed.
Page == [mounted: BOOLEAN, timer: Timers, socket: Sockets \cup {NoSocket}]

\* client: the browser's end; server: the endpoint's; link: frames get through; got: the
\* events that reached the browser.
Socket == [page: Pages \cup {NoPage}, instance: Instances \cup {NoInstance},
           client: {"none", "live", "closed"}, server: {"none", "pending", "up", "gone"},
           link: BOOLEAN, got: Seq(Events)]
FreeSocket == [page |-> NoPage, instance |-> NoInstance, client |-> "none", server |-> "none",
               link |-> FALSE, got |-> <<>>]

\* "dead": ended by an exception, which nothing looks at. todo: the sockets the event being
\* delivered has still to be sent to.
Task == [pc: {"free", "starting", "listening", "delivering", "cancelled", "dead"},
         instance: Instances \cup {NoInstance}, queue: Seq(Events), todo: SUBSET Sockets]
FreeTask == [pc |-> "free", instance |-> NoInstance, queue |-> <<>>, todo |-> {}]

RealtimeTypeOK ==
    /\ token \in BOOLEAN
    /\ page \in [Pages -> Page] /\ sock \in [Sockets -> Socket]
    /\ connections \in [Instances -> SUBSET Sockets]
    /\ registered \in [Instances -> Tasks \cup {NoTask}]
    /\ task \in [Tasks -> Task]
    /\ published \in 0 .. MaxPublished /\ faults \in 0 .. MaxFaults

RealtimeInit ==
    /\ token = TRUE
    /\ page = [p \in Pages |-> [mounted |-> FALSE, timer |-> "none", socket |-> NoSocket]]
    /\ sock = [s \in Sockets |-> FreeSocket]
    /\ connections = [i \in Instances |-> {}]
    /\ registered = [i \in Instances |-> NoTask]
    /\ task = [k \in Tasks |-> FreeTask]
    /\ published = 0 /\ faults = 0

Fault == faults < MaxFaults /\ faults' = faults + 1

-----------------------------------------------------------------------------
(* RealtimeClient *)

\* connect: nothing to do without a token, else the socket is opened from a timer.
Connecting(rec) == IF token THEN [rec EXCEPT !.timer = "connect"] ELSE rec

\* useRealtime makes a new client at each mount: no socket has its handlers yet.
Mount(p) ==
    /\ ~page[p].mounted /\ \A s \in Sockets : sock[s].page # p
    /\ page' = [page EXCEPT ![p] = Connecting([@ EXCEPT !.mounted = TRUE])]
    /\ UNCHANGED <<token, sock, manager, published, faults>>

\* Mutant of Disconnected: the timers go on.
SocketClosed(rec) == [rec EXCEPT !.mounted = FALSE, !.socket = NoSocket]

\* disconnect: no timer is left, and the socket is closed.
Disconnected(rec) == [rec EXCEPT !.mounted = FALSE, !.timer = "none", !.socket = NoSocket]

Unmount(p) ==
    LET s == page[p].socket IN
    /\ page[p].mounted
    /\ page' = [page EXCEPT ![p] = Disconnected(@)]
    /\ sock' = IF s = NoSocket THEN sock ELSE [sock EXCEPT ![s] = [@ EXCEPT !.link = FALSE]]
    /\ UNCHANGED <<token, manager, published, faults>>

\* The connect timer fires: open. The load balancer picks an instance.
Open(p, s, i) ==
    /\ page[p].timer = "connect"
    /\ sock[s] = FreeSocket /\ \A k \in Tasks : s \notin task[k].todo
    /\ sock' = [sock EXCEPT ![s] = [FreeSocket EXCEPT !.page = p, !.instance = i, !.client = "live",
                                                      !.server = "pending", !.link = TRUE]]
    /\ page' = [page EXCEPT ![p] = [@ EXCEPT !.timer = "none", !.socket = s]]
    /\ UNCHANGED <<token, manager, published, faults>>

ReconnectTimer(p) ==
    /\ page[p].timer = "reconnect"
    /\ page' = [page EXCEPT ![p] = Connecting([@ EXCEPT !.timer = "none"])]
    /\ UNCHANGED <<token, sock, manager, published, faults>>

\* A socket both ends are done with is forgotten; its name is free once no task holds it.
Forget(rec) == IF rec.client = "closed" /\ rec.server = "gone" THEN FreeSocket ELSE rec

\* scheduleReconnect, unless the page closed the socket itself.
Reconnects(rec) == rec.mounted /\ rec.timer = "none"

\* The close event: the client's socket is null, whichever socket it was.
CloseEvent(s) ==
    LET p == sock[s].page IN
    /\ sock[s].client = "live" /\ ~sock[s].link
    /\ page' = [page EXCEPT ![p] = [@ EXCEPT !.socket = NoSocket,
                                             !.timer = IF Reconnects(page[p]) THEN "reconnect"
                                                       ELSE page[p].timer]]
    /\ sock' = [sock EXCEPT ![s] = Forget([@ EXCEPT !.client = "closed"])]
    /\ UNCHANGED <<token, manager, published, faults>>

\* signOut, or a sign-in: the token of the next connect.
TokenChanges ==
    /\ Fault
    /\ token' = ~token
    /\ UNCHANGED <<page, sock, manager, published>>

Break(s) ==
    /\ Fault
    /\ sock[s].link
    /\ sock' = [sock EXCEPT ![s] = [@ EXCEPT !.link = FALSE]]
    /\ UNCHANGED <<token, page, manager, published>>

-----------------------------------------------------------------------------
(* ConnectionManager and the endpoint *)

\* Mutant of Subscribe: every connection starts a subscriber.
SubscribeAgain(i) ==
    \E k \in Tasks : /\ task[k].pc = "free"
                     /\ task' = [task EXCEPT ![k] = [FreeTask EXCEPT !.pc = "starting", !.instance = i]]
                     /\ registered' = [registered EXCEPT ![i] = k]

\* connect: the first connection of the user starts the instance's subscriber.
Subscribe(i) ==
    IF registered[i] # NoTask THEN UNCHANGED <<task, registered>>
    ELSE \E k \in Tasks :
            /\ task[k].pc = "free"
            /\ task' = [task EXCEPT ![k] = [FreeTask EXCEPT !.pc = "starting", !.instance = i]]
            /\ registered' = [registered EXCEPT ![i] = k]

\* The token and its session are good: the upgrade is accepted and the socket registered.
Accept(s) ==
    LET i == sock[s].instance IN
    /\ sock[s].server = "pending"
    /\ sock' = [sock EXCEPT ![s] = [@ EXCEPT !.server = "up"]]
    /\ connections' = [connections EXCEPT ![i] = @ \cup {s}]
    /\ Subscribe(i)
    /\ UNCHANGED <<token, page, published, faults>>

\* They are not: closed before it is accepted.
Reject(s) ==
    /\ sock[s].server = "pending"
    /\ sock' = [sock EXCEPT ![s] = Forget([@ EXCEPT !.server = "gone", !.link = FALSE])]
    /\ UNCHANGED <<token, page, manager, published, faults>>

\* Mutant of Cancelled: the task keeps the event it was delivering.
CancelledAsNone(k, tasks) == IF k = NoTask THEN tasks
                             ELSE [tasks EXCEPT ![k] = [@ EXCEPT !.pc = "none", !.todo = {}]]

\* A task that is cancelled gets CancelledError at its next await; a dead one stays dead.
Cancelled(k, tasks) == IF k = NoTask THEN tasks
                       ELSE IF tasks[k].pc = "dead" THEN [tasks EXCEPT ![k] = FreeTask]
                       ELSE [tasks EXCEPT ![k] = [@ EXCEPT !.pc = "cancelled", !.todo = {}]]

\* Mutant of Release: the task is cancelled, but not taken out of the registry.
ReleaseWithoutPop(s, tasks) ==
    LET i == sock[s].instance IN
    /\ connections' = [connections EXCEPT ![i] = @ \ {s}]
    /\ task' = IF connections[i] = {s} THEN Cancelled(registered[i], tasks) ELSE tasks
    /\ UNCHANGED registered

\* disconnect, with the state of the tasks it finds: the last socket of the user takes the
\* entry and the subscriber with it; a second disconnect of a socket does nothing.
Release(s, tasks) ==
    LET i == sock[s].instance
        last == connections[i] = {s} IN
    /\ connections' = [connections EXCEPT ![i] = @ \ {s}]
    /\ registered' = [registered EXCEPT ![i] = IF last THEN NoTask ELSE @]
    /\ task' = IF last THEN Cancelled(registered[i], tasks) ELSE tasks

\* The endpoint's loop ends: the browser closed, the socket broke, or a handler raised.
EndpointEnds(s) ==
    /\ sock[s].server = "up"
    /\ \/ ~sock[s].link /\ UNCHANGED faults
       \/ sock[s].link /\ Fault
    /\ sock' = [sock EXCEPT ![s] = Forget([@ EXCEPT !.server = "gone", !.link = FALSE])]
    /\ Release(s, task)
    /\ UNCHANGED <<token, page, published>>

\* send_to_user: Redis gives the event to whoever is subscribed, and forgets it.
Publish ==
    /\ published < MaxPublished
    /\ published' = published + 1
    /\ task' = [k \in Tasks |-> IF task[k].pc \in {"listening", "delivering"}
                                THEN [task[k] EXCEPT !.queue = Append(@, published + 1)] ELSE task[k]]
    /\ UNCHANGED <<token, page, sock, connections, registered, faults>>

Subscribed(k) ==
    /\ task[k].pc = "starting"
    /\ task' = [task EXCEPT ![k] = [@ EXCEPT !.pc = "listening"]]
    /\ UNCHANGED <<token, page, sock, connections, registered, published, faults>>

\* _deliver_locally begins: the sockets that are connected now.
Take(k) ==
    /\ task[k].pc = "listening" /\ task[k].queue # <<>>
    /\ task' = [task EXCEPT ![k] = [@ EXCEPT !.pc = "delivering",
                                             !.todo = connections[task[k].instance]]]
    /\ UNCHANGED <<token, page, sock, connections, registered, published, faults>>

\* send_json to one of them. Into a broken link it may raise: then the socket is disconnected,
\* unless it was already, by the very task that this may cancel.
Deliver(k, s) ==
    LET rest == [task EXCEPT ![k].todo = @ \ {s}] IN
    /\ task[k].pc = "delivering" /\ s \in task[k].todo
    /\ \/ /\ sock[s].link
          /\ sock' = [sock EXCEPT ![s].got = Append(@, Head(task[k].queue))]
          /\ task' = rest
          /\ UNCHANGED <<connections, registered>>
       \/ /\ ~sock[s].link /\ s \in connections[task[k].instance]
          /\ Release(s, rest)
          /\ UNCHANGED sock
       \/ /\ ~sock[s].link
          /\ task' = rest
          /\ UNCHANGED <<sock, connections, registered>>
    /\ UNCHANGED <<token, page, published, faults>>

Delivered(k) ==
    /\ task[k].pc = "delivering" /\ task[k].todo = {}
    /\ task' = [task EXCEPT ![k].pc = "listening", ![k].queue = Tail(@)]
    /\ UNCHANGED <<token, page, sock, connections, registered, published, faults>>

\* CancelledError is swallowed, the channel unsubscribed, the task over.
WindDown(k) ==
    /\ task[k].pc = "cancelled"
    /\ task' = [task EXCEPT ![k] = FreeTask]
    /\ UNCHANGED <<token, page, sock, connections, registered, published, faults>>

\* The connection to Redis fails, in subscribe or in listen: the exception ends the task.
RedisFails(k) ==
    /\ Fault
    /\ task[k].pc \in {"starting", "listening"}
    /\ task' = [task EXCEPT ![k] = [FreeTask EXCEPT !.pc = "dead", !.instance = task[k].instance]]
    /\ UNCHANGED <<token, page, sock, connections, registered, published>>

RealtimeNext ==
    \/ \E p \in Pages : \/ Mount(p) \/ Unmount(p) \/ ReconnectTimer(p)
                        \/ \E s \in Sockets, i \in Instances : Open(p, s, i)
    \/ \E s \in Sockets : CloseEvent(s) \/ Break(s) \/ Accept(s) \/ Reject(s) \/ EndpointEnds(s)
    \/ \E k \in Tasks : \/ Subscribed(k) \/ Take(k) \/ Delivered(k) \/ WindDown(k) \/ RedisFails(k)
                        \/ \E s \in Sockets : Deliver(k, s)
    \/ TokenChanges
    \/ Publish

RealtimeSpec == RealtimeInit /\ [][RealtimeNext]_realtimeVars

-----------------------------------------------------------------------------
(* Properties *)

\* Whatever connects, disconnects and failed sends overlap, an instance has a subscriber
\* registered exactly when it has sockets, never a cancelled one; and a subscriber that
\* still runs is the registered one: none goes on delivering unregistered.
RegistryMatches ==
    /\ \A i \in Instances :
          /\ (registered[i] = NoTask) = (connections[i] = {})
          /\ registered[i] # NoTask => /\ task[registered[i]].pc \notin {"free", "cancelled"}
                                       /\ task[registered[i]].instance = i
    /\ \A k \in Tasks : task[k].pc \notin {"free", "cancelled"} => registered[task[k].instance] = k

\* A socket gets the events in the order in which they were published, and none twice.
InOrderAndOnce ==
    \A s \in Sockets : \A m, n \in DOMAIN sock[s].got : m < n => sock[s].got[m] < sock[s].got[n]

\* A page has one connection or one attempt at it: a live socket or an armed timer, and
\* neither once it is unmounted, whatever close events come late.
OneAttemptPerPage ==
    \A p \in Pages :
        LET open == {s \in Sockets : sock[s].page = p /\ sock[s].client = "live" /\ sock[s].link} IN
        /\ Cardinality(open) + (IF page[p].timer = "none" THEN 0 ELSE 1) <= 1
        /\ ~page[p].mounted => open = {} /\ page[p].timer = "none"

\* The instance has a subscriber that hears the user's channel, or is about to.
Hears(i) ==
    \E k \in Tasks : task[k].instance = i /\ task[k].pc \in {"starting", "listening", "delivering"}

\* connection_manager.py: "every instance subscribes to the channels for its own
\* currently-connected users". Refuted by a Redis failure: the dead task stays registered,
\* so no later connection of the user starts another.
ConnectedIsSubscribed == \A i \in Instances : connections[i] # {} => Hears(i)

\* What is left of it: whatever connections, disconnections and failed sends overlap, an
\* instance that has sockets of the user falls silent only when Redis fails under it. A first
\* socket always finds a subscriber, also on an instance that had fallen silent before.
SilencedByRedisOnly ==
    [][\A i \in Instances : connections'[i] # {} /\ ~Hears(i)' =>
          \/ connections[i] # {} /\ ~Hears(i)
          \/ faults' = faults + 1 /\ UNCHANGED <<sock, connections, registered>>]_realtimeVars
=============================================================================
