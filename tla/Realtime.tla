------------------------------ MODULE Realtime ------------------------------
(***************************************************************************)
(* The realtime layer (infrastructure/realtime) between one candidate and  *)
(* the invigilator's dashboard: the candidate's WebSocket connections, the *)
(* rooms they are in, the presence that each connection keeps, and how a   *)
(* change of presence reaches the dashboard, in process or through Redis   *)
(* Pub/Sub from the other server node.                                     *)
(*                                                                         *)
(* Handlers of one connection interleave at their awaits: a subscription is*)
(* authorized by a query, during which frames, sweeps and the close of the *)
(* connection are handled.                                                 *)
(***************************************************************************)
EXTENDS Naturals, Sequences, FiniteSets

CONSTANTS
    Sockets,            \* the candidate's connections, in whatever order they are made
    Here, There,        \* the dashboard's server node, and another one
    MaxConnections,     \* WS_MAX_CONNECTIONS_PER_USER, per node
    MaxInFlight         \* bound on messages under way in Redis

ASSUME RealtimeAssumption ==
    IsFiniteSet(Sockets) /\ Here # There /\ MaxConnections \in Nat /\ MaxInFlight \in Nat

VARIABLES
    socket,     \* the candidate's connections and their contexts
    age,        \* userToSockets of each node: the set under the candidate's id, oldest first
    health,     \* RealtimeBroadcaster.state of each node
    subscribed, \* whether the first subscribe of the node Here was accepted
    ready,      \* whether redisSub of the node Here is connected
    bus,        \* presence events on their way from There to Here
    dash,       \* the dashboard's connection and what it shows
    missed      \* history: the nodes whose latest presence event did not reach the dashboard

realtimeVars == <<socket, age, health, subscribed, ready, bus, dash, missed>>
broadcasting == <<health, bus, dash, missed>>
redisSub == <<subscribed, ready>>

Nodes == {Here, There}
\* gone: unregistered, and its close event still to come.  joined, pending: it is in
\* the room attempt:<id>, a subscription to it is being authorized.  said: history,
\* the ONLINE that it has was broadcast.
Socket == [state : {"none", "open", "gone", "closed"}, node : Nodes, joined : BOOLEAN,
           pending : BOOLEAN, attemptId : BOOLEAN, sessionId : BOOLEAN,
           presence : {"UNSET", "ONLINE", "OFFLINE"}, said : BOOLEAN]
NoSocket == [state |-> "none", node |-> Here, joined |-> FALSE, pending |-> FALSE,
             attemptId |-> FALSE, sessionId |-> FALSE, presence |-> "UNSET", said |-> FALSE]
Dash == [state : {"down", "connected", "joined"}, degraded : BOOLEAN,
         presence : {"UNSET", "ONLINE", "OFFLINE"}]
\* latest: no later event of There was lost.
Event == [status : {"ONLINE", "OFFLINE"}, latest : BOOLEAN]

RealtimeTypeOK ==
    /\ socket \in [Sockets -> Socket]
    /\ age \in [Nodes -> Seq(Sockets)]
    /\ \A n \in Nodes : \A i, j \in DOMAIN age[n] : age[n][i] = age[n][j] => i = j
    /\ \A n \in Nodes : \A s \in Sockets :
          LET counted == \E i \in DOMAIN age[n] : age[n][i] = s
              open == socket[s].state = "open" /\ socket[s].node = n
          IN  (counted => open) /\ (open /\ MaxConnections > 1 => counted)
    /\ health \in [Nodes -> {"HEALTHY", "DEGRADED"}]
    /\ subscribed \in BOOLEAN /\ ready \in BOOLEAN
    /\ bus \in Seq(Event) /\ dash \in Dash /\ missed \subseteq Nodes

\* A node starts before redisSub is connected, with no offline queue: its first subscribe
\* is rejected (DEGRADED), or it was connected in time.
RealtimeInit ==
    /\ socket = [s \in Sockets |-> NoSocket] /\ age = [n \in Nodes |-> <<>>]
    /\ subscribed \in BOOLEAN /\ ready = subscribed
    /\ health \in [Nodes -> {"HEALTHY", "DEGRADED"}] /\ (health[Here] = "HEALTHY" <=> subscribed)
    /\ bus = <<>> /\ missed = {}
    /\ dash = [state |-> "down", degraded |-> FALSE, presence |-> "UNSET"]

(***************************************************************************)
(* RealtimeBroadcaster, and the dashboard at its end.                      *)
(***************************************************************************)
Open(s) == socket[s].state = "open"
\* Frames are handled until the connection is closed, registered or not.
Alive(s) == socket[s].state \in {"open", "gone"}

\* Mutant: the presence already kept wins over the event's.
Shown_First(d, status) ==
    IF d.state = "joined" /\ d.presence = "UNSET" THEN [d EXCEPT !.presence = status] ELSE d
\* handlePresenceChanged, of a dashboard in the room of the session.
Shown(d, status) == IF d.state = "joined" THEN [d EXCEPT !.presence = status] ELSE d
\* The badge: ONLINE unless the page was told otherwise.
Badge == IF dash.presence = "OFFLINE" THEN "OFFLINE" ELSE "ONLINE"

\* _broadcastSystemNotice to the sockets of node n.
Noticed(d, n, isDegraded) ==
    IF n = Here /\ d.state # "down" THEN [d EXCEPT !.degraded = isDegraded] ELSE d

Lost(events) == [i \in DOMAIN events |-> [events[i] EXCEPT !.latest = FALSE]]

\* broadcastToSession on node n: to the dashboard at once, and to Redis while
\* HEALTHY; a publication that fails makes the node DEGRADED.
Broadcast(n, status) ==
    \E fails \in BOOLEAN :
       LET shown == IF n = Here THEN Shown(dash, status) ELSE dash
           arrives == n = Here /\ dash.state = "joined"
           sent == n = There /\ health[n] = "HEALTHY" /\ ~fails /\ subscribed /\ ready
       IN  /\ fails => health[n] = "HEALTHY"
           /\ sent => Len(bus) < MaxInFlight
           /\ health' = IF fails THEN [health EXCEPT ![n] = "DEGRADED"] ELSE health
           /\ dash' = IF fails THEN Noticed(shown, n, TRUE) ELSE shown
           /\ bus' = IF sent THEN Append(bus, [status |-> status, latest |-> TRUE])
                     ELSE IF n = There THEN Lost(bus) ELSE bus
           /\ missed' = IF arrives THEN missed \ {n} ELSE IF sent THEN missed ELSE missed \cup {n}

\* _handleRedisMessage
Receive ==
    /\ bus # <<>> /\ bus' = Tail(bus)
    /\ dash' = Shown(dash, Head(bus).status)
    /\ missed' = IF ~Head(bus).latest THEN missed
                 ELSE IF dash.state = "joined" THEN missed \ {There} ELSE missed \cup {There}
    /\ UNCHANGED <<socket, age, health, redisSub>>

\* redisSub of a node ends with an error, or is closed without one, which nobody handles.
\* Of the node There, which sends nothing to itself, only the health matters.
SubscriberFails(n) ==
    /\ n = Here => ready
    /\ ready' = (ready /\ n # Here)
    /\ \/ /\ health' = [health EXCEPT ![n] = "DEGRADED"]
          /\ dash' = IF health[n] = "HEALTHY" THEN Noticed(dash, n, TRUE) ELSE dash
       \/ UNCHANGED <<health, dash>>
    /\ UNCHANGED <<socket, age, subscribed, bus, missed>>

\* The 'ready' event of redisSub is the only way back to HEALTHY.  The client repeats
\* the subscriptions it had; one that was rejected is not tried again.
SubscriberReady(n) ==
    /\ n = Here => ~ready
    /\ ready' = (ready \/ n = Here)
    /\ health' = [health EXCEPT ![n] = "HEALTHY"]
    /\ dash' = IF health[n] = "DEGRADED" THEN Noticed(dash, n, FALSE) ELSE dash
    /\ UNCHANGED <<socket, age, subscribed, bus, missed>>

(***************************************************************************)
(* Connections and rooms (ChannelManager, _onConnection, close).           *)
(***************************************************************************)
\* The queue without s, which is in it at most once.
Without(queue, s) ==
    IF s \notin {queue[i] : i \in DOMAIN queue} THEN queue
    ELSE LET at == CHOOSE i \in DOMAIN queue : queue[i] = s
         IN  [i \in 1 .. Len(queue) - 1 |-> IF i < at THEN queue[i] ELSE queue[i + 1]]
\* unregisterConnection: the socket leaves its room; its context lives on.
Unregistered(s) == [socket[s] EXCEPT !.state = "gone", !.joined = FALSE]

\* registerConnection: the oldest connection makes room for one too many.  If it was the
\* only one its set is deleted, and the new one joins a set that nothing finds any more.
Connect(s, n) ==
    LET full == Len(age[n]) >= MaxConnections /\ age[n] # <<>>
        oldest == Head(age[n])
        rest == Without(age[n], oldest)
        connected == [NoSocket EXCEPT !.state = "open", !.node = n]
    IN  /\ socket[s].state = "none"
        /\ socket' = IF full THEN [socket EXCEPT ![s] = connected, ![oldest] = Unregistered(oldest)]
                     ELSE [socket EXCEPT ![s] = connected]
        /\ age' = [age EXCEPT ![n] = IF ~full THEN Append(@, s)
                                     ELSE IF rest = <<>> THEN <<>> ELSE Append(rest, s)]
        /\ UNCHANGED <<redisSub, broadcasting>>

\* _terminateSocket, when the revocation sweep finds the session or the user revoked.
Terminate(s) ==
    /\ Open(s) /\ socket' = [socket EXCEPT ![s] = Unregistered(s)]
    /\ age' = [age EXCEPT ![socket[s].node] = Without(@, s)]
    /\ UNCHANGED <<redisSub, broadcasting>>

\* Mutant: the context is looked up where an evicted connection no longer has one.
IsPresent_Registered(s) ==
    Open(s) /\ socket[s].attemptId /\ socket[s].sessionId /\ socket[s].presence # "OFFLINE"
IsPresent(s) == socket[s].attemptId /\ socket[s].sessionId /\ socket[s].presence # "OFFLINE"

\* The close event, whoever closed: client, ping sweep, eviction, termination.
\* Of the context only a subscription still being authorized lives on.
Close(s) ==
    /\ Alive(s)
    /\ socket' = [socket EXCEPT ![s] = [NoSocket EXCEPT !.state = "closed", !.pending = socket[s].pending]]
    /\ age' = [age EXCEPT ![socket[s].node] = Without(@, s)]
    /\ IF IsPresent(s) THEN Broadcast(socket[s].node, "OFFLINE") ELSE UNCHANGED broadcasting
    /\ UNCHANGED redisSub

(***************************************************************************)
(* Commands of the candidate (_handleClientMessage).                       *)
(***************************************************************************)
Subscribe(s) ==
    /\ Alive(s) /\ ~socket[s].pending
    /\ socket' = [socket EXCEPT ![s].pending = TRUE]
    /\ UNCHANGED <<age, redisSub, broadcasting>>

\* The context after _authorizeSubscription: ONLINE, and nothing is broadcast.
Authorized(c) ==
    [c EXCEPT !.attemptId = TRUE, !.sessionId = TRUE, !.presence = "ONLINE",
              !.said = (@ /\ c.presence = "ONLINE")]

\* Mutant: channelManager.subscribe does not ask whether the socket is registered.
Join_Unregistered(c) == [c EXCEPT !.joined = TRUE]
Join(c) == [c EXCEPT !.joined = @ \/ c.state = "open"]

\* The query answers, also after the connection was unregistered or closed.
Authorize(s, allowed) ==
    /\ socket[s].pending
    /\ LET c == [socket[s] EXCEPT !.pending = FALSE]
       IN  socket' = [socket EXCEPT ![s] =
               IF ~allowed THEN c ELSE Join(IF Alive(s) THEN Authorized(c) ELSE c)]
    /\ UNCHANGED <<age, redisSub, broadcasting>>

Unsubscribe(s) ==
    /\ Alive(s) /\ socket[s].joined
    /\ socket' = [socket EXCEPT ![s].joined = FALSE]
    /\ UNCHANGED <<age, redisSub, broadcasting>>

Heartbeat(s) ==
    LET resumes == socket[s].presence = "OFFLINE" /\ socket[s].sessionId
    IN  /\ Alive(s)
        /\ socket' = [socket EXCEPT
               ![s].attemptId = TRUE, ![s].said = @ \/ resumes,
               ![s].presence = IF resumes THEN "ONLINE" ELSE @]
        /\ IF resumes THEN Broadcast(socket[s].node, "ONLINE") ELSE UNCHANGED broadcasting
        /\ UNCHANGED <<age, redisSub>>

(***************************************************************************)
(* Sweeps.                                                                 *)
(***************************************************************************)
\* WS_PRESENCE_LAPSE_THRESHOLD_MS may have passed since the last heartbeat.
PresenceSweep(s) ==
    /\ Open(s) /\ IsPresent(s)
    /\ socket' = [socket EXCEPT ![s].presence = "OFFLINE", ![s].said = FALSE]
    /\ Broadcast(socket[s].node, "OFFLINE")
    /\ UNCHANGED <<age, redisSub>>

\* _checkSocketRevocation of the room: authorized again, or left.
RevocationSweep(s, allowed) ==
    /\ Open(s) /\ socket[s].joined
    /\ socket' = [socket EXCEPT ![s] = IF allowed THEN Authorized(@) ELSE [@ EXCEPT !.joined = FALSE]]
    /\ UNCHANGED <<age, redisSub, broadcasting>>

(***************************************************************************)
(* The dashboard: SessionMonitorPage over RealtimeClient.                  *)
(***************************************************************************)
\* Mutant: a socket that connects to a degraded node is not told.
Told_OnChange == dash.degraded
\* _onConnection sends system:realtime_degraded on a DEGRADED node, and nothing otherwise;
\* the client keeps what it was told over a reconnection.
Told == dash.degraded \/ health[Here] = "DEGRADED"

DashConnects ==
    /\ dash.state = "down" /\ dash' = [dash EXCEPT !.state = "connected", !.degraded = Told]
    /\ UNCHANGED <<socket, age, health, redisSub, bus, missed>>

DashJoins ==
    /\ dash.state = "connected" /\ dash' = [dash EXCEPT !.state = "joined"]
    /\ UNCHANGED <<socket, age, health, redisSub, bus, missed>>

\* onclose: the client reconnects by itself, and subscribes to its rooms again.
DashDisconnects ==
    /\ dash.state # "down" /\ dash' = [dash EXCEPT !.state = "down"]
    /\ UNCHANGED <<socket, age, health, redisSub, bus, missed>>

\* The page is loaded, or left and opened again over the same connection: presenceMap is
\* empty, and what was told to the page before it counts no more.
DashLoads ==
    /\ \/ dash' = [state |-> "down", degraded |-> FALSE, presence |-> "UNSET"]
       \/ dash.state = "joined" /\ dash' = [dash EXCEPT !.state = "connected", !.presence = "UNSET"]
    /\ missed' = IF bus = <<>> THEN {} ELSE missed
    /\ UNCHANGED <<socket, age, health, redisSub, bus>>

RealtimeNext ==
    \/ \E s \in Sockets :
          \/ \E n \in Nodes : Connect(s, n)
          \/ Subscribe(s) \/ Unsubscribe(s) \/ Heartbeat(s)
          \/ \E allowed \in BOOLEAN : Authorize(s, allowed) \/ RevocationSweep(s, allowed)
          \/ PresenceSweep(s) \/ Terminate(s) \/ Close(s)
    \/ Receive
    \/ \E n \in Nodes : SubscriberFails(n) \/ SubscriberReady(n)
    \/ DashConnects \/ DashJoins \/ DashDisconnects \/ DashLoads

RealtimeSpec == RealtimeInit /\ [][RealtimeNext]_realtimeVars

(***************************************************************************)
(* Properties.                                                             *)
(***************************************************************************)
\* The dashboard listens and the latest event of each node has arrived.
Settled == dash.state = "joined" /\ bus = <<>> /\ missed = {}

\* Only a registered connection is in a room, however its subscription's query and
\* its eviction, termination or close interleave, and no user has more connections
\* on a node than allowed.  With a limit of 1 (or 0) a connection goes uncounted for
\* each one that was evicted, and no more than that.
RoomsHoldRegistered ==
    /\ \A s \in Sockets : socket[s].joined => Open(s)
    /\ \A n \in Nodes :
          Cardinality({s \in Sockets : Open(s) /\ socket[s].node = n})
          <= IF MaxConnections > 1 THEN MaxConnections
             ELSE 1 + Cardinality({s \in Sockets : socket[s].state \in {"gone", "closed"}})

\* A dashboard that shows the candidate ONLINE is right: one of its connections is
\* (the close event and the presence sweep of one connection against heartbeats of
\* others, and the delays and losses of Redis).  Until it is told of a first change it
\* shows everybody ONLINE.
ShownOnlineIsOnline ==
    Settled /\ Badge = "ONLINE" =>
        \/ dash.presence = "UNSET"
        \/ \E s \in Sockets : Alive(s) /\ socket[s].presence = "ONLINE"

\* It shows a candidate OFFLINE only while one of its connections has been closed, is
\* OFFLINE, or became ONLINE without a broadcast, by a subscription or by the revocation
\* sweep: never when all of them have announced that they are ONLINE.
ShownOfflineIsExplained ==
    Settled /\ Badge = "OFFLINE" =>
        \E s \in Sockets : socket[s].state = "closed" \/ (socket[s].sessionId /\ ~socket[s].said)

\* The dashboard connected to a DEGRADED node knows it, and so polls, whether the
\* node became DEGRADED before or after it connected.
DegradedIsKnown == dash.state # "down" /\ health[Here] = "DEGRADED" => dash.degraded
==============================================================================
