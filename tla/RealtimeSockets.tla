-------------------------- MODULE RealtimeSockets --------------------------
(***************************************************************************)
(* The WebSocket connections of one replica's RealtimeGateway and the      *)
(* in-memory indexes it keeps of them.                                     *)
(*                                                                         *)
(* The gateway runs in one event loop: the connection handler, the close   *)
(* handler and the end of a frame handler are each one step.  A frame      *)
(* waits behind the frames before it, which await decryption and queries,  *)
(* so it may be handled after its socket was cleaned up.                   *)
(***************************************************************************)
EXTENDS Integers, FiniteSets, Sequences

CONSTANTS
    Sockets,     \* connections, each made once
    Devices,     \* device tokens; `ws-<hash of the token>` is the socketId
    Users,
    DeviceOf,    \* the device whose token a socket presents
    OwnerOf,     \* the user a device token belongs to
    MaxSockets,  \* MAX_SOCKETS_PER_USER
    MaxFrames,   \* bound on the frames received
    None

ASSUME Ownership ==
    /\ IsFiniteSet(Sockets) /\ None \notin Sockets
    /\ DeviceOf \in [Sockets -> Devices]
    /\ OwnerOf \in [Devices -> Users]
ASSUME SocketLimits == MaxSockets \in Nat \ {0} /\ MaxFrames \in Nat

VARIABLES
    ready,             \* readyState of each socket; "fresh" before it connects
    since,             \* how many sockets had connected before (the order of a JS Set)
    detached,          \* sockets whose cleanup ran before their close event
    superseded,        \* those of them that their device's next connection took over from
    userSockets,       \* user -> its sockets
    deviceSockets,     \* socketId -> socket
    onlineCount,       \* user -> number of sockets
    roomSockets,       \* socketId -> socket that joined the one room modelled
    registered,        \* registeredServices of a socket names the one service modelled
    serviceConnections, serviceDeviceIndex,
    announced,         \* the users whose last presence broadcast was user-online
    farewells,         \* how often the disconnect handlers ran for a socket
    chain,             \* the frames waiting in a socket's _processingChain
    received,          \* how many frames were received
    late               \* the frames handled after the cleanup of their socket

vars == <<ready, since, detached, superseded, userSockets, deviceSockets, onlineCount,
          roomSockets, registered, serviceConnections, serviceDeviceIndex, announced,
          farewells, chain, received, late>>

connections ==
    <<ready, since, detached, superseded, userSockets, deviceSockets, onlineCount>>
subscriptions == <<roomSockets, registered, serviceConnections, serviceDeviceIndex>>
outside == <<announced, farewells>>
frames == <<chain, received, late>>

Frames == {"register", "join", "leave"}

UserOf(s) == OwnerOf[DeviceOf[s]]
Connected(s) == s \in userSockets[UserOf(s)]
DevicesOf(S) == {DeviceOf[s] : s \in S}

TypeOK ==
    /\ ready \in [Sockets -> {"fresh", "open", "closing", "closed"}]
    /\ since \in [Sockets -> Nat]
    /\ detached \subseteq Sockets /\ superseded \subseteq Sockets
    /\ userSockets \in [Users -> SUBSET Sockets]
    /\ deviceSockets \in [Devices -> Sockets \union {None}]
    /\ onlineCount \in [Users -> Nat]
    /\ roomSockets \in [Devices -> Sockets \union {None}]
    /\ registered \subseteq Sockets /\ serviceConnections \subseteq Sockets
    /\ serviceDeviceIndex \subseteq Devices
    /\ announced \subseteq Users
    /\ farewells \in [Sockets -> Nat]
    /\ chain \in [Sockets -> Seq(Frames)]
    /\ {received, late} \subseteq Nat

Init ==
    /\ ready = [s \in Sockets |-> "fresh"]
    /\ since = [s \in Sockets |-> 0]
    /\ detached = {} /\ superseded = {}
    /\ userSockets = [u \in Users |-> {}]
    /\ deviceSockets = [d \in Devices |-> None]
    /\ onlineCount = [u \in Users |-> 0]
    /\ roomSockets = [d \in Devices |-> None]
    /\ registered = {}
    /\ serviceConnections = {} /\ serviceDeviceIndex = {}
    /\ announced = {}
    /\ farewells = [s \in Sockets |-> 0]
    /\ chain = [s \in Sockets |-> <<>>]
    /\ received = 0 /\ late = 0

-----------------------------------------------------------------------------
(* cleanupSocket *)

Decrement(n) == IF n <= 1 THEN 0 ELSE n - 1

\* Mutant of Remaining: a socket that is closing is not counted down.
RemainingIfOpen(u, gone) ==
    IF \E s \in gone \intersect userSockets[u] : ready[s] = "open"
      THEN Decrement(onlineCount[u]) ELSE onlineCount[u]

\* onlineCount of u without the sockets in gone (one at most is ever cleaned up
\* in a step); the Set delete tells whether the socket is still counted.
Remaining(u, gone) ==
    IF gone \intersect userSockets[u] = {} THEN onlineCount[u] ELSE Decrement(onlineCount[u])

\* The devices whose last service connection goes with gone.
Unserved(gone) ==
    {d \in DevicesOf(gone \intersect registered) : d \notin DevicesOf(serviceConnections \ gone)}

\* Mutant of Unsubscribe: a room keeps the socket that joined it.
UnsubscribeNoRoom(gone) ==
    /\ serviceConnections' = serviceConnections \ gone
    /\ serviceDeviceIndex' = serviceDeviceIndex \ Unserved(gone)
    /\ UNCHANGED <<registered, roomSockets>>

\* Mutant of Unsubscribe: the device stays in the index when its socket goes.
UnsubscribeNoDevice(gone) ==
    /\ roomSockets' = [d \in Devices |-> IF d \in DevicesOf(gone) THEN None ELSE roomSockets[d]]
    /\ serviceConnections' = serviceConnections \ gone
    /\ UNCHANGED <<registered, serviceDeviceIndex>>

\* Rooms go by the socketId, services by the socket itself.
Unsubscribe(gone) ==
    /\ roomSockets' = [d \in Devices |-> IF d \in DevicesOf(gone) THEN None ELSE roomSockets[d]]
    /\ serviceConnections' = serviceConnections \ gone
    /\ serviceDeviceIndex' = serviceDeviceIndex \ Unserved(gone)
    /\ UNCHANGED registered

-----------------------------------------------------------------------------
(* wss.on('connection') *)

Oldest(S) == {s \in S : \A t \in S : since[s] <= since[t]}

\* The user's sockets once s has replaced its device's socket.
Joined(s) == (userSockets[UserOf(s)] \union {s}) \ {deviceSockets[DeviceOf[s]]}

\* Mutant of Evicted: the limit is compared before the new socket is counted.
EvictedLate(s) ==
    IF Cardinality(Joined(s)) > MaxSockets + 1 THEN Oldest(Joined(s) \ {s}) ELSE {}

\* Over the limit the oldest socket goes (never more than one: one was added).
Evicted(s) == IF Cardinality(Joined(s)) > MaxSockets THEN Oldest(Joined(s) \ {s}) ELSE {}
Replaced(s) == {deviceSockets[DeviceOf[s]]} \ {None}

\* Mutant of AnnounceOnline: the count is read after it was raised.
AnnounceOnlineSecond(s, count) ==
    announced' = IF count = 1 /\ Replaced(s) = {} THEN announced \union {UserOf(s)} ELSE announced

\* handleOnline is silent for a replacement, whose user never was offline.
AnnounceOnline(s, count) ==
    announced' = IF count = 0 /\ Replaced(s) = {} THEN announced \union {UserOf(s)} ELSE announced

Connect(s) ==
    LET u == UserOf(s)
        gone == Replaced(s) \union Evicted(s)
        count == Remaining(u, gone)
    IN
    /\ ready[s] = "fresh"
    /\ ready' = [t \in Sockets |-> CASE t = s -> "open"
                                     [] t \in gone /\ ready[t] = "open" -> "closing"
                                     [] OTHER -> ready[t]]
    /\ since' = [since EXCEPT ![s] = Cardinality({t \in Sockets : ready[t] # "fresh"})]
    /\ detached' = detached \union gone
    /\ superseded' = superseded \union Replaced(s)
    /\ userSockets' = [userSockets EXCEPT ![u] = (@ \union {s}) \ gone]
    /\ deviceSockets' = [d \in Devices |-> IF d = DeviceOf[s] THEN s
                                           ELSE IF deviceSockets[d] \in gone THEN None
                                           ELSE deviceSockets[d]]
    /\ onlineCount' = [onlineCount EXCEPT ![u] = count + 1]
    /\ AnnounceOnline(s, count)
    /\ farewells' =
           [t \in Sockets |-> IF t \in Evicted(s) THEN farewells[t] + 1 ELSE farewells[t]]
    /\ Unsubscribe(gone)
    /\ UNCHANGED frames

-----------------------------------------------------------------------------
(* Closing *)

\* The client, the network, the heartbeat, the rate limiter or a revoked
\* session closes the socket; its close event is still to come.
Close(s) ==
    /\ ready[s] = "open"
    /\ ready' = [ready EXCEPT ![s] = "closing"]
    /\ UNCHANGED <<since, detached, superseded, userSockets, deviceSockets, onlineCount,
                   subscriptions, outside, frames>>

\* Mutant of CloseEvent: a detached socket is cleaned up like any other.
CloseEventTwice(s) ==
    LET u == UserOf(s)
        count == Remaining(u, {s})
    IN
    /\ ready[s] = "closing"
    /\ ready' = [ready EXCEPT ![s] = "closed"]
    /\ farewells' = [farewells EXCEPT ![s] = @ + 1]
    /\ Unsubscribe({s})
    /\ deviceSockets' =
           [d \in Devices |-> IF deviceSockets[d] = s THEN None ELSE deviceSockets[d]]
    /\ userSockets' = [userSockets EXCEPT ![u] = @ \ {s}]
    /\ onlineCount' = [onlineCount EXCEPT ![u] = count]
    /\ announced' = IF Connected(s) /\ count = 0 THEN announced \ {u} ELSE announced
    /\ UNCHANGED <<since, detached, superseded, frames>>

CloseEvent(s) ==
    LET u == UserOf(s)
        count == Remaining(u, {s})
    IN
    /\ ready[s] = "closing"
    /\ ready' = [ready EXCEPT ![s] = "closed"]
    /\ IF s \in detached
         THEN UNCHANGED <<userSockets, deviceSockets, onlineCount, subscriptions, outside>>
         ELSE /\ farewells' = [farewells EXCEPT ![s] = @ + 1]
              /\ Unsubscribe({s})
              /\ deviceSockets' =
                     [d \in Devices |-> IF deviceSockets[d] = s THEN None ELSE deviceSockets[d]]
              /\ userSockets' = [userSockets EXCEPT ![u] = @ \ {s}]
              /\ onlineCount' = [onlineCount EXCEPT ![u] = count]
              /\ announced' = IF Connected(s) /\ count = 0 THEN announced \ {u} ELSE announced
    /\ UNCHANGED <<since, detached, superseded, frames>>

-----------------------------------------------------------------------------
(* Frames *)

\* ws.on('message'), also of a socket that is closing.
Receive(s, frame) ==
    /\ ready[s] \in {"open", "closing"}
    /\ received < MaxFrames /\ received' = received + 1
    /\ chain' = [chain EXCEPT ![s] = Append(@, frame)]
    /\ UNCHANGED <<connections, subscriptions, outside, late>>

\* The next frame of the chain gets its turn.
Handle(s, frame) ==
    /\ chain[s] # <<>> /\ Head(chain[s]) = frame
    /\ chain' = [chain EXCEPT ![s] = Tail(@)]
    /\ late' = IF Connected(s) THEN late ELSE late + 1
    /\ UNCHANGED <<connections, outside, received>>

\* A service the socket has in registeredServices is skipped.
HandleRegister(s) ==
    /\ Handle(s, "register")
    /\ registered' = registered \union {s}
    /\ IF s \in registered THEN UNCHANGED <<serviceConnections, serviceDeviceIndex>>
         ELSE /\ serviceConnections' = serviceConnections \union {s}
              /\ serviceDeviceIndex' = serviceDeviceIndex \union {DeviceOf[s]}
    /\ UNCHANGED roomSockets

\* An admissible join; the room's own state is MessagingRoomService's.
HandleJoinRoom(s) ==
    /\ Handle(s, "join")
    /\ roomSockets' = [roomSockets EXCEPT ![DeviceOf[s]] = s]
    /\ UNCHANGED <<registered, serviceConnections, serviceDeviceIndex>>

HandleLeaveRoom(s) ==
    /\ Handle(s, "leave")
    /\ roomSockets' = [roomSockets EXCEPT ![DeviceOf[s]] = None]
    /\ UNCHANGED <<registered, serviceConnections, serviceDeviceIndex>>

-----------------------------------------------------------------------------
Next ==
    \E s \in Sockets :
        \/ Connect(s) \/ Close(s) \/ CloseEvent(s)
        \/ \E frame \in Frames : Receive(s, frame)
        \/ HandleRegister(s) \/ HandleJoinRoom(s) \/ HandleLeaveRoom(s)

Spec == Init /\ [][Next]_vars
-----------------------------------------------------------------------------
(* Properties                                                              *)

\* The indexes agree: a user's sockets are those not yet cleaned up, at most one
\* of a device, and deviceSockets finds each by its socketId.
IndexesAgree ==
    /\ \A u \in Users : \A s \in userSockets[u] : UserOf(s) = u
    /\ \A s \in Sockets :
          /\ Connected(s) <=> ready[s] \in {"open", "closing"} /\ s \notin detached
          /\ Connected(s) => deviceSockets[DeviceOf[s]] = s
          /\ s \in detached => ready[s] \in {"closing", "closed"}
          /\ s \in superseded => s \in detached
    /\ \A d \in Devices : deviceSockets[d] # None =>
          DeviceOf[deviceSockets[d]] = d /\ Connected(deviceSockets[d])

\* since orders the sockets by their connection.
SinceIsOrder ==
    LET seen == {s \in Sockets : ready[s] # "fresh"} IN
    \A s \in seen : /\ since[s] < Cardinality(seen)
                    /\ \A t \in seen : since[s] = since[t] => s = t

\* No presence ghost: the count that presence goes by is the number of sockets
\* there are, whatever was replaced, evicted or closed at once.
NoPresenceGhost == \A u \in Users : onlineCount[u] = Cardinality(userSockets[u])

\* What the other users were last told of u's presence is the case.
AnnouncedIsOnline == announced = {u \in Users : userSockets[u] # {}}

\* MAX_SOCKETS_PER_USER
SocketsAreCapped == \A u \in Users : Cardinality(userSockets[u]) <= MaxSockets

\* The disconnect handlers (a ringing call is ended there) run exactly once for a
\* socket that is gone because it closed or was evicted, never for one that its own
\* device replaced, and not before the socket goes.
FarewellOnce ==
    \A s \in Sockets :
        farewells[s] = IF ready[s] # "fresh" /\ ~Connected(s) /\ s \notin superseded THEN 1 ELSE 0

\* Short of a late frame, what a socket subscribed to ends with it, and the
\* shared socketId leads to the socket that now holds it.
SubscribersAreConnected ==
    late = 0 =>
        /\ \A s \in serviceConnections : Connected(s)
        /\ \A d \in Devices : roomSockets[d] \in {None, deviceSockets[d]}

\* hasServiceConnection, which decides between a frame and a push notification,
\* says yes of every device with a connected socket that registered the service,
\* and short of a late frame of no other device.  A late register frame leaves the
\* device of a closed socket in the index, and the user without a push.
ServiceIndexIsExact ==
    LET served == DevicesOf({s \in registered : Connected(s)}) IN
    /\ served \subseteq serviceDeviceIndex
    /\ late = 0 => serviceDeviceIndex = served

\* The index goes by serviceConnections, where a registered socket stays until its
\* cleanup.
RegistrationsAgree ==
    /\ serviceConnections \subseteq registered
    /\ \A s \in registered : Connected(s) => s \in serviceConnections
    /\ serviceDeviceIndex = DevicesOf(serviceConnections)
    /\ \A s \in Sockets : ready[s] = "fresh" => s \notin registered /\ chain[s] = <<>>

\* The inductive invariant.
IInv ==
    /\ TypeOK
    /\ IndexesAgree
    /\ SinceIsOrder
    /\ NoPresenceGhost
    /\ AnnouncedIsOnline
    /\ SocketsAreCapped
    /\ FarewellOnce
    /\ SubscribersAreConnected
    /\ RegistrationsAgree

-----------------------------------------------------------------------------
(* The promise to those who look at presence.                              *)

Counted == {s \in Sockets : Connected(s)}
SeenOff == {s \in Sockets : farewells[s] > 0}

\* MAX_SOCKETS_PER_USER
Allowance == {S \in SUBSET Sockets : Cardinality(S) <= MaxSockets}

Promise == INSTANCE Presence
    WITH Allowed <- Allowance, members <- Counted, left <- SeenOff,
         replaced <- superseded, online <- announced

\* The indexes, with cleanups ahead of their close events, keep the promise.
ImplementsPresence == Promise!Behaviour
=============================================================================
