------------------------ MODULE RealtimeSocketsProofs ------------------------
(***************************************************************************)
(* The invariant of the connection indexes, for any sockets, devices,      *)
(* users and limits.  The argument: a connection cleans up at most one     *)
(* socket, one that is still counted, so the count moves with the Set; a   *)
(* socket cleaned up early is marked detached, so its close event leaves   *)
(* the indexes, by then its successor's, alone.                            *)
(***************************************************************************)
EXTENDS RealtimeSockets, FiniteSetTheorems, WellFoundedInduction, TLAPS

\* A device token belongs to one user, and a socket presents one token.
LEMMA Owned ==
    ASSUME NEW s \in Sockets
    PROVE  DeviceOf[s] \in Devices /\ UserOf(s) \in Users
  BY Ownership DEF UserOf

\* Of connected sockets one is the oldest.
LEMMA OldestIsOne ==
    ASSUME TypeOK, SinceIsOrder, NEW S, S \subseteq Sockets, S # {},
           \A s \in S : ready[s] # "fresh"
    PROVE  \E t \in S : Oldest(S) = {t}
  <1> DEFINE T == {since[s] : s \in S}
  <1>1. T \subseteq Nat /\ T # {}
    BY DEF TypeOK
  <1>2. PICK n \in T : \A m \in T : <<m, n>> \notin OpToRel(<, Nat)
    <2> HIDE DEF T
    <2> QED
      BY <1>1, NatLessThanWellFounded, WFMin
  <1>3. PICK t \in S : n = since[t]
    BY <1>2
  <1>4. ASSUME NEW s \in S
        PROVE  since[t] <= since[s]
    <2>1. since[s] \in T /\ since[s] \in Nat /\ since[t] \in Nat
      BY DEF TypeOK
    <2>2. ~(since[s] < since[t])
      BY <1>2, <1>3, <2>1 DEF OpToRel
    <2> QED
      BY <2>1, <2>2
  <1>5. ASSUME NEW s \in S, \A r \in S : since[s] <= since[r]
        PROVE  s = t
    <2>1. since[s] = since[t]
      BY <1>4, <1>5 DEF TypeOK
    <2> QED
      BY <2>1 DEF SinceIsOrder
  <1> QED
    BY <1>4, <1>5 DEF Oldest

\* The sockets a connection cleans up.
Gone(s) == Replaced(s) \union Evicted(s)

\* A connection cleans up nothing, or one counted socket of the same user: the
\* device's previous one, or the oldest of a user who is at the limit.
LEMMA OneIsGone ==
    ASSUME TypeOK, IndexesAgree, SinceIsOrder, SocketsAreCapped,
           NEW s \in Sockets, ready[s] = "fresh"
    PROVE  LET S == userSockets[UserOf(s)] IN
           /\ s \notin S
           /\ \/ /\ Gone(s) = {} /\ Replaced(s) = {} /\ Evicted(s) = {}
                 /\ deviceSockets[DeviceOf[s]] = None
                 /\ Cardinality(S) < MaxSockets
              \/ \E t \in S :
                    /\ Gone(s) = {t}
                    /\ \/ Replaced(s) = {t} /\ Evicted(s) = {} /\ deviceSockets[DeviceOf[s]] = t
                       \/ Replaced(s) = {} /\ Evicted(s) = {t} /\ deviceSockets[DeviceOf[s]] = None
  <1> DEFINE S == userSockets[UserOf(s)]
             d == DeviceOf[s]
  <1>1. d \in Devices /\ UserOf(s) \in Users
    BY Owned
  <1>2. /\ S \subseteq Sockets /\ IsFiniteSet(S)
        /\ Cardinality(S) \in Nat /\ Cardinality(S) <= MaxSockets
    BY <1>1, Ownership, FS_Subset, FS_CardinalityType DEF TypeOK, SocketsAreCapped
  <1>3. s \notin S
    BY DEF IndexesAgree, Connected
  <1>4. CASE deviceSockets[d] = None
    <2>1. Replaced(s) = {} /\ Joined(s) = S \union {s} /\ Joined(s) \ {s} = S
      BY <1>2, <1>3, <1>4, Ownership DEF Replaced, Joined
    <2>2. Cardinality(Joined(s)) = Cardinality(S) + 1
      BY <1>2, <1>3, <2>1, FS_AddElement
    <2>3. CASE Cardinality(S) < MaxSockets
      <3>1. Evicted(s) = {}
        BY <1>2, <2>2, <2>3, SocketLimits DEF Evicted
      <3> QED
        BY <1>3, <1>4, <2>1, <2>3, <3>1 DEF Gone
    <2>4. CASE Cardinality(S) = MaxSockets
      <3>1. Evicted(s) = Oldest(S)
        BY <2>1, <2>2, <2>4, SocketLimits DEF Evicted
      <3>2. S # {}
        BY <2>4, SocketLimits, FS_EmptySet
      <3>3. \A r \in S : ready[r] # "fresh"
        BY <1>1, <1>2 DEF IndexesAgree, Connected
      <3>4. PICK t \in S : Oldest(S) = {t}
        BY <1>2, <3>2, <3>3, OldestIsOne
      <3> QED
        BY <1>3, <1>4, <2>1, <3>1, <3>4 DEF Gone
    <2> QED
      BY <1>2, <2>3, <2>4, SocketLimits
  <1>5. CASE deviceSockets[d] # None
    <2> DEFINE t == deviceSockets[d]
    <2>1. t \in S
      BY <1>1, <1>5 DEF IndexesAgree, Connected, UserOf, TypeOK
    <2>2. Replaced(s) = {t} /\ Joined(s) = (S \union {s}) \ {t}
      BY <1>5 DEF Replaced, Joined
    <2>3. Cardinality(Joined(s)) = Cardinality(S)
      <3>1. IsFiniteSet(S \union {s}) /\ Cardinality(S \union {s}) = Cardinality(S) + 1
        BY <1>2, <1>3, FS_AddElement
      <3>2. t \in S \union {s}
        BY <2>1
      <3>3. Cardinality((S \union {s}) \ {t}) = Cardinality(S \union {s}) - 1
        BY <3>1, <3>2, FS_RemoveElement
      <3> QED
        BY <1>2, <2>2, <3>1, <3>3
    <2>4. Evicted(s) = {}
      BY <1>2, <2>3, SocketLimits DEF Evicted
    <2> QED
      BY <1>3, <2>1, <2>2, <2>4 DEF Gone
  <1> QED
    BY <1>4, <1>5

\* cleanupServiceConnections keeps the index exact: who is in the connections
\* has the service among its own.
LEMMA UnsubscribeExact ==
    ASSUME RegistrationsAgree, NEW gone, Unsubscribe(gone)
    PROVE  /\ registered' = registered /\ serviceConnections' = serviceConnections \ gone
           /\ (serviceConnections \subseteq registered)'
           /\ (serviceDeviceIndex = DevicesOf(serviceConnections))'
  <1>1. serviceConnections' = serviceConnections \ gone /\ registered' = registered
    BY DEF Unsubscribe
  <1>2. serviceDeviceIndex' = DevicesOf(serviceConnections \ gone)
    BY DEF Unsubscribe, Unserved, RegistrationsAgree, DevicesOf
  <1> QED
    BY <1>1, <1>2 DEF RegistrationsAgree, DevicesOf

\* Unsubscribe keeps the types of the subscriptions.
LEMMA UnsubscribeTypes ==
    ASSUME TypeOK, NEW gone, Unsubscribe(gone)
    PROVE  /\ roomSockets' \in [Devices -> Sockets \union {None}]
           /\ registered' \subseteq Sockets /\ serviceConnections' \subseteq Sockets
           /\ serviceDeviceIndex' \subseteq Devices
  BY DEF TypeOK, Unsubscribe

\* Before the first connection the indexes are empty, and agree.
LEMMA InitInv == Init => IInv
  <1> SUFFICES ASSUME Init PROVE IInv
    OBVIOUS
  <1>1. TypeOK
    BY DEF Init, TypeOK, Frames
  <1>2. IndexesAgree
    BY <1>1, Owned DEF Init, IndexesAgree, Connected
  <1>3. SinceIsOrder
    BY DEF Init, SinceIsOrder
  <1>4. NoPresenceGhost /\ SocketsAreCapped
    BY FS_EmptySet, SocketLimits DEF Init, NoPresenceGhost, SocketsAreCapped
  <1>5. AnnouncedIsOnline
    BY DEF Init, AnnouncedIsOnline
  <1>6. FarewellOnce /\ \A s \in Sockets : ready[s] = "fresh" => farewells[s] = 0
    BY Owned DEF Init, FarewellOnce
  <1>7. SubscribersAreConnected
    BY DEF Init, SubscribersAreConnected
  <1>8. RegistrationsAgree
    BY DEF Init, RegistrationsAgree, DevicesOf
  <1> QED
    BY <1>1, <1>2, <1>3, <1>4, <1>5, <1>6, <1>7, <1>8 DEF IInv

\* A new connection, with the replacement and the eviction it brings.
LEMMA ConnectStep ==
    ASSUME IInv, NEW s \in Sockets, Connect(s)
    PROVE  IInv'
  <1> USE DEF IInv
  <1> DEFINE u == UserOf(s)
             d == DeviceOf[s]
             S == userSockets[u]
             gone == Gone(s)
             count == Remaining(u, gone)
  <1>1. d \in Devices /\ u \in Users
    BY Owned
  <1>2. ready[s] = "fresh"
    BY DEF Connect
  <1>3. s \notin S
    BY <1>2, OneIsGone
  <1>4. \/ /\ gone = {} /\ Replaced(s) = {} /\ Evicted(s) = {} /\ deviceSockets[d] = None
           /\ Cardinality(S) < MaxSockets
        \/ \E t \in S :
              /\ gone = {t}
              /\ \/ Replaced(s) = {t} /\ Evicted(s) = {} /\ deviceSockets[d] = t
                 \/ Replaced(s) = {} /\ Evicted(s) = {t} /\ deviceSockets[d] = None
    BY <1>2, OneIsGone
  <1>5. gone \subseteq S /\ s \notin gone
    BY <1>3, <1>4
  <1>6. /\ S \subseteq Sockets /\ IsFiniteSet(S)
        /\ Cardinality(S) \in Nat /\ onlineCount[u] = Cardinality(S)
    BY <1>1, Ownership, FS_Subset, FS_CardinalityType DEF TypeOK, NoPresenceGhost
  <1>7. userSockets' = [userSockets EXCEPT ![u] = (S \union {s}) \ gone]
    BY DEF Connect, Gone
  <1>8. /\ userSockets'[u] = (S \union {s}) \ gone
        /\ \A v \in Users \ {u} : userSockets'[v] = userSockets[v]
    BY <1>1, <1>7 DEF TypeOK
  <1>9. ASSUME NEW r \in Sockets
        PROVE  Connected(r)' <=> (Connected(r) \/ r = s) /\ r \notin gone
    <2>1. UserOf(r) \in Users /\ (UserOf(r) # u => r \notin S)
      BY <1>1, Owned DEF IndexesAgree
    <2>2. CASE UserOf(r) = u
      BY <1>8, <2>2 DEF Connected, UserOf
    <2>3. CASE UserOf(r) # u
      BY <1>5, <1>8, <2>1, <2>3 DEF Connected, UserOf
    <2> QED
      BY <2>2, <2>3
  <1>10. \A r \in gone : Connected(r) /\ UserOf(r) = u /\ r \in Sockets
    BY <1>1, <1>5, <1>6 DEF IndexesAgree, Connected
  <1>11. ready' = [r \in Sockets |-> CASE r = s -> "open"
                                      [] r \in gone /\ ready[r] = "open" -> "closing"
                                      [] OTHER -> ready[r]]
    BY DEF Connect, Gone
  <1>12. /\ detached' = detached \union gone
         /\ deviceSockets' = [e \in Devices |-> IF e = d THEN s
                                                ELSE IF deviceSockets[e] \in gone THEN None
                                                ELSE deviceSockets[e]]
         /\ Unsubscribe(gone)
         /\ chain' = chain /\ received' = received /\ late' = late
    BY DEF Connect, Gone, frames
  <1>13. onlineCount' = [onlineCount EXCEPT ![u] = count + 1] /\ AnnounceOnline(s, count)
    BY DEF Connect, Gone
  <1>14. /\ count \in Nat
         /\ Cardinality(userSockets'[u]) = count + 1
         /\ count + 1 <= MaxSockets
         /\ gone = {} => count = Cardinality(S)
    <2>1. IsFiniteSet(S \union {s}) /\ Cardinality(S \union {s}) = Cardinality(S) + 1
      BY <1>3, <1>6, FS_AddElement
    <2>2. CASE gone = {}
      <3>1. count = Cardinality(S) /\ userSockets'[u] = S \union {s}
        BY <1>6, <1>8, <2>2 DEF Remaining
      <3> QED
        BY <1>4, <1>6, <2>1, <2>2, <3>1, SocketLimits
    <2>3. CASE gone # {}
      <3>1. PICK t \in S : gone = {t}
        BY <1>4, <2>3
      <3>2. Cardinality((S \union {s}) \ {t}) = Cardinality(S \union {s}) - 1
        BY <2>1, <3>1, FS_RemoveElement
      <3>3. Cardinality(S) # 0
        BY <1>6, <3>1, FS_EmptySet
      <3>4. count = Cardinality(S) - 1
        BY <1>6, <3>1, <3>3 DEF Remaining, Decrement
      <3>5. Cardinality(S) <= MaxSockets
        BY <1>1 DEF SocketsAreCapped
      <3> QED
        BY <1>6, <1>8, <2>1, <2>3, <3>1, <3>2, <3>3, <3>4, <3>5, SocketLimits
    <2> QED
      BY <2>2, <2>3
  <1>15. TypeOK'
    <2>1. since' \in [Sockets -> Nat]
      <3>1. Cardinality({t \in Sockets : ready[t] # "fresh"}) \in Nat
        BY Ownership, FS_Subset, FS_CardinalityType
      <3> QED
        BY <3>1 DEF Connect, TypeOK
    <2>2. userSockets' \in [Users -> SUBSET Sockets]
      BY <1>6, <1>7 DEF TypeOK
    <2>3. ready' \in [Sockets -> {"fresh", "open", "closing", "closed"}]
      BY <1>11 DEF TypeOK
    <2>4. farewells' \in [Sockets -> Nat]
      BY DEF Connect, TypeOK
    <2>5. announced' \subseteq Users
      BY <1>1, <1>13 DEF TypeOK, AnnounceOnline
    <2>6. onlineCount' \in [Users -> Nat]
      <3>1. onlineCount \in [Users -> Nat]
        BY DEF TypeOK
      <3>2. count + 1 \in Nat
        BY <1>14
      <3>3. onlineCount' = [onlineCount EXCEPT ![u] = count + 1]
        BY <1>13
      <3> HIDE DEF count, u
      <3> QED
        BY <3>1, <3>2, <3>3
    <2>7. deviceSockets' \in [Devices -> Sockets \union {None}]
      BY <1>12 DEF TypeOK
    <2>8. detached' \subseteq Sockets /\ superseded' \subseteq Sockets
      <3>1. superseded' = superseded \union Replaced(s) /\ Replaced(s) \subseteq gone
        BY DEF Connect, Gone
      <3> QED
        BY <1>10, <1>12, <3>1 DEF TypeOK
    <2> QED
      BY <1>12, <2>1, <2>2, <2>3, <2>4, <2>5, <2>6, <2>7, <2>8, UnsubscribeTypes DEF TypeOK
  <1>16. IndexesAgree'
    <2>1. \A v \in Users : \A r \in userSockets'[v] : UserOf(r) = v
      BY <1>8 DEF IndexesAgree
    <2>2. ASSUME NEW r \in Sockets
          PROVE  /\ Connected(r)' <=> ready'[r] \in {"open", "closing"} /\ r \notin detached'
                 /\ Connected(r)' => deviceSockets'[DeviceOf[r]] = r
                 /\ r \in detached' => ready'[r] \in {"closing", "closed"}
      <3>1. /\ Connected(r) <=> ready[r] \in {"open", "closing"} /\ r \notin detached
            /\ Connected(r) => deviceSockets[DeviceOf[r]] = r
            /\ r \in detached => ready[r] \in {"closing", "closed"}
            /\ DeviceOf[r] \in Devices
        BY Owned DEF IndexesAgree
      <3>2. CASE r = s
        BY <1>1, <1>2, <1>5, <1>9, <1>11, <1>12, <3>1, <3>2
      <3>3. CASE r # s
        <4>1. Connected(r)' <=> Connected(r) /\ r \notin gone
          BY <1>9, <3>3
        <4>2. ready'[r] = IF r \in gone /\ ready[r] = "open" THEN "closing" ELSE ready[r]
          BY <1>11, <3>3
        <4>3. r \in gone => Connected(r)
          BY <1>10
        <4>4. Connected(r)' => DeviceOf[r] # d
          BY <1>4, <3>1, <4>1, Ownership
        <4>5. Connected(r)' => deviceSockets'[DeviceOf[r]] = r
          BY <1>12, <3>1, <4>1, <4>4
        <4> QED
          BY <1>12, <3>1, <4>1, <4>2, <4>3, <4>5
      <3> QED
        BY <3>2, <3>3
    <2>3. ASSUME NEW e \in Devices, deviceSockets'[e] # None
          PROVE  /\ DeviceOf[deviceSockets'[e]] = e
                 /\ deviceSockets'[e] \in userSockets'[UserOf(deviceSockets'[e])]
      <3>1. CASE e = d
        <4>1. deviceSockets'[e] = s
          BY <1>12, <3>1
        <4> QED
          BY <1>5, <1>8, <3>1, <4>1
      <3>2. CASE e # d
        <4>1. /\ deviceSockets'[e] = deviceSockets[e]
             /\ deviceSockets[e] \notin gone /\ deviceSockets[e] # None
          BY <1>12, <2>3, <3>2
        <4>2. deviceSockets[e] \in Sockets
          BY <4>1 DEF TypeOK
        <4>3. DeviceOf[deviceSockets[e]] = e /\ Connected(deviceSockets[e])
          BY <4>1 DEF IndexesAgree
        <4>4. deviceSockets[e] \in userSockets'[UserOf(deviceSockets[e])]
          BY <1>9, <4>1, <4>2, <4>3 DEF Connected, UserOf
        <4> QED
          BY <4>1, <4>3, <4>4
      <3> QED
        BY <3>1, <3>2
    <2>4. \A r \in Sockets : r \in superseded' => r \in detached'
      BY <1>12 DEF Connect, Gone, IndexesAgree
    <2> QED
      BY <2>1, <2>2, <2>3, <2>4 DEF IndexesAgree, Connected, UserOf
  <1>17. SinceIsOrder'
    <2> DEFINE seen == {r \in Sockets : ready[r] # "fresh"}
    <2>1. since' = [since EXCEPT ![s] = Cardinality(seen)]
      BY DEF Connect
    <2>2. {r \in Sockets : ready'[r] # "fresh"} = seen \union {s}
      BY <1>11
    <2>3. s \notin seen /\ IsFiniteSet(seen) /\ Cardinality(seen) \in Nat
      BY <1>2, Ownership, FS_Subset, FS_CardinalityType
    <2>4. Cardinality(seen \union {s}) = Cardinality(seen) + 1
      <3> HIDE DEF seen
      <3> QED
        BY <2>3, FS_AddElement
    <2>5. \A r \in seen : /\ since[r] \in Nat /\ since[r] < Cardinality(seen)
                          /\ \A t \in seen : since[r] = since[t] => r = t
      BY DEF SinceIsOrder, TypeOK
    <2>6. since'[s] = Cardinality(seen) /\ \A r \in seen : since'[r] = since[r]
      BY <2>1, <2>3 DEF TypeOK
    <2> HIDE DEF seen
    <2>7. \A r \in seen \union {s} :
             /\ since'[r] < Cardinality(seen \union {s})
             /\ \A t \in seen \union {s} : since'[r] = since'[t] => r = t
      BY <2>3, <2>4, <2>5, <2>6
    <2> QED
      BY <2>2, <2>7 DEF SinceIsOrder
  <1>18. NoPresenceGhost' /\ SocketsAreCapped'
    <2>1. onlineCount'[u] = count + 1 /\ \A v \in Users \ {u} : onlineCount'[v] = onlineCount[v]
      BY <1>1, <1>13 DEF TypeOK
    <2> QED
      BY <1>8, <1>14, <2>1 DEF NoPresenceGhost, SocketsAreCapped
  <1>19. AnnouncedIsOnline'
    <2>1. userSockets'[u] # {}
      BY <1>5, <1>8
    <2>2. announced' = announced \union {u}
      <3>1. CASE S = {}
        <4>1. count = 0 /\ Replaced(s) = {}
          BY <1>4, <1>5, <1>14, <3>1, FS_EmptySet
        <4> QED
          BY <1>13, <4>1 DEF AnnounceOnline
      <3>2. CASE S # {}
        <4>1. u \in announced
          BY <1>1, <3>2 DEF AnnouncedIsOnline
        <4> QED
          BY <1>13, <4>1 DEF AnnounceOnline
      <3> QED
        BY <3>1, <3>2
    <2> QED
      BY <1>1, <1>8, <2>1, <2>2 DEF AnnouncedIsOnline
  <1>20. FarewellOnce'
    <2> SUFFICES ASSUME NEW r \in Sockets
                 PROVE  farewells'[r] = IF /\ ready'[r] # "fresh" /\ ~Connected(r)'
                                           /\ r \notin superseded'
                                          THEN 1 ELSE 0
      BY DEF FarewellOnce
    <2>1. /\ farewells[r] = IF ready[r] # "fresh" /\ ~Connected(r) /\ r \notin superseded
                              THEN 1 ELSE 0
          /\ Connected(r) => ready[r] # "fresh" /\ r \notin superseded
          /\ r \in superseded => ready[r] # "fresh"
      BY DEF FarewellOnce, IndexesAgree
    <2>2. farewells'[r] = IF r \in Evicted(s) THEN farewells[r] + 1 ELSE farewells[r]
      BY DEF Connect
    <2>3. superseded' = superseded \union Replaced(s)
      BY DEF Connect
    <2>4. ready'[r] = "fresh" <=> ready[r] = "fresh" /\ r # s
      BY <1>11
    <2>5. CASE r \in Evicted(s)
      <3>1. r \in gone /\ Connected(r) /\ r \notin Replaced(s) /\ r # s
        BY <1>4, <1>5, <1>10, <2>5 DEF Gone
      <3> QED
        BY <1>9, <2>1, <2>2, <2>3, <2>4, <2>5, <3>1
    <2>6. CASE r \in Replaced(s)
      <3>1. r \in gone /\ Connected(r) /\ r \notin Evicted(s)
        BY <1>4, <1>10, <2>6 DEF Gone
      <3> QED
        BY <2>1, <2>2, <2>3, <2>6, <3>1
    <2>7. CASE r \notin Evicted(s) /\ r \notin Replaced(s)
      <3>1. farewells'[r] = farewells[r] /\ (r \in superseded' <=> r \in superseded)
        BY <2>2, <2>3, <2>7
      <3>2. Connected(r)' <=> Connected(r) \/ r = s
        BY <1>9, <2>7 DEF Gone
      <3>3. CASE r = s
        BY <1>2, <2>1, <3>1, <3>2, <3>3
      <3>4. CASE r # s
        BY <2>1, <2>4, <3>1, <3>2, <3>4
      <3> QED
        BY <3>3, <3>4
    <2> QED
      BY <2>5, <2>6, <2>7
  <1>21. SubscribersAreConnected'
    <2> SUFFICES ASSUME late = 0
                 PROVE  /\ \A r \in serviceConnections' : Connected(r)'
                        /\ \A e \in Devices : roomSockets'[e] \in {None, deviceSockets'[e]}
      BY <1>12 DEF SubscribersAreConnected
    <2>1. \A r \in serviceConnections' : Connected(r)'
      BY <1>9, <1>12 DEF Unsubscribe, SubscribersAreConnected, TypeOK
    <2>2. ASSUME NEW e \in Devices
          PROVE  roomSockets'[e] \in {None, deviceSockets'[e]}
      <3>1. roomSockets'[e] = IF e \in DevicesOf(gone) THEN None ELSE roomSockets[e]
        BY <1>12 DEF Unsubscribe
      <3>2. roomSockets[e] \in {None, deviceSockets[e]}
        BY DEF SubscribersAreConnected
      <3>3. deviceSockets[e] \in gone => e \in DevicesOf(gone)
        BY <1>10, Ownership DEF DevicesOf, IndexesAgree
      <3>4. e = d => deviceSockets[e] = None \/ deviceSockets[e] \in gone
        BY <1>4
      <3> QED
        BY <1>12, <3>1, <3>2, <3>3, <3>4
    <2> QED
      BY <2>1, <2>2
  <1>22. RegistrationsAgree'
    <2>1. /\ registered' = registered /\ serviceConnections' = serviceConnections \ gone
          /\ (serviceConnections \subseteq registered)'
          /\ (serviceDeviceIndex = DevicesOf(serviceConnections))'
      BY <1>12, UnsubscribeExact
    <2>2. registered \subseteq Sockets /\ s \notin registered
      BY <1>2 DEF TypeOK, RegistrationsAgree
    <2>3. \A r \in registered : Connected(r)' => r \in serviceConnections'
      BY <1>9, <2>1, <2>2 DEF RegistrationsAgree
    <2>4. \A r \in Sockets : ready'[r] = "fresh" => r \notin registered /\ chain'[r] = <<>>
      BY <1>11, <1>12 DEF RegistrationsAgree
    <2> QED
      BY <2>1, <2>3, <2>4 DEF RegistrationsAgree
  <1> QED
    BY <1>15, <1>16, <1>17, <1>18, <1>19, <1>20, <1>21, <1>22

\* The conjuncts that go by the connections keep, when those stay as they are.
LEMMA ConnectionsKept ==
    ASSUME IInv, UNCHANGED <<connections, outside>>
    PROVE  /\ IndexesAgree' /\ SinceIsOrder' /\ NoPresenceGhost' /\ AnnouncedIsOnline'
           /\ SocketsAreCapped' /\ FarewellOnce'
           /\ \A r \in Sockets : Connected(r)' <=> Connected(r)
  <1>1. /\ ready' = ready /\ since' = since /\ detached' = detached /\ superseded' = superseded
        /\ userSockets' = userSockets /\ deviceSockets' = deviceSockets
        /\ onlineCount' = onlineCount /\ announced' = announced /\ farewells' = farewells
    BY DEF connections, outside
  <1>2. IndexesAgree' /\ \A r \in Sockets : Connected(r)' <=> Connected(r)
    BY <1>1 DEF IInv, IndexesAgree, Connected, UserOf
  <1>3. SinceIsOrder'
    BY <1>1 DEF IInv, SinceIsOrder
  <1>4. NoPresenceGhost' /\ AnnouncedIsOnline' /\ SocketsAreCapped'
    BY <1>1 DEF IInv, NoPresenceGhost, AnnouncedIsOnline, SocketsAreCapped
  <1>5. FarewellOnce'
    BY <1>1, <1>2 DEF IInv, FarewellOnce
  <1> QED
    BY <1>2, <1>3, <1>4, <1>5

\* Closing moves the readyState, and nothing tells an open socket from a
\* closing one.
LEMMA CloseStep ==
    ASSUME IInv, NEW s \in Sockets, Close(s)
    PROVE  IInv'
  <1> USE DEF IInv
  <1>1. /\ ready[s] = "open"
        /\ ready' = [ready EXCEPT ![s] = "closing"]
        /\ since' = since /\ detached' = detached /\ superseded' = superseded
        /\ userSockets' = userSockets /\ deviceSockets' = deviceSockets
        /\ onlineCount' = onlineCount /\ announced' = announced /\ farewells' = farewells
        /\ roomSockets' = roomSockets /\ registered' = registered
        /\ serviceConnections' = serviceConnections /\ serviceDeviceIndex' = serviceDeviceIndex
        /\ chain' = chain /\ received' = received /\ late' = late
    BY DEF Close, subscriptions, outside, frames
  <1>2. TypeOK'
    BY <1>1 DEF TypeOK
  <1>3. \A r \in Sockets : ready'[r] = IF r = s THEN "closing" ELSE ready[r]
    BY <1>1 DEF TypeOK
  <1>4. \A r \in Sockets : Connected(r)' <=> Connected(r)
    BY <1>1 DEF Connected, UserOf
  <1>5. IndexesAgree'
    BY <1>1, <1>3 DEF IndexesAgree, Connected, UserOf
  <1>6. SinceIsOrder'
    <2>1. {r \in Sockets : ready'[r] # "fresh"} = {r \in Sockets : ready[r] # "fresh"}
      BY <1>1, <1>3
    <2> QED
      BY <1>1, <2>1 DEF SinceIsOrder
  <1>7. NoPresenceGhost' /\ AnnouncedIsOnline' /\ SocketsAreCapped'
    BY <1>1 DEF NoPresenceGhost, AnnouncedIsOnline, SocketsAreCapped
  <1>8. FarewellOnce'
    BY <1>1, <1>3, <1>4 DEF FarewellOnce
  <1>9. SubscribersAreConnected'
    BY <1>1, <1>4 DEF SubscribersAreConnected, TypeOK
  <1>10. RegistrationsAgree'
    BY <1>1, <1>3, <1>4 DEF RegistrationsAgree, DevicesOf, TypeOK
  <1> QED
    BY <1>2, <1>5, <1>6, <1>7, <1>8, <1>9, <1>10

\* The close event of a socket, cleaned up before or only now.
LEMMA CloseEventStep ==
    ASSUME IInv, NEW s \in Sockets, CloseEvent(s)
    PROVE  IInv'
  <1> USE DEF IInv
  <1> DEFINE u == UserOf(s)
             S == userSockets[u]
             count == Remaining(u, {s})
  <1>1. DeviceOf[s] \in Devices /\ u \in Users
    BY Owned
  <1>2. /\ ready[s] = "closing" /\ ready' = [ready EXCEPT ![s] = "closed"]
        /\ since' = since /\ detached' = detached /\ superseded' = superseded
        /\ chain' = chain /\ received' = received /\ late' = late
    BY DEF CloseEvent, frames
  <1>3. \A r \in Sockets : ready'[r] = IF r = s THEN "closed" ELSE ready[r]
    BY <1>2 DEF TypeOK
  <1>4. SinceIsOrder'
    <2>1. {r \in Sockets : ready'[r] # "fresh"} = {r \in Sockets : ready[r] # "fresh"}
      BY <1>2, <1>3
    <2> QED
      BY <1>2, <2>1 DEF SinceIsOrder
  <1>5. CASE s \in detached
    <2>1. /\ userSockets' = userSockets /\ deviceSockets' = deviceSockets
          /\ onlineCount' = onlineCount /\ announced' = announced /\ farewells' = farewells
          /\ roomSockets' = roomSockets /\ registered' = registered
          /\ serviceConnections' = serviceConnections /\ serviceDeviceIndex' = serviceDeviceIndex
      BY <1>5 DEF CloseEvent, subscriptions, outside
    <2>2. TypeOK'
      BY <1>2, <2>1 DEF TypeOK
    <2>3. \A r \in Sockets : Connected(r)' <=> Connected(r)
      BY <2>1 DEF Connected, UserOf
    <2>4. IndexesAgree'
      BY <1>2, <1>3, <1>5, <2>1 DEF IndexesAgree, Connected, UserOf
    <2>5. NoPresenceGhost' /\ AnnouncedIsOnline' /\ SocketsAreCapped'
      BY <2>1 DEF NoPresenceGhost, AnnouncedIsOnline, SocketsAreCapped
    <2>6. FarewellOnce'
      BY <1>2, <1>3, <1>5, <2>1, <2>3 DEF FarewellOnce
    <2>7. SubscribersAreConnected'
      BY <1>2, <2>1, <2>3 DEF SubscribersAreConnected, TypeOK
    <2>8. RegistrationsAgree'
      BY <1>2, <1>3, <2>1, <2>3 DEF RegistrationsAgree, DevicesOf, TypeOK
    <2> QED
      BY <1>4, <2>2, <2>4, <2>5, <2>6, <2>7, <2>8
  <1>6. CASE s \notin detached
    <2>1. Connected(s) /\ s \in S
      BY <1>2, <1>6 DEF IndexesAgree, Connected
    <2>2. /\ farewells' = [farewells EXCEPT ![s] = @ + 1]
          /\ Unsubscribe({s})
          /\ deviceSockets' =
                 [e \in Devices |-> IF deviceSockets[e] = s THEN None ELSE deviceSockets[e]]
          /\ userSockets' = [userSockets EXCEPT ![u] = @ \ {s}]
          /\ onlineCount' = [onlineCount EXCEPT ![u] = count]
          /\ announced' = IF count = 0 THEN announced \ {u} ELSE announced
      BY <1>6, <2>1 DEF CloseEvent
    <2>3. /\ S \subseteq Sockets /\ IsFiniteSet(S)
        /\ Cardinality(S) \in Nat /\ onlineCount[u] = Cardinality(S)
      BY <1>1, Ownership, FS_Subset, FS_CardinalityType DEF TypeOK, NoPresenceGhost
    <2>4. userSockets'[u] = S \ {s} /\ \A v \in Users \ {u} : userSockets'[v] = userSockets[v]
      BY <1>1, <2>2 DEF TypeOK
    <2>5. /\ count = Cardinality(S) - 1 /\ count \in Nat
          /\ IsFiniteSet(S \ {s}) /\ Cardinality(S \ {s}) = Cardinality(S) - 1
      <3>1. Cardinality(S) # 0
        BY <2>1, <2>3, FS_EmptySet
      <3>2. IsFiniteSet(S \ {s}) /\ Cardinality(S \ {s}) = Cardinality(S) - 1
        BY <2>1, <2>3, FS_RemoveElement
      <3>3. count = Cardinality(S) - 1
        BY <2>1, <2>3, <3>1 DEF Remaining, Decrement
      <3> QED
        BY <2>3, <3>1, <3>2, <3>3
    <2>6. ASSUME NEW r \in Sockets
          PROVE  Connected(r)' <=> Connected(r) /\ r # s
      <3>1. UserOf(r) \in Users /\ UserOf(s) = u
        BY Owned
      <3> QED
        BY <2>4, <3>1 DEF Connected, UserOf
    <2>7. TypeOK'
      <3>1. userSockets' \in [Users -> SUBSET Sockets]
        BY <2>2 DEF TypeOK
      <3>2. onlineCount' \in [Users -> Nat]
        <4>1. count \in Nat /\ onlineCount \in [Users -> Nat]
          BY <2>5 DEF TypeOK
        <4>2. onlineCount' = [onlineCount EXCEPT ![u] = count]
          BY <2>2
        <4> HIDE DEF count, u
        <4> QED
          BY <4>1, <4>2
      <3>3. deviceSockets' \in [Devices -> Sockets \union {None}]
        BY <2>2 DEF TypeOK
      <3>4. farewells' \in [Sockets -> Nat]
        BY <2>2 DEF TypeOK
      <3>5. announced' \subseteq Users
        BY <2>2 DEF TypeOK
      <3>6. ready' \in [Sockets -> {"fresh", "open", "closing", "closed"}]
        BY <1>2 DEF TypeOK
      <3> QED
        BY <1>2, <2>2, <3>1, <3>2, <3>3, <3>4, <3>5, <3>6, UnsubscribeTypes DEF TypeOK
    <2>8. IndexesAgree'
      <3>1. \A v \in Users : \A r \in userSockets'[v] : UserOf(r) = v
        BY <2>4 DEF IndexesAgree
      <3>2. ASSUME NEW r \in Sockets
            PROVE  /\ Connected(r)' <=> ready'[r] \in {"open", "closing"} /\ r \notin detached'
                   /\ Connected(r)' => deviceSockets'[DeviceOf[r]] = r
                   /\ r \in detached' => ready'[r] \in {"closing", "closed"}
        <4>1. /\ Connected(r) <=> ready[r] \in {"open", "closing"} /\ r \notin detached
              /\ Connected(r) => deviceSockets[DeviceOf[r]] = r
              /\ r \in detached => ready[r] \in {"closing", "closed"}
              /\ DeviceOf[r] \in Devices
          BY Owned DEF IndexesAgree
        <4> QED
          BY <1>2, <1>3, <2>2, <2>6, <4>1
      <3>3. ASSUME NEW e \in Devices, deviceSockets'[e] # None
            PROVE  /\ DeviceOf[deviceSockets'[e]] = e
                   /\ deviceSockets'[e] \in userSockets'[UserOf(deviceSockets'[e])]
        <4>1. /\ deviceSockets'[e] = deviceSockets[e]
             /\ deviceSockets[e] # s /\ deviceSockets[e] # None
          BY <2>2, <3>3
        <4>2. deviceSockets[e] \in Sockets
          BY <4>1 DEF TypeOK
        <4>3. DeviceOf[deviceSockets[e]] = e /\ Connected(deviceSockets[e])
          BY <4>1 DEF IndexesAgree
        <4>4. deviceSockets[e] \in userSockets'[UserOf(deviceSockets[e])]
          BY <2>6, <4>1, <4>2, <4>3 DEF Connected, UserOf
        <4> QED
          BY <4>1, <4>3, <4>4
      <3>4. \A r \in Sockets : r \in superseded' => r \in detached'
        BY <1>2 DEF IndexesAgree
      <3> QED
        BY <3>1, <3>2, <3>3, <3>4 DEF IndexesAgree, Connected, UserOf
    <2>9. NoPresenceGhost' /\ SocketsAreCapped'
      <3>1. onlineCount'[u] = count /\ \A v \in Users \ {u} : onlineCount'[v] = onlineCount[v]
        BY <1>1, <2>2 DEF TypeOK
      <3>2. Cardinality(S) <= MaxSockets
        BY <1>1 DEF SocketsAreCapped
      <3>3. \A v \in Users : onlineCount'[v] = Cardinality(userSockets'[v])
        BY <2>4, <2>5, <3>1 DEF NoPresenceGhost
      <3>4. ASSUME NEW v \in Users
            PROVE  Cardinality(userSockets'[v]) <= MaxSockets
        <4>1. CASE v = u
          <5>1. userSockets'[v] = S \ {s} /\ Cardinality(S \ {s}) = Cardinality(S) - 1
            BY <2>4, <2>5, <4>1
          <5>2. Cardinality(S) \in Nat /\ MaxSockets \in Nat
            BY <2>3, SocketLimits
          <5> HIDE DEF S
          <5> QED
            BY <3>2, <5>1, <5>2
        <4>2. CASE v # u
          BY <2>4, <4>2 DEF SocketsAreCapped
        <4> QED
          BY <4>1, <4>2
      <3> QED
        BY <3>3, <3>4 DEF NoPresenceGhost, SocketsAreCapped
    <2>10. AnnouncedIsOnline'
      <3>1. count = 0 <=> userSockets'[u] = {}
        BY <2>4, <2>5, FS_EmptySet
      <3>2. u \in announced
        BY <1>1, <2>1 DEF AnnouncedIsOnline
      <3> QED
        BY <1>1, <2>2, <2>4, <3>1, <3>2 DEF AnnouncedIsOnline
    <2>11. FarewellOnce'
      <3> SUFFICES ASSUME NEW r \in Sockets
                   PROVE  farewells'[r] = IF /\ ready'[r] # "fresh" /\ ~Connected(r)'
                                             /\ r \notin superseded'
                                            THEN 1 ELSE 0
        BY DEF FarewellOnce
      <3>1. /\ farewells[r] = IF ready[r] # "fresh" /\ ~Connected(r) /\ r \notin superseded
                                THEN 1 ELSE 0
            /\ Connected(r) => r \notin superseded
        BY DEF FarewellOnce, IndexesAgree
      <3>2. farewells'[r] = IF r = s THEN farewells[r] + 1 ELSE farewells[r]
        BY <2>2 DEF TypeOK
      <3> QED
        BY <1>2, <1>3, <2>1, <2>6, <3>1, <3>2
    <2>12. SubscribersAreConnected'
      <3> SUFFICES ASSUME late = 0
                   PROVE  /\ \A r \in serviceConnections' : Connected(r)'
                          /\ \A e \in Devices : roomSockets'[e] \in {None, deviceSockets'[e]}
        BY <1>2 DEF SubscribersAreConnected
      <3>1. \A r \in serviceConnections' : Connected(r)'
        BY <2>2, <2>6 DEF Unsubscribe, SubscribersAreConnected, TypeOK
      <3>2. \A e \in Devices : deviceSockets[e] = s => e = DeviceOf[s]
        BY Ownership DEF IndexesAgree
      <3>3. \A e \in Devices : roomSockets'[e] \in {None, deviceSockets'[e]}
        BY <2>2, <3>2 DEF Unsubscribe, DevicesOf, SubscribersAreConnected
      <3> QED
        BY <3>1, <3>3
    <2>13. RegistrationsAgree'
      <3>1. /\ registered' = registered /\ serviceConnections' = serviceConnections \ {s}
            /\ (serviceConnections \subseteq registered)'
            /\ (serviceDeviceIndex = DevicesOf(serviceConnections))'
        BY <2>2, UnsubscribeExact
      <3>2. \A r \in registered : Connected(r)' => r \in serviceConnections'
        BY <2>6, <3>1 DEF TypeOK, RegistrationsAgree
      <3>3. \A r \in Sockets : ready'[r] = "fresh" => r \notin registered /\ chain'[r] = <<>>
        BY <1>2, <1>3 DEF RegistrationsAgree
      <3> QED
        BY <3>1, <3>2, <3>3 DEF RegistrationsAgree
    <2> QED
      BY <1>4, <2>7, <2>8, <2>9, <2>10, <2>11, <2>12, <2>13
  <1> QED
    BY <1>5, <1>6

\* A frame that begins to wait changes no index.
LEMMA ReceiveStep ==
    ASSUME IInv, NEW s \in Sockets, NEW frame \in Frames, Receive(s, frame)
    PROVE  IInv'
  <1> USE DEF IInv
  <1>1. chain' \in [Sockets -> Seq(Frames)]
    BY DEF Receive, TypeOK
  <1>2. /\ UNCHANGED <<connections, outside>>
        /\ received' = received + 1 /\ late' = late
        /\ roomSockets' = roomSockets /\ registered' = registered
        /\ serviceConnections' = serviceConnections /\ serviceDeviceIndex' = serviceDeviceIndex
    BY DEF Receive, subscriptions
  <1>3. TypeOK'
    BY <1>1, <1>2 DEF TypeOK, connections, outside
  <1>4. SubscribersAreConnected'
    BY <1>2, ConnectionsKept DEF SubscribersAreConnected, TypeOK, connections
  <1>5. RegistrationsAgree'
    <2>1. \A r \in Sockets : ready'[r] = "fresh" => ready[r] = "fresh" /\ chain'[r] = chain[r]
      BY <1>2 DEF Receive, connections, TypeOK
    <2> QED
      BY <1>2, <2>1, ConnectionsKept DEF RegistrationsAgree, DevicesOf, TypeOK
  <1> QED
    BY <1>2, <1>3, <1>4, <1>5, ConnectionsKept

\* A frame handler's turn leaves the connections alone, and counts as late if
\* its socket is gone.
LEMMA HandleKept ==
    ASSUME TypeOK, NEW s \in Sockets, NEW frame \in Frames, Handle(s, frame)
    PROVE  /\ chain' \in [Sockets -> Seq(Frames)] /\ {received', late'} \subseteq Nat
           /\ late' = 0 => late = 0 /\ Connected(s)
           /\ UNCHANGED <<connections, outside>>
           /\ chain[s] # <<>> /\ \A r \in Sockets \ {s} : chain'[r] = chain[r]
  <1>1. chain[s] \in Seq(Frames) /\ chain[s] # <<>>
    BY DEF Handle, TypeOK
  <1>2. Tail(chain[s]) \in Seq(Frames)
    BY <1>1
  <1>3. chain' \in [Sockets -> Seq(Frames)]
    BY <1>2 DEF Handle, TypeOK
  <1>4. {received', late'} \subseteq Nat /\ (late' = 0 => late = 0 /\ Connected(s))
    BY DEF Handle, TypeOK
  <1> QED
    BY <1>1, <1>3, <1>4 DEF Handle, TypeOK

\* A register frame, in time or late.
LEMMA HandleRegisterStep ==
    ASSUME IInv, NEW s \in Sockets, HandleRegister(s)
    PROVE  IInv'
  <1> USE DEF IInv
  <1>1. /\ chain' \in [Sockets -> Seq(Frames)] /\ {received', late'} \subseteq Nat
        /\ late' = 0 => late = 0 /\ Connected(s)
        /\ UNCHANGED <<connections, outside>>
        /\ chain[s] # <<>> /\ \A r \in Sockets \ {s} : chain'[r] = chain[r]
    BY HandleKept DEF HandleRegister, Frames
  <1>2. roomSockets' = roomSockets /\ registered' = registered \union {s}
    BY DEF HandleRegister
  <1>3. \/ /\ serviceConnections' = serviceConnections
           /\ serviceDeviceIndex' = serviceDeviceIndex
        \/ /\ serviceConnections' = serviceConnections \union {s}
           /\ serviceDeviceIndex' = serviceDeviceIndex \union {DeviceOf[s]}
    BY DEF HandleRegister
  <1>4. TypeOK'
    BY <1>1, <1>2, <1>3, Owned DEF TypeOK, connections, outside
  <1>5. SubscribersAreConnected'
    BY <1>1, <1>2, <1>3, ConnectionsKept DEF SubscribersAreConnected, TypeOK, connections
  <1>6. RegistrationsAgree'
    <2>1. (serviceDeviceIndex = DevicesOf(serviceConnections))'
      BY <1>3 DEF RegistrationsAgree, DevicesOf
    <2>2. /\ (serviceConnections \subseteq registered)'
          /\ \A r \in registered' : Connected(r) => r \in serviceConnections'
      BY <1>2 DEF HandleRegister, RegistrationsAgree
    <2>3. \A r \in registered' : Connected(r)' <=> Connected(r)
      BY <1>1, <1>2, ConnectionsKept DEF TypeOK
    <2>4. \A r \in Sockets : ready'[r] = "fresh" => r \notin registered' /\ chain'[r] = <<>>
      BY <1>1, <1>2 DEF RegistrationsAgree, connections
    <2> QED
      BY <2>1, <2>2, <2>3, <2>4 DEF RegistrationsAgree
  <1> QED
    BY <1>1, <1>4, <1>5, <1>6, ConnectionsKept

\* A join or leave frame, in time or late.
LEMMA HandleRoomStep ==
    ASSUME IInv, NEW s \in Sockets, HandleJoinRoom(s) \/ HandleLeaveRoom(s)
    PROVE  IInv'
  <1> USE DEF IInv
  <1>1. /\ chain' \in [Sockets -> Seq(Frames)] /\ {received', late'} \subseteq Nat
        /\ late' = 0 => late = 0 /\ Connected(s)
        /\ UNCHANGED <<connections, outside>>
        /\ chain[s] # <<>> /\ \A r \in Sockets \ {s} : chain'[r] = chain[r]
    BY HandleKept DEF HandleJoinRoom, HandleLeaveRoom, Frames
  <1>2. /\ registered' = registered /\ serviceConnections' = serviceConnections
        /\ serviceDeviceIndex' = serviceDeviceIndex
        /\ \/ roomSockets' = [roomSockets EXCEPT ![DeviceOf[s]] = s]
           \/ roomSockets' = [roomSockets EXCEPT ![DeviceOf[s]] = None]
    BY DEF HandleJoinRoom, HandleLeaveRoom
  <1>3. TypeOK'
    BY <1>1, <1>2 DEF TypeOK, connections, outside
  <1>4. SubscribersAreConnected'
    <2> SUFFICES ASSUME late' = 0
                 PROVE  /\ \A r \in serviceConnections' : Connected(r)'
                        /\ \A e \in Devices : roomSockets'[e] \in {None, deviceSockets'[e]}
      BY DEF SubscribersAreConnected
    <2>1. late = 0 /\ Connected(s) /\ deviceSockets' = deviceSockets
      BY <1>1 DEF connections
    <2>2. \A r \in serviceConnections' : Connected(r)'
      BY <1>1, <1>2, <2>1, ConnectionsKept DEF SubscribersAreConnected, TypeOK
    <2>3. deviceSockets[DeviceOf[s]] = s
      BY <2>1 DEF IndexesAgree
    <2>4. \A e \in Devices : roomSockets'[e] \in {None, deviceSockets'[e]}
      BY <1>2, <2>1, <2>3 DEF SubscribersAreConnected, TypeOK
    <2> QED
      BY <2>2, <2>4
  <1>5. RegistrationsAgree'
    <2>1. \A r \in Sockets : ready'[r] = "fresh" => ready[r] = "fresh" /\ chain'[r] = <<>>
      BY <1>1 DEF RegistrationsAgree, connections
    <2> QED
      BY <1>1, <1>2, <2>1, ConnectionsKept DEF RegistrationsAgree, DevicesOf, TypeOK
  <1> QED
    BY <1>1, <1>3, <1>4, <1>5, ConnectionsKept

\* The invariant is inductive.
LEMMA StepInv == IInv /\ [Next]_vars => IInv'
  <1> SUFFICES ASSUME IInv, [Next]_vars PROVE IInv'
    OBVIOUS
  <1>1. ASSUME NEW s \in Sockets, Connect(s) PROVE IInv'
    BY <1>1, ConnectStep
  <1>2. ASSUME NEW s \in Sockets, Close(s) PROVE IInv'
    BY <1>2, CloseStep
  <1>3. ASSUME NEW s \in Sockets, CloseEvent(s) PROVE IInv'
    BY <1>3, CloseEventStep
  <1>4. ASSUME NEW s \in Sockets, NEW frame \in Frames, Receive(s, frame) PROVE IInv'
    BY <1>4, ReceiveStep
  <1>5. ASSUME NEW s \in Sockets, HandleRegister(s) PROVE IInv'
    BY <1>5, HandleRegisterStep
  <1>6. ASSUME NEW s \in Sockets, HandleJoinRoom(s) \/ HandleLeaveRoom(s) PROVE IInv'
    BY <1>6, HandleRoomStep
  <1>7. ASSUME UNCHANGED vars PROVE IInv'
    <2>1. /\ UNCHANGED <<connections, outside>>
          /\ UNCHANGED <<roomSockets, registered, serviceConnections, serviceDeviceIndex>>
          /\ chain' = chain /\ received' = received /\ late' = late
      BY <1>7 DEF vars, connections, outside, frames
    <2>2. TypeOK'
      BY <2>1 DEF IInv, TypeOK, connections, outside
    <2>3. SubscribersAreConnected'
      BY <2>1, ConnectionsKept DEF IInv, SubscribersAreConnected, TypeOK, connections
    <2>4. RegistrationsAgree'
      BY <2>1, ConnectionsKept DEF IInv, RegistrationsAgree, DevicesOf, TypeOK, connections
    <2> QED
      BY <2>1, <2>2, <2>3, <2>4, ConnectionsKept DEF IInv
  <1> QED
    BY <1>1, <1>2, <1>3, <1>4, <1>5, <1>6, <1>7 DEF Next

\* The connection indexes of the gateway agree in every reachable state.
THEOREM Invariance == Spec => []IInv
  BY InitInv, StepInv, PTL DEF Spec

\* cleanupSocket and handleOnline count every socket once: presence has no
\* ghosts, and what was broadcast of a user is so.
THEOREM PresenceIsExact == Spec => [](NoPresenceGhost /\ AnnouncedIsOnline)
  <1>1. IInv => NoPresenceGhost /\ AnnouncedIsOnline
    BY DEF IInv
  <1> QED
    BY <1>1, Invariance, PTL

\* The disconnect handlers have run exactly once for a socket that is gone because it
\* closed or was evicted, and not at all for one its own device replaced or one that
\* still counts.
THEOREM DisconnectHandlersRunOnce == Spec => []FarewellOnce
  <1>1. IInv => FarewellOnce
    BY DEF IInv
  <1> QED
    BY <1>1, Invariance, PTL

\* Rooms and services lead to counted sockets as long as no frame of a cleaned
\* up socket was handled; hasServiceConnection says yes of every device that has a
\* registered connection, and as long as no such frame was handled of no other.
THEOREM SubscriptionsFollowSockets == Spec => [](SubscribersAreConnected /\ ServiceIndexIsExact)
  <1>1. IInv => SubscribersAreConnected /\ ServiceIndexIsExact
    <2> SUFFICES ASSUME IInv PROVE ServiceIndexIsExact
      BY DEF IInv
    <2> DEFINE served == {s \in registered : Connected(s)}
    <2>1. served \subseteq serviceConnections /\ serviceDeviceIndex = DevicesOf(serviceConnections)
      BY DEF IInv, RegistrationsAgree
    <2>2. late = 0 => served = serviceConnections
      BY <2>1 DEF IInv, SubscribersAreConnected, RegistrationsAgree
    <2>3. DevicesOf(served) \subseteq DevicesOf(serviceConnections)
      BY <2>1 DEF DevicesOf
    <2> HIDE DEF served
    <2>4. DevicesOf(served) \subseteq serviceDeviceIndex
          /\ (late = 0 => serviceDeviceIndex = DevicesOf(served))
      BY <2>1, <2>2, <2>3
    <2> QED
      BY <2>4 DEF ServiceIndexIsExact, served
  <1> QED
    BY <1>1, Invariance, PTL

-----------------------------------------------------------------------------
(* Presence is implemented.                                                *)

\* The connections that count for a user are those the gateway has in its index.
LEMMA MineIsIndexed ==
    ASSUME IInv
    PROVE  /\ \A u \in Users : Promise!Mine(u) = userSockets[u]
           /\ \A s \in Sockets : Promise!Owner(s) = UserOf(s)
           /\ Counted \subseteq Sockets
  <1>1. \A s \in Sockets : Promise!Owner(s) = UserOf(s)
    BY DEF Promise!Owner, UserOf
  <1>2. ASSUME NEW u \in Users PROVE Promise!Mine(u) = userSockets[u]
    <2>1. \A s \in userSockets[u] : s \in Sockets /\ UserOf(s) = u /\ Connected(s)
      BY DEF IInv, TypeOK, IndexesAgree, Connected
    <2>2. \A s \in Sockets : Connected(s) /\ UserOf(s) = u => s \in userSockets[u]
      BY DEF Connected
    <2>3. Promise!Mine(u) = {s \in Counted : UserOf(s) = u}
      BY <1>1 DEF Promise!Mine, Counted
    <2> QED
      BY <2>1, <2>2, <2>3 DEF Counted
  <1> QED
    BY <1>1, <1>2 DEF Counted

\* A counted connection was neither seen off nor replaced, and one yet to come
\* is none of the three.
LEMMA CountedIsThere ==
    ASSUME IInv, NEW s \in Sockets
    PROVE  /\ Connected(s) => farewells[s] = 0 /\ s \notin superseded
           /\ ready[s] = "fresh" => Promise!New(s)
  <1>1. farewells[s] \in Nat
    BY DEF IInv, TypeOK
  <1>2. Connected(s) => farewells[s] = 0 /\ s \notin superseded
    BY <1>1 DEF IInv, FarewellOnce, IndexesAgree
  <1>3. ASSUME ready[s] = "fresh" PROVE s \notin Counted \union SeenOff \union superseded
    <2>1. ~Connected(s) /\ farewells[s] = 0 /\ s \notin superseded
      BY <1>3 DEF IInv, IndexesAgree, FarewellOnce
    <2> QED
      BY <2>1 DEF Counted, SeenOff
  <1> QED
    BY <1>2, <1>3 DEF Promise!New

\* Whom a connection counts, sees off and replaces.
LEMMA ConnectMoves ==
    ASSUME IInv, IInv', NEW s \in Sockets, Connect(s), Gone(s) \subseteq userSockets[UserOf(s)],
           Replaced(s) \intersect Evicted(s) = {}, s \notin Gone(s)
    PROVE  /\ Counted' = (Counted \union {s}) \ Gone(s)
           /\ SeenOff' = SeenOff \union Evicted(s)
           /\ superseded' = superseded \union Replaced(s)
           /\ announced' = announced \union {UserOf(s)}
  <1>0. UserOf(s) \in Users
    BY Owned
  <1>1. userSockets' = [userSockets EXCEPT ![UserOf(s)] =
                            (userSockets[UserOf(s)] \union {s}) \ Gone(s)]
    BY DEF Connect, Gone
  <1>2. /\ userSockets'[UserOf(s)] = (userSockets[UserOf(s)] \union {s}) \ Gone(s)
        /\ \A v \in Users \ {UserOf(s)} : userSockets'[v] = userSockets[v]
    BY <1>0, <1>1 DEF IInv, TypeOK
  <1>3. \A r \in Gone(s) : r \in Sockets /\ UserOf(r) = UserOf(s) /\ Connected(r)
    BY <1>0 DEF IInv, TypeOK, IndexesAgree, Connected
  <1>4. \A r \in Sockets : Connected(r)' <=> (Connected(r) \/ r = s) /\ r \notin Gone(s)
    <2>1. ASSUME NEW r \in Sockets, UserOf(r) = UserOf(s)
          PROVE  Connected(r)' <=> (Connected(r) \/ r = s) /\ r \notin Gone(s)
      BY <1>2, <2>1 DEF Connected, UserOf
    <2>2. ASSUME NEW r \in Sockets, UserOf(r) # UserOf(s)
          PROVE  Connected(r)' <=> (Connected(r) \/ r = s) /\ r \notin Gone(s)
      BY <1>2, <1>3, <2>2, Owned DEF Connected, UserOf
    <2> QED
      BY <2>1, <2>2
  <1>5. Counted' = (Counted \union {s}) \ Gone(s)
    BY <1>4 DEF Counted
  <1>6. /\ \A t \in Sockets :
              farewells'[t] = IF t \in Evicted(s) THEN farewells[t] + 1 ELSE farewells[t]
        /\ superseded' = superseded \union Replaced(s)
        /\ \A t \in Sockets : farewells[t] \in Nat
    BY DEF Connect, Gone, IInv, TypeOK
  <1>8. Gone(s) = Replaced(s) \union Evicted(s)
    BY DEF Gone
  <1>9. SeenOff' = SeenOff \union Evicted(s)
    BY <1>3, <1>6, <1>8 DEF SeenOff
  <1>10. superseded' = superseded \union Replaced(s)
    BY <1>6
  <1>11. announced' = announced \union {UserOf(s)}
    <2>1. /\ announced = {v \in Users : userSockets[v] # {}}
          /\ announced' = {v \in Users : userSockets'[v] # {}}
      BY DEF IInv, AnnouncedIsOnline
    <2>2. s \in userSockets'[UserOf(s)]
      BY <1>2
    <2> QED
      BY <1>0, <1>2, <2>1, <2>2
  <1> QED
    BY <1>5, <1>9, <1>10, <1>11

\* A connection is an arrival, takes over from its device, or crowds one out.
LEMMA ConnectPromised ==
    ASSUME IInv, IInv', NEW s \in Sockets, Connect(s) PROVE Promise!Step
  <1> DEFINE u == UserOf(s)
             S == userSockets[u]
  <1>1. DeviceOf[s] \in Devices /\ u \in Users /\ ready[s] = "fresh" /\ Promise!New(s)
    BY Owned, CountedIsThere DEF Connect
  <1>2. /\ s \notin S
        /\ \/ /\ Gone(s) = {} /\ Replaced(s) = {} /\ Evicted(s) = {}
              /\ deviceSockets[DeviceOf[s]] = None
              /\ Cardinality(S) < MaxSockets
           \/ \E t \in S :
                 /\ Gone(s) = {t}
                 /\ \/ Replaced(s) = {t} /\ Evicted(s) = {} /\ deviceSockets[DeviceOf[s]] = t
                    \/ Replaced(s) = {} /\ Evicted(s) = {t} /\ deviceSockets[DeviceOf[s]] = None
    BY <1>1, OneIsGone DEF IInv
  <1>3. /\ Gone(s) \subseteq userSockets[UserOf(s)]
        /\ Replaced(s) \intersect Evicted(s) = {} /\ s \notin Gone(s)
    BY <1>2
  <1>4. /\ Counted' = (Counted \union {s}) \ Gone(s)
        /\ SeenOff' = SeenOff \union Evicted(s)
        /\ superseded' = superseded \union Replaced(s)
        /\ announced' = announced \union {u}
    BY <1>3, ConnectMoves
  <1>5. Promise!Mine(Promise!Owner(s)) = S /\ Promise!Owner(s) = u
    BY <1>1, MineIsIndexed
  <1>6. S \subseteq Sockets /\ IsFiniteSet(S) /\ Cardinality(S) \in Nat
    BY <1>1, Ownership, FS_Subset, FS_CardinalityType DEF IInv, TypeOK
  <1>7. S # {} => announced' = announced
    BY <1>1, <1>4 DEF IInv, AnnouncedIsOnline
  <1>8. deviceSockets[DeviceOf[s]] = None => Promise!Elsewhere(s)
    BY Ownership DEF Promise!Elsewhere, Counted, IInv, IndexesAgree
  <1>9. \A t \in S : t \in Counted
    BY <1>1, <1>5 DEF Promise!Mine
  <1>10. CASE Gone(s) = {}
    <2>1. Replaced(s) = {} /\ Evicted(s) = {} /\ Cardinality(S) < MaxSockets
          /\ deviceSockets[DeviceOf[s]] = None
      BY <1>2, <1>10
    <2>2. /\ Promise!Elsewhere(s)
          /\ Counted' = Counted \union {s} /\ SeenOff' = SeenOff /\ superseded' = superseded
          /\ announced' = announced \union {Promise!Owner(s)}
          /\ Promise!Mine(Promise!Owner(s)) \union {s} \in Allowance
      <3>1. Promise!Elsewhere(s)
        BY <1>8, <2>1
      <3>2. S \union {s} \in Allowance
        <4>1. Cardinality(S \union {s}) = Cardinality(S) + 1
          BY <1>2, <1>6, FS_AddElement
        <4>2. Cardinality(S \union {s}) <= MaxSockets
          BY <1>6, <2>1, <4>1, SocketLimits
        <4> QED
          BY <1>6, <4>2 DEF Allowance
      <3> QED
        BY <1>4, <1>5, <1>10, <2>1, <3>1, <3>2
    <2>3. Promise!Arrive(s)
      BY <1>1, <2>2 DEF Promise!Arrive
    <2> QED
      BY <2>3 DEF Promise!Step
  <1>11. ASSUME NEW t \in S, Gone(s) = {t}, Replaced(s) = {t}, Evicted(s) = {},
                deviceSockets[DeviceOf[s]] = t
         PROVE  Promise!Step
    <2>1. t \in Sockets /\ DeviceOf[t] = DeviceOf[s]
      BY <1>1, <1>6, <1>11, Ownership DEF IInv, IndexesAgree
    <2>2. Promise!TakeOver(s, t)
      BY <1>1, <1>4, <1>7, <1>9, <1>11, <2>1 DEF Promise!TakeOver
    <2> QED
      BY <2>1, <2>2 DEF Promise!Step
  <1>12. ASSUME NEW t \in S, Gone(s) = {t}, Replaced(s) = {}, Evicted(s) = {t},
                deviceSockets[DeviceOf[s]] = None
         PROVE  Promise!Step
    <2>1. Cardinality(Joined(s)) > MaxSockets
      BY <1>12 DEF Evicted
    <2>2. Joined(s) = S \union {s}
      BY <1>6, <1>12, Ownership DEF Joined
    <2>3. Cardinality(S \union {s}) = Cardinality(S) + 1
      BY <1>2, <1>6, FS_AddElement
    <2>4. Cardinality((S \union {s}) \ {t}) = Cardinality(S)
      <3>1. IsFiniteSet(S \union {s}) /\ t \in S \union {s}
        BY <1>6, FS_AddElement
      <3>2. Cardinality((S \union {s}) \ {t}) = Cardinality(S \union {s}) - 1
        BY <3>1, FS_RemoveElement
      <3> QED
        BY <1>6, <2>3, <3>2
    <2>5. Promise!Elsewhere(s)
      BY <1>8, <1>12
    <2>6. /\ t \in Promise!Mine(Promise!Owner(s))
          /\ Promise!Mine(Promise!Owner(s)) \union {s} \notin Allowance
          /\ (Promise!Mine(Promise!Owner(s)) \union {s}) \ {t} \in Allowance
          /\ Counted' = (Counted \union {s}) \ {t}
          /\ SeenOff' = SeenOff \union {t} /\ superseded' = superseded
          /\ announced' = announced
      <3>1. announced' = announced
        BY <1>7, <1>12
      <3>2. S \union {s} \notin Allowance
        BY <1>6, <2>1, <2>2, <2>3, SocketLimits DEF Allowance
      <3>3. (S \union {s}) \ {t} \in Allowance
        BY <1>1, <1>6, <2>4 DEF Allowance, IInv, SocketsAreCapped
      <3> QED
        BY <1>4, <1>5, <1>12, <3>1, <3>2, <3>3
    <2>7. Promise!Crowd(s, t)
      BY <1>1, <2>5, <2>6 DEF Promise!Crowd
    <2> QED
      BY <1>6, <2>7 DEF Promise!Step
  <1> QED
    BY <1>2, <1>10, <1>11, <1>12

\* The close event of a counted connection is its leave, of another one nothing.
LEMMA CloseEventPromised ==
    ASSUME IInv, IInv', NEW s \in Sockets, CloseEvent(s)
    PROVE  Promise!Step \/ UNCHANGED <<userSockets, superseded, farewells, announced>>
  <1>1. CASE s \in detached
    BY <1>1 DEF CloseEvent, outside
  <1>2. CASE s \notin detached
    <2> DEFINE u == UserOf(s)
               S == userSockets[u]
    <2>1. u \in Users /\ Connected(s) /\ s \in S
      BY <1>2, Owned DEF CloseEvent, IInv, IndexesAgree, Connected
    <2>2. /\ userSockets' = [userSockets EXCEPT ![u] = S \ {s}]
          /\ farewells' = [farewells EXCEPT ![s] = @ + 1]
          /\ superseded' = superseded
      BY <1>2 DEF CloseEvent
    <2>3. userSockets'[u] = S \ {s} /\ \A v \in Users \ {u} : userSockets'[v] = userSockets[v]
      BY <2>1, <2>2 DEF IInv, TypeOK
    <2>4. \A r \in Sockets : Connected(r)' <=> Connected(r) /\ r # s
      <3>1. ASSUME NEW r \in Sockets, UserOf(r) = u PROVE Connected(r)' <=> Connected(r) /\ r # s
        BY <2>3, <3>1 DEF Connected, UserOf
      <3>2. ASSUME NEW r \in Sockets, UserOf(r) # u PROVE Connected(r)' <=> Connected(r) /\ r # s
        BY <2>3, <3>2, Owned DEF Connected, UserOf
      <3> QED
        BY <3>1, <3>2
    <2>5. Counted' = Counted \ {s} /\ s \in Counted
      BY <2>1, <2>4 DEF Counted
    <2>6. \A t \in Sockets : /\ farewells[t] \in Nat
                             /\ farewells'[t] = IF t = s THEN farewells[t] + 1 ELSE farewells[t]
      BY <2>2 DEF IInv, TypeOK
    <2>7. SeenOff' = SeenOff \union {s}
      BY <2>6 DEF SeenOff
    <2>8. superseded' = superseded
      BY <2>2
    <2>9. announced' = IF S = {s} THEN announced \ {u} ELSE announced
      <3>1. /\ announced = {v \in Users : userSockets[v] # {}}
            /\ announced' = {v \in Users : userSockets'[v] # {}}
        BY DEF IInv, AnnouncedIsOnline
      <3> QED
        BY <2>1, <2>3, <3>1
    <2>10. Promise!Mine(Promise!Owner(s)) = S /\ Promise!Owner(s) = u
      BY <2>1, MineIsIndexed
    <2>11. Promise!Leave(s)
      BY <2>5, <2>7, <2>8, <2>9, <2>10 DEF Promise!Leave
    <2> QED
      BY <2>11 DEF Promise!Step
  <1> QED
    BY <1>1, <1>2

\* Connections arrive and leave as promised; closing and frames are not seen.
LEMMA PresenceStep == IInv /\ IInv' /\ [Next]_vars => [Promise!Step]_(Promise!presence)
  <1> SUFFICES ASSUME IInv, IInv', [Next]_vars PROVE [Promise!Step]_(Promise!presence)
    OBVIOUS
  <1>1. CASE UNCHANGED <<userSockets, superseded, farewells, announced>>
    BY <1>1 DEF Promise!presence, Counted, Connected, UserOf, SeenOff
  <1>2. ASSUME NEW s \in Sockets, Connect(s) PROVE Promise!Step
    BY <1>2, ConnectPromised
  <1>3. ASSUME NEW s \in Sockets, CloseEvent(s) PROVE [Promise!Step]_(Promise!presence)
    BY <1>1, <1>3, CloseEventPromised
  <1>4. CASE \E s \in Sockets : Close(s) \/ \E frame \in Frames : Receive(s, frame)
    BY <1>1, <1>4 DEF Close, Receive, connections, outside
  <1>5. CASE \E s \in Sockets : HandleRegister(s) \/ HandleJoinRoom(s) \/ HandleLeaveRoom(s)
    BY <1>1, <1>5 DEF HandleRegister, HandleJoinRoom, HandleLeaveRoom, Handle, connections, outside
  <1>6. CASE UNCHANGED vars
    BY <1>1, <1>6 DEF vars
  <1> QED
    BY <1>2, <1>3, <1>4, <1>5, <1>6 DEF Next

\* For any sockets, devices, users and limit: what the gateway broadcasts and whom
\* it sees off is what Presence promises.
THEOREM Refinement == Spec => ImplementsPresence
  <1>1. Init => Promise!Start
    BY Owned DEF Init, Promise!Start, Counted, Connected, SeenOff
  <1>2. IInv /\ IInv' /\ [Next]_vars => [Promise!Step]_(Promise!presence)
    BY PresenceStep
  <1> QED
    BY <1>1, <1>2, Invariance, PTL DEF Spec, ImplementsPresence, Promise!Behaviour
=============================================================================
