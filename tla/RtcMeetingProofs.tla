-------------------------- MODULE RtcMeetingProofs --------------------------
(***************************************************************************)
(* The safety of a meeting for any users, cap, handlers and faults.        *)
(***************************************************************************)
EXTENDS RtcMeeting, FiniteSetTheorems, TLAPS

\* What a step does to its own handler, and that it leaves the others alone.
LEMMA BeginHandler ==
    ASSUME TypeOK, NEW h \in Handlers, NEW pc \in Steps, NEW u \in Users,
           NEW reason \in {"ended", "tier_limit"}, Begin(h, pc, u, reason)
    PROVE  /\ handler' \in [Handlers -> Handler]
           /\ handler[h].pc = "idle"
           /\ handler'[h].pc = pc /\ handler'[h].user = u /\ handler'[h].named = named
           /\ \A g \in Handlers \ {h} : handler'[g] = handler[g]
  <1>1. [pc |-> pc, user |-> u, named |-> named, reason |-> reason] \in Handler
    BY DEF TypeOK, Handler
  <1> QED
    BY <1>1 DEF Begin, At, TypeOK

\* A handler that goes on keeps what it carries, and its type.
LEMMA GoHandler ==
    ASSUME TypeOK, NEW h \in Handlers, NEW pc \in Steps, Go(h, pc)
    PROVE  /\ handler' \in [Handlers -> Handler]
           /\ handler'[h].pc = pc /\ handler'[h].user = handler[h].user
           /\ handler'[h].named = handler[h].named
           /\ \A g \in Handlers \ {h} : handler'[g] = handler[g]
  BY DEF Go, TypeOK, Handler

\* A handler that returns is idle, and well typed.
LEMMA ReturnHandler ==
    ASSUME TypeOK, NEW h \in Handlers, Return(h)
    PROVE  /\ handler' \in [Handlers -> Handler]
           /\ handler'[h].pc = "idle"
           /\ \A g \in Handlers \ {h} : handler'[g] = handler[g]
  <1>1. Idle \in Handler /\ Idle.pc = "idle"
    BY HostTakesPart DEF Idle, Handler, Steps
  <1> QED
    BY <1>1 DEF Return, TypeOK

\* The webhooks the actions send are webhooks.
LEMMA HookTypes ==
    /\ \A u \in Users : UserHook("joined", u) \in Hook /\ UserHook("left", u) \in Hook
    /\ RoomHook("started") \in Hook /\ RoomHook("finished") \in Hook
  BY HostTakesPart DEF Hook, UserHook, RoomHook

\* Every step keeps the types.
LEMMA TypeStep == ASSUME TypeOK, [Next]_vars PROVE TypeOK'
  <1>1. ASSUME NEW h \in Handlers, CreateMeeting(h) PROVE TypeOK'
    BY <1>1, BeginHandler, HostTakesPart DEF CreateMeeting, TypeOK, rows, seats, liveKit, bans,
       Handler, Steps
  <1>2. ASSUME NEW h \in Handlers, CreateRoom(h) PROVE TypeOK'
    BY <1>2, GoHandler, HookTypes DEF CreateRoom, TypeOK, rows, seats, liveKit, bans, Handler,
       Steps
  <1>3. ASSUME NEW h \in Handlers, Activate(h) PROVE TypeOK'
    BY <1>3, ReturnHandler DEF Activate, TypeOK, rows, seats, liveKit, bans, Handler, Steps
  <1>4. ASSUME NEW h \in Handlers, NEW u \in Users, Join(h, u) PROVE TypeOK'
    BY <1>4, BeginHandler DEF Join, TypeOK, rows, seats, liveKit, bans, Handler, Steps
  <1>5. ASSUME NEW h \in Handlers, CheckRemoved(h) PROVE TypeOK'
    BY <1>5, GoHandler, ReturnHandler DEF CheckRemoved, TypeOK, rows, seats, liveKit, bans,
       Handler, Steps
  <1>6. ASSUME NEW h \in Handlers, Sit(h) PROVE TypeOK'
    BY <1>6, GoHandler, ReturnHandler DEF Sit, TypeOK, rows, seats, liveKit, bans, Handler,
       Steps
  <1>7. ASSUME NEW h \in Handlers, Mint(h) PROVE TypeOK'
    BY <1>7, ReturnHandler DEF Mint, TypeOK, rows, seats, liveKit, bans, Handler, Steps
  <1>8. ASSUME NEW u \in Users, Leave(u) PROVE TypeOK'
    BY <1>8 DEF Leave, Unseat, TypeOK, rows, seats, liveKit, bans, Handler, Steps
  <1>9. ASSUME NEW h \in Handlers, NEW u \in Users, Remove(h, u) PROVE TypeOK'
    BY <1>9, BeginHandler DEF Remove, TypeOK, rows, seats, liveKit, bans, Handler, Steps
  <1>10. ASSUME NEW h \in Handlers, Ban(h) PROVE TypeOK'
    BY <1>10, GoHandler DEF Ban, TypeOK, rows, seats, liveKit, bans, Handler, Steps
  <1>11. ASSUME NEW h \in Handlers, Kick(h) PROVE TypeOK'
    BY <1>11, GoHandler, HookTypes DEF Kick, Disconnect, TypeOK, rows, seats, liveKit, bans,
       Handler, Steps
  <1>12. ASSUME NEW h \in Handlers, KickMissesUser(h) PROVE TypeOK'
    BY <1>12, ReturnHandler DEF KickMissesUser, TypeOK, rows, seats, liveKit, bans, Handler,
       Steps
  <1>13. ASSUME NEW h \in Handlers, UnseatRemoved(h) PROVE TypeOK'
    BY <1>13, ReturnHandler DEF UnseatRemoved, Unseat, TypeOK, rows, seats, liveKit, bans,
       Handler, Steps
  <1>14. ASSUME RoomStarted PROVE TypeOK'
    BY <1>14 DEF RoomStarted, Takes, TypeOK, rows, seats, liveKit, bans, Handler, Steps
  <1>15. ASSUME NEW u \in Users, ParticipantLeft(u) PROVE TypeOK'
    BY <1>15 DEF ParticipantLeft, Unseat, Takes, TypeOK, rows, seats, liveKit, bans, Handler,
       Steps
  <1>16. ASSUME NEW h \in Handlers, NEW u \in Users, ParticipantJoined(h, u) PROVE TypeOK'
    BY <1>16, BeginHandler DEF ParticipantJoined, Takes, TypeOK, rows, seats, liveKit, bans,
       Handler, Steps
  <1>17. ASSUME NEW h \in Handlers, IsRemoved(h) PROVE TypeOK'
    BY <1>17, GoHandler DEF IsRemoved, TypeOK, rows, seats, liveKit, bans, Handler, Steps
  <1>18. ASSUME NEW h \in Handlers, KickAgain(h) PROVE TypeOK'
    BY <1>18, ReturnHandler, HookTypes DEF KickAgain, Disconnect, TypeOK, rows, seats, liveKit,
       bans, Handler, Steps
  <1>19. ASSUME NEW h \in Handlers, SitAgain(h) PROVE TypeOK'
    BY <1>19, ReturnHandler DEF SitAgain, TypeOK, rows, seats, liveKit, bans, Handler, Steps
  <1>20. ASSUME NEW h \in Handlers, RoomFinished(h) PROVE TypeOK'
    BY <1>20, BeginHandler, HostTakesPart DEF RoomFinished, Takes, TypeOK, rows, seats, liveKit,
       bans, Handler, Steps
  <1>21. ASSUME NEW hook \in hooks, HookLost(hook) PROVE TypeOK'
    BY <1>21, FaultBound DEF HookLost, Takes, Fault, TypeOK, rows, seats, liveKit, bans,
       Handler, Steps
  <1>22. ASSUME NEW h \in Handlers, EndMeeting(h) PROVE TypeOK'
    BY <1>22, BeginHandler, HostTakesPart DEF EndMeeting, TypeOK, rows, seats, liveKit, bans,
       Handler, Steps
  <1>23. ASSUME NEW h \in Handlers, Sweep(h) PROVE TypeOK'
    BY <1>23, BeginHandler, HostTakesPart DEF Sweep, TypeOK, rows, seats, liveKit, bans,
       Handler, Steps
  <1>24. ASSUME NEW h \in Handlers, ForceEnd(h) PROVE TypeOK'
    BY <1>24, ReturnHandler DEF ForceEnd, TypeOK, rows, seats, liveKit, bans, Handler, Steps
  <1>25. ASSUME NEW h \in Handlers, Finish(h) PROVE TypeOK'
    BY <1>25, GoHandler DEF Finish, TypeOK, rows, seats, liveKit, bans, Handler, Steps
  <1>26. ASSUME NEW h \in Handlers, DeleteRoom(h) PROVE TypeOK'
    BY <1>26, GoHandler, HookTypes DEF DeleteRoom, TypeOK, rows, seats, liveKit, bans, Handler,
       Steps
  <1>27. ASSUME NEW h \in Handlers, DeleteRoomFails(h) PROVE TypeOK'
    BY <1>27, FaultBound, GoHandler DEF DeleteRoomFails, Fault, TypeOK, rows, seats, liveKit,
       bans, Handler, Steps
  <1>28. ASSUME NEW h \in Handlers, Forget(h) PROVE TypeOK'
    BY <1>28, GoHandler DEF Forget, TypeOK, rows, seats, liveKit, bans, Handler, Steps
  <1>29. ASSUME NEW h \in Handlers, Tell(h) PROVE TypeOK'
    BY <1>29, ReturnHandler DEF Tell, TypeOK, rows, seats, liveKit, bans, Handler, Steps
  <1>30. ASSUME NEW u \in Users, Connect(u) PROVE TypeOK'
    BY <1>30, HookTypes DEF Connect, Calm, TypeOK, rows, seats, liveKit, bans, Handler, Steps
  <1>31. ASSUME NEW u \in Users, Drop(u) PROVE TypeOK'
    BY <1>31, HookTypes DEF Drop, Disconnect, Calm, TypeOK, rows, seats, liveKit, bans, Handler,
       Steps
  <1>32. ASSUME CloseEmptyRoom PROVE TypeOK'
    BY <1>32, HookTypes DEF CloseEmptyRoom, Calm, TypeOK, rows, seats, liveKit, bans, Handler,
       Steps
  <1>33. ASSUME Expire PROVE TypeOK'
    BY <1>33 DEF Expire, TypeOK, rows, seats, liveKit, bans, Handler, Steps
  <1>34. ASSUME NEW h \in Handlers, Fails(h) PROVE TypeOK'
    BY <1>34, FaultBound, ReturnHandler DEF Fails, Fault, TypeOK, rows, seats, liveKit, bans,
       Handler, Steps
  <1>35. CASE UNCHANGED vars
    BY <1>35 DEF vars, TypeOK, rows, seats, liveKit, bans, Handler, Steps
  <1> QED
    BY <1>1, <1>2, <1>3, <1>4, <1>5, <1>6, <1>7, <1>8, <1>9, <1>10, <1>11, <1>12, <1>13, <1>14,
       <1>15, <1>16, <1>17, <1>18, <1>19, <1>20, <1>21, <1>22, <1>23, <1>24, <1>25, <1>26,
       <1>27, <1>28, <1>29, <1>30, <1>31, <1>32, <1>33, <1>34, <1>35 DEF Next, Request,
       Continue, Environment

\* Every step keeps the chain from connection to token to seat to room.
LEMMA RowsStep == ASSUME TypeOK, TokensHaveRows, [Next]_vars PROVE TokensHaveRows'
  <1>1. ASSUME NEW h \in Handlers, CreateMeeting(h) PROVE TokensHaveRows'
    <2>1. handler'[h].pc = "createRoom" /\ \A g \in Handlers \ {h} : handler'[g] = handler[g]
      BY <1>1, BeginHandler, HostTakesPart DEF CreateMeeting, Steps
    <2>2. UNCHANGED <<named, seats, liveKit, bans, tokens>> /\ room' # "ACTIVE"
      BY <1>1 DEF CreateMeeting
    <2> QED
      BY <2>1, <2>2 DEF TokensHaveRows, At, seats, liveKit, bans
  <1>2. ASSUME NEW h \in Handlers, CreateRoom(h) PROVE TokensHaveRows'
    BY <1>2, GoHandler, HookTypes DEF CreateRoom, TypeOK, TokensHaveRows, rows, seats, liveKit,
       bans, At, Handler, Steps
  <1>3. ASSUME NEW h \in Handlers, Activate(h) PROVE TokensHaveRows'
    BY <1>3, ReturnHandler DEF Activate, TypeOK, TokensHaveRows, rows, seats, liveKit, bans, At,
       Handler, Steps
  <1>4. ASSUME NEW h \in Handlers, NEW u \in Users, Join(h, u) PROVE TokensHaveRows'
    <2>1. /\ handler'[h].pc \in {"sit", "checkRemoved"}
          /\ \A g \in Handlers \ {h} : handler'[g] = handler[g]
      <3>1. CASE u = Host
        BY <1>4, <3>1, BeginHandler DEF Join, Steps
      <3>2. CASE u # Host
        BY <1>4, <3>2, BeginHandler DEF Join, Steps
      <3> QED
        BY <3>1, <3>2
    <2>2. named /\ UNCHANGED <<rows, seats, liveKit, bans, tokens>>
      BY <1>4 DEF Join, TokensHaveRows
    <2> QED
      BY <2>1, <2>2 DEF TokensHaveRows, At, rows, seats, liveKit, bans
  <1>5. ASSUME NEW h \in Handlers, CheckRemoved(h) PROVE TokensHaveRows'
    BY <1>5, GoHandler, ReturnHandler DEF CheckRemoved, TypeOK, TokensHaveRows, rows, seats,
       liveKit, bans, At, Handler, Steps
  <1>6. ASSUME NEW h \in Handlers, Sit(h) PROVE TokensHaveRows'
    BY <1>6, GoHandler, ReturnHandler DEF Sit, TypeOK, TokensHaveRows, rows, seats, liveKit,
       bans, At, Handler, Steps
  <1>7. ASSUME NEW h \in Handlers, Mint(h) PROVE TokensHaveRows'
    BY <1>7, ReturnHandler DEF Mint, TypeOK, TokensHaveRows, rows, seats, liveKit, bans, At,
       Handler, Steps
  <1>8. ASSUME NEW u \in Users, Leave(u) PROVE TokensHaveRows'
    BY <1>8 DEF Leave, Unseat, TypeOK, TokensHaveRows, rows, seats, liveKit, bans, At, Handler,
       Steps
  <1>9. ASSUME NEW h \in Handlers, NEW u \in Users, Remove(h, u) PROVE TokensHaveRows'
    BY <1>9, BeginHandler DEF Remove, TypeOK, TokensHaveRows, rows, seats, liveKit, bans, At,
       Handler, Steps
  <1>10. ASSUME NEW h \in Handlers, Ban(h) PROVE TokensHaveRows'
    BY <1>10, GoHandler DEF Ban, TypeOK, TokensHaveRows, rows, seats, liveKit, bans, At,
       Handler, Steps
  <1>11. ASSUME NEW h \in Handlers, Kick(h) PROVE TokensHaveRows'
    BY <1>11, GoHandler, HookTypes DEF Kick, Disconnect, TypeOK, TokensHaveRows, rows, seats,
       liveKit, bans, At, Handler, Steps
  <1>12. ASSUME NEW h \in Handlers, KickMissesUser(h) PROVE TokensHaveRows'
    BY <1>12, ReturnHandler DEF KickMissesUser, TypeOK, TokensHaveRows, rows, seats, liveKit,
       bans, At, Handler, Steps
  <1>13. ASSUME NEW h \in Handlers, UnseatRemoved(h) PROVE TokensHaveRows'
    BY <1>13, ReturnHandler DEF UnseatRemoved, Unseat, TypeOK, TokensHaveRows, rows, seats,
       liveKit, bans, At, Handler, Steps
  <1>14. ASSUME RoomStarted PROVE TokensHaveRows'
    BY <1>14 DEF RoomStarted, Takes, TypeOK, TokensHaveRows, rows, seats, liveKit, bans, At,
       Handler, Steps
  <1>15. ASSUME NEW u \in Users, ParticipantLeft(u) PROVE TokensHaveRows'
    BY <1>15 DEF ParticipantLeft, Unseat, Takes, TypeOK, TokensHaveRows, rows, seats, liveKit,
       bans, At, Handler, Steps
  <1>16. ASSUME NEW h \in Handlers, NEW u \in Users, ParticipantJoined(h, u) PROVE TokensHaveRows'
    BY <1>16, BeginHandler DEF ParticipantJoined, Takes, TypeOK, TokensHaveRows, rows, seats,
       liveKit, bans, At, Handler, Steps
  <1>17. ASSUME NEW h \in Handlers, IsRemoved(h) PROVE TokensHaveRows'
    BY <1>17, GoHandler DEF IsRemoved, TypeOK, TokensHaveRows, rows, seats, liveKit, bans, At,
       Handler, Steps
  <1>18. ASSUME NEW h \in Handlers, KickAgain(h) PROVE TokensHaveRows'
    BY <1>18, ReturnHandler, HookTypes DEF KickAgain, Disconnect, TypeOK, TokensHaveRows, rows,
       seats, liveKit, bans, At, Handler, Steps
  <1>19. ASSUME NEW h \in Handlers, SitAgain(h) PROVE TokensHaveRows'
    BY <1>19, ReturnHandler DEF SitAgain, TypeOK, TokensHaveRows, rows, seats, liveKit, bans,
       At, Handler, Steps
  <1>20. ASSUME NEW h \in Handlers, RoomFinished(h) PROVE TokensHaveRows'
    BY <1>20, BeginHandler, HostTakesPart DEF RoomFinished, Takes, TypeOK, TokensHaveRows, rows,
       seats, liveKit, bans, At, Handler, Steps
  <1>21. ASSUME NEW hook \in hooks, HookLost(hook) PROVE TokensHaveRows'
    BY <1>21, FaultBound DEF HookLost, Takes, Fault, TypeOK, TokensHaveRows, rows, seats,
       liveKit, bans, At, Handler, Steps
  <1>22. ASSUME NEW h \in Handlers, EndMeeting(h) PROVE TokensHaveRows'
    <2>1. handler'[h].pc = "finish" /\ \A g \in Handlers \ {h} : handler'[g] = handler[g]
      BY <1>22, BeginHandler, HostTakesPart DEF EndMeeting, Steps
    <2>2. UNCHANGED <<rows, seats, liveKit, bans, tokens>>
      BY <1>22 DEF EndMeeting
    <2> QED
      BY <2>1, <2>2 DEF TokensHaveRows, At, rows, seats, liveKit, bans
  <1>23. ASSUME NEW h \in Handlers, Sweep(h) PROVE TokensHaveRows'
    <2>1. handler'[h].pc = "forceEnd" /\ \A g \in Handlers \ {h} : handler'[g] = handler[g]
      BY <1>23, BeginHandler, HostTakesPart DEF Sweep, Steps
    <2>2. UNCHANGED <<rows, seats, liveKit, bans, tokens>>
      BY <1>23 DEF Sweep
    <2> QED
      BY <2>1, <2>2 DEF TokensHaveRows, At, rows, seats, liveKit, bans
  <1>24. ASSUME NEW h \in Handlers, ForceEnd(h) PROVE TokensHaveRows'
    <2>1. /\ handler'[h].pc \in {"idle", "finish"}
          /\ \A g \in Handlers \ {h} : handler'[g] = handler[g]
      BY <1>24, ReturnHandler DEF ForceEnd, TypeOK, Handler
    <2>2. UNCHANGED <<rows, seats, liveKit, bans, tokens>>
      BY <1>24 DEF ForceEnd
    <2> QED
      BY <2>1, <2>2 DEF TokensHaveRows, At, rows, seats, liveKit, bans
  <1>25. ASSUME NEW h \in Handlers, Finish(h) PROVE TokensHaveRows'
    <2>1. /\ handler'[h].pc \in {"deleteRoom", "forget"}
          /\ \A g \in Handlers \ {h} : handler'[g] = handler[g]
      <3>1. CASE handler[h].named
        BY <1>25, <3>1, GoHandler DEF Finish, Steps
      <3>2. CASE ~handler[h].named
        BY <1>25, <3>2, GoHandler DEF Finish, Steps
      <3> QED
        BY <3>1, <3>2
    <2>2. /\ UNCHANGED <<named, connected, tokens, early>> /\ room' # "ACTIVE"
          /\ \A u \in Users : seat'[u] # "none" <=> seat[u] # "none"
      BY <1>25 DEF Finish, liveKit, bans, Seated
    <2>3. \A g \in Handlers : handler[g].user \in Users
      BY DEF TypeOK, Handler
    <2>4. /\ \A u \in Users : seat'[u] # "none" => named'
          /\ connected' \subseteq tokens' /\ tokens \subseteq Users
          /\ \A u \in tokens' : seat'[u] # "none"
      BY <2>2 DEF TokensHaveRows, TypeOK
    <2>5. ASSUME NEW g \in Handlers
          PROVE  /\ At(g, "sit")' => named'
                 /\ At(g, "checkRemoved")' => named'
                 /\ At(g, "mint")' => seat'[handler'[g].user] # "none"
                 /\ At(g, "ban")' => handler'[g].named \/ handler'[g].user \in early'
      <3>1. CASE g = h
        BY <2>1, <3>1 DEF At
      <3>2. CASE g # h
        <4>1. handler'[g] = handler[g]
          BY <2>1, <3>2
        <4> QED
          BY <2>2, <2>3, <4>1 DEF At, TokensHaveRows
      <3> QED
        BY <3>1, <3>2
    <2>6. (room = "ACTIVE" => named)'
      BY <2>2
    <2>7. \A g \in Handlers :
              (/\ At(g, "sit") => named
               /\ At(g, "checkRemoved") => named
               /\ At(g, "mint") => seat[handler[g].user] # "none"
               /\ At(g, "ban") => handler[g].named \/ handler[g].user \in early)'
      BY <2>5
    <2> QED
      BY <2>4, <2>6, <2>7 DEF TokensHaveRows
  <1>26. ASSUME NEW h \in Handlers, DeleteRoom(h) PROVE TokensHaveRows'
    BY <1>26, GoHandler, HookTypes DEF DeleteRoom, TypeOK, TokensHaveRows, rows, seats, liveKit,
       bans, At, Handler, Steps
  <1>27. ASSUME NEW h \in Handlers, DeleteRoomFails(h) PROVE TokensHaveRows'
    BY <1>27, FaultBound, GoHandler DEF DeleteRoomFails, Fault, TypeOK, TokensHaveRows, rows,
       seats, liveKit, bans, At, Handler, Steps
  <1>28. ASSUME NEW h \in Handlers, Forget(h) PROVE TokensHaveRows'
    <2>1. handler'[h].pc = "tell" /\ \A g \in Handlers \ {h} : handler'[g] = handler[g]
      BY <1>28, GoHandler DEF Forget, Steps
    <2>2. UNCHANGED <<rows, seats, liveKit, early, tokens>>
      BY <1>28 DEF Forget
    <2> QED
      BY <2>1, <2>2 DEF TokensHaveRows, At, rows, seats, liveKit
  <1>29. ASSUME NEW h \in Handlers, Tell(h) PROVE TokensHaveRows'
    BY <1>29, ReturnHandler DEF Tell, TypeOK, TokensHaveRows, rows, seats, liveKit, bans, At,
       Handler, Steps
  <1>30. ASSUME NEW u \in Users, Connect(u) PROVE TokensHaveRows'
    BY <1>30, HookTypes DEF Connect, Calm, TypeOK, TokensHaveRows, rows, seats, liveKit, bans,
       At, Handler, Steps
  <1>31. ASSUME NEW u \in Users, Drop(u) PROVE TokensHaveRows'
    BY <1>31, HookTypes DEF Drop, Disconnect, Calm, TypeOK, TokensHaveRows, rows, seats,
       liveKit, bans, At, Handler, Steps
  <1>32. ASSUME CloseEmptyRoom PROVE TokensHaveRows'
    BY <1>32, HookTypes DEF CloseEmptyRoom, Calm, TypeOK, TokensHaveRows, rows, seats, liveKit,
       bans, At, Handler, Steps
  <1>33. ASSUME Expire PROVE TokensHaveRows'
    BY <1>33 DEF Expire, TypeOK, TokensHaveRows, rows, seats, liveKit, bans, At, Handler, Steps
  <1>34. ASSUME NEW h \in Handlers, Fails(h) PROVE TokensHaveRows'
    BY <1>34, FaultBound, ReturnHandler DEF Fails, Fault, TypeOK, TokensHaveRows, rows, seats,
       liveKit, bans, At, Handler, Steps
  <1>35. CASE UNCHANGED vars
    BY <1>35 DEF vars, TypeOK, TokensHaveRows, rows, seats, liveKit, bans, At, Handler, Steps
  <1> QED
    BY <1>1, <1>2, <1>3, <1>4, <1>5, <1>6, <1>7, <1>8, <1>9, <1>10, <1>11, <1>12, <1>13, <1>14,
       <1>15, <1>16, <1>17, <1>18, <1>19, <1>20, <1>21, <1>22, <1>23, <1>24, <1>25, <1>26,
       <1>27, <1>28, <1>29, <1>30, <1>31, <1>32, <1>33, <1>34, <1>35 DEF Next, Request,
       Continue, Environment

\* The users the webhooks, or handler h, watch over.
Awaited(u) == UserHook("joined", u) \in hooks

\* Webhooks of different events or users are different.
LEMMA HookNames ==
    /\ \A u, v \in Users : UserHook("joined", u) = UserHook("joined", v) => u = v
    /\ \A u, v \in Users : UserHook("joined", u) # UserHook("left", v)
    /\ \A u \in Users : /\ UserHook("joined", u) # RoomHook("started")
                       /\ UserHook("joined", u) # RoomHook("finished")
  BY DEF UserHook, RoomHook

\* A step of h keeps RemovedIsWatched if it hands on whom it stops watching.
LEMMA WatchKept ==
    ASSUME RemovedIsWatched, faults' = faults, NEW h \in Handlers,
           \A g \in Handlers \ {h} : handler'[g] = handler[g],
           \A u \in Banned' \intersect connected' :
               (u \notin Banned \intersect connected \/ Awaited(u) \/ Watches(h, u))
                   => (Awaited(u)' \/ Watches(h, u)')
    PROVE  RemovedIsWatched'
  <1> SUFFICES ASSUME faults' = 0, NEW u \in Banned' \intersect connected',
                      ~Awaited(u)', ~Watches(h, u)'
               PROVE  \E g \in Handlers : Watches(g, u)'
    BY DEF RemovedIsWatched, Awaited
  <1>1. u \in Banned \intersect connected /\ ~Awaited(u) /\ ~Watches(h, u)
    OBVIOUS
  <1>2. PICK g \in Handlers : Watches(g, u)
    BY <1>1 DEF RemovedIsWatched, Awaited
  <1>3. g # h
    BY <1>1, <1>2
  <1>4. handler'[g] = handler[g]
    BY <1>3
  <1>5. Watches(g, u)'
    BY <1>2, <1>4 DEF Watches
  <1> QED
    BY <1>5

\* So does a step of the environment that connects nobody unnoticed.
LEMMA WatchUndisturbed ==
    ASSUME RemovedIsWatched, faults' = faults, handler' = handler,
           \A u \in Banned' \intersect connected' :
               (u \notin Banned \intersect connected \/ Awaited(u)) => Awaited(u)'
    PROVE  RemovedIsWatched'
  <1> SUFFICES ASSUME faults' = 0, NEW u \in Banned' \intersect connected', ~Awaited(u)'
               PROVE  \E g \in Handlers : Watches(g, u)'
    BY DEF RemovedIsWatched, Awaited
  <1>1. u \in Banned \intersect connected /\ ~Awaited(u)
    OBVIOUS
  <1>2. PICK g \in Handlers : Watches(g, u)
    BY <1>1 DEF RemovedIsWatched, Awaited
  <1>3. Watches(g, u)'
    BY <1>2 DEF Watches
  <1> QED
    BY <1>3

\* Every step keeps the removed users watched.
LEMMA WatchStep ==
    ASSUME TypeOK, TokensHaveRows, RemovedIsWatched, [Next]_vars PROVE RemovedIsWatched'
  <1>1. ASSUME NEW h \in Handlers, CreateMeeting(h) PROVE RemovedIsWatched'
    <2>1. /\ \A g \in Handlers \ {h} : handler'[g] = handler[g]
          /\ handler[h].pc = "idle"
      BY <1>1, BeginHandler, HostTakesPart DEF CreateMeeting, Steps
    <2>2. \A v \in Banned' \intersect connected' :
             (v \notin Banned \intersect connected \/ Awaited(v) \/ Watches(h, v))
                 => (Awaited(v)' \/ Watches(h, v)')
      BY <1>1, <2>1 DEF CreateMeeting, Awaited, Watches, rows, seats, liveKit, bans, Banned, At,
         TypeOK
    <2> QED
      BY <1>1, <2>1, <2>2, WatchKept DEF CreateMeeting
  <1>2. ASSUME NEW h \in Handlers, CreateRoom(h) PROVE RemovedIsWatched'
    <2>1. \A g \in Handlers \ {h} : handler'[g] = handler[g]
      BY <1>2, GoHandler DEF CreateRoom, Steps, At
    <2>2. \A v \in Banned' \intersect connected' :
             (v \notin Banned \intersect connected \/ Awaited(v) \/ Watches(h, v))
                 => (Awaited(v)' \/ Watches(h, v)')
      BY <1>2, <2>1, HookNames DEF CreateRoom, Awaited, Watches, rows, seats, liveKit, bans,
         Banned, At, TypeOK
    <2> QED
      BY <1>2, <2>1, <2>2, WatchKept DEF CreateRoom
  <1>3. ASSUME NEW h \in Handlers, Activate(h) PROVE RemovedIsWatched'
    <2>1. \A g \in Handlers \ {h} : handler'[g] = handler[g]
      BY <1>3, ReturnHandler DEF Activate, Steps, At
    <2>2. \A v \in Banned' \intersect connected' :
             (v \notin Banned \intersect connected \/ Awaited(v) \/ Watches(h, v))
                 => (Awaited(v)' \/ Watches(h, v)')
      BY <1>3, <2>1 DEF Activate, Awaited, Watches, rows, seats, liveKit, bans, Banned, At,
         TypeOK
    <2> QED
      BY <1>3, <2>1, <2>2, WatchKept DEF Activate
  <1>4. ASSUME NEW h \in Handlers, NEW u \in Users, Join(h, u) PROVE RemovedIsWatched'
    <2>1. /\ \A g \in Handlers \ {h} : handler'[g] = handler[g]
          /\ handler[h].pc = "idle"
      BY <1>4, BeginHandler, HostTakesPart DEF Join, Steps
    <2>2. \A v \in Banned' \intersect connected' :
             (v \notin Banned \intersect connected \/ Awaited(v) \/ Watches(h, v))
                 => (Awaited(v)' \/ Watches(h, v)')
      BY <1>4, <2>1 DEF Join, Awaited, Watches, rows, seats, liveKit, bans, Banned, At, TypeOK
    <2> QED
      BY <1>4, <2>1, <2>2, WatchKept DEF Join
  <1>5. ASSUME NEW h \in Handlers, CheckRemoved(h) PROVE RemovedIsWatched'
    <2>1. \A g \in Handlers \ {h} : handler'[g] = handler[g]
      BY <1>5, GoHandler, ReturnHandler DEF CheckRemoved, Steps, At
    <2>2. \A v \in Banned' \intersect connected' :
             (v \notin Banned \intersect connected \/ Awaited(v) \/ Watches(h, v))
                 => (Awaited(v)' \/ Watches(h, v)')
      BY <1>5, <2>1 DEF CheckRemoved, Awaited, Watches, rows, seats, liveKit, bans, Banned, At,
         TypeOK
    <2> QED
      BY <1>5, <2>1, <2>2, WatchKept DEF CheckRemoved
  <1>6. ASSUME NEW h \in Handlers, Sit(h) PROVE RemovedIsWatched'
    <2>1. \A g \in Handlers \ {h} : handler'[g] = handler[g]
      BY <1>6, GoHandler, ReturnHandler DEF Sit, Steps, At
    <2>2. \A v \in Banned' \intersect connected' :
             (v \notin Banned \intersect connected \/ Awaited(v) \/ Watches(h, v))
                 => (Awaited(v)' \/ Watches(h, v)')
      BY <1>6, <2>1 DEF Sit, Awaited, Watches, rows, seats, liveKit, bans, Banned, At, TypeOK
    <2> QED
      BY <1>6, <2>1, <2>2, WatchKept DEF Sit
  <1>7. ASSUME NEW h \in Handlers, Mint(h) PROVE RemovedIsWatched'
    <2>1. \A g \in Handlers \ {h} : handler'[g] = handler[g]
      BY <1>7, ReturnHandler DEF Mint, Steps, At
    <2>2. \A v \in Banned' \intersect connected' :
             (v \notin Banned \intersect connected \/ Awaited(v) \/ Watches(h, v))
                 => (Awaited(v)' \/ Watches(h, v)')
      BY <1>7, <2>1 DEF Mint, Awaited, Watches, rows, seats, liveKit, bans, Banned, At, TypeOK
    <2> QED
      BY <1>7, <2>1, <2>2, WatchKept DEF Mint
  <1>8. ASSUME NEW u \in Users, Leave(u) PROVE RemovedIsWatched'
    <2>1. \A v \in Banned' \intersect connected' :
             (v \notin Banned \intersect connected \/ Awaited(v)) => Awaited(v)'
      BY <1>8 DEF Leave, Awaited, Watches, rows, seats, liveKit, bans, Banned, At, TypeOK
    <2> QED
      BY <1>8, <2>1, WatchUndisturbed DEF Leave
  <1>9. ASSUME NEW h \in Handlers, NEW u \in Users, Remove(h, u) PROVE RemovedIsWatched'
    <2>1. /\ \A g \in Handlers \ {h} : handler'[g] = handler[g]
          /\ handler[h].pc = "idle"
      BY <1>9, BeginHandler, HostTakesPart DEF Remove, Steps
    <2>2. \A v \in Banned' \intersect connected' :
             (v \notin Banned \intersect connected \/ Awaited(v) \/ Watches(h, v))
                 => (Awaited(v)' \/ Watches(h, v)')
      BY <1>9, <2>1 DEF Remove, Awaited, Watches, rows, seats, liveKit, bans, Banned, At, TypeOK
    <2> QED
      BY <1>9, <2>1, <2>2, WatchKept DEF Remove
  <1>10. ASSUME NEW h \in Handlers, Ban(h) PROVE RemovedIsWatched'
    <2>1. /\ \A g \in Handlers \ {h} : handler'[g] = handler[g]
          /\ handler'[h].pc = "kick" \/ handler[h].user \in early
          /\ handler'[h].user = handler[h].user
      BY <1>10, GoHandler DEF Ban, Steps, At, TokensHaveRows
    <2>2. \A v \in Banned' \intersect connected' :
             (v \notin Banned \intersect connected \/ Awaited(v) \/ Watches(h, v))
                 => (Awaited(v)' \/ Watches(h, v)')
      BY <1>10, <2>1 DEF Ban, Awaited, Watches, rows, seats, liveKit, bans, Banned, At, TypeOK
    <2> QED
      BY <1>10, <2>1, <2>2, WatchKept DEF Ban
  <1>11. ASSUME NEW h \in Handlers, Kick(h) PROVE RemovedIsWatched'
    <2>1. \A g \in Handlers \ {h} : handler'[g] = handler[g]
      BY <1>11, GoHandler DEF Kick, Steps, At
    <2>2. \A v \in Banned' \intersect connected' :
             (v \notin Banned \intersect connected \/ Awaited(v) \/ Watches(h, v))
                 => (Awaited(v)' \/ Watches(h, v)')
      BY <1>11, <2>1 DEF Kick, Disconnect, Awaited, Watches, rows, seats, liveKit, bans, Banned,
         At, TypeOK
    <2> QED
      BY <1>11, <2>1, <2>2, WatchKept DEF Kick
  <1>12. ASSUME NEW h \in Handlers, KickMissesUser(h) PROVE RemovedIsWatched'
    <2>1. \A g \in Handlers \ {h} : handler'[g] = handler[g]
      BY <1>12, ReturnHandler DEF KickMissesUser, Steps, At
    <2>2. \A v \in Banned' \intersect connected' :
             (v \notin Banned \intersect connected \/ Awaited(v) \/ Watches(h, v))
                 => (Awaited(v)' \/ Watches(h, v)')
      BY <1>12, <2>1 DEF KickMissesUser, Awaited, Watches, rows, seats, liveKit, bans, Banned,
         At, TypeOK
    <2> QED
      BY <1>12, <2>1, <2>2, WatchKept DEF KickMissesUser
  <1>13. ASSUME NEW h \in Handlers, UnseatRemoved(h) PROVE RemovedIsWatched'
    <2>1. \A g \in Handlers \ {h} : handler'[g] = handler[g]
      BY <1>13, ReturnHandler DEF UnseatRemoved, Steps, At
    <2>2. \A v \in Banned' \intersect connected' :
             (v \notin Banned \intersect connected \/ Awaited(v) \/ Watches(h, v))
                 => (Awaited(v)' \/ Watches(h, v)')
      BY <1>13, <2>1 DEF UnseatRemoved, Awaited, Watches, rows, seats, liveKit, bans, Banned,
         At, TypeOK
    <2> QED
      BY <1>13, <2>1, <2>2, WatchKept DEF UnseatRemoved
  <1>14. ASSUME RoomStarted PROVE RemovedIsWatched'
    <2>1. \A v \in Banned' \intersect connected' :
             (v \notin Banned \intersect connected \/ Awaited(v)) => Awaited(v)'
      BY <1>14, HookNames DEF RoomStarted, Takes, Awaited, Watches, rows, seats, liveKit, bans,
         Banned, At, TypeOK
    <2> QED
      BY <1>14, <2>1, WatchUndisturbed DEF RoomStarted
  <1>15. ASSUME NEW u \in Users, ParticipantLeft(u) PROVE RemovedIsWatched'
    <2>1. \A v \in Banned' \intersect connected' :
             (v \notin Banned \intersect connected \/ Awaited(v)) => Awaited(v)'
      BY <1>15, HookNames DEF ParticipantLeft, Takes, Awaited, Watches, rows, seats, liveKit,
         bans, Banned, At, TypeOK
    <2> QED
      BY <1>15, <2>1, WatchUndisturbed DEF ParticipantLeft
  <1>16. ASSUME NEW h \in Handlers, NEW u \in Users, ParticipantJoined(h, u)
         PROVE RemovedIsWatched'
    <2>1. /\ \A g \in Handlers \ {h} : handler'[g] = handler[g]
          /\ handler[h].pc = "idle"
          /\ handler'[h].pc = "isRemoved" /\ handler'[h].user = u
      BY <1>16, BeginHandler, HostTakesPart DEF ParticipantJoined, Steps
    <2>2. \A v \in Banned' \intersect connected' :
             (v \notin Banned \intersect connected \/ Awaited(v) \/ Watches(h, v))
                 => (Awaited(v)' \/ Watches(h, v)')
      BY <1>16, <2>1, HookNames DEF ParticipantJoined, Takes, Awaited, Watches, rows, seats,
         liveKit, bans, Banned, At, TypeOK
    <2> QED
      BY <1>16, <2>1, <2>2, WatchKept DEF ParticipantJoined
  <1>17. ASSUME NEW h \in Handlers, IsRemoved(h) PROVE RemovedIsWatched'
    <2>1. /\ \A g \in Handlers \ {h} : handler'[g] = handler[g]
          /\ handler[h].user \in removed => handler'[h].pc = "kickAgain"
          /\ handler'[h].user = handler[h].user
      BY <1>17, GoHandler DEF IsRemoved, Steps, At
    <2>2. \A v \in Banned' \intersect connected' :
             (v \notin Banned \intersect connected \/ Awaited(v) \/ Watches(h, v))
                 => (Awaited(v)' \/ Watches(h, v)')
      BY <1>17, <2>1 DEF IsRemoved, Awaited, Watches, rows, seats, liveKit, bans, Banned, At,
         TypeOK
    <2> QED
      BY <1>17, <2>1, <2>2, WatchKept DEF IsRemoved
  <1>18. ASSUME NEW h \in Handlers, KickAgain(h) PROVE RemovedIsWatched'
    <2>1. \A g \in Handlers \ {h} : handler'[g] = handler[g]
      BY <1>18, ReturnHandler DEF KickAgain, Steps, At
    <2>2. \A v \in Banned' \intersect connected' :
             (v \notin Banned \intersect connected \/ Awaited(v) \/ Watches(h, v))
                 => (Awaited(v)' \/ Watches(h, v)')
      BY <1>18, <2>1 DEF KickAgain, Disconnect, Awaited, Watches, rows, seats, liveKit, bans,
         Banned, At, TypeOK
    <2> QED
      BY <1>18, <2>1, <2>2, WatchKept DEF KickAgain
  <1>19. ASSUME NEW h \in Handlers, SitAgain(h) PROVE RemovedIsWatched'
    <2>1. \A g \in Handlers \ {h} : handler'[g] = handler[g]
      BY <1>19, ReturnHandler DEF SitAgain, Steps, At
    <2>2. \A v \in Banned' \intersect connected' :
             (v \notin Banned \intersect connected \/ Awaited(v) \/ Watches(h, v))
                 => (Awaited(v)' \/ Watches(h, v)')
      BY <1>19, <2>1 DEF SitAgain, Awaited, Watches, rows, seats, liveKit, bans, Banned, At,
         TypeOK
    <2> QED
      BY <1>19, <2>1, <2>2, WatchKept DEF SitAgain
  <1>20. ASSUME NEW h \in Handlers, RoomFinished(h) PROVE RemovedIsWatched'
    <2>1. \A g \in Handlers \ {h} : handler'[g] = handler[g]
      BY <1>20, BeginHandler, HostTakesPart DEF RoomFinished, Steps
    <2>2. \A u \in Users : (Awaited(u) => Awaited(u)') /\ (Watches(h, u) => Watches(h, u)')
      BY <1>20, BeginHandler, HostTakesPart, HookNames DEF RoomFinished, Takes, Awaited,
         Watches, Begin, At, Steps
    <2> QED
      BY <1>20, <2>1, <2>2, WatchKept DEF RoomFinished, TypeOK, bans, Banned
  <1>21. ASSUME NEW hook \in hooks, HookLost(hook) PROVE RemovedIsWatched'
    <2>1. faults' = faults + 1 /\ faults \in Nat
      BY <1>21, FaultBound DEF HookLost, Fault, TypeOK
    <2>2. faults' # 0
      BY <2>1
    <2> QED
      BY <2>2 DEF RemovedIsWatched
  <1>22. ASSUME NEW h \in Handlers, EndMeeting(h) PROVE RemovedIsWatched'
    <2>1. /\ \A g \in Handlers \ {h} : handler'[g] = handler[g]
          /\ handler[h].pc = "idle"
      BY <1>22, BeginHandler, HostTakesPart DEF EndMeeting, Steps
    <2>2. \A v \in Banned' \intersect connected' :
             (v \notin Banned \intersect connected \/ Awaited(v) \/ Watches(h, v))
                 => (Awaited(v)' \/ Watches(h, v)')
      BY <1>22, <2>1 DEF EndMeeting, Awaited, Watches, rows, seats, liveKit, bans, Banned, At,
         TypeOK
    <2> QED
      BY <1>22, <2>1, <2>2, WatchKept DEF EndMeeting
  <1>23. ASSUME NEW h \in Handlers, Sweep(h) PROVE RemovedIsWatched'
    <2>1. /\ \A g \in Handlers \ {h} : handler'[g] = handler[g]
          /\ handler[h].pc = "idle"
      BY <1>23, BeginHandler, HostTakesPart DEF Sweep, Steps
    <2>2. \A v \in Banned' \intersect connected' :
             (v \notin Banned \intersect connected \/ Awaited(v) \/ Watches(h, v))
                 => (Awaited(v)' \/ Watches(h, v)')
      BY <1>23, <2>1 DEF Sweep, Awaited, Watches, rows, seats, liveKit, bans, Banned, At, TypeOK
    <2> QED
      BY <1>23, <2>1, <2>2, WatchKept DEF Sweep
  <1>24. ASSUME NEW h \in Handlers, ForceEnd(h) PROVE RemovedIsWatched'
    <2>1. \A g \in Handlers \ {h} : handler'[g] = handler[g]
      BY <1>24 DEF ForceEnd, Return, TypeOK
    <2>2. \A v \in Banned' \intersect connected' :
             (v \notin Banned \intersect connected \/ Awaited(v) \/ Watches(h, v))
                 => (Awaited(v)' \/ Watches(h, v)')
      BY <1>24, <2>1 DEF ForceEnd, Awaited, Watches, rows, seats, liveKit, bans, Banned, At,
         TypeOK
    <2> QED
      BY <1>24, <2>1, <2>2, WatchKept DEF ForceEnd
  <1>25. ASSUME NEW h \in Handlers, Finish(h) PROVE RemovedIsWatched'
    <2>1. \A g \in Handlers \ {h} : handler'[g] = handler[g]
      BY <1>25, GoHandler DEF Finish, Steps, At
    <2>2. \A v \in Banned' \intersect connected' :
             (v \notin Banned \intersect connected \/ Awaited(v) \/ Watches(h, v))
                 => (Awaited(v)' \/ Watches(h, v)')
      BY <1>25, <2>1 DEF Finish, Awaited, Watches, rows, seats, liveKit, bans, Banned, At,
         TypeOK
    <2> QED
      BY <1>25, <2>1, <2>2, WatchKept DEF Finish
  <1>26. ASSUME NEW h \in Handlers, DeleteRoom(h) PROVE RemovedIsWatched'
    <2>1. \A g \in Handlers \ {h} : handler'[g] = handler[g]
      BY <1>26, GoHandler DEF DeleteRoom, Steps, At
    <2>2. \A v \in Banned' \intersect connected' :
             (v \notin Banned \intersect connected \/ Awaited(v) \/ Watches(h, v))
                 => (Awaited(v)' \/ Watches(h, v)')
      BY <1>26, <2>1 DEF DeleteRoom, Awaited, Watches, rows, seats, liveKit, bans, Banned, At,
         TypeOK
    <2> QED
      BY <1>26, <2>1, <2>2, WatchKept DEF DeleteRoom
  <1>27. ASSUME NEW h \in Handlers, DeleteRoomFails(h) PROVE RemovedIsWatched'
    <2>1. faults' = faults + 1 /\ faults \in Nat
      BY <1>27, FaultBound DEF DeleteRoomFails, Fault, TypeOK
    <2>2. faults' # 0
      BY <2>1
    <2> QED
      BY <2>2 DEF RemovedIsWatched
  <1>28. ASSUME NEW h \in Handlers, Forget(h) PROVE RemovedIsWatched'
    <2>1. \A g \in Handlers \ {h} : handler'[g] = handler[g]
      BY <1>28, GoHandler DEF Forget, Steps, At
    <2>2. \A v \in Banned' \intersect connected' :
             (v \notin Banned \intersect connected \/ Awaited(v) \/ Watches(h, v))
                 => (Awaited(v)' \/ Watches(h, v)')
      BY <1>28, <2>1 DEF Forget, Awaited, Watches, rows, seats, liveKit, bans, Banned, At,
         TypeOK
    <2> QED
      BY <1>28, <2>1, <2>2, WatchKept DEF Forget
  <1>29. ASSUME NEW h \in Handlers, Tell(h) PROVE RemovedIsWatched'
    <2>1. \A g \in Handlers \ {h} : handler'[g] = handler[g]
      BY <1>29, ReturnHandler DEF Tell, Steps, At
    <2>2. \A v \in Banned' \intersect connected' :
             (v \notin Banned \intersect connected \/ Awaited(v) \/ Watches(h, v))
                 => (Awaited(v)' \/ Watches(h, v)')
      BY <1>29, <2>1 DEF Tell, Awaited, Watches, rows, seats, liveKit, bans, Banned, At, TypeOK
    <2> QED
      BY <1>29, <2>1, <2>2, WatchKept DEF Tell
  <1>30. ASSUME NEW u \in Users, Connect(u) PROVE RemovedIsWatched'
    <2>1. \A v \in Banned' \intersect connected' :
             (v \notin Banned \intersect connected \/ Awaited(v)) => Awaited(v)'
      BY <1>30, HookNames DEF Connect, Awaited, Watches, rows, seats, liveKit, bans, Banned, At,
         TypeOK
    <2> QED
      BY <1>30, <2>1, WatchUndisturbed DEF Connect
  <1>31. ASSUME NEW u \in Users, Drop(u) PROVE RemovedIsWatched'
    <2>1. \A v \in Banned' \intersect connected' :
             (v \notin Banned \intersect connected \/ Awaited(v)) => Awaited(v)'
      BY <1>31, HookNames DEF Drop, Disconnect, Awaited, Watches, rows, seats, liveKit, bans,
         Banned, At, TypeOK
    <2> QED
      BY <1>31, <2>1, WatchUndisturbed DEF Drop
  <1>32. ASSUME CloseEmptyRoom PROVE RemovedIsWatched'
    <2>1. \A v \in Banned' \intersect connected' :
             (v \notin Banned \intersect connected \/ Awaited(v)) => Awaited(v)'
      BY <1>32, HookNames DEF CloseEmptyRoom, Awaited, Watches, rows, seats, liveKit, bans,
         Banned, At, TypeOK
    <2> QED
      BY <1>32, <2>1, WatchUndisturbed DEF CloseEmptyRoom
  <1>33. ASSUME Expire PROVE RemovedIsWatched'
    <2>1. \A v \in Banned' \intersect connected' :
             (v \notin Banned \intersect connected \/ Awaited(v)) => Awaited(v)'
      BY <1>33 DEF Expire, Awaited, Watches, rows, seats, liveKit, bans, Banned, At, TypeOK
    <2> QED
      BY <1>33, <2>1, WatchUndisturbed DEF Expire
  <1>34. ASSUME NEW h \in Handlers, Fails(h) PROVE RemovedIsWatched'
    <2>1. faults' = faults + 1 /\ faults \in Nat
      BY <1>34, FaultBound DEF Fails, Fault, TypeOK
    <2>2. faults' # 0
      BY <2>1
    <2> QED
      BY <2>2 DEF RemovedIsWatched
  <1>35. CASE UNCHANGED vars
    BY <1>35 DEF vars, RemovedIsWatched, Watches, Banned
  <1> QED
    BY <1>1, <1>2, <1>3, <1>4, <1>5, <1>6, <1>7, <1>8, <1>9, <1>10, <1>11, <1>12, <1>13, <1>14,
       <1>15, <1>16, <1>17, <1>18, <1>19, <1>20, <1>21, <1>22, <1>23, <1>24, <1>25, <1>26,
       <1>27, <1>28, <1>29, <1>30, <1>31, <1>32, <1>33, <1>34, <1>35 DEF Next, Request,
       Continue, Environment


\* The steps that touch RtcParticipant.
LEMMA SeatSteps ==
    ASSUME TypeOK, [Next]_vars
    PROVE  \/ UNCHANGED seats
           \/ \E h \in Handlers : Sit(h) \/ SitAgain(h) \/ Finish(h)
           \/ \E u \in Users : Unseat(u)
  <1> DEFINE Goal == \/ UNCHANGED seats
                     \/ \E h \in Handlers : Sit(h) \/ SitAgain(h) \/ Finish(h)
                     \/ \E u \in Users : Unseat(u)
  <1>1. ASSUME NEW h \in Handlers,
               \/ CreateMeeting(h) \/ CreateRoom(h) \/ Activate(h) \/ CheckRemoved(h) \/ Mint(h)
               \/ Ban(h) \/ Kick(h) \/ KickMissesUser(h) \/ IsRemoved(h) \/ KickAgain(h)
               \/ RoomFinished(h) \/ EndMeeting(h) \/ Sweep(h) \/ ForceEnd(h)
               \/ DeleteRoom(h) \/ Forget(h) \/ Tell(h)
               \/ DeleteRoomFails(h) \/ Fails(h)
        PROVE  Goal
    BY <1>1 DEF CreateMeeting, CreateRoom, Activate, CheckRemoved, Mint, Ban, Kick,
       KickMissesUser, IsRemoved, KickAgain, RoomFinished, EndMeeting, Sweep, ForceEnd,
       DeleteRoom, Forget, Tell, DeleteRoomFails, Fails
  <1>2. ASSUME NEW h \in Handlers, NEW u \in Users,
               Join(h, u) \/ Remove(h, u) \/ ParticipantJoined(h, u) \/ Connect(u) \/ Drop(u)
        PROVE  Goal
    BY <1>2 DEF Join, Remove, ParticipantJoined, Connect, Drop
  <1>3. ASSUME NEW u \in Users, Connect(u) \/ Drop(u) \/ Leave(u) \/ ParticipantLeft(u) PROVE Goal
    BY <1>3 DEF Connect, Drop, Leave, ParticipantLeft
  <1>4. ASSUME NEW h \in Handlers, UnseatRemoved(h) PROVE Goal
    BY <1>4 DEF UnseatRemoved, TypeOK, Handler
  <1>5. ASSUME NEW h \in Handlers, Sit(h) \/ SitAgain(h) \/ Finish(h) PROVE Goal
    BY <1>5
  <1>6. ASSUME \/ RoomStarted \/ CloseEmptyRoom \/ Expire
               \/ \E hook \in hooks : HookLost(hook)
               \/ UNCHANGED vars
        PROVE  Goal
    BY <1>6 DEF RoomStarted, CloseEmptyRoom, Expire, HookLost, vars, seats
  <1> QED
    BY <1>1, <1>2, <1>3, <1>4, <1>5, <1>6 DEF Next, Request, Continue, Environment

\* Only SitAgain seats a user without comparing the count with the cap, and it
\* remembers whom.
LEMMA FitStep == ASSUME TypeOK, SeatsFit, [Next]_vars PROVE SeatsFit'
  <1> DEFINE Sitters == Seated \ reseated
  <1>1. IsFiniteSet(Seated) /\ IsFiniteSet(Sitters) /\ Cardinality(Sitters) \in Nat
        /\ Cardinality(Seated) \in Nat /\ Cardinality(Sitters) <= MaxParticipants
    BY HostTakesPart, FS_Subset, FS_CardinalityType DEF Seated, SeatsFit
  <1>2. ASSUME Sitters' \subseteq Sitters PROVE SeatsFit'
    <2>1. Cardinality(Sitters') <= Cardinality(Sitters) /\ Cardinality(Sitters') \in Nat
      BY <1>1, <1>2, FS_Subset, FS_CardinalityType
    <2> QED
      BY <1>1, <2>1, CapIsPositive DEF SeatsFit
  <1>3. CASE UNCHANGED seats
    BY <1>2, <1>3 DEF seats, Seated
  <1>4. ASSUME NEW h \in Handlers, Sit(h) PROVE SeatsFit'
    <2> DEFINE u == handler[h].user
    <2>1. u \in Users
      BY DEF TypeOK, Handler
    <2>2. CASE UNCHANGED seat
      BY <1>2, <1>4, <2>2 DEF Sit, Seated
    <2>3. CASE u \in Seated /\ seat' = [seat EXCEPT ![u] = "in"]
      <3>1. Seated' = Seated
        BY <2>1, <2>3 DEF Seated, TypeOK
      <3> QED
        BY <1>2, <1>4, <3>1 DEF Sit
    <2>4. CASE Cardinality(Seated) < MaxParticipants /\ seat' = [seat EXCEPT ![u] = "in"]
      <3>1. Seated' = Seated \union {u}
        BY <2>1, <2>4 DEF Seated, TypeOK
      <3>2. /\ IsFiniteSet(Seated \union {u})
            /\ Cardinality(Seated \union {u}) \in Nat
            /\ Cardinality(Seated \union {u}) <= Cardinality(Seated) + 1
        <4> HIDE DEF u
        <4>1. IsFiniteSet(Seated)
          BY <1>1
        <4>2. CASE u \in Seated
          <5>1. Seated \union {u} = Seated
            BY <4>2
          <5> QED
            BY <1>1, <5>1
        <4>3. CASE u \notin Seated
          BY <1>1, <4>1, <4>3, FS_AddElement
        <4> QED
          BY <4>2, <4>3
      <3>3. Sitters' \subseteq Seated \union {u}
        BY <3>1
      <3>4. Cardinality(Sitters') <= Cardinality(Seated \union {u}) /\ Cardinality(Sitters') \in Nat
        BY <3>2, <3>3, FS_Subset, FS_CardinalityType
      <3> HIDE DEF Sitters
      <3>5. Cardinality(Sitters') <= MaxParticipants
        BY <1>1, <2>4, <3>2, <3>4, CapIsPositive
      <3> QED
        BY <3>5 DEF SeatsFit, Sitters
    <2> QED
      BY <1>4, <2>2, <2>3, <2>4 DEF Sit
  <1>5. ASSUME NEW h \in Handlers, SitAgain(h) PROVE SeatsFit'
    BY <1>2, <1>5 DEF SitAgain, Seated, seats, TypeOK, Handler
  <1>6. ASSUME NEW h \in Handlers, Finish(h) PROVE SeatsFit'
    <2>1. Seated' = {}
      BY <1>6 DEF Finish, Seated
    <2> QED
      BY <1>2, <2>1
  <1>7. ASSUME NEW u \in Users, Unseat(u) PROVE SeatsFit'
    <2>1. Seated' = Seated \ {u} /\ reseated' = reseated \ {u}
      BY <1>7 DEF Unseat, Seated, TypeOK
    <2> QED
      BY <1>2, <2>1
  <1> QED
    BY <1>3, <1>4, <1>5, <1>6, <1>7, SeatSteps

\* From the initial state IInv holds.
LEMMA InitInv == Init => IInv
  <1> SUFFICES ASSUME Init PROVE IInv
    OBVIOUS
  <1>1. TypeOK
    <2>1. Idle \in Handler /\ 0 \in 0..MaxFaults
      BY HostTakesPart, FaultBound DEF Idle, Handler, Steps
    <2> QED
      BY <2>1 DEF Init, TypeOK
  <1>2. TokensHaveRows
    BY DEF Init, TokensHaveRows, At, Idle
  <1>3. SeatsFit
    <2>1. Seated \ reseated = {}
      BY DEF Init, Seated
    <2> QED
      BY <2>1, FS_EmptySet, CapIsPositive DEF SeatsFit
  <1>4. RemovedIsWatched
    BY DEF Init, RemovedIsWatched
  <1> QED
    BY <1>1, <1>2, <1>3, <1>4 DEF IInv

\* The invariant is inductive.
LEMMA StepInv == IInv /\ [Next]_vars => IInv'
  BY TypeStep, RowsStep, WatchStep, FitStep DEF IInv

\* Every reachable state satisfies IInv.
THEOREM Invariance == Spec => []IInv
  BY InitInv, StepInv, PTL DEF Spec

\* Concurrent joinMeeting calls on any number of replicas never seat more users
\* than the cap: the users above it were all put back by a webhook.
THEOREM JoinsKeepTheCap == Spec => []SeatsFit
  <1>1. IInv => SeatsFit
    BY DEF IInv
  <1> QED
    BY <1>1, Invariance, PTL

\* Without failures, a removed user who is connected is about to be kicked, in
\* whatever order the removal, the reconnect and its webhook happen.
THEOREM RemovalCatchesReconnects == Spec => []RemovedIsWatched
  <1>1. IInv => RemovedIsWatched
    BY DEF IInv
  <1> QED
    BY <1>1, Invariance, PTL


\* The steps that write RtcRoom.state, and what they make of an ended meeting.
LEMMA EndedStep ==
    ASSUME TypeOK, [Next]_vars, room = "ENDED",
           \A h \in Handlers : handler[h].pc \notin {"createRoom", "activate"}
    PROVE  room' = "ENDED"
  <1>1. ASSUME NEW h \in Handlers, Request(h) PROVE room' = "ENDED"
    BY <1>1 DEF Request, CreateMeeting, EndMeeting, Join, Remove, rows
  <1>2. ASSUME NEW h \in Handlers, Continue(h) PROVE room' = "ENDED"
    <2>1. ~CreateRoom(h) /\ ~Activate(h)
      BY DEF CreateRoom, Activate, At
    <2>2. CASE Finish(h)
      BY <2>2 DEF Finish
    <2> QED
      BY <1>2, <2>1, <2>2 DEF Continue, CheckRemoved, Sit, Mint, Ban, Kick, KickMissesUser,
         UnseatRemoved, IsRemoved, KickAgain, SitAgain, ForceEnd, DeleteRoom, Forget, Tell, rows
  <1>3. ASSUME NEW h \in Handlers,
               \/ Sweep(h) \/ RoomFinished(h) \/ DeleteRoomFails(h) \/ Fails(h)
               \/ \E u \in Users : ParticipantJoined(h, u)
        PROVE  room' = "ENDED"
    BY <1>3 DEF Sweep, RoomFinished, DeleteRoomFails, Fails, ParticipantJoined, rows
  <1>4. CASE Environment
    BY <1>4 DEF Environment, Connect, Drop, Leave, ParticipantLeft, RoomStarted, CloseEmptyRoom,
       Expire, HookLost, rows
  <1> QED
    BY <1>1, <1>2, <1>3, <1>4 DEF Next, vars

\* Once createMeeting is over, neither a late room_started webhook nor any other
\* step brings an ended meeting back.
THEOREM EndedIsFinal == Spec => EndIsFinal
  <1>1. IInv /\ [Next]_vars =>
          [room = "ENDED" /\ (\A h \in Handlers : handler[h].pc \notin {"createRoom", "activate"})
              => room' = "ENDED"]_vars
    BY EndedStep DEF IInv
  <1> QED
    BY <1>1, Invariance, PTL DEF Spec, EndIsFinal

=============================================================================
