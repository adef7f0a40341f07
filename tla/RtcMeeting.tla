----------------------------- MODULE RtcMeeting -----------------------------
(***************************************************************************)
(* One group meeting: RtcMeetingService, the expiry sweep and the LiveKit  *)
(* webhooks that reach it.  Meetings share no state, so one is enough.     *)
(*                                                                         *)
(* A handler is one request, sweep tick or webhook in flight on any        *)
(* replica, split at its awaits; a transaction is one step.  LiveKit is    *)
(* modelled from how the service uses it: it keeps a room with the         *)
(* connected users, lets a token holder in, opens the room again for one,  *)
(* and reports what happens as webhooks, late and in any order.            *)
(***************************************************************************)
EXTENDS Integers, FiniteSets

CONSTANTS
    Users,            \* who may take part
    Host,             \* hostId
    MaxParticipants,  \* Meeting.maxParticipants
    Handlers,         \* slots for handlers in flight; bounds the concurrency
    MaxFaults,        \* bound on rejected statements, dead processes and lost webhooks
    MaxHooks          \* bound: undelivered webhooks at which LiveKit's users sit still

ASSUME HostTakesPart == Host \in Users /\ IsFiniteSet(Users)
ASSUME CapIsPositive == MaxParticipants \in Nat \ {0}
ASSUME FaultBound == MaxFaults \in Nat /\ MaxHooks \in Nat

VARIABLES
    room, named,       \* RtcRoom.state, and whether livekitRoomName is set
    expired,           \* maxDurationMinutes have passed since startedAt
    seat, reseated,    \* RtcParticipant rows, and who got theirs back by webhook
    removed, early,    \* the Redis set of removed users, and whose removal read the room
                       \* before it had its LiveKit name
    sfu, connected,    \* LiveKit's room and who is connected to it
    tokens,            \* who was given a LiveKit token
    hooks,             \* webhooks LiveKit has still to deliver
    told,              \* the reasons broadcast with rtc:meeting-ended
    handler, faults

vars == <<room, named, expired, seat, reseated, removed, early, sfu, connected, tokens, hooks,
          told, handler, faults>>

rows == <<room, named, expired>>
seats == <<seat, reseated>>
bans == <<removed, early>>
liveKit == <<sfu, connected, hooks>>

Seated == {u \in Users : seat[u] = "in"}

Hook == [event : {"joined", "left"}, user : Users]
        \union [event : {"started", "finished"}, user : {Host}]

RoomHook(event) == [event |-> event, user |-> Host]  \* the user says nothing
UserHook(event, u) == [event |-> event, user |-> u]

Steps == {"idle", "createRoom", "activate",        \* createMeeting
          "checkRemoved", "sit", "mint",           \* joinMeeting
          "ban", "kick", "unseat",                 \* removeMeetingParticipant
          "isRemoved", "kickAgain", "sitAgain",    \* participant_joined
          "forceEnd",                              \* the sweep
          "finish", "deleteRoom", "forget", "tell"}  \* finishMeeting

Handler == [pc : Steps, user : Users, named : BOOLEAN, reason : {"ended", "tier_limit"}]

Idle == [pc |-> "idle", user |-> Host, named |-> FALSE, reason |-> "ended"]

TypeOK ==
    /\ room \in {"NONE", "PENDING", "ACTIVE", "ENDED"}
    /\ named \in BOOLEAN /\ expired \in BOOLEAN
    /\ seat \in [Users -> {"none", "in", "out"}]
    /\ reseated \subseteq Users /\ removed \subseteq Users /\ early \subseteq Users
    /\ sfu \in {"none", "made", "opened"} /\ connected \subseteq Users
    /\ tokens \subseteq Users
    /\ hooks \subseteq Hook
    /\ told \subseteq {"ended", "tier_limit"}
    /\ handler \in [Handlers -> Handler]
    /\ faults \in 0..MaxFaults

Init ==
    /\ room = "NONE" /\ named = FALSE /\ expired = FALSE
    /\ seat = [u \in Users |-> "none"] /\ reseated = {} /\ removed = {} /\ early = {}
    /\ sfu = "none" /\ connected = {} /\ tokens = {} /\ hooks = {} /\ told = {}
    /\ handler = [h \in Handlers |-> Idle]
    /\ faults = 0

At(h, pc) == handler[h].pc = pc
Go(h, pc) == handler' = [handler EXCEPT ![h].pc = pc]
Return(h) == handler' = [handler EXCEPT ![h] = Idle]

\* A handler starts; it keeps whether livekitRoomName was set when it read the row.
Begin(h, pc, u, reason) ==
    /\ At(h, "idle")
    /\ handler' = [handler EXCEPT ![h] =
           [pc |-> pc, user |-> u, named |-> named, reason |-> reason]]

Fault == faults < MaxFaults /\ faults' = faults + 1

-----------------------------------------------------------------------------
(* createMeeting *)

CreateMeeting(h) ==
    /\ room = "NONE"
    /\ Begin(h, "createRoom", Host, "ended")
    /\ room' = "PENDING"
    /\ UNCHANGED <<named, expired, seats, bans, liveKit, tokens, told, faults>>

CreateRoom(h) ==
    /\ At(h, "createRoom")
    /\ sfu' = "made"
    /\ hooks' = hooks \union {RoomHook("started")}
    /\ Go(h, "activate")
    /\ UNCHANGED <<rows, seats, bans, connected, tokens, told, faults>>

\* The update does not look at the state it overwrites.
Activate(h) ==
    /\ At(h, "activate")
    /\ room' = "ACTIVE" /\ named' = TRUE /\ expired' = FALSE
    /\ Return(h)
    /\ UNCHANGED <<seats, bans, liveKit, tokens, told, faults>>

-----------------------------------------------------------------------------
(* joinMeeting, leaveMeeting *)

Join(h, u) ==
    /\ room = "ACTIVE"
    /\ Begin(h, IF u = Host THEN "sit" ELSE "checkRemoved", u, "ended")
    /\ UNCHANGED <<rows, seats, bans, liveKit, tokens, told, faults>>

CheckRemoved(h) ==
    /\ At(h, "checkRemoved")
    /\ IF handler[h].user \in removed THEN Return(h) ELSE Go(h, "sit")
    /\ UNCHANGED <<rows, seats, bans, liveKit, tokens, told, faults>>

\* Mutant of Sit: the count is compared with the cap after the seat is taken.
SitLate(h) ==
    LET u == handler[h].user IN
    /\ At(h, "sit")
    /\ IF u \in Seated \/ Cardinality(Seated) <= MaxParticipants
         THEN /\ seat' = [seat EXCEPT ![u] = "in"]
              /\ Go(h, "mint")
         ELSE Return(h) /\ UNCHANGED seat
    /\ UNCHANGED <<rows, reseated, bans, liveKit, tokens, told, faults>>

\* The capacity check and the upsert, under the room's row lock.
Sit(h) ==
    LET u == handler[h].user IN
    /\ At(h, "sit")
    /\ IF u \in Seated \/ Cardinality(Seated) < MaxParticipants
         THEN /\ seat' = [seat EXCEPT ![u] = "in"]
              /\ Go(h, "mint")
         ELSE Return(h) /\ UNCHANGED seat
    /\ UNCHANGED <<rows, reseated, bans, liveKit, tokens, told, faults>>

Mint(h) ==
    /\ At(h, "mint")
    /\ tokens' = tokens \union {handler[h].user}
    /\ Return(h)
    /\ UNCHANGED <<rows, seats, bans, liveKit, told, faults>>

Unseat(u) ==
    /\ seat' = [seat EXCEPT ![u] = IF @ = "in" THEN "out" ELSE @]
    /\ reseated' = reseated \ {u}

Leave(u) ==
    /\ room # "NONE" /\ Unseat(u)
    /\ UNCHANGED <<rows, bans, liveKit, tokens, told, handler, faults>>

-----------------------------------------------------------------------------
(* removeMeetingParticipant *)

\* The host removes a user, who need not have joined; the meeting need not have
\* its LiveKit room yet.
Remove(h, u) ==
    /\ room # "NONE" /\ u # Host
    /\ Begin(h, "ban", u, "ended")
    /\ early' = IF named THEN early ELSE early \union {u}
    /\ UNCHANGED <<rows, seats, removed, liveKit, tokens, told, faults>>

Ban(h) ==
    /\ At(h, "ban")
    /\ removed' = removed \union {handler[h].user}
    /\ Go(h, IF handler[h].named THEN "kick" ELSE "unseat")
    /\ UNCHANGED <<rows, seats, early, liveKit, tokens, told, faults>>

\* LiveKit drops the user's connection, if there is one, and reports it.
Disconnect(u) ==
    /\ connected' = connected \ {u}
    /\ hooks' = IF u \in connected THEN hooks \union {UserHook("left", u)} ELSE hooks

Kick(h) ==
    /\ At(h, "kick")
    /\ Disconnect(handler[h].user)
    /\ Go(h, "unseat")
    /\ UNCHANGED <<rows, seats, bans, sfu, tokens, told, faults>>

\* removeParticipant rejects for a user who is not connected: the request
\* fails with the user banned and still seated.
KickMissesUser(h) ==
    /\ At(h, "kick") /\ handler[h].user \notin connected
    /\ Return(h)
    /\ UNCHANGED <<rows, seats, bans, liveKit, tokens, told, faults>>

UnseatRemoved(h) ==
    /\ At(h, "unseat")
    /\ Unseat(handler[h].user)
    /\ Return(h)
    /\ UNCHANGED <<rows, bans, liveKit, tokens, told, faults>>

-----------------------------------------------------------------------------
(* The LiveKit webhooks *)

Takes(hook) == hook \in hooks /\ hooks' = hooks \ {hook}

\* Mutant of RoomStarted: the state is not looked at.
RoomStartedUnchecked ==
    /\ Takes(RoomHook("started"))
    /\ IF named
         THEN room' = "ACTIVE" /\ expired' = FALSE
         ELSE UNCHANGED <<room, expired>>
    /\ UNCHANGED <<named, seats, bans, sfu, connected, tokens, told, handler, faults>>

\* room_started, for a room that knows its LiveKit name and is not over.
RoomStarted ==
    /\ Takes(RoomHook("started"))
    /\ IF named /\ room # "ENDED"
         THEN room' = "ACTIVE" /\ expired' = FALSE
         ELSE UNCHANGED <<room, expired>>
    /\ UNCHANGED <<named, seats, bans, sfu, connected, tokens, told, handler, faults>>

\* Whoever joined got a token, so the room has its LiveKit name by now.
ParticipantLeft(u) ==
    /\ Takes(UserHook("left", u))
    /\ Unseat(u)
    /\ UNCHANGED <<rows, bans, sfu, connected, tokens, told, handler, faults>>

ParticipantJoined(h, u) ==
    /\ Takes(UserHook("joined", u))
    /\ Begin(h, "isRemoved", u, "ended")
    /\ UNCHANGED <<rows, seats, bans, sfu, connected, tokens, told, faults>>

\* Mutant of IsRemoved: the webhook does not look the user up.
IsRemovedSkipped(h) ==
    /\ At(h, "isRemoved")
    /\ Go(h, "sitAgain")
    /\ UNCHANGED <<rows, seats, bans, liveKit, tokens, told, faults>>

\* enforceRemovalOnRejoin
IsRemoved(h) ==
    /\ At(h, "isRemoved")
    /\ Go(h, IF handler[h].user \in removed THEN "kickAgain" ELSE "sitAgain")
    /\ UNCHANGED <<rows, seats, bans, liveKit, tokens, told, faults>>

KickAgain(h) ==
    /\ At(h, "kickAgain")
    /\ Disconnect(handler[h].user)
    /\ Return(h)
    /\ UNCHANGED <<rows, seats, bans, sfu, tokens, told, faults>>

\* leftAt is cleared, whatever the room's state and however many are seated.
SitAgain(h) ==
    LET u == handler[h].user IN
    /\ At(h, "sitAgain")
    /\ IF seat[u] = "out"
         THEN seat' = [seat EXCEPT ![u] = "in"] /\ reseated' = reseated \union {u}
         ELSE UNCHANGED seats
    /\ Return(h)
    /\ UNCHANGED <<rows, bans, liveKit, tokens, told, faults>>

RoomFinished(h) ==
    /\ Takes(RoomHook("finished"))
    /\ IF named /\ room # "ENDED" THEN Begin(h, "finish", Host, "ended") ELSE UNCHANGED handler
    /\ UNCHANGED <<rows, seats, bans, sfu, connected, tokens, told, faults>>

\* A handler throws before its first write: the webhook is answered 200 and
\* never comes again.
HookLost(hook) ==
    /\ Fault
    /\ Takes(hook)
    /\ UNCHANGED <<rows, seats, bans, sfu, connected, tokens, told, handler>>

-----------------------------------------------------------------------------
(* The three ways to finishMeeting *)

\* endMeeting, which does not look at the state.
EndMeeting(h) ==
    /\ room # "NONE"
    /\ Begin(h, "finish", Host, "ended")
    /\ UNCHANGED <<rows, seats, bans, liveKit, tokens, told, faults>>

\* A tick of the sweep finds the meeting over its cap.
Sweep(h) ==
    /\ room = "ACTIVE" /\ expired
    /\ Begin(h, "forceEnd", Host, "tier_limit")
    /\ UNCHANGED <<rows, seats, bans, liveKit, tokens, told, faults>>

ForceEnd(h) ==
    /\ At(h, "forceEnd")
    /\ IF room = "ENDED" THEN Return(h)
         ELSE handler' = [handler EXCEPT ![h].pc = "finish", ![h].named = named]
    /\ UNCHANGED <<rows, seats, bans, liveKit, tokens, told, faults>>

\* Mutant of Finish: the room is left as it is.
FinishSeatsOnly(h) ==
    /\ At(h, "finish")
    /\ seat' = [u \in Users |-> IF u \in Seated THEN "out" ELSE seat[u]]
    /\ reseated' = {}
    /\ Go(h, IF handler[h].named THEN "deleteRoom" ELSE "forget")
    /\ UNCHANGED <<rows, bans, liveKit, tokens, told, faults>>

Finish(h) ==
    /\ At(h, "finish")
    /\ room' = "ENDED"
    /\ seat' = [u \in Users |-> IF u \in Seated THEN "out" ELSE seat[u]]
    /\ reseated' = {}
    /\ Go(h, IF handler[h].named THEN "deleteRoom" ELSE "forget")
    /\ UNCHANGED <<named, expired, bans, liveKit, tokens, told, faults>>

\* LiveKit disconnects everyone; a room that is gone already is no error.
DeleteRoom(h) ==
    /\ At(h, "deleteRoom")
    /\ IF sfu = "none" THEN UNCHANGED liveKit
         ELSE /\ sfu' = "none" /\ connected' = {}
              /\ hooks' = hooks \union {UserHook("left", u) : u \in connected}
                                \union {RoomHook("finished")}
    /\ Go(h, "forget")
    /\ UNCHANGED <<rows, seats, bans, tokens, told, faults>>

\* deleteRoom swallows every error of LiveKit's.
DeleteRoomFails(h) ==
    /\ At(h, "deleteRoom")
    /\ Fault
    /\ Go(h, "forget")
    /\ UNCHANGED <<rows, seats, bans, liveKit, tokens, told>>

\* Mutant of Forget: finishMeeting returns without the broadcast.
ForgetQuietly(h) ==
    /\ At(h, "forget")
    /\ removed' = {}
    /\ Return(h)
    /\ UNCHANGED <<rows, seats, early, liveKit, tokens, told, faults>>

Forget(h) ==
    /\ At(h, "forget")
    /\ removed' = {}
    /\ Go(h, "tell")
    /\ UNCHANGED <<rows, seats, early, liveKit, tokens, told, faults>>

Tell(h) ==
    /\ At(h, "tell")
    /\ told' = told \union {handler[h].reason}
    /\ Return(h)
    /\ UNCHANGED <<rows, seats, bans, liveKit, tokens, faults>>

-----------------------------------------------------------------------------
(* LiveKit, the clients, the clock and failures *)

Calm == Cardinality(hooks) < MaxHooks

\* A token lets its holder in.  A room that is gone is opened again, without a cap.
Connect(u) ==
    /\ Calm
    /\ u \in tokens \ connected
    /\ sfu = "made" => Cardinality(connected) < MaxParticipants
    /\ sfu' = IF sfu = "none" THEN "opened" ELSE sfu
    /\ connected' = connected \union {u}
    /\ hooks' = hooks \union {UserHook("joined", u)}
                      \union (IF sfu = "none" THEN {RoomHook("started")} ELSE {})
    /\ UNCHANGED <<rows, seats, bans, tokens, told, handler, faults>>

Drop(u) ==
    /\ Calm
    /\ u \in connected
    /\ Disconnect(u)
    /\ UNCHANGED <<rows, seats, bans, sfu, tokens, told, handler, faults>>

\* emptyTimeout and departureTimeout
CloseEmptyRoom ==
    /\ Calm
    /\ sfu # "none" /\ connected = {}
    /\ sfu' = "none"
    /\ hooks' = hooks \union {RoomHook("finished")}
    /\ UNCHANGED <<rows, seats, bans, connected, tokens, told, handler, faults>>

Expire ==
    /\ room = "ACTIVE" /\ ~expired
    /\ expired' = TRUE
    /\ UNCHANGED <<room, named, seats, bans, liveKit, tokens, told, handler, faults>>

\* A statement rejects or the process dies.
Fails(h) ==
    /\ ~At(h, "idle")
    /\ Fault
    /\ Return(h)
    /\ UNCHANGED <<rows, seats, bans, liveKit, tokens, told>>

-----------------------------------------------------------------------------
Continue(h) ==
    \/ CreateRoom(h) \/ Activate(h)
    \/ CheckRemoved(h) \/ Sit(h) \/ Mint(h)
    \/ Ban(h) \/ Kick(h) \/ KickMissesUser(h) \/ UnseatRemoved(h)
    \/ IsRemoved(h) \/ KickAgain(h) \/ SitAgain(h)
    \/ ForceEnd(h) \/ Finish(h) \/ DeleteRoom(h) \/ Forget(h) \/ Tell(h)

Request(h) ==
    \/ CreateMeeting(h) \/ EndMeeting(h)
    \/ \E u \in Users : Join(h, u) \/ Remove(h, u)

Environment ==
    \/ \E u \in Users : Connect(u) \/ Drop(u) \/ Leave(u) \/ ParticipantLeft(u)
    \/ RoomStarted \/ CloseEmptyRoom \/ Expire
    \/ \E hook \in hooks : HookLost(hook)

Next ==
    \/ \E h \in Handlers :
          \/ Request(h) \/ Continue(h) \/ Sweep(h) \/ RoomFinished(h)
          \/ DeleteRoomFails(h) \/ Fails(h)
          \/ \E u \in Users : ParticipantJoined(h, u)
    \/ Environment

Spec == Init /\ [][Next]_vars

\* The awaits of a handler, the sweep's interval and the clock; webhooks may
\* stay undelivered.  SF as the model's handler slots may all be taken.
FairSpec ==
    /\ Spec
    /\ \A h \in Handlers : WF_vars(Continue(h))
    /\ SF_vars(\E h \in Handlers : Sweep(h))
    /\ WF_vars(Expire)
-----------------------------------------------------------------------------
(* Properties                                                              *)

\* joinMeeting's row lock: only a reconnect reported by webhook can bring more
\* users into the meeting than its cap.
SeatsFit == Cardinality(Seated \ reseated) <= MaxParticipants

\* removeMeetingParticipant bans before it kicks: a removed user who is
\* connected is about to be kicked, by the removal or by the webhook of the
\* connection, as long as no statement failed and no webhook was lost.  Who was
\* removed before the meeting had its LiveKit room is banned and never kicked.
Watches(h, u) == handler[h].user = u /\ handler[h].pc \in {"kick", "isRemoved", "kickAgain"}

Banned == removed \ early

RemovedIsWatched ==
    faults = 0 => \A u \in Banned \intersect connected :
        UserHook("joined", u) \in hooks \/ \E h \in Handlers : Watches(h, u)

\* Only an active meeting, which has its LiveKit name, gives seats; who is
\* given a token has a seat; only a token lets one in.
TokensHaveRows ==
    /\ room = "ACTIVE" => named
    /\ \A u \in Users : seat[u] # "none" => named
    /\ connected \subseteq tokens
    /\ \A u \in tokens : seat[u] # "none"
    /\ \A h \in Handlers :
          /\ At(h, "sit") => named
          /\ At(h, "checkRemoved") => named
          /\ At(h, "mint") => seat[handler[h].user] # "none"
          /\ At(h, "ban") => handler[h].named \/ handler[h].user \in early

\* What the proofs show inductive.
IInv == TypeOK /\ TokensHaveRows /\ SeatsFit /\ RemovedIsWatched

\* handleRoomStarted, finishMeeting: once it is created a meeting that has
\* ended stays ended, whatever webhooks are late.
EndIsFinal ==
    [][room = "ENDED" /\ (\A h \in Handlers : handler[h].pc \notin {"createRoom", "activate"})
          => room' = "ENDED"]_vars

\* The sweep: an active meeting ends, and stays so, although replicas die,
\* webhooks are lost and LiveKit's room starts again.
MeetingEnds == room = "ACTIVE" ~> [](room = "ENDED")

\* Short of a fault, the participants of a meeting that ended are told.
EndIsTold == room = "ENDED" ~> (told # {} \/ faults # 0)
=============================================================================
