------------------------------ MODULE RtcCall ------------------------------
(***************************************************************************)
(* 1:1 calls (rtc/rtc-call.service.ts): every handler of RtcCallService,   *)
(* split where it awaits Postgres or LiveKit, running concurrently on      *)
(* several replicas.                                                       *)
(*                                                                         *)
(* CallSession and its RtcRoom are rows shared by all replicas; the ring,  *)
(* duration and grace timers live in the memory of one replica and die     *)
(* with it.  A handler in flight is a record of `handler`: the operation,  *)
(* the place where it waits (pc) and what it carries across the await.     *)
(* LiveKit and the clients are the environment.                            *)
(*                                                                         *)
(* Frames that carry no outcome (invite, ringing, limit warning, error)    *)
(* and the warning timer change no state and are left out.  Presence       *)
(* (onlineCount) is the environment's choice.                              *)
(***************************************************************************)
EXTENDS Integers, Sequences, FiniteSets

CONSTANTS
    Calls,      \* ids of CallSession rows; bounds how many calls are placed
    Users,
    Replicas,   \* server processes
    Handlers,   \* slots for handlers in flight; bounds the concurrency
    Friends,    \* pairs of users that FriendsService.areFriends accepts
    Joiners,    \* users whose client gets into LiveKit; bounds what LiveKit does
    MaxFaults,  \* bound on replica restarts and rejected queries together
    None        \* the absent call, user or replica

ASSUME NoneIsNothing == None \notin Calls \union Users \union Replicas
ASSUME FriendsAreUsers == Friends \subseteq Users \X Users
ASSUME JoinersAreUsers == Joiners \subseteq Users
ASSUME FaultBound == MaxFaults \in Nat

VARIABLES
    state, caller, callee,            \* CallSession
    roomState, named,                 \* its RtcRoom; named: livekitRoomName set
    ringTimers, capTimers, peerTimers,  \* the timer maps of each replica
    handler,                          \* the handlers in flight
    sfuRoom, inRoom,                  \* LiveKit: rooms that exist, who is in them
    hooks,                            \* LiveKit webhooks not yet handled
    accepted, told, notices,          \* frames and notifications sent, per call
    faults

rows == <<state, caller, callee, roomState, named>>
timers == <<ringTimers, capTimers, peerTimers>>
sfu == <<sfuRoom, inRoom, hooks>>
sent == <<accepted, told, notices>>
vars == <<rows, timers, handler, sfu, sent, faults>>

ActiveStates == {"RINGING", "CONNECTING", "CONNECTED"}
EndStates == {"REJECTED", "CANCELLED", "MISSED", "ENDED", "FAILED"}
RoomStates == {"NONE", "PENDING", "ACTIVE", "ENDED"}

\* The operations that run to endCall, and the others.
EndOps == {"reject", "cancel", "hangup", "callerGone", "calleeGone", "ringTimeout",
           "peerLeft", "roomFinished", "limit", "setupFailed"}
Ops == EndOps \union {"none", "invite", "accept"}
Pcs == {"idle", "create", "ring", "lookup", "createRoom", "connect", "undo", "activate",
        "announce", "probe", "confirm", "clear", "claim", "close", "delete", "tell"}

\* Mutant of FromStates: endCall ends a call from any active state.
FromAnyState(op) == ActiveStates

\* endCall(callId, fromStates, state, ...) as each caller passes it.
FromStates(op) ==
    CASE op \in {"reject", "cancel", "callerGone", "calleeGone", "ringTimeout"} -> {"RINGING"}
      [] op \in {"hangup", "roomFinished", "setupFailed"} -> {"CONNECTING", "CONNECTED"}
      [] OTHER -> {"CONNECTED"}

ToState(op) ==
    CASE op = "reject" -> "REJECTED"
      [] op \in {"cancel", "callerGone"} -> "CANCELLED"
      [] op \in {"calleeGone", "ringTimeout"} -> "MISSED"
      [] op = "setupFailed" -> "FAILED"
      [] OTHER -> "ENDED"

Parties(c) == {caller[c], callee[c]}

\* Who gets the terminal frame once the claim is won.
Audience(op, c, u) ==
    CASE op \in {"reject", "calleeGone"} -> {caller[c]}
      [] op \in {"cancel", "callerGone"} -> {callee[c]}
      [] op = "hangup" -> Parties(c) \ {u}
      [] OTHER -> Parties(c)

Idle == [op |-> "none", pc |-> "idle", rep |-> None, call |-> None,
         user |-> None, peer |-> None, todo |-> {}]

\* A handler in flight.
Handler ==
    [op : Ops, pc : Pcs, rep : Replicas \union {None}, call : Calls \union {None},
     user : Users \union {None}, peer : Users \union {None}, todo : SUBSET Calls]

RowsOK ==
    /\ state \in [Calls -> {"NONE"} \union ActiveStates \union EndStates]
    /\ caller \in [Calls -> Users \union {None}]
    /\ callee \in [Calls -> Users \union {None}]
    /\ roomState \in [Calls -> RoomStates]
    /\ named \in [Calls -> BOOLEAN]

TimersOK ==
    /\ ringTimers \in [Replicas -> SUBSET Calls]
    /\ capTimers \in [Replicas -> SUBSET Calls]
    /\ peerTimers \in [Replicas -> SUBSET (Calls \X Users)]

SfuOK ==
    /\ sfuRoom \in [Calls -> BOOLEAN]
    /\ inRoom \in [Calls -> SUBSET Users]
    /\ hooks \subseteq ({"left"} \X Calls \X Users) \union ({"finished"} \X Calls \X {None})

SentOK ==
    /\ accepted \in [Calls -> BOOLEAN]
    /\ told \in [Calls -> [Users -> Seq(EndStates)]]
    /\ notices \in [Calls -> Nat]

TypeOK ==
    /\ handler \in [Handlers -> Handler]
    /\ RowsOK /\ TimersOK /\ SfuOK /\ SentOK
    /\ faults \in 0..MaxFaults

Init ==
    /\ state = [c \in Calls |-> "NONE"]
    /\ caller = [c \in Calls |-> None]
    /\ callee = [c \in Calls |-> None]
    /\ roomState = [c \in Calls |-> "NONE"]
    /\ named = [c \in Calls |-> FALSE]
    /\ ringTimers = [r \in Replicas |-> {}]
    /\ capTimers = [r \in Replicas |-> {}]
    /\ peerTimers = [r \in Replicas |-> {}]
    /\ handler = [h \in Handlers |-> Idle]
    /\ sfuRoom = [c \in Calls |-> FALSE]
    /\ inRoom = [c \in Calls |-> {}]
    /\ hooks = {}
    /\ accepted = [c \in Calls |-> FALSE]
    /\ told = [c \in Calls |-> [u \in Users |-> <<>>]]
    /\ notices = [c \in Calls |-> 0]
    /\ faults = 0

-----------------------------------------------------------------------------
(* How handlers start, move and stop.                                      *)

At(h, pc) == handler[h].pc = pc

Begin(h, op, pc, r, c, u) ==
    handler' = [handler EXCEPT ![h] =
        [op |-> op, pc |-> pc, rep |-> r, call |-> c, user |-> u, peer |-> None, todo |-> {}]]

Goto(h, pc) == handler' = [handler EXCEPT ![h].pc = pc]

Return(h) == handler' = [handler EXCEPT ![h] = Idle]

\* Which of endCall's callers handleDisconnect is for this call.
GoneOp(c, u) == IF caller[c] = u THEN "callerGone" ELSE "calleeGone"

\* One round of handleDisconnect's loop, with the calls left for later.
GiveUp(h, r, c, u, left) ==
    handler' = [handler EXCEPT ![h] =
        [op |-> GoneOp(c, u), pc |-> "clear", rep |-> r, call |-> c, user |-> u,
         peer |-> None, todo |-> left]]

\* Done with one call: return, or go round handleDisconnect's loop.
Finished(h) ==
    LET p == handler[h] IN
    \/ p.todo = {} /\ Return(h)
    \/ \E c \in p.todo : GiveUp(h, p.rep, c, p.user, p.todo \ {c})

-----------------------------------------------------------------------------
(* invite                                                                  *)

\* hasActiveCall: either user is a party of a call that is not over.
Busy(u) == \E c \in Calls : state[c] \in ActiveStates /\ u \in Parties(c)

\* Bound: a fresh id is left for every invite past its busy check.
IdLeft ==
    Cardinality({c \in Calls : state[c] = "NONE"})
        > Cardinality({h \in Handlers : At(h, "create")})

Invite(h, r, u, v) ==
    /\ At(h, "idle")
    /\ u # v
    /\ <<u, v>> \in Friends
    /\ ~Busy(u) /\ ~Busy(v)
    /\ IdLeft
    /\ handler' = [handler EXCEPT ![h] =
           [op |-> "invite", pc |-> "create", rep |-> r, call |-> None,
            user |-> u, peer |-> v, todo |-> {}]]
    /\ UNCHANGED <<rows, timers, sfu, sent, faults>>

\* The $transaction that creates the RtcRoom and the CallSession together.
CreateCall(h) ==
    /\ At(h, "create")
    /\ \E c \in Calls :
          /\ state[c] = "NONE"
          /\ state' = [state EXCEPT ![c] = "RINGING"]
          /\ caller' = [caller EXCEPT ![c] = handler[h].user]
          /\ callee' = [callee EXCEPT ![c] = handler[h].peer]
          /\ roomState' = [roomState EXCEPT ![c] = "PENDING"]
          /\ handler' = [handler EXCEPT ![h].pc = "ring", ![h].call = c]
    /\ UNCHANGED <<named, timers, sfu, sent, faults>>

\* Mutant of StartRingTimeout: the timer is never armed.
ForgetRingTimeout(h) ==
    /\ At(h, "ring")
    /\ Return(h)
    /\ UNCHANGED <<rows, timers, sfu, sent, faults>>

StartRingTimeout(h) ==
    /\ At(h, "ring")
    /\ ringTimers' = [ringTimers EXCEPT ![handler[h].rep] = @ \union {handler[h].call}]
    /\ Return(h)
    /\ UNCHANGED <<rows, capTimers, peerTimers, sfu, sent, faults>>

-----------------------------------------------------------------------------
(* accept                                                                  *)

\* updateMany where state = RINGING and calleeId is the sender.
Accept(h, r, c) ==
    /\ At(h, "idle")
    /\ state[c] = "RINGING"
    /\ state' = [state EXCEPT ![c] = "CONNECTING"]
    /\ Begin(h, "accept", "lookup", r, c, callee[c])
    /\ UNCHANGED <<caller, callee, roomState, named, timers, sfu, sent, faults>>

\* Reads the row and both tiers, and stops the ring timer if it is here.
LookUp(h) ==
    /\ At(h, "lookup")
    /\ ringTimers' = [ringTimers EXCEPT ![handler[h].rep] = @ \ {handler[h].call}]
    /\ Goto(h, "createRoom")
    /\ UNCHANGED <<rows, capTimers, peerTimers, sfu, sent, faults>>

CreateRoom(h) ==
    /\ At(h, "createRoom")
    /\ sfuRoom' = [sfuRoom EXCEPT ![handler[h].call] = TRUE]
    /\ Goto(h, "connect")
    /\ UNCHANGED <<rows, timers, inRoom, hooks, sent, faults>>

\* The claim CONNECTING -> CONNECTED, lost when the call ended meanwhile.
Connect(h) ==
    /\ At(h, "connect")
    /\ LET c == handler[h].call IN
          \/ /\ state[c] = "CONNECTING"
             /\ state' = [state EXCEPT ![c] = "CONNECTED"]
             /\ Goto(h, "activate")
          \/ /\ state[c] # "CONNECTING"
             /\ Goto(h, "undo")
             /\ UNCHANGED state
    /\ UNCHANGED <<caller, callee, roomState, named, timers, sfu, sent, faults>>

\* The $transaction that opens the RtcRoom; it does not look at the state.
Activate(h) ==
    /\ At(h, "activate")
    /\ roomState' = [roomState EXCEPT ![handler[h].call] = "ACTIVE"]
    /\ named' = [named EXCEPT ![handler[h].call] = TRUE]
    /\ Goto(h, "announce")
    /\ UNCHANGED <<state, caller, callee, timers, sfu, sent, faults>>

\* startDurationCap and rtc:accepted to both parties.
AnnounceAccepted(h) ==
    /\ At(h, "announce")
    /\ capTimers' = [capTimers EXCEPT ![handler[h].rep] = @ \union {handler[h].call}]
    /\ accepted' = [accepted EXCEPT ![handler[h].call] = TRUE]
    /\ Return(h)
    /\ UNCHANGED <<rows, ringTimers, peerTimers, sfu, told, notices, faults>>

\* Mutant of SetupFails: the catch block only logs.
SetupFailsQuietly(h) ==
    /\ \E pc \in {"createRoom", "connect", "activate"} : At(h, pc)
    /\ Return(h)
    /\ UNCHANGED <<rows, timers, sfu, sent, faults>>

\* createRoom, mintToken, the claim or the transaction rejects: the catch block.
SetupFails(h) ==
    /\ \E pc \in {"createRoom", "connect", "activate"} : At(h, pc)
    /\ handler' = [handler EXCEPT ![h].op = "setupFailed", ![h].pc = "clear"]
    /\ UNCHANGED <<rows, timers, sfu, sent, faults>>

\* LiveKit closes a room: everyone in it leaves, and webhooks say so.
CloseSfuRoom(c) ==
    /\ sfuRoom' = [sfuRoom EXCEPT ![c] = FALSE]
    /\ inRoom' = [inRoom EXCEPT ![c] = {}]
    /\ hooks' = hooks \union {<<"left", c, u>> : u \in inRoom[c]}
                      \union (IF sfuRoom[c] THEN {<<"finished", c, None>>} ELSE {})

\* deleteRoom swallows every error.
DeleteRoom(c) == CloseSfuRoom(c) \/ UNCHANGED sfu

UndoRoom(h) ==
    /\ At(h, "undo")
    /\ DeleteRoom(handler[h].call)
    /\ Return(h)
    /\ UNCHANGED <<rows, timers, sent, faults>>

-----------------------------------------------------------------------------
(* The frames and timers that end a call: each reads, then runs endCall.   *)

Reject(h, r, c) ==
    /\ At(h, "idle")
    /\ state[c] = "RINGING"
    /\ Begin(h, "reject", "clear", r, c, callee[c])
    /\ UNCHANGED <<rows, timers, sfu, sent, faults>>

Cancel(h, r, c) ==
    /\ At(h, "idle")
    /\ state[c] = "RINGING"
    /\ Begin(h, "cancel", "clear", r, c, caller[c])
    /\ UNCHANGED <<rows, timers, sfu, sent, faults>>

\* Mutant of Hangup: the guard on the call's state is dropped.
HangupAnyCall(h, r, c) ==
    /\ At(h, "idle")
    /\ state[c] # "NONE"
    /\ \E u \in Parties(c) : Begin(h, "hangup", "clear", r, c, u)
    /\ UNCHANGED <<rows, timers, sfu, sent, faults>>

Hangup(h, r, c) ==
    /\ At(h, "idle")
    /\ state[c] \in {"CONNECTING", "CONNECTED"}
    /\ \E u \in Parties(c) : Begin(h, "hangup", "clear", r, c, u)
    /\ UNCHANGED <<rows, timers, sfu, sent, faults>>

\* handleDisconnect: one of the user's sockets closed.
Disconnect(h, r, u) ==
    LET ringing == {c \in Calls : state[c] = "RINGING" /\ u \in Parties(c)} IN
    /\ At(h, "idle")
    /\ \E c \in ringing : GiveUp(h, r, c, u, ringing \ {c})
    /\ UNCHANGED <<rows, timers, sfu, sent, faults>>

HandleRingTimeout(h, r, c) ==
    /\ At(h, "idle")
    /\ c \in ringTimers[r]
    /\ ringTimers' = [ringTimers EXCEPT ![r] = @ \ {c}]
    /\ IF state[c] = "RINGING"
          THEN Begin(h, "ringTimeout", "clear", r, c, None)
          ELSE UNCHANGED handler
    /\ UNCHANGED <<rows, capTimers, peerTimers, sfu, sent, faults>>

ForceCallLimitHangup(h, r, c) ==
    /\ At(h, "idle")
    /\ c \in capTimers[r]
    /\ capTimers' = [capTimers EXCEPT ![r] = @ \ {c}]
    /\ IF state[c] = "CONNECTED"
          THEN Begin(h, "limit", "clear", r, c, None)
          ELSE UNCHANGED handler
    /\ UNCHANGED <<rows, ringTimers, peerTimers, sfu, sent, faults>>

\* The room_finished webhook; the room is found by its LiveKit name.
HandleRoomEndedByLiveKit(h, r, c) ==
    /\ At(h, "idle")
    /\ <<"finished", c, None>> \in hooks
    /\ hooks' = hooks \ {<<"finished", c, None>>}
    /\ IF named[c] /\ state[c] \in {"CONNECTING", "CONNECTED"}
          THEN Begin(h, "roomFinished", "clear", r, c, None)
          ELSE UNCHANGED handler
    /\ UNCHANGED <<rows, timers, sfuRoom, inRoom, sent, faults>>

-----------------------------------------------------------------------------
(* participant_left and its grace window                                   *)

HandlePeerLeft(h, r, c, u) ==
    /\ At(h, "idle")
    /\ <<"left", c, u>> \in hooks
    /\ hooks' = hooks \ {<<"left", c, u>>}
    /\ IF named[c] /\ state[c] = "CONNECTED"
          THEN Begin(h, "peerLeft", "probe", r, c, u)
          ELSE UNCHANGED handler
    /\ UNCHANGED <<rows, timers, sfuRoom, inRoom, sent, faults>>

\* isParticipantConnected: a lookup that fails counts as not connected.
ProbeAnswers(c, u) == IF u \in inRoom[c] THEN BOOLEAN ELSE {FALSE}

ProbePeer(h) ==
    LET c == handler[h].call
        u == handler[h].user
        r == handler[h].rep IN
    /\ At(h, "probe")
    /\ \E connected \in ProbeAnswers(c, u) :
          peerTimers' = [peerTimers EXCEPT ![r] =
              IF connected THEN @ ELSE @ \union {<<c, u>>}]
    /\ Return(h)
    /\ UNCHANGED <<rows, ringTimers, capTimers, sfu, sent, faults>>

GraceElapsed(h, r, c, u) ==
    /\ At(h, "idle")
    /\ <<c, u>> \in peerTimers[r]
    /\ peerTimers' = [peerTimers EXCEPT ![r] = @ \ {<<c, u>>}]
    /\ IF state[c] = "CONNECTED"
          THEN Begin(h, "peerLeft", "confirm", r, c, u)
          ELSE UNCHANGED handler
    /\ UNCHANGED <<rows, ringTimers, capTimers, sfu, sent, faults>>

ConfirmPeerLeft(h) ==
    /\ At(h, "confirm")
    /\ \E connected \in ProbeAnswers(handler[h].call, handler[h].user) :
          IF connected THEN Return(h) ELSE Goto(h, "clear")
    /\ UNCHANGED <<rows, timers, sfu, sent, faults>>

-----------------------------------------------------------------------------
(* endCall                                                                 *)

\* Stops the call's timers of this replica, before knowing who wins.
ClearTimers(h) ==
    LET c == handler[h].call
        r == handler[h].rep IN
    /\ At(h, "clear")
    /\ ringTimers' = [ringTimers EXCEPT ![r] = @ \ {c}]
    /\ capTimers' = [capTimers EXCEPT ![r] = @ \ {c}]
    /\ peerTimers' = [peerTimers EXCEPT ![r] = {k \in @ : k[1] # c}]
    /\ Goto(h, "claim")
    /\ UNCHANGED <<rows, sfu, sent, faults>>

\* Mutant of ClaimEnd: a plain update by id, as before the claim was made atomic.
ClaimEndById(h) ==
    LET c == handler[h].call IN
    /\ At(h, "claim")
    /\ state' = [state EXCEPT ![c] = ToState(handler[h].op)]
    /\ Goto(h, "close")
    /\ UNCHANGED <<caller, callee, roomState, named, timers, sfu, sent, faults>>

\* Mutant of ClaimEnd: the count of the claim is not looked at.
ClaimEndUnchecked(h) ==
    LET c == handler[h].call
        op == handler[h].op IN
    /\ At(h, "claim")
    /\ state' = [state EXCEPT ![c] = IF @ \in FromStates(op) THEN ToState(op) ELSE @]
    /\ Goto(h, "close")
    /\ UNCHANGED <<caller, callee, roomState, named, timers, sfu, sent, faults>>

\* updateMany where state in fromStates: exactly one caller wins.
ClaimEnd(h) ==
    LET c == handler[h].call
        op == handler[h].op IN
    /\ At(h, "claim")
    /\ \/ /\ state[c] \in FromStates(op)
          /\ state' = [state EXCEPT ![c] = ToState(op)]
          /\ Goto(h, "close")
       \/ /\ state[c] \notin FromStates(op)
          /\ Finished(h)
          /\ UNCHANGED state
    /\ UNCHANGED <<caller, callee, roomState, named, timers, sfu, sent, faults>>

\* Mutant of CloseRtcRoom: returns early when there is no LiveKit room to delete.
CloseRtcRoomQuietly(h) ==
    LET c == handler[h].call IN
    /\ At(h, "close")
    /\ roomState' = [roomState EXCEPT ![c] = "ENDED"]
    /\ IF named[c] THEN Goto(h, "delete") ELSE Finished(h)
    /\ UNCHANGED <<state, caller, callee, named, timers, sfu, sent, faults>>

CloseRtcRoom(h) ==
    LET c == handler[h].call IN
    /\ At(h, "close")
    /\ roomState' = [roomState EXCEPT ![c] = "ENDED"]
    /\ Goto(h, IF named[c] THEN "delete" ELSE "tell")
    /\ UNCHANGED <<state, caller, callee, named, timers, sfu, sent, faults>>

DeleteSfuRoom(h) ==
    /\ At(h, "delete")
    /\ DeleteRoom(handler[h].call)
    /\ Goto(h, "tell")
    /\ UNCHANGED <<rows, timers, sent, faults>>

\* The terminal frame, and the MISSED_CALL notification.
TellParties(h) ==
    LET c == handler[h].call
        op == handler[h].op IN
    /\ At(h, "tell")
    /\ told' = [told EXCEPT ![c] =
           [u \in Users |-> IF u \in Audience(op, c, handler[h].user)
                               THEN Append(told[c][u], ToState(op))
                               ELSE told[c][u]]]
    /\ notices' = [notices EXCEPT ![c] =
           IF op \in {"calleeGone", "ringTimeout"} THEN @ + 1 ELSE @]
    /\ Finished(h)
    /\ UNCHANGED <<rows, timers, sfu, accepted, faults>>

-----------------------------------------------------------------------------
(* Faults: a process dies, a query rejects outside any try block.          *)

Restart(r) ==
    /\ faults < MaxFaults
    /\ faults' = faults + 1
    /\ ringTimers' = [ringTimers EXCEPT ![r] = {}]
    /\ capTimers' = [capTimers EXCEPT ![r] = {}]
    /\ peerTimers' = [peerTimers EXCEPT ![r] = {}]
    /\ handler' = [h \in Handlers |-> IF handler[h].rep = r THEN Idle ELSE handler[h]]
    /\ UNCHANGED <<rows, sfu, sent>>

QueryRejects(h) ==
    /\ faults < MaxFaults
    /\ \E pc \in {"create", "lookup", "claim", "close"} : At(h, pc)
    /\ faults' = faults + 1
    /\ Return(h)
    /\ UNCHANGED <<rows, timers, sfu, sent>>

-----------------------------------------------------------------------------
(* LiveKit and the clients                                                 *)

\* A token comes with rtc:accepted, or from getActiveCallSnapshot.
HoldsToken(c) == accepted[c] \/ (state[c] = "CONNECTED" /\ named[c])

\* A client holding a token joins; LiveKit recreates a missing room for it.
Join(c, u) ==
    /\ HoldsToken(c)
    /\ u \in (Parties(c) \intersect Joiners) \ inRoom[c]
    /\ inRoom' = [inRoom EXCEPT ![c] = @ \union {u}]
    /\ sfuRoom' = [sfuRoom EXCEPT ![c] = TRUE]
    /\ UNCHANGED <<rows, timers, handler, hooks, sent, faults>>

Drop(c, u) ==
    /\ u \in inRoom[c]
    /\ inRoom' = [inRoom EXCEPT ![c] = @ \ {u}]
    /\ hooks' = hooks \union {<<"left", c, u>>}
    /\ UNCHANGED <<rows, timers, handler, sfuRoom, sent, faults>>

\* emptyTimeout and departureTimeout.
ExpireEmptyRoom(c) ==
    /\ sfuRoom[c]
    /\ inRoom[c] = {}
    /\ CloseSfuRoom(c)
    /\ UNCHANGED <<rows, timers, handler, sent, faults>>

-----------------------------------------------------------------------------
Frame(h) ==
    \E r \in Replicas :
        \/ \E u, v \in Users : Invite(h, r, u, v)
        \/ \E u \in Users : Disconnect(h, r, u)
        \/ \E c \in Calls :
              \/ Accept(h, r, c) \/ Reject(h, r, c) \/ Cancel(h, r, c) \/ Hangup(h, r, c)

TimerFires(h) ==
    \E r \in Replicas, c \in Calls :
        \/ HandleRingTimeout(h, r, c)
        \/ ForceCallLimitHangup(h, r, c)
        \/ \E u \in Users : GraceElapsed(h, r, c, u)

Webhook(h) ==
    \E r \in Replicas, c \in Calls :
        \/ HandleRoomEndedByLiveKit(h, r, c)
        \/ \E u \in Users : HandlePeerLeft(h, r, c, u)

\* A handler in flight goes on from its await.
Resume(h) ==
    \/ CreateCall(h) \/ StartRingTimeout(h)
    \/ LookUp(h) \/ CreateRoom(h) \/ Connect(h) \/ Activate(h) \/ AnnounceAccepted(h)
    \/ SetupFails(h) \/ UndoRoom(h)
    \/ ProbePeer(h) \/ ConfirmPeerLeft(h)
    \/ ClearTimers(h) \/ ClaimEnd(h) \/ CloseRtcRoom(h) \/ DeleteSfuRoom(h) \/ TellParties(h)

Environment ==
    \E c \in Calls :
        \/ ExpireEmptyRoom(c)
        \/ \E u \in Users : Join(c, u) \/ Drop(c, u)

Next ==
    \/ \E h \in Handlers : Frame(h) \/ TimerFires(h) \/ Webhook(h) \/ Resume(h) \/ QueryRejects(h)
    \/ \E r \in Replicas : Restart(r)
    \/ Environment

Spec == Init /\ [][Next]_vars

\* An await settles and a due timer is called back, whatever else is running
\* (strong: the slots of Handlers may be busy, the event loop never is for good).
Fairness ==
    /\ \A h \in Handlers : WF_vars(Resume(h))
    /\ \A r \in Replicas, c \in Calls :
          /\ SF_vars(\E h \in Handlers : HandleRingTimeout(h, r, c))
          /\ SF_vars(\E h \in Handlers : ForceCallLimitHangup(h, r, c))

FairSpec == Spec /\ Fairness

-----------------------------------------------------------------------------
(* Properties                                                              *)

\* endCall's claim: however many timers, frames and webhooks end a call at
\* once, a party hears at most one outcome, and it is the one in the row.
OneVerdict == \A c \in Calls, u \in Users : told[c][u] \in {<<>>, <<state[c]>>}

\* notifyMissedCall runs at most once per call, and only for a missed one.
MissedNoticeOnce ==
    \A c \in Calls : notices[c] = 0 \/ (notices[c] = 1 /\ state[c] = "MISSED")

\* No endCall closes the RtcRoom of a call that another handler keeps alive.
LiveCallKeepsRoom ==
    \A c \in Calls : state[c] \in ActiveStates => roomState[c] \in {"PENDING", "ACTIVE"}

InFlight(c) == {h \in Handlers : handler[h].call = c}

\* Short of a fault, a ringing call is never stranded: its ring timer is armed
\* somewhere, or the handler that disarmed it is about to end the call.
RingingIsWatched ==
    faults = 0 => \A c \in Calls : state[c] = "RINGING" =>
        \/ \E r \in Replicas : c \in ringTimers[r]
        \/ \E h \in InFlight(c) :
              \/ At(h, "ring")
              \/ handler[h].pc \in {"clear", "claim"} /\ FromStates(handler[h].op) = {"RINGING"}

\* Short of a fault, a connected call is complete (its room is open under its LiveKit name
\* and both parties got their token), unless accept is about to complete it, or to fail it.
ConnectedIsReachable ==
    faults = 0 => \A c \in Calls : state[c] = "CONNECTED" =>
        \/ roomState[c] = "ACTIVE" /\ named[c] /\ accepted[c]
        \/ \E h \in InFlight(c) :
              \/ handler[h].pc \in {"activate", "announce"}
              \/ handler[h].pc \in {"clear", "claim"} /\ handler[h].op = "setupFailed"

\* The inductive invariant behind these properties.
\* What a handler carries, by the place where it waits.
Carries(p) ==
    /\ p.pc # "idle" => p.rep \in Replicas
    /\ p.pc \notin {"idle", "create"} => p.call \in Calls
    /\ p.pc = "create" => p.user \in Users /\ p.peer \in Users
    /\ p.pc \in {"probe", "confirm"} => p.op = "peerLeft" /\ p.user \in Users
    /\ p.pc \in {"clear", "claim", "close", "delete", "tell"} => p.op \in EndOps

HandlerOK == \A h \in Handlers : Carries(handler[h])

\* A handler that won endCall's claim and has not told the parties yet.
Winner(h) == handler[h].pc \in {"close", "delete", "tell"}

SoleWinner ==
    /\ \A h \in Handlers : Winner(h) =>
          /\ state[handler[h].call] = ToState(handler[h].op)
          /\ notices[handler[h].call] = 0
          /\ \A u \in Users : told[handler[h].call][u] = <<>>
    /\ \A h, g \in Handlers :
          Winner(h) /\ Winner(g) /\ handler[h].call = handler[g].call => h = g

NothingToldBeforeTheEnd ==
    \A c \in Calls : state[c] \notin EndStates =>
        notices[c] = 0 /\ \A u \in Users : told[c][u] = <<>>

\* A handler that found a call answered does not see it ring again, and accept goes in order.
InOrder(p) ==
    /\ p.pc = "create" => p.op = "invite"
    /\ p.pc \in {"lookup", "createRoom", "connect", "activate", "announce"} => p.op = "accept"
    /\ p.op \in {"accept", "hangup", "roomFinished", "setupFailed", "peerLeft", "limit"} =>
         p.call \in Calls /\ state[p.call] \notin {"NONE", "RINGING"}
    /\ p.pc \in {"activate", "announce"} => state[p.call] # "CONNECTING"
    /\ p.pc = "announce" /\ state[p.call] = "CONNECTED" =>
         roomState[p.call] = "ACTIVE" /\ named[p.call]

HandlersInOrder == \A h \in Handlers : InOrder(handler[h])

IInv ==
    /\ TypeOK /\ HandlerOK
    /\ SoleWinner /\ NothingToldBeforeTheEnd
    /\ OneVerdict /\ MissedNoticeOnce /\ LiveCallKeepsRoom
    /\ HandlersInOrder /\ RingingIsWatched /\ ConnectedIsReachable

\* RtcCall implements CallLifecycle: state and told are the abstract ones.
Lifecycle == INSTANCE CallLifecycle
ImplementsLifecycle == Lifecycle!Spec

\* Short of a fault, a call that rings or is being set up gets out of it.
SetupSettles ==
    \A c \in Calls : state[c] \in {"RINGING", "CONNECTING"}
                        ~> state[c] \in {"CONNECTED"} \union EndStates

\* Short of a fault, every outcome is told to one of the parties.
OutcomeIsTold ==
    \A c \in Calls : state[c] \in EndStates ~> \E u \in Users : told[c][u] # <<>>
=============================================================================
