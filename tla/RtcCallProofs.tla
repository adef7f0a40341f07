--------------------------- MODULE RtcCallProofs ---------------------------
(***************************************************************************)
(* Proofs about RtcCall, for any number of calls, users, replicas and      *)
(* concurrent handlers: the inductive invariant IInv, the properties that  *)
(* follow from it, and the refinement of CallLifecycle.                    *)
(***************************************************************************)
EXTENDS RtcCall, TLAPS

\* Where endCall may take a call, by the operation that calls it.
LEMMA EndOpStates ==
    ASSUME NEW op \in EndOps
    PROVE  /\ ToState(op) \in EndStates
           /\ FromStates(op) \subseteq ActiveStates
           /\ \A s \in FromStates(op) : <<s, ToState(op)>> \in Lifecycle!Outcome
           /\ ToState(op) = "MISSED" <=> op \in {"calleeGone", "ringTimeout"}
  BY DEF EndOps, EndStates, ActiveStates, FromStates, ToState, Lifecycle!Outcome

\* The invariant holds before the first call.
LEMMA InitIInv == Init => IInv
  <1> SUFFICES ASSUME Init PROVE IInv
    OBVIOUS
  <1>1. TypeOK
    <2>1. Idle \in Handler
      BY DEF Idle, Handler, Ops, Pcs
    <2>2. told \in [Calls -> [Users -> Seq(EndStates)]]
      BY DEF Init
    <2> QED
      BY <2>1, <2>2, FaultBound
      DEF Init, TypeOK, RowsOK, TimersOK, SfuOK, SentOK, RoomStates
  <1>2. HandlerOK
    BY DEF Init, HandlerOK, Carries, Idle
  <1>3. SoleWinner
    BY DEF Init, SoleWinner, Winner, Idle
  <1>4. NothingToldBeforeTheEnd /\ OneVerdict /\ MissedNoticeOnce
    BY DEF Init, NothingToldBeforeTheEnd, OneVerdict, MissedNoticeOnce
  <1>5. LiveCallKeepsRoom
    BY DEF Init, LiveCallKeepsRoom, ActiveStates
  <1>6. HandlersInOrder /\ RingingIsWatched /\ ConnectedIsReachable
    BY DEF Init, HandlersInOrder, InOrder, Idle, RingingIsWatched, ConnectedIsReachable
  <1> QED
    BY <1>1, <1>2, <1>3, <1>4, <1>5, <1>6 DEF IInv

-----------------------------------------------------------------------------
(* How a step moves its handler.                                           *)

\* A slot may take any well-formed record that carries what its place needs.
LEMMA SlotUpdate ==
    ASSUME NEW h \in Handlers, NEW p \in Handler, Carries(p),
           handler \in [Handlers -> Handler], HandlerOK,
           handler' = [handler EXCEPT ![h] = p]
    PROVE  handler' \in [Handlers -> Handler] /\ HandlerOK'
  BY DEF HandlerOK

\* A handler that returns leaves the handlers well formed.
LEMMA ReturnOK ==
    ASSUME NEW h \in Handlers, handler \in [Handlers -> Handler], HandlerOK, Return(h)
    PROVE  handler' \in [Handlers -> Handler] /\ HandlerOK'
  <1>1. Idle \in Handler /\ Carries(Idle)
    BY DEF Idle, Handler, Carries, Ops, Pcs
  <1> QED
    BY <1>1, SlotUpdate DEF Return

\* A handler that starts is well formed if it has all its place needs.
LEMMA BeginOK ==
    ASSUME NEW h \in Handlers, handler \in [Handlers -> Handler], HandlerOK,
           NEW op \in Ops, NEW pc \in Pcs, NEW r \in Replicas, NEW c \in Calls,
           NEW u \in Users \union {None},
           pc # "create",
           pc \in {"probe", "confirm"} => op = "peerLeft" /\ u \in Users,
           pc \in {"clear", "claim", "close", "delete", "tell"} => op \in EndOps,
           Begin(h, op, pc, r, c, u)
    PROVE  handler' \in [Handlers -> Handler] /\ HandlerOK'
  <1> DEFINE p == [op |-> op, pc |-> pc, rep |-> r, call |-> c, user |-> u,
                   peer |-> None, todo |-> {}]
  <1>1. p \in Handler /\ Carries(p)
    BY DEF Handler, Carries
  <1> QED
    BY <1>1, SlotUpdate DEF Begin

\* Moving on within an operation, when the new place needs nothing new.
LEMMA GotoOK ==
    ASSUME NEW h \in Handlers, handler \in [Handlers -> Handler], HandlerOK,
           NEW pc \in Pcs, handler[h].pc \notin {"idle", "create"}, pc # "create",
           pc \notin {"probe", "confirm"},
           pc \in {"clear", "claim", "close", "delete", "tell"} => handler[h].op \in EndOps,
           Goto(h, pc)
    PROVE  handler' \in [Handlers -> Handler] /\ HandlerOK'
  <1> DEFINE p == [handler[h] EXCEPT !.pc = pc]
  <1>1. handler[h] \in Handler /\ Carries(handler[h])
    BY DEF HandlerOK
  <1>2. p \in Handler /\ Carries(p)
    BY <1>1 DEF Handler, Carries
  <1> QED
    BY <1>2, SlotUpdate DEF Goto

\* A step that touches no handler leaves them well formed.
LEMMA StayOK ==
    ASSUME handler \in [Handlers -> Handler], HandlerOK, UNCHANGED handler
    PROVE  handler' \in [Handlers -> Handler] /\ HandlerOK'
  BY DEF HandlerOK

\* So does a round of handleDisconnect's loop.
LEMMA GiveUpOK ==
    ASSUME NEW h \in Handlers, handler \in [Handlers -> Handler], HandlerOK,
           NEW r \in Replicas, NEW c \in Calls, NEW u \in Users \union {None},
           NEW left \in SUBSET Calls, GiveUp(h, r, c, u, left)
    PROVE  handler' \in [Handlers -> Handler] /\ HandlerOK'
  <1> DEFINE p == [op |-> GoneOp(c, u), pc |-> "clear", rep |-> r, call |-> c, user |-> u,
                   peer |-> None, todo |-> left]
  <1>1. GoneOp(c, u) \in EndOps
    BY DEF GoneOp, EndOps
  <1>2. p \in Handler /\ Carries(p)
    BY <1>1 DEF Handler, Carries, Ops, Pcs
  <1> QED
    BY <1>2, SlotUpdate DEF GiveUp

\* So does the end of endCall for one call, with or without another to go.
LEMMA FinishedOK ==
    ASSUME NEW h \in Handlers, handler \in [Handlers -> Handler], HandlerOK,
           handler[h].pc \in {"claim", "tell"}, Finished(h)
    PROVE  handler' \in [Handlers -> Handler] /\ HandlerOK'
  <1>1. CASE Return(h)
    BY <1>1, ReturnOK
  <1>2. ASSUME NEW c \in handler[h].todo,
               GiveUp(h, handler[h].rep, c, handler[h].user, handler[h].todo \ {c})
        PROVE  handler' \in [Handlers -> Handler] /\ HandlerOK'
    <2>1. /\ handler[h].rep \in Replicas
          /\ handler[h].user \in Users \union {None}
          /\ handler[h].todo \in SUBSET Calls
      BY DEF HandlerOK, Handler, Carries
    <2> QED
      BY <1>2, <2>1, GiveUpOK
  <1> QED
    BY <1>1, <1>2 DEF Finished

\* Closing a LiveKit room keeps what is recorded of LiveKit well formed.
LEMMA DeleteRoomOK ==
    ASSUME NEW c \in Calls, SfuOK, DeleteRoom(c)
    PROVE  SfuOK'
  <1>1. CASE UNCHANGED sfu
    BY <1>1 DEF SfuOK, sfu
  <1>2. CASE CloseSfuRoom(c)
    <2>1. sfuRoom' \in [Calls -> BOOLEAN] /\ inRoom' \in [Calls -> SUBSET Users]
      BY <1>2 DEF SfuOK, CloseSfuRoom
    <2>2. {<<"left", c, u>> : u \in inRoom[c]} \subseteq {"left"} \X Calls \X Users
      BY DEF SfuOK
    <2>3. (IF sfuRoom[c] THEN {<<"finished", c, None>>} ELSE {})
             \subseteq {"finished"} \X Calls \X {None}
      OBVIOUS
    <2>4. hooks' \subseteq ({"left"} \X Calls \X Users) \union ({"finished"} \X Calls \X {None})
      BY <1>2, <2>2, <2>3 DEF SfuOK, CloseSfuRoom
    <2> QED
      BY <2>1, <2>4 DEF SfuOK
  <1> QED
    BY <1>1, <1>2 DEF DeleteRoom

-----------------------------------------------------------------------------
(* Type correctness                                                        *)

\* Every step keeps the types and what the handlers carry.
LEMMA TypeStep == TypeOK /\ HandlerOK /\ [Next]_vars => TypeOK' /\ HandlerOK'
  <1> SUFFICES ASSUME TypeOK, HandlerOK, [Next]_vars PROVE TypeOK' /\ HandlerOK'
    OBVIOUS
  <1> DEFINE Typed == /\ RowsOK' /\ TimersOK' /\ SfuOK' /\ SentOK' /\ faults' \in 0..MaxFaults
             Slots == handler' \in [Handlers -> Handler] /\ HandlerOK'
  <1> SUFFICES Typed /\ Slots
    BY DEF TypeOK
  <1> USE FaultBound, NoneIsNothing
  <1>0. /\ handler \in [Handlers -> Handler] /\ HandlerOK
        /\ RowsOK /\ TimersOK /\ SfuOK /\ SentOK /\ faults \in 0..MaxFaults
    BY DEF TypeOK
  <1>h. ASSUME NEW h \in Handlers
        PROVE  handler[h] \in Handler /\ Carries(handler[h])
    BY <1>0, <1>h DEF HandlerOK
  <1> USE DEF rows, timers, sfu, sent, RowsOK, TimersOK, SfuOK, SentOK, At
  <1>1. ASSUME NEW h \in Handlers, NEW r \in Replicas, NEW u \in Users, NEW v \in Users, Invite(h, r, u, v)
        PROVE  Typed /\ Slots
    <2>1. Typed
      BY <1>0, <1>h, <1>1 DEF Invite
    <2>2. Slots
      <3> DEFINE p == [op |-> "invite", pc |-> "create", rep |-> r, call |-> None,
                       user |-> u, peer |-> v, todo |-> {}]
      <3>1. p \in Handler /\ Carries(p)
        BY DEF Handler, Carries, Ops, Pcs
      <3> QED
        BY <1>0, <1>h, <1>1, <3>1, SlotUpdate DEF Invite
    <2> QED
      BY <2>1, <2>2
  <1>2. ASSUME NEW h \in Handlers, CreateCall(h)
        PROVE  Typed /\ Slots
    <2>1. Typed
      BY <1>0, <1>h, <1>2 DEF CreateCall, Carries, ActiveStates, RoomStates, Handler
    <2>2. Slots
      <3> PICK c \in Calls : handler' = [handler EXCEPT ![h].pc = "ring", ![h].call = c]
        BY <1>0, <1>h, <1>2 DEF CreateCall
      <3> DEFINE p == [handler[h] EXCEPT !.pc = "ring", !.call = c]
      <3>0. handler[h].pc = "create"
        BY <1>2 DEF CreateCall
      <3>1. p \in Handler
        BY <1>h DEF Handler, Pcs
      <3>2. p.pc = "ring" /\ p.op = handler[h].op /\ p.call = c
        BY <1>h DEF Handler
      <3>3. Carries(p)
        BY <1>h, <3>0, <3>2 DEF Carries
      <3> QED
        BY <1>0, <1>h, <1>2, <3>1, <3>3, SlotUpdate
    <2> QED
      BY <2>1, <2>2
  <1>3. ASSUME NEW h \in Handlers, StartRingTimeout(h)
        PROVE  Typed /\ Slots
    <2>1. Typed
      BY <1>0, <1>h, <1>3 DEF StartRingTimeout, Carries
    <2>2. Slots
      BY <1>0, <1>h, <1>3, ReturnOK DEF StartRingTimeout
    <2> QED
      BY <2>1, <2>2
  <1>4. ASSUME NEW h \in Handlers, NEW r \in Replicas, NEW c \in Calls, Accept(h, r, c)
        PROVE  Typed /\ Slots
    <2>1. Typed
      BY <1>0, <1>h, <1>4 DEF Accept, ActiveStates
    <2>2. Slots
      <3>1. callee[c] \in Users \union {None}
        BY <1>0, <1>h, <1>4
      <3> QED
        BY <1>0, <1>h, <1>4, <3>1, BeginOK DEF Accept, Ops, Pcs
    <2> QED
      BY <2>1, <2>2
  <1>5. ASSUME NEW h \in Handlers, LookUp(h)
        PROVE  Typed /\ Slots
    <2>1. Typed
      BY <1>0, <1>h, <1>5 DEF LookUp, Carries
    <2>2. Slots
      BY <1>0, <1>h, <1>5, GotoOK DEF LookUp, Pcs
    <2> QED
      BY <2>1, <2>2
  <1>6. ASSUME NEW h \in Handlers, CreateRoom(h)
        PROVE  Typed /\ Slots
    <2>1. Typed
      BY <1>0, <1>h, <1>6 DEF CreateRoom, Carries
    <2>2. Slots
      BY <1>0, <1>h, <1>6, GotoOK DEF CreateRoom, Pcs
    <2> QED
      BY <2>1, <2>2
  <1>7. ASSUME NEW h \in Handlers, Connect(h)
        PROVE  Typed /\ Slots
    <2>1. Typed
      BY <1>0, <1>h, <1>7 DEF Connect, Carries, ActiveStates
    <2>2. Slots
      BY <1>0, <1>h, <1>7, GotoOK DEF Connect, Pcs
    <2> QED
      BY <2>1, <2>2
  <1>8. ASSUME NEW h \in Handlers, Activate(h)
        PROVE  Typed /\ Slots
    <2>1. Typed
      BY <1>0, <1>h, <1>8 DEF Activate, Carries, RoomStates
    <2>2. Slots
      BY <1>0, <1>h, <1>8, GotoOK DEF Activate, Pcs
    <2> QED
      BY <2>1, <2>2
  <1>9. ASSUME NEW h \in Handlers, AnnounceAccepted(h)
        PROVE  Typed /\ Slots
    <2>1. Typed
      BY <1>0, <1>h, <1>9 DEF AnnounceAccepted, Carries
    <2>2. Slots
      BY <1>0, <1>h, <1>9, ReturnOK DEF AnnounceAccepted
    <2> QED
      BY <2>1, <2>2
  <1>10. ASSUME NEW h \in Handlers, SetupFails(h)
        PROVE  Typed /\ Slots
    <2>1. Typed
      BY <1>0, <1>h, <1>10 DEF SetupFails
    <2>2. Slots
      <3> DEFINE p == [handler[h] EXCEPT !.op = "setupFailed", !.pc = "clear"]
      <3>1. p \in Handler /\ Carries(p)
        BY <1>0, <1>h, <1>10 DEF SetupFails, Handler, Carries, Ops, EndOps, Pcs
      <3> QED
        BY <1>0, <1>h, <1>10, <3>1, SlotUpdate DEF SetupFails
    <2> QED
      BY <2>1, <2>2
  <1>11. ASSUME NEW h \in Handlers, UndoRoom(h)
        PROVE  Typed /\ Slots
    <2>1. Typed
      <3>1. handler[h].call \in Calls
        BY <1>h, <1>11 DEF UndoRoom, Carries
      <3>2. SfuOK'
        BY <1>0, <1>11, <3>1, DeleteRoomOK DEF UndoRoom
      <3> QED
        BY <1>0, <1>11, <3>2 DEF UndoRoom
    <2>2. Slots
      BY <1>0, <1>h, <1>11, ReturnOK DEF UndoRoom
    <2> QED
      BY <2>1, <2>2
  <1>12. ASSUME NEW h \in Handlers, NEW r \in Replicas, NEW c \in Calls, Reject(h, r, c)
        PROVE  Typed /\ Slots
    <2>1. Typed
      BY <1>0, <1>h, <1>12 DEF Reject
    <2>2. Slots
      <3>1. callee[c] \in Users \union {None}
        BY <1>0, <1>h, <1>12
      <3> QED
        BY <1>0, <1>h, <1>12, <3>1, BeginOK DEF Reject, Ops, EndOps, Pcs
    <2> QED
      BY <2>1, <2>2
  <1>13. ASSUME NEW h \in Handlers, NEW r \in Replicas, NEW c \in Calls, Cancel(h, r, c)
        PROVE  Typed /\ Slots
    <2>1. Typed
      BY <1>0, <1>h, <1>13 DEF Cancel
    <2>2. Slots
      <3>1. caller[c] \in Users \union {None}
        BY <1>0, <1>h, <1>13
      <3> QED
        BY <1>0, <1>h, <1>13, <3>1, BeginOK DEF Cancel, Ops, EndOps, Pcs
    <2> QED
      BY <2>1, <2>2
  <1>14. ASSUME NEW h \in Handlers, NEW r \in Replicas, NEW c \in Calls, Hangup(h, r, c)
        PROVE  Typed /\ Slots
    <2>1. Typed
      BY <1>0, <1>h, <1>14 DEF Hangup
    <2>2. Slots
      <3>1. Parties(c) \subseteq Users \union {None}
        BY <1>0, <1>h, <1>14 DEF Parties
      <3> QED
        BY <1>0, <1>h, <1>14, <3>1, BeginOK DEF Hangup, Ops, EndOps, Pcs
    <2> QED
      BY <2>1, <2>2
  <1>15. ASSUME NEW h \in Handlers, NEW r \in Replicas, NEW u \in Users, Disconnect(h, r, u)
        PROVE  Typed /\ Slots
    <2>1. Typed
      BY <1>0, <1>h, <1>15 DEF Disconnect
    <2>2. Slots
      <3>1. PICK c \in Calls, left \in SUBSET Calls : GiveUp(h, r, c, u, left)
        BY <1>15 DEF Disconnect
      <3> QED
        BY <1>0, <3>1, GiveUpOK
    <2> QED
      BY <2>1, <2>2
  <1>16. ASSUME NEW h \in Handlers, NEW r \in Replicas, NEW c \in Calls, HandleRingTimeout(h, r, c)
        PROVE  Typed /\ Slots
    <2>1. Typed
      BY <1>0, <1>h, <1>16 DEF HandleRingTimeout
    <2>2. Slots
      <3>1. CASE UNCHANGED handler
        BY <1>0, <3>1, StayOK
      <3>2. CASE Begin(h, "ringTimeout", "clear", r, c, None)
        BY <1>0, <3>2, BeginOK DEF Ops, EndOps, Pcs
      <3> QED
        BY <1>16, <3>1, <3>2 DEF HandleRingTimeout
    <2> QED
      BY <2>1, <2>2
  <1>17. ASSUME NEW h \in Handlers, NEW r \in Replicas, NEW c \in Calls, ForceCallLimitHangup(h, r, c)
        PROVE  Typed /\ Slots
    <2>1. Typed
      BY <1>0, <1>h, <1>17 DEF ForceCallLimitHangup
    <2>2. Slots
      <3>1. CASE UNCHANGED handler
        BY <1>0, <3>1, StayOK
      <3>2. CASE Begin(h, "limit", "clear", r, c, None)
        BY <1>0, <3>2, BeginOK DEF Ops, EndOps, Pcs
      <3> QED
        BY <1>17, <3>1, <3>2 DEF ForceCallLimitHangup
    <2> QED
      BY <2>1, <2>2
  <1>18. ASSUME NEW h \in Handlers, NEW r \in Replicas, NEW c \in Calls, HandleRoomEndedByLiveKit(h, r, c)
        PROVE  Typed /\ Slots
    <2>1. Typed
      BY <1>0, <1>h, <1>18 DEF HandleRoomEndedByLiveKit
    <2>2. Slots
      <3>1. CASE UNCHANGED handler
        BY <1>0, <3>1, StayOK
      <3>2. CASE Begin(h, "roomFinished", "clear", r, c, None)
        BY <1>0, <3>2, BeginOK DEF Ops, EndOps, Pcs
      <3> QED
        BY <1>18, <3>1, <3>2 DEF HandleRoomEndedByLiveKit
    <2> QED
      BY <2>1, <2>2
  <1>19. ASSUME NEW h \in Handlers, NEW r \in Replicas, NEW c \in Calls, NEW u \in Users, HandlePeerLeft(h, r, c, u)
        PROVE  Typed /\ Slots
    <2>1. Typed
      BY <1>0, <1>h, <1>19 DEF HandlePeerLeft
    <2>2. Slots
      <3>1. CASE UNCHANGED handler
        BY <1>0, <3>1, StayOK
      <3>2. CASE Begin(h, "peerLeft", "probe", r, c, u)
        BY <1>0, <3>2, BeginOK DEF Ops, EndOps, Pcs
      <3> QED
        BY <1>19, <3>1, <3>2 DEF HandlePeerLeft
    <2> QED
      BY <2>1, <2>2
  <1>20. ASSUME NEW h \in Handlers, ProbePeer(h)
        PROVE  Typed /\ Slots
    <2>1. Typed
      BY <1>0, <1>h, <1>20 DEF ProbePeer, Carries
    <2>2. Slots
      BY <1>0, <1>h, <1>20, ReturnOK DEF ProbePeer
    <2> QED
      BY <2>1, <2>2
  <1>21. ASSUME NEW h \in Handlers, NEW r \in Replicas, NEW c \in Calls, NEW u \in Users, GraceElapsed(h, r, c, u)
        PROVE  Typed /\ Slots
    <2>1. Typed
      BY <1>0, <1>h, <1>21 DEF GraceElapsed
    <2>2. Slots
      <3>1. CASE UNCHANGED handler
        BY <1>0, <3>1, StayOK
      <3>2. CASE Begin(h, "peerLeft", "confirm", r, c, u)
        BY <1>0, <3>2, BeginOK DEF Ops, EndOps, Pcs
      <3> QED
        BY <1>21, <3>1, <3>2 DEF GraceElapsed
    <2> QED
      BY <2>1, <2>2
  <1>22. ASSUME NEW h \in Handlers, ConfirmPeerLeft(h)
        PROVE  Typed /\ Slots
    <2>1. Typed
      BY <1>0, <1>h, <1>22 DEF ConfirmPeerLeft
    <2>2. Slots
      BY <1>0, <1>h, <1>22, ReturnOK, GotoOK DEF ConfirmPeerLeft, Carries, EndOps, Pcs
    <2> QED
      BY <2>1, <2>2
  <1>23. ASSUME NEW h \in Handlers, ClearTimers(h)
        PROVE  Typed /\ Slots
    <2>1. Typed
      BY <1>0, <1>h, <1>23 DEF ClearTimers, Carries
    <2>2. Slots
      BY <1>0, <1>h, <1>23, GotoOK DEF ClearTimers, Carries, Pcs
    <2> QED
      BY <2>1, <2>2
  <1>24. ASSUME NEW h \in Handlers, ClaimEnd(h)
        PROVE  Typed /\ Slots
    <2>1. Typed
      <3>1. handler[h].op \in EndOps
        BY <1>h, <1>24 DEF ClaimEnd, Carries
      <3>2. ToState(handler[h].op) \in EndStates
        BY <3>1, EndOpStates
      <3>3. state' = state \/ state' = [state EXCEPT ![handler[h].call] = ToState(handler[h].op)]
        BY <1>24 DEF ClaimEnd
      <3>4. state' \in [Calls -> {"NONE"} \union ActiveStates \union EndStates]
        <4>1. state \in [Calls -> {"NONE"} \union ActiveStates \union EndStates]
          BY <1>0
        <4>2. ASSUME NEW x \in {"NONE"} \union ActiveStates \union EndStates, NEW c
              PROVE  [state EXCEPT ![c] = x]
                       \in [Calls -> {"NONE"} \union ActiveStates \union EndStates]
          BY <4>1
        <4> QED
          BY <3>2, <3>3, <4>1, <4>2
      <3> QED
        BY <1>0, <1>24, <3>4 DEF ClaimEnd
    <2>2. Slots
      BY <1>0, <1>h, <1>24, GotoOK, FinishedOK DEF ClaimEnd, Carries, Pcs
    <2> QED
      BY <2>1, <2>2
  <1>25. ASSUME NEW h \in Handlers, CloseRtcRoom(h)
        PROVE  Typed /\ Slots
    <2>1. Typed
      BY <1>0, <1>h, <1>25 DEF CloseRtcRoom, Carries, RoomStates
    <2>2. Slots
      BY <1>0, <1>h, <1>25, GotoOK DEF CloseRtcRoom, Carries, Pcs
    <2> QED
      BY <2>1, <2>2
  <1>26. ASSUME NEW h \in Handlers, DeleteSfuRoom(h)
        PROVE  Typed /\ Slots
    <2>1. Typed
      <3>1. handler[h].call \in Calls
        BY <1>h, <1>26 DEF DeleteSfuRoom, Carries
      <3>2. SfuOK'
        BY <1>0, <1>26, <3>1, DeleteRoomOK DEF DeleteSfuRoom
      <3> QED
        BY <1>0, <1>26, <3>2 DEF DeleteSfuRoom
    <2>2. Slots
      BY <1>0, <1>h, <1>26, GotoOK DEF DeleteSfuRoom, Carries, Pcs
    <2> QED
      BY <2>1, <2>2
  <1>27. ASSUME NEW h \in Handlers, TellParties(h)
        PROVE  Typed /\ Slots
    <2>1. Typed
      <3>1. handler[h].op \in EndOps /\ handler[h].call \in Calls
        BY <1>h, <1>27 DEF TellParties, Carries
      <3>2. ToState(handler[h].op) \in EndStates
        BY <3>1, EndOpStates
      <3>3. \A u \in Users :
               Append(told[handler[h].call][u], ToState(handler[h].op)) \in Seq(EndStates)
        BY <1>0, <3>1, <3>2
      <3>4. told' \in [Calls -> [Users -> Seq(EndStates)]]
        BY <1>0, <1>27, <3>1, <3>3 DEF TellParties
      <3>5. notices' \in [Calls -> Nat]
        BY <1>0, <1>27, <3>1 DEF TellParties
      <3> QED
        BY <1>0, <1>27, <3>4, <3>5 DEF TellParties
    <2>2. Slots
      BY <1>0, <1>h, <1>27, FinishedOK DEF TellParties
    <2> QED
      BY <2>1, <2>2
  <1>28. ASSUME NEW r \in Replicas, Restart(r)
        PROVE  Typed /\ Slots
    <2>1. Typed
      BY <1>0, <1>h, <1>28 DEF Restart
    <2>2. Slots
      BY <1>0, <1>h, <1>28 DEF Restart, HandlerOK, Carries, Idle, Handler, Ops, Pcs
    <2> QED
      BY <2>1, <2>2
  <1>29. ASSUME NEW h \in Handlers, QueryRejects(h)
        PROVE  Typed /\ Slots
    <2>1. Typed
      BY <1>0, <1>h, <1>29 DEF QueryRejects
    <2>2. Slots
      BY <1>0, <1>h, <1>29, ReturnOK DEF QueryRejects
    <2> QED
      BY <2>1, <2>2
  <1>30. ASSUME NEW c \in Calls, NEW u \in Users, Join(c, u)
        PROVE  Typed /\ Slots
    <2>1. Typed
      BY <1>0, <1>h, <1>30 DEF Join
    <2>2. Slots
      BY <1>0, <1>h, <1>30 DEF Join, HandlerOK
    <2> QED
      BY <2>1, <2>2
  <1>31. ASSUME NEW c \in Calls, NEW u \in Users, Drop(c, u)
        PROVE  Typed /\ Slots
    <2>1. Typed
      BY <1>0, <1>h, <1>31 DEF Drop
    <2>2. Slots
      BY <1>0, <1>h, <1>31 DEF Drop, HandlerOK
    <2> QED
      BY <2>1, <2>2
  <1>32. ASSUME NEW c \in Calls, ExpireEmptyRoom(c)
        PROVE  Typed /\ Slots
    <2>1. Typed
      BY <1>0, <1>h, <1>32 DEF ExpireEmptyRoom, CloseSfuRoom
    <2>2. Slots
      BY <1>0, <1>h, <1>32 DEF ExpireEmptyRoom, HandlerOK
    <2> QED
      BY <2>1, <2>2
  <1>33. CASE UNCHANGED vars
    BY <1>0, <1>33 DEF vars, HandlerOK
  <1> QED
    BY <1>1, <1>2, <1>3, <1>4, <1>5, <1>6, <1>7, <1>8, <1>9, <1>10, <1>11, <1>12, <1>13, <1>14,
       <1>15, <1>16, <1>17, <1>18, <1>19, <1>20, <1>21, <1>22, <1>23, <1>24, <1>25, <1>26,
       <1>27, <1>28, <1>29, <1>30, <1>31, <1>32, <1>33
    DEF Next, Frame, TimerFires, Webhook, Resume, Environment

-----------------------------------------------------------------------------
(* Outcomes: who wins endCall's claim, and what has been told.             *)

Verdicts ==
    /\ SoleWinner /\ NothingToldBeforeTheEnd
    /\ OneVerdict /\ MissedNoticeOnce /\ LiveCallKeepsRoom

\* No handler becomes a winner, and winners keep their call and operation.
WinnersKept ==
    \A g \in Handlers : Winner(g)' => /\ Winner(g)
                                      /\ handler'[g].call = handler[g].call
                                      /\ handler'[g].op = handler[g].op

\* A slot that gets a record outside the winning places makes no new winner.
LEMMA SlotWinners ==
    ASSUME NEW h \in Handlers, handler \in [Handlers -> Handler], NEW p,
           p.pc \notin {"close", "delete", "tell"}, handler' = [handler EXCEPT ![h] = p]
    PROVE  WinnersKept
  BY DEF WinnersKept, Winner

\* So with every way for a handler to return, start or go round.
LEMMA MoveWinners ==
    ASSUME NEW h \in Handlers, handler \in [Handlers -> Handler],
           \/ Return(h)
           \/ Finished(h)
           \/ \E op, pc, r, c, u : /\ pc \notin {"close", "delete", "tell"}
                                   /\ Begin(h, op, pc, r, c, u)
           \/ \E r, c, u, left : GiveUp(h, r, c, u, left)
           \/ UNCHANGED handler
    PROVE  WinnersKept
  <1>1. CASE Return(h)
    BY <1>1, SlotWinners DEF Return, Idle
  <1>2. CASE \E op, pc, r, c, u : /\ pc \notin {"close", "delete", "tell"}
                                  /\ Begin(h, op, pc, r, c, u)
    <2> PICK op, pc, r, c, u : /\ pc \notin {"close", "delete", "tell"}
                               /\ Begin(h, op, pc, r, c, u)
      BY <1>2
    <2> DEFINE p == [op |-> op, pc |-> pc, rep |-> r, call |-> c, user |-> u,
                     peer |-> None, todo |-> {}]
    <2>1. handler' = [handler EXCEPT ![h] = p] /\ p.pc \notin {"close", "delete", "tell"}
      BY DEF Begin
    <2> HIDE DEF p
    <2> QED
      BY <2>1, SlotWinners
  <1>3. ASSUME NEW r, NEW c, NEW u, NEW left, GiveUp(h, r, c, u, left)
        PROVE  WinnersKept
    <2> DEFINE p == [op |-> GoneOp(c, u), pc |-> "clear", rep |-> r, call |-> c,
                     user |-> u, peer |-> None, todo |-> left]
    <2>1. handler' = [handler EXCEPT ![h] = p] /\ p.pc \notin {"close", "delete", "tell"}
      BY <1>3 DEF GiveUp
    <2> HIDE DEF p
    <2> QED
      BY <2>1, SlotWinners
  <1>4. CASE Finished(h)
    BY <1>1, <1>3, <1>4 DEF Finished
  <1>5. CASE UNCHANGED handler
    BY <1>5 DEF WinnersKept, Winner
  <1> QED
    BY <1>1, <1>2, <1>3, <1>4, <1>5

\* Goto makes no new winner, but of a handler that was one.
LEMMA GotoWinners ==
    ASSUME NEW h \in Handlers, handler \in [Handlers -> Handler], NEW pc,
           Goto(h, pc), pc \notin {"close", "delete", "tell"} \/ Winner(h)
    PROVE  WinnersKept
  BY DEF WinnersKept, Winner, Goto, Handler

\* A step that touches neither the outcomes nor the rooms.
LEMMA QuietStep ==
    ASSUME TypeOK, HandlerOK, Verdicts, WinnersKept,
           UNCHANGED <<state, roomState, told, notices>>
    PROVE  Verdicts'
  BY DEF Verdicts, WinnersKept, SoleWinner, NothingToldBeforeTheEnd, OneVerdict,
         MissedNoticeOnce, LiveCallKeepsRoom

\* A winner's call is over.
LEMMA WinnerIsOver ==
    ASSUME TypeOK, HandlerOK, Verdicts, NEW h \in Handlers, Winner(h)
    PROVE  /\ handler[h].call \in Calls /\ handler[h].op \in EndOps
           /\ state[handler[h].call] \in EndStates
  <1>1. handler[h].call \in Calls /\ handler[h].op \in EndOps
    BY DEF HandlerOK, Carries, Winner
  <1> QED
    BY <1>1, EndOpStates DEF Verdicts, SoleWinner

\* A call that is not over moves to another active state.
LEMMA AdvanceStep ==
    ASSUME TypeOK, HandlerOK, Verdicts, WinnersKept,
           NEW c \in Calls, NEW s \in ActiveStates, state[c] \notin EndStates,
           state' = [state EXCEPT ![c] = s],
           \A d \in Calls : d # c => roomState'[d] = roomState[d],
           roomState'[c] \in {"PENDING", "ACTIVE"},
           UNCHANGED <<told, notices>>
    PROVE  Verdicts'
  <1>1. \A g \in Handlers : Winner(g) => handler[g].call # c /\ handler[g].call \in Calls
    BY WinnerIsOver
  <1>2. s \notin EndStates
    BY DEF ActiveStates, EndStates
  <1>3. \A d \in Calls : d # c => state'[d] = state[d]
    BY DEF TypeOK, RowsOK
  <1>4. state'[c] = s
    BY DEF TypeOK, RowsOK
  <1>5. SoleWinner'
    BY <1>1, <1>3 DEF Verdicts, WinnersKept, SoleWinner
  <1>6. NothingToldBeforeTheEnd'
    BY <1>3, <1>4 DEF Verdicts, NothingToldBeforeTheEnd
  <1>7. OneVerdict' /\ MissedNoticeOnce'
    BY <1>3, <1>4, <1>6, <1>2
    DEF Verdicts, NothingToldBeforeTheEnd, OneVerdict, MissedNoticeOnce
  <1>8. LiveCallKeepsRoom'
    BY <1>3, <1>4 DEF Verdicts, LiveCallKeepsRoom
  <1> QED
    BY <1>5, <1>6, <1>7, <1>8 DEF Verdicts

\* endCall's claim, won or lost.
LEMMA ClaimStep ==
    ASSUME TypeOK, HandlerOK, Verdicts, NEW h \in Handlers, ClaimEnd(h)
    PROVE  Verdicts'
  <1> DEFINE c == handler[h].call
             op == handler[h].op
  <1>0. /\ handler \in [Handlers -> Handler] /\ c \in Calls /\ op \in EndOps
        /\ ~Winner(h) /\ UNCHANGED <<roomState, told, notices>>
    BY DEF ClaimEnd, At, HandlerOK, Carries, TypeOK, Winner, sent
  <1>1. CASE state[c] \notin FromStates(op)
    <2>1. Finished(h) /\ UNCHANGED state
      BY <1>1 DEF ClaimEnd
    <2> QED
      BY <1>0, <2>1, MoveWinners, QuietStep
  <1>2. CASE state[c] \in FromStates(op)
    <2>1. /\ state' = [state EXCEPT ![c] = ToState(op)]
          /\ handler' = [handler EXCEPT ![h].pc = "close"]
      BY <1>2 DEF ClaimEnd, Goto
    <2>2. state[c] \in ActiveStates /\ ToState(op) \in EndStates
      BY <1>0, <1>2, EndOpStates
    <2>3. state[c] \notin EndStates /\ ToState(op) \notin ActiveStates
      BY <2>2 DEF ActiveStates, EndStates
    <2>4. \A g \in Handlers : Winner(g) => handler[g].call # c /\ handler[g].call \in Calls
      BY <2>3, WinnerIsOver
    <2>5. state'[c] = ToState(op) /\ \A d \in Calls : d # c => state'[d] = state[d]
      BY <1>0, <2>1 DEF TypeOK, RowsOK
    <2>6. /\ handler'[h].call = c /\ handler'[h].op = op
          /\ \A g \in Handlers : g # h => handler'[g] = handler[g]
      BY <1>0, <2>1 DEF Handler
    <2>7. notices[c] = 0 /\ \A u \in Users : told[c][u] = <<>>
      BY <1>0, <2>3 DEF Verdicts, NothingToldBeforeTheEnd
    <2> HIDE DEF c, op
    <2>8. SoleWinner'
      BY <1>0, <2>4, <2>5, <2>6, <2>7 DEF Verdicts, SoleWinner, Winner
    <2>9. NothingToldBeforeTheEnd' /\ OneVerdict' /\ MissedNoticeOnce'
      BY <1>0, <2>2, <2>5, <2>7
      DEF Verdicts, NothingToldBeforeTheEnd, OneVerdict, MissedNoticeOnce
    <2>10. LiveCallKeepsRoom'
      BY <1>0, <2>3, <2>5 DEF Verdicts, LiveCallKeepsRoom
    <2> QED
      BY <2>8, <2>9, <2>10 DEF Verdicts
  <1> QED
    BY <1>1, <1>2

\* The winner closes the RtcRoom, of a call that is over.
LEMMA CloseStep ==
    ASSUME TypeOK, HandlerOK, Verdicts, NEW h \in Handlers, CloseRtcRoom(h)
    PROVE  Verdicts'
  <1> DEFINE c == handler[h].call
  <1>1. Winner(h) /\ handler \in [Handlers -> Handler]
    BY DEF CloseRtcRoom, At, Winner, TypeOK
  <1>2. c \in Calls /\ state[c] \in EndStates
    BY <1>1, WinnerIsOver
  <1>3. state[c] \notin ActiveStates
    BY <1>2 DEF EndStates, ActiveStates
  <1>4. WinnersKept
    <2>1. \E pc \in {"delete", "tell"} : Goto(h, pc)
      BY DEF CloseRtcRoom
    <2> QED
      BY <1>1, <2>1, GotoWinners
  <1>5. /\ UNCHANGED <<state, told, notices>>
        /\ \A d \in Calls : d # c => roomState'[d] = roomState[d]
    BY DEF CloseRtcRoom, sent, TypeOK, RowsOK
  <1> HIDE DEF c
  <1>6. LiveCallKeepsRoom'
    BY <1>2, <1>3, <1>5 DEF Verdicts, LiveCallKeepsRoom
  <1>7. SoleWinner' /\ NothingToldBeforeTheEnd' /\ OneVerdict' /\ MissedNoticeOnce'
    BY <1>4, <1>5
    DEF Verdicts, WinnersKept, SoleWinner, NothingToldBeforeTheEnd, OneVerdict,
        MissedNoticeOnce
  <1> QED
    BY <1>6, <1>7 DEF Verdicts

\* The winner tells the parties: nobody was told before, and nobody else will.
LEMMA TellStep ==
    ASSUME TypeOK, HandlerOK, Verdicts, NEW h \in Handlers, TellParties(h)
    PROVE  Verdicts'
  <1> DEFINE c == handler[h].call
             op == handler[h].op
  <1>1. Winner(h) /\ handler \in [Handlers -> Handler]
    BY DEF TellParties, At, Winner, TypeOK
  <1>2. c \in Calls /\ op \in EndOps /\ state[c] \in EndStates /\ state[c] = ToState(op)
    BY <1>1, WinnerIsOver DEF Verdicts, SoleWinner
  <1>3. notices[c] = 0 /\ \A u \in Users : told[c][u] = <<>>
    BY <1>1 DEF Verdicts, SoleWinner
  <1>4. UNCHANGED <<state, roomState>>
    BY DEF TellParties, rows
  <1>5. Append(<<>>, ToState(op)) = <<ToState(op)>>
    OBVIOUS
  <1>6. \A u \in Users : told'[c][u] \in {<<>>, <<state[c]>>}
    BY <1>2, <1>3, <1>5 DEF TellParties, TypeOK, SentOK
  <1>7. notices'[c] = 0 \/ (notices'[c] = 1 /\ state[c] = "MISSED")
    BY <1>2, <1>3, EndOpStates DEF TellParties, TypeOK, SentOK
  <1>8. \A d \in Calls : d # c => told'[d] = told[d] /\ notices'[d] = notices[d]
    BY <1>2 DEF TellParties, TypeOK, SentOK
  <1>9. WinnersKept /\ ~Winner(h)'
    <2>1. Finished(h)
      BY DEF TellParties
    <2>2. WinnersKept
      BY <1>1, <2>1, MoveWinners
    <2>3. handler'[h].pc \in {"idle", "clear"}
      BY <1>1, <2>1 DEF Finished, Return, GiveUp, Idle
    <2> QED
      BY <2>2, <2>3 DEF Winner
  <1>10. \A g \in Handlers : Winner(g) /\ g # h => handler[g].call # c
    BY <1>1 DEF Verdicts, SoleWinner
  <1>11. \A g \in Handlers : Winner(g) => handler[g].call \in Calls
    BY WinnerIsOver
  <1> HIDE DEF c, op
  <1>12. SoleWinner'
    BY <1>4, <1>8, <1>9, <1>10, <1>11 DEF Verdicts, SoleWinner, WinnersKept
  <1>13. NothingToldBeforeTheEnd' /\ OneVerdict' /\ MissedNoticeOnce'
    BY <1>2, <1>4, <1>6, <1>7, <1>8
    DEF Verdicts, NothingToldBeforeTheEnd, OneVerdict, MissedNoticeOnce
  <1>14. LiveCallKeepsRoom'
    BY <1>4 DEF Verdicts, LiveCallKeepsRoom
  <1> QED
    BY <1>12, <1>13, <1>14 DEF Verdicts

\* Every step keeps the outcomes consistent.
LEMMA VerdictStep == TypeOK /\ HandlerOK /\ Verdicts /\ [Next]_vars => Verdicts'
  <1> SUFFICES ASSUME TypeOK, HandlerOK, Verdicts, [Next]_vars PROVE Verdicts'
    OBVIOUS
  <1>0. /\ TypeOK /\ HandlerOK /\ Verdicts
        /\ handler \in [Handlers -> Handler]
        /\ roomState \in [Calls -> RoomStates] /\ state \in [Calls -> {"NONE"} \union ActiveStates \union EndStates]
    BY DEF TypeOK, RowsOK
  <1>1. ASSUME NEW h \in Handlers, NEW r \in Replicas, NEW u \in Users, NEW v \in Users, Invite(h, r, u, v)
        PROVE  Verdicts'
    <2>1. WinnersKept
      <3> DEFINE p == [op |-> "invite", pc |-> "create", rep |-> r, call |-> None,
                       user |-> u, peer |-> v, todo |-> {}]
      <3>1. handler' = [handler EXCEPT ![h] = p] /\ p.pc \notin {"close", "delete", "tell"}
        BY <1>1 DEF Invite
      <3> HIDE DEF p
      <3> QED
        BY <1>0, <3>1, SlotWinners
    <2>2. UNCHANGED <<state, roomState, told, notices>>
      BY <1>1 DEF Invite, rows, sent
    <2> QED
      BY <1>0, <2>1, <2>2, QuietStep
  <1>2. ASSUME NEW h \in Handlers, CreateCall(h)
        PROVE  Verdicts'
    <2>1. PICK c \in Calls :
            /\ state[c] = "NONE"
            /\ state' = [state EXCEPT ![c] = "RINGING"]
            /\ roomState' = [roomState EXCEPT ![c] = "PENDING"]
            /\ handler' = [handler EXCEPT ![h].pc = "ring", ![h].call = c]
      BY <1>2 DEF CreateCall
    <2>2. WinnersKept
      BY <1>0, <2>1 DEF WinnersKept, Winner, Handler
    <2>3. roomState'[c] = "PENDING" /\ \A d \in Calls : d # c => roomState'[d] = roomState[d]
      BY <1>0, <2>1
    <2>4. UNCHANGED <<told, notices>>
      BY <1>2 DEF CreateCall, sent
    <2> QED
      BY <1>0, <2>1, <2>2, <2>3, <2>4, AdvanceStep DEF ActiveStates, EndStates
  <1>3. ASSUME NEW h \in Handlers, StartRingTimeout(h)
        PROVE  Verdicts'
    <2>1. WinnersKept
      BY <1>0, <1>3, MoveWinners DEF StartRingTimeout
    <2>2. UNCHANGED <<state, roomState, told, notices>>
      BY <1>3 DEF StartRingTimeout, rows, sent
    <2> QED
      BY <1>0, <2>1, <2>2, QuietStep
  <1>4. ASSUME NEW h \in Handlers, NEW r \in Replicas, NEW c \in Calls, Accept(h, r, c)
        PROVE  Verdicts'
    <2>1. WinnersKept
      <3>1. Begin(h, "accept", "lookup", r, c, callee[c])
        BY <1>4 DEF Accept
      <3> QED
        BY <1>0, <3>1, MoveWinners
    <2>2. state[c] = "RINGING" /\ state' = [state EXCEPT ![c] = "CONNECTING"]
      BY <1>4 DEF Accept
    <2>3. UNCHANGED <<roomState, told, notices>>
      BY <1>4 DEF Accept, sent
    <2>4. roomState'[c] \in {"PENDING", "ACTIVE"}
      BY <1>0, <2>2, <2>3 DEF Verdicts, LiveCallKeepsRoom, ActiveStates
    <2> QED
      BY <1>0, <2>1, <2>2, <2>3, <2>4, AdvanceStep DEF ActiveStates, EndStates
  <1>5. ASSUME NEW h \in Handlers, LookUp(h)
        PROVE  Verdicts'
    <2>1. WinnersKept
      BY <1>0, <1>5, GotoWinners DEF LookUp
    <2>2. UNCHANGED <<state, roomState, told, notices>>
      BY <1>5 DEF LookUp, rows, sent
    <2> QED
      BY <1>0, <2>1, <2>2, QuietStep
  <1>6. ASSUME NEW h \in Handlers, CreateRoom(h)
        PROVE  Verdicts'
    <2>1. WinnersKept
      BY <1>0, <1>6, GotoWinners DEF CreateRoom
    <2>2. UNCHANGED <<state, roomState, told, notices>>
      BY <1>6 DEF CreateRoom, rows, sent
    <2> QED
      BY <1>0, <2>1, <2>2, QuietStep
  <1>7. ASSUME NEW h \in Handlers, Connect(h)
        PROVE  Verdicts'
    <2>1. WinnersKept
      <3>1. \E pc \in {"activate", "undo"} : Goto(h, pc)
        BY <1>7 DEF Connect
      <3> QED
        BY <1>0, <3>1, GotoWinners
    <2>2. UNCHANGED <<roomState, told, notices>>
      BY <1>7 DEF Connect, sent
    <2>3. CASE UNCHANGED state
      BY <1>0, <2>1, <2>2, <2>3, QuietStep
    <2>4. CASE state[handler[h].call] = "CONNECTING"
      <3> DEFINE c == handler[h].call
      <3>1. c \in Calls
        BY <1>0, <1>7 DEF Connect, At, HandlerOK, Carries
      <3>2. state' = [state EXCEPT ![c] = "CONNECTED"]
        BY <1>7, <2>4 DEF Connect
      <3>3. roomState'[c] \in {"PENDING", "ACTIVE"}
        BY <1>0, <2>2, <2>4, <3>1 DEF Verdicts, LiveCallKeepsRoom, ActiveStates
      <3> QED
        BY <1>0, <2>1, <2>2, <2>4, <3>1, <3>2, <3>3, AdvanceStep DEF ActiveStates, EndStates
    <2> QED
      BY <1>7, <2>3, <2>4 DEF Connect
  <1>8. ASSUME NEW h \in Handlers, Activate(h)
        PROVE  Verdicts'
    <2>1. WinnersKept
      <3>1. Goto(h, "announce")
        BY <1>8 DEF Activate
      <3> QED
        BY <1>0, <3>1, GotoWinners
    <2>2. UNCHANGED <<state, told, notices>>
      BY <1>8 DEF Activate, sent
    <2>3. LiveCallKeepsRoom'
      BY <1>0, <1>8, <2>2 DEF Activate, Verdicts, LiveCallKeepsRoom
    <2> QED
      BY <1>0, <2>1, <2>2, <2>3
      DEF Verdicts, WinnersKept, SoleWinner, NothingToldBeforeTheEnd, OneVerdict,
          MissedNoticeOnce
  <1>9. ASSUME NEW h \in Handlers, AnnounceAccepted(h)
        PROVE  Verdicts'
    <2>1. WinnersKept
      BY <1>0, <1>9, MoveWinners DEF AnnounceAccepted
    <2>2. UNCHANGED <<state, roomState, told, notices>>
      BY <1>9 DEF AnnounceAccepted, rows, sent
    <2> QED
      BY <1>0, <2>1, <2>2, QuietStep
  <1>10. ASSUME NEW h \in Handlers, SetupFails(h)
        PROVE  Verdicts'
    <2>1. WinnersKept
      BY <1>0, <1>10 DEF SetupFails, WinnersKept, Winner, Handler
    <2>2. UNCHANGED <<state, roomState, told, notices>>
      BY <1>10 DEF SetupFails, rows, sent
    <2> QED
      BY <1>0, <2>1, <2>2, QuietStep
  <1>11. ASSUME NEW h \in Handlers, UndoRoom(h)
        PROVE  Verdicts'
    <2>1. WinnersKept
      BY <1>0, <1>11, MoveWinners DEF UndoRoom
    <2>2. UNCHANGED <<state, roomState, told, notices>>
      BY <1>11 DEF UndoRoom, rows, sent
    <2> QED
      BY <1>0, <2>1, <2>2, QuietStep
  <1>12. ASSUME NEW h \in Handlers, NEW r \in Replicas, NEW c \in Calls, Reject(h, r, c)
        PROVE  Verdicts'
    <2>1. WinnersKept
      BY <1>0, <1>12, MoveWinners DEF Reject
    <2>2. UNCHANGED <<state, roomState, told, notices>>
      BY <1>12 DEF Reject, rows, sent
    <2> QED
      BY <1>0, <2>1, <2>2, QuietStep
  <1>13. ASSUME NEW h \in Handlers, NEW r \in Replicas, NEW c \in Calls, Cancel(h, r, c)
        PROVE  Verdicts'
    <2>1. WinnersKept
      BY <1>0, <1>13, MoveWinners DEF Cancel
    <2>2. UNCHANGED <<state, roomState, told, notices>>
      BY <1>13 DEF Cancel, rows, sent
    <2> QED
      BY <1>0, <2>1, <2>2, QuietStep
  <1>14. ASSUME NEW h \in Handlers, NEW r \in Replicas, NEW c \in Calls, Hangup(h, r, c)
        PROVE  Verdicts'
    <2>1. WinnersKept
      BY <1>0, <1>14, MoveWinners DEF Hangup
    <2>2. UNCHANGED <<state, roomState, told, notices>>
      BY <1>14 DEF Hangup, rows, sent
    <2> QED
      BY <1>0, <2>1, <2>2, QuietStep
  <1>15. ASSUME NEW h \in Handlers, NEW r \in Replicas, NEW u \in Users, Disconnect(h, r, u)
        PROVE  Verdicts'
    <2>1. WinnersKept
      BY <1>0, <1>15, MoveWinners DEF Disconnect
    <2>2. UNCHANGED <<state, roomState, told, notices>>
      BY <1>15 DEF Disconnect, rows, sent
    <2> QED
      BY <1>0, <2>1, <2>2, QuietStep
  <1>16. ASSUME NEW h \in Handlers, NEW r \in Replicas, NEW c \in Calls, HandleRingTimeout(h, r, c)
        PROVE  Verdicts'
    <2>1. WinnersKept
      BY <1>0, <1>16, MoveWinners DEF HandleRingTimeout
    <2>2. UNCHANGED <<state, roomState, told, notices>>
      BY <1>16 DEF HandleRingTimeout, rows, sent
    <2> QED
      BY <1>0, <2>1, <2>2, QuietStep
  <1>17. ASSUME NEW h \in Handlers, NEW r \in Replicas, NEW c \in Calls, ForceCallLimitHangup(h, r, c)
        PROVE  Verdicts'
    <2>1. WinnersKept
      BY <1>0, <1>17, MoveWinners DEF ForceCallLimitHangup
    <2>2. UNCHANGED <<state, roomState, told, notices>>
      BY <1>17 DEF ForceCallLimitHangup, rows, sent
    <2> QED
      BY <1>0, <2>1, <2>2, QuietStep
  <1>18. ASSUME NEW h \in Handlers, NEW r \in Replicas, NEW c \in Calls, HandleRoomEndedByLiveKit(h, r, c)
        PROVE  Verdicts'
    <2>1. WinnersKept
      BY <1>0, <1>18, MoveWinners DEF HandleRoomEndedByLiveKit
    <2>2. UNCHANGED <<state, roomState, told, notices>>
      BY <1>18 DEF HandleRoomEndedByLiveKit, rows, sent
    <2> QED
      BY <1>0, <2>1, <2>2, QuietStep
  <1>19. ASSUME NEW h \in Handlers, NEW r \in Replicas, NEW c \in Calls, NEW u \in Users, HandlePeerLeft(h, r, c, u)
        PROVE  Verdicts'
    <2>1. WinnersKept
      BY <1>0, <1>19, MoveWinners DEF HandlePeerLeft
    <2>2. UNCHANGED <<state, roomState, told, notices>>
      BY <1>19 DEF HandlePeerLeft, rows, sent
    <2> QED
      BY <1>0, <2>1, <2>2, QuietStep
  <1>20. ASSUME NEW h \in Handlers, ProbePeer(h)
        PROVE  Verdicts'
    <2>1. WinnersKept
      BY <1>0, <1>20, MoveWinners DEF ProbePeer
    <2>2. UNCHANGED <<state, roomState, told, notices>>
      BY <1>20 DEF ProbePeer, rows, sent
    <2> QED
      BY <1>0, <2>1, <2>2, QuietStep
  <1>21. ASSUME NEW h \in Handlers, NEW r \in Replicas, NEW c \in Calls, NEW u \in Users, GraceElapsed(h, r, c, u)
        PROVE  Verdicts'
    <2>1. WinnersKept
      BY <1>0, <1>21, MoveWinners DEF GraceElapsed
    <2>2. UNCHANGED <<state, roomState, told, notices>>
      BY <1>21 DEF GraceElapsed, rows, sent
    <2> QED
      BY <1>0, <2>1, <2>2, QuietStep
  <1>22. ASSUME NEW h \in Handlers, ConfirmPeerLeft(h)
        PROVE  Verdicts'
    <2>1. WinnersKept
      BY <1>0, <1>22, MoveWinners, GotoWinners DEF ConfirmPeerLeft
    <2>2. UNCHANGED <<state, roomState, told, notices>>
      BY <1>22 DEF ConfirmPeerLeft, rows, sent
    <2> QED
      BY <1>0, <2>1, <2>2, QuietStep
  <1>23. ASSUME NEW h \in Handlers, ClearTimers(h)
        PROVE  Verdicts'
    <2>1. WinnersKept
      BY <1>0, <1>23, GotoWinners DEF ClearTimers
    <2>2. UNCHANGED <<state, roomState, told, notices>>
      BY <1>23 DEF ClearTimers, rows, sent
    <2> QED
      BY <1>0, <2>1, <2>2, QuietStep
  <1>24. ASSUME NEW h \in Handlers, ClaimEnd(h)
        PROVE  Verdicts'
    BY <1>0, <1>24, ClaimStep
  <1>25. ASSUME NEW h \in Handlers, CloseRtcRoom(h)
        PROVE  Verdicts'
    BY <1>0, <1>25, CloseStep
  <1>26. ASSUME NEW h \in Handlers, DeleteSfuRoom(h)
        PROVE  Verdicts'
    <2>1. WinnersKept
      <3>1. Winner(h) /\ Goto(h, "tell")
        BY <1>26 DEF DeleteSfuRoom, At, Winner
      <3> QED
        BY <1>0, <3>1, GotoWinners
    <2>2. UNCHANGED <<state, roomState, told, notices>>
      BY <1>26 DEF DeleteSfuRoom, rows, sent
    <2> QED
      BY <1>0, <2>1, <2>2, QuietStep
  <1>27. ASSUME NEW h \in Handlers, TellParties(h)
        PROVE  Verdicts'
    BY <1>0, <1>27, TellStep
  <1>28. ASSUME NEW r \in Replicas, Restart(r)
        PROVE  Verdicts'
    <2>1. WinnersKept
      BY <1>0, <1>28 DEF Restart, WinnersKept, Winner, Idle
    <2>2. UNCHANGED <<state, roomState, told, notices>>
      BY <1>28 DEF Restart, rows, sent
    <2> QED
      BY <1>0, <2>1, <2>2, QuietStep
  <1>29. ASSUME NEW h \in Handlers, QueryRejects(h)
        PROVE  Verdicts'
    <2>1. WinnersKept
      BY <1>0, <1>29, MoveWinners DEF QueryRejects
    <2>2. UNCHANGED <<state, roomState, told, notices>>
      BY <1>29 DEF QueryRejects, rows, sent
    <2> QED
      BY <1>0, <2>1, <2>2, QuietStep
  <1>30. ASSUME NEW c \in Calls, NEW u \in Users, Join(c, u)
        PROVE  Verdicts'
    <2>1. WinnersKept
      BY <1>0, <1>30 DEF Join, WinnersKept, Winner
    <2>2. UNCHANGED <<state, roomState, told, notices>>
      BY <1>30 DEF Join, rows, sent
    <2> QED
      BY <1>0, <2>1, <2>2, QuietStep
  <1>31. ASSUME NEW c \in Calls, NEW u \in Users, Drop(c, u)
        PROVE  Verdicts'
    <2>1. WinnersKept
      BY <1>0, <1>31 DEF Drop, WinnersKept, Winner
    <2>2. UNCHANGED <<state, roomState, told, notices>>
      BY <1>31 DEF Drop, rows, sent
    <2> QED
      BY <1>0, <2>1, <2>2, QuietStep
  <1>32. ASSUME NEW c \in Calls, ExpireEmptyRoom(c)
        PROVE  Verdicts'
    <2>1. WinnersKept
      BY <1>0, <1>32 DEF ExpireEmptyRoom, WinnersKept, Winner
    <2>2. UNCHANGED <<state, roomState, told, notices>>
      BY <1>32 DEF ExpireEmptyRoom, rows, sent
    <2> QED
      BY <1>0, <2>1, <2>2, QuietStep
  <1>33. CASE UNCHANGED vars
    BY <1>0, <1>33, QuietStep DEF vars, rows, sent, WinnersKept, Winner
  <1> QED
    BY <1>1, <1>2, <1>3, <1>4, <1>5, <1>6, <1>7, <1>8, <1>9, <1>10, <1>11, <1>12, <1>13, <1>14,
       <1>15, <1>16, <1>17, <1>18, <1>19, <1>20, <1>21, <1>22, <1>23, <1>24, <1>25, <1>26,
       <1>27, <1>28, <1>29, <1>30, <1>31, <1>32, <1>33
    DEF Next, Frame, TimerFires, Webhook, Resume, Environment

-----------------------------------------------------------------------------
(* Ringing calls are watched, and connected ones reachable.                *)

Watched == HandlersInOrder /\ RingingIsWatched /\ ConnectedIsReachable

\* A handler that will start the timer of a ringing call, or end the call.
Watches(h, c) ==
    /\ handler[h].call = c
    /\ \/ At(h, "ring")
       \/ handler[h].pc \in {"clear", "claim"} /\ FromStates(handler[h].op) = {"RINGING"}

\* A handler that will complete a connected call, or fail it.
Completes(h, c) ==
    /\ handler[h].call = c
    /\ \/ handler[h].pc \in {"activate", "announce"}
       \/ handler[h].pc \in {"clear", "claim"} /\ handler[h].op = "setupFailed"

Complete(c) == roomState[c] = "ACTIVE" /\ named[c] /\ accepted[c]

\* No call goes back, and what accept has set up stays as long as the call.
Onward ==
    \A c \in Calls :
        /\ state[c] \notin {"NONE", "RINGING"} => state'[c] \notin {"NONE", "RINGING"}
        /\ state[c] \notin {"NONE", "RINGING", "CONNECTING"} =>
             state'[c] # "CONNECTING" /\ (state'[c] = "CONNECTED" => state[c] = "CONNECTED")
        /\ state'[c] = "CONNECTED" /\ roomState[c] = "ACTIVE" /\ named[c] =>
             roomState'[c] = "ACTIVE" /\ named'[c]
        /\ accepted[c] => accepted'[c]

\* A step that neither moves a call nor touches its room goes onward.
LEMMA StillOnward ==
    ASSUME UNCHANGED <<state, roomState, named, accepted>>
    PROVE  Onward
  BY DEF Onward

\* Handlers stay in order when the calls go onward and who moves gets a record in order.
LEMMA OrderStep ==
    ASSUME HandlersInOrder, Onward,
           \A g \in Handlers : handler'[g] = handler[g] \/ InOrder(handler[g])'
    PROVE  HandlersInOrder'
  <1> SUFFICES ASSUME NEW g \in Handlers, handler'[g] = handler[g]
               PROVE  InOrder(handler[g])'
    BY DEF HandlersInOrder
  <1>1. InOrder(handler[g])
    BY DEF HandlersInOrder
  <1> QED
    BY <1>1 DEF InOrder, Onward

\* A step of one handler keeps every call watched if it takes over what it takes away.
LEMMA DutyStep ==
    ASSUME Watched, Onward, faults' = faults, NEW h \in Handlers, InOrder(handler[h])',
           \A g \in Handlers : g # h => handler'[g] = handler[g],
           \A c \in Calls : state'[c] = "RINGING" =>
               \/ /\ state[c] = "RINGING" /\ ~Watches(h, c)
                  /\ \A r \in Replicas : c \in ringTimers[r] => c \in ringTimers'[r]
               \/ \E r \in Replicas : c \in ringTimers'[r]
               \/ Watches(h, c)',
           \A c \in Calls : state'[c] = "CONNECTED" =>
               \/ state[c] = "CONNECTED" /\ ~Completes(h, c)
               \/ Complete(c)'
               \/ Completes(h, c)'
    PROVE  Watched'
  <1>1. HandlersInOrder'
    BY OrderStep DEF Watched
  <1>2. ASSUME faults = 0, NEW c \in Calls, state'[c] = "RINGING"
        PROVE  \/ \E r \in Replicas : c \in ringTimers'[r]
               \/ \E g \in Handlers : Watches(g, c)'
    <2>1. CASE /\ state[c] = "RINGING" /\ ~Watches(h, c)
               /\ \A r \in Replicas : c \in ringTimers[r] => c \in ringTimers'[r]
      <3>1. \/ \E r \in Replicas : c \in ringTimers[r]
            \/ \E g \in Handlers : Watches(g, c)
        BY <1>2, <2>1 DEF Watched, RingingIsWatched, InFlight, Watches
      <3>2. ASSUME NEW g \in Handlers, Watches(g, c) PROVE Watches(g, c)'
        BY <2>1, <3>2 DEF Watches, At
      <3> QED
        BY <2>1, <3>1, <3>2
    <2> QED
      BY <1>2, <2>1
  <1>3. ASSUME faults = 0, NEW c \in Calls, state'[c] = "CONNECTED"
        PROVE  Complete(c)' \/ \E g \in Handlers : Completes(g, c)'
    <2>1. CASE state[c] = "CONNECTED" /\ ~Completes(h, c)
      <3>1. Complete(c) \/ \E g \in Handlers : Completes(g, c)
        BY <1>3, <2>1 DEF Watched, ConnectedIsReachable, InFlight, Completes, Complete
      <3>2. ASSUME NEW g \in Handlers, Completes(g, c) PROVE Completes(g, c)'
        BY <2>1, <3>2 DEF Completes
      <3>3. Complete(c) => Complete(c)'
        BY <1>3 DEF Complete, Onward
      <3> QED
        BY <3>1, <3>2, <3>3
    <2> QED
      BY <1>3, <2>1
  <1>4. RingingIsWatched'
    BY <1>2 DEF RingingIsWatched, InFlight, Watches
  <1>5. ConnectedIsReachable'
    BY <1>3 DEF ConnectedIsReachable, InFlight, Completes, Complete
  <1> QED
    BY <1>1, <1>4, <1>5 DEF Watched

\* A handler that no call depends on moves, and no call comes to need one.
LEMMA FreeStep ==
    ASSUME Watched, Onward, faults' = faults, NEW h \in Handlers, InOrder(handler[h])',
           \A g \in Handlers : g # h => handler'[g] = handler[g],
           handler[h].pc \notin {"ring", "clear", "claim", "activate", "announce"},
           \A c \in Calls : state'[c] \in {"RINGING", "CONNECTED"} => state'[c] = state[c],
           \A c \in Calls, r \in Replicas :
               state'[c] = "RINGING" /\ c \in ringTimers[r] => c \in ringTimers'[r]
    PROVE  Watched'
  <1>1. \A c \in Calls : ~Watches(h, c) /\ ~Completes(h, c)
    BY DEF Watches, Completes, At
  <1> QED
    BY <1>1, DutyStep

\* The records that handlers start with, or return to, are in order.
LEMMA ReturnInOrder ==
    ASSUME handler \in [Handlers -> Handler], NEW h \in Handlers, Return(h)
    PROVE  InOrder(handler[h])'
  BY DEF Return, InOrder, Idle

\* So are those of the operations that only end a ringing call, from their first place.
LEMMA BeginInOrder ==
    ASSUME handler \in [Handlers -> Handler], NEW h \in Handlers,
           NEW op \in {"reject", "cancel", "ringTimeout"}, NEW r, NEW c, NEW u,
           Begin(h, op, "clear", r, c, u)
    PROVE  InOrder(handler[h])'
  BY DEF Begin, InOrder

\* So are those of the operations on a call that was answered.
LEMMA AnsweredInOrder ==
    ASSUME handler \in [Handlers -> Handler], NEW h \in Handlers,
           NEW op \in {"hangup", "roomFinished", "peerLeft", "limit"},
           NEW pc \in {"clear", "probe", "confirm"}, NEW r, NEW c \in Calls, NEW u,
           state'[c] \in {"CONNECTING", "CONNECTED"},
           Begin(h, op, pc, r, c, u)
    PROVE  InOrder(handler[h])'
  BY DEF Begin, InOrder

\* And those of a disconnect, at every round.
LEMMA GiveUpInOrder ==
    ASSUME handler \in [Handlers -> Handler], NEW h \in Handlers,
           NEW r, NEW c, NEW u, NEW left, GiveUp(h, r, c, u, left)
    PROVE  InOrder(handler[h])'
  <1>1. GoneOp(c, u) \in {"callerGone", "calleeGone"}
    BY DEF GoneOp
  <1>2. handler'[h].op = GoneOp(c, u) /\ handler'[h].pc = "clear"
    BY DEF GiveUp
  <1> QED
    BY <1>1, <1>2 DEF InOrder

\* And those endCall leaves behind: an idle slot, or the next round of a disconnect.
LEMMA FinishedInOrder ==
    ASSUME handler \in [Handlers -> Handler], NEW h \in Handlers, Finished(h)
    PROVE  InOrder(handler[h])' /\ \A g \in Handlers : g # h => handler'[g] = handler[g]
  <1>1. CASE Return(h)
    BY <1>1, ReturnInOrder DEF Return
  <1>2. ASSUME NEW c, GiveUp(h, handler[h].rep, c, handler[h].user, handler[h].todo \ {c})
        PROVE  InOrder(handler[h])' /\ \A g \in Handlers : g # h => handler'[g] = handler[g]
    BY <1>2, GiveUpInOrder DEF GiveUp
  <1> QED
    BY <1>1, <1>2 DEF Finished

\* The same when neither the rows nor the ring timers change.
LEMMA QuietFreeStep ==
    ASSUME Watched, NEW h \in Handlers, InOrder(handler[h])',
           \A g \in Handlers : g # h => handler'[g] = handler[g],
           handler[h].pc \notin {"ring", "clear", "claim", "activate", "announce"},
           UNCHANGED <<state, roomState, named, accepted, ringTimers, faults>>
    PROVE  Watched'
  BY StillOnward, FreeStep

\* When no handler moves and the rows and ring timers stay, nothing is disturbed.
LEMMA AsideStep ==
    ASSUME Watched, UNCHANGED <<handler, state, roomState, named, accepted, ringTimers, faults>>
    PROVE  Watched'
  BY DEF Watched, HandlersInOrder, InOrder, RingingIsWatched, ConnectedIsReachable, InFlight, At


\* Every step keeps ringing calls watched and connected ones reachable.
LEMMA WatchStep == TypeOK /\ HandlerOK /\ Verdicts /\ Watched /\ [Next]_vars => Watched'
  <1> SUFFICES ASSUME TypeOK, HandlerOK, Verdicts, Watched, [Next]_vars PROVE Watched'
    OBVIOUS
  <1>0. /\ Watched /\ HandlersInOrder /\ HandlerOK /\ Verdicts /\ TypeOK
        /\ handler \in [Handlers -> Handler]
        /\ state \in [Calls -> {"NONE"} \union ActiveStates \union EndStates]
        /\ roomState \in [Calls -> RoomStates] /\ named \in [Calls -> BOOLEAN]
        /\ accepted \in [Calls -> BOOLEAN] /\ ringTimers \in [Replicas -> SUBSET Calls]
        /\ faults \in Nat
    BY FaultBound DEF TypeOK, RowsOK, TimersOK, SentOK, Watched
  <1>1. ASSUME NEW h \in Handlers, NEW r \in Replicas, NEW u \in Users, NEW v \in Users,
           Invite(h, r, u, v)
        PROVE  Watched'
    <2>1. UNCHANGED <<state, roomState, named, accepted, ringTimers, faults>>
      BY <1>1 DEF Invite, rows, timers, sent
    <2>2. InOrder(handler[h])' /\ \A g \in Handlers : g # h => handler'[g] = handler[g]
      BY <1>0, <1>1 DEF Invite, InOrder
    <2>3. handler[h].pc \notin {"ring", "clear", "claim", "activate", "announce"}
      BY <1>1 DEF Invite, At
    <2> QED
      BY <1>0, <2>1, <2>2, <2>3, QuietFreeStep
  <1>2. ASSUME NEW h \in Handlers, CreateCall(h)
        PROVE  Watched'
    <2>1. PICK c \in Calls :
            /\ state[c] = "NONE"
            /\ state' = [state EXCEPT ![c] = "RINGING"]
            /\ roomState' = [roomState EXCEPT ![c] = "PENDING"]
            /\ handler' = [handler EXCEPT ![h].pc = "ring", ![h].call = c]
      BY <1>2 DEF CreateCall
    <2>2. /\ handler[h].pc = "create" /\ handler[h].op = "invite"
          /\ UNCHANGED <<named, accepted, ringTimers, faults>>
      BY <1>0, <1>2 DEF CreateCall, At, timers, sent, HandlersInOrder, InOrder
    <2>3. /\ handler'[h].pc = "ring" /\ handler'[h].call = c /\ handler'[h].op = "invite"
          /\ \A g \in Handlers : g # h => handler'[g] = handler[g]
      BY <1>0, <2>1, <2>2 DEF Handler
    <2>4. InOrder(handler[h])'
      BY <2>3 DEF InOrder
    <2>5. Onward
      BY <1>0, <2>1, <2>2 DEF Onward
    <2>6. Watches(h, c)' /\ \A d \in Calls : ~Watches(h, d) /\ ~Completes(h, d)
      BY <2>2, <2>3 DEF Watches, Completes, At
    <2>7. state'[c] = "RINGING" /\ \A d \in Calls : d # c => state'[d] = state[d]
      BY <1>0, <2>1
    <2> QED
      BY <1>0, <2>2, <2>3, <2>4, <2>5, <2>6, <2>7, DutyStep
  <1>3. ASSUME NEW h \in Handlers, StartRingTimeout(h)
        PROVE  Watched'
    <2>1. /\ UNCHANGED <<state, roomState, named, accepted, faults>> /\ Return(h)
          /\ handler[h].pc = "ring" /\ handler[h].rep \in Replicas /\ handler[h].call \in Calls
          /\ ringTimers' =
               [ringTimers EXCEPT ![handler[h].rep] = @ \union {handler[h].call}]
      BY <1>0, <1>3 DEF StartRingTimeout, At, rows, sent, HandlerOK, Carries
    <2>2. InOrder(handler[h])' /\ \A g \in Handlers : g # h => handler'[g] = handler[g]
      BY <1>0, <2>1, ReturnInOrder DEF Return
    <2>3. /\ \A c \in Calls, r \in Replicas : c \in ringTimers[r] => c \in ringTimers'[r]
          /\ handler[h].call \in ringTimers'[handler[h].rep]
      BY <1>0, <2>1
    <2>4. \A c \in Calls : ~Completes(h, c) /\ (Watches(h, c) => c = handler[h].call)
      BY <2>1 DEF Completes, Watches
    <2> QED
      BY <1>0, <2>1, <2>2, <2>3, <2>4, StillOnward, DutyStep
  <1>4. ASSUME NEW h \in Handlers, NEW r \in Replicas, NEW c \in Calls, Accept(h, r, c)
        PROVE  Watched'
    <2>1. /\ state[c] = "RINGING" /\ state' = [state EXCEPT ![c] = "CONNECTING"]
          /\ UNCHANGED <<roomState, named, accepted, ringTimers, faults>>
          /\ handler[h].pc = "idle" /\ Begin(h, "accept", "lookup", r, c, callee[c])
      BY <1>4 DEF Accept, At, timers, sent
    <2>2. state'[c] = "CONNECTING" /\ \A d \in Calls : d # c => state'[d] = state[d]
      BY <1>0, <2>1
    <2>3. InOrder(handler[h])' /\ \A g \in Handlers : g # h => handler'[g] = handler[g]
      BY <1>0, <2>1, <2>2 DEF Begin, InOrder
    <2>4. Onward
      BY <2>1, <2>2 DEF Onward
    <2> QED
      BY <1>0, <2>1, <2>2, <2>3, <2>4, FreeStep
  <1>5. ASSUME NEW h \in Handlers, LookUp(h)
        PROVE  Watched'
    <2>1. /\ UNCHANGED <<state, roomState, named, accepted, faults>> /\ Goto(h, "createRoom")
          /\ handler[h].pc = "lookup" /\ handler[h].rep \in Replicas
          /\ ringTimers' = [ringTimers EXCEPT ![handler[h].rep] = @ \ {handler[h].call}]
      BY <1>0, <1>5 DEF LookUp, At, rows, sent, HandlerOK, Carries
    <2>2. /\ handler[h].op = "accept" /\ handler[h].call \in Calls
          /\ state[handler[h].call] \notin {"NONE", "RINGING"}
      BY <1>0, <2>1 DEF HandlersInOrder, InOrder
    <2>3. InOrder(handler[h])' /\ \A g \in Handlers : g # h => handler'[g] = handler[g]
      BY <1>0, <2>1, <2>2 DEF Goto, InOrder, Handler
    <2>4. \A c \in Calls, r \in Replicas :
            state'[c] = "RINGING" /\ c \in ringTimers[r] => c \in ringTimers'[r]
      BY <1>0, <2>1, <2>2
    <2> QED
      BY <1>0, <2>1, <2>3, <2>4, StillOnward, FreeStep
  <1>6. ASSUME NEW h \in Handlers, CreateRoom(h)
        PROVE  Watched'
    <2>1. UNCHANGED <<state, roomState, named, accepted, ringTimers, faults>>
      BY <1>6 DEF CreateRoom, rows, timers, sent
    <2>2. InOrder(handler[h])' /\ \A g \in Handlers : g # h => handler'[g] = handler[g]
      <3>1. Goto(h, "connect") /\ handler[h].pc = "createRoom"
        BY <1>6 DEF CreateRoom, At
      <3> QED
        BY <1>0, <2>1, <3>1 DEF Goto, HandlersInOrder, InOrder, Handler
    <2>3. handler[h].pc \notin {"ring", "clear", "claim", "activate", "announce"}
      BY <1>6 DEF CreateRoom, At
    <2> QED
      BY <1>0, <2>1, <2>2, <2>3, QuietFreeStep
  <1>7. ASSUME NEW h \in Handlers, Connect(h)
        PROVE  Watched'
    <2>1. /\ handler[h].pc = "connect"
          /\ UNCHANGED <<roomState, named, accepted, ringTimers, faults>>
      BY <1>7 DEF Connect, At, timers, sent
    <2>2. PICK c \in Calls :
            /\ c = handler[h].call /\ handler[h].op = "accept"
            /\ state[c] \notin {"NONE", "RINGING"}
      BY <1>0, <2>1 DEF HandlersInOrder, InOrder
    <2>3. \A d \in Calls : ~Watches(h, d) /\ ~Completes(h, d)
      BY <2>1 DEF Watches, Completes, At
    <2>4. CASE state[c] = "CONNECTING"
      <3>1. state' = [state EXCEPT ![c] = "CONNECTED"] /\ Goto(h, "activate")
        BY <1>7, <2>2, <2>4 DEF Connect
      <3>2. /\ handler'[h].pc = "activate" /\ handler'[h].call = c
            /\ handler'[h].op = "accept"
            /\ \A g \in Handlers : g # h => handler'[g] = handler[g]
        BY <1>0, <2>2, <3>1 DEF Goto, Handler
      <3>3. state'[c] = "CONNECTED" /\ \A d \in Calls : d # c => state'[d] = state[d]
        BY <1>0, <2>2, <3>1
      <3>4. InOrder(handler[h])' /\ Completes(h, c)'
        BY <2>2, <3>2, <3>3 DEF InOrder, Completes
      <3>5. Onward
        BY <2>1, <2>4, <3>3 DEF Onward
      <3> QED
        BY <1>0, <2>1, <2>3, <3>2, <3>3, <3>4, <3>5, DutyStep
    <2>5. CASE state[c] # "CONNECTING"
      <3>1. UNCHANGED state /\ Goto(h, "undo")
        BY <1>7, <2>2, <2>5 DEF Connect
      <3>2. InOrder(handler[h])' /\ \A g \in Handlers : g # h => handler'[g] = handler[g]
        BY <1>0, <2>1, <2>2, <3>1 DEF Goto, InOrder, Handler
      <3> QED
        BY <1>0, <2>1, <3>1, <3>2, QuietFreeStep
    <2> QED
      BY <2>4, <2>5
  <1>8. ASSUME NEW h \in Handlers, Activate(h)
        PROVE  Watched'
    <2>1. /\ handler[h].pc = "activate" /\ Goto(h, "announce")
          /\ UNCHANGED <<state, accepted, ringTimers, faults>>
      BY <1>8 DEF Activate, At, timers, sent
    <2>2. PICK c \in Calls :
            /\ c = handler[h].call /\ handler[h].op = "accept"
            /\ state[c] \notin {"NONE", "RINGING", "CONNECTING"}
      BY <1>0, <2>1 DEF HandlersInOrder, InOrder
    <2>3. /\ handler'[h].pc = "announce" /\ handler'[h].call = c
          /\ handler'[h].op = "accept"
          /\ \A g \in Handlers : g # h => handler'[g] = handler[g]
      BY <1>0, <2>1, <2>2 DEF Goto, Handler
    <2>4. \A d \in Calls : ~Watches(h, d) /\ (Completes(h, d) => d = c)
      BY <2>1, <2>2 DEF Watches, Completes, At
    <2>5. /\ roomState'[c] = "ACTIVE" /\ named'[c]
          /\ \A d \in Calls : d # c => roomState'[d] = roomState[d] /\ named'[d] = named[d]
      BY <1>0, <1>8, <2>2 DEF Activate
    <2>6. InOrder(handler[h])' /\ Completes(h, c)'
      BY <2>1, <2>2, <2>3, <2>5 DEF InOrder, Completes
    <2>7. Onward
      BY <2>1, <2>5 DEF Onward
    <2> QED
      BY <1>0, <2>1, <2>3, <2>4, <2>6, <2>7, DutyStep
  <1>9. ASSUME NEW h \in Handlers, AnnounceAccepted(h)
        PROVE  Watched'
    <2>1. /\ handler[h].pc = "announce" /\ Return(h)
          /\ UNCHANGED <<state, roomState, named, ringTimers, faults>>
      BY <1>9 DEF AnnounceAccepted, At, rows
    <2>2. PICK c \in Calls :
            /\ c = handler[h].call
            /\ state[c] = "CONNECTED" => roomState[c] = "ACTIVE" /\ named[c]
      BY <1>0, <2>1 DEF HandlersInOrder, InOrder
    <2>3. InOrder(handler[h])' /\ \A g \in Handlers : g # h => handler'[g] = handler[g]
      BY <1>0, <2>1, ReturnInOrder DEF Return
    <2>4. \A d \in Calls : ~Watches(h, d) /\ (Completes(h, d) => d = c)
      BY <2>1, <2>2 DEF Watches, Completes, At
    <2>5. accepted'[c] /\ \A d \in Calls : d # c => accepted'[d] = accepted[d]
      BY <1>0, <1>9, <2>2 DEF AnnounceAccepted
    <2>7. state'[c] = "CONNECTED" => Complete(c)'
      BY <2>1, <2>2, <2>5 DEF Complete
    <2>6. Onward
      BY <2>1, <2>5 DEF Onward
    <2> QED
      BY <1>0, <2>1, <2>3, <2>4, <2>6, <2>7, DutyStep
  <1>10. ASSUME NEW h \in Handlers, SetupFails(h)
        PROVE  Watched'
    <2>1. /\ handler[h].pc \in {"createRoom", "connect", "activate"}
          /\ handler' = [handler EXCEPT ![h].op = "setupFailed", ![h].pc = "clear"]
          /\ UNCHANGED <<state, roomState, named, accepted, ringTimers, faults>>
      BY <1>10 DEF SetupFails, At, rows, timers, sent
    <2>2. PICK c \in Calls : c = handler[h].call /\ state[c] \notin {"NONE", "RINGING"}
      BY <1>0, <2>1 DEF HandlersInOrder, InOrder
    <2>3. /\ handler'[h].pc = "clear" /\ handler'[h].call = c
          /\ handler'[h].op = "setupFailed"
          /\ \A g \in Handlers : g # h => handler'[g] = handler[g]
      BY <1>0, <2>1, <2>2 DEF Handler
    <2>4. \A d \in Calls : ~Watches(h, d) /\ (Completes(h, d) => d = c)
      BY <2>1, <2>2 DEF Watches, Completes, At
    <2>5. InOrder(handler[h])' /\ Completes(h, c)'
      BY <2>1, <2>2, <2>3 DEF InOrder, Completes
    <2> QED
      BY <1>0, <2>1, <2>3, <2>4, <2>5, StillOnward, DutyStep
  <1>11. ASSUME NEW h \in Handlers, UndoRoom(h)
        PROVE  Watched'
    <2>1. UNCHANGED <<state, roomState, named, accepted, ringTimers, faults>>
      BY <1>11 DEF UndoRoom, rows, timers, sent
    <2>2. InOrder(handler[h])' /\ \A g \in Handlers : g # h => handler'[g] = handler[g]
      BY <1>0, <1>11, ReturnInOrder DEF UndoRoom, Return
    <2>3. handler[h].pc \notin {"ring", "clear", "claim", "activate", "announce"}
      BY <1>11 DEF UndoRoom, At
    <2> QED
      BY <1>0, <2>1, <2>2, <2>3, QuietFreeStep
  <1>12. ASSUME NEW h \in Handlers, NEW r \in Replicas, NEW c \in Calls, Reject(h, r, c)
        PROVE  Watched'
    <2>1. UNCHANGED <<state, roomState, named, accepted, ringTimers, faults>>
      BY <1>12 DEF Reject, rows, timers, sent
    <2>2. InOrder(handler[h])' /\ \A g \in Handlers : g # h => handler'[g] = handler[g]
      <3>1. Begin(h, "reject", "clear", r, c, callee[c])
        BY <1>12 DEF Reject
      <3> QED
        BY <1>0, <3>1, BeginInOrder DEF Begin
    <2>3. handler[h].pc \notin {"ring", "clear", "claim", "activate", "announce"}
      BY <1>12 DEF Reject, At
    <2> QED
      BY <1>0, <2>1, <2>2, <2>3, QuietFreeStep
  <1>13. ASSUME NEW h \in Handlers, NEW r \in Replicas, NEW c \in Calls, Cancel(h, r, c)
        PROVE  Watched'
    <2>1. UNCHANGED <<state, roomState, named, accepted, ringTimers, faults>>
      BY <1>13 DEF Cancel, rows, timers, sent
    <2>2. InOrder(handler[h])' /\ \A g \in Handlers : g # h => handler'[g] = handler[g]
      <3>1. Begin(h, "cancel", "clear", r, c, caller[c])
        BY <1>13 DEF Cancel
      <3> QED
        BY <1>0, <3>1, BeginInOrder DEF Begin
    <2>3. handler[h].pc \notin {"ring", "clear", "claim", "activate", "announce"}
      BY <1>13 DEF Cancel, At
    <2> QED
      BY <1>0, <2>1, <2>2, <2>3, QuietFreeStep
  <1>14. ASSUME NEW h \in Handlers, NEW r \in Replicas, NEW c \in Calls, Hangup(h, r, c)
        PROVE  Watched'
    <2>1. UNCHANGED <<state, roomState, named, accepted, ringTimers, faults>>
      BY <1>14 DEF Hangup, rows, timers, sent
    <2>2. InOrder(handler[h])' /\ \A g \in Handlers : g # h => handler'[g] = handler[g]
      <3>1. PICK u \in Parties(c) : Begin(h, "hangup", "clear", r, c, u)
        BY <1>14 DEF Hangup
      <3>2. state'[c] \in {"CONNECTING", "CONNECTED"}
        BY <1>14, <2>1 DEF Hangup
      <3>3. InOrder(handler[h])'
        BY <1>0, <3>1, <3>2, AnsweredInOrder
      <3> QED
        BY <1>0, <3>1, <3>3 DEF Begin
    <2>3. handler[h].pc \notin {"ring", "clear", "claim", "activate", "announce"}
      BY <1>14 DEF Hangup, At
    <2> QED
      BY <1>0, <2>1, <2>2, <2>3, QuietFreeStep
  <1>15. ASSUME NEW h \in Handlers, NEW r \in Replicas, NEW u \in Users, Disconnect(h, r, u)
        PROVE  Watched'
    <2>1. UNCHANGED <<state, roomState, named, accepted, ringTimers, faults>>
      BY <1>15 DEF Disconnect, rows, timers, sent
    <2>2. InOrder(handler[h])' /\ \A g \in Handlers : g # h => handler'[g] = handler[g]
      <3>1. PICK c, left : GiveUp(h, r, c, u, left)
        BY <1>15 DEF Disconnect
      <3> QED
        BY <1>0, <3>1, GiveUpInOrder DEF GiveUp
    <2>3. handler[h].pc \notin {"ring", "clear", "claim", "activate", "announce"}
      BY <1>15 DEF Disconnect, At
    <2> QED
      BY <1>0, <2>1, <2>2, <2>3, QuietFreeStep
  <1>16. ASSUME NEW h \in Handlers, NEW r \in Replicas, NEW c \in Calls, HandleRingTimeout(h,
            r, c)
        PROVE  Watched'
    <2>1. /\ handler[h].pc = "idle" /\ ringTimers' = [ringTimers EXCEPT ![r] = @ \ {c}]
          /\ UNCHANGED <<state, roomState, named, accepted, faults>>
      BY <1>16 DEF HandleRingTimeout, At, rows, sent
    <2>2. \A d \in Calls : ~Watches(h, d) /\ ~Completes(h, d)
      BY <2>1 DEF Watches, Completes, At
    <2>3. \A d \in Calls, q \in Replicas : d # c /\ d \in ringTimers[q] => d \in ringTimers'[q]
      BY <1>0, <2>1
    <2>4. CASE state[c] = "RINGING"
      <3>1. Begin(h, "ringTimeout", "clear", r, c, None)
        BY <1>16, <2>4 DEF HandleRingTimeout
      <3>2. /\ InOrder(handler[h])' /\ Watches(h, c)'
            /\ \A g \in Handlers : g # h => handler'[g] = handler[g]
        BY <1>0, <3>1, BeginInOrder DEF Begin, Watches, FromStates
      <3> QED
        BY <1>0, <2>1, <2>2, <2>3, <3>2, StillOnward, DutyStep
    <2>5. CASE state[c] # "RINGING"
      <3>1. UNCHANGED handler
        BY <1>16, <2>5 DEF HandleRingTimeout
      <3>2. InOrder(handler[h])'
        BY <1>0, <2>1, <3>1 DEF HandlersInOrder, InOrder
      <3> QED
        BY <1>0, <2>1, <2>2, <2>3, <2>5, <3>1, <3>2, StillOnward, DutyStep
    <2> QED
      BY <2>4, <2>5
  <1>17. ASSUME NEW h \in Handlers, NEW r \in Replicas, NEW c \in Calls,
            ForceCallLimitHangup(h, r, c)
        PROVE  Watched'
    <2>1. UNCHANGED <<state, roomState, named, accepted, ringTimers, faults>>
      BY <1>17 DEF ForceCallLimitHangup, rows, timers, sent
    <2>2. InOrder(handler[h])' /\ \A g \in Handlers : g # h => handler'[g] = handler[g]
      <3>1. CASE UNCHANGED handler
        BY <1>0, <2>1, <3>1 DEF HandlersInOrder, InOrder
      <3>2. CASE ~UNCHANGED handler
        <4>1. /\ state'[c] \in {"CONNECTING", "CONNECTED"}
              /\ Begin(h, "limit", "clear", r, c, None)
          BY <1>17, <2>1, <3>2 DEF ForceCallLimitHangup
        <4>2. InOrder(handler[h])'
          BY <1>0, <4>1, AnsweredInOrder
        <4> QED
          BY <1>0, <4>1, <4>2 DEF Begin
      <3> QED
        BY <3>1, <3>2
    <2>3. handler[h].pc \notin {"ring", "clear", "claim", "activate", "announce"}
      BY <1>17 DEF ForceCallLimitHangup, At
    <2> QED
      BY <1>0, <2>1, <2>2, <2>3, QuietFreeStep
  <1>18. ASSUME NEW h \in Handlers, NEW r \in Replicas, NEW c \in Calls,
            HandleRoomEndedByLiveKit(h, r, c)
        PROVE  Watched'
    <2>1. UNCHANGED <<state, roomState, named, accepted, ringTimers, faults>>
      BY <1>18 DEF HandleRoomEndedByLiveKit, rows, timers, sent
    <2>2. InOrder(handler[h])' /\ \A g \in Handlers : g # h => handler'[g] = handler[g]
      <3>1. CASE UNCHANGED handler
        BY <1>0, <2>1, <3>1 DEF HandlersInOrder, InOrder
      <3>2. CASE ~UNCHANGED handler
        <4>1. /\ state'[c] \in {"CONNECTING", "CONNECTED"}
              /\ Begin(h, "roomFinished", "clear", r, c, None)
          BY <1>18, <2>1, <3>2 DEF HandleRoomEndedByLiveKit
        <4>2. InOrder(handler[h])'
          BY <1>0, <4>1, AnsweredInOrder
        <4> QED
          BY <1>0, <4>1, <4>2 DEF Begin
      <3> QED
        BY <3>1, <3>2
    <2>3. handler[h].pc \notin {"ring", "clear", "claim", "activate", "announce"}
      BY <1>18 DEF HandleRoomEndedByLiveKit, At
    <2> QED
      BY <1>0, <2>1, <2>2, <2>3, QuietFreeStep
  <1>19. ASSUME NEW h \in Handlers, NEW r \in Replicas, NEW c \in Calls, NEW u \in Users,
            HandlePeerLeft(h, r, c, u)
        PROVE  Watched'
    <2>1. UNCHANGED <<state, roomState, named, accepted, ringTimers, faults>>
      BY <1>19 DEF HandlePeerLeft, rows, timers, sent
    <2>2. InOrder(handler[h])' /\ \A g \in Handlers : g # h => handler'[g] = handler[g]
      <3>1. CASE UNCHANGED handler
        BY <1>0, <2>1, <3>1 DEF HandlersInOrder, InOrder
      <3>2. CASE ~UNCHANGED handler
        <4>1. /\ state'[c] \in {"CONNECTING", "CONNECTED"}
              /\ Begin(h, "peerLeft", "probe", r, c, u)
          BY <1>19, <2>1, <3>2 DEF HandlePeerLeft
        <4>2. InOrder(handler[h])'
          BY <1>0, <4>1, AnsweredInOrder
        <4> QED
          BY <1>0, <4>1, <4>2 DEF Begin
      <3> QED
        BY <3>1, <3>2
    <2>3. handler[h].pc \notin {"ring", "clear", "claim", "activate", "announce"}
      BY <1>19 DEF HandlePeerLeft, At
    <2> QED
      BY <1>0, <2>1, <2>2, <2>3, QuietFreeStep
  <1>20. ASSUME NEW h \in Handlers, ProbePeer(h)
        PROVE  Watched'
    <2>1. UNCHANGED <<state, roomState, named, accepted, ringTimers, faults>>
      BY <1>20 DEF ProbePeer, rows, timers, sent
    <2>2. InOrder(handler[h])' /\ \A g \in Handlers : g # h => handler'[g] = handler[g]
      BY <1>0, <1>20, ReturnInOrder DEF ProbePeer, Return
    <2>3. handler[h].pc \notin {"ring", "clear", "claim", "activate", "announce"}
      BY <1>20 DEF ProbePeer, At
    <2> QED
      BY <1>0, <2>1, <2>2, <2>3, QuietFreeStep
  <1>21. ASSUME NEW h \in Handlers, NEW r \in Replicas, NEW c \in Calls, NEW u \in Users,
            GraceElapsed(h, r, c, u)
        PROVE  Watched'
    <2>1. UNCHANGED <<state, roomState, named, accepted, ringTimers, faults>>
      BY <1>21 DEF GraceElapsed, rows, timers, sent
    <2>2. InOrder(handler[h])' /\ \A g \in Handlers : g # h => handler'[g] = handler[g]
      <3>1. CASE UNCHANGED handler
        BY <1>0, <2>1, <3>1 DEF HandlersInOrder, InOrder
      <3>2. CASE ~UNCHANGED handler
        <4>1. /\ state'[c] \in {"CONNECTING", "CONNECTED"}
              /\ Begin(h, "peerLeft", "confirm", r, c, u)
          BY <1>21, <2>1, <3>2 DEF GraceElapsed
        <4>2. InOrder(handler[h])'
          BY <1>0, <4>1, AnsweredInOrder
        <4> QED
          BY <1>0, <4>1, <4>2 DEF Begin
      <3> QED
        BY <3>1, <3>2
    <2>3. handler[h].pc \notin {"ring", "clear", "claim", "activate", "announce"}
      BY <1>21 DEF GraceElapsed, At
    <2> QED
      BY <1>0, <2>1, <2>2, <2>3, QuietFreeStep
  <1>22. ASSUME NEW h \in Handlers, ConfirmPeerLeft(h)
        PROVE  Watched'
    <2>1. UNCHANGED <<state, roomState, named, accepted, ringTimers, faults>>
      BY <1>22 DEF ConfirmPeerLeft, rows, timers, sent
    <2>2. InOrder(handler[h])' /\ \A g \in Handlers : g # h => handler'[g] = handler[g]
      <3>1. CASE Return(h)
        BY <1>0, <3>1, ReturnInOrder DEF Return
      <3>2. CASE Goto(h, "clear")
        <4>1. handler[h].op = "peerLeft"
          BY <1>0, <1>22 DEF ConfirmPeerLeft, At, HandlerOK, Carries
        <4> QED
          BY <1>0, <2>1, <3>2, <4>1 DEF Goto, HandlersInOrder, InOrder, Handler
      <3> QED
        BY <1>22, <3>1, <3>2 DEF ConfirmPeerLeft
    <2>3. handler[h].pc \notin {"ring", "clear", "claim", "activate", "announce"}
      BY <1>22 DEF ConfirmPeerLeft, At
    <2> QED
      BY <1>0, <2>1, <2>2, <2>3, QuietFreeStep
  <1>23. ASSUME NEW h \in Handlers, ClearTimers(h)
        PROVE  Watched'
    <2>1. /\ handler[h].pc = "clear" /\ Goto(h, "claim")
          /\ UNCHANGED <<state, roomState, named, accepted, faults>>
      BY <1>23 DEF ClearTimers, At, rows, sent
    <2>2. PICK c \in Calls, op \in EndOps : c = handler[h].call /\ op = handler[h].op
      BY <1>0, <2>1 DEF HandlerOK, Carries
    <2>3. FromStates(op) = {"RINGING"} \/ state[c] # "RINGING"
      <3>1. op \in {"hangup", "roomFinished", "setupFailed", "peerLeft", "limit"} =>
              state[c] # "RINGING"
        BY <1>0, <2>2 DEF HandlersInOrder, InOrder
      <3>2. op \notin {"hangup", "roomFinished", "setupFailed", "peerLeft", "limit"} =>
              FromStates(op) = {"RINGING"}
        BY DEF EndOps, FromStates
      <3> QED
        BY <3>1, <3>2
    <2>4. /\ handler'[h].pc = "claim" /\ handler'[h].call = c /\ handler'[h].op = op
          /\ \A g \in Handlers : g # h => handler'[g] = handler[g]
      BY <1>0, <2>1, <2>2 DEF Goto, Handler
    <2>5. InOrder(handler[h])'
      BY <1>0, <2>1, <2>2, <2>4 DEF HandlersInOrder, InOrder
    <2>6. \A d \in Calls : /\ Watches(h, d) \/ Completes(h, d) => d = c
                           /\ Completes(h, d) => Completes(h, d)'
      BY <2>1, <2>2, <2>4 DEF Watches, Completes
    <2>7. state[c] = "RINGING" => Watches(h, c)'
      BY <2>3, <2>4 DEF Watches
    <2>8. \A d \in Calls, r \in Replicas : d # c /\ d \in ringTimers[r] => d \in ringTimers'[r]
      BY <1>0, <1>23, <2>2 DEF ClearTimers
    <2> QED
      BY <1>0, <2>1, <2>4, <2>5, <2>6, <2>7, <2>8, StillOnward, DutyStep
  <1>24. ASSUME NEW h \in Handlers, ClaimEnd(h)
        PROVE  Watched'
    <2> DEFINE c == handler[h].call
               op == handler[h].op
    <2>1. handler[h].pc = "claim" /\ UNCHANGED <<roomState, named, accepted, ringTimers, faults>>
      BY <1>24 DEF ClaimEnd, At, timers, sent
    <2>2. c \in Calls /\ op \in EndOps
      BY <1>0, <2>1 DEF HandlerOK, Carries
    <2>3. \A d \in Calls :
            /\ Watches(h, d) => d = c /\ FromStates(op) = {"RINGING"}
            /\ Completes(h, d) => d = c /\ op = "setupFailed"
      BY <2>1 DEF Watches, Completes, At
    <2>4. CASE state[c] \in FromStates(op)
      <3>1. state' = [state EXCEPT ![c] = ToState(op)] /\ Goto(h, "close")
        BY <1>24, <2>4 DEF ClaimEnd
      <3>2. ToState(op) \in EndStates /\ state[c] \in ActiveStates
        BY <2>2, <2>4, EndOpStates
      <3>3. /\ handler'[h].pc = "close" /\ handler'[h].call = c /\ handler'[h].op = op
            /\ \A g \in Handlers : g # h => handler'[g] = handler[g]
        BY <1>0, <3>1 DEF Goto, Handler
      <3> HIDE DEF c, op
      <3>4. /\ state'[c] = ToState(op) /\ \A d \in Calls : d # c => state'[d] = state[d]
            /\ state'[c] \notin {"NONE", "RINGING", "CONNECTING", "CONNECTED"}
        BY <1>0, <2>2, <3>1, <3>2 DEF EndStates
      <3>5. InOrder(handler[h])'
        BY <2>2, <3>3, <3>4 DEF InOrder
      <3>6. Onward
        BY <2>1, <3>4 DEF Onward
      <3> QED
        BY <1>0, <2>1, <2>3, <3>3, <3>4, <3>5, <3>6, DutyStep
    <2>5. CASE state[c] \notin FromStates(op)
      <3>1. UNCHANGED state /\ Finished(h)
        BY <1>24, <2>5 DEF ClaimEnd
      <3>2. \A d \in Calls :
              /\ state[d] = "RINGING" => ~Watches(h, d)
              /\ state[d] = "CONNECTED" => ~Completes(h, d)
        BY <2>3, <2>5 DEF FromStates
      <3> QED
        BY <1>0, <2>1, <3>1, <3>2, FinishedInOrder, StillOnward, DutyStep
    <2> QED
      BY <2>4, <2>5
  <1>25. ASSUME NEW h \in Handlers, CloseRtcRoom(h)
        PROVE  Watched'
    <2>1. /\ handler[h].pc = "close" /\ Winner(h)
          /\ roomState' = [roomState EXCEPT ![handler[h].call] = "ENDED"]
          /\ UNCHANGED <<state, named, accepted, ringTimers, faults>>
          /\ \E pc \in {"delete", "tell"} : Goto(h, pc)
      BY <1>25 DEF CloseRtcRoom, At, Winner, timers, sent
    <2>2. handler[h].call \in Calls /\ state[handler[h].call] \in EndStates
      BY <1>0, <2>1, WinnerIsOver
    <2>3. Onward
      BY <1>0, <2>1, <2>2 DEF Onward, EndStates
    <2>4. InOrder(handler[h])' /\ \A g \in Handlers : g # h => handler'[g] = handler[g]
      BY <1>0, <2>1 DEF Goto, HandlersInOrder, InOrder, Handler
    <2> QED
      BY <1>0, <2>1, <2>3, <2>4, FreeStep
  <1>26. ASSUME NEW h \in Handlers, DeleteSfuRoom(h)
        PROVE  Watched'
    <2>1. UNCHANGED <<state, roomState, named, accepted, ringTimers, faults>>
      BY <1>26 DEF DeleteSfuRoom, rows, timers, sent
    <2>2. InOrder(handler[h])' /\ \A g \in Handlers : g # h => handler'[g] = handler[g]
      <3>1. Goto(h, "tell")
        BY <1>26 DEF DeleteSfuRoom
      <3> QED
        BY <1>0, <2>1, <3>1 DEF Goto, HandlersInOrder, InOrder, Handler
    <2>3. handler[h].pc \notin {"ring", "clear", "claim", "activate", "announce"}
      BY <1>26 DEF DeleteSfuRoom, At
    <2> QED
      BY <1>0, <2>1, <2>2, <2>3, QuietFreeStep
  <1>27. ASSUME NEW h \in Handlers, TellParties(h)
        PROVE  Watched'
    <2>1. UNCHANGED <<state, roomState, named, accepted, ringTimers, faults>>
      BY <1>27 DEF TellParties, rows, timers, sent
    <2>2. InOrder(handler[h])' /\ \A g \in Handlers : g # h => handler'[g] = handler[g]
      BY <1>0, <1>27, FinishedInOrder DEF TellParties
    <2>3. handler[h].pc \notin {"ring", "clear", "claim", "activate", "announce"}
      BY <1>27 DEF TellParties, At
    <2> QED
      BY <1>0, <2>1, <2>2, <2>3, QuietFreeStep
  <1>28. ASSUME NEW r \in Replicas, Restart(r)
        PROVE  Watched'
    <2>1. UNCHANGED <<state, roomState, named, accepted>> /\ faults' = faults + 1
      BY <1>28 DEF Restart, rows, sent
    <2>2. \A g \in Handlers : handler'[g] \in {handler[g], Idle}
      BY <1>0, <1>28 DEF Restart
    <2>3. \A g \in Handlers : handler'[g] = Idle => InOrder(handler[g])'
      BY DEF InOrder, Idle
    <2>4. HandlersInOrder'
      BY <1>0, <2>1, <2>2, <2>3, StillOnward, OrderStep
    <2> QED
      BY <1>0, <2>1, <2>4 DEF Watched, RingingIsWatched, ConnectedIsReachable
  <1>29. ASSUME NEW h \in Handlers, QueryRejects(h)
        PROVE  Watched'
    <2>1. UNCHANGED <<state, roomState, named, accepted>> /\ faults' = faults + 1 /\ Return(h)
      BY <1>29 DEF QueryRejects, rows, sent
    <2>2. InOrder(handler[h])' /\ \A g \in Handlers : g # h => handler'[g] = handler[g]
      BY <1>0, <2>1, ReturnInOrder DEF Return
    <2>3. HandlersInOrder'
      BY <1>0, <2>1, <2>2, StillOnward, OrderStep
    <2> QED
      BY <1>0, <2>1, <2>3 DEF Watched, RingingIsWatched, ConnectedIsReachable
  <1>30. ASSUME NEW c \in Calls, NEW u \in Users, Join(c, u)
        PROVE  Watched'
    BY <1>0, <1>30, AsideStep DEF Join, rows, timers, sent
  <1>31. ASSUME NEW c \in Calls, NEW u \in Users, Drop(c, u)
        PROVE  Watched'
    BY <1>0, <1>31, AsideStep DEF Drop, rows, timers, sent
  <1>32. ASSUME NEW c \in Calls, ExpireEmptyRoom(c)
        PROVE  Watched'
    BY <1>0, <1>32, AsideStep DEF ExpireEmptyRoom, rows, timers, sent
  <1>33. CASE UNCHANGED vars
    BY <1>0, <1>33, AsideStep DEF vars, rows, timers, sent
  <1> QED
    BY <1>1, <1>2, <1>3, <1>4, <1>5, <1>6, <1>7, <1>8, <1>9, <1>10, <1>11, <1>12, <1>13, <1>14,
       <1>15, <1>16, <1>17, <1>18, <1>19, <1>20, <1>21, <1>22, <1>23, <1>24, <1>25, <1>26,
       <1>27, <1>28, <1>29, <1>30, <1>31, <1>32, <1>33
    DEF Next, Frame, TimerFires, Webhook, Resume, Environment

-----------------------------------------------------------------------------
\* The inductive invariant holds in every reachable state.
THEOREM Invariance == Spec => []IInv
  <1>1. Init => IInv
    BY InitIInv
  <1>2. IInv /\ [Next]_vars => IInv'
    BY TypeStep, VerdictStep, WatchStep DEF IInv, Verdicts, Watched
  <1> QED
    BY <1>1, <1>2, PTL DEF Spec

\* Every variable keeps its type.
THEOREM TypeCorrectness == Spec => []TypeOK
  <1>1. IInv => TypeOK
    BY DEF IInv
  <1> QED
    BY <1>1, Invariance, PTL

\* However many handlers end a call at once, each party hears at most one
\* outcome, the one that CallSession records.
THEOREM OneOutcomePerParty == Spec => []OneVerdict
  <1>1. IInv => OneVerdict
    BY DEF IInv
  <1> QED
    BY <1>1, Invariance, PTL

\* The callee is notified of a missed call at most once, and only of a missed one.
THEOREM OneMissedNotice == Spec => []MissedNoticeOnce
  <1>1. IInv => MissedNoticeOnce
    BY DEF IInv
  <1> QED
    BY <1>1, Invariance, PTL

\* The RtcRoom of a call that is not over has not ended.
THEOREM RoomOutlivesCall == Spec => []LiveCallKeepsRoom
  <1>1. IInv => LiveCallKeepsRoom
    BY DEF IInv
  <1> QED
    BY <1>1, Invariance, PTL

\* Short of a fault, a ringing call has its timer armed on some replica, or a handler that
\* will end it, whichever replicas disarm theirs.
THEOREM RingingCallsAreWatched == Spec => []RingingIsWatched
  <1>1. IInv => RingingIsWatched
    BY DEF IInv
  <1> QED
    BY <1>1, Invariance, PTL

\* Short of a fault, a connected call has its open room and its tokens, or accept is about
\* to see to it.
THEOREM ConnectedCallsAreReachable == Spec => []ConnectedIsReachable
  <1>1. IInv => ConnectedIsReachable
    BY DEF IInv
  <1> QED
    BY <1>1, Invariance, PTL

-----------------------------------------------------------------------------
(* RtcCall implements CallLifecycle.                                       *)

\* Every step is a step of the lifecycle, or changes nothing it shows.
LEMMA LifecycleStep == IInv /\ [Next]_vars => [Lifecycle!Next]_(Lifecycle!vars)
  <1> SUFFICES ASSUME IInv, [Next]_vars
               PROVE  Lifecycle!Next \/ UNCHANGED <<state, told>>
    BY DEF Lifecycle!vars
  <1>0. TypeOK /\ HandlerOK /\ Verdicts
    BY DEF IInv, Verdicts
  <1>1. ASSUME NEW h \in Handlers, CreateCall(h)
        PROVE  Lifecycle!Next
    <2>1. PICK c \in Calls : state[c] = "NONE" /\ state' = [state EXCEPT ![c] = "RINGING"]
      BY <1>1 DEF CreateCall
    <2>2. Lifecycle!Ring(c)
      BY <1>1, <2>1 DEF CreateCall, sent, Lifecycle!Ring, Lifecycle!Advance
    <2> QED
      BY <2>2 DEF Lifecycle!Next
  <1>2. ASSUME NEW h \in Handlers, NEW r \in Replicas, NEW c \in Calls, Accept(h, r, c)
        PROVE  Lifecycle!Next
    <2>1. Lifecycle!PickUp(c)
      BY <1>2 DEF Accept, sent, Lifecycle!PickUp, Lifecycle!Advance
    <2> QED
      BY <2>1 DEF Lifecycle!Next
  <1>3. ASSUME NEW h \in Handlers, Connect(h)
        PROVE  Lifecycle!Next \/ UNCHANGED <<state, told>>
    <2>1. handler[h].call \in Calls
      BY <1>0, <1>3 DEF Connect, At, HandlerOK, Carries
    <2>2. UNCHANGED state \/ Lifecycle!Connect(handler[h].call)
      BY <1>3 DEF Connect, sent, Lifecycle!Connect, Lifecycle!Advance
    <2>3. UNCHANGED told
      BY <1>3 DEF Connect, sent
    <2> QED
      BY <2>1, <2>2, <2>3 DEF Lifecycle!Next
  <1>4. ASSUME NEW h \in Handlers, ClaimEnd(h)
        PROVE  Lifecycle!Next \/ UNCHANGED <<state, told>>
    <2> DEFINE c == handler[h].call
               op == handler[h].op
    <2>1. c \in Calls /\ op \in EndOps
      BY <1>0, <1>4 DEF ClaimEnd, At, HandlerOK, Carries
    <2>2. UNCHANGED told
      BY <1>4 DEF ClaimEnd, sent
    <2>3. CASE UNCHANGED state
      BY <2>2, <2>3
    <2>4. CASE state[c] \in FromStates(op) /\ state' = [state EXCEPT ![c] = ToState(op)]
      <3>1. <<state[c], ToState(op)>> \in Lifecycle!Outcome
        BY <2>1, <2>4, EndOpStates
      <3>2. Lifecycle!Finish(c)
        BY <2>2, <2>4, <3>1 DEF Lifecycle!Finish, Lifecycle!Advance
      <3> QED
        BY <2>1, <3>2 DEF Lifecycle!Next
    <2> QED
      BY <1>4, <2>3, <2>4 DEF ClaimEnd
  <1>5. ASSUME NEW h \in Handlers, TellParties(h)
        PROVE  Lifecycle!Next
    <2> DEFINE c == handler[h].call
               op == handler[h].op
               audience == Audience(op, c, handler[h].user) \intersect Users
    <2>1. Winner(h)
      BY <1>5 DEF TellParties, At, Winner
    <2>2. /\ c \in Calls /\ op \in EndOps /\ state[c] = ToState(op)
          /\ \A u \in Users : told[c][u] = <<>>
      BY <1>0, <2>1, WinnerIsOver DEF Verdicts, SoleWinner
    <2>3. state[c] \in Lifecycle!Over
      <3>1. PICK s : s \in FromStates(op)
        BY DEF FromStates
      <3>2. <<s, ToState(op)>> \in Lifecycle!Outcome
        BY <2>2, <3>1, EndOpStates
      <3> HIDE DEF op
      <3>3. <<s, ToState(op)>>[2] = state[c]
        BY <2>2
      <3> QED
        BY <3>2, <3>3 DEF Lifecycle!Over
    <2>4. Append(<<>>, ToState(op)) = <<state[c]>>
      BY <2>2
    <2>5. told' = [told EXCEPT ![c] =
                      [u \in Users |-> IF u \in audience THEN <<state[c]>> ELSE <<>>]]
      BY <1>5, <2>2, <2>4 DEF TellParties
    <2>6. UNCHANGED state
      BY <1>5 DEF TellParties, rows
    <2>7. Lifecycle!Announce(c, audience)
      BY <2>2, <2>3, <2>5, <2>6 DEF Lifecycle!Announce
    <2> QED
      BY <2>2, <2>7 DEF Lifecycle!Next
  <1>6. ASSUME NEW h \in Handlers, NEW r \in Replicas, NEW u \in Users, NEW v \in Users, Invite(h, r, u, v)
        PROVE  UNCHANGED <<state, told>>
    BY <1>6 DEF Invite, rows, sent
  <1>7. ASSUME NEW h \in Handlers, StartRingTimeout(h)
        PROVE  UNCHANGED <<state, told>>
    BY <1>7 DEF StartRingTimeout, rows, sent
  <1>8. ASSUME NEW h \in Handlers, LookUp(h)
        PROVE  UNCHANGED <<state, told>>
    BY <1>8 DEF LookUp, rows, sent
  <1>9. ASSUME NEW h \in Handlers, CreateRoom(h)
        PROVE  UNCHANGED <<state, told>>
    BY <1>9 DEF CreateRoom, rows, sent
  <1>10. ASSUME NEW h \in Handlers, Activate(h)
        PROVE  UNCHANGED <<state, told>>
    BY <1>10 DEF Activate, rows, sent
  <1>11. ASSUME NEW h \in Handlers, AnnounceAccepted(h)
        PROVE  UNCHANGED <<state, told>>
    BY <1>11 DEF AnnounceAccepted, rows, sent
  <1>12. ASSUME NEW h \in Handlers, SetupFails(h)
        PROVE  UNCHANGED <<state, told>>
    BY <1>12 DEF SetupFails, rows, sent
  <1>13. ASSUME NEW h \in Handlers, UndoRoom(h)
        PROVE  UNCHANGED <<state, told>>
    BY <1>13 DEF UndoRoom, rows, sent
  <1>14. ASSUME NEW h \in Handlers, NEW r \in Replicas, NEW c \in Calls, Reject(h, r, c)
        PROVE  UNCHANGED <<state, told>>
    BY <1>14 DEF Reject, rows, sent
  <1>15. ASSUME NEW h \in Handlers, NEW r \in Replicas, NEW c \in Calls, Cancel(h, r, c)
        PROVE  UNCHANGED <<state, told>>
    BY <1>15 DEF Cancel, rows, sent
  <1>16. ASSUME NEW h \in Handlers, NEW r \in Replicas, NEW c \in Calls, Hangup(h, r, c)
        PROVE  UNCHANGED <<state, told>>
    BY <1>16 DEF Hangup, rows, sent
  <1>17. ASSUME NEW h \in Handlers, NEW r \in Replicas, NEW u \in Users, Disconnect(h, r, u)
        PROVE  UNCHANGED <<state, told>>
    BY <1>17 DEF Disconnect, rows, sent
  <1>18. ASSUME NEW h \in Handlers, NEW r \in Replicas, NEW c \in Calls, HandleRingTimeout(h, r, c)
        PROVE  UNCHANGED <<state, told>>
    BY <1>18 DEF HandleRingTimeout, rows, sent
  <1>19. ASSUME NEW h \in Handlers, NEW r \in Replicas, NEW c \in Calls, ForceCallLimitHangup(h, r, c)
        PROVE  UNCHANGED <<state, told>>
    BY <1>19 DEF ForceCallLimitHangup, rows, sent
  <1>20. ASSUME NEW h \in Handlers, NEW r \in Replicas, NEW c \in Calls, HandleRoomEndedByLiveKit(h, r, c)
        PROVE  UNCHANGED <<state, told>>
    BY <1>20 DEF HandleRoomEndedByLiveKit, rows, sent
  <1>21. ASSUME NEW h \in Handlers, NEW r \in Replicas, NEW c \in Calls, NEW u \in Users, HandlePeerLeft(h, r, c, u)
        PROVE  UNCHANGED <<state, told>>
    BY <1>21 DEF HandlePeerLeft, rows, sent
  <1>22. ASSUME NEW h \in Handlers, ProbePeer(h)
        PROVE  UNCHANGED <<state, told>>
    BY <1>22 DEF ProbePeer, rows, sent
  <1>23. ASSUME NEW h \in Handlers, NEW r \in Replicas, NEW c \in Calls, NEW u \in Users, GraceElapsed(h, r, c, u)
        PROVE  UNCHANGED <<state, told>>
    BY <1>23 DEF GraceElapsed, rows, sent
  <1>24. ASSUME NEW h \in Handlers, ConfirmPeerLeft(h)
        PROVE  UNCHANGED <<state, told>>
    BY <1>24 DEF ConfirmPeerLeft, rows, sent
  <1>25. ASSUME NEW h \in Handlers, ClearTimers(h)
        PROVE  UNCHANGED <<state, told>>
    BY <1>25 DEF ClearTimers, rows, sent
  <1>26. ASSUME NEW h \in Handlers, CloseRtcRoom(h)
        PROVE  UNCHANGED <<state, told>>
    BY <1>26 DEF CloseRtcRoom, rows, sent
  <1>27. ASSUME NEW h \in Handlers, DeleteSfuRoom(h)
        PROVE  UNCHANGED <<state, told>>
    BY <1>27 DEF DeleteSfuRoom, rows, sent
  <1>28. ASSUME NEW r \in Replicas, Restart(r)
        PROVE  UNCHANGED <<state, told>>
    BY <1>28 DEF Restart, rows, sent
  <1>29. ASSUME NEW h \in Handlers, QueryRejects(h)
        PROVE  UNCHANGED <<state, told>>
    BY <1>29 DEF QueryRejects, rows, sent
  <1>30. ASSUME NEW c \in Calls, NEW u \in Users, Join(c, u)
        PROVE  UNCHANGED <<state, told>>
    BY <1>30 DEF Join, rows, sent
  <1>31. ASSUME NEW c \in Calls, NEW u \in Users, Drop(c, u)
        PROVE  UNCHANGED <<state, told>>
    BY <1>31 DEF Drop, rows, sent
  <1>32. ASSUME NEW c \in Calls, ExpireEmptyRoom(c)
        PROVE  UNCHANGED <<state, told>>
    BY <1>32 DEF ExpireEmptyRoom, rows, sent
  <1>33. CASE UNCHANGED vars
    BY <1>33 DEF vars, rows, sent
  <1> QED
    BY <1>1, <1>2, <1>3, <1>4, <1>5, <1>6, <1>7, <1>8, <1>9, <1>10, <1>11, <1>12, <1>13, <1>14,
       <1>15, <1>16, <1>17, <1>18, <1>19, <1>20, <1>21, <1>22, <1>23, <1>24, <1>25, <1>26,
       <1>27, <1>28, <1>29, <1>30, <1>31, <1>32, <1>33
    DEF Next, Frame, TimerFires, Webhook, Resume, Environment

\* Whatever the interleaving, a call goes through the lifecycle and no other.
THEOREM Refinement == Spec => ImplementsLifecycle
  <1>1. Init => Lifecycle!Init
    BY DEF Init, Lifecycle!Init
  <1>2. IInv /\ [Next]_vars => [Lifecycle!Next]_(Lifecycle!vars)
    BY LifecycleStep
  <1> QED
    BY <1>1, <1>2, Invariance, PTL DEF Spec, ImplementsLifecycle, Lifecycle!Spec

\* endCall's claim is for good: no step of any handler, timer or webhook changes an outcome
\* once it is recorded, nor what a party was told of it.
THEOREM OutcomesAreFinal ==
    Spec => [][\A c \in Calls :
                  /\ state[c] \in EndStates => state'[c] = state[c]
                  /\ \A u \in Users : told[c][u] # <<>> => told'[c][u] = told[c][u]]_vars
  <1>1. ASSUME IInv, [Next]_vars, NEW c \in Calls
        PROVE  /\ state[c] \in EndStates => state'[c] = state[c]
               /\ \A u \in Users : told[c][u] # <<>> => told'[c][u] = told[c][u]
    <2>1. state \in [Calls -> {"NONE"} \union ActiveStates \union EndStates]
          /\ told \in [Calls -> [Users -> Seq(EndStates)]]
      BY <1>1 DEF IInv, TypeOK, RowsOK, SentOK
    <2>2. CASE UNCHANGED <<state, told>>
      BY <2>2
    <2>3. ASSUME NEW d \in Calls,
                 NEW from \in {"NONE", "RINGING", "CONNECTING", "CONNECTED"}, NEW to,
                 Lifecycle!Advance(d, from, to)
          PROVE  told' = told /\ (state[c] \in EndStates => state'[c] = state[c])
      BY <2>1, <2>3 DEF Lifecycle!Advance, EndStates
    <2>4. ASSUME NEW d \in Calls, Lifecycle!Ring(d) \/ Lifecycle!PickUp(d) \/ Lifecycle!Connect(d)
          PROVE  told' = told /\ (state[c] \in EndStates => state'[c] = state[c])
      BY <2>3, <2>4 DEF Lifecycle!Ring, Lifecycle!PickUp, Lifecycle!Connect
    <2>5. ASSUME NEW d \in Calls, Lifecycle!Finish(d)
          PROVE  told' = told /\ (state[c] \in EndStates => state'[c] = state[c])
      <3>1. PICK o \in Lifecycle!Outcome : Lifecycle!Advance(d, o[1], o[2])
        BY <2>5 DEF Lifecycle!Finish
      <3>2. o[1] \in {"RINGING", "CONNECTING", "CONNECTED"}
        BY DEF Lifecycle!Outcome
      <3> QED
        BY <2>3, <3>1, <3>2
    <2>6. ASSUME NEW d \in Calls, NEW audience \in SUBSET Users, Lifecycle!Announce(d, audience)
          PROVE  /\ state' = state
                 /\ \A u \in Users : told[c][u] # <<>> => told'[c][u] = told[c][u]
      BY <2>1, <2>6 DEF Lifecycle!Announce
    <2>7. CASE Lifecycle!Next
      BY <2>4, <2>5, <2>6, <2>7 DEF Lifecycle!Next
    <2> QED
      BY <1>1, <2>2, <2>7, LifecycleStep DEF Lifecycle!vars
  <1>2. IInv /\ [Next]_vars
          => [\A c \in Calls :
                 /\ state[c] \in EndStates => state'[c] = state[c]
                 /\ \A u \in Users : told[c][u] # <<>> => told'[c][u] = told[c][u]]_vars
    BY <1>1
  <1> QED
    BY <1>2, Invariance, PTL DEF Spec
=============================================================================
