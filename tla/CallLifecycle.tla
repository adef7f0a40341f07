--------------------------- MODULE CallLifecycle ---------------------------
(***************************************************************************)
(* What RtcCallService promises about a 1:1 call, whatever the replicas,   *)
(* timers, webhooks and sockets that drive it: CallSession.state moves     *)
(* only forward, it reaches one outcome, and each party is told at most    *)
(* once, of that outcome.  RtcCall.tla implements this module.             *)
(***************************************************************************)
CONSTANTS Calls, Users

VARIABLES
    state,  \* CallSession.state of each call id; "NONE" before the row exists
    told    \* the outcomes each user was told for each call, oldest first

vars == <<state, told>>

\* From which state a call may reach which outcome.
Outcome ==
    ({"RINGING"} \X {"REJECTED", "CANCELLED", "MISSED"})
    \union ({"CONNECTING", "CONNECTED"} \X {"ENDED", "FAILED"})

Over == {o[2] : o \in Outcome}

Init ==
    /\ state = [c \in Calls |-> "NONE"]
    /\ told = [c \in Calls |-> [u \in Users |-> <<>>]]

Advance(c, from, to) ==
    /\ state[c] = from
    /\ state' = [state EXCEPT ![c] = to]
    /\ UNCHANGED told

Ring(c) == Advance(c, "NONE", "RINGING")
PickUp(c) == Advance(c, "RINGING", "CONNECTING")
Connect(c) == Advance(c, "CONNECTING", "CONNECTED")
Finish(c) == \E o \in Outcome : Advance(c, o[1], o[2])

\* The one announcement of an outcome: to some of the users, none told before.
Announce(c, audience) ==
    /\ state[c] \in Over
    /\ \A u \in Users : told[c][u] = <<>>
    /\ told' = [told EXCEPT ![c] =
                   [u \in Users |-> IF u \in audience THEN <<state[c]>> ELSE <<>>]]
    /\ UNCHANGED state

Next ==
    \E c \in Calls :
        \/ Ring(c) \/ PickUp(c) \/ Connect(c) \/ Finish(c)
        \/ \E audience \in SUBSET Users : Announce(c, audience)

Spec == Init /\ [][Next]_vars
=============================================================================
