------------------------------ MODULE Presence ------------------------------
(***************************************************************************)
(* What the realtime gateway promises of presence and of farewells on one  *)
(* replica.  A user is announced online with the first connection and      *)
(* offline with the last; a device that connects anew, and a connection    *)
(* that makes room for another, change nothing in between.  Whoever leaves *)
(* is seen off once, and a connection its own device replaced is not.      *)
(* RealtimeSockets.tla implements this module.                             *)
(***************************************************************************)
CONSTANTS
    Sockets, DeviceOf, OwnerOf,
    Allowed  \* which connections one user may have at once

VARIABLES
    members,   \* the connections that count
    left,      \* those the disconnect handlers were called for
    replaced,  \* those that another one of their device has taken over from
    online     \* the users last announced as online

presence == <<members, left, replaced, online>>

Owner(s) == OwnerOf[DeviceOf[s]]
Mine(u) == {s \in members : Owner(s) = u}

Start == members = {} /\ left = {} /\ replaced = {} /\ online = {}

New(s) == s \notin members \union left \union replaced
Elsewhere(s) == \A t \in members : DeviceOf[t] # DeviceOf[s]

Arrive(s) ==
    /\ New(s) /\ Elsewhere(s)
    /\ Mine(Owner(s)) \union {s} \in Allowed
    /\ members' = members \union {s}
    /\ online' = online \union {Owner(s)}
    /\ UNCHANGED <<left, replaced>>

TakeOver(s, t) ==
    /\ New(s) /\ t \in members /\ DeviceOf[t] = DeviceOf[s]
    /\ members' = (members \union {s}) \ {t}
    /\ replaced' = replaced \union {t}
    /\ UNCHANGED <<left, online>>

\* One goes when there would be too many.
Crowd(s, t) ==
    /\ New(s) /\ Elsewhere(s) /\ t \in Mine(Owner(s))
    /\ Mine(Owner(s)) \union {s} \notin Allowed
    /\ (Mine(Owner(s)) \union {s}) \ {t} \in Allowed
    /\ members' = (members \union {s}) \ {t}
    /\ left' = left \union {t}
    /\ UNCHANGED <<replaced, online>>

Leave(s) ==
    /\ s \in members
    /\ members' = members \ {s}
    /\ left' = left \union {s}
    /\ online' = IF Mine(Owner(s)) = {s} THEN online \ {Owner(s)} ELSE online
    /\ UNCHANGED replaced

Step ==
    \/ \E s \in Sockets : Arrive(s) \/ Leave(s)
    \/ \E s, t \in Sockets : TakeOver(s, t) \/ Crowd(s, t)

Behaviour == Start /\ [][Step]_presence
=============================================================================
