-------------------------- MODULE SessionAuthority --------------------------
(***************************************************************************)
(* What the token store promises of sessions.  An access token has a       *)
(* compound key; logins and refreshes of one device within a second get    *)
(* the same one, and each gets a refresh token of its own.  A refresh      *)
(* token is accepted while its key lives, and one that has its key to      *)
(* itself during all of that time.  A key that is closed, its second over  *)
(* and no write under way, never lives again once it has ended, by logout, *)
(* rotation, revocation or expiry.                                         *)
(***************************************************************************)
CONSTANTS Keys, Sessions, None

VARIABLES
    live,       \* the keys that authenticate a request
    renewable,  \* the sessions whose refresh token is accepted
    keyOf,      \* the key each session was issued with
    closed      \* the keys that no session will be issued with

authority == <<live, renewable, keyOf, closed>>

Start == live = {} /\ renewable = {} /\ keyOf = [s \in Sessions |-> None] /\ closed = {}

Of(K) == {s \in Sessions : keyOf[s] \in K}

\* The keys of several sessions.
Shared ==
    {k \in Keys : \E s, t \in Sessions : s # t /\ keyOf[s] = k /\ keyOf[t] = k}

\* A session begins; it may revive other sessions of its key.
Issue(s, k) ==
    /\ keyOf[s] = None /\ k \notin closed
    /\ keyOf' = [keyOf EXCEPT ![s] = k]
    /\ live' = live \union {k}
    /\ renewable \union {s} \subseteq renewable'
    /\ renewable' \subseteq renewable \union {s} \union Of({k})

\* Keys end, with their refresh tokens; a shared key may lose one before.
End(K, S) ==
    /\ K \subseteq live /\ S \subseteq Of(Shared)
    /\ live' = live \ K
    /\ renewable' = renewable \ (Of(K) \union S)
    /\ UNCHANGED keyOf

Step ==
    /\ closed \subseteq closed'
    /\ \/ \E s \in Sessions, k \in Keys : Issue(s, k)
       \/ \E K \in SUBSET Keys, S \in SUBSET Sessions : End(K, S)

Behaviour == Start /\ [][Step]_authority
=============================================================================
