----------------------------- MODULE MCRtcCall -----------------------------
(* Small instances of RtcCall for TLC. *)
EXTENDS RtcCall, TLC

\* Everyone is everyone's friend: the most calls that can be placed.
AllFriends == Users \X Users

\* One fixed caller and one fixed callee: half the states where it is enough.
OneWay == {CHOOSE p \in Users \X Users : p[1] # p[2]}

\* Bound: explore two calls only until a client may enter a LiveKit room (what
\* follows is per call, and the one-call runs explore it).
BeforeMedia == \A c \in Calls : ~accepted[c] /\ ~named[c]

\* Handlers, replicas and call ids are interchangeable in the safety properties.
Symmetry == Permutations(Handlers) \union Permutations(Replicas) \union Permutations(Calls)
=============================================================================
