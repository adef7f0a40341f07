------------------------- MODULE MCRealtimeSockets -------------------------
(* Small instances of RealtimeSockets for TLC. *)
EXTENDS RealtimeSockets, TLC

CONSTANTS s1, s2, s3, s4, d1, d2, d3, u1

\* The first device reconnects; with the others its user is over the limit.
DeviceTokens == s1 :> d1 @@ s2 :> d1 @@ s3 :> d2 @@ s4 :> d3
Owners == d1 :> u1 @@ d2 :> u1 @@ d3 :> u1

\* The two sockets of the first device are interchangeable, and so are the other
\* two devices, each with its socket.
Symmetry ==
    Permutations({s1, s2}) \union {s3 :> s4 @@ s4 :> s3 @@ d2 :> d3 @@ d3 :> d2}
=============================================================================
