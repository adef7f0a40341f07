--------------------------- MODULE MCSessionStore ---------------------------
(* Small instances of SessionStore for TLC. *)
EXTENDS SessionStore, TLC

CONSTANTS k1, k2, s1, s2, r1, r2

Symmetry ==
    Permutations({k1, k2}) \union Permutations({s1, s2}) \union Permutations({r1, r2})
=============================================================================
