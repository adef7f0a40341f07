-------------------------- MODULE MCRealtimeFanout --------------------------
(* Small instances of RealtimeFanout for TLC. *)
EXTENDS RealtimeFanout, TLC

CONSTANTS a, b, a1, b1, b2, e1

HomeDef == [s \in Stays |-> IF s = a1 THEN a ELSE b]
Symmetry == Permutations({b1, b2})
=============================================================================
