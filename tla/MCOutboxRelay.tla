--------------------------- MODULE MCOutboxRelay ---------------------------
(* Small instances of OutboxRelay for TLC. *)
EXTENDS OutboxRelay, TLC

\* Relays are interchangeable in the safety properties.
Symmetry == Permutations(Relays)
=============================================================================
