---------------------------- MODULE MCRtcMeeting ----------------------------
(* Small instances of RtcMeeting for TLC. *)
EXTENDS RtcMeeting, TLC

\* Handlers are interchangeable, and so are the users but the host.
Symmetry == Permutations(Handlers) \union Permutations(Users \ {Host})
=============================================================================
