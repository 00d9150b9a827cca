---------------------------- MODULE MCCandidates ----------------------------
(* Small instances of Candidates for TLC. *)
EXTENDS Candidates

OneHost == {1}
TwoHosts == 1 .. 2
=============================================================================
