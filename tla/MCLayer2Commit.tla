---------------------------- MODULE MCLayer2Commit ----------------------------
(***************************************************************************)
(* Model-checking instance of Layer2Commit. The constants are given in the *)
(* .cfg files: three layer2 heights to commit, a poll budget of two (so a  *)
(* single late answer times a commit out), and enough transaction slots   *)
(* for every commit in flight.                                             *)
(***************************************************************************)
EXTENDS Layer2Commit

=============================================================================
