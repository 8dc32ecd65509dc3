---------------------------- MODULE MCDepositRelay ----------------------------
(* Model-checking instance of DepositRelay: a block holding two deposit    *)
(* events and a later block holding one, so that a crash can fall between  *)
(* two deposits of one block, starting from a saved parse height of 1.     *)
EXTENDS DepositRelay, TLC

MCDepBlock1 == (1 :> 2) @@ (2 :> 2) @@ (3 :> 3)
=============================================================================
