---------------------------- MODULE MCLedgerStore ----------------------------
(***************************************************************************)
(* Model-checking instance of LedgerStore. The constants are given in the  *)
(* .cfg files: heights 0..3 with a header index batch of 1 let a flush     *)
(* happen at heights 2 and 3, so that a lost flush is followed by a later  *)
(* one; two injected errors allow an error and a retry that fails again.   *)
(***************************************************************************)
EXTENDS LedgerStore

\* Runs with the process started once: the online submit protocol.
OnlineSpec == FairSpec

=============================================================================
