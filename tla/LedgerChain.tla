----------------------------- MODULE LedgerChain -----------------------------
(***************************************************************************)
(* What the ledger store promises its callers about durable data, without  *)
(* the sub-stores, batches and memory of LedgerStoreImp: a chain of blocks *)
(* that grows one height at a time, a state that is applied behind it and  *)
(* never goes back, and a seal (the version marker) after which the store  *)
(* is never cleared again. Heights start at -1, the empty store.           *)
(***************************************************************************)
EXTENDS Integers

CONSTANT MaxHeight

VARIABLES
    tip,      \* highest durable block, -1 when there is none
    applied,  \* highest block whose state is durable, -1 when there is none
    sealed    \* the store has been initialised for good

chainVars == <<tip, applied, sealed>>

Init == tip = -1 /\ applied = -1 /\ sealed = FALSE

\* An unsealed store may be wiped and initialised again.
Reset ==
    /\ ~sealed
    /\ tip' = -1 /\ applied' = -1
    /\ UNCHANGED sealed

\* The next block becomes durable.
Extend ==
    /\ tip < MaxHeight
    /\ tip' = tip + 1
    /\ UNCHANGED <<applied, sealed>>

\* The state of later blocks becomes durable, never past the chain.
Apply ==
    /\ applied < tip
    /\ applied' \in (applied + 1)..tip
    /\ UNCHANGED <<tip, sealed>>

\* The store is sealed once the genesis block and its state are durable.
Seal ==
    /\ ~sealed /\ tip = 0 /\ applied = 0
    /\ sealed' = TRUE
    /\ UNCHANGED <<tip, applied>>

Next == Reset \/ Extend \/ Apply \/ Seal

Spec == Init /\ [][Next]_chainVars

=============================================================================
