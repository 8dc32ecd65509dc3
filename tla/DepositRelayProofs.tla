------------------------- MODULE DepositRelayProofs -------------------------
(***************************************************************************)
(* Proofs about the deposit relay of the Layer2Operator, for every value   *)
(* of the constants: the model is well typed, and no deposit is ever       *)
(* credited on layer2 twice, across crashes, re-parsed blocks, retried     *)
(* sends and lost acknowledgements.                                        *)
(***************************************************************************)
EXTENDS DepositRelay, TLAPS

\* The constants' assumptions, as one fact to cite.
LEMMA ConstantsHold ==
    /\ InitHeight \in Nat /\ MaxOnt \in Nat /\ InitHeight < MaxOnt
    /\ Deps \subseteq Nat /\ DepBlock \in [Deps -> InitHeight + 1..MaxOnt]
    /\ MaxRetries \in Nat /\ MaxSendErrors \in Nat /\ MaxLostAcks \in Nat
    /\ MaxCrashes \in Nat /\ MaxRpcErrors \in Nat /\ MaxSaveErrors \in Nat
BY MaxOntAssumption, DepBlockAssumption, DepFaultsAssumption DEF Deps

-----------------------------------------------------------------------------
(* Type correctness: TypeOK is inductive as it stands.                     *)

LEMMA TypeInit == Init => TypeOK
<1> SUFFICES ASSUME Init PROVE TypeOK
    OBVIOUS
<1>1. InitHeight \in 0..MaxOnt /\ 0 \in 0..MaxRetries
    BY ConstantsHold
<1> QED
    BY <1>1 DEF Init, TypeOK, Deps, NoDep, DepStates

LEMMA TypeStep == TypeOK /\ [Next]_vars => TypeOK'
<1> SUFFICES ASSUME TypeOK, [Next]_vars PROVE TypeOK'
    OBVIOUS
<1> USE ConstantsHold DEF TypeOK, Deps, NoDep, chainVars, dbVars, procVars, faultVars, DepStates
<1>1. ASSUME NEW ok \in BOOLEAN, Start(ok) PROVE TypeOK'
    BY <1>1 DEF Start, RpcError
<1>2. ASSUME NEW ok \in BOOLEAN, MonNext(ok) PROVE TypeOK'
    BY <1>2 DEF MonNext, RpcError, EventsOf
<1>3. CASE MonTick
    BY <1>3 DEF MonTick
<1>4. ASSUME NEW ok \in BOOLEAN, MonSave(ok) PROVE TypeOK'
    BY <1>4 DEF MonSave
<1>5. CASE Handoff
    BY <1>5 DEF Handoff
<1>6. CASE MonBlockDone
    BY <1>6 DEF MonBlockDone
<1>7. CASE DlSend
    <2>1. counter' \in 0..MaxRetries
        <3>1. MaxRetries \in Nat
            OBVIOUS
        <3> QED
            BY <1>7, <3>1 DEF DlSend, AfterSendError
    <2>2. dl' \in {"idle", "send", "update"}
        BY <1>7 DEF DlSend, AfterSendError
    <2>3. credits' \in [Deps -> Nat]
        BY <1>7 DEF DlSend
    <2> QED
        BY <1>7, <2>1, <2>2, <2>3 DEF DlSend
<1>8. CASE DlUpdate
    <2>1. 0 \in 0..MaxRetries
        OBVIOUS
    <2> QED
        BY <1>8, <2>1 DEF DlUpdate, DepStates
<1>9. CASE OntGrow
    BY <1>9 DEF OntGrow
<1>10. CASE Crash
    <2>1. MaxOnt \in Nat /\ MaxRetries \in Nat
        OBVIOUS
    <2>2. height' = 0 /\ cur' = 0 /\ counter' = 0
        BY <1>10 DEF Crash
    <2>3. height' \in 0..MaxOnt /\ counter' \in 0..MaxRetries
        BY <2>1, <2>2
    <2> QED
        BY <1>10, <2>3 DEF Crash
<1>11. CASE UNCHANGED vars
    BY <1>11 DEF vars, chainVars, dbVars, procVars, faultVars
<1> QED
    BY <1>1, <1>2, <1>3, <1>4, <1>5, <1>6, <1>7, <1>8, <1>9, <1>10, <1>11 DEF Next

\* Every reachable state of the deposit relay is well typed: heights stay
\* within the ontology chain, and the retry counter of
\* commitDeposit2Layer2 never passes its limit.
THEOREM DepTypeCorrect == Spec => []TypeOK
BY TypeInit, TypeStep, PTL DEF Spec

-----------------------------------------------------------------------------
(* No double credit. A deposit is credited only by depositLoop, only while *)
(* layer2 does not already hold its transaction, and only once per        *)
(* hand-over; a deposit is handed over only when SaveDeposit succeeded,    *)
(* which it does once per id. DepInv states what each goroutine may hold:  *)
(* only a deposit whose row SaveDeposit has just written.                  *)

\* Deposit d is held by the monitor (being sent on depositChain) or by
\* depositLoop.
Busy(d) == \/ mon = "send" /\ monDep = d
           \/ dl # "idle" /\ dlDep = d

DepInv ==
    /\ TypeOK
    /\ mon = "send" <=> monDep # NoDep
    /\ dl = "idle" <=> dlDep = NoDep
    /\ \A d \in Deps :
         /\ credits[d] <= 1
         /\ Busy(d) => saved[d] = "event"
         /\ saved[d] = "none" => credits[d] = 0
         /\ mon = "send" /\ monDep = d => credits[d] = 0 /\ ~(dl # "idle" /\ dlDep = d)
         /\ dl = "send" /\ dlDep = d /\ ~dlAcc => credits[d] = 0

LEMMA DepInvInit == Init => DepInv
BY TypeInit, ConstantsHold DEF Init, DepInv, Busy, Deps, NoDep

LEMMA DepInvStep == DepInv /\ [Next]_vars => DepInv'
<1> SUFFICES ASSUME DepInv, [Next]_vars PROVE DepInv'
    OBVIOUS
<1>0. TypeOK'
    BY TypeStep DEF DepInv
<1> USE <1>0, ConstantsHold DEF DepInv, Busy, TypeOK, Deps, NoDep, chainVars,
        dbVars, procVars, faultVars
<1>1. ASSUME NEW ok \in BOOLEAN, Start(ok) PROVE DepInv'
    BY <1>1 DEF Start, RpcError
<1>2. ASSUME NEW ok \in BOOLEAN, MonNext(ok) PROVE DepInv'
    BY <1>2 DEF MonNext, RpcError
<1>3. CASE MonTick
    BY <1>3 DEF MonTick
<1>4. ASSUME NEW ok \in BOOLEAN, MonSave(ok) PROVE DepInv'
    BY <1>4 DEF MonSave
<1>5. CASE Handoff
    BY <1>5 DEF Handoff
<1>6. CASE MonBlockDone
    BY <1>6 DEF MonBlockDone
<1>7. CASE DlSend
    BY <1>7 DEF DlSend, AfterSendError
<1>8. CASE DlUpdate
    BY <1>8 DEF DlUpdate
<1>9. CASE OntGrow
    BY <1>9 DEF OntGrow
<1>10. CASE Crash
    BY <1>10 DEF Crash
<1>11. CASE UNCHANGED vars
    BY <1>11 DEF vars, chainVars, dbVars, procVars, faultVars
<1> QED
    BY <1>1, <1>2, <1>3, <1>4, <1>5, <1>6, <1>7, <1>8, <1>9, <1>10, <1>11 DEF Next

\* No deposit is credited on layer2 twice (NoDoubleCredit), for any number
\* of crashes, SendTransaction errors and lost acknowledgements: a
\* deposit re-parsed after a crash is refused by SaveDeposit, and
\* commitDeposit2Layer2 resends only the transaction layer2 refuses once
\* it holds it.
THEOREM NoDoubleCreditThm == Spec => []NoDoubleCredit
<1>1. DepInv => NoDoubleCredit
    BY DEF DepInv, NoDoubleCredit
<1> QED
    BY <1>1, DepInvInit, DepInvStep, PTL DEF Spec

-----------------------------------------------------------------------------
(* Final outcomes. A row is rewritten only by SaveDeposit, which writes    *)
(* only a row that is absent, and by UpdateDepositByID for the deposit     *)
(* depositLoop holds, whose row DepInv says is still DEPOSIT_EVENT.        *)

\* The step form of OutcomeFinal.
OutcomeKept ==
    \A d \in Deps : saved[d] \in {"commit", "failed"} => saved'[d] = saved[d]

LEMMA OutcomeStep == DepInv /\ [Next]_vars => [OutcomeKept]_vars
<1> SUFFICES ASSUME DepInv, [Next]_vars PROVE [OutcomeKept]_vars
    OBVIOUS
<1> USE ConstantsHold DEF DepInv, Busy, TypeOK, Deps, NoDep, OutcomeKept,
        chainVars, dbVars, procVars, faultVars
<1>1. ASSUME NEW ok \in BOOLEAN, Start(ok) PROVE [OutcomeKept]_vars
    BY <1>1 DEF Start
<1>2. ASSUME NEW ok \in BOOLEAN, MonNext(ok) PROVE [OutcomeKept]_vars
    BY <1>2 DEF MonNext
<1>3. CASE MonTick
    BY <1>3 DEF MonTick
<1>4. ASSUME NEW ok \in BOOLEAN, MonSave(ok) PROVE [OutcomeKept]_vars
    BY <1>4 DEF MonSave
<1>5. CASE Handoff
    BY <1>5 DEF Handoff
<1>6. CASE MonBlockDone
    BY <1>6 DEF MonBlockDone
<1>7. CASE DlSend
    BY <1>7 DEF DlSend
<1>8. CASE DlUpdate
    <2>1. dlDep \in Deps /\ saved[dlDep] = "event"
        BY <1>8 DEF DlUpdate
    <2> QED
        BY <1>8, <2>1 DEF DlUpdate
<1>9. CASE OntGrow
    BY <1>9 DEF OntGrow
<1>10. CASE Crash
    BY <1>10 DEF Crash
<1>11. CASE UNCHANGED vars
    BY <1>11 DEF vars
<1> QED
    BY <1>1, <1>2, <1>3, <1>4, <1>5, <1>6, <1>7, <1>8, <1>9, <1>10, <1>11 DEF Next

\* A deposit's recorded outcome is never rewritten (OutcomeFinal), for
\* any number of crashes and re-parsed blocks: the monitor hands
\* depositLoop only a deposit whose row SaveDeposit has just created, and
\* UpdateDepositByID writes only that row.
THEOREM OutcomeFinalThm == Spec => OutcomeFinal
<1>1. DepInv /\ [Next]_vars => [OutcomeKept]_vars
    BY OutcomeStep
<1> QED
    BY <1>1, DepInvInit, DepInvStep, PTL DEF Spec, OutcomeFinal, OutcomeKept
=============================================================================
