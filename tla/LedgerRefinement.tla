-------------------------- MODULE LedgerRefinement --------------------------
(***************************************************************************)
(* LedgerStore implements LedgerChain under the mapping of LedgerStore's   *)
(* Chain instance (tip <- bCur, applied <- sCur, sealed <- version), for   *)
(* every value of the constants.                                           *)
(*                                                                         *)
(* A step of the block store's commit writes pend into bCur and one of the *)
(* state store's writes pend (or rec, in a replay) into sCur; that these   *)
(* are a step of LedgerChain depends on where pend and rec stand relative  *)
(* to the markers, which SubStoreOrderInv only partly says. RefineOK adds  *)
(* the rest: cur follows bCur while serving, a submit always writes        *)
(* cur + 1, the genesis submit writes 0 into an unsealed store, and after  *)
(* their commits the markers equal pend.                                   *)
(***************************************************************************)
EXTENDS LedgerStoreProofs

RefineOK ==
    /\ phase = "up" => bCur \in {cur, cur + 1}
    /\ phase = "init" => /\ ~version /\ cur = 0
                         /\ bCur \in {None, 0} /\ sCur \in {None, 0}
                         /\ pc # "idle" => pend = 0
    /\ pc = "staged" /\ phase = "up" => pend = cur + 1
    /\ phase \in {"init", "up"} /\ pc \in {"bDone", "eDone", "sDone", "version"}
         => bCur = pend
    /\ pc \in {"sDone", "version"} => sCur = pend
    /\ phase = "recover" /\ pc = "eDone" => sCur <= rec

ChainInv == SubStoreOrderInv /\ RefineOK

LEMMA ChainInvInit == Init => ChainInv
<1> SUFFICES ASSUME Init PROVE ChainInv
    OBVIOUS
<1>1. SubStoreOrderInv
    BY OrderInit
<1> QED
    BY <1>1 DEF Init, ChainInv, RefineOK

\* Every step of Next, or a stutter, preserves ChainInv: SubStoreOrderInv
\* by OrderStep, RefineOK with one step per action.
LEMMA ChainInvStep == ChainInv /\ [Next]_vars => ChainInv'
<1> SUFFICES ASSUME ChainInv, [Next]_vars PROVE ChainInv'
    OBVIOUS
<1>0. SubStoreOrderInv' /\ SetsOK /\ ValuesOK /\ ControlOK /\ SubStoreOrder
    BY OrderStep, TypeInvParts DEF ChainInv, SubStoreOrderInv
<1> SUFFICES RefineOK'
    BY <1>0 DEF ChainInv
<1> USE ConstantsOK, <1>0 DEF ChainInv, RefineOK, SubStoreOrderInv, Heights,
        None, SetsOK, ValuesOK, ControlOK, SubStoreOrder, readerVars
<1>1. ASSUME NEW fail \in BOOLEAN, StartFresh(fail)
      PROVE RefineOK'
    BY <1>1 DEF StartFresh, ClearAll, FreshMemory
<1>2. CASE StartExisting
    BY <1>2 DEF StartExisting, EmptyIndex, FreshMemory, RecoverLoop, durableVars
<1>3. ASSUME NEW fail \in BOOLEAN, RecoverEvent(fail)
      PROVE RefineOK'
    BY <1>3 DEF RecoverEvent, RecoverLoop
<1>4. ASSUME NEW fail \in BOOLEAN, RecoverState(fail)
      PROVE RefineOK'
    BY <1>4 DEF RecoverState, RecoverLoop
<1>5. ASSUME NEW fail \in BOOLEAN, SaveVersion(fail)
      PROVE RefineOK'
    BY <1>5 DEF SaveVersion
<1>6. ASSUME NEW h \in Heights, ExecuteBlock(h)
      PROVE RefineOK'
    BY <1>6 DEF ExecuteBlock, GateFree, durableVars
<1>7. ASSUME NEW h \in Heights, NEW withL2 \in BOOLEAN,
             NEW fail \in StageOutcomes, SubmitBlock(h, withL2, fail)
      PROVE RefineOK'
    BY <1>7 DEF SubmitBlock, GateFree, SubmitStage, NextHeightOk
<1>8. ASSUME NEW fail \in BOOLEAN, CommitBlockStore(fail)
      PROVE RefineOK'
    BY <1>8 DEF CommitBlockStore, SubmitFails
<1>9. ASSUME NEW fail \in BOOLEAN, CommitEventStore(fail)
      PROVE RefineOK'
    BY <1>9 DEF CommitEventStore, SubmitFails
<1>10. ASSUME NEW fail \in BOOLEAN, CommitStateStore(fail)
      PROVE RefineOK'
    BY <1>10 DEF CommitStateStore, SubmitFails
<1>11. CASE SetCurrentBlock
    BY <1>11 DEF SetCurrentBlock, durableVars
<1>12. CASE Close
    BY <1>12 DEF Close, GateFree, durableVars
<1>13. CASE PreExecHeight
    BY <1>13 DEF PreExecHeight, durableVars, memVars
<1>14. CASE PreExecOverlay
    BY <1>14 DEF PreExecOverlay, durableVars, memVars
<1>15. CASE PreExecBatchAtomic
    BY <1>15 DEF PreExecBatchAtomic, durableVars, memVars
<1>16. CASE Crash
    BY <1>16 DEF Crash, durableVars
<1>17. CASE UNCHANGED vars
    BY <1>17 DEF vars, durableVars, memVars
<1> QED
    BY <1>1, <1>2, <1>3, <1>4, <1>5, <1>6, <1>7, <1>8, <1>9, <1>10, <1>11,
       <1>12, <1>13, <1>14, <1>15, <1>16, <1>17 DEF Next

\* ChainInv holds in every reachable state.
LEMMA ChainInvariant == Spec => []ChainInv
BY ChainInvInit, ChainInvStep, PTL DEF Spec

\* The durable markers that a step of Next leaves unchanged.
Markers == <<bCur, sCur, version>>

\* Every step of Next, from a state satisfying ChainInv, is a step of
\* LedgerChain or leaves the three durable markers unchanged.
LEMMA ChainStep == ChainInv /\ [Next]_vars => [Chain!Next]_Markers
<1> SUFFICES ASSUME ChainInv, [Next]_vars PROVE [Chain!Next]_Markers
    OBVIOUS
<1>0. SetsOK /\ ValuesOK /\ ControlOK /\ SubStoreOrder /\ SetsOK'
    BY ChainInvStep, TypeInvParts DEF ChainInv, SubStoreOrderInv
<1> USE ConstantsOK, <1>0 DEF ChainInv, RefineOK, SubStoreOrderInv, Heights,
        None, SetsOK, ValuesOK, ControlOK, SubStoreOrder, readerVars, Markers,
        Chain!Next, Chain!Reset, Chain!Extend, Chain!Apply, Chain!Seal
<1>1. ASSUME NEW fail \in BOOLEAN, StartFresh(fail)
      PROVE [Chain!Next]_Markers
    BY <1>1 DEF StartFresh, ClearAll
<1>2. CASE StartExisting
    BY <1>2 DEF StartExisting, durableVars
<1>3. ASSUME NEW fail \in BOOLEAN, RecoverEvent(fail)
      PROVE [Chain!Next]_Markers
    BY <1>3 DEF RecoverEvent
<1>4. ASSUME NEW fail \in BOOLEAN, RecoverState(fail)
      PROVE [Chain!Next]_Markers
    BY <1>4 DEF RecoverState, RecoverLoop
<1>5. ASSUME NEW fail \in BOOLEAN, SaveVersion(fail)
      PROVE [Chain!Next]_Markers
    BY <1>5 DEF SaveVersion
<1>6. ASSUME NEW h \in Heights, ExecuteBlock(h)
      PROVE [Chain!Next]_Markers
    BY <1>6 DEF ExecuteBlock, durableVars
<1>7. ASSUME NEW h \in Heights, NEW withL2 \in BOOLEAN,
             NEW fail \in StageOutcomes, SubmitBlock(h, withL2, fail)
      PROVE [Chain!Next]_Markers
    BY <1>7 DEF SubmitBlock
<1>8. ASSUME NEW fail \in BOOLEAN, CommitBlockStore(fail)
      PROVE [Chain!Next]_Markers
    BY <1>8 DEF CommitBlockStore, SubmitFails
<1>9. ASSUME NEW fail \in BOOLEAN, CommitEventStore(fail)
      PROVE [Chain!Next]_Markers
    BY <1>9 DEF CommitEventStore, SubmitFails
<1>10. ASSUME NEW fail \in BOOLEAN, CommitStateStore(fail)
      PROVE [Chain!Next]_Markers
    BY <1>10 DEF CommitStateStore, SubmitFails
<1>11. CASE SetCurrentBlock
    BY <1>11 DEF SetCurrentBlock, durableVars
<1>12. CASE Close
    BY <1>12 DEF Close, durableVars
<1>13. CASE PreExecHeight
    BY <1>13 DEF PreExecHeight, durableVars
<1>14. CASE PreExecOverlay
    BY <1>14 DEF PreExecOverlay, durableVars
<1>15. CASE PreExecBatchAtomic
    BY <1>15 DEF PreExecBatchAtomic, durableVars
<1>16. CASE Crash
    BY <1>16 DEF Crash, durableVars
<1>17. CASE UNCHANGED vars
    BY <1>17 DEF vars, durableVars
<1> QED
    BY <1>1, <1>2, <1>3, <1>4, <1>5, <1>6, <1>7, <1>8, <1>9, <1>10, <1>11,
       <1>12, <1>13, <1>14, <1>15, <1>16, <1>17 DEF Next

\* The ledger store implements LedgerChain (ChainRefined): across storage
\* errors, crashes and recovery, the block store's durable current block
\* only ever grows by one, the state store's never goes back nor passes
\* it, and the stores are wiped only before the version marker is saved.
THEOREM Refinement == Spec => ChainRefined
<1>1. Init => Chain!Init
    BY DEF Init, Chain!Init, None
<1>2. Spec => [][Chain!Next]_Markers
    BY ChainInvariant, ChainStep, PTL DEF Spec
<1> QED
    BY <1>1, <1>2, PTL DEF Spec, ChainRefined, Chain!Spec, Markers, Chain!chainVars
=============================================================================
