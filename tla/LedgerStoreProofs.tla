-------------------------- MODULE LedgerStoreProofs --------------------------
(***************************************************************************)
(* Proofs about the ledger store model, for every value of the constants  *)
(* that satisfies the assumptions of LedgerStore.                          *)
(*                                                                         *)
(* TypeOK is not inductive: a commit writes pend into a marker, recovery   *)
(* writes rec and rec + 1, and StartExisting copies the block marker into  *)
(* currBlockHeight, and TypeOK alone does not say that these are heights   *)
(* at the steps that write them. TypeInv adds exactly those facts.         *)
(***************************************************************************)
EXTENDS LedgerStore, FiniteSetTheorems, SequenceTheorems, TLAPS

\* The constants' assumptions, as one fact to cite.
LEMMA ConstantsOK ==
    /\ MaxHeight \in Nat \ {0} /\ BatchSize \in Nat \ {0}
    /\ MaxFailures \in Nat /\ MaxCrashes \in Nat
BY MaxHeightAssumption, BatchSizeAssumption, FailuresAssumption,
   CrashesAssumption

\* The initial state of NewLedgerStore satisfies the inductive invariant.
LEMMA TypeInvInit == Init => TypeInv
<1> SUFFICES ASSUME Init PROVE TypeInv
    OBVIOUS
<1>1. IsFiniteSet({})
    BY FS_EmptySet
<1>2. TypeOK
    BY ConstantsOK DEF Init, TypeOK, Heights, None, NoPreExec
<1> QED
    BY <1>1, <1>2 DEF Init, TypeInv

\* The staged header index list is a finite interval of naturals.
LEMMA StageIndexFinite ==
    ASSUME TypeInv, StageIndex(cur + 1)
    PROVE  IsFiniteSet(pendIdx') /\ pendIdx' \subseteq Nat
<1>1. CASE FlushDue
    <2>1. pendIdx' = stored..(stored + BatchSize - 1)
        BY <1>1 DEF StageIndex, SetHeaderIndex, SaveHeaderIndexList
    <2>2. stored \in Nat /\ stored + BatchSize - 1 \in Int
        BY ConstantsOK DEF TypeInv, TypeOK
    <2> QED
        BY <2>1, <2>2, FS_Interval
<1>2. CASE ~FlushDue
    BY <1>2, FS_EmptySet DEF StageIndex, SetHeaderIndex, SaveHeaderIndexList
<1> QED
    BY <1>1, <1>2

\* TypeInv in four parts that the provers take one at a time: the types of
\* the markers and height sets (set reasoning, Zenon), the types of the
\* state log and the process memory (arithmetic and sequences, SMT), the
\* finiteness of the header index lists, and the control facts.
SetsOK ==
    /\ version \in BOOLEAN /\ closing \in BOOLEAN
    /\ bCur \in Heights \cup {None} /\ eCur \in Heights \cup {None}
    /\ sCur \in Heights \cup {None}
    /\ bBlocks \subseteq Heights /\ eBlocks \subseteq Heights /\ l2 \subseteq Heights
    /\ bIdx \subseteq Nat /\ hidx \subseteq Nat /\ pendIdx \subseteq Nat

ValuesOK ==
    /\ sLog \in Seq(Heights \X Nat)
    /\ phase \in Phases /\ pc \in Steps
    /\ cur \in Heights /\ stored \in Nat
    /\ pend \in Heights \cup {None} /\ pendBase \in Nat \cup {None}
    /\ results \in [Heights -> Nat \cup {None}]
    /\ rec \in Heights \cup {None}
    /\ rH \in Heights \cup {None}
    /\ preExec \in [height : Heights \cup {None}, base : Nat \cup {None},
                    atomic : BOOLEAN]
    /\ faults \in 0..MaxFailures /\ crashes \in 0..MaxCrashes

FiniteOK == IsFiniteSet(bIdx) /\ IsFiniteSet(pendIdx)

ControlOK ==
    /\ pc # "idle" => pend \in Heights /\ pendBase \in Nat
    /\ phase \in {"down", "failed"} => pc = "idle"
    /\ pc \in {"bDone", "eDone", "sDone", "version"} => bCur \in Heights
    /\ pc \in {"sDone", "version"} => sCur \in Heights
    /\ version => bCur \in Heights /\ sCur \in Heights
    /\ phase = "recover" => rec \in Heights /\ rec < cur
    /\ phase \in {"recover", "up"} => version

\* TypeInv is the conjunction of its four parts, in this state and the next.
LEMMA TypeInvParts ==
    /\ TypeInv <=> SetsOK /\ ValuesOK /\ FiniteOK /\ ControlOK
    /\ TypeInv' <=> SetsOK' /\ ValuesOK' /\ FiniteOK' /\ ControlOK'
BY Zenon DEF TypeInv, TypeOK, SetsOK, ValuesOK, FiniteOK, ControlOK

\* Appending the block being written keeps the state log well typed.
LEMMA AppendLogType ==
    ASSUME NEW log \in Seq(Heights \X Nat), NEW h \in Heights, NEW b \in Nat
    PROVE  Append(log, <<h, b>>) \in Seq(Heights \X Nat)
<1>1. <<h, b>> \in Heights \X Nat
    OBVIOUS
<1> QED
    BY <1>1, AppendProperties

\* Every step of Next, or a stutter, preserves the inductive invariant: one
\* step per action, and under it one per part of TypeInv.
LEMMA TypeInvStep == TypeInv /\ [Next]_vars => TypeInv'
<1> SUFFICES ASSUME TypeInv, [Next]_vars PROVE TypeInv'
    OBVIOUS
<1>0. SetsOK /\ ValuesOK /\ FiniteOK /\ ControlOK
    BY TypeInvParts
<1> USE ConstantsOK, <1>0, TypeInvParts DEF Heights, None, Phases, Steps,
        StageOutcomes, readerVars, NoPreExec
<1>1. ASSUME NEW fail \in BOOLEAN, StartFresh(fail)
      PROVE TypeInv'
    <2>1. SetsOK'
        <3>1. hidx' \subseteq Nat /\ bCur' \in Heights \cup {None}
              /\ eCur' \in Heights \cup {None} /\ sCur' \in Heights \cup {None}
            BY <1>1 DEF StartFresh, ClearAll
        <3> QED
            BY <1>1, <3>1, Zenon DEF SetsOK, StartFresh, FreshMemory, ClearAll
    <2>2. ValuesOK'
        BY <1>1 DEF ValuesOK, ControlOK, StartFresh, FreshMemory, ClearAll
    <2>3. FiniteOK'
        BY <1>1, FS_EmptySet DEF FiniteOK, StartFresh, FreshMemory, ClearAll
    <2>4. ControlOK'
        BY <1>1 DEF ControlOK, ValuesOK, StartFresh, FreshMemory, ClearAll
    <2> QED
        BY <2>1, <2>2, <2>3, <2>4
<1>2. CASE StartExisting
    <2> DEFINE n == Cardinality(bIdx)
    <2>0. n \in Nat
        BY FS_CardinalityType DEF FiniteOK
    <2>1. SetsOK'
        <3>1. n..bCur \subseteq Nat
            BY <2>0
        <3>2. hidx' \subseteq Nat
            BY <1>2, <3>1, Zenon DEF SetsOK, StartExisting, EmptyIndex
        <3> QED
            BY <1>2, <3>2, Zenon DEF SetsOK, StartExisting, FreshMemory,
               EmptyIndex, durableVars
    <2>2. ValuesOK'
        BY <1>2, <2>0 DEF ValuesOK, ControlOK, StartExisting, FreshMemory,
           EmptyIndex, RecoverLoop, durableVars
    <2>3. FiniteOK'
        BY <1>2, FS_EmptySet DEF FiniteOK, StartExisting, FreshMemory,
           durableVars
    <2>4. ControlOK'
        BY <1>2 DEF ControlOK, ValuesOK, StartExisting, FreshMemory,
           EmptyIndex, RecoverLoop, durableVars
    <2> QED
        BY <2>1, <2>2, <2>3, <2>4
<1>3. ASSUME NEW fail \in BOOLEAN, RecoverEvent(fail)
      PROVE TypeInv'
    <2>1. SetsOK'
        BY <1>3, ZenonT(60) DEF SetsOK, ControlOK, RecoverEvent, ExecutedBase, RecoverLoop
    <2>2. ValuesOK'
        <3>1. CASE fail
            BY <1>3, <3>1 DEF ValuesOK, RecoverEvent
        <3>2. CASE ~fail
            BY <1>3, <3>2 DEF ValuesOK, ControlOK, RecoverEvent, ExecutedBase,
               RecoverLoop
        <3> QED
            BY <3>1, <3>2
    <2>3. FiniteOK'
        BY <1>3 DEF FiniteOK, RecoverEvent, ExecutedBase, RecoverLoop
    <2>4. ControlOK'
        <3>1. CASE fail
            BY <1>3, <3>1 DEF ControlOK, RecoverEvent, ExecutedBase
        <3>2. CASE ~fail
            BY <1>3, <3>2 DEF ControlOK, ValuesOK, RecoverEvent, ExecutedBase, RecoverLoop
        <3> QED
            BY <3>1, <3>2
    <2> QED
        BY <2>1, <2>2, <2>3, <2>4
<1>4. ASSUME NEW fail \in BOOLEAN, RecoverState(fail)
      PROVE TypeInv'
    <2>1. SetsOK'
        BY <1>4, Zenon DEF SetsOK, ControlOK, RecoverState, RecoverLoop
    <2>2. ValuesOK'
        <3>1. CASE fail
            BY <1>4, <3>1 DEF ValuesOK, RecoverState
        <3>2. CASE ~fail
            <4>0. pend \in Heights /\ pendBase \in Nat
                BY <1>4 DEF ControlOK, RecoverState
            <4>a. Append(sLog, <<pend, pendBase>>) \in Seq(Heights \X Nat)
                BY <4>0, AppendLogType DEF ValuesOK
            <4>1. sLog' \in Seq(Heights \X Nat)
                BY <1>4, <3>2, <4>a DEF RecoverState
            <4>2. rec' \in Heights \cup {None}
                BY <1>4, <3>2 DEF ValuesOK, ControlOK, RecoverState
            <4> QED
                BY <1>4, <3>2, <4>1, <4>2 DEF ValuesOK, RecoverState, RecoverLoop
        <3> QED
            BY <3>1, <3>2
    <2>3. FiniteOK'
        BY <1>4 DEF FiniteOK, RecoverState, RecoverLoop
    <2>4. ControlOK'
        BY <1>4 DEF ControlOK, ValuesOK, RecoverState, RecoverLoop
    <2> QED
        BY <2>1, <2>2, <2>3, <2>4
<1>5. ASSUME NEW fail \in BOOLEAN, SaveVersion(fail)
      PROVE TypeInv'
    <2>1. SetsOK'
        BY <1>5, Zenon DEF SetsOK, ControlOK, SaveVersion
    <2>2. ValuesOK'
        BY <1>5 DEF ValuesOK, ControlOK, SaveVersion
    <2>3. FiniteOK'
        BY <1>5 DEF FiniteOK, SaveVersion
    <2>4. ControlOK'
        BY <1>5 DEF ControlOK, ValuesOK, SaveVersion
    <2> QED
        BY <2>1, <2>2, <2>3, <2>4
<1>6. ASSUME NEW h \in Heights, ExecuteBlock(h)
      PROVE TypeInv'
    <2>1. SetsOK'
        BY <1>6, Zenon DEF SetsOK, ControlOK, ExecuteBlock, GateFree, ExecutedBase, durableVars
    <2>2. ValuesOK'
        BY <1>6 DEF ValuesOK, ControlOK, ExecuteBlock, GateFree, ExecutedBase, durableVars
    <2>3. FiniteOK'
        BY <1>6 DEF FiniteOK, ExecuteBlock, GateFree, ExecutedBase, durableVars
    <2>4. ControlOK'
        BY <1>6 DEF ControlOK, ValuesOK, ExecuteBlock, GateFree, ExecutedBase, durableVars
    <2> QED
        BY <2>1, <2>2, <2>3, <2>4
<1>7. ASSUME NEW h \in Heights, NEW withL2 \in BOOLEAN,
             NEW fail \in StageOutcomes, SubmitBlock(h, withL2, fail)
      PROVE TypeInv'
    <2>0. IsFiniteSet(pendIdx') /\ pendIdx' \subseteq Nat
        BY <1>7, StageIndexFinite DEF SubmitBlock, GateFree, SubmitStage, NextHeightOk
    <2>1. SetsOK'
        <3>1. hidx' \subseteq Nat /\ l2' \subseteq Heights
            BY <1>7 DEF SetsOK, SubmitBlock, GateFree, SubmitStage, StageIndex, SetHeaderIndex, SaveHeaderIndexList
        <3> QED
            BY <1>7, <2>0, <3>1, Zenon DEF SetsOK, SubmitBlock, GateFree, SubmitStage
    <2>2. ValuesOK'
        <3>1. stored' \in Nat
            BY <1>7 DEF ValuesOK, SubmitBlock, GateFree, SubmitStage, StageIndex, SetHeaderIndex, SaveHeaderIndexList
        <3>2. CASE fail = "none"
            BY <1>7, <3>1, <3>2 DEF ValuesOK, SubmitBlock, GateFree, SubmitStage, NextHeightOk
        <3>3. CASE fail # "none"
            BY <1>7, <3>1, <3>3 DEF ValuesOK, SubmitBlock, GateFree, SubmitStage
        <3> QED
            BY <3>2, <3>3
    <2>3. FiniteOK'
        BY <1>7, <2>0 DEF FiniteOK, SubmitBlock, GateFree, SubmitStage
    <2>4. ControlOK'
        BY <1>7 DEF ControlOK, ValuesOK, SubmitBlock, GateFree, SubmitStage, NextHeightOk, StageIndex, SetHeaderIndex, SaveHeaderIndexList
    <2> QED
        BY <2>1, <2>2, <2>3, <2>4
<1>8. ASSUME NEW fail \in BOOLEAN, CommitBlockStore(fail)
      PROVE TypeInv'
    <2>1. SetsOK'
        BY <1>8, Zenon DEF SetsOK, ControlOK, CommitBlockStore, SubmitFails
    <2>2. ValuesOK'
        BY <1>8 DEF ValuesOK, ControlOK, CommitBlockStore, SubmitFails
    <2>3. FiniteOK'
        BY <1>8, FS_Union DEF FiniteOK, CommitBlockStore, SubmitFails
    <2>4. ControlOK'
        BY <1>8 DEF ControlOK, ValuesOK, CommitBlockStore, SubmitFails
    <2> QED
        BY <2>1, <2>2, <2>3, <2>4
<1>9. ASSUME NEW fail \in BOOLEAN, CommitEventStore(fail)
      PROVE TypeInv'
    <2>1. SetsOK'
        BY <1>9, Zenon DEF SetsOK, ControlOK, CommitEventStore, SubmitFails
    <2>2. ValuesOK'
        BY <1>9 DEF ValuesOK, ControlOK, CommitEventStore, SubmitFails
    <2>3. FiniteOK'
        BY <1>9 DEF FiniteOK, CommitEventStore, SubmitFails
    <2>4. ControlOK'
        BY <1>9 DEF ControlOK, ValuesOK, CommitEventStore, SubmitFails
    <2> QED
        BY <2>1, <2>2, <2>3, <2>4
<1>10. ASSUME NEW fail \in BOOLEAN, CommitStateStore(fail)
      PROVE TypeInv'
    <2>1. SetsOK'
        BY <1>10, Zenon DEF SetsOK, ControlOK, CommitStateStore, SubmitFails
    <2>2. ValuesOK'
        <3>1. CASE fail
            BY <1>10, <3>1 DEF ValuesOK, CommitStateStore, SubmitFails
        <3>2. CASE ~fail
            <4>0. pend \in Heights /\ pendBase \in Nat
                BY <1>10 DEF ControlOK, CommitStateStore
            <4>a. Append(sLog, <<pend, pendBase>>) \in Seq(Heights \X Nat)
                BY <4>0, AppendLogType DEF ValuesOK
            <4>1. sLog' \in Seq(Heights \X Nat)
                BY <1>10, <3>2, <4>a DEF CommitStateStore
            <4> QED
                BY <1>10, <3>2, <4>1 DEF ValuesOK, CommitStateStore
        <3> QED
            BY <3>1, <3>2
    <2>3. FiniteOK'
        BY <1>10 DEF FiniteOK, CommitStateStore, SubmitFails
    <2>4. ControlOK'
        BY <1>10 DEF ControlOK, ValuesOK, CommitStateStore, SubmitFails
    <2> QED
        BY <2>1, <2>2, <2>3, <2>4
<1>11. CASE SetCurrentBlock
    <2>1. SetsOK'
        BY <1>11, Zenon DEF SetsOK, ControlOK, SetCurrentBlock, durableVars
    <2>2. ValuesOK'
        BY <1>11 DEF ValuesOK, ControlOK, SetCurrentBlock, durableVars
    <2>3. FiniteOK'
        BY <1>11 DEF FiniteOK, SetCurrentBlock, durableVars
    <2>4. ControlOK'
        BY <1>11 DEF ControlOK, ValuesOK, SetCurrentBlock, durableVars
    <2> QED
        BY <2>1, <2>2, <2>3, <2>4
<1>12. CASE Close
    <2>1. SetsOK'
        BY <1>12, Zenon DEF SetsOK, ControlOK, Close, GateFree, durableVars
    <2>2. ValuesOK'
        BY <1>12 DEF ValuesOK, ControlOK, Close, GateFree, durableVars
    <2>3. FiniteOK'
        BY <1>12 DEF FiniteOK, Close, GateFree, durableVars
    <2>4. ControlOK'
        BY <1>12 DEF ControlOK, ValuesOK, Close, GateFree, durableVars
    <2> QED
        BY <2>1, <2>2, <2>3, <2>4
<1>15. CASE PreExecHeight
    <2>1. SetsOK'
        BY <1>15, Zenon DEF SetsOK, PreExecHeight, durableVars, memVars
    <2>2. ValuesOK'
        BY <1>15 DEF ValuesOK, PreExecHeight, durableVars, memVars
    <2>3. FiniteOK'
        BY <1>15 DEF FiniteOK, PreExecHeight, durableVars, memVars
    <2>4. ControlOK'
        BY <1>15 DEF ControlOK, PreExecHeight, durableVars, memVars
    <2> QED
        BY <2>1, <2>2, <2>3, <2>4
<1>16. CASE PreExecOverlay
    <2>1. SetsOK'
        BY <1>16, Zenon DEF SetsOK, PreExecOverlay, durableVars, memVars
    <2>2. ValuesOK'
        BY <1>16 DEF ValuesOK, PreExecOverlay, durableVars, memVars
    <2>3. FiniteOK'
        BY <1>16 DEF FiniteOK, PreExecOverlay, durableVars, memVars
    <2>4. ControlOK'
        BY <1>16 DEF ControlOK, PreExecOverlay, durableVars, memVars
    <2> QED
        BY <2>1, <2>2, <2>3, <2>4
<1>17. CASE PreExecBatchAtomic
    <2>1. SetsOK'
        BY <1>17, Zenon DEF SetsOK, PreExecBatchAtomic, GateFree, durableVars, memVars
    <2>2. ValuesOK'
        BY <1>17 DEF ValuesOK, PreExecBatchAtomic, GateFree, durableVars, memVars
    <2>3. FiniteOK'
        BY <1>17 DEF FiniteOK, PreExecBatchAtomic, GateFree, durableVars, memVars
    <2>4. ControlOK'
        BY <1>17 DEF ControlOK, PreExecBatchAtomic, GateFree, durableVars, memVars
    <2> QED
        BY <2>1, <2>2, <2>3, <2>4
<1>13. CASE Crash
    <2>1. SetsOK'
        BY <1>13, Zenon DEF SetsOK, ControlOK, Crash, FreshMemory, EmptyIndex, durableVars
    <2>2. ValuesOK'
        BY <1>13 DEF ValuesOK, ControlOK, Crash, FreshMemory, EmptyIndex, durableVars
    <2>3. FiniteOK'
        BY <1>13, FS_EmptySet DEF FiniteOK, Crash, FreshMemory, EmptyIndex, durableVars
    <2>4. ControlOK'
        BY <1>13 DEF ControlOK, ValuesOK, Crash, FreshMemory, EmptyIndex, durableVars
    <2> QED
        BY <2>1, <2>2, <2>3, <2>4
<1>14. CASE UNCHANGED vars
    <2>1. SetsOK'
        BY <1>14, Zenon DEF SetsOK, ControlOK, vars, durableVars, memVars
    <2>2. ValuesOK'
        BY <1>14 DEF ValuesOK, ControlOK, vars, durableVars, memVars
    <2>3. FiniteOK'
        BY <1>14 DEF FiniteOK, vars, durableVars, memVars
    <2>4. ControlOK'
        BY <1>14 DEF ControlOK, ValuesOK, vars, durableVars, memVars
    <2> QED
        BY <2>1, <2>2, <2>3, <2>4
<1> QED
    BY <1>1, <1>2, <1>3, <1>4, <1>5, <1>6, <1>7, <1>8, <1>9, <1>10, <1>11, <1>12, <1>13, <1>14, <1>15, <1>16, <1>17
       DEF Next
-----------------------------------------------------------------------------

\* Type correctness of the ledger store model: in every reachable state,
\* crashes, storage errors and recovery included, every marker, the
\* current height, the recoverStore loop variable and the state log have
\* the types the code gives them (heights stay in range and never wrap).
THEOREM TypeCorrect == Spec => []TypeOK
<1>1. Init => TypeInv
    BY TypeInvInit
<1>2. TypeInv /\ [Next]_vars => TypeInv'
    BY TypeInvStep
<1>3. TypeInv => TypeOK
    BY DEF TypeInv
<1> QED
    BY <1>1, <1>2, <1>3, PTL DEF Spec
-----------------------------------------------------------------------------
(* The order of the sub-store markers                                      *)

\* The conjuncts SubStoreOrderInv adds to TypeInv.
OrderOK ==
    /\ SubStoreOrder
    /\ pc \in {"staged", "bDone"} => eCur <= pend
    /\ pc = "bDone" => bCur = pend
    /\ pc \in {"eDone", "sDone"} => eCur = pend
    /\ phase \in {"init", "up"} => /\ eCur <= cur + 1
                                   /\ pc # "idle" => pend <= cur + 1
    /\ phase = "recover" => /\ cur = bCur
                            /\ pc = "idle" => sCur <= rec
                            /\ pc = "eDone" => pend = rec

\* The initial state satisfies the strengthened order invariant.
LEMMA OrderInit == Init => SubStoreOrderInv
BY TypeInvInit DEF Init, SubStoreOrderInv, SubStoreOrder, None

\* Every step of Next, or a stutter, preserves the strengthened order
\* invariant: TypeInv by TypeInvStep, the rest with one step per action.
LEMMA OrderStep == SubStoreOrderInv /\ [Next]_vars => SubStoreOrderInv'
<1> SUFFICES ASSUME SubStoreOrderInv, [Next]_vars PROVE SubStoreOrderInv'
    OBVIOUS
<1>0. /\ TypeInv' /\ SetsOK /\ ValuesOK /\ ControlOK /\ OrderOK
    BY TypeInvStep, TypeInvParts DEF SubStoreOrderInv, OrderOK
<1> SUFFICES OrderOK'
    BY <1>0 DEF SubStoreOrderInv, OrderOK
<1> USE ConstantsOK, <1>0 DEF Heights, None, SetsOK, ValuesOK, ControlOK,
        OrderOK, SubStoreOrder, readerVars
<1>1. ASSUME NEW fail \in BOOLEAN, StartFresh(fail)
      PROVE OrderOK'
    BY <1>1 DEF StartFresh, ClearAll
<1>2. CASE StartExisting
    BY <1>2 DEF StartExisting, EmptyIndex, RecoverLoop, durableVars
<1>3. ASSUME NEW fail \in BOOLEAN, RecoverEvent(fail)
      PROVE OrderOK'
    BY <1>3 DEF RecoverEvent, ExecutedBase, RecoverLoop
<1>4. ASSUME NEW fail \in BOOLEAN, RecoverState(fail)
      PROVE OrderOK'
    BY <1>4 DEF RecoverState, RecoverLoop
<1>5. ASSUME NEW fail \in BOOLEAN, SaveVersion(fail)
      PROVE OrderOK'
    BY <1>5 DEF SaveVersion
<1>6. ASSUME NEW h \in Heights, ExecuteBlock(h)
      PROVE OrderOK'
    BY <1>6 DEF ExecuteBlock, GateFree, ExecutedBase, durableVars
<1>7. ASSUME NEW h \in Heights, NEW withL2 \in BOOLEAN,
             NEW fail \in StageOutcomes, SubmitBlock(h, withL2, fail)
      PROVE OrderOK'
    BY <1>7 DEF SubmitBlock, GateFree, SubmitStage, NextHeightOk
<1>8. ASSUME NEW fail \in BOOLEAN, CommitBlockStore(fail)
      PROVE OrderOK'
    BY <1>8 DEF CommitBlockStore, SubmitFails
<1>9. ASSUME NEW fail \in BOOLEAN, CommitEventStore(fail)
      PROVE OrderOK'
    BY <1>9 DEF CommitEventStore, SubmitFails
<1>10. ASSUME NEW fail \in BOOLEAN, CommitStateStore(fail)
      PROVE OrderOK'
    BY <1>10 DEF CommitStateStore, SubmitFails
<1>11. CASE SetCurrentBlock
    BY <1>11 DEF SetCurrentBlock, durableVars
<1>12. CASE Close
    BY <1>12 DEF Close, GateFree, durableVars
<1>15. CASE PreExecHeight
    BY <1>15 DEF PreExecHeight, durableVars, memVars
<1>16. CASE PreExecOverlay
    BY <1>16 DEF PreExecOverlay, durableVars, memVars
<1>17. CASE PreExecBatchAtomic
    BY <1>17 DEF PreExecBatchAtomic, durableVars, memVars
<1>13. CASE Crash
    BY <1>13 DEF Crash, durableVars
<1>14. CASE UNCHANGED vars
    BY <1>14 DEF vars, durableVars, memVars, readerVars
<1> QED
    BY <1>1, <1>2, <1>3, <1>4, <1>5, <1>6, <1>7, <1>8, <1>9, <1>10, <1>11, <1>12, <1>13, <1>14, <1>15, <1>16, <1>17
       DEF Next

\* The commit order of submitBlock (block, then event, then state store)
\* and the replay of recoverStore keep the sub-store markers ordered in
\* every reachable state, across storage errors and crashes: the state
\* store is never ahead of the event store, nor that of the block store.
THEOREM SubStoreOrdered == Spec => []SubStoreOrder
<1>1. Init => SubStoreOrderInv
    BY OrderInit
<1>2. SubStoreOrderInv /\ [Next]_vars => SubStoreOrderInv'
    BY OrderStep
<1>3. SubStoreOrderInv => SubStoreOrder
    BY DEF SubStoreOrderInv
<1> QED
    BY <1>1, <1>2, <1>3, PTL DEF Spec
=============================================================================
