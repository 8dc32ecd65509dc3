------------------------- MODULE LedgerStartProofs -------------------------
(***************************************************************************)
(* Proofs about the start-up path of the ledger store, for every value of *)
(* the constants: once the version marker is saved, a restart never finds  *)
(* the genesis block or a block hash missing (VersionImpliesGenesis), and  *)
(* the storedIndexCount a restart reads back never passes the current      *)
(* height (NoIndexWrap).                                                   *)
(*                                                                         *)
(* Both rest on what the block store holds. Blocks are committed one       *)
(* height at a time from the genesis block, so the block store holds      *)
(* exactly 0..bCur; and a header index list is staged only for heights     *)
(* below storedIndexCount, which stays at most the current height, so the  *)
(* saved lists cover heights below bCur only. A lost flush (a failed block *)
(* commit after storedIndexCount was advanced) leaves a gap in them, so    *)
(* they are not an interval, but they stay below bCur, and their count,    *)
(* the storedIndexCount of the next start, is at most bCur.                *)
(***************************************************************************)
EXTENDS LedgerRefinement

StartInv ==
    /\ bCur = None => bBlocks = {} /\ bIdx = {}
    /\ bCur # None => bBlocks = 0..bCur /\ \A k \in bIdx : k < bCur
    /\ \A k \in pendIdx : k < stored
    /\ phase \in {"init", "recover", "up"} => stored <= cur
    /\ phase = "up" /\ pc # "idle" => pend = cur + 1
    /\ version => phase # "failed"

\* The inductive invariant: StartInv on top of the invariant of the
\* refinement proof, which gives the markers' types and where pend stands.
IInv == ChainInv /\ StartInv

\* A finite count bound: a set of naturals below b has at most b elements.
LEMMA CountBelow ==
    ASSUME NEW S \in SUBSET Nat, NEW b \in Nat, \A k \in S : k < b
    PROVE  Cardinality(S) \in Nat /\ Cardinality(S) <= b
<1>1. S \subseteq 0..(b - 1)
    OBVIOUS
<1>2. IsFiniteSet(0..(b - 1)) /\ Cardinality(0..(b - 1)) = b
    BY FS_Interval
<1>3. IsFiniteSet(S) /\ Cardinality(S) <= Cardinality(0..(b - 1))
    BY <1>1, <1>2, FS_Subset
<1> QED
    BY <1>2, <1>3, FS_CardinalityType

\* The block commit of height pend onto a block store holding 0..bCur (or
\* nothing, when pend is the genesis block) with its header lists below
\* bCur leaves 0..pend and lists below pend, when the staged list is below
\* a count stored <= pend.
LEMMA BlockCommitExtends ==
    ASSUME pend \in Nat, bCur \in Int, bIdx \in SUBSET Nat,
           pendIdx \in SUBSET Nat, stored \in Nat, stored <= pend,
           \A k \in pendIdx : k < stored,
           bCur = None => bBlocks = {} /\ bIdx = {} /\ pend = 0,
           bCur # None => /\ bBlocks = 0..bCur /\ (\A k \in bIdx : k < bCur)
                          /\ bCur \in {pend - 1, pend}
    PROVE  bBlocks \cup {pend} = 0..pend /\ \A k \in bIdx \cup pendIdx : k < pend
<1>1. CASE bCur = None
    BY <1>1 DEF None
<1>2. CASE bCur # None
    BY <1>2
<1> QED
    BY <1>1, <1>2

LEMMA StartInvInit == Init => IInv
<1> SUFFICES ASSUME Init PROVE IInv
    OBVIOUS
<1>1. ChainInv
    BY ChainInvInit
<1> QED
    BY <1>1 DEF Init, IInv, StartInv, None

\* Every step of Next, or a stutter, preserves IInv: ChainInv by
\* ChainInvStep, StartInv with one step per action.
LEMMA StartInvStep == IInv /\ [Next]_vars => IInv'
<1> SUFFICES ASSUME IInv, [Next]_vars PROVE IInv'
    OBVIOUS
<1>0. ChainInv' /\ SetsOK /\ ValuesOK /\ FiniteOK /\ ControlOK /\ RefineOK
    BY ChainInvStep, TypeInvParts DEF IInv, ChainInv, SubStoreOrderInv
<1> SUFFICES StartInv'
    BY <1>0 DEF IInv
<1> USE ConstantsOK, <1>0 DEF IInv, StartInv, RefineOK, Heights, None,
        SetsOK, ValuesOK, ControlOK, readerVars
<1>1. ASSUME NEW fail \in BOOLEAN, StartFresh(fail)
      PROVE StartInv'
    BY <1>1 DEF StartFresh, ClearAll, FreshMemory
<1>2. CASE StartExisting
    <2> DEFINE n == Cardinality(bIdx)
    <2>1. version /\ pc = "idle" /\ bCur \in Heights /\ bBlocks = 0..bCur
        BY <1>2 DEF StartExisting
    <2>2. n \in Nat /\ n <= bCur
        <3>1. bIdx \in SUBSET Nat /\ bCur \in Nat /\ \A k \in bIdx : k < bCur
            BY <2>1
        <3> QED
            BY <3>1, CountBelow
    <2>3. ~(0 \notin bBlocks \/ ~(n..bCur \subseteq bBlocks))
        BY <2>1, <2>2
    <2>4. /\ cur' = bCur /\ stored' = n /\ phase' # "failed" /\ pc' = "idle"
          /\ pendIdx' = {} /\ UNCHANGED <<version, bCur, bBlocks, bIdx>>
        BY <1>2, <2>1, <2>3 DEF StartExisting, FreshMemory, durableVars
    <2> QED
        BY <2>1, <2>2, <2>4
<1>3. ASSUME NEW fail \in BOOLEAN, RecoverEvent(fail)
      PROVE StartInv'
    BY <1>3 DEF RecoverEvent
<1>4. ASSUME NEW fail \in BOOLEAN, RecoverState(fail)
      PROVE StartInv'
    BY <1>4 DEF RecoverState
<1>5. ASSUME NEW fail \in BOOLEAN, SaveVersion(fail)
      PROVE StartInv'
    BY <1>5 DEF SaveVersion
<1>6. ASSUME NEW h \in Heights, ExecuteBlock(h)
      PROVE StartInv'
    BY <1>6 DEF ExecuteBlock, durableVars
<1>7. ASSUME NEW h \in Heights, NEW withL2 \in BOOLEAN,
             NEW fail \in StageOutcomes, SubmitBlock(h, withL2, fail)
      PROVE StartInv'
    <2>1. phase = "up" /\ pc = "idle" /\ h = cur + 1 /\ stored <= cur
        BY <1>7 DEF SubmitBlock, GateFree, NextHeightOk
    <2>2. /\ stored' <= cur
          /\ \A k \in pendIdx' : k < stored'
        <3>1. SaveHeaderIndexList
            BY <1>7 DEF SubmitBlock, SubmitStage, StageIndex
        <3>2. CASE FlushDue
            <4>1. cur - stored >= BatchSize
                BY <2>1, <3>2 DEF FlushDue
            <4> QED
                BY <3>1, <3>2, <4>1 DEF SaveHeaderIndexList
        <3>3. CASE ~FlushDue
            BY <2>1, <3>1, <3>3 DEF SaveHeaderIndexList
        <3> QED
            BY <3>2, <3>3
    <2>3. /\ pc' # "idle" => pend' = cur + 1
          /\ UNCHANGED <<version, bCur, bBlocks, bIdx, phase, cur>>
        BY <1>7, <2>1 DEF SubmitBlock, SubmitStage
    <2> QED
        BY <2>1, <2>2, <2>3
<1>8. ASSUME NEW fail \in BOOLEAN, CommitBlockStore(fail)
      PROVE StartInv'
    <2>0. /\ phase \in {"init", "up"} /\ pc = "staged" /\ stored \in Nat
          /\ UNCHANGED <<version, cur, stored, pend, pendIdx>>
        BY <1>8 DEF CommitBlockStore
    <2>1. CASE fail
        BY <1>8, <2>0, <2>1 DEF CommitBlockStore, SubmitFails
    <2>2. ASSUME ~fail
          PROVE  /\ bCur' = pend /\ bBlocks' = bBlocks \cup {pend}
                 /\ bIdx' = bIdx \cup pendIdx /\ phase' = phase /\ pc' = "bDone"
        BY <1>8, <2>2 DEF CommitBlockStore
    <2>3. CASE ~fail
        <3>1. /\ pend \in Nat /\ bCur \in Int /\ bIdx \in SUBSET Nat
              /\ pendIdx \in SUBSET Nat /\ stored \in Nat /\ stored <= pend
              /\ \A k \in pendIdx : k < stored
            BY <2>0
        <3>2. bCur = None => bBlocks = {} /\ bIdx = {} /\ pend = 0
            BY <2>0
        <3>3. bCur # None => bBlocks = 0..bCur /\ (\A k \in bIdx : k < bCur)
                             /\ bCur \in {pend - 1, pend}
            BY <2>0
        <3>4. bBlocks \cup {pend} = 0..pend /\ \A k \in bIdx \cup pendIdx : k < pend
            BY <3>1, <3>2, <3>3, BlockCommitExtends
        <3>5. bCur' = pend /\ bBlocks' = bBlocks \cup {pend} /\ bIdx' = bIdx \cup pendIdx
            BY <2>3, <2>2
        <3>6. bCur' # None /\ bBlocks' = 0..bCur' /\ \A k \in bIdx' : k < bCur'
            <4>1. bCur' # None
                BY <3>1, <3>5 DEF None
            <4>2. bBlocks' = 0..bCur'
                BY <3>4, <3>5, Zenon
            <4>3. \A k \in bIdx' : k < bCur'
                BY <3>4, <3>5, Zenon
            <4> QED
                BY <4>1, <4>2, <4>3
        <3>7. phase' = "up" /\ pc' # "idle" => pend' = cur' + 1
            BY <2>0, <2>3, <2>2
        <3>8. /\ \A k \in pendIdx' : k < stored'
              /\ phase' \in {"init", "recover", "up"} => stored' <= cur'
              /\ version' => phase' # "failed"
            BY <2>0, <2>3, <2>2
        <3> QED
            BY <3>6, <3>7, <3>8
    <2> QED
        BY <2>1, <2>3
<1>9. ASSUME NEW fail \in BOOLEAN, CommitEventStore(fail)
      PROVE StartInv'
    BY <1>9 DEF CommitEventStore, SubmitFails
<1>10. ASSUME NEW fail \in BOOLEAN, CommitStateStore(fail)
      PROVE StartInv'
    BY <1>10 DEF CommitStateStore, SubmitFails
<1>11. CASE SetCurrentBlock
    BY <1>11 DEF SetCurrentBlock, durableVars
<1>12. CASE Close
    BY <1>12 DEF Close, durableVars
<1>13. CASE PreExecHeight
    BY <1>13 DEF PreExecHeight, durableVars, memVars
<1>14. CASE PreExecOverlay
    BY <1>14 DEF PreExecOverlay, durableVars, memVars
<1>15. CASE PreExecBatchAtomic
    BY <1>15 DEF PreExecBatchAtomic, durableVars, memVars
<1>16. CASE Crash
    BY <1>16 DEF Crash, durableVars, FreshMemory, EmptyIndex
<1>17. CASE UNCHANGED vars
    BY <1>17 DEF vars, durableVars, memVars
<1> QED
    BY <1>1, <1>2, <1>3, <1>4, <1>5, <1>6, <1>7, <1>8, <1>9, <1>10, <1>11,
       <1>12, <1>13, <1>14, <1>15, <1>16, <1>17 DEF Next

\* IInv holds in every reachable state.
LEMMA StartInvariant == Spec => []IInv
BY StartInvInit, StartInvStep, PTL DEF Spec

\* A saved version marker always comes with the genesis block and a state
\* marker, and never makes a start fail (VersionImpliesGenesis), for any
\* number of storage errors and crashes: initGenesisBlock calls SaveVersion
\* only after submitBlock(genesis) returned, and a start with the marker
\* finds the genesis block and, in the block store's 0..bCur, every block
\* hash that loadHeaderIndexList reads past the saved lists.
THEOREM VersionGenesisThm == Spec => []VersionImpliesGenesis
<1>1. IInv => VersionImpliesGenesis
    BY DEF IInv, StartInv, ChainInv, SubStoreOrderInv, TypeInv, None, Heights,
           VersionImpliesGenesis
<1> QED
    BY <1>1, StartInvariant, PTL

\* storedIndexCount never passes currBlockHeight while the store runs
\* (NoIndexWrap), for any number of storage errors, lost flushes and
\* crashes, so the uint32 difference in saveHeaderIndexList never wraps:
\* a flush happens only a full batch below the current height, and the
\* count read back at a restart is that of saved lists below bCur.
THEOREM NoIndexWrapThm == Spec => []NoIndexWrap
<1>1. IInv => NoIndexWrap
    BY DEF IInv, StartInv, NoIndexWrap
<1> QED
    BY <1>1, StartInvariant, PTL
=============================================================================
