------------------------- MODULE Layer2CommitProofs -------------------------
(***************************************************************************)
(* Proofs about the layer2 state commit of the Layer2Operator, for every   *)
(* value of the constants: a commit record is marked finished only for a   *)
(* height the ontology contract holds, across late answers, dropped        *)
(* transactions, RPC errors, crashes and restarts.                         *)
(***************************************************************************)
EXTENDS Layer2Commit, FiniteSetTheorems, TLAPS

\* The constants' assumptions, as one fact to cite.
LEMMA ConstantsHold ==
    /\ MaxL2 \in Nat \ {0} /\ MaxPolls \in Nat /\ TxSlots \in Nat \ {0}
    /\ MaxLate \in Nat /\ MaxDrops \in Nat /\ MaxCrashes \in Nat
    /\ MaxRpcErrors \in Nat /\ InOrder \in BOOLEAN
BY MaxL2Assumption, MaxPollsAssumption, TxSlotsAssumption, FaultsAssumption,
   InOrderAssumption

\* The shape of the state the proof needs: heights are integers. Their
\* bounds are not needed here (and layer2ChainInfo.Height's lower bound is
\* NoHeightWrap, proved below as NoHeightWrapThm).
Shape ==
    /\ onChain \in Int
    /\ tx \in [Slots -> [h : Int, chain : ChainStates, rec : RecStates]]
    /\ finished \subseteq Int
    /\ height \in Int /\ msgH \in Int /\ comH \in Int

\* The contract's view bounds every finished record and every transaction
\* the chain has executed successfully.
FinInv ==
    /\ Shape
    /\ \A k \in finished : k <= onChain
    /\ \A s \in Slots : tx[s].chain = "ok" => tx[s].h <= onChain

\* GetLayer2CommitHeight is a height: the greatest of a set of integers,
\* or 0.
LEMMA CommitHeightInt == Shape => GetLayer2CommitHeight \in Int
<1> SUFFICES ASSUME Shape PROVE GetLayer2CommitHeight \in Int
    OBVIOUS
<1> DEFINE hs == finished \cup UnconfirmedHeights
<1>1. hs \subseteq Int
    BY DEF Shape, UnconfirmedHeights
<1> QED
    BY <1>1 DEF GetLayer2CommitHeight

LEMMA FinInvInit == Init => FinInv
BY ConstantsHold DEF Init, FinInv, Shape, Slots, ChainStates, RecStates, Tip, Heights

LEMMA FinInvStep == FinInv /\ [Next]_vars => FinInv'
<1> SUFFICES ASSUME FinInv, [Next]_vars PROVE FinInv'
    OBVIOUS
<1> USE ConstantsHold DEF FinInv, Shape, chainVars, procVars, faultVars
<1>0. GetLayer2CommitHeight \in Int
    BY CommitHeightInt DEF FinInv
<1>1. ASSUME NEW ok \in BOOLEAN, Start(ok) PROVE FinInv'
    BY <1>0, <1>1 DEF Start, RpcError, CheckLayer2StateByHeight
<1>2. CASE MonTick
    BY <1>2 DEF MonTick
<1>3. CASE MonLoopExit
    BY <1>3 DEF MonLoopExit
<1>4. ASSUME NEW ok \in BOOLEAN, NEW parsed \in BOOLEAN, MonParse(ok, parsed)
      PROVE FinInv'
    BY <1>4 DEF MonParse, RpcError
<1>5. CASE Handoff
    BY <1>5 DEF Handoff
<1>6. CASE ComSend
    BY <1>6 DEF ComSend, ChainStates, RecStates
<1>7. CASE ComSave
    BY <1>7 DEF ComSave, RecStates
<1>8. CASE ChkLoad
    BY <1>8 DEF ChkLoad
<1>9. ASSUME NEW s \in Slots, ChkPoll(s) PROVE FinInv'
    BY <1>9 DEF ChkPoll, RecStates
<1>10. CASE ChkLock
    BY <1>10 DEF ChkLock
<1>11. CASE ChkDone
    BY <1>11 DEF ChkDone
<1>12. ASSUME NEW s \in Slots, OntExec(s) PROVE FinInv'
    BY <1>12 DEF OntExec, ChainStates
<1>13. ASSUME NEW s \in Slots, OntDrop(s) PROVE FinInv'
    BY <1>13 DEF OntDrop, ChainStates
<1>14. CASE Crash
    BY <1>14 DEF Crash, Stopped
<1>15. CASE UNCHANGED vars
    BY <1>15 DEF vars
<1> QED
    BY <1>1, <1>2, <1>3, <1>4, <1>5, <1>6, <1>7, <1>8, <1>9, <1>10, <1>11,
       <1>12, <1>13, <1>14, <1>15 DEF Next

\* Only heights the ontology contract holds are marked finished
\* (FinishedOnChain), for any number of late answers, dropped
\* transactions, RPC errors and crashes: checkLayer2State marks a record
\* finished only for an executed transaction, and Start only after
\* checkLayer2StateByHeight saw the height on the contract.
THEOREM FinishedOnChainThm == Spec => []FinishedOnChain
<1>1. FinInv => FinishedOnChain
    BY DEF FinInv, FinishedOnChain
<1> QED
    BY <1>1, FinInvInit, FinInvStep, PTL DEF Spec

-----------------------------------------------------------------------------
(* Height never wraps. checkLayer2State rolls layer2ChainInfo.Height back  *)
(* by one for every record it marks failed, so Height must stay at least   *)
(* the number of rollbacks still owed: one per unconfirmed record, one per *)
(* message on its way to becoming one (blocked on msgChan or held by       *)
(* commitMsgLoop) and one for a rollback waiting for mu. A restart sets    *)
(* Height to the highest recorded height, so the records that survive a    *)
(* crash must also be few enough for their heights: at most k of them, and *)
(* of the messages in flight, are at or below any height k.                *)

\* Unconfirmed records at or below height k.
Owed(k) == {s \in Slots : tx[s].rec = "unconfirmed" /\ tx[s].h <= k}

\* Rollbacks owed for heights at or below k.
Owing(k) ==
    Cardinality(Owed(k))
      + (IF mon = "send" /\ msgH <= k THEN 1 ELSE 0)
      + (IF com # "idle" /\ comH <= k THEN 1 ELSE 0)

\* Every rollback checkLayer2State may still take.
Rollbacks == Owing(Tip) + (IF chk = "lock" THEN 1 ELSE 0)

\* Sets of slots are finite, and counting them behaves as expected.
LEMMA SlotSetCard ==
    ASSUME NEW S \in SUBSET Slots
    PROVE  IsFiniteSet(S) /\ Cardinality(S) \in Nat
<1>1. IsFiniteSet(Slots)
    BY FS_Interval, TxSlotsAssumption DEF Slots
<1> QED
    BY <1>1, FS_Subset, FS_CardinalityType

LEMMA SlotSubsetCard ==
    ASSUME NEW S \in SUBSET Slots, NEW T \in SUBSET S
    PROVE  Cardinality(T) <= Cardinality(S)
<1>1. IsFiniteSet(S)
    BY SlotSetCard
<1> QED
    BY <1>1, FS_Subset

LEMMA SlotAddCard ==
    ASSUME NEW S \in SUBSET Slots, NEW x, x \notin S
    PROVE  Cardinality(S \cup {x}) = Cardinality(S) + 1
BY SlotSetCard, FS_AddElement

LEMMA SlotRemoveCard ==
    ASSUME NEW S \in SUBSET Slots, NEW x \in S
    PROVE  Cardinality(S \ {x}) = Cardinality(S) - 1
BY SlotSetCard, FS_RemoveElement

\* A non-empty set of heights has a greatest element (by the least-number
\* principle applied to the distances below Tip).
LEMMA HeightsMax ==
    ASSUME NEW H \in SUBSET Heights, H # {}
    PROVE  \E m \in H : \A k \in H : k <= m
<1> DEFINE T == {Tip - k : k \in H}
<1>1. Tip \in Nat
    BY MaxL2Assumption DEF Tip
<1>2. T \subseteq Nat /\ T # {}
    BY <1>1 DEF T, Heights
<1>3. PICK x \in T : \A y \in T : ~(<<y, x>> \in OpToRel(<, Nat))
    BY <1>2, NatLessThanWellFounded, WFMin
<1>4. PICK m \in H : x = Tip - m
    BY <1>3 DEF T
<1>5. \A k \in H : ~(Tip - k < Tip - m)
    BY <1>2, <1>3, <1>4 DEF T, OpToRel
<1> QED
    BY <1>1, <1>4, <1>5 DEF Heights

\* GetLayer2CommitHeight is a height at least that of every unconfirmed
\* record.
LEMMA CommitHeightTop ==
    ASSUME TypeOK
    PROVE  /\ GetLayer2CommitHeight \in Heights
           /\ \A s \in Slots : tx[s].rec = "unconfirmed" => tx[s].h <= GetLayer2CommitHeight
<1> DEFINE hs == finished \cup UnconfirmedHeights
           IsTop(m) == \A k \in hs : k <= m
<1>1. hs \subseteq Heights
    BY DEF TypeOK, UnconfirmedHeights
<1>2. \A s \in Slots : tx[s].rec = "unconfirmed" => tx[s].h \in hs
    BY DEF UnconfirmedHeights
<1>3. CASE hs = {}
    <2>1. GetLayer2CommitHeight = 0
        BY <1>3 DEF GetLayer2CommitHeight
    <2> QED
        BY <1>2, <1>3, <2>1, MaxL2Assumption DEF Heights, Tip
<1>4. CASE hs # {}
    <2>1. \E m \in hs : IsTop(m)
        BY <1>1, <1>4, HeightsMax
    <2>2. GetLayer2CommitHeight \in hs /\ IsTop(GetLayer2CommitHeight)
        BY <2>1 DEF GetLayer2CommitHeight
    <2> QED
        BY <1>1, <1>2, <2>2
<1> QED
    BY <1>3, <1>4

\* The shape of the state: well typed, Height not wrapped, a stopped
\* process runs no goroutine, checkLayer2State polls only unconfirmed
\* records, and the transaction commitMsgLoop sent is that of its message.
HShape ==
    /\ TypeOK /\ height >= 0
    /\ ~up => mon = "idle" /\ com = "idle" /\ chk = "idle"
    /\ \A s \in Slots : budget[s] > 0 => tx[s].rec = "unconfirmed"
    /\ com = "sent" => comTx \in Slots /\ tx[comTx].h = comH /\ tx[comTx].rec = "none"

\* At most k rollbacks are owed for heights at or below k.
OwingBound == \A k \in Heights : Owing(k) <= k

\* A running operator's Height covers every rollback still owed.
RollbackBound == up => Rollbacks <= height

HeightInv == HShape /\ OwingBound /\ RollbackBound

LEMMA OwingNat ==
    ASSUME NEW k
    PROVE  Cardinality(Owed(k)) \in Nat /\ Owing(k) \in Nat
<1>1. Cardinality(Owed(k)) \in Nat
    BY SlotSetCard DEF Owed
<1> QED
    BY <1>1 DEF Owing

\* A rollback waiting for mu leaves Height positive.
LEMMA LockPositive == HeightInv /\ up /\ chk = "lock" => height >= 1
<1> SUFFICES ASSUME HeightInv, up, chk = "lock" PROVE height >= 1
    OBVIOUS
<1>1. Owing(Tip) \in Nat
    BY OwingNat
<1>2. Rollbacks <= height /\ height \in Int
    BY DEF HeightInv, RollbackBound, HShape, TypeOK
<1> QED
    BY <1>1, <1>2 DEF Rollbacks

LEMMA HShapeInit == Init => HeightInv
<1> SUFFICES ASSUME Init PROVE HeightInv
    OBVIOUS
<1>1. \A k : Owed(k) = {}
    BY DEF Init, Owed
<1>2. \A k : Owing(k) = 0
    BY <1>1, FS_EmptySet DEF Init, Owing
<1>3. HShape
    <2>1. Tip \in Nat /\ 0 \in 0..MaxPolls /\ 0 \in 0..MaxLate /\ 0 \in 0..MaxDrops
          /\ 0 \in 0..MaxCrashes /\ 0 \in 0..MaxRpcErrors /\ 0 \in -TxSlots..Tip
        BY ConstantsHold DEF Tip
    <2>2. 0 \in Heights
        BY <2>1 DEF Heights
    <2>3. tx \in [Slots -> [h : Heights, chain : ChainStates, rec : RecStates]]
        BY <2>2 DEF Init, ChainStates, RecStates
    <2>4. TypeOK
        BY <2>1, <2>2, <2>3 DEF Init, TypeOK, NoSlot
    <2> QED
        BY <2>4 DEF Init, HShape
<1>4. OwingBound
    BY <1>2 DEF OwingBound, Heights
<1> QED
    BY <1>3, <1>4 DEF Init, HeightInv, RollbackBound

LEMMA HShapeStep == HeightInv /\ [Next]_vars => HShape'
<1> SUFFICES ASSUME HeightInv, [Next]_vars PROVE HShape'
    OBVIOUS
<1>0. Tip \in Nat
    BY ConstantsHold DEF Tip
<1> USE ConstantsHold, <1>0 DEF HeightInv, HShape, TypeOK, Heights, chainVars, procVars, faultVars
<1>1. ASSUME NEW ok \in BOOLEAN, Start(ok) PROVE HShape'
    <2>1. GetLayer2CommitHeight \in Heights
        BY CommitHeightTop
    <2>2. height' \in 0..Tip /\ finished' \subseteq Heights
        BY <1>1, <2>1 DEF Start, CheckLayer2StateByHeight
    <2>3. height' \in -TxSlots..Tip /\ height' >= 0
        BY <2>2
    <2>4. rpcErrs' \in 0..MaxRpcErrors
        BY <1>1 DEF Start, RpcError
    <2> QED
        BY <1>1, <2>2, <2>3, <2>4 DEF Start
<1>2. CASE MonTick
    BY <1>2 DEF MonTick
<1>3. CASE MonLoopExit
    BY <1>3 DEF MonLoopExit
<1>4. ASSUME NEW ok \in BOOLEAN, NEW parsed \in BOOLEAN, MonParse(ok, parsed)
      PROVE HShape'
    <2>1. height' \in 0..Tip /\ msgH' \in Heights
        BY <1>4 DEF MonParse, CheckLayer2StateByHeight
    <2>2. height' \in -TxSlots..Tip /\ height' >= 0
        BY <2>1
    <2>3. rpcErrs' \in 0..MaxRpcErrors
        BY <1>4 DEF MonParse, RpcError
    <2> QED
        BY <1>4, <2>1, <2>2, <2>3 DEF MonParse
<1>5. CASE Handoff
    BY <1>5 DEF Handoff
<1>6. CASE ComSend
    BY <1>6 DEF ComSend, FreeSlot, ChainStates, RecStates
<1>7. CASE ComSave
    BY <1>7 DEF ComSave, RecStates, NoSlot
<1>8. CASE ChkLoad
    BY <1>8 DEF ChkLoad
<1>9. ASSUME NEW s \in Slots, ChkPoll(s) PROVE HShape'
    BY <1>9 DEF ChkPoll, RecStates
<1>10. CASE ChkLock
    <2>1. height >= 1
        BY <1>10, LockPositive DEF ChkLock
    <2>2. height' \in -TxSlots..Tip /\ height' >= 0
        BY <1>10, <2>1 DEF ChkLock
    <2> QED
        BY <1>10, <2>2 DEF ChkLock
<1>11. CASE ChkDone
    BY <1>11 DEF ChkDone
<1>12. ASSUME NEW s \in Slots, OntExec(s) PROVE HShape'
    BY <1>12 DEF OntExec, ChainStates
<1>13. ASSUME NEW s \in Slots, OntDrop(s) PROVE HShape'
    BY <1>13 DEF OntDrop, ChainStates
<1>14. CASE Crash
    <2>1. budget' = [r \in Slots |-> 0] /\ budget' \in [Slots -> 0..MaxPolls]
          /\ crashes' \in 0..MaxCrashes
        BY <1>14 DEF Crash, Stopped
    <2>2. mon' = "idle" /\ com' = "idle" /\ chk' = "idle" /\ comTx' \in Slots \cup {NoSlot}
          /\ msgH' \in Heights /\ comH' \in Heights /\ mu' = "free"
        BY <1>14 DEF Crash, Stopped, NoSlot
    <2>3. up' = FALSE /\ crashes' = crashes + 1
          /\ UNCHANGED <<onChain, tx, finished, height, needCheck, late, drops, rpcErrs>>
        BY <1>14 DEF Crash
    <2>4. TypeOK'
        BY <2>1, <2>2, <2>3
    <2> QED
        BY <2>1, <2>2, <2>3, <2>4
<1>15. CASE UNCHANGED vars
    BY <1>15 DEF vars
<1> QED
    BY <1>1, <1>2, <1>3, <1>4, <1>5, <1>6, <1>7, <1>8, <1>9, <1>10, <1>11,
       <1>12, <1>13, <1>14, <1>15 DEF Next

\* Owed(k) depends only on the height and record state of each slot.
LEMMA OwedSame ==
    ASSUME NEW k, \A r \in Slots : tx'[r].rec = tx[r].rec /\ tx'[r].h = tx[r].h
    PROVE  Owed(k)' = Owed(k)
BY DEF Owed

\* A step that changes neither Owed(k) nor the messages in flight at or
\* below k keeps Owing(k).
LEMMA OwingSame ==
    ASSUME NEW k, Owed(k)' = Owed(k),
           (mon' = "send" /\ msgH' <= k) <=> (mon = "send" /\ msgH <= k),
           (com' # "idle" /\ comH' <= k) <=> (com # "idle" /\ comH <= k)
    PROVE  Owing(k)' = Owing(k)
BY DEF Owing

\* Fewer rollbacks are owed at a lower height.
LEMMA OwingMono ==
    ASSUME HShape, NEW k \in Heights
    PROVE  Owing(k) <= Owing(Tip)
<1>1. Owed(k) \subseteq Owed(Tip) /\ Owed(Tip) \subseteq Slots
    BY DEF HShape, TypeOK, Owed, Heights
<1>2. Cardinality(Owed(k)) <= Cardinality(Owed(Tip))
    BY <1>1, SlotSubsetCard
<1>3. Cardinality(Owed(k)) \in Nat /\ Cardinality(Owed(Tip)) \in Nat
    BY OwingNat
<1>4. msgH <= Tip /\ comH <= Tip /\ k <= Tip
    BY DEF HShape, TypeOK, Heights
<1> QED
    BY <1>2, <1>3, <1>4 DEF Owing

LEMMA OwingStep == HeightInv /\ [Next]_vars => OwingBound' /\ RollbackBound'
<1> SUFFICES ASSUME HeightInv, [Next]_vars PROVE OwingBound' /\ RollbackBound'
    OBVIOUS
<1>0. /\ HShape /\ HShape' /\ OwingBound /\ RollbackBound /\ Tip \in Heights
      /\ \A k : Owing(k) \in Nat /\ Owing(k)' \in Nat
      /\ Rollbacks \in Nat /\ Rollbacks' \in Nat /\ height \in Int /\ height' \in Int
      /\ Tip \in Nat
    <2>1. HShape /\ HShape' /\ OwingBound /\ RollbackBound
        BY HShapeStep DEF HeightInv
    <2>2. Tip \in Heights
        BY ConstantsHold DEF Tip, Heights
    <2>3. \A k : Owing(k) \in Nat /\ Owing(k)' \in Nat
        BY OwingNat, SlotSetCard DEF Owing, Owed
    <2>4. Rollbacks \in Nat /\ Rollbacks' \in Nat
        BY <2>3 DEF Rollbacks
    <2>5. height \in Int /\ height' \in Int
        BY <2>1 DEF HShape, TypeOK
    <2>6. Tip \in Nat
        BY ConstantsHold DEF Tip
    <2> QED
        BY <2>1, <2>2, <2>3, <2>4, <2>5, <2>6
\* The steps that leave the records and the messages in flight alone.
<1>1. ASSUME \A r \in Slots : tx'[r].rec = tx[r].rec /\ tx'[r].h = tx[r].h,
             mon' = "send" <=> mon = "send", msgH' = msgH, com' = com, comH' = comH,
             chk' = "lock" <=> chk = "lock", up' = up, height' >= height
      PROVE  OwingBound' /\ RollbackBound'
    <2>1. \A k : Owing(k)' = Owing(k)
        BY <1>1, OwedSame, OwingSame
    <2>2. Rollbacks' = Rollbacks
        BY <1>1, <2>1 DEF Rollbacks
    <2>3. OwingBound'
        BY <1>0, <2>1 DEF OwingBound
    <2> QED
        BY <1>0, <1>1, <2>2, <2>3 DEF RollbackBound
<1>2. CASE MonTick
    <2>1. /\ \A r \in Slots : tx'[r].rec = tx[r].rec /\ tx'[r].h = tx[r].h
          /\ mon' = "send" <=> mon = "send"
          /\ msgH' = msgH /\ com' = com /\ comH' = comH
          /\ chk' = "lock" <=> chk = "lock"
          /\ up' = up /\ height' = height
        BY <1>0, <1>2 DEF MonTick, chainVars
    <2> QED
        BY <1>0, <1>1, <2>1
<1>3. CASE MonLoopExit
    <2>1. /\ \A r \in Slots : tx'[r].rec = tx[r].rec /\ tx'[r].h = tx[r].h
          /\ mon' = "send" <=> mon = "send"
          /\ msgH' = msgH /\ com' = com /\ comH' = comH
          /\ chk' = "lock" <=> chk = "lock"
          /\ up' = up /\ height' = height
        BY <1>0, <1>3 DEF MonLoopExit, chainVars
    <2> QED
        BY <1>0, <1>1, <2>1
<1>4. CASE ChkLoad
    <2>1. /\ \A r \in Slots : tx'[r].rec = tx[r].rec /\ tx'[r].h = tx[r].h
          /\ mon' = "send" <=> mon = "send"
          /\ msgH' = msgH /\ com' = com /\ comH' = comH
          /\ chk' = "lock" <=> chk = "lock"
          /\ up' = up /\ height' = height
        BY <1>0, <1>4 DEF ChkLoad, chainVars
    <2> QED
        BY <1>0, <1>1, <2>1
<1>5. CASE ChkDone
    <2>1. /\ \A r \in Slots : tx'[r].rec = tx[r].rec /\ tx'[r].h = tx[r].h
          /\ mon' = "send" <=> mon = "send"
          /\ msgH' = msgH /\ com' = com /\ comH' = comH
          /\ chk' = "lock" <=> chk = "lock"
          /\ up' = up /\ height' = height
        BY <1>0, <1>5 DEF ChkDone, chainVars
    <2> QED
        BY <1>0, <1>1, <2>1
<1>6. ASSUME NEW s \in Slots, OntExec(s) PROVE OwingBound' /\ RollbackBound'
    <2>1. \A r \in Slots : tx'[r].rec = tx[r].rec /\ tx'[r].h = tx[r].h
        BY <1>0, <1>6 DEF OntExec, HShape, TypeOK
    <2>2. UNCHANGED procVars
        BY <1>6 DEF OntExec
    <2> QED
        BY <1>0, <1>1, <2>1, <2>2 DEF procVars
<1>7. ASSUME NEW s \in Slots, OntDrop(s) PROVE OwingBound' /\ RollbackBound'
    <2>1. \A r \in Slots : tx'[r].rec = tx[r].rec /\ tx'[r].h = tx[r].h
        BY <1>0, <1>7 DEF OntDrop, HShape, TypeOK
    <2>2. UNCHANGED procVars
        BY <1>7 DEF OntDrop
    <2> QED
        BY <1>0, <1>1, <2>1, <2>2 DEF procVars
<1>8. CASE UNCHANGED vars
    <2>1. /\ \A r \in Slots : tx'[r].rec = tx[r].rec /\ tx'[r].h = tx[r].h
          /\ mon' = "send" <=> mon = "send"
          /\ msgH' = msgH /\ com' = com /\ comH' = comH
          /\ chk' = "lock" <=> chk = "lock"
          /\ up' = up /\ height' = height
        BY <1>0, <1>8 DEF vars, chainVars, procVars
    <2> QED
        BY <1>0, <1>1, <2>1
<1>9. CASE Handoff
    <2>0. /\ tx' = tx /\ mon = "send" /\ mon' = "loop" /\ com = "idle" /\ com' = "commit"
          /\ comH' = msgH /\ msgH' = msgH /\ chk' = chk /\ up' = up /\ height' = height
        BY <1>9 DEF Handoff, chainVars
    <2>1. \A k : Owing(k)' = Owing(k)
        <3> SUFFICES ASSUME NEW k PROVE Owing(k)' = Owing(k)
            OBVIOUS
        <3>1. Owed(k)' = Owed(k)
            BY <2>0 DEF Owed
        <3>2. Cardinality(Owed(k)) \in Nat
            BY OwingNat
        <3> QED
            BY <2>0, <3>1, <3>2 DEF Owing
    <2>2. Rollbacks' = Rollbacks
        BY <2>0, <2>1 DEF Rollbacks
    <2> QED
        BY <1>0, <2>0, <2>1, <2>2 DEF OwingBound, RollbackBound
<1>10. CASE ComSend
    <2>0. /\ com = "commit" /\ com' = "sent"
          /\ UNCHANGED <<mon, msgH, comH, chk, up, height>>
        BY <1>10 DEF ComSend
    <2>1. PICK s \in Slots : /\ FreeSlot(s)
                             /\ tx' = [tx EXCEPT ![s] = [h |-> comH, chain |-> "pending", rec |-> "none"]]
        BY <1>10 DEF ComSend
    <2>2. \A r \in Slots : /\ tx'[r].rec = "unconfirmed" <=> tx[r].rec = "unconfirmed"
                           /\ tx[r].rec = "unconfirmed" => tx'[r].h = tx[r].h
        BY <1>0, <2>1 DEF FreeSlot, HShape, TypeOK
    <2>3. \A k : Owing(k)' = Owing(k)
        <3> SUFFICES ASSUME NEW k PROVE Owing(k)' = Owing(k)
            OBVIOUS
        <3>1. Owed(k)' = Owed(k)
            BY <2>2 DEF Owed
        <3>2. Cardinality(Owed(k)) \in Nat
            BY OwingNat
        <3> QED
            BY <2>0, <3>1, <3>2 DEF Owing
    <2>4. Rollbacks' = Rollbacks
        BY <2>0, <2>3 DEF Rollbacks
    <2> QED
        BY <1>0, <2>0, <2>3, <2>4 DEF OwingBound, RollbackBound
<1>11. CASE ComSave
    <2>1. comTx \in Slots /\ tx[comTx].h = comH /\ tx[comTx].rec = "none"
          /\ tx' = [tx EXCEPT ![comTx].rec = "unconfirmed"]
        BY <1>0, <1>11 DEF ComSave, HShape
    <2>2. \A k : /\ Owed(k)' = IF comH <= k THEN Owed(k) \cup {comTx} ELSE Owed(k)
                 /\ comTx \notin Owed(k)
        BY <1>0, <2>1 DEF Owed, HShape, TypeOK
    <2>3. \A k : Cardinality(Owed(k)') = Cardinality(Owed(k)) + (IF comH <= k THEN 1 ELSE 0)
        <3> SUFFICES ASSUME NEW k
                     PROVE  Cardinality(Owed(k)') = Cardinality(Owed(k)) + (IF comH <= k THEN 1 ELSE 0)
            OBVIOUS
        <3>1. Owed(k) \subseteq Slots
            BY DEF Owed
        <3>2. CASE comH <= k
            BY <2>2, <3>1, <3>2, SlotAddCard
        <3>3. CASE ~(comH <= k)
            BY <2>2, <3>3, OwingNat
        <3> QED
            BY <3>2, <3>3
    <2>4. \A k : Owing(k)' = Owing(k)
        <3> SUFFICES ASSUME NEW k PROVE Owing(k)' = Owing(k)
            OBVIOUS
        <3>1. Cardinality(Owed(k)) \in Nat
            BY OwingNat
        <3> QED
            BY <1>11, <2>3, <3>1 DEF ComSave, Owing
    <2>5. Rollbacks' = Rollbacks
        BY <1>11, <2>4 DEF ComSave, Rollbacks
    <2> QED
        BY <1>0, <1>11, <2>4, <2>5 DEF ComSave, OwingBound, RollbackBound
<1>12. ASSUME NEW s \in Slots, ChkPoll(s) PROVE OwingBound' /\ RollbackBound'
    <2>0. /\ tx[s].rec = "unconfirmed" /\ tx[s].h \in Heights /\ chk = "poll"
          /\ UNCHANGED <<up, height, mon, msgH, com, comH>>
        BY <1>0, <1>12 DEF ChkPoll, HShape, TypeOK
    <2>1. ASSUME NEW v, v # "unconfirmed", tx' = [tx EXCEPT ![s].rec = v]
          PROVE  \A k : Owing(k)' = Owing(k) - (IF tx[s].h <= k THEN 1 ELSE 0)
        <3> SUFFICES ASSUME NEW k
                     PROVE  Owing(k)' = Owing(k) - (IF tx[s].h <= k THEN 1 ELSE 0)
            OBVIOUS
        <3>0. /\ \A r \in Slots \ {s} : tx'[r] = tx[r]
              /\ tx'[s].rec = v /\ tx'[s].h = tx[s].h
            BY <1>0, <2>1 DEF HShape, TypeOK
        <3>1. Owed(k)' = Owed(k) \ {s} /\ (s \in Owed(k) <=> tx[s].h <= k)
            BY <2>0, <2>1, <3>0 DEF Owed
        <3>2. Cardinality(Owed(k)') = Cardinality(Owed(k)) - (IF tx[s].h <= k THEN 1 ELSE 0)
            <4>1. Owed(k) \subseteq Slots
                BY DEF Owed
            <4>2. CASE tx[s].h <= k
                BY <3>1, <4>1, <4>2, SlotRemoveCard
            <4>3. CASE ~(tx[s].h <= k)
                BY <3>1, <4>3, OwingNat
            <4> QED
                BY <4>2, <4>3
        <3>3. Cardinality(Owed(k)) \in Nat
            BY OwingNat
        <3> QED
            BY <2>0, <3>2, <3>3 DEF Owing
    <2>2. tx[s].h <= Tip
        BY <2>0 DEF Heights
    <2>3. ASSUME NEW v, v # "unconfirmed", tx' = [tx EXCEPT ![s].rec = v]
          PROVE  /\ Owing(Tip)' = Owing(Tip) - 1
                 /\ \A k \in Heights : Owing(k)' <= Owing(k)
        <3>1. Owing(Tip)' = Owing(Tip) - (IF tx[s].h <= Tip THEN 1 ELSE 0)
              /\ \A k \in Heights : Owing(k)' = Owing(k) - (IF tx[s].h <= k THEN 1 ELSE 0)
            BY <2>1, <2>3
        <3> QED
            BY <1>0, <2>2, <3>1
    <2>4. CASE tx' = [tx EXCEPT ![s].rec = "failed"] /\ chk' = "lock"
        <3>1. Owing(Tip)' = Owing(Tip) - 1 /\ \A k \in Heights : Owing(k)' <= Owing(k)
            BY <2>3, <2>4
        <3>2. Rollbacks' = Rollbacks
            BY <1>0, <2>0, <2>4, <3>1 DEF Rollbacks
        <3>3. OwingBound'
            BY <1>0, <3>1 DEF OwingBound, Heights
        <3>4. RollbackBound'
            BY <1>0, <2>0, <3>2 DEF RollbackBound
        <3> QED
            BY <3>3, <3>4
    <2>5. CASE tx' = [tx EXCEPT ![s].rec = "finished"] /\ chk' = chk
        <3>1. Owing(Tip)' = Owing(Tip) - 1 /\ \A k \in Heights : Owing(k)' <= Owing(k)
            BY <2>3, <2>5
        <3>2. Rollbacks' <= Rollbacks
            BY <1>0, <2>5, <3>1 DEF Rollbacks
        <3>3. OwingBound'
            BY <1>0, <3>1 DEF OwingBound, Heights
        <3>4. RollbackBound'
            BY <1>0, <2>0, <3>2 DEF RollbackBound
        <3> QED
            BY <3>3, <3>4
    <2>6. CASE tx' = tx /\ chk' = chk
        <3>1. /\ \A r \in Slots : tx'[r].rec = tx[r].rec /\ tx'[r].h = tx[r].h
              /\ mon' = "send" <=> mon = "send"
              /\ msgH' = msgH /\ com' = com /\ comH' = comH
              /\ chk' = "lock" <=> chk = "lock"
              /\ up' = up /\ height' = height
            BY <2>0, <2>6
        <3> QED
            BY <1>0, <1>1, <3>1
    <2>7. \/ tx' = [tx EXCEPT ![s].rec = "failed"] /\ chk' = "lock"
          \/ tx' = [tx EXCEPT ![s].rec = "finished"] /\ chk' = chk
          \/ tx' = tx /\ chk' = chk
        BY <1>12, Zenon DEF ChkPoll
    <2> QED
        BY <2>4, <2>5, <2>6, <2>7
<1>13. CASE ChkLock
    <2>0. /\ tx' = tx /\ chk = "lock" /\ chk' = "poll" /\ height' = height - 1
          /\ UNCHANGED <<up, mon, msgH, com, comH>>
        BY <1>13 DEF ChkLock, chainVars
    <2>1. \A k : Owing(k)' = Owing(k)
        <3> SUFFICES ASSUME NEW k PROVE Owing(k)' = Owing(k)
            OBVIOUS
        <3>1. Owed(k)' = Owed(k)
            BY <2>0 DEF Owed
        <3> QED
            BY <2>0, <3>1 DEF Owing
    <2>2. Rollbacks' = Rollbacks - 1
        BY <1>0, <2>0, <2>1 DEF Rollbacks
    <2> QED
        BY <1>0, <2>0, <2>1, <2>2 DEF OwingBound, RollbackBound
<1>14. CASE Crash
    <2>0. tx' = tx /\ ~up' /\ mon' = "idle" /\ com' = "idle"
        BY <1>14 DEF Crash, Stopped, chainVars
    <2>1. \A k \in Heights : Owing(k)' <= Owing(k)
        <3> SUFFICES ASSUME NEW k \in Heights PROVE Owing(k)' <= Owing(k)
            OBVIOUS
        <3>1. Owed(k)' = Owed(k)
            BY <2>0 DEF Owed
        <3>2. Cardinality(Owed(k)) \in Nat
            BY OwingNat
        <3> QED
            BY <2>0, <3>1, <3>2 DEF Owing
    <2>2. OwingBound'
        BY <1>0, <2>1 DEF OwingBound, Heights
    <2> QED
        BY <2>0, <2>2 DEF RollbackBound
<1>15. ASSUME NEW ok \in BOOLEAN, NEW parsed \in BOOLEAN, MonParse(ok, parsed)
       PROVE OwingBound' /\ RollbackBound'
    <2>0. /\ mon = "loop" /\ up /\ height' >= height
          /\ UNCHANGED <<tx, up, com, comH, chk>>
        BY <1>0, <1>15 DEF MonParse, CheckLayer2StateByHeight, chainVars
    <2>1. CASE parsed
        <3>0. /\ height < Tip - 1 /\ mon' = "send" /\ msgH' = height'
              /\ height' \in {height + 1, height + 2}
            BY <1>0, <1>15, <2>1 DEF MonParse, CheckLayer2StateByHeight
        <3>1. mon' = "send" /\ msgH' = height' /\ height' >= height + 1 /\ height' <= Tip
            BY <1>0, <3>0
        <3>2. \A k : Owing(k)' = Owing(k) + (IF height' <= k THEN 1 ELSE 0)
            <4> SUFFICES ASSUME NEW k
                         PROVE  Owing(k)' = Owing(k) + (IF height' <= k THEN 1 ELSE 0)
                OBVIOUS
            <4>1. Owed(k)' = Owed(k)
                BY <2>0 DEF Owed
            <4>2. Cardinality(Owed(k)) \in Nat
                BY OwingNat
            <4> QED
                BY <2>0, <3>1, <4>1, <4>2 DEF Owing
        <3>3. \A k \in Heights : Owing(k) <= Owing(Tip)
            BY <1>0, OwingMono
        <3>4. Rollbacks <= height
            BY <1>0, <2>0 DEF RollbackBound
        <3>5. Owing(Tip) <= height /\ Owing(Tip)' = Owing(Tip) + 1
            BY <1>0, <3>1, <3>2, <3>4 DEF Rollbacks, Heights
        <3>6. OwingBound'
            BY <1>0, <3>1, <3>2, <3>3, <3>5 DEF OwingBound, Heights
        <3>7. RollbackBound'
            BY <1>0, <2>0, <3>1, <3>4, <3>5 DEF RollbackBound, Rollbacks
        <3> QED
            BY <3>6, <3>7
    <2>2. CASE ~parsed
        <3>1. /\ \A r \in Slots : tx'[r].rec = tx[r].rec /\ tx'[r].h = tx[r].h
              /\ mon' = "send" <=> mon = "send"
              /\ msgH' = msgH /\ com' = com /\ comH' = comH
              /\ chk' = "lock" <=> chk = "lock"
              /\ up' = up /\ height' >= height
            BY <1>15, <2>0, <2>2 DEF MonParse
        <3> QED
            BY <1>0, <1>1, <3>1
    <2> QED
        BY <2>1, <2>2
<1>16. ASSUME NEW ok \in BOOLEAN, Start(ok) PROVE OwingBound' /\ RollbackBound'
    <2> DEFINE c == GetLayer2CommitHeight
    <2>0. /\ ~up /\ mon = "idle" /\ com = "idle" /\ chk = "idle"
          /\ UNCHANGED <<tx, mon, msgH, com, comH, chk>> /\ up'
          /\ height' \in {c, c + 1}
        BY <1>0, <1>16 DEF Start, HShape, chainVars, c
    <2>1. \A k : Owing(k)' = Owing(k)
        BY <2>0, OwedSame, OwingSame
    <2>2. c \in Heights
          /\ \A r \in Slots : tx[r].rec = "unconfirmed" => tx[r].h <= c
        BY <1>0, CommitHeightTop DEF HShape, c
    <2>3. Owed(Tip) = Owed(c)
        BY <1>0, <2>2 DEF Owed, HShape, TypeOK, Heights
    <2>4. Rollbacks = Owing(c) /\ Owing(c) <= c
        BY <1>0, <2>0, <2>2, <2>3 DEF Rollbacks, Owing, OwingBound
    <2>5. Rollbacks' = Rollbacks
        BY <2>0, <2>1 DEF Rollbacks
    <2>6. c \in Int /\ Rollbacks \in Int /\ height' \in Int
        BY <1>0, <2>2 DEF Heights, Rollbacks, HShape, TypeOK
    <2> QED
        BY <1>0, <2>0, <2>1, <2>4, <2>5, <2>6 DEF OwingBound, RollbackBound
<1> QED
    BY <1>2, <1>3, <1>4, <1>5, <1>6, <1>7, <1>8, <1>9, <1>10, <1>11, <1>12,
       <1>13, <1>14, <1>15, <1>16 DEF Next

LEMMA HeightInvariant == Spec => []HeightInv
<1>1. HeightInv /\ [Next]_vars => HeightInv'
    BY HShapeStep, OwingStep DEF HeightInv
<1> QED
    BY <1>1, HShapeInit, PTL DEF Spec

\* layer2ChainInfo.Height never wraps below 0 (NoHeightWrap), for any
\* number of late answers, dropped transactions, RPC errors and crashes:
\* checkLayer2State rolls Height back once per record it marks failed, and
\* Height always covers the records still unconfirmed, the messages on
\* their way to becoming records and a rollback waiting for mu; a restart
\* sets Height to the highest recorded height, which covers the records
\* that survived the crash.
THEOREM NoHeightWrapThm == Spec => []NoHeightWrap
<1>1. HeightInv => NoHeightWrap
    BY DEF HeightInv, HShape, NoHeightWrap
<1> QED
    BY <1>1, HeightInvariant, PTL

\* Every reachable state of the layer2 state commit is well typed: the
\* heights sent, recorded and committed stay layer2 heights, the poll
\* budgets within checkLayer2State's limit and Height within -TxSlots..Tip.
THEOREM CommitTypeCorrect == Spec => []TypeOK
<1>1. HeightInv => TypeOK
    BY DEF HeightInv, HShape
<1> QED
    BY <1>1, HeightInvariant, PTL
=============================================================================
