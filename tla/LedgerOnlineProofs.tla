------------------------- MODULE LedgerOnlineProofs -------------------------
(***************************************************************************)
(* Proofs about the ledger store while its process does not crash          *)
(* (MaxCrashes = 0), for every other value of the constants: storage       *)
(* errors on every commit, retried submits and failed initialisations      *)
(* never make the state store skip, repeat or misplace a block             *)
(* (StateLogIsChain), readers of the current height only see heights      *)
(* durable in all three sub-stores (CurrentIsDurable), and an atomic       *)
(* pre-execution runs on the state of the height it reads                  *)
(* (AtomicPreExecConsistent).                                              *)
(*                                                                         *)
(* Without crashes the store never restarts: the version marker is saved   *)
(* only when the process starts serving, so StartExisting and recoverStore *)
(* are never reached. With crashes the first two properties fail, by the   *)
(* recovery replay of the wrong block that the recovery_replay run shows.  *)
(***************************************************************************)
EXTENDS LedgerStartProofs

\* The state log of blocks 0..cur, and the results ExecuteBlock hands the
\* caller for the next block, at every step of the crash-free store.
OnlineInv ==
    /\ crashes = 0
    /\ phase \in {"down", "init", "up"}
    /\ phase \in {"down", "init"} => ~version
    /\ \A k \in Heights : results[k] \in {None, k}
    /\ phase = "init" => /\ pc # "idle" /\ pendBase = 0
                         /\ sLog = IF pc \in {"sDone", "version"}
                                     THEN ChainLog(0) ELSE ChainLog(-1)
    /\ phase = "up" => /\ cur <= sCur
                       /\ sLog = IF pc = "sDone" THEN ChainLog(pend)
                                                 ELSE ChainLog(cur)
                       /\ pc # "idle" => pendBase = cur + 1
    /\ preExec.atomic => preExec.base = preExec.height + 1

\* The inductive invariant: OnlineInv on top of the invariant of the
\* start-up proofs, which places pend, the markers and storedIndexCount.
OInv == IInv /\ OnlineInv

-----------------------------------------------------------------------------
(* The state log of an uninterrupted run                                   *)

\* ChainLog(n) is a sequence of n + 1 pairs of naturals, and ChainLog(-1)
\* the empty log of a cleared state store.
LEMMA ChainLogSeq ==
    ASSUME NEW n \in Nat \cup {-1}
    PROVE  /\ ChainLog(n) \in Seq(Nat \X Nat)
           /\ Len(ChainLog(n)) = n + 1
<1>1. n + 1 \in Nat /\ ChainLog(n) \in [1..(n + 1) -> Nat \X Nat]
    BY DEF ChainLog
<1>2. ChainLog(n) \in Seq(Nat \X Nat)
    BY <1>1, SeqDef
<1>3. DOMAIN ChainLog(n) = 1..Len(ChainLog(n)) /\ Len(ChainLog(n)) \in Nat
    BY <1>2, LenProperties
<1> QED
    BY <1>1, <1>2, <1>3

\* The state store commit of block n on the state of blocks 0..n-1
\* (submitBlock's saveBlockToStateStore with an ExecuteResult computed on
\* that state) extends the log of blocks 0..n-1 to that of 0..n.
LEMMA ChainLogAppend ==
    ASSUME NEW n \in Nat
    PROVE  Append(ChainLog(n - 1), <<n, n>>) = ChainLog(n)
<1> DEFINE s == ChainLog(n - 1)
           t == Append(s, <<n, n>>)
<1>1. n - 1 \in Nat \cup {-1} /\ <<n, n>> \in Nat \X Nat
    OBVIOUS
<1>0. \A m \in Nat \cup {-1} : ChainLog(m) \in Seq(Nat \X Nat) /\ Len(ChainLog(m)) = m + 1
    BY ChainLogSeq
<1>2. s \in Seq(Nat \X Nat) /\ Len(s) = n
    <2>1. s \in Seq(Nat \X Nat) /\ Len(s) = (n - 1) + 1
        BY <1>0, <1>1, Zenon DEF s
    <2> QED
        BY <2>1
<1>3. /\ t \in Seq(Nat \X Nat) /\ Len(t) = n + 1
      /\ \A i \in 1..n : t[i] = s[i]
      /\ t[n + 1] = <<n, n>>
    BY <1>1, <1>2, AppendProperties
<1>4. ChainLog(n) \in Seq(Nat \X Nat) /\ Len(ChainLog(n)) = n + 1
    BY <1>0
<1>5. \A i \in 1..(n + 1) : t[i] = ChainLog(n)[i]
    <2> SUFFICES ASSUME NEW i \in 1..(n + 1) PROVE t[i] = ChainLog(n)[i]
        OBVIOUS
    <2>1. ChainLog(n)[i] = <<i - 1, i - 1>>
        BY DEF ChainLog
    <2>2. CASE i <= n
        <3>1. s[i] = <<i - 1, i - 1>>
            BY <2>2 DEF ChainLog
        <3> QED
            BY <1>3, <2>1, <2>2, <3>1
    <2>3. CASE i = n + 1
        <3>1. t[i] = <<n, n>>
            BY <1>3, <2>3
        <3>2. <<i - 1, i - 1>> = <<n, n>>
            BY <2>3
        <3> QED
            BY <2>1, <3>1, <3>2, Zenon
    <2>4. i <= n \/ i = n + 1
        OBVIOUS
    <2> QED
        BY <2>2, <2>3, <2>4, Zenon
<1> QED
    BY <1>3, <1>4, <1>5, SeqEqual

-----------------------------------------------------------------------------
(* The crash-free store                                                    *)

LEMMA OnlineInit == Init => OInv
<1> SUFFICES ASSUME Init PROVE OInv
    OBVIOUS
<1>1. IInv
    BY StartInvInit
<1> QED
    BY <1>1 DEF Init, OInv, OnlineInv, None, NoPreExec

\* Every step of the crash-free store, or a stutter, preserves OInv: IInv
\* by StartInvStep, OnlineInv with one step per action.
LEMMA OnlineStep ==
    ASSUME MaxCrashes = 0
    PROVE  OInv /\ [Next]_vars => OInv'
<1> SUFFICES ASSUME OInv, [Next]_vars PROVE OInv'
    OBVIOUS
<1>0. IInv' /\ SetsOK /\ ValuesOK /\ ControlOK /\ RefineOK /\ StartInv
    BY StartInvStep, ChainInvStep, TypeInvParts
       DEF OInv, IInv, ChainInv, SubStoreOrderInv
<1> SUFFICES OnlineInv'
    BY <1>0 DEF OInv
<1>a. \A m \in Nat \cup {-1} : ChainLog(m) \in Seq(Nat \X Nat) /\ Len(ChainLog(m)) = m + 1
    BY ChainLogSeq
<1>b. \A m \in Nat : Append(ChainLog(m - 1), <<m, m>>) = ChainLog(m)
    BY ChainLogAppend
<1> USE ConstantsOK, <1>0 DEF OInv, OnlineInv, RefineOK, StartInv, Heights, None,
        SetsOK, ValuesOK, ControlOK, readerVars
<1>1. ASSUME NEW fail \in BOOLEAN, StartFresh(fail)
      PROVE OnlineInv'
    <2>1. sLog' = ChainLog(-1)
        BY <1>1 DEF StartFresh, ClearAll, ChainLog
    <2> QED
        BY <1>1, <2>1 DEF StartFresh, ClearAll, FreshMemory
<1>2. CASE StartExisting
    BY <1>2 DEF StartExisting
<1>3. ASSUME NEW fail \in BOOLEAN, RecoverEvent(fail)
      PROVE OnlineInv'
    BY <1>3 DEF RecoverEvent
<1>4. ASSUME NEW fail \in BOOLEAN, RecoverState(fail)
      PROVE OnlineInv'
    BY <1>4 DEF RecoverState
<1>5. ASSUME NEW fail \in BOOLEAN, SaveVersion(fail)
      PROVE OnlineInv'
    BY <1>5 DEF SaveVersion
<1>6. ASSUME NEW h \in Heights, ExecuteBlock(h)
      PROVE OnlineInv'
    <2>1. phase = "up" /\ pc = "idle" /\ h = cur + 1 /\ sLog = ChainLog(cur)
        BY <1>6 DEF ExecuteBlock, GateFree
    <2>2. Len(sLog) = h
        BY <1>a, <2>1
    <2> QED
        BY <1>6, <2>1, <2>2 DEF ExecuteBlock, ExecutedBase, durableVars
<1>7. ASSUME NEW h \in Heights, NEW withL2 \in BOOLEAN,
             NEW fail \in StageOutcomes, SubmitBlock(h, withL2, fail)
      PROVE OnlineInv'
    BY <1>7 DEF SubmitBlock, SubmitStage, GateFree, NextHeightOk
<1>8. ASSUME NEW fail \in BOOLEAN, CommitBlockStore(fail)
      PROVE OnlineInv'
    BY <1>8 DEF CommitBlockStore, SubmitFails
<1>9. ASSUME NEW fail \in BOOLEAN, CommitEventStore(fail)
      PROVE OnlineInv'
    BY <1>9 DEF CommitEventStore, SubmitFails
<1>10. ASSUME NEW fail \in BOOLEAN, CommitStateStore(fail)
      PROVE OnlineInv'
    <2>1. CASE fail
        BY <1>10, <2>1 DEF CommitStateStore, SubmitFails
    <2>0. ~fail => /\ sLog' = Append(sLog, <<pend, pendBase>>) /\ sCur' = pend
                   /\ pc = "eDone" /\ pc' = "sDone"
                   /\ UNCHANGED <<phase, cur, pend, pendBase, results, preExec, crashes, version>>
        BY <1>10 DEF CommitStateStore
    <2>2. CASE ~fail /\ phase = "init"
        <3>1. pend = 0 /\ pendBase = 0 /\ sLog = ChainLog(-1)
            BY <2>0, <2>2
        <3>2. Append(ChainLog(0 - 1), <<0, 0>>) = ChainLog(0)
            BY ChainLogAppend
        <3>3. 0 - 1 = -1 /\ sLog' = Append(sLog, <<pend, pendBase>>)
            BY <2>0, <2>2
        <3>4. sLog' = ChainLog(0)
            BY <3>1, <3>2, <3>3, Zenon
        <3> QED
            BY <2>0, <2>2, <3>4
    <2>3. CASE ~fail /\ phase = "up"
        <3>1. pend = cur + 1 /\ pendBase = cur + 1 /\ sLog = ChainLog(cur) /\ pend \in Nat
            BY <2>0, <2>3
        <3>2. Append(ChainLog(pend - 1), <<pend, pend>>) = ChainLog(pend)
            BY <3>1, ChainLogAppend
        <3>3. pend - 1 = cur /\ sLog' = Append(sLog, <<pend, pendBase>>)
            BY <2>0, <2>3, <3>1
        <3>4. sLog' = ChainLog(pend)
            BY <3>1, <3>2, <3>3, Zenon
        <3> QED
            BY <2>0, <2>3, <3>1, <3>4
    <2> QED
        BY <1>10, <2>1, <2>2, <2>3 DEF CommitStateStore
<1>11. CASE SetCurrentBlock
    BY <1>11 DEF SetCurrentBlock, durableVars
<1>12. CASE Close
    BY <1>12 DEF Close, durableVars
<1>13. CASE PreExecHeight
    BY <1>13 DEF PreExecHeight, durableVars, memVars
<1>14. CASE PreExecOverlay
    BY <1>14 DEF PreExecOverlay, durableVars, memVars
<1>15. CASE PreExecBatchAtomic
    <2>1. phase = "up" /\ pc = "idle" /\ sLog = ChainLog(cur)
        BY <1>15 DEF PreExecBatchAtomic, GateFree
    <2>2. Len(sLog) = cur + 1
        BY <1>a, <2>1
    <2> QED
        BY <1>15, <2>1, <2>2 DEF PreExecBatchAtomic, durableVars, memVars
<1>16. CASE Crash
    BY <1>16 DEF Crash
<1>17. CASE UNCHANGED vars
    BY <1>17 DEF vars, durableVars, memVars
<1> QED
    BY <1>1, <1>2, <1>3, <1>4, <1>5, <1>6, <1>7, <1>8, <1>9, <1>10, <1>11,
       <1>12, <1>13, <1>14, <1>15, <1>16, <1>17 DEF Next

\* OInv holds in every reachable state of the crash-free store.
LEMMA OnlineInvariant ==
    ASSUME MaxCrashes = 0
    PROVE  Spec => []OInv
BY OnlineInit, OnlineStep, PTL DEF Spec

\* Without crashes, whenever the serving store is between operations its
\* state store holds exactly blocks 0..currBlockHeight, each applied once,
\* in order, on its predecessor's state (StateLogIsChain), for any number
\* of storage errors: a failed commit leaves currBlockHeight where it was,
\* and the retried submit rewrites the same block with the ExecuteResult
\* ExecuteBlock computed on the committed state.
THEOREM StateLogChainThm ==
    ASSUME MaxCrashes = 0
    PROVE  Spec => []StateLogIsChain
<1>1. OInv => StateLogIsChain
    BY DEF OInv, OnlineInv, StateLogIsChain
<1> QED
    BY <1>1, OnlineInvariant, PTL

\* Without crashes, GetCurrentBlock never returns a height whose commit is
\* in flight (CurrentIsDurable): setCurrentBlock runs only after the
\* block, event and state commits have all returned.
THEOREM CurrentDurableThm ==
    ASSUME MaxCrashes = 0
    PROVE  Spec => []CurrentIsDurable
<1>1. OInv => CurrentIsDurable
    BY DEF OInv, OnlineInv, IInv, ChainInv, SubStoreOrderInv, SubStoreOrder,
           TypeInv, TypeOK, Heights, None, CurrentIsDurable
<1> QED
    BY <1>1, OnlineInvariant, PTL

\* Without crashes, an atomic PreExecuteContractBatch, which holds the
\* writer gate, runs on the committed state of exactly the height it
\* returns (AtomicPreExecConsistent).
THEOREM AtomicPreExecThm ==
    ASSUME MaxCrashes = 0
    PROVE  Spec => []AtomicPreExecConsistent
<1>1. OInv => AtomicPreExecConsistent
    BY DEF OInv, OnlineInv, AtomicPreExecConsistent
<1> QED
    BY <1>1, OnlineInvariant, PTL
=============================================================================
