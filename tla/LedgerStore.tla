----------------------------- MODULE LedgerStore -----------------------------
(***************************************************************************)
(* The ledger store of the layer2 node (LedgerStoreImp in                 *)
(* src/node/core/utils/transaction_builder.go): the submit protocol that   *)
(* writes one block into three batched sub-stores (block, event, state)    *)
(* and the layer2 message store, the start-up path that either writes the  *)
(* genesis block or reloads the header index and replays the state store,  *)
(* storage errors on every fallible step, and crashes between any two      *)
(* steps.                                                                  *)
(*                                                                         *)
(* Data is abstracted to heights: there is one candidate block per height  *)
(* (its hash and transaction root are functions of the height), a header   *)
(* that fails verification or a layer2 state that fails its checks makes   *)
(* SubmitBlock return before any mutation and so is a stuttering step, and *)
(* the state store's content (write sets, state merkle roots and the       *)
(* block merkle tree of transaction roots) is the sequence sLog of         *)
(* <<height, base>> pairs: the block applied and the length of the state   *)
(* log its ExecuteResult was computed on.                                  *)
(*                                                                         *)
(* The writer gate (savingBlockSemaphore) serialises ExecuteBlock,         *)
(* SubmitBlock and Close; a submit holds it from its first step to its     *)
(* last, so pc # "idle" is exactly "the gate is held by a submit".         *)
(***************************************************************************)
EXTENDS Integers, Sequences, FiniteSets

CONSTANTS
    MaxHeight,    \* highest block height the caller submits
    BatchSize,    \* HEADER_INDEX_BATCH_SIZE
    MaxFailures,  \* storage errors the run may inject
    MaxCrashes    \* process crashes the run may inject

ASSUME MaxHeightAssumption == MaxHeight \in Nat \ {0}
ASSUME BatchSizeAssumption == BatchSize \in Nat \ {0}
ASSUME FailuresAssumption  == MaxFailures \in Nat
ASSUME CrashesAssumption   == MaxCrashes \in Nat

Heights == 0..MaxHeight
None == -1                        \* no height / no result
Phases == {"down", "init", "recover", "up", "failed"}
Steps  == {"idle", "staged", "bDone", "eDone", "sDone", "version"}
\* Where the staging part of submitBlock can return an error: inside
\* saveBlockToBlockStore or SaveMsgToLayer2Store (before the layer2 write
\* takes effect) or inside saveBlockToStateStore (after it).
StageOutcomes == {"none", "preL2", "postL2"}
\* No pre-execution has returned yet.
NoPreExec == [height |-> None, base |-> None, atomic |-> FALSE]

VARIABLES
    \* durable state of the sub-stores
    version,   \* the block store's version marker
    bCur,      \* block store current-block marker
    bBlocks,   \* heights whose block and block hash are in the block store
    bIdx,      \* heights covered by the saved header index lists
    eCur,      \* event store current-block marker
    eBlocks,   \* heights whose notifications are in the event store
    sCur,      \* state store current-block marker
    sLog,      \* blocks applied to the state store, as <<height, base>>
    l2,        \* heights with a message in the layer2 store
    \* memory of the running process
    phase,     \* process: down, initialising, recovering, serving, fatal
    pc,        \* step of the submit in progress
    cur,       \* currBlockHeight
    hidx,      \* domain of the in-memory headerIndex
    stored,    \* storedIndexCount
    closing,   \* the closing flag
    pend,      \* height being submitted or replayed
    pendBase,  \* base of the ExecuteResult being written
    pendIdx,   \* header index list staged in the block batch
    results,   \* results[h]: base of the caller's ExecuteResult for h
    rec,       \* loop variable of recoverStore
    \* speculative execution (PreExecuteContract) by a concurrent caller
    rH,        \* height read by a pre-execution in progress, or None
    preExec,   \* the last pre-execution: height read, state it ran on, mode
    \* bounds of the run
    faults, crashes

durableVars == <<version, bCur, bBlocks, bIdx, eCur, eBlocks, sCur, sLog, l2>>
memVars     == <<phase, pc, cur, hidx, stored, closing, pend, pendBase,
                 pendIdx, results, rec>>
readerVars  == <<rH, preExec>>
vars        == <<durableVars, memVars, readerVars, faults, crashes>>

-----------------------------------------------------------------------------
(* Helpers                                                                 *)

\* The state log of an uninterrupted run that applied blocks 0..n in order,
\* each on the state left by its predecessor.
ChainLog(n) == [k \in 1..(n + 1) |-> <<k - 1, k - 1>>]

\* Transaction roots in the state store's block merkle tree, as heights.
TxRoots(log) == [k \in DOMAIN log |-> log[k][1]]

\* The values of a freshly constructed LedgerStoreImp (NewLedgerStore)
\* that the start-up path does not set again, and the caller's results.
FreshMemory ==
    /\ closing' = FALSE
    /\ pendIdx' = {}
    /\ results' = [h \in Heights |-> None]

\* currBlockHeight, headerIndex and storedIndexCount of a fresh store.
EmptyIndex == cur' = 0 /\ hidx' = {} /\ stored' = 0

\* blockStore/stateStore/eventStore.ClearAll; the layer2 store is not cleared.
ClearAll ==
    /\ bCur' = None /\ bBlocks' = {} /\ bIdx' = {}
    /\ eCur' = None /\ eBlocks' = {}
    /\ sCur' = None /\ sLog' = <<>>

-----------------------------------------------------------------------------
(* Checks made by SubmitBlock and submitBlock before any mutation          *)

\* The only height SubmitBlock writes: lower heights return nil, other
\* heights an error, both without touching storage.
NextHeightOk(h) == h > cur /\ h = cur + 1

\* verifyHeader: the parent header is looked up by hash in the block store.
VerifyHeader(h) == h = 0 \/ h - 1 \in bBlocks

\* submitBlock: the block root computed by GetBlockRootWithNewTxRoots(h,
\* [txRoot]) from the state store's block merkle tree must equal the root
\* declared in the header, the merkle root of the transaction roots of
\* blocks 0..h (merkle roots are taken as collision free). With h = cur+1
\* the call takes the branch needs = txRoots[0:].
BlockRootOk(h) == h = 0 \/ TxRoots(sLog) \o <<h>> = [k \in 1..(h + 1) |-> k - 1]

\* Mutant: the flush condition off by one.
FlushDueEarly == stored > cur \/ cur - stored >= BatchSize - 1

\* saveHeaderIndexList: currHeight-storeCount < HEADER_INDEX_BATCH_SIZE in
\* uint32 arithmetic. A negative difference wraps to a value far above the
\* batch size, so it flushes.
FlushDue == stored > cur \/ cur - stored >= BatchSize

\* setHeaderIndex: the new block's hash enters the in-memory header index.
SetHeaderIndex(h) == hidx' = hidx \cup {h}

\* saveHeaderIndexList: when a batch is due, the hashes of the next
\* HEADER_INDEX_BATCH_SIZE heights from storedIndexCount are staged in the
\* block batch and storedIndexCount is advanced at once, before the batch
\* is committed.
SaveHeaderIndexList ==
    IF FlushDue
      THEN /\ stored' = stored + BatchSize
           /\ pendIdx' = stored..(stored + BatchSize - 1)
      ELSE /\ stored' = stored
           /\ pendIdx' = {}

\* saveBlockToBlockStore's effects on memory: setHeaderIndex, then
\* saveHeaderIndexList; its block store writes go into the block batch.
StageIndex(h) == SetHeaderIndex(h) /\ SaveHeaderIndexList

\* executeBlock: the block runs on an overlay of the last committed state,
\* so its ExecuteResult is determined by that state; the model records it
\* as the length of the state log it was computed on.
ExecutedBase == Len(sLog)

\* Mutant: the recoverStore loop bound off by one.
RecoverLoopInclusive(i, n) == i <= n

\* The test of the recoverStore loop: for i := stateHeight; i < blockHeight.
RecoverLoop(i, n) == i < n

-----------------------------------------------------------------------------
(* Start-up: NewLedgerStore followed by InitLedgerStoreWithGenesisBlock    *)

Init ==
    /\ version = FALSE
    /\ bCur = None /\ bBlocks = {} /\ bIdx = {}
    /\ eCur = None /\ eBlocks = {}
    /\ sCur = None /\ sLog = <<>>
    /\ l2 = {}
    /\ phase = "down" /\ pc = "idle"
    /\ cur = 0 /\ hidx = {} /\ stored = 0 /\ closing = FALSE
    /\ pend = None /\ pendBase = None /\ pendIdx = {}
    /\ results = [h \in Heights |-> None]
    /\ rec = None
    /\ rH = None /\ preExec = NoPreExec
    /\ faults = 0 /\ crashes = 0

\* Mutant: the version marker written before the genesis block.
StartFreshVersionFirst(fail) ==
    /\ phase = "down" /\ ~version
    /\ FreshMemory /\ ClearAll
    /\ version' = TRUE
    /\ cur' = 0 /\ stored' = 0 /\ hidx' = {0}
    /\ pend' = 0 /\ pendBase' = 0
    /\ IF fail
         THEN /\ faults < MaxFailures /\ faults' = faults + 1
              /\ phase' = "down" /\ pc' = "idle"
         ELSE /\ faults' = faults
              /\ phase' = "init" /\ pc' = "staged"
    /\ UNCHANGED <<readerVars, l2, rec, crashes>>

\* No version marker: clear the block, state and event stores, execute the
\* genesis block on the empty state and run submitBlock up to its commits
\* (height 0 skips the block root check; storedIndexCount = currBlockHeight
\* = 0 means no index flush). fail: executeBlock or the staging returns an
\* error and the initialisation fails.
StartFresh(fail) ==
    /\ phase = "down" /\ ~version
    /\ FreshMemory /\ ClearAll
    /\ cur' = 0 /\ stored' = 0 /\ hidx' = {0}
    /\ pend' = 0 /\ pendBase' = 0
    /\ IF fail
         THEN /\ faults < MaxFailures /\ faults' = faults + 1
              /\ phase' = "down" /\ pc' = "idle"
         ELSE /\ faults' = faults
              /\ phase' = "init" /\ pc' = "staged"
    /\ UNCHANGED <<readerVars, version, l2, rec, crashes>>

\* Version marker present: ContainBlock(genesis), loadCurrentBlock,
\* loadHeaderIndexList (the saved lists, then GetBlockHash for every height
\* from len(list) to the current height), and the start of recoverStore,
\* whose loop runs i from the state store's height while i < blockHeight.
\* A missing genesis block or block hash is a fatal error.
StartExisting ==
    /\ phase = "down" /\ version
    /\ FreshMemory
    /\ LET n == Cardinality(bIdx) IN
         IF 0 \notin bBlocks \/ ~(n..bCur \subseteq bBlocks)
           THEN /\ phase' = "failed"
                /\ EmptyIndex
                /\ UNCHANGED rec
           ELSE /\ cur' = bCur
                /\ stored' = n
                /\ hidx' = bIdx \cup n..bCur
                /\ rec' = sCur
                /\ phase' = IF RecoverLoop(sCur, bCur) THEN "recover" ELSE "up"
    /\ UNCHANGED <<readerVars, durableVars, pc, pend, pendBase, faults, crashes>>

\* One iteration of the recoverStore loop up to the event store commit:
\* read block rec, executeBlock on the current state, stage it into the
\* state and event batches and commit the event batch. fail: any of these
\* returns an error and the initialisation fails.
RecoverEvent(fail) ==
    /\ phase = "recover" /\ pc = "idle" /\ RecoverLoop(rec, cur)
    /\ IF fail
         THEN /\ faults < MaxFailures /\ faults' = faults + 1
              /\ phase' = "down"
              /\ UNCHANGED <<eCur, eBlocks, pc, pend, pendBase>>
         ELSE /\ faults' = faults
              /\ eCur' = rec /\ eBlocks' = eBlocks \cup {rec}
              /\ pend' = rec /\ pendBase' = ExecutedBase /\ pc' = "eDone"
              /\ UNCHANGED phase
    /\ UNCHANGED <<readerVars, version, bCur, bBlocks, bIdx, sCur, sLog, l2, cur, hidx,
                   stored, closing, pendIdx, results, rec, crashes>>

\* The state store commit of a recoverStore iteration, then the loop test.
RecoverState(fail) ==
    /\ phase = "recover" /\ pc = "eDone"
    /\ pc' = "idle"
    /\ IF fail
         THEN /\ faults < MaxFailures /\ faults' = faults + 1
              /\ phase' = "down"
              /\ UNCHANGED <<sCur, sLog, rec>>
         ELSE /\ faults' = faults
              /\ sCur' = pend /\ sLog' = Append(sLog, <<pend, pendBase>>)
              /\ rec' = rec + 1
              /\ phase' = IF RecoverLoop(rec + 1, cur) THEN "recover" ELSE "up"
    /\ UNCHANGED <<readerVars, version, bCur, bBlocks, bIdx, eCur, eBlocks, l2, cur, hidx,
                   stored, closing, pend, pendBase, pendIdx, results, crashes>>

\* initGenesisBlock: SaveVersion once the genesis submit has returned nil.
SaveVersion(fail) ==
    /\ phase = "init" /\ pc = "version"
    /\ pc' = "idle"
    /\ IF fail
         THEN /\ faults < MaxFailures /\ faults' = faults + 1
              /\ phase' = "down" /\ UNCHANGED version
         ELSE /\ faults' = faults
              /\ phase' = "up" /\ version' = TRUE
    /\ UNCHANGED <<readerVars, bCur, bBlocks, bIdx, eCur, eBlocks, sCur, sLog, l2, cur, hidx,
                   stored, closing, pend, pendBase, pendIdx, results, rec, crashes>>

-----------------------------------------------------------------------------
(* Operations of the serving store                                         *)

\* The writer gate savingBlockSemaphore (getSavingBlockLock and
\* releaseSavingBlockLock) is free: no submit holds it. ExecuteBlock, Close
\* and an atomic PreExecuteContractBatch take and release it in one step.
GateFree == pc = "idle"

\* ExecuteBlock for the next height: executeBlock on an overlay of the
\* committed state. Lower heights only read the stored merkle root and
\* other heights are rejected, so neither changes the state of the model.
ExecuteBlock(h) ==
    /\ phase = "up" /\ GateFree
    /\ h = cur + 1
    /\ results' = [results EXCEPT ![h] = ExecutedBase]
    /\ UNCHANGED <<readerVars, durableVars, phase, pc, cur, hidx, stored, closing, pend,
                   pendBase, pendIdx, rec, faults, crashes>>

\* submitBlock up to its first CommitTo: the block root check, NewBatch on
\* the three stores, saveBlockToBlockStore, SaveMsgToLayer2Store (the code
\* opens no batch for the layer2 store, so its write is immediate),
\* saveBlockToStateStore and saveBlockToEventStore. fail says where an
\* error is returned: the caller gets it and the gate is released.
SubmitStage(h, withL2, fail) ==
    /\ BlockRootOk(h)
    /\ StageIndex(h)
    /\ l2' = IF withL2 /\ fail # "preL2" THEN l2 \cup {h} ELSE l2
    /\ IF fail = "none"
         THEN /\ faults' = faults
              /\ pc' = "staged" /\ pend' = h /\ pendBase' = results[h]
         ELSE /\ faults < MaxFailures /\ faults' = faults + 1
              /\ UNCHANGED <<pc, pend, pendBase>>

\* SubmitBlock for the next height with a verified header, an optional
\* verified layer2 state (withL2) and the result of ExecuteBlock: the
\* closing check, the height checks and the validations, then submitBlock.
SubmitBlock(h, withL2, fail) ==
    /\ phase = "up" /\ GateFree /\ ~closing
    /\ NextHeightOk(h)
    /\ VerifyHeader(h)
    /\ results[h] # None
    /\ SubmitStage(h, withL2, fail)
    /\ UNCHANGED <<readerVars, version, bCur, bBlocks, bIdx, eCur, eBlocks, sCur, sLog,
                   phase, cur, closing, results, rec, crashes>>

\* An error returned by a commit of submitBlock: the caller gets the error
\* and the gate is released; during initialisation the process fails.
SubmitFails ==
    /\ faults < MaxFailures /\ faults' = faults + 1
    /\ pc' = "idle"
    /\ phase' = IF phase = "init" THEN "down" ELSE phase

\* blockStore.CommitTo.
CommitBlockStore(fail) ==
    /\ phase \in {"init", "up"} /\ pc = "staged"
    /\ IF fail
         THEN /\ SubmitFails
              /\ UNCHANGED <<bCur, bBlocks, bIdx>>
         ELSE /\ faults' = faults /\ pc' = "bDone" /\ UNCHANGED phase
              /\ bCur' = pend /\ bBlocks' = bBlocks \cup {pend}
              /\ bIdx' = bIdx \cup pendIdx
    /\ UNCHANGED <<readerVars, version, eCur, eBlocks, sCur, sLog, l2, cur, hidx, stored,
                   closing, pend, pendBase, pendIdx, results, rec, crashes>>

\* Mutant: the in-memory pointer advanced with the event commit.
CommitEventStoreEarly(fail) ==
    /\ phase \in {"init", "up"} /\ pc = "bDone"
    /\ IF fail
         THEN /\ SubmitFails
              /\ UNCHANGED <<eCur, eBlocks, cur>>
         ELSE /\ faults' = faults /\ pc' = "eDone" /\ UNCHANGED phase
              /\ eCur' = pend /\ eBlocks' = eBlocks \cup {pend}
              /\ cur' = pend
    /\ UNCHANGED <<readerVars, version, bCur, bBlocks, bIdx, sCur, sLog, l2, hidx, stored,
                   closing, pend, pendBase, pendIdx, results, rec, crashes>>

\* eventStore.CommitTo: the notifications staged by saveBlockToStateStore
\* and the block's transaction list and current marker.
CommitEventStore(fail) ==
    /\ phase \in {"init", "up"} /\ pc = "bDone"
    /\ IF fail
         THEN /\ SubmitFails
              /\ UNCHANGED <<eCur, eBlocks>>
         ELSE /\ faults' = faults /\ pc' = "eDone" /\ UNCHANGED phase
              /\ eCur' = pend /\ eBlocks' = eBlocks \cup {pend}
    /\ UNCHANGED <<readerVars, version, bCur, bBlocks, bIdx, sCur, sLog, l2, cur, hidx,
                   stored, closing, pend, pendBase, pendIdx, results, rec, crashes>>

\* Mutant: a failing state commit whose writes still become visible.
CommitStateStoreLeaky(fail) ==
    /\ phase \in {"init", "up"} /\ pc = "eDone"
    /\ sCur' = pend /\ sLog' = Append(sLog, <<pend, pendBase>>)
    /\ IF fail
         THEN SubmitFails
         ELSE /\ faults' = faults /\ pc' = "sDone" /\ UNCHANGED phase
    /\ UNCHANGED <<readerVars, version, bCur, bBlocks, bIdx, eCur, eBlocks, l2, cur, hidx,
                   stored, closing, pend, pendBase, pendIdx, results, rec, crashes>>

\* Mutant: the event store commit skipped.
CommitStateStoreSkipEvent(fail) ==
    /\ phase \in {"init", "up"} /\ pc \in {"bDone", "eDone"}
    /\ IF fail
         THEN /\ SubmitFails
              /\ UNCHANGED <<sCur, sLog>>
         ELSE /\ faults' = faults /\ pc' = "sDone" /\ UNCHANGED phase
              /\ sCur' = pend /\ sLog' = Append(sLog, <<pend, pendBase>>)
    /\ UNCHANGED <<readerVars, version, bCur, bBlocks, bIdx, eCur, eBlocks, l2, cur, hidx,
                   stored, closing, pend, pendBase, pendIdx, results, rec, crashes>>

\* stateStore.CommitTo: merkle roots, layer2 account hashes, the current
\* marker and the raw write set.
CommitStateStore(fail) ==
    /\ phase \in {"init", "up"} /\ pc = "eDone"
    /\ IF fail
         THEN /\ SubmitFails
              /\ UNCHANGED <<sCur, sLog>>
         ELSE /\ faults' = faults /\ pc' = "sDone" /\ UNCHANGED phase
              /\ sCur' = pend /\ sLog' = Append(sLog, <<pend, pendBase>>)
    /\ UNCHANGED <<readerVars, version, bCur, bBlocks, bIdx, eCur, eBlocks, l2, cur, hidx,
                   stored, closing, pend, pendBase, pendIdx, results, rec, crashes>>

\* Mutant: the in-memory pointer not advanced.
SetCurrentBlockMissing ==
    /\ phase \in {"init", "up"} /\ pc = "sDone"
    /\ pc' = IF phase = "init" THEN "version" ELSE "idle"
    /\ UNCHANGED <<readerVars, durableVars, phase, cur, hidx, stored, closing, pend,
                   pendBase, pendIdx, results, rec, faults, crashes>>

\* setCurrentBlock after the three commits, the best-effort publication of
\* SaveBlockCompleteMsg (not modelled: nothing waits on it) and the return
\* of submitBlock, which releases the gate or lets initialisation go on.
SetCurrentBlock ==
    /\ phase \in {"init", "up"} /\ pc = "sDone"
    /\ cur' = pend
    /\ pc' = IF phase = "init" THEN "version" ELSE "idle"
    /\ UNCHANGED <<readerVars, durableVars, phase, hidx, stored, closing, pend, pendBase,
                   pendIdx, results, rec, faults, crashes>>

\* Close: takes the gate (waits for a submit to finish), sets closing and
\* closes the stores.
Close ==
    /\ phase = "up" /\ GateFree /\ ~closing
    /\ closing' = TRUE
    /\ UNCHANGED <<readerVars, durableVars, phase, pc, cur, hidx, stored, pend, pendBase,
                   pendIdx, results, rec, faults, crashes>>

\* PreExecuteContractWithParam, first half: GetCurrentBlockHeight, then
\* the header and block hash of that height, each read under the RW lock
\* but not under the writer gate.
PreExecHeight ==
    /\ phase = "up" /\ rH = None
    /\ rH' = cur
    /\ UNCHANGED <<durableVars, memVars, preExec, faults, crashes>>

\* PreExecuteContractWithParam, second half: NewOverlayDB on the state
\* store as committed now, execution of the transaction on it with a
\* config for height rH + 1, and the return of the result.
PreExecOverlay ==
    /\ phase = "up" /\ rH # None
    /\ preExec' = [height |-> rH, base |-> Len(sLog), atomic |-> FALSE]
    /\ rH' = None
    /\ UNCHANGED <<durableVars, memVars, faults, crashes>>

\* Mutant: the atomic batch run without taking the writer gate.
PreExecBatchAtomicNoGate ==
    /\ phase = "up" /\ rH = None
    /\ preExec' = [height |-> cur, base |-> Len(sLog), atomic |-> TRUE]
    /\ UNCHANGED <<durableVars, memVars, rH, faults, crashes>>

\* PreExecuteContractBatch with atomic = true: the writer gate is taken,
\* the height read and every transaction pre-executed on an overlay of
\* the committed state, and the gate released.
PreExecBatchAtomic ==
    /\ phase = "up" /\ GateFree /\ rH = None
    /\ preExec' = [height |-> cur, base |-> Len(sLog), atomic |-> TRUE]
    /\ UNCHANGED <<durableVars, memVars, rH, faults, crashes>>

\* The process stops at any point: memory and unflushed batches are lost.
Crash ==
    /\ phase \in {"init", "recover", "up"} /\ crashes < MaxCrashes
    /\ crashes' = crashes + 1
    /\ phase' = "down" /\ pc' = "idle"
    /\ FreshMemory /\ EmptyIndex
    /\ pend' = None /\ pendBase' = None /\ rec' = None
    /\ rH' = None
    /\ UNCHANGED <<durableVars, preExec, faults>>

-----------------------------------------------------------------------------

Next ==
    \/ \E fail \in BOOLEAN : StartFresh(fail)
    \/ StartExisting
    \/ \E fail \in BOOLEAN : RecoverEvent(fail) \/ RecoverState(fail)
    \/ \E fail \in BOOLEAN : SaveVersion(fail)
    \/ \E h \in Heights : ExecuteBlock(h)
    \/ \E h \in Heights, withL2 \in BOOLEAN, fail \in StageOutcomes :
          SubmitBlock(h, withL2, fail)
    \/ \E fail \in BOOLEAN :
          CommitBlockStore(fail) \/ CommitEventStore(fail) \/ CommitStateStore(fail)
    \/ SetCurrentBlock
    \/ Close
    \/ PreExecHeight \/ PreExecOverlay \/ PreExecBatchAtomic
    \/ Crash

Spec == Init /\ [][Next]_vars

\* The caller retries ExecuteBlock and SubmitBlock until they succeed (the
\* spec's contract for storage errors), a submit in progress runs its next
\* step, and a stopped process is started again; crashes, Close and
\* injected errors are never forced.
Fairness ==
    /\ WF_vars(StartFresh(FALSE)) /\ WF_vars(StartExisting)
    /\ WF_vars(RecoverEvent(FALSE)) /\ WF_vars(RecoverState(FALSE))
    /\ WF_vars(SaveVersion(FALSE))
    /\ WF_vars(\E h \in Heights : ExecuteBlock(h))
    /\ WF_vars(\E h \in Heights, withL2 \in BOOLEAN : SubmitBlock(h, withL2, "none"))
    /\ WF_vars(CommitBlockStore(FALSE)) /\ WF_vars(CommitEventStore(FALSE))
    /\ WF_vars(CommitStateStore(FALSE)) /\ WF_vars(SetCurrentBlock)

FairSpec == Spec /\ Fairness

-----------------------------------------------------------------------------
(* Properties                                                              *)

TypeOK ==
    /\ version \in BOOLEAN /\ closing \in BOOLEAN
    /\ bCur \in Heights \cup {None} /\ eCur \in Heights \cup {None}
    /\ sCur \in Heights \cup {None}
    /\ bBlocks \subseteq Heights /\ eBlocks \subseteq Heights /\ l2 \subseteq Heights
    /\ bIdx \subseteq Nat /\ hidx \subseteq Nat /\ pendIdx \subseteq Nat
    /\ sLog \in Seq(Heights \X Nat)
    /\ phase \in Phases /\ pc \in Steps
    /\ cur \in Heights /\ stored \in Nat
    /\ pend \in Heights \cup {None} /\ pendBase \in Nat \cup {None}
    /\ results \in [Heights -> Nat \cup {None}]
    /\ rec \in Heights \cup {None}
    /\ rH \in Heights \cup {None}
    /\ preExec \in [height : Heights \cup {None}, base : Nat \cup {None},
                    atomic : BOOLEAN]
    /\ faults \in 0..MaxFailures /\ crashes \in 0..MaxCrashes

\* TypeOK strengthened to an inductive invariant: a submit or replay step in
\* flight has a height and a base to write, a stopped process holds no
\* step, a store with a version marker (or one past its block commit) has
\* block and state markers, and recoverStore only iterates below the
\* current height, so rec + 1 and the markers it writes stay heights; only
\* a store with a version marker recovers or serves.
TypeInv ==
    /\ TypeOK
    /\ IsFiniteSet(bIdx) /\ IsFiniteSet(pendIdx)
    /\ pc # "idle" => pend \in Heights /\ pendBase \in Nat
    /\ phase \in {"down", "failed"} => pc = "idle"
    /\ pc \in {"bDone", "eDone", "sDone", "version"} => bCur \in Heights
    /\ pc \in {"sDone", "version"} => sCur \in Heights
    /\ version => bCur \in Heights /\ sCur \in Heights
    /\ phase = "recover" => rec \in Heights /\ rec < cur
    /\ phase \in {"recover", "up"} => version

\* Whenever the serving store is between operations, the state store holds
\* exactly blocks 0..currBlockHeight, each applied once, in order, on the
\* state its predecessor left: no storage error, retry or recovery makes
\* submitBlock or recoverStore skip, repeat or misplace a block.
StateLogIsChain ==
    (phase = "up" /\ pc = "idle") => sLog = ChainLog(cur)

\* Readers of GetCurrentBlock never see a height whose commit is in flight:
\* the in-memory current height is durable in all three sub-stores.
CurrentIsDurable ==
    phase = "up" => cur <= bCur /\ cur <= eCur /\ cur <= sCur

\* The commit order Block -> Event -> State of submitBlock, and the replay
\* of recoverStore, keep the sub-store markers ordered at every step, crash
\* included: the state store is never ahead of the event store, which is
\* never ahead of the block store.
SubStoreOrder == sCur <= eCur /\ eCur <= bCur

\* SubStoreOrder strengthened to an inductive invariant: a submit writes
\* its height into the block store before the event store and into the
\* event store before the state store, never below the markers already
\* there; the serving height is at most one below the event marker (an
\* event commit may precede a failed state commit); recoverStore replays
\* from the state marker up to the block marker, which it never moves.
SubStoreOrderInv ==
    /\ TypeInv
    /\ SubStoreOrder
    /\ pc \in {"staged", "bDone"} => eCur <= pend
    /\ pc = "bDone" => bCur = pend
    /\ pc \in {"eDone", "sDone"} => eCur = pend
    /\ phase \in {"init", "up"} => /\ eCur <= cur + 1
                                   /\ pc # "idle" => pend <= cur + 1
    /\ phase = "recover" => /\ cur = bCur
                            /\ pc = "idle" => sCur <= rec
                            /\ pc = "eDone" => pend = rec

\* The version marker is written only after the genesis block is durable
\* in all stores, so a crash during initialisation never leaves a marker
\* that makes the next start fail with "GenesisBlock arenot init correctly".
VersionImpliesGenesis ==
    version => 0 \in bBlocks /\ sCur # None /\ phase # "failed"

\* The uint32 difference currHeight-storeCount in saveHeaderIndexList
\* never wraps: storedIndexCount never passes the current height, after a
\* restart (len of the saved lists) included.
NoIndexWrap == phase \in {"init", "recover", "up"} => stored <= cur

\* After any start, GetBlockHash(h) finds the hash of every committed
\* height h <= currBlockHeight in the in-memory header index.
HeaderIndexCoversChain == phase = "up" => 0..cur \subseteq hidx

\* The layer2 store holds messages only for committed blocks once a submit
\* has returned (spec: a failed SubmitBlock leaves state as before).
Layer2MsgBacked == (phase = "up" /\ pc = "idle") => l2 \subseteq bBlocks

\* A pre-execution that returned ran on exactly the committed state of the
\* height it read, blocks 0..height (spec: readers never observe a height
\* whose commit is still in flight).
PreExecSnapshotConsistent ==
    preExec.height # None => preExec.base = preExec.height + 1

\* An atomic PreExecuteContractBatch, which holds the writer gate, always
\* runs on the committed state of the height it returns.
AtomicPreExecConsistent ==
    preExec.atomic => preExec.base = preExec.height + 1

\* If the store is not closed, every block up to MaxHeight is eventually
\* committed: errors are retried and no state leaves the chain stuck.
Progress == <>(cur = MaxHeight \/ closing)

\* The durable markers of the three stores implement LedgerChain: the
\* block store's current block grows one height at a time (a submit only
\* writes cur + 1 and cur follows bCur), the state store's never goes back
\* nor passes it (the state commit comes after the block commit, and a
\* replay only rewrites what the block store holds), and ClearAll only
\* happens before the version marker is saved.
Chain == INSTANCE LedgerChain WITH tip <- bCur, applied <- sCur, sealed <- version
ChainRefined == Chain!Spec

=============================================================================
