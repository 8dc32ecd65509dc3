# Verification of the layer2 node's ledger store and operator

This directory holds TLA+ models of the two components of the repository:

- the ledger store in `src/node/core/utils/transaction_builder.go`
  (`LedgerStoreImp`);
- the layer2 operator in `src/operator/core/operator.go` (`Layer2Operator`),
  which relays deposits from the ontology chain to layer2 and commits layer2
  states to the ontology contract.

It also holds the TLC configurations that check them, an abstract ledger
that the ledger store is shown to implement, and the TLAPS proofs.

## The system

`LedgerStoreImp` owns four sub-stores.

- **Block store**: blocks, block hashes, header index lists, a current-block
  marker and the version marker.
- **Event store**: notifications, per-block transaction lists and a current
  marker.
- **State store**: state merkle roots, the block merkle tree of transaction
  roots, layer2 account hashes, the raw write set and a current marker.
- **Layer2 store**: layer2 messages.

The sub-store code itself is not in the repository.

The ledger store's in-memory state is:

- `currBlockHeight` and `currBlockHash`;
- `headerIndex` (height to hash);
- `storedIndexCount` (how many header hashes the saved index lists cover);
- `closing`;
- the writer gate `savingBlockSemaphore`, a one-slot channel.

The parts interact as follows.

- **Start-up** (`InitLedgerStoreWithGenesisBlock`, lines 312-369).
  - With no version marker, it clears the block, state and event stores. It
    then executes and submits the genesis block and writes the version marker.
  - Otherwise it checks that the genesis block is stored. It then loads the
    current block, loads the header index (the saved lists, then one
    `GetBlockHash` per remaining height) and runs `recoverStore`.
  - `recoverStore` re-executes the blocks that the block store has and the
    state store lacks.
- **Writing a block.**
  - The caller calls `ExecuteBlock(b)`, then `SubmitBlock(b, layer2State, result)`.
    Both run under the writer gate.
  - `submitBlock` checks the block root, then opens batches on the block,
    state and event stores.
  - It stages the block, the header index list when a batch of
    `HEADER_INDEX_BATCH_SIZE` hashes is due, the state-store and event-store
    writes, and writes the layer2 message immediately.
  - It then commits block, event and state in that order and sets the
    in-memory current block.
- **Speculative execution** (`PreExecuteContract*`) reads the current height
  and runs a transaction on an overlay of the committed state. The atomic
  batch form holds the writer gate; the single form does not.
- **`Close`** takes the gate and sets `closing`.

### The layer2 operator

`Layer2Operator.Start` (lines 146-225 of `operator.go`) loads the chain
heights from the operator's MySQL database, then starts five goroutines,
all of them modelled:

- **`MonitorOntologyChain`** (234-265). On every tick it parses the ontology
  blocks above its height. For each deposit event in a block,
  `parseOntologyChainBlock` calls `SaveDeposit` and then sends the deposit on
  the unbuffered `depositChain`. After a whole block it calls
  `SetChainParseHeight`.
- **`depositLoop`** (361-429). It builds a layer2 transfer and sends it with
  `SendTransaction`, retrying up to 100 times. It then records the deposit
  as `DEPOSIT_COMMIT` or `DEPOSIT_FAILED`.
- **`MonitorLayer2Chain`** (431-477). It holds the mutex `mu` while it parses
  layer2 blocks. For each block it sends a commit message on the unbuffered
  `msgChan`, still holding `mu`. If `needCheck` is set, it first asks the
  contract (`checkLayer2StateByHeight`) whether the next height is already
  committed, and skips that height if so.
- **`commitMsgLoop` / `checkMsgLoop`** (608-787).
  - `commitMsgLoop` sends an `updateState` transaction to the ontology
    contract, retrying until the node accepts it, and saves an unconfirmed
    commit record.
  - `checkLayer2State` polls each unconfirmed record up to 100 times and
    marks it finished or failed.
  - A failed record (timeout or failed execution) makes it take `mu`, roll
    `layer2ChainInfo.Height` back by one and set `needCheck`.

The database helpers (`SaveDeposit`, `GetLayer2CommitHeight`,
`SaveLayer2Commit`, `UpdateLayer2Commit`, `LoadLayer2Commit_Unconfirmed`,
`SetChainParseHeight`, `LoadChainInfo`, `UpdateDepositByID`) are not in the
repository. The models assume the following of them, as stated in each
module's header:

- `SaveDeposit` fails for an id that is already saved, and may fail with a
  database error for a new one.
- `GetLayer2CommitHeight` is the highest height of a record not marked
  failed.
- `LoadChainInfo` returns the height last saved.

The models also assume that the contract's `updateState` accepts exactly
the height after its last one.

## Modules

| Module | What it is |
|---|---|
| `LedgerStore.tla` | The ledger store: durable sub-store state, process memory, a concurrent pre-executing reader, storage errors and crashes. |
| `MCLedgerStore.tla` | Model-checking instance. The constants are given in the `.cfg` files. |
| `LedgerStoreProofs.tla` | TLAPS proofs of `TypeOK` and `SubStoreOrder`. |
| `LedgerChain.tla` | The abstract ledger: a block tip, an applied-state height and a sealed flag. |
| `LedgerRefinement.tla` | TLAPS proof that `LedgerStore` implements `LedgerChain`. |
| `LedgerStartProofs.tla` | TLAPS proofs of `VersionImpliesGenesis` and `NoIndexWrap`. |
| `LedgerOnlineProofs.tla` | TLAPS proofs of `StateLogIsChain`, `CurrentIsDurable` and `AtomicPreExecConsistent` for the crash-free store, and lemmas about `ChainLog`. |
| `Layer2Commit.tla` | The operator's layer2 state commit: monitor, commit loop, check loop, mutex, crashes, the ontology chain. |
| `MCLayer2Commit.tla` | Model-checking instance of `Layer2Commit`. |
| `DepositRelay.tla` | The operator's deposit relay: ontology monitor, `SaveDeposit`, deposit loop with retries, crashes. |
| `MCDepositRelay.tla` | Model-checking instance of `DepositRelay`, with the deposit-to-block maps. |
| `Layer2CommitProofs.tla` | TLAPS proofs of `FinishedOnChain`, `NoHeightWrap` and `TypeOK`. |
| `DepositRelayProofs.tla` | TLAPS proofs of `TypeOK`, `NoDoubleCredit` and `OutcomeFinal`. |

### Abstraction in `LedgerStore`

- **Blocks.** A block is its height. There is one candidate block per height,
  so a block's hash and transaction root are functions of its height.
- **State store.** Its content is `sLog`, a sequence of `<<height, base>>`
  pairs. Each pair is one block applied by a state commit, together with the
  length of the log that its `ExecuteResult` was computed on.
  - The result of `executeBlock` depends only on the committed state, which
    is `ExecutedBase == Len(sLog)`.
  - A block applied on the right state has `base = height`, so the correct
    log after blocks 0..n is `ChainLog(n)`.
- **Sub-store semantics.** Each batched sub-store commits atomically or not
  at all. The layer2 store writes immediately: `submitBlock` opens no batch
  for it.
- **Validation.** A header or layer2 state that fails validation returns
  before any mutation, so it is a stutter and is not enumerated.
  - `verifyHeader` is kept as its one state-dependent test: the parent block
    must be in the block store.
  - `GetBlockRootWithNewTxRoots` is kept as the test that the stored
    transaction roots followed by the new one are exactly blocks 0..h.

### State and actions against the code

Durable state:

| Variable | Code |
|---|---|
| `version` | block store `SaveVersion` / `GetVersion` |
| `bCur`, `bBlocks`, `bIdx` | block store current marker, blocks and hashes, saved header index lists |
| `eCur`, `eBlocks` | event store current marker and block notifications |
| `sCur`, `sLog` | state store current marker and content |
| `l2` | layer2 store messages |

Memory:

| Variable | Code |
|---|---|
| `cur` | `currBlockHeight` |
| `hidx` | domain of `headerIndex` |
| `stored` | `storedIndexCount` |
| `closing` | `closing` |
| `phase` | where start-up is: down, init, recover, up, failed |
| `pc` | step of the `submitBlock` in flight; `pc = "idle"` is "the writer gate is free" |
| `pend`, `pendBase`, `pendIdx` | the block, result and index list being written |
| `results` | the caller's `ExecuteResult`s |
| `rec` | the `recoverStore` loop variable |
| `rH`, `preExec` | an unfinished non-atomic pre-execution, and the last returned one |

| Action | Code (transaction_builder.go) |
|---|---|
| `StartFresh(fail)` | fresh branch of `InitLedgerStoreWithGenesisBlock` up to the commits (312-347) |
| `StartExisting` | existing branch: `init`, `loadCurrentBlock`, `loadHeaderIndexList`, start of `recoverStore` (354-441) |
| `RecoverEvent(fail)`, `RecoverState(fail)` | one `recoverStore` iteration: up to and including the event commit, then the state commit (442-470) |
| `SaveVersion(fail)` | `initGenesisBlock` (379-381) |
| `ExecuteBlock(h)` | `ExecuteBlock` (597-614) |
| `SubmitBlock(h, withL2, fail)` | `SubmitBlock` checks (616-662), then `submitBlock` staging, `SubmitStage` (911-935) |
| `CommitBlockStore`, `CommitEventStore`, `CommitStateStore` (each `fail`) | the three `CommitTo` calls (936-948) |
| `SetCurrentBlock` | `setCurrentBlock` and the return (949-958) |
| `Close` | `Close` (1258-1277) |
| `PreExecHeight`, `PreExecOverlay` | `PreExecuteContractWithParam`: height read (1154-1167), then overlay and execution (1169-1244) |
| `PreExecBatchAtomic` | `PreExecuteContractBatch` with `atomic` (1133-1150) |
| `Crash` | process death at any point: memory and open batches are lost |

Every fallible step that writes has a `fail` input, bounded by
`MaxFailures`, and returns exactly where the code returns. The read errors of
`StartExisting` (`GetCurrentBlock`, `GetHeaderIndexList` and the state
store's `GetCurrentBlock`, 383-432) have no input: they come before any
write, so they would be stutters. `PROJECT.json` ("map") gives the lines of
every definition.

## Runs

All runs of this section use `MCLedgerStore` with `BatchSize = 1`. With that batch size a
header index flush happens at every height past 1. A flush lost by one
submit is therefore followed by a later flush, and the gap this leaves is
reachable.

| Run | Constants | Checks | Result |
|---|---|---|---|
| `online_commit` | MaxHeight 3, MaxFailures 2, MaxCrashes 0, `FairSpec` | `StateLogIsChain`, `CurrentIsDurable`, `AtomicPreExecConsistent`, `Progress` | pass (about 41,600 states) |
| `crash_restart` | MaxHeight 3, MaxFailures 1, MaxCrashes 2 | `TypeOK`, `SubStoreOrder`, `VersionImpliesGenesis`, `NoIndexWrap`, `ChainRefined` | pass (about 161,000 states) |
| `recovery_replay` | MaxFailures 0, MaxCrashes 1 | `StateLogIsChain` | violated: finding 1 |
| `header_index_gap` | MaxFailures 1, MaxCrashes 1 | `HeaderIndexCoversChain` | violated: finding 2 |
| `preexec_snapshot` | MaxHeight 2, no failures or crashes | `PreExecSnapshotConsistent` | violated: finding 3 |

Why these bounds are enough:

- Two failures let an error be followed by a retry that fails again.
- Two crashes let a crash happen during a recovery.
- Three heights let a failure at one height be followed by commits at later
  heights.

`StateLogIsChain` is checked only without crashes (`online_commit`), because
with crashes it is violated by finding 1.

Every run sets `CHECK_DEADLOCK FALSE`, because the system really stops:

- after block `MaxHeight`;
- after `Close`;
- in phase `failed` (a fatal start-up error such as a missing genesis block);
- when the bounded failures or crashes are used up.

### Fairness

`FairSpec` adds weak fairness on the error-free forms of these steps:

- the start-up steps;
- `ExecuteBlock` and `SubmitBlock`;
- each commit step and `SetCurrentBlock`.

This reflects the following.

- The caller retries `ExecuteBlock` and `SubmitBlock` until they succeed, as
  the spec requires of callers on storage errors.
- A `submitBlock` in flight runs to its end: it holds the gate and blocks on
  nothing.
- A stopped node is started again.

Crashes, injected errors, `Close` and pre-executions are never forced.

## Findings

1. **Recovery replays the wrong block** (`transaction_builder.go:441`).
   - The loop `for i := stateHeight; i < blockHeight` re-executes the block
     the state store already holds and never executes `blockHeight`.
   - After a crash between the block commit and the state commit, the state
     store holds one block twice and misses the last one.
2. **Header index hole after a failed submit** (`:1006`).
   - `storedIndexCount` is advanced when the list is staged, not when the
     batch commits.
   - If the submit then fails, the list is lost but the count stays. The
     next flush saves the following range.
   - After a restart, `loadHeaderIndexList` starts at `len(list)`, so the
     heights of the lost range are never loaded.
3. **Pre-execution on a state ahead of its height** (`:1154`, `:1169`). The
   non-atomic form reads the height, then opens the overlay without the gate.
   A state commit in between makes it run on the next block's state.

## The layer2 operator models

The operator is split in two modules, because its two halves share no
state beyond the process: a crash stops both.

### `Layer2Commit` against the code

A layer2 block, its commit message and its commit transaction are each
represented by the block's height. The ontology chain is represented by:

- `onChain`, the contract's last accepted height;
- `tx`, a set of transaction slots. Each slot holds a height, the chain's
  verdict (pending, ok, fail or dropped) and the database record
  (none, unconfirmed, failed or finished).

| Action | Code |
|---|---|
| `Start` | `Start`, 201-214: `GetLayer2CommitHeight`, `checkLayer2StateByHeight(h+1)`, the finished record for a height committed before a crash |
| `MonTick` | 436-448: tick, `mu.Lock`, the early `continue` |
| `MonLoopExit` | 449-453: the loop ends, or breaks when the commit height is below `Height` |
| `MonParse` | 454-469 with `parseLayer2ChainBlock`'s RPC errors (480-489): the `needCheck` skip, `Height++`, the undo on error |
| `Handoff` | 604 / 612: the unbuffered `msgChan` send, with `mu` still held |
| `ComSend`, `ComSave` | `commitLayer2State2Ontology`, 626-687: the `SendTransaction` retry loop, then `SaveLayer2Commit` |
| `ChkLoad`, `ChkPoll`, `ChkLock`, `ChkDone` | `checkLayer2State`, 697-787: the budget, the timeout at budget 1, finished or failed, the rollback under `mu`, the return |
| `OntExec`, `OntDrop` | the ontology chain executing a pending transaction (in height order when `InOrder`), or dropping it |
| `Crash` | process death: every goroutine and `Height` are lost; `Start` runs again |

`MaxPolls` stands for the 100-poll budget. It is 2 in the runs, which is
the smallest budget with both a poll that waits and a timeout. Faults are
bounded by constants:

- `MaxLate`: a poll budget that runs out before the chain executes the
  transaction;
- `MaxDrops`: the chain drops a transaction;
- `MaxCrashes`: the operator process crashes;
- `MaxRpcErrors`: `checkLayer2StateByHeight` or a parse RPC fails.

### `DepositRelay` against the code

A deposit is its id. `DepBlock` maps each id to the ontology block that
holds its event.

| Action | Code |
|---|---|
| `Start` | 177-188: a saved height of 0 is replaced by the chain's current height |
| `MonTick`, `MonNext`, `MonBlockDone` | `MonitorOntologyChain`, 236-258 |
| `MonSave`, `Handoff` | `parseOntologyChainBlock`, 305-311: `SaveDeposit`, which refuses a saved id and may fail on a new one (`saveOk`, bounded by `MaxSaveErrors`); skip on either error, else the `depositChain` send. The events of a block not yet handled are taken in any order. `saveFailed` records the new deposits skipped, as the log line at 307 does. |
| `DlSend`, `AfterSendError`, `DlUpdate` | `commitDeposit2Layer2`, 379-429. Layer2 may take a transaction and still answer an error (a lost acknowledgement); the retry of the same signed transaction is then refused. |
| `OntGrow`, `Crash` | the ontology chain grows; process death |

`MaxRetries` stands for the 100 of the retry counter. Deposit ids are
naturals (`deposit.ID` is a `uint64`), and `NoDep = -1`, the "no deposit" of
the model's goroutine state, is not one.

The safety properties of `deposit_crash`:

- `NoDoubleCredit`: no deposit is credited on layer2 twice.
- `OutcomeFinal`, an action property: once `UpdateDepositByID` has recorded
  a deposit as committed or failed, no later step rewrites its row. Breaking
  it takes a crash, a re-parse of the block and a second `SaveDeposit` of
  the same id.

### Runs of the operator models

| Run | Constants | Checks | Result |
|---|---|---|---|
| `commit_pipeline` | MaxL2 3, no faults | `AllCommitted` | pass (about 530 states) |
| `commit_faults` | MaxL2 2, one of each fault | `TypeOK`, `FinishedOnChain`, `NoHeightWrap`, `RecordsResolve` | pass (about 370,000 states, about 3 minutes) |
| `commit_drop_livelock` | MaxL2 3, one drop | `AllCommitted` | violated: finding 4 |
| `commit_skip_stall` | MaxL2 3, one late answer, one RPC error | `AllCommitted` | violated: finding 5 |
| `deposit_relay` | 3 deposits in blocks 2-3, MaxRetries 2, send errors, a lost ack, an RPC error, a SaveDeposit error | `DepositsRelayed` | pass (about 4,500 states) |
| `deposit_crash` | 3 deposits, two crashes, send errors, a lost ack, a SaveDeposit error | `TypeOK`, `NoDoubleCredit`, `OutcomeFinal` | pass (about 100,000 states) |
| `deposit_crash_loss` | one crash | `DepositsRelayed` | violated: finding 6 |

Why these bounds are enough:

- Three transaction slots hold a failed commit, its resend and the next
  height at once. This is what the rollback-by-one needs to go wrong.
- One fault of each kind reaches every error path of the check loop.
- Two crashes reach a crash during a re-parse.

`AllCommitted` holds only without faults. Each single fault kind that
breaks it is shown by a violation run, or listed below under "Stated, but
without a run".

Deadlock is checked in every operator run. A deadlock would be
`MonitorLayer2Chain` blocked on `msgChan` while holding `mu`, with the
check loop waiting for `mu`.

**Fairness.** Every goroutine is a loop driven by a ticker or by
`time.Sleep`, so each successful step has weak fairness. A stopped
operator is started again.

- `ChkLock` waits on a `sync.Mutex` whose starvation mode hands it to a
  waiter that keeps waiting, so it gets strong fairness.
- The ontology chain eventually executes what it has not dropped.
- Crashes, drops, late answers, RPC errors and `SaveDeposit` errors are
  never forced. Each is
  bounded, so the error-free forms are eventually taken.
- `OntGrow` (deposits) is not forced. `DepositsRelayed` is conditioned on
  the block having been produced.

### Operator findings

4. **A dropped commit is never resent** (`operator.go:743`, `:713`).
   - The timeout of the dropped height and the contract's refusal of the
     next height each roll `Height` back by one.
   - `MonitorLayer2Chain` re-parses in between and keeps resending the next
     height, never the dropped one.
5. **Stall after a late answer** (`:465`).
   - A commit the contract accepted times out and is marked FAILED.
   - The `needCheck` branch skips that height. A parse error then undoes
     only the loop's own `Height++`.
   - `GetLayer2CommitHeight` stays below `Height`, so the loop breaks on
     every tick from then on.
   - A crash between `UpdateLayer2Commit(FAILED)` and `Height--` reaches
     the same stall.
6. **Deposit lost by a crash** (`:305`).
   - `SaveDeposit` runs before the `depositChain` send.
   - After a crash between the two, the re-parse gets a duplicate error and
     skips the deposit.

### Stated, but without a run

Each property below is stated in a module and violated by TLC as soon as
its hazard is enabled. None is kept as a run. `PROJECT.json` lists each one
as a hazard.

- **`Layer2MsgBacked`** (`LedgerStore`, `transaction_builder.go:927`).
  `SaveMsgToLayer2Store` is not batched, so a later failure of the submit
  leaves the message stored for a block that is not committed.
- **`FailedNotCredited`** (`DepositRelay`, `operator.go:417`). A send that
  succeeds after `counter` reached 100 is taken for a give-up, and the
  credited deposit is recorded as failed.
- **`AllCommitted` with `InOrder = FALSE`** (`operator.go:713`). The
  one-height rollback recovers only if the ontology chain executes commits
  in height order.
- **`DepositsRelayed` without its `saveFailed` exception**
  (`operator.go:306`). A database error of `SaveDeposit` on a new deposit is
  logged and the deposit skipped for good. The block's parse height is saved
  anyway, so one such error loses the deposit, even without a crash.
  `DepositsRelayed` therefore excludes exactly those deposits. It still
  catches a monitor that skips a block and a deposit saved but never
  relayed.
- **`DepositsRelayed` with `InitHeight = 0`** (`operator.go:183`).
  - A crash before the first `SetChainParseHeight` leaves the saved height
    at 0.
  - The restart then jumps to the chain's current height, over the blocks
    that hold deposits.

## Proofs

Fourteen theorems are proved by TLAPS, in six modules. Each holds for every
value of the constants allowed by the named `ASSUME`s of its model:

- `LedgerStore`: `MaxHeight` and `BatchSize` are positive naturals, and
  `MaxFailures` and `MaxCrashes` are naturals;
- `Layer2Commit`: `MaxL2` and `TxSlots` are positive, `MaxPolls >= 2`, the
  fault bounds are naturals and `InOrder` is a Boolean;
- `DepositRelay`: `InitHeight < MaxOnt` are naturals, deposit ids are
  naturals mapped to blocks after `InitHeight`, and the fault bounds are
  naturals.

The three theorems of `LedgerOnlineProofs` also take `MaxCrashes = 0` as a
hypothesis. Each theorem names the property a run checks, and each of its
inductive invariants was checked by TLC on a run before it was proved.

### `TypeCorrect`: `Spec => []TypeOK`

`TypeOK` alone is not inductive. The inductive invariant is `TypeInv`, which
adds:

- the index sets are finite;
- a submit or replay step in flight has a height and a base;
- a stopped process holds no step;
- past the block commit, or with a version marker, the block and state
  markers are heights;
- `recoverStore` runs only below the current height;
- only a store with a version marker recovers or serves.

These conjuncts are what make `rec + 1`, `pend` and the markers written by
each step stay within `Heights`.

The step proof (`TypeInvStep`) has one case per action. Each case is split
into:

- `SetsOK`: set memberships, by Zenon;
- `ValuesOK`: arithmetic values, by SMT;
- `FiniteOK`: finiteness, from `FiniteSetTheorems`;
- `ControlOK`: the control implications.

Lemmas used:

- `StageIndexFinite`: a staged index list is a finite set of naturals.
- `AppendLogType`: appending a well-typed pair to `sLog` keeps it a sequence
  of pairs, from `SequenceTheorems`.

### `SubStoreOrdered`: `Spec => []SubStoreOrder`

`SubStoreOrder` states `sCur <= eCur <= bCur`, through crashes, failures and
recovery. The inductive invariant is `SubStoreOrderInv`, which adds:

- a submit's height is never below the event marker before the event commit;
- it equals the block marker after the block commit;
- it equals the event marker after the event commit;
- the serving height is at most one below the event marker;
- during recovery the current height equals the block marker, and the replay
  variable never falls below the state marker.

The proof is inductive over `SubStoreOrderInv`, which TLC checked on the
`crash_restart` instance before the proof.

### `Refinement`: `Spec => ChainRefined`

`LedgerChain` is the abstract ledger. It states what the store promises
about durable data:

- a block tip that grows one height at a time;
- an applied-state height that never goes back and never passes the tip;
- a seal after which the store is never wiped.

`LedgerStore` instantiates it with `tip <- bCur`, `applied <- sCur` and
`sealed <- version`. `ChainRefined` is that instance's `Spec`. TLC checks
it in `crash_restart`. `LedgerRefinement.tla` proves it for every value of
the constants, crashes, storage errors and recovery included.

The proof has three parts:

1. `Init` maps to `LedgerChain`'s `Init`.
2. Under the invariant, each action maps to one abstract step
   (`ChainStep`):
   - `StartFresh` maps to `Reset`;
   - `CommitBlockStore` maps to `Extend`;
   - `CommitStateStore` and `RecoverState` map to `Apply` or a stutter;
   - `SaveVersion` maps to `Seal`;
   - every other action leaves the markers unchanged.
3. The two are combined by PTL.

Step 2 needs facts that `SubStoreOrderInv` does not give. So the proof
uses the inductive invariant `ChainInv == SubStoreOrderInv /\ RefineOK`.
`RefineOK` says:

- while serving, `cur` follows `bCur`;
- a staged submit writes `cur + 1`;
- the start-up submit writes 0 into an unsealed store;
- after their commits, the block and state markers equal the submit's
  height;
- a replay never writes below the state marker.

`ChainInvStep` proves that `ChainInv` is inductive with one case per action.
It reuses `OrderStep` for the `SubStoreOrderInv` half. Before the proof,
`ChainInv` was checked by TLC as an invariant of `crash_restart` and
`online_commit`.

### `VersionGenesisThm` and `NoIndexWrapThm` (`LedgerStartProofs`)

These are `Spec => []VersionImpliesGenesis` and `Spec => []NoIndexWrap`,
crashes and storage errors included. Both rest on what the block store
holds. The inductive invariant is `IInv == ChainInv /\ StartInv`, and
`StartInv` says:

- the block store holds exactly `0..bCur` (nothing when `bCur` is `None`):
  blocks are committed one height at a time from genesis;
- every saved header index list covers heights below `bCur`;
- a staged list covers heights below `storedIndexCount`, which stays at
  most the current height while the store runs;
- a submit in flight while serving writes `cur + 1`;
- a store with a version marker is never in the failed phase.

A lost flush (a block commit that fails after `storedIndexCount` was
advanced) leaves a gap in the saved lists, so they are not an interval.
They still lie below `bCur`, so their count, which the next start takes as
`storedIndexCount`, is at most `bCur`. `CountBelow` proves that bound from
`FS_Subset` and `FS_Interval`. With `bBlocks = 0..bCur`, `StartExisting`
finds the genesis block and every hash past the saved lists, so it never
fails. `BlockCommitExtends` is the block commit step: it extends `0..bCur`
to `0..pend` and keeps the lists below `pend`.

### `StateLogChainThm`, `CurrentDurableThm`, `AtomicPreExecThm` (`LedgerOnlineProofs`)

Each is `ASSUME MaxCrashes = 0 PROVE Spec => []P`, for `StateLogIsChain`,
`CurrentIsDurable` and `AtomicPreExecConsistent`. This is what the
`online_commit` run checks. The first two do not hold with crashes:

- the `recovery_replay` run shows `StateLogIsChain` violated (finding 1);
- the same recovery brings the store up with `cur = 1` and the state and
  event markers at 0, so `CurrentIsDurable` fails too.

Without crashes the version marker is saved only when the store starts
serving, so `StartExisting` and `recoverStore` are never reached. The
inductive invariant is `OInv == IInv /\ OnlineInv`. `OnlineInv` says:

- while serving, `sLog` is `ChainLog(cur)`, or `ChainLog(pend)` after the
  state commit and before `setCurrentBlock`;
- while serving, `cur` is at most the state marker;
- during the genesis submit, `sLog` is `ChainLog(-1)` (empty) or
  `ChainLog(0)`;
- `ExecuteBlock`'s result for height `k` is `None` or `k`: it was computed
  on the state of blocks `0..k-1`;
- a staged submit carries the base `cur + 1`.

Two lemmas about the model's `ChainLog` operator do the sequence reasoning:

- `ChainLogSeq`: `ChainLog(n)` is a sequence of length `n + 1`;
- `ChainLogAppend`: appending `<<n, n>>` to `ChainLog(n - 1)` gives
  `ChainLog(n)`, from `AppendProperties` and `SeqEqual`.

### `DepTypeCorrect`, `NoDoubleCreditThm`, `OutcomeFinalThm` (`DepositRelayProofs`)

`TypeOK` is inductive as it stands. `NoDoubleCredit` rests on `DepInv`,
which says what each goroutine may hold:

- the monitor's pending send and the deposit loop's deposit are set exactly
  when those goroutines are in their send states;
- a deposit held by either goroutine has the row `DEPOSIT_EVENT`, which
  only `SaveDeposit` writes, and only for an absent row;
- a deposit without a row, or one the monitor is sending, is not credited,
  and the loop does not hold the same deposit;
- a deposit the loop is sending, and that layer2 does not hold yet, is not
  credited.

A re-parse after a crash therefore never hands an already saved deposit to
the loop, and the loop credits at most once per hand-over. `OutcomeFinal`
is the action property `[][A]_vars`. `OutcomeStep` shows that every step
from a `DepInv` state is an `A` step. The only step that writes a final
outcome is `DlUpdate`, and it writes the row of the deposit the loop holds,
which `DepInv` says is still `DEPOSIT_EVENT`.

### `FinishedOnChainThm` (`Layer2CommitProofs`)

The inductive invariant `FinInv` adds one fact to `FinishedOnChain`: a
transaction the chain executed successfully is at most the contract's
height. `checkLayer2State` marks a record finished only for such a
transaction. `Start` marks a record finished only after
`checkLayer2StateByHeight` saw the height on the contract.
`CommitHeightInt` shows that `GetLayer2CommitHeight` is an integer. It is
stated as "the greatest element if there is one, else 0", so `CHOOSE` is
never applied to an empty predicate.

### `NoHeightWrapThm` and `CommitTypeCorrect` (`Layer2CommitProofs`)

`NoHeightWrap` says `Height >= 0`. `checkLayer2State` takes one
`Height--` for every record it marks failed. So `Height` must cover every
rollback still owed:

- one per unconfirmed record;
- one per message on its way to becoming a record (blocked on `msgChan`,
  or held by `commitMsgLoop`);
- one for a rollback waiting for `mu`.

`Owing(k)` counts the first two kinds at or below height `k`.
`Rollbacks` is `Owing(Tip)` plus the third kind. `RollbackBound` says
`up => Rollbacks <= height`. That alone is not inductive. A restart sets
`Height` to `GetLayer2CommitHeight`, the highest recorded height `c`, and
the records that survived the crash must fit under it. Hence `OwingBound`:
for every height `k`, `Owing(k) <= k`. Each new record or message sits at
a height above all those before it, so the bound carries over.

The inductive invariant is
`HeightInv == HShape /\ OwingBound /\ RollbackBound`. `HShape` is
`TypeOK` plus three shape facts:

- a stopped process holds no messages;
- only unconfirmed records have a poll budget;
- `commitMsgLoop`'s sent transaction is in its slot.

The lemmas it rests on:

- `SlotAddCard` and `SlotRemoveCard` count sets of slots
  (`FiniteSetTheorems`).
- `OwingMono` shows that `Owing` is monotone in `k`.
- `HeightsMax` shows that a nonempty set of heights has a greatest
  element. It applies `WFMin` from `WellFoundedInduction` to the distances
  from `Tip`.
- `CommitHeightTop` uses `HeightsMax` to show that
  `GetLayer2CommitHeight` is a height, at or above every unconfirmed
  record.

`OwingStep` has one case per action. It shows that `Start`'s new `Height`
is `c` or `c + 1`, and that `Owed(Tip) = Owed(c)`. `TypeOK` follows from
the same invariant (`CommitTypeCorrect`), since `Height`'s bounds are part
of `HShape`.

### What stays with TLC

- **Liveness**: `Progress`, `AllCommitted`, `RecordsResolve` and
  `DepositsRelayed`. They rest on fairness, and TLAPS cannot reason about
  `ENABLED` here.
- **`StateLogIsChain` and `CurrentIsDurable` with crashes.** These are
  false (finding 1). The proofs above cover the crash-free store only.

## Not modelled

- **Read accessors.** They change no state.
- **Transaction builders** (lines 1-257). These are pure encoders.
- **`executeBlock` internals.** The state-root and total-state-hash
  computation is abstracted to the state the result is computed on.
- **Signature checks** in `verifyHeader` and `verifyLayer2State`. A rejected
  input is a stutter.
- **Closing the sub-stores** in `Close`. Because of this the model cannot
  check that `ExecuteBlock` fails to test `closing` (see the hazards).
- **The sub-stores and the VM.** They are not in the repository.
- **Operator message contents.** `parseLayer2ChainBlock`'s decoding of
  transfers and withdrawals into MySQL rows and the commit message (lines
  490-599) is pure formatting and I/O. The message is its height.
- **Operator accounts and gas.** `getOntologyAccount`, `getLyer2Account`
  (wallet files) and `PreExecInvokeNeoVMContract` (a gas estimate with a
  fallback) change no modelled state.
- **`Stop`, `testLoop`, `test`, `transfer`, `isLayer2Tx`.**
  - `Stop` sends two exits on a channel read by two loops. The models leave
    the exit cases out.
  - The others are test code or an unused helper.
- **The `chain.Height != 8378403` exception** at `operator.go:306`. This is
  a hard-coded height of the production chain.

## Plan

1. **Pure operators, checked by TLC only.**
   - `calculateChangeStateRoot`: sorting and merkle over key states.
   - `GetBlockRootWithNewTxRoots`, in all its branches.
   - The transaction builders' encoding.

   Each is to be checked against a reference definition.
2. **More proofs.**
   - A crash-tolerant form of `CurrentIsDurable`, once finding 1 is fixed.
3. **Composition.** Both operator halves in one process module, so that a
   crash stops both at once.
