----------------------------- MODULE Layer2Commit -----------------------------
(***************************************************************************)
(* The state-commit half of the Layer2Operator (src/operator/core/         *)
(* operator.go): MonitorLayer2Chain parses layer2 blocks under the mutex   *)
(* mu and hands each one over the unbuffered msgChan to commitMsgLoop,     *)
(* which sends an updateState transaction to the ontology contract and     *)
(* records it in the operator database; checkMsgLoop polls the recorded    *)
(* transactions, marks them finished or failed, and on a failure rolls     *)
(* layer2ChainInfo.Height back by one and sets needCheck. Start rebuilds   *)
(* Height from the database after a restart.                               *)
(*                                                                         *)
(* A layer2 block and its commit message are its height. The ontology      *)
(* chain is the contract's last committed height onChain and the           *)
(* transactions sent to it. The database helpers are not in the            *)
(* repository; the model takes GetLayer2CommitHeight to be the highest     *)
(* height of a commit record that is not marked failed, and the contract's *)
(* updateState to accept exactly the height after its last one.            *)
(***************************************************************************)
EXTENDS Integers, FiniteSets

CONSTANTS
    MaxL2,      \* layer2 heights 1..MaxL2 are to be committed
    MaxPolls,   \* the poll budget of checkLayer2State (100 in the code)
    TxSlots,    \* transactions the ontology chain and the database track at once
    MaxLate,    \* commits that time out although the chain has not dropped them
    MaxDrops,   \* transactions the ontology chain never executes
    MaxCrashes, \* operator process crashes
    MaxRpcErrors, \* RPC errors of checkLayer2StateByHeight and parseLayer2ChainBlock
    InOrder     \* the ontology chain executes commits in height order

ASSUME MaxL2Assumption    == MaxL2 \in Nat \ {0}
ASSUME MaxPollsAssumption == MaxPolls \in Nat /\ MaxPolls >= 2
ASSUME TxSlotsAssumption  == TxSlots \in Nat \ {0}
ASSUME FaultsAssumption   == {MaxLate, MaxDrops, MaxCrashes, MaxRpcErrors} \subseteq Nat
ASSUME InOrderAssumption  == InOrder \in BOOLEAN

\* The layer2 chain's current height; blocks up to Tip exist.
Tip == MaxL2 + 1
Heights == 0..Tip
Slots == 1..TxSlots
NoSlot == 0
ChainStates == {"none", "pending", "ok", "fail", "dropped"}
RecStates == {"none", "unconfirmed", "failed", "finished"}

VARIABLES
    \* ontology chain
    onChain,    \* last layer2 height the contract accepted
    tx,         \* tx[s]: a commit transaction and its database record
    \* operator database
    finished,   \* heights of commit records marked LAYER2MSG_FINISH
    \* operator process
    up,         \* the process is running
    height,     \* layer2ChainInfo.Height
    needCheck,  \* needCheck
    mu,         \* owner of mu: "free" or "monitor"
    mon,        \* MonitorLayer2Chain: "idle", "loop" (holds mu), "send" (blocked on msgChan)
    msgH,       \* height of the message MonitorLayer2Chain is sending
    com,        \* commitMsgLoop: "idle", "commit" (has a message), "sent" (tx sent, not recorded)
    comH,       \* height of the message commitMsgLoop is committing
    comTx,      \* slot of the transaction commitMsgLoop sent
    chk,        \* checkLayer2State: "idle", "poll", "lock" (waiting for mu)
    budget,     \* txConfirmed of checkLayer2State, per slot
    \* bounds of the run
    late, drops, crashes, rpcErrs

chainVars == <<onChain, tx>>
procVars  == <<up, height, needCheck, mu, mon, msgH, com, comH, comTx, chk, budget>>
faultVars == <<late, drops, crashes, rpcErrs>>
vars      == <<chainVars, finished, procVars, faultVars>>

-----------------------------------------------------------------------------
(* Helpers                                                                 *)

\* GetLayer2CommitHeight: the highest height of a commit record that is
\* unconfirmed or finished (0 when there is none).
UnconfirmedHeights == {tx[s].h : s \in {t \in Slots : tx[t].rec = "unconfirmed"}}
GetLayer2CommitHeight ==
    LET hs       == finished \cup UnconfirmedHeights
        IsTop(m) == \A k \in hs : k <= m
    IN  IF \E m \in hs : IsTop(m) THEN CHOOSE m \in hs : IsTop(m) ELSE 0

\* checkLayer2StateByHeight(h): getStateRootByHeight(h) returns height h
\* once the contract holds the state of h; any error answers FALSE.
CheckLayer2StateByHeight(h, rpcOk) == rpcOk /\ h <= onChain

\* A slot the chain, the database and commitMsgLoop no longer use.
FreeSlot(s) ==
    /\ tx[s].chain # "pending" /\ tx[s].rec # "unconfirmed"
    /\ ~(com = "sent" /\ comTx = s)

\* An RPC call that fails uses one of the run's RPC errors.
RpcError(ok) ==
    /\ ~ok => rpcErrs < MaxRpcErrors
    /\ rpcErrs' = IF ok THEN rpcErrs ELSE rpcErrs + 1

\* The memory of a process that is not running.
Stopped ==
    /\ mu' = "free" /\ mon' = "idle" /\ msgH' = 0
    /\ com' = "idle" /\ comH' = 0 /\ comTx' = NoSlot
    /\ chk' = "idle" /\ budget' = [s \in Slots |-> 0]

-----------------------------------------------------------------------------

Init ==
    /\ onChain = 0
    /\ tx = [s \in Slots |-> [h |-> 0, chain |-> "none", rec |-> "none"]]
    /\ finished = {}
    /\ up = FALSE /\ height = 0 /\ needCheck = FALSE
    /\ mu = "free" /\ mon = "idle" /\ msgH = 0
    /\ com = "idle" /\ comH = 0 /\ comTx = NoSlot
    /\ chk = "idle" /\ budget = [s \in Slots |-> 0]
    /\ late = 0 /\ drops = 0 /\ crashes = 0 /\ rpcErrs = 0

\* Mutant: Start takes the commit height without asking the contract.
StartNoCheck(rpcOk) ==
    /\ ~up
    /\ up' = TRUE /\ needCheck' = FALSE
    /\ height' = GetLayer2CommitHeight + 1
    /\ finished' = finished \cup {GetLayer2CommitHeight + 1}
    /\ UNCHANGED <<chainVars, mu, mon, msgH, com, comH, comTx, chk, budget, faultVars>>

\* Start, layer2 part: the commit height from the database; if the contract
\* already holds the next height (a crash between SendTransaction and
\* SaveLayer2Commit), record it as finished and start after it. Then the
\* goroutines start with needCheck = false.
Start(rpcOk) ==
    /\ ~up
    /\ up' = TRUE /\ needCheck' = FALSE
    /\ RpcError(rpcOk)
    /\ LET c    == GetLayer2CommitHeight
           exit == CheckLayer2StateByHeight(c + 1, rpcOk)
       IN  /\ height' = IF exit THEN c + 1 ELSE c
           /\ finished' = IF exit THEN finished \cup {c + 1} ELSE finished
    /\ UNCHANGED <<chainVars, mu, mon, msgH, com, comH, comTx, chk, budget,
                   late, drops, crashes>>

\* MonitorLayer2Chain, one tick: the layer2 height is read and mu taken;
\* if Height is not below it, mu is released at once (a stutter).
MonTick ==
    /\ up /\ mon = "idle" /\ mu = "free"
    /\ height < Tip
    /\ mu' = "monitor" /\ mon' = "loop"
    /\ UNCHANGED <<chainVars, finished, up, height, needCheck, msgH, com, comH,
                   comTx, chk, budget, faultVars>>

\* Mutant: the loop breaks when the commit height is not above Height.
MonLoopExitEarly ==
    /\ up /\ mon = "loop"
    /\ height >= Tip - 1 \/ GetLayer2CommitHeight <= height
    /\ mu' = "free" /\ mon' = "idle"
    /\ UNCHANGED <<chainVars, finished, up, height, needCheck, msgH, com, comH,
                   comTx, chk, budget, faultVars>>

\* The loop ends (Height has reached currentHeight - 1) or breaks because
\* the commit height is below Height; mu is released.
MonLoopExit ==
    /\ up /\ mon = "loop"
    /\ height >= Tip - 1 \/ GetLayer2CommitHeight < height
    /\ mu' = "free" /\ mon' = "idle"
    /\ UNCHANGED <<chainVars, finished, up, height, needCheck, msgH, com, comH,
                   comTx, chk, budget, faultVars>>

\* Mutant: a parse error undoes the increment twice.
MonParseUndoTwice(rpcOk, parseOk) ==
    /\ up /\ mon = "loop"
    /\ height < Tip - 1 /\ GetLayer2CommitHeight >= height
    /\ ~rpcOk => needCheck
    /\ RpcError(rpcOk /\ parseOk)
    /\ needCheck' = FALSE
    /\ LET h1 == IF needCheck /\ CheckLayer2StateByHeight(height + 1, rpcOk)
                   THEN height + 1 ELSE height
       IN  IF parseOk
             THEN /\ height' = h1 + 1 /\ mon' = "send" /\ msgH' = h1 + 1
                  /\ UNCHANGED mu
             ELSE /\ height' = h1 - 1 /\ mu' = "free" /\ mon' = "idle"
                  /\ UNCHANGED msgH
    /\ UNCHANGED <<chainVars, finished, up, com, comH, comTx, chk, budget,
                   late, drops, crashes>>

\* One iteration of the loop: if needCheck, clear it and skip the next
\* height when the contract holds it; Height++ and parseLayer2ChainBlock,
\* which on an RPC error undoes the increment and breaks (mu released),
\* and otherwise blocks on msgChan <- msg still holding mu.
MonParse(rpcOk, parseOk) ==
    /\ up /\ mon = "loop"
    /\ height < Tip - 1 /\ GetLayer2CommitHeight >= height
    /\ ~rpcOk => needCheck
    /\ RpcError(rpcOk /\ parseOk)
    /\ needCheck' = FALSE
    /\ LET h1 == IF needCheck /\ CheckLayer2StateByHeight(height + 1, rpcOk)
                   THEN height + 1 ELSE height
       IN  IF parseOk
             THEN /\ height' = h1 + 1 /\ mon' = "send" /\ msgH' = h1 + 1
                  /\ UNCHANGED mu
             ELSE /\ height' = h1 /\ mu' = "free" /\ mon' = "idle"
                  /\ UNCHANGED msgH
    /\ UNCHANGED <<chainVars, finished, up, com, comH, comTx, chk, budget,
                   late, drops, crashes>>

\* msgChan is unbuffered: the send completes when commitMsgLoop receives.
Handoff ==
    /\ up /\ mon = "send" /\ com = "idle"
    /\ mon' = "loop" /\ com' = "commit" /\ comH' = msgH
    /\ UNCHANGED <<chainVars, finished, up, height, needCheck, mu, msgH, comTx,
                   chk, budget, faultVars>>

\* commitLayer2State2Ontology up to the SendTransaction loop, which retries
\* until the node accepts the transaction.
ComSend ==
    /\ up /\ com = "commit"
    /\ \E s \in Slots :
         /\ FreeSlot(s)
         /\ \A r \in Slots : FreeSlot(r) => s <= r
         /\ tx' = [tx EXCEPT ![s] = [h |-> comH, chain |-> "pending", rec |-> "none"]]
         /\ comTx' = s
    /\ com' = "sent"
    /\ UNCHANGED <<onChain, finished, up, height, needCheck, mu, mon, msgH, comH,
                   chk, budget, faultVars>>

\* The deposit and withdraw updates and SaveLayer2Commit: the record is
\* unconfirmed until checkLayer2State resolves it.
ComSave ==
    /\ up /\ com = "sent"
    /\ tx' = [tx EXCEPT ![comTx].rec = "unconfirmed"]
    /\ com' = "idle" /\ comTx' = NoSlot
    /\ UNCHANGED <<onChain, finished, up, height, needCheck, mu, mon, msgH, comH,
                   chk, budget, faultVars>>

\* Mutant: one poll more than the budget.
ChkLoadExtraPoll ==
    /\ up /\ chk = "idle"
    /\ budget' = [s \in Slots |-> IF tx[s].rec = "unconfirmed" THEN MaxPolls + 1 ELSE 0]
    /\ chk' = IF UnconfirmedHeights = {} THEN "idle" ELSE "poll"
    /\ UNCHANGED <<chainVars, finished, up, height, needCheck, mu, mon, msgH, com,
                   comH, comTx, faultVars>>

\* checkLayer2State: LoadLayer2Commit_Unconfirmed and a budget of
\* MaxPolls per record; with no record it returns and sleeps (a stutter).
ChkLoad ==
    /\ up /\ chk = "idle"
    /\ budget' = [s \in Slots |-> IF tx[s].rec = "unconfirmed" THEN MaxPolls ELSE 0]
    /\ chk' = IF UnconfirmedHeights = {} THEN "idle" ELSE "poll"
    /\ UNCHANGED <<chainVars, finished, up, height, needCheck, mu, mon, msgH, com,
                   comH, comTx, faultVars>>

\* Mutant: the confirmed == 1 case is missing; a record that is never
\* answered is left unconfirmed when its polls run out.
ChkPollNoTimeout(s) ==
    /\ up /\ chk = "poll" /\ budget[s] > 0
    /\ \/ /\ budget[s] = 1
          /\ budget' = [budget EXCEPT ![s] = 0]
          /\ UNCHANGED <<tx, finished, chk, late>>
       \/ /\ budget[s] > 1 /\ tx[s].chain = "ok"
          /\ tx' = [tx EXCEPT ![s].rec = "finished"]
          /\ finished' = finished \cup {tx[s].h}
          /\ budget' = [budget EXCEPT ![s] = 0]
          /\ UNCHANGED <<chk, late>>
       \/ /\ budget[s] > 1 /\ tx[s].chain = "fail"
          /\ tx' = [tx EXCEPT ![s].rec = "failed"]
          /\ budget' = [budget EXCEPT ![s] = 0]
          /\ chk' = "lock"
          /\ UNCHANGED <<finished, late>>
       \/ /\ budget[s] > 1
          /\ budget[s] = 2 /\ tx[s].chain # "dropped" => late < MaxLate
          /\ late' = IF budget[s] = 2 /\ tx[s].chain # "dropped" THEN late + 1 ELSE late
          /\ budget' = [budget EXCEPT ![s] = @ - 1]
          /\ UNCHANGED <<tx, finished, chk>>
    /\ UNCHANGED <<onChain, up, height, needCheck, mu, mon, msgH, com, comH, comTx,
                   drops, crashes, rpcErrs>>

\* One visit of the polling loop to record s. At budget 1 the record is
\* marked failed and Height rolled back. Otherwise GetSmartContractEvent
\* and GetBlockHeightByTxHash: an executed transaction is marked finished
\* or failed (failed also rolls back); no event yet, or an RPC error, uses
\* one poll. The poll that leaves a budget of 1 for a transaction the
\* chain has not dropped is a late answer: it will time out although the
\* chain may still execute it.
ChkPoll(s) ==
    /\ up /\ chk = "poll" /\ budget[s] > 0
    /\ \/ /\ budget[s] = 1
          /\ tx' = [tx EXCEPT ![s].rec = "failed"]
          /\ budget' = [budget EXCEPT ![s] = 0]
          /\ chk' = "lock"
          /\ UNCHANGED <<finished, late>>
       \/ /\ budget[s] > 1 /\ tx[s].chain = "ok"
          /\ tx' = [tx EXCEPT ![s].rec = "finished"]
          /\ finished' = finished \cup {tx[s].h}
          /\ budget' = [budget EXCEPT ![s] = 0]
          /\ UNCHANGED <<chk, late>>
       \/ /\ budget[s] > 1 /\ tx[s].chain = "fail"
          /\ tx' = [tx EXCEPT ![s].rec = "failed"]
          /\ budget' = [budget EXCEPT ![s] = 0]
          /\ chk' = "lock"
          /\ UNCHANGED <<finished, late>>
       \/ /\ budget[s] > 1
          /\ budget[s] = 2 /\ tx[s].chain # "dropped" => late < MaxLate
          /\ late' = IF budget[s] = 2 /\ tx[s].chain # "dropped" THEN late + 1 ELSE late
          /\ budget' = [budget EXCEPT ![s] = @ - 1]
          /\ UNCHANGED <<tx, finished, chk>>
    /\ UNCHANGED <<onChain, up, height, needCheck, mu, mon, msgH, com, comH, comTx,
                   drops, crashes, rpcErrs>>

\* The rollback after a failed record: mu.Lock, Height--, needCheck = true,
\* mu.Unlock.
ChkLock ==
    /\ up /\ chk = "lock" /\ mu = "free"
    /\ height' = height - 1 /\ needCheck' = TRUE
    /\ chk' = "poll"
    /\ UNCHANGED <<chainVars, finished, up, mu, mon, msgH, com, comH, comTx,
                   budget, faultVars>>

\* Every budget is spent: checkLayer2State returns.
ChkDone ==
    /\ up /\ chk = "poll" /\ \A s \in Slots : budget[s] = 0
    /\ chk' = "idle"
    /\ UNCHANGED <<chainVars, finished, up, height, needCheck, mu, mon, msgH, com,
                   comH, comTx, budget, faultVars>>

\* The ontology chain executes a pending commit: updateState succeeds for
\* the height after the contract's last one and fails otherwise. Under
\* InOrder the lowest pending height goes first.
OntExec(s) ==
    /\ tx[s].chain = "pending"
    /\ InOrder => \A r \in Slots : tx[r].chain = "pending" => tx[s].h <= tx[r].h
    /\ IF tx[s].h = onChain + 1
         THEN /\ onChain' = tx[s].h /\ tx' = [tx EXCEPT ![s].chain = "ok"]
         ELSE /\ tx' = [tx EXCEPT ![s].chain = "fail"] /\ UNCHANGED onChain
    /\ UNCHANGED <<finished, procVars, faultVars>>

\* The ontology chain drops a pending transaction.
OntDrop(s) ==
    /\ tx[s].chain = "pending" /\ drops < MaxDrops
    /\ tx' = [tx EXCEPT ![s].chain = "dropped"] /\ drops' = drops + 1
    /\ UNCHANGED <<onChain, finished, procVars, late, crashes, rpcErrs>>

\* The operator process dies: every goroutine and Height are lost.
Crash ==
    /\ up /\ crashes < MaxCrashes
    /\ up' = FALSE /\ crashes' = crashes + 1
    /\ Stopped
    /\ UNCHANGED <<chainVars, finished, height, needCheck, late, drops, rpcErrs>>

Next ==
    \/ \E ok \in BOOLEAN : Start(ok)
    \/ MonTick \/ MonLoopExit
    \/ \E ok, parsed \in BOOLEAN : MonParse(ok, parsed)
    \/ Handoff \/ ComSend \/ ComSave
    \/ ChkLoad \/ \E s \in Slots : ChkPoll(s)
    \/ ChkLock \/ ChkDone
    \/ \E s \in Slots : OntExec(s) \/ OntDrop(s)
    \/ Crash

Spec == Init /\ [][Next]_vars

\* Every goroutine keeps running its loop (tickers and retry loops), the
\* ontology chain eventually executes what it has not dropped, and a
\* stopped operator is started again. mu is a sync.Mutex, whose starvation
\* mode hands it to a waiter that keeps waiting: strong fairness for the
\* rollback of checkLayer2State. Crashes, drops and RPC errors are not
\* forced; each is bounded, so the successful calls are eventually taken.
Fairness ==
    /\ WF_vars(Start(TRUE))
    /\ WF_vars(MonTick) /\ WF_vars(MonLoopExit) /\ WF_vars(MonParse(TRUE, TRUE))
    /\ WF_vars(Handoff) /\ WF_vars(ComSend) /\ WF_vars(ComSave)
    /\ WF_vars(ChkLoad) /\ WF_vars(\E s \in Slots : ChkPoll(s))
    /\ SF_vars(ChkLock) /\ WF_vars(ChkDone)
    /\ WF_vars(\E s \in Slots : OntExec(s))

FairSpec == Spec /\ Fairness

-----------------------------------------------------------------------------
(* Properties                                                              *)

TypeOK ==
    /\ onChain \in Heights
    /\ tx \in [Slots -> [h : Heights, chain : ChainStates, rec : RecStates]]
    /\ finished \subseteq Heights
    /\ up \in BOOLEAN /\ needCheck \in BOOLEAN
    /\ height \in -TxSlots..Tip
    /\ mu \in {"free", "monitor"}
    /\ mon \in {"idle", "loop", "send"} /\ msgH \in Heights
    /\ com \in {"idle", "commit", "sent"} /\ comH \in Heights
    /\ comTx \in Slots \cup {NoSlot}
    /\ chk \in {"idle", "poll", "lock"} /\ budget \in [Slots -> 0..MaxPolls]
    /\ late \in 0..MaxLate /\ drops \in 0..MaxDrops /\ crashes \in 0..MaxCrashes
    /\ rpcErrs \in 0..MaxRpcErrors

\* A commit record marked finished, by checkLayer2State or by Start's
\* recovery, names a height the contract really holds.
FinishedOnChain == \A k \in finished : k <= onChain

\* layer2ChainInfo.Height is a uint32: checkLayer2State's Height-- never
\* takes it below 0 (it would wrap and stop the monitor for good).
NoHeightWrap == height >= 0

\* Every commit record saved as unconfirmed is eventually marked finished
\* or failed by checkLayer2State, across crashes and restarts: the checker
\* is never starved of mu by MonitorLayer2Chain, which is never blocked on
\* msgChan for good, and a record whose transaction is never answered runs
\* out of polls.
RecordsResolve ==
    \A s \in Slots : (tx[s].rec = "unconfirmed") ~> (tx[s].rec \in {"finished", "failed"})

\* Every layer2 height below the tip is eventually committed on ontology.
AllCommitted == <>(onChain >= MaxL2)

=============================================================================
