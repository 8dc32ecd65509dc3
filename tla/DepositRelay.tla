----------------------------- MODULE DepositRelay -----------------------------
(***************************************************************************)
(* The deposit half of the Layer2Operator (src/operator/core/operator.go): *)
(* MonitorOntologyChain parses ontology blocks one by one; for every       *)
(* deposit event of a block parseOntologyChainBlock calls SaveDeposit and, *)
(* unless that fails, hands the deposit over the unbuffered depositChain   *)
(* to depositLoop, whose commitDeposit2Layer2 sends a transfer on layer2   *)
(* (at most MaxRetries + 1 attempts) and records the deposit as committed  *)
(* or failed. The parse height is saved only after a whole block.          *)
(*                                                                         *)
(* A deposit is its id; DepBlock gives the ontology block holding its      *)
(* event. SaveDeposit is not in the repository: the model takes it to fail *)
(* for an id already saved (the deposit id is its key) and, a bounded      *)
(* number of times, for a new id (a database error); LoadChainInfo returns *)
(* the height SetChainParseHeight saved.                                   *)
(***************************************************************************)
EXTENDS Integers, FiniteSets

CONSTANTS
    InitHeight,    \* parse height in the chain table, and chain height, at first start
    MaxOnt,        \* ontology blocks up to MaxOnt are produced
    DepBlock,      \* DepBlock[d]: the ontology block with deposit d's event
    MaxRetries,    \* the retry counter limit of commitDeposit2Layer2 (100)
    MaxSendErrors, \* SendTransaction errors for a transaction layer2 did not take
    MaxLostAcks,   \* SendTransaction errors for a transaction layer2 did take
    MaxCrashes,    \* operator process crashes
    MaxRpcErrors,  \* RPC errors of parseOntologyChainBlock
    MaxSaveErrors  \* SaveDeposit errors for a deposit not yet saved

ASSUME MaxOntAssumption   == InitHeight \in Nat /\ MaxOnt \in Nat /\ InitHeight < MaxOnt
ASSUME DepBlockAssumption ==
    /\ DOMAIN DepBlock \subseteq Nat    \* deposit.ID is a uint64
    /\ DepBlock \in [DOMAIN DepBlock -> InitHeight + 1..MaxOnt]
ASSUME DepFaultsAssumption ==
    {MaxRetries, MaxSendErrors, MaxLostAcks, MaxCrashes, MaxRpcErrors,
     MaxSaveErrors} \subseteq Nat

Deps == DOMAIN DepBlock
NoDep == -1    \* no deposit: not a uint64
DepStates == {"none", "event", "commit", "failed"}

VARIABLES
    \* chains
    ontTip,     \* ontology chain height
    credits,    \* credits[d]: layer2 transfers accepted for deposit d
    \* operator database
    ontH,       \* parse height saved by SetChainParseHeight
    saved,      \* saved[d]: state of deposit d's row
    \* operator process
    up,
    height,     \* ontologyChainInfo.Height
    cur,        \* currentHeight read by the tick
    mon,        \* MonitorOntologyChain: "idle", "loop", "parse", "send"
    todo,       \* deposit events of the block being parsed, not yet handled
    monDep,     \* the deposit being sent on depositChain
    dl,         \* depositLoop: "idle", "send" (retry loop), "update"
    dlDep,      \* the deposit depositLoop is committing
    counter,    \* retry counter of commitDeposit2Layer2
    dlAcc,      \* layer2 already holds the transaction being retried
    \* what the operator logs
    saveFailed, \* deposits whose SaveDeposit returned an error ("save deposit tx error")
    \* bounds of the run
    sendErrs, lostAcks, crashes, rpcErrs, saveErrs

chainVars == <<ontTip, credits>>
dbVars    == <<ontH, saved, saveFailed>>
procVars  == <<up, height, cur, mon, todo, monDep, dl, dlDep, counter, dlAcc>>
faultVars == <<sendErrs, lostAcks, crashes, rpcErrs, saveErrs>>
vars      == <<chainVars, dbVars, procVars, faultVars>>

-----------------------------------------------------------------------------

\* The deposit events of ontology block h.
EventsOf(h) == {d \in Deps : DepBlock[d] = h}

\* An RPC call that fails uses one of the run's RPC errors.
RpcError(ok) ==
    /\ ~ok => rpcErrs < MaxRpcErrors
    /\ rpcErrs' = IF ok THEN rpcErrs ELSE rpcErrs + 1

Init ==
    /\ ontTip = InitHeight /\ credits = [d \in Deps |-> 0]
    /\ ontH = InitHeight /\ saved = [d \in Deps |-> "none"] /\ saveFailed = {}
    /\ up = TRUE /\ height = InitHeight /\ cur = InitHeight
    /\ mon = "idle" /\ todo = {} /\ monDep = NoDep
    /\ dl = "idle" /\ dlDep = NoDep /\ counter = 0 /\ dlAcc = FALSE
    /\ sendErrs = 0 /\ lostAcks = 0 /\ crashes = 0 /\ rpcErrs = 0 /\ saveErrs = 0

\* Start, ontology part: LoadChainInfo; a saved height of 0 is replaced by
\* the chain's current height when that can be read.
Start(rpcOk) ==
    /\ ~up
    /\ RpcError(rpcOk)
    /\ up' = TRUE
    /\ height' = IF ontH <= 0 /\ rpcOk THEN ontTip ELSE ontH
    /\ UNCHANGED <<chainVars, dbVars, cur, mon, todo, monDep, dl, dlDep, counter,
                   dlAcc, sendErrs, lostAcks, crashes, saveErrs>>

\* MonitorOntologyChain, one tick: the loop starts when the chain has new
\* blocks; otherwise the tick ends with continue.
MonTick ==
    /\ up /\ mon = "idle"
    /\ IF ontTip > height THEN cur' = ontTip /\ mon' = "loop" ELSE UNCHANGED <<cur, mon>>
    /\ UNCHANGED <<chainVars, dbVars, up, height, todo, monDep, dl, dlDep, counter,
                   dlAcc, faultVars>>

\* Mutant: the loop stops one block short of currentHeight.
MonNextShort(rpcOk) ==
    /\ up /\ mon = "loop"
    /\ IF cur - 1 > height
         THEN /\ RpcError(rpcOk)
              /\ IF rpcOk
                   THEN /\ height' = height + 1 /\ todo' = EventsOf(height + 1)
                        /\ mon' = "parse"
                   ELSE /\ mon' = "idle" /\ UNCHANGED <<height, todo>>
         ELSE /\ mon' = "idle" /\ UNCHANGED <<height, todo, rpcErrs>>
    /\ UNCHANGED <<chainVars, dbVars, up, cur, monDep, dl, dlDep, counter, dlAcc,
                   sendErrs, lostAcks, crashes, saveErrs>>

\* The loop test: while currentHeight > Height, Height++ and
\* parseOntologyChainBlock, whose GetBlockByHeight or
\* GetSmartContractEventByBlock error undoes the increment and breaks.
MonNext(rpcOk) ==
    /\ up /\ mon = "loop"
    /\ IF cur > height
         THEN /\ RpcError(rpcOk)
              /\ IF rpcOk
                   THEN /\ height' = height + 1 /\ todo' = EventsOf(height + 1)
                        /\ mon' = "parse"
                   ELSE /\ mon' = "idle" /\ UNCHANGED <<height, todo>>
         ELSE /\ mon' = "idle" /\ UNCHANGED <<height, todo, rpcErrs>>
    /\ UNCHANGED <<chainVars, dbVars, up, cur, monDep, dl, dlDep, counter, dlAcc,
                   sendErrs, lostAcks, crashes, saveErrs>>

\* Mutant: the SaveDeposit error is ignored.
MonSaveIgnoreDup(saveOk) ==
    /\ up /\ mon = "parse"
    /\ \E d \in todo :
           /\ saved' = [saved EXCEPT ![d] = "event"]
           /\ mon' = "send" /\ monDep' = d
    /\ UNCHANGED <<chainVars, ontH, saveFailed, up, height, cur, todo, dl, dlDep,
                   counter, dlAcc, faultVars>>

\* The next deposit event of the block, in the block's order (any order of
\* the events not yet handled): SaveDeposit, which refuses an id already
\* saved and may fail with a database error on a new one; on an error the
\* event is logged and skipped (continue), otherwise it is sent on
\* depositChain.
MonSave(saveOk) ==
    /\ up /\ mon = "parse"
    /\ ~saveOk => saveErrs < MaxSaveErrors
    /\ \E d \in todo :
           IF saved[d] = "none" /\ saveOk
             THEN /\ saved' = [saved EXCEPT ![d] = "event"]
                  /\ mon' = "send" /\ monDep' = d
                  /\ UNCHANGED <<todo, saveFailed, saveErrs>>
             ELSE /\ todo' = todo \ {d}
                  /\ IF saved[d] = "none"
                       THEN saveFailed' = saveFailed \cup {d} /\ saveErrs' = saveErrs + 1
                       ELSE UNCHANGED <<saveFailed, saveErrs>>
                  /\ UNCHANGED <<saved, mon, monDep>>
    /\ UNCHANGED <<chainVars, ontH, up, height, cur, dl, dlDep, counter, dlAcc,
                   sendErrs, lostAcks, crashes, rpcErrs>>

\* depositChain is unbuffered: the send completes when depositLoop receives.
Handoff ==
    /\ up /\ mon = "send" /\ dl = "idle"
    /\ dl' = "send" /\ dlDep' = monDep
    /\ mon' = "parse" /\ todo' = todo \ {monDep} /\ monDep' = NoDep
    /\ UNCHANGED <<chainVars, dbVars, up, height, cur, counter, dlAcc, faultVars>>

\* Every event of the block is handled: SetChainParseHeight.
MonBlockDone ==
    /\ up /\ mon = "parse" /\ todo = {}
    /\ ontH' = height /\ mon' = "loop"
    /\ UNCHANGED <<chainVars, saved, saveFailed, up, height, cur, todo, monDep, dl, dlDep,
                   counter, dlAcc, faultVars>>

\* After a SendTransaction error: break at counter == MaxRetries, else
\* counter++ and try again.
AfterSendError ==
    IF counter = MaxRetries
      THEN dl' = "update" /\ UNCHANGED counter
      ELSE counter' = counter + 1 /\ UNCHANGED dl

\* Mutant: the counter == MaxRetries test is missing.
DlSendNoCap ==
    /\ up /\ dl = "send"
    /\ \/ /\ ~dlAcc
          /\ credits' = [credits EXCEPT ![dlDep] = @ + 1]
          /\ dl' = "update"
          /\ UNCHANGED <<counter, dlAcc, sendErrs, lostAcks>>
       \/ /\ ~dlAcc /\ sendErrs < MaxSendErrors
          /\ sendErrs' = sendErrs + 1 /\ counter' = counter + 1
          /\ UNCHANGED <<credits, dl, dlAcc, lostAcks>>
    /\ UNCHANGED <<ontTip, dbVars, up, height, cur, mon, todo, monDep, dlDep,
                   crashes, rpcErrs, saveErrs>>

\* One attempt of the SendTransaction loop of commitDeposit2Layer2. Layer2
\* takes the transaction and answers its hash; or it answers an error,
\* having taken it or not; a transaction it already holds is refused.
DlSend ==
    /\ up /\ dl = "send"
    /\ \/ /\ ~dlAcc
          /\ credits' = [credits EXCEPT ![dlDep] = @ + 1]
          /\ dl' = "update"
          /\ UNCHANGED <<counter, dlAcc, sendErrs, lostAcks>>
       \/ /\ ~dlAcc /\ sendErrs < MaxSendErrors
          /\ sendErrs' = sendErrs + 1 /\ AfterSendError
          /\ UNCHANGED <<credits, dlAcc, lostAcks>>
       \/ /\ ~dlAcc /\ lostAcks < MaxLostAcks
          /\ lostAcks' = lostAcks + 1 /\ dlAcc' = TRUE
          /\ credits' = [credits EXCEPT ![dlDep] = @ + 1]
          /\ AfterSendError
          /\ UNCHANGED sendErrs
       \/ /\ dlAcc
          /\ AfterSendError
          /\ UNCHANGED <<credits, dlAcc, sendErrs, lostAcks>>
    /\ UNCHANGED <<ontTip, dbVars, up, height, cur, mon, todo, monDep, dlDep,
                   crashes, rpcErrs, saveErrs>>

\* UpdateDepositByID: DEPOSIT_FAILED when the counter reached MaxRetries,
\* DEPOSIT_COMMIT otherwise; depositLoop waits for the next deposit.
DlUpdate ==
    /\ up /\ dl = "update"
    /\ saved' = [saved EXCEPT ![dlDep] = IF counter = MaxRetries THEN "failed" ELSE "commit"]
    /\ dl' = "idle" /\ dlDep' = NoDep /\ counter' = 0 /\ dlAcc' = FALSE
    /\ UNCHANGED <<chainVars, ontH, saveFailed, up, height, cur, mon, todo, monDep,
                   faultVars>>

\* The ontology chain produces a block.
OntGrow ==
    /\ ontTip < MaxOnt
    /\ ontTip' = ontTip + 1
    /\ UNCHANGED <<credits, dbVars, procVars, faultVars>>

\* The operator process dies: its goroutines and memory are lost.
Crash ==
    /\ up /\ crashes < MaxCrashes
    /\ up' = FALSE /\ crashes' = crashes + 1
    /\ height' = 0 /\ cur' = 0 /\ mon' = "idle" /\ todo' = {} /\ monDep' = NoDep
    /\ dl' = "idle" /\ dlDep' = NoDep /\ counter' = 0 /\ dlAcc' = FALSE
    /\ UNCHANGED <<chainVars, dbVars, sendErrs, lostAcks, rpcErrs, saveErrs>>

Next ==
    \/ \E ok \in BOOLEAN : Start(ok) \/ MonNext(ok)
    \/ \E ok \in BOOLEAN : MonSave(ok)
    \/ MonTick \/ Handoff \/ MonBlockDone
    \/ DlSend \/ DlUpdate
    \/ OntGrow \/ Crash

Spec == Init /\ [][Next]_vars

\* Every goroutine keeps running its loop and a stopped operator is started
\* again; SendTransaction errors, RPC errors and crashes are bounded, so
\* the calls that succeed are eventually taken. The ontology chain is not
\* forced to grow.
Fairness ==
    /\ WF_vars(Start(TRUE)) /\ WF_vars(MonTick) /\ WF_vars(MonNext(TRUE))
    /\ WF_vars(MonSave(TRUE)) /\ WF_vars(Handoff) /\ WF_vars(MonBlockDone)
    /\ WF_vars(DlSend) /\ WF_vars(DlUpdate)

FairSpec == Spec /\ Fairness

-----------------------------------------------------------------------------
(* Properties                                                              *)

TypeOK ==
    /\ ontTip \in 0..MaxOnt /\ credits \in [Deps -> Nat]
    /\ ontH \in 0..MaxOnt /\ saved \in [Deps -> DepStates] /\ saveFailed \subseteq Deps
    /\ up \in BOOLEAN /\ height \in 0..MaxOnt /\ cur \in 0..MaxOnt
    /\ mon \in {"idle", "loop", "parse", "send"} /\ todo \subseteq Deps
    /\ monDep \in Deps \cup {NoDep}
    /\ dl \in {"idle", "send", "update"} /\ dlDep \in Deps \cup {NoDep}
    /\ counter \in 0..MaxRetries /\ dlAcc \in BOOLEAN

\* No deposit is credited on layer2 twice, across crashes and re-parsed
\* blocks: SaveDeposit refuses a deposit already saved, and
\* commitDeposit2Layer2 retries the one transaction it built.
NoDoubleCredit == \A d \in Deps : credits[d] <= 1

\* A deposit recorded DEPOSIT_FAILED was not credited on layer2, so it may
\* be refunded or retried without paying twice.
FailedNotCredited == \A d \in Deps : saved[d] = "failed" => credits[d] = 0

\* Once UpdateDepositByID has recorded a deposit's outcome (DEPOSIT_COMMIT
\* or DEPOSIT_FAILED), no later step rewrites its row, across crashes and
\* re-parsed blocks: SaveDeposit refuses the re-parsed event, so the
\* deposit is never handed to depositLoop again.
OutcomeFinal ==
    [][\A d \in Deps : saved[d] \in {"commit", "failed"} => saved'[d] = saved[d]]_vars

\* Every deposit whose block the chain has produced is eventually credited
\* on layer2 or recorded as failed, unless SaveDeposit failed to store it
\* (the error is logged and the deposit skipped for good): across RPC
\* errors, send errors, lost acknowledgements and the retry limit, the
\* monitor parses every block and depositLoop relays every saved deposit.
DepositsRelayed ==
    \A d \in Deps :
        (ontTip >= DepBlock[d]) ~> (credits[d] > 0 \/ saved[d] = "failed" \/ d \in saveFailed)

=============================================================================
