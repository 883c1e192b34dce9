------------------------------- MODULE VMHost -------------------------------
(***************************************************************************)
(* A vmHost executing transactions: a contract runs on a Wasmer instance,  *)
(* calls other contracts through the EEI (on their own context or on the   *)
(* same one, synchronously or through an asynchronous call whose callback  *)
(* runs in the same shard), sends value, tokens and gas, calls a built-in  *)
(* function of the Node by name, and returns or fails.  Calls nest: frames *)
(* is the Go call stack of the host, one frame for every execution that    *)
(* has begun and not ended.                                                *)
(***************************************************************************)
EXTENDS VMContexts

CONSTANTS
    TxGas,            \* gas amounts of transactions
    GasLimits,        \* gas limits that contracts give to the EEI
    CallValues,       \* values of calls and transfers
    StorageValues,    \* values that contracts store
    CallTypes,        \* call types of transactions
    EEI,              \* the EEI functions that contracts use
    ApiCost,          \* gas of an EEI call
    EsdtCost,         \* gas of the ESDTTransfer built-in function
    AsyncCallStep, AsyncCallbackGasLock,
    MaxBigInts,       \* bound: big integers of one contract
    MaxTransactions   \* bound: transactions executed

ASSUME HostAssumption ==
    /\ TxGas \subseteq Nat /\ GasLimits \subseteq Nat
    /\ CallValues \subseteq Nat
    /\ NoValue \notin StorageValues
    /\ CallTypes \subseteq {"DirectCall", "AsynchronousCall",
                            "AsynchronousCallBack"}
    /\ ApiCost \in Nat \ {0} /\ EsdtCost \in Nat \ {0}
    /\ AsyncCallStep \in Nat \ {0} /\ AsyncCallbackGasLock \in Nat
    /\ MaxBigInts \in Nat /\ MaxTransactions \in Nat

VARIABLES
    host,     \* the vmHost with its contexts
    frames,   \* executions in progress; the last one runs
    exit,     \* "idle", "running", or how the last frame's code ended
    result,   \* what the last transaction returned
    ledger,   \* history: the gas that was really burnt and forwarded
    txs       \* transactions begun

vars == <<host, frames, exit, result, ledger, txs>>

-----------------------------------------------------------------------------
(* The ledger records gas where it is consumed, by whom, independently of   *)
(* the metering context.                                                    *)

EmptyLedger ==
    [burnt |-> [a \in Accounts |-> 0],  \* consumed by each account's code
     forwarded |-> 0,     \* charged to a contract and sent to another shard
     unfunded |-> 0,      \* sent to another shard, charged to nobody
     unchecked |-> FALSE] \* a failed gas check was taken for a success

Burn(l, a, gas) == [l EXCEPT !.burnt[a] = @ + gas]

TotalBurnt(l) == SumFunction(l.burnt)

-----------------------------------------------------------------------------
(* Beginning an execution.                                                  *)

Input(caller, recipient, value, gas, callType, init) ==
    [caller |-> caller, recipient |-> recipient, value |-> value, gas |-> gas,
     callType |-> callType, init |-> init]

Frame(kind, input, h, l) ==
    [kind |-> kind, input |-> input, ledger |-> l,
     before |-> [output |-> h.output, bigInt |-> h.bigInt, world |-> h.world,
                 storageAddress |-> h.storageAddress, runtime |-> h.runtime,
                 gasUsedByAccounts |-> h.metering.gasUsedByAccounts,
                 points |-> GetPointsUsed(h)]]

DeductInitialGas(h, input) ==
    [h EXCEPT !.metering.initialCost = CodeCost[input.recipient],
              !.metering.gasForExecution = input.gas - CodeCost[input.recipient]]

PrepareInstance(h, input) ==
    IF input.recipient \notin Contracts
    THEN [host |-> h, exit |-> "ErrContractNotFound"]
    ELSE IF CodeCost[input.recipient] > input.gas
    THEN [host |-> h, exit |-> "ErrNotEnoughGas"]
    ELSE LET h1 == StartWasmerInstance(DeductInitialGas(h, input))
         IN  [host |-> h1,
              exit |-> IF h1.instance = 0 THEN "ErrMaxInstancesReached"
                       ELSE IF /\ input.callType = "AsynchronousCallBack"
                               /\ input.recipient \notin WithCallback
                       THEN "Ok" ELSE "running"]

(* Mutant: a nested call costs its caller nothing. *)
executeUncharged(h, input) ==
    IF input.init THEN [host |-> h, exit |-> "ErrInitFuncCalledInRun"]
                  ELSE PrepareInstance(h, input)

execute(h, input) ==
    IF input.init THEN [host |-> h, exit |-> "ErrInitFuncCalledInRun"]
                  ELSE PrepareInstance(UseGas(h, input.gas), input)

TransferAndExecute(h, input) ==
    IF CanTransferValue(h, input.recipient, input.caller, input.value, FALSE)
    THEN execute(TransferValueOnly(h, input.recipient, input.caller,
                                   input.value), input)
    ELSE [host |-> h, exit |-> "ErrTransferInsufficientFunds"]

(* ExecuteOnDestContext pushes the blockchain context first; a built-in     *)
(* function may be called before the others are pushed.                     *)
PushNoBuiltin(h, input) ==
    LET h1 == OutputPushState(BigIntPushState(h))
        h2 == MeteringPushState(RuntimePushState(h1))
        h3 == StoragePushState(h2)
    IN  [h3 EXCEPT !.bigInt = 0, !.output = CensorVMOutput(@),
                   !.runtime = NewRuntime(input),
                   !.metering = NewMetering(input.gas),
                   !.storageAddress = input.recipient]

PushDestContexts(h, input) == PushNoBuiltin(BlockchainPushState(h), input)

PushSameContexts(h, input) ==
    LET h1 == OutputPushState(BigIntPushState(BlockchainPushState(h)))
        h2 == MeteringPushState(RuntimePushState(h1))
    IN  [h2 EXCEPT !.runtime = NewRuntime(input),
                   !.metering = NewMetering(input.gas)]

(* The step in which the host goes from the caller h, with ledger l, into   *)
(* a nested execution.                                                      *)
EnterFrom(callers, h, l, kind, input, started) ==
    /\ host' = started.host
    /\ exit' = started.exit
    /\ frames' = Append(callers, Frame(kind, input, h, l))
    /\ ledger' = IF started.exit \in {"running", "Ok"}
                 THEN Burn(l, input.recipient, CodeCost[input.recipient])
                 ELSE l

Enter(h, l, kind, input, pushed) ==
    EnterFrom(frames, h, l, kind, input, TransferAndExecute(pushed, input))

EnterDest(h, l, kind, input) == Enter(h, l, kind, input,
                                      PushDestContexts(h, input))

(* WithFaultAndHost: use up the gas and stop the contract. *)
FailExecution(h) ==
    [UseGas(h, GasLeft(h)) EXCEPT !.output.returnCode = "ExecutionFailed"]

Fault(h, l) ==
    /\ host' = FailExecution(h)
    /\ exit' = "ErrExecutionFailed"
    /\ ledger' = l
    /\ UNCHANGED frames

Continue(h, l) ==
    /\ host' = h
    /\ ledger' = l
    /\ exit' = "running"
    /\ UNCHANGED frames

-----------------------------------------------------------------------------
(* Transactions.                                                            *)

EmptyHost ==
    [output |-> newVMOutput, outputStack |-> << >>,
     metering |-> NewMetering(0), meteringStack |-> << >>,
     runtime |-> << >>, runtimeStack |-> << >>,
     instance |-> 0, instanceStack |-> << >>,
     points |-> [i \in 1 .. MaxInstances |-> 0],
     bigInt |-> 0, bigIntStack |-> << >>,
     storageAddress |-> NoValue, storageStack |-> << >>,
     world |-> 0, snapshots |-> << >>]

(* InitState clears every context but the blockchain's stack and the stack  *)
(* of instances.  The Node commits or reverts its accounts in between.      *)
InitState(h) ==
    [EmptyHost EXCEPT !.snapshots = h.snapshots,
                      !.instanceStack = h.instanceStack]

doRunSmartContractCall(input) ==
    LET h == [InitState(host) EXCEPT
                !.runtime = NewRuntime(input),
                !.metering = NewMetering(input.gas),
                !.output = AddBalance(@, input.recipient, input.value),
                !.storageAddress = input.recipient]
        r == PrepareInstance(h, input)
        started == r.exit \in {"running", "Ok"}
    IN  /\ exit = "idle"
        /\ txs < MaxTransactions
        /\ txs' = txs + 1
        /\ host' = r.host
        /\ exit' = IF started /\ input.init THEN "ErrInitFuncCalledInRun"
                                            ELSE r.exit
        /\ frames' = << Frame("top", input, h, EmptyLedger) >>
        /\ ledger' = IF started THEN Burn(EmptyLedger, input.recipient,
                                          CodeCost[input.recipient])
                                ELSE EmptyLedger
        /\ UNCHANGED result

(* A contract called asynchronously from another shard calls back, with all *)
(* the gas it has left and the value it was called with.                    *)
SendsCallback(h) == h.runtime.callType = "AsynchronousCall"

sendCallbackToCurrentCaller(h) ==
    UseGas(Transfer(h, h.runtime.caller, h.runtime.scAddress, GasLeft(h), 0,
                    h.runtime.callValue), GasLeft(h))

(* The error with which callSCMethod ends, "Ok" when there is none. *)
CallError(h) ==
    IF exit # "Ok" THEN exit
    ELSE IF GetPointsUsed(h) > h.metering.gasForExecution
    THEN "ErrNotEnoughGas"
    ELSE IF /\ SendsCallback(h)
            /\ ~CanTransferValue(h, h.runtime.caller, h.runtime.scAddress,
                                 h.runtime.callValue, FALSE)
    THEN "ErrTransferInsufficientFunds"
    ELSE "Ok"

EndTransaction(o, l) ==
    /\ result' = [err |-> o.err, gasRemaining |-> o.gasRemaining,
                  accounts |-> IF o.err = "Ok" THEN o.host.output.accounts
                                               ELSE << >>,
                  input |-> frames[1].input]
    /\ host' = [o.host EXCEPT !.instance = 0]
    /\ ledger' = l
    /\ exit' = "idle"
    /\ frames' = << >>
    /\ UNCHANGED txs

callSCMethod(err) ==
    IF err # "Ok"
    THEN EndTransaction(CreateVMOutputInCaseOfError(host, err), ledger)
    ELSE IF SendsCallback(host)
    THEN EndTransaction(GetVMOutput(sendCallbackToCurrentCaller(host)),
                        [ledger EXCEPT !.forwarded = @ + GasLeft(host)])
    ELSE EndTransaction(GetVMOutput(host), ledger)

FinishTransaction ==
    /\ Len(frames) = 1
    /\ exit \notin {"idle", "running"}
    /\ callSCMethod(CallError(host))

-----------------------------------------------------------------------------
(* What the running contract does.  Wasmer lets it go on as long as its     *)
(* points do not exceed the limit; an EEI call may take it beyond.          *)

Running ==
    /\ exit = "running"
    /\ GetPointsUsed(host) <= host.metering.gasForExecution

self == host.runtime.scAddress

Opcode ==
    /\ Running
    /\ GasLeft(host) > 0
    /\ Continue(UseGas(host, 1), Burn(ledger, self, 1))
    /\ UNCHANGED <<result, txs>>

OutOfGas ==
    /\ exit = "running"
    /\ GasLeft(host) = 0
    /\ exit' = "ErrNotEnoughGas"
    /\ UNCHANGED <<host, frames, result, ledger, txs>>

Return ==
    /\ exit = "running"
    /\ exit' = "Ok"
    /\ UNCHANGED <<host, frames, result, ledger, txs>>

SignalError ==
    /\ Running
    /\ host' = [UseGas(host, ApiCost) EXCEPT !.output.returnCode = "UserError"]
    /\ ledger' = Burn(ledger, self, ApiCost)
    /\ exit' = "ErrSignalError"
    /\ UNCHANGED <<frames, result, txs>>

StorageStore(value) ==
    /\ Running
    /\ Continue(SetStorage(UseGas(host, ApiCost), value),
                Burn(ledger, self, ApiCost))
    /\ UNCHANGED <<result, txs>>

BigIntNew ==
    /\ Running
    /\ host.bigInt < MaxBigInts
    /\ Continue([UseGas(host, ApiCost) EXCEPT !.bigInt = @ + 1],
                Burn(ledger, self, ApiCost))
    /\ UNCHANGED <<result, txs>>

ExecuteOnDestContext(dest, gasLimit, value, init) ==
    LET h == UseGas(host, ApiCost)
        l == Burn(ledger, self, ApiCost)
    IN  /\ Running
        /\ IF AreInSameShard(self, dest)
           THEN EnterDest(h, l, "dest",
                          Input(self, dest, value, BoundGasLimit(h, gasLimit),
                                "DirectCall", init))
           ELSE Fault(h, l)
        /\ UNCHANGED <<result, txs>>

ExecuteOnSameContext(dest, gasLimit, value) ==
    LET h == UseGas(host, ApiCost)
        l == Burn(ledger, self, ApiCost)
        input == Input(self, dest, value, BoundGasLimit(h, gasLimit),
                       "DirectCall", FALSE)
    IN  /\ Running
        /\ IF AreInSameShard(self, dest)
           THEN Enter(h, l, "same", input, PushSameContexts(h, input))
           ELSE Fault(h, l)
        /\ UNCHANGED <<result, txs>>

(* The gas limit of a transfer to another shard is not charged to the       *)
(* contract, and not bounded by the gas it has left.                        *)
TransferValueExecute(dest, gasLimit, value, function) ==
    LET h == UseGas(host, 2 * ApiCost)
        l == Burn(ledger, self, 2 * ApiCost)
    IN  /\ Running
        /\ IF function /\ AreInSameShard(self, dest) /\ IsSmartContract(dest)
           THEN EnterDest(h, l, "transfer",
                          Input(self, dest, value, BoundGasLimit(h, gasLimit),
                                "DirectCall", FALSE))
           ELSE IF CanTransferValue(h, dest, self, value, gasLimit > 0)
           THEN Continue(Transfer(h, dest, self, gasLimit, 0, value),
                         [l EXCEPT !.unfunded = @ + gasLimit])
           ELSE Fault(h, l)
        /\ UNCHANGED <<result, txs>>

(* Gas that goes with a token transfer to another shard is charged. *)
ForwardGas(h, dest, gas) == AddOutputTransfer(UseGas(h, gas), dest, gas, 0)

(* The built-in function, given all the gas left, moves the token and       *)
(* consumes EsdtCost.                                                       *)
ExecuteESDTTransfer(h) ==
    IF GasLeft(h) < EsdtCost THEN [host |-> h, err |-> "ErrNotEnoughGas"]
    ELSE [host |-> [UseGas(h, EsdtCost) EXCEPT !.world = @ + 1], err |-> "Ok"]

(* TransferESDT: the rest of the gas limit goes with a call to another      *)
(* shard, or pays for the execution in this one.                            *)
TransferESDTExecute(dest, gasLimit, function) ==
    LET h0 == UseGas(host, ApiCost)
        l0 == Burn(ledger, self, ApiCost)
        provided == BoundGasLimit(h0, gasLimit)
        moved == ExecuteESDTTransfer(h0)
        h == moved.host
        l == Burn(l0, self, EsdtCost)
        isExecution == function /\ IsSmartContract(dest)
        remaining == provided - EsdtCost
    IN  /\ Running
        /\ IF moved.err # "Ok" THEN Fault(h0, l0)
           ELSE IF isExecution /\ (EsdtCost > provided \/ remaining > GasLeft(h))
           THEN Fault(h, l)
           ELSE IF ~isExecution
           THEN Continue(AddOutputTransfer(h, dest, 0, 0), l)
           ELSE IF AreInSameShard(self, dest)
           THEN EnterDest(AddOutputTransfer(h, dest, 0, 0), l, "esdt",
                          Input(self, dest, 0, remaining, "DirectCall", FALSE))
           ELSE Continue(ForwardGas(h, dest, remaining),
                         [l EXCEPT !.forwarded = @ + remaining])
        /\ UNCHANGED <<result, txs>>

-----------------------------------------------------------------------------
(* Calls of the ESDTTransfer built-in function by its name.                 *)

(* The Node's function moves the token, if its gas suffices.  A transfer to *)
(* a contract with a function to call, or to another shard, passes the rest *)
(* of the gas on in an output transfer.                                     *)
ProcessBuiltInFunction(h, input, andCall) ==
    LET rest == input.gas - EsdtCost
        passed == \/ input.recipient \in Remote
                  \/ andCall /\ input.recipient \in Contracts
        gasLocked == IF input.callType = "AsynchronousCall"
                     THEN h.runtime.gasLocked ELSE 0
    IN  IF input.gas < EsdtCost THEN [err |-> "ErrNotEnoughGas"]
        ELSE IF passed
        THEN [err |-> "Ok", output |-> WithOutputTransfer(
                newVMOutput, input.recipient, rest, gasLocked)]
        ELSE [err |-> "Ok", output |-> [newVMOutput EXCEPT !.gasRemaining = rest]]

(* The call of the recipient that the output of the function o asks for, in *)
(* this shard; << >> when there is none.                                    *)
isSCExecutionAfterBuiltInFunc(input, o) ==
    LET r == input.recipient
    IN  IF /\ AreInSameShard(input.caller, r)
           /\ IsSmartContract(r)
           /\ r \in DOMAIN o.accounts
           /\ Len(o.accounts[r].outputTransfers) = 1
        THEN << Input(input.caller, r, 0,
                      o.accounts[r].outputTransfers[1].gasLimit,
                      input.callType, FALSE) >>
        ELSE << >>

(* Mutant: the gas kept for the contract is used too. *)
TrackAllGasUsed(h, input, o, after) == UseGas(h, SubUint64(input.gas, o.gasRemaining))

TrackGasUsedByBuiltinFunction(h, input, o, after) ==
    LET used == SubUint64(input.gas, o.gasRemaining)
    IN  UseGas(h, IF after = << >> THEN used ELSE SubUint64(used, after[1].gas))

(* A transfer in this shard is recorded among the output transfers. *)
addESDTTransferToVMOutputSCIntraShardCall(input, o) ==
    IF AreInSameShard(input.recipient, input.caller)
    THEN WithOutputTransfer(o, input.recipient, 0, 0) ELSE o

callBuiltinFunction(h, input, andCall) ==
    LET p == ProcessBuiltInFunction(h, input, andCall)
        after == isSCExecutionAfterBuiltInFunc(input, p.output)
        kept == IF after = << >> THEN p.output
                ELSE [p.output EXCEPT !.accounts =
                        [a \in DOMAIN @ |->
                            [@[a] EXCEPT !.outputTransfers = << >>]]]
    IN  IF p.err # "Ok"
        THEN [err |-> p.err, after |-> << >>, host |-> UseGas(h, input.gas)]
        ELSE [err |-> "Ok", after |-> after,
              host |-> [TrackGasUsedByBuiltinFunction(h, input, kept, after)
                           EXCEPT !.world = @ + 1],
              output |-> addESDTTransferToVMOutputSCIntraShardCall(input, kept)]

handleBuiltinFunctionCall(h, input, andCall) ==
    LET b == callBuiltinFunction(h, input, andCall)
    IN  IF b.err = "Ok" THEN [b EXCEPT !.host = AddToActiveState(@, b.output)]
                        ELSE b

(* ExecuteOnDestContext gives up when the function fails. *)
FailedBuiltin(b) == UpdateGasStateOnFailure(BlockchainPopSetActiveState(b.host))

(* The contract to call after the function, from the caller h whose tokens  *)
(* are those before it.                                                     *)
EnterAfterBuiltin(callers, h, b, l, kind) ==
    EnterFrom(callers, [b.host EXCEPT !.world = h.world], l, kind, b.after[1],
              TransferAndExecute(PushNoBuiltin(b.host, b.after[1]), b.after[1]))

(* executeOnDestContext with the name of the function. *)
ExecuteBuiltinFunction(dest, gasLimit, andCall) ==
    LET h == UseGas(host, ApiCost)
        l == Burn(ledger, self, ApiCost)
        input == Input(self, dest, 0, BoundGasLimit(h, gasLimit), "DirectCall",
                       FALSE)
        b == handleBuiltinFunctionCall(BlockchainPushState(h), input, andCall)
        paid == Burn(l, self, IF b.err = "Ok" THEN EsdtCost ELSE input.gas)
    IN  /\ Running
        /\ IF ~AreInSameShard(self, dest) THEN Fault(h, l)
           ELSE IF b.after # << >>
           THEN EnterAfterBuiltin(frames, h, b, paid, "dest")
           ELSE IF b.err = "Ok" THEN Continue(BlockchainPopDiscard(b.host), paid)
           ELSE Fault(FailedBuiltin(b), paid)
        /\ UNCHANGED <<result, txs>>

-----------------------------------------------------------------------------
(* Asynchronous calls.                                                      *)

ComputeGasLockedForAsync ==
    IF self \in WithCallback
    THEN CodeCost[self] + AsyncCallStep + AsyncCallbackGasLock
    ELSE 0

(* ExecuteAsyncCall: the host with the gas for the step used and the gas    *)
(* for the callback locked, or the error.                                   *)
ExecuteAsyncCall(h) ==
    LET step == UseGasBounded(h, AsyncCallStep)
        lock == ComputeGasLockedForAsync
        locked == UseGasBounded(step.host, lock)
    IN  IF step.err # "Ok" \/ self \notin WithCallback THEN step
        ELSE IF locked.err # "Ok" THEN locked
        ELSE [locked EXCEPT !.host.runtime.gasLocked = lock]

(* The execution mode of an asynchronous call.  builtIn: the call names the *)
(* built-in function; andCall: with a function to call after the transfer.  *)
determineAsyncCallExecutionMode(dest, builtIn, andCall) ==
    IF builtIn /\ AreInSameShard(self, dest)
    THEN IF /\ ~andCall
            /\ host.runtime.callType = "AsynchronousCall"
            /\ host.runtime.caller = dest
         THEN "ESDTTransferOnCallBack" ELSE "AsyncBuiltinFuncIntraShard"
    ELSE IF builtIn THEN "AsyncBuiltinFuncCrossShard"
    ELSE IF dest \in Contracts THEN "SyncCall" ELSE "AsyncUnknown"

createDestinationContractCallInput(h, dest, value) ==
    Input(self, dest, value, GasLeft(h), "AsynchronousCall", FALSE)

executeSyncDestinationCall(h, l, dest, value) ==
    EnterDest(h, l, "asyncDest", createDestinationContractCallInput(h, dest, value))

(* To another shard the call is sent with all the gas left. *)
sendAsyncCallToDestination(h, l, dest, value) ==
    IF CanTransferValue(h, dest, self, value, GasLeft(h) > 0)
    THEN /\ host' = UseGas(Transfer(h, dest, self, GasLeft(h),
                                    h.runtime.gasLocked, value), GasLeft(h))
         /\ ledger' = [l EXCEPT !.forwarded =
                          @ + GasLeft(h) + h.runtime.gasLocked]
         /\ exit' = "Ok"
         /\ UNCHANGED frames
    ELSE Fault(h, l)

(* The contract ends with the host h. *)
EndCall(h, l, err) ==
    /\ host' = h
    /\ ledger' = l
    /\ exit' = err
    /\ UNCHANGED frames

(* The call of the callback.  The gas that the destination left and the     *)
(* locked gas pay for it, if they exceed the cost of the step.              *)
createCallbackContractCallInput(h, initiator, gasLimit) ==
    Input(initiator, h.runtime.scAddress, 0, gasLimit - AsyncCallStep,
          "AsynchronousCallBack", FALSE)

(* The end of the call is answered by the callback of the caller, on the    *)
(* host h.  A token that the destination returns goes with it, through the  *)
(* built-in function.                                                       *)
executeSyncCallbackCall(callers, h, l, initiator, gasLimit, returnsToken) ==
    LET caller == h.runtime.scAddress
        input == createCallbackContractCallInput(h, initiator, gasLimit)
        h1 == RestoreGas(h, h.runtime.gasLocked)
        b == handleBuiltinFunctionCall(BlockchainPushState(h1), input, TRUE)
    IN  IF gasLimit <= AsyncCallStep
        THEN /\ host' = UpdateGasStateOnFailure(h)
             /\ ledger' = Burn(l, caller, h.runtime.gasLocked)
             /\ exit' = "Ok"
             /\ frames' = callers
        ELSE IF ~returnsToken
        THEN EnterFrom(callers, h1, l, "callback", input,
                       TransferAndExecute(PushDestContexts(h1, input), input))
        ELSE IF b.err # "Ok"
        THEN /\ host' = FailedBuiltin(b)
             /\ ledger' = Burn(l, caller, input.gas)
             /\ exit' = "Ok"
             /\ frames' = callers
        ELSE EnterAfterBuiltin(callers, h1, b, Burn(l, caller, EsdtCost),
                               "callback")

(* handleAsyncCallBreakpoint, with the host h of the stopped contract: a    *)
(* destination of this shard is executed at once, a built-in function also  *)
(* for another shard.                                                       *)
handleAsyncCallBreakpoint(h, l, mode, dest, value, andCall) ==
    LET input == createDestinationContractCallInput(h, dest, value)
        b == handleBuiltinFunctionCall(BlockchainPushState(h), input, andCall)
        paid == Burn(l, self, IF b.err = "Ok" THEN EsdtCost ELSE input.gas)
    IN  CASE mode = "AsyncUnknown" ->
               sendAsyncCallToDestination(h, l, dest, value)
          [] mode = "SyncCall" -> executeSyncDestinationCall(h, l, dest, value)
          [] mode = "ESDTTransferOnCallBack" ->
               EndCall([RestoreGas(h, h.runtime.gasLocked) EXCEPT
                           !.output.returnsToken = TRUE], l, "Ok")
          [] mode = "AsyncBuiltinFuncCrossShard" ->
               IF b.err = "Ok"
               THEN EndCall(BlockchainPopDiscard(b.host),
                            [paid EXCEPT !.forwarded = @ + input.gas - EsdtCost
                                                       + h.runtime.gasLocked],
                            "Ok")
               ELSE EndCall(FailedBuiltin(b), paid, b.err)
          [] mode = "AsyncBuiltinFuncIntraShard" ->
               IF b.after # << >>
               THEN EnterAfterBuiltin(frames, h, b, paid, "asyncDest")
               ELSE IF b.err = "Ok"
               THEN executeSyncCallbackCall(frames, BlockchainPopDiscard(b.host),
                                            paid, dest, b.output.gasRemaining
                                                + h.runtime.gasLocked, FALSE)
               ELSE executeSyncCallbackCall(frames, FailedBuiltin(b), paid,
                                            dest, h.runtime.gasLocked, FALSE)

(* asyncCall() stops the contract with a breakpoint that the host handles   *)
(* at once.                                                                 *)
AsyncCall(dest, value, builtIn, andCall) ==
    LET asked == ExecuteAsyncCall(UseGas(host, AsyncCallStep))
        l == Burn(ledger, self, 2 * AsyncCallStep)
        mode == determineAsyncCallExecutionMode(dest, builtIn, andCall)
    IN  /\ Running
        /\ IF asked.err # "Ok" THEN EndCall(asked.host, ledger, asked.err)
           ELSE handleAsyncCallBreakpoint(asked.host, l, mode, dest, value,
                                          andCall)
        /\ UNCHANGED <<result, txs>>

-----------------------------------------------------------------------------
(* Ending a nested execution.                                               *)

top == frames[Len(frames)]

Ended(kind) ==
    /\ Len(frames) > 1
    /\ exit # "running"
    /\ top.kind = kind

(* The VMOutput of the execution that ends. *)
ChildOutput ==
    IF exit = "Ok" THEN GetVMOutput(host)
                   ELSE CreateVMOutputInCaseOfError(host, exit)

PopDestContexts(h) == StoragePopSetActiveState(BigIntPopSetActiveState(h))

(* Mutant: a success leaves its snapshot on the stack. *)
finishExecuteOnDestContextLeak(o) ==
    IF o.err = "Ok"
    THEN RestoreGas(RuntimePopSetActiveState(OutputPopMergeActiveState(
             MeteringPopMergeActiveState(PopDestContexts(o.host)))),
             o.gasRemaining)
    ELSE BlockchainPopSetActiveState(RestoreGas(RuntimePopSetActiveState(
             OutputPopSetActiveState(MeteringPopSetActiveState(
                 PopDestContexts(o.host)))), o.gasRemaining))

(* Mutant: gas goes back to the instance that ended. *)
finishExecuteOnDestContextRestoreFirst(o) ==
    IF o.err = "Ok"
    THEN BlockchainPopDiscard(RuntimePopSetActiveState(RestoreGas(
             OutputPopMergeActiveState(MeteringPopMergeActiveState(
                 PopDestContexts(o.host))), o.gasRemaining)))
    ELSE BlockchainPopSetActiveState(RuntimePopSetActiveState(
             OutputPopSetActiveState(MeteringPopSetActiveState(
                 PopDestContexts(o.host)))))

(* Mutant: a failed output is merged, not dropped. *)
finishExecuteOnDestContextMerge(o) ==
    IF o.err = "Ok"
    THEN BlockchainPopDiscard(RestoreGas(RuntimePopSetActiveState(
             OutputPopMergeActiveState(MeteringPopMergeActiveState(
                 PopDestContexts(o.host)))), o.gasRemaining))
    ELSE BlockchainPopSetActiveState(RestoreGas(RuntimePopSetActiveState(
             OutputPopMergeActiveState(MeteringPopSetActiveState(
                 PopDestContexts(o.host)))), o.gasRemaining))

(* The host after the execution with VMOutput o: the caller gets back the   *)
(* gas that remained, on its own instance.                                  *)
finishExecuteOnDestContext(o) ==
    IF o.err = "Ok"
    THEN BlockchainPopDiscard(RestoreGas(RuntimePopSetActiveState(
             OutputPopMergeActiveState(MeteringPopMergeActiveState(
                 PopDestContexts(o.host)))), o.gasRemaining))
    ELSE BlockchainPopSetActiveState(RestoreGas(RuntimePopSetActiveState(
             OutputPopSetActiveState(MeteringPopSetActiveState(
                 PopDestContexts(o.host)))), o.gasRemaining))

(* A failed execution costs its caller all the gas it was given, unless it  *)
(* failed before the gas was used.                                          *)
ChargeCaller ==
    Burn(top.ledger, top.before.runtime.scAddress,
         IF exit \in {"ErrTransferInsufficientFunds", "ErrInitFuncCalledInRun"}
         THEN 0 ELSE top.input.gas)

ChildLedger(o) == IF o.err = "Ok" THEN ledger ELSE ChargeCaller

(* Return to the caller's code, or to the Fault of its EEI call. *)
BackToCaller(h, l) ==
    /\ host' = h
    /\ ledger' = l
    /\ exit' = "running"
    /\ frames' = Pop(frames)
    /\ UNCHANGED <<result, txs>>

BackToFault(h, l) ==
    /\ host' = FailExecution(h)
    /\ ledger' = l
    /\ exit' = "ErrExecutionFailed"
    /\ frames' = Pop(frames)
    /\ UNCHANGED <<result, txs>>

ReturnFromDest(o) ==
    IF o.err = "Ok"
    THEN BackToCaller(finishExecuteOnDestContext(o), ledger)
    ELSE BackToFault(finishExecuteOnDestContext(o), ChargeCaller)

FinishDestCall == Ended("dest") /\ ReturnFromDest(ChildOutput)

(* transferValueExecute tells its contract of the failure. *)
ReturnFromTransfer(o) ==
    BackToCaller(finishExecuteOnDestContext(o), ChildLedger(o))

FinishTransferExecute == Ended("transfer") /\ ReturnFromTransfer(ChildOutput)

(* The token transfer before the failed execution is reverted too. *)
ReturnFromESDT(o) ==
    IF o.err = "Ok"
    THEN BackToCaller(finishExecuteOnDestContext(o), ledger)
    ELSE BackToCaller([finishExecuteOnDestContext(o) EXCEPT
                          !.world = top.before.world - 1], ChargeCaller)

FinishESDTExecute == Ended("esdt") /\ ReturnFromESDT(ChildOutput)

(* The host after an execution on the same context that returned an error,  *)
(* and after one that did not: the VMOutput's own error is not looked at.   *)
FailedSameContext(h) ==
    BlockchainPopSetActiveState(RuntimePopSetActiveState(
        OutputPopSetActiveState(MeteringPopSetActiveState(
            BigIntPopSetActiveState(h)))))

finishExecuteOnSameContext(o) ==
    RestoreGas(RuntimePopSetActiveState(BlockchainPopDiscard(BigIntPopDiscard(
        OutputPopDiscard(MeteringPopMergeActiveState(o.host))))),
        o.gasRemaining)

ReturnFromSame(o) ==
    BackToCaller(finishExecuteOnSameContext(o),
                 [ledger EXCEPT !.unchecked = @ \/ o.err # "Ok"])

FinishSameContext ==
    /\ Ended("same")
    /\ IF exit = "Ok" THEN ReturnFromSame(ChildOutput)
                      ELSE BackToFault(FailedSameContext(host), ChargeCaller)

ReturnFromAsyncDestination(h, o) ==
    executeSyncCallbackCall(Pop(frames), h, ChildLedger(o), top.input.recipient,
                            o.gasRemaining + h.runtime.gasLocked,
                            o.err = "Ok" /\ o.host.output.returnsToken)

(* The host from which the callback of the VMOutput o starts. *)
CallBackAfter(o) == ReturnFromAsyncDestination(finishExecuteOnDestContext(o), o)

FinishAsyncDestination ==
    /\ Ended("asyncDest")
    /\ CallBackAfter(ChildOutput)
    /\ UNCHANGED <<result, txs>>

(* processCallbackVMOutput: a failed callback does not fail the caller. *)
processCallbackVMOutput(o) ==
    /\ host' = finishExecuteOnDestContext(o)
    /\ ledger' = ChildLedger(o)
    /\ exit' = "Ok"
    /\ frames' = Pop(frames)
    /\ UNCHANGED <<result, txs>>

FinishCallback == Ended("callback") /\ processCallbackVMOutput(ChildOutput)

-----------------------------------------------------------------------------
(* Only contracts of another shard call asynchronously, or back. *)
TxInputs ==
    {input \in [caller : Users \cup Remote, recipient : Contracts \cup Users,
                value : CallValues, gas : TxGas, callType : CallTypes,
                init : BOOLEAN] :
        input.callType = "DirectCall" \/ input.caller \in Remote}

Init ==
    /\ host = EmptyHost
    /\ frames = << >>
    /\ exit = "idle"
    /\ result = [err |-> "none"]
    /\ ledger = EmptyLedger
    /\ txs = 0

Finish ==
    \/ FinishDestCall
    \/ FinishTransferExecute
    \/ FinishESDTExecute
    \/ FinishSameContext
    \/ FinishAsyncDestination
    \/ FinishCallback
    \/ FinishTransaction

EEICall ==
    \/ "store" \in EEI /\ \E v \in StorageValues : StorageStore(v)
    \/ "bigInt" \in EEI /\ BigIntNew
    \/ "signalError" \in EEI /\ SignalError
    \/ /\ "executeOnDestContext" \in EEI
       /\ \E dest \in Accounts, g \in GasLimits, v \in CallValues,
             init \in BOOLEAN : ExecuteOnDestContext(dest, g, v, init)
    \/ /\ "executeOnSameContext" \in EEI
       /\ \E dest \in Accounts, g \in GasLimits, v \in CallValues :
             ExecuteOnSameContext(dest, g, v)
    \/ /\ "transferValueExecute" \in EEI
       /\ \E dest \in Accounts, g \in GasLimits, v \in CallValues,
             function \in BOOLEAN : TransferValueExecute(dest, g, v, function)
    \/ /\ "transferESDTExecute" \in EEI
       /\ \E dest \in Accounts, g \in GasLimits, function \in BOOLEAN :
             TransferESDTExecute(dest, g, function)
    \/ /\ "builtInFunction" \in EEI
       /\ \E dest \in Accounts, g \in GasLimits, andCall \in BOOLEAN :
             ExecuteBuiltinFunction(dest, g, andCall)
    \/ /\ "asyncCall" \in EEI
       /\ \E dest \in Accounts, v \in CallValues :
             AsyncCall(dest, v, FALSE, FALSE)
    \/ /\ "asyncBuiltIn" \in EEI
       /\ \E dest \in Accounts, andCall \in BOOLEAN :
             AsyncCall(dest, 0, TRUE, andCall)

Execution == Opcode \/ OutOfGas \/ Return \/ EEICall \/ Finish

NoMoreTransactions ==
    /\ exit = "idle"
    /\ txs = MaxTransactions
    /\ UNCHANGED vars

Next ==
    \/ Execution
    \/ \E input \in TxInputs : doRunSmartContractCall(input)
    \/ NoMoreTransactions

Spec == Init /\ [][Next]_vars

-----------------------------------------------------------------------------
(* Properties.                                                              *)

(* The host is well formed: contexts hold values of their types, and the    *)
(* frames are one transaction with the executions nested in it.             *)
TypeOK ==
    /\ DOMAIN host.output.accounts \subseteq Accounts
    /\ \A a \in DOMAIN host.output.accounts :
          LET account == host.output.accounts[a]
          IN  /\ account.balanceDelta \in Int
              /\ account.storage \in StorageValues \cup {NoValue}
              /\ account.gasUsed \in Nat
              /\ \A i \in DOMAIN account.outputTransfers :
                    account.outputTransfers[i] \in
                        [gasLimit : Nat, gasLocked : Nat]
    /\ host.metering.initialGasProvided \in Nat
    /\ host.metering.gasForExecution \in Nat
    /\ DOMAIN host.metering.gasUsedByAccounts \subseteq Accounts
    /\ host.points \in [1 .. MaxInstances -> Nat]
    /\ host.instance \in 0 .. MaxInstances
    /\ host.bigInt \in 0 .. MaxBigInts
    /\ host.world \in Nat
    /\ exit = "idle" <=> frames = << >>
    /\ \A i \in DOMAIN frames : frames[i].kind = "top" <=> i = 1
    /\ ledger.burnt \in [Accounts -> Nat]
    /\ txs \in 0 .. MaxTransactions

(* Every context has been pushed once for each execution nested in the      *)
(* transaction, the storage context only for those on another context, and  *)
(* a finished transaction leaves nothing on any stack: the pops of          *)
(* finishExecuteOnDestContext, finishExecuteOnSameContext and               *)
(* ExecuteOnDestContext match the pushes on every path.                     *)
StacksBalanced ==
    LET nested == IF frames = << >> THEN 0 ELSE Len(frames) - 1
        same == Cardinality({i \in DOMAIN frames : frames[i].kind = "same"})
    IN  /\ \A s \in {Len(host.outputStack), Len(host.meteringStack),
                     Len(host.runtimeStack), Len(host.instanceStack),
                     Len(host.bigIntStack), Len(host.snapshots)} : s = nested
        /\ Len(host.storageStack) = nested - same

(* The contract that runs has a Wasmer instance of its own: none of the     *)
(* callers preserved on the instance stack shares it, so no nested call     *)
(* spends the points of its caller behind the metering context's back.      *)
InstanceOfItsOwn ==
    exit = "running" =>
        host.instance \notin {0} \cup ToSet(host.instanceStack)

(* What an output holds that the Node will apply. *)
Effects(o) ==
    [a \in DOMAIN o.accounts |->
        [balanceDelta |-> o.accounts[a].balanceDelta,
         storage |-> o.accounts[a].storage,
         outputTransfers |-> o.accounts[a].outputTransfers]]

ChildFailed ==
    /\ Len(frames) > 1
    /\ exit # "running"
    /\ IF top.kind = "same" THEN exit # "Ok" ELSE ChildOutput.err # "Ok"

(* The caller's contexts after the step that ends a nested execution: the   *)
(* active ones, or those its callback starts from.                          *)
CallerContexts ==
    IF Len(frames') < Len(frames)
    THEN [output |-> host'.output, bigInt |-> host'.bigInt,
          world |-> host'.world, storageAddress |-> host'.storageAddress,
          runtime |-> host'.runtime,
          gasUsedByAccounts |-> host'.metering.gasUsedByAccounts]
    ELSE frames'[Len(frames')].before

RestoredTo(before, after) ==
    /\ Effects(after.output) = Effects(before.output)
    /\ after.bigInt = before.bigInt
    /\ after.storageAddress = before.storageAddress
    /\ after.runtime = before.runtime
    /\ after.gasUsedByAccounts = before.gasUsedByAccounts
    /\ after.world = before.world - (IF top.kind = "esdt" THEN 1 ELSE 0)

(* When a nested execution fails, its caller continues as if the execution  *)
(* had not happened: storage, balances, transfers, big integers, gas used   *)
(* by accounts and the Node's accounts are those before the call, including *)
(* whatever deeper executions that succeeded had merged, and including the  *)
(* tokens that a built-in function moved just before the execution.  (Its   *)
(* gas, and the output transfer that records it, stay with the caller.)     *)
FailureRollsBack ==
    [][ChildFailed /\ frames' # frames
        => RestoredTo(top.before, CallerContexts)]_vars

(* Value is neither created nor lost: through nesting, merging and rollback *)
(* the balance changes of all accounts sum up to the value that came with   *)
(* the transaction, and no contract spends what it does not have.           *)
ValueConserved ==
    exit # "idle" =>
        /\ SumFunction([a \in DOMAIN host.output.accounts |->
                           host.output.accounts[a].balanceDelta])
              = frames[1].input.value
        /\ \A a \in Contracts : GetBalance(host, a) >= 0

(* Gas is conserved: for a successful transaction that sends no uncharged   *)
(* gas, the gas really burnt by code, the gas charged and sent to other     *)
(* shards and the gas returned are exactly the gas provided, whatever calls *)
(* failed, locked gas or called back on the way.                            *)
GasConserved ==
    /\ exit = "idle"
    /\ result.err = "Ok"
    /\ ~ledger.unchecked
    /\ ledger.unfunded = 0
    => TotalBurnt(ledger) + ledger.forwarded + result.gasRemaining
            = result.input.gas

(* When no gas leaves the shard, GasUsed of every output account is the gas *)
(* that the code of that account burnt, even when contracts call each other *)
(* recursively and share metering frames.                                   *)
GasAttributed ==
    /\ exit = "idle"
    /\ result.err = "Ok"
    /\ ~ledger.unchecked
    /\ ledger.forwarded + ledger.unfunded = 0
    => \A a \in Accounts :
          ledger.burnt[a] = (IF a \in DOMAIN result.accounts
                             THEN result.accounts[a].gasUsed ELSE 0)

(* The gas that the transaction can still spend: what the running contract  *)
(* has left, what its suspended callers have left, and what asynchronous    *)
(* calls have locked for their callbacks.                                   *)
AvailableGas ==
    (IF exit \in {"running", "Ok"} THEN GasLeft(host) ELSE 0)
    + SumFunction([i \in 1 .. Len(frames) - 1 |->
          SubUint64(host.meteringStack[i].gasForExecution,
                    host.points[host.instanceStack[i]])
          + (IF frames[i + 1].kind = "asyncDest"
             THEN frames[i + 1].before.runtime.gasLocked ELSE 0)])

(* No step of an execution increases the gas that the transaction can still *)
(* spend: no call, callback, failure or restoration of gas mints any.  Code *)
(* consumes it with every step, so every execution ends.                    *)
GasNeverMinted ==
    [][exit # "idle" /\ exit' # "idle" => AvailableGas' <= AvailableGas]_vars
=============================================================================
