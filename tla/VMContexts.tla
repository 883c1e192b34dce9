----------------------------- MODULE VMContexts -----------------------------
(***************************************************************************)
(* The contexts of a vmHost: output, metering, runtime, storage, bigInt    *)
(* and blockchain, each with the state stack that nested executions push   *)
(* and pop.  A host is a record, as in the code; every operator below is   *)
(* one method of a context, from the host before to the host after it.     *)
(* The epoch flags are on (Arwen V2 and V3, dynamic gas locking, ESDT).    *)
(* Gas is a uint64 that the model's amounts stay far below; subtraction    *)
(* is the saturating one of math.SubUint64.                                *)
(***************************************************************************)
EXTENDS Integers, Sequences, FiniteSets, FiniteSetsExt, SequencesExt

CONSTANTS
    Contracts,        \* contracts of this shard, with code
    Users,            \* accounts of this shard, without code
    Remote,           \* contracts of another shard
    WithCallback,     \* contracts that export callBack()
    Payable,          \* accounts that accept value
    Balance,          \* their balances on the blockchain
    CodeCost,         \* gas to prepare a contract's code for execution
    MaxInstances,     \* maxWasmerInstances
    NoValue           \* no storage update

Accounts == Contracts \cup Users \cup Remote

\* Addresses are 32 bytes: there are finitely many accounts.
ASSUME ContextsAssumption ==
    /\ IsFiniteSet(Accounts)
    /\ (Contracts \cup Users) \cap Remote = {}
    /\ WithCallback \subseteq Contracts
    /\ Payable \subseteq Accounts
    /\ Balance \in [Accounts -> Nat]
    /\ CodeCost \in [Contracts -> Nat \ {0}]
    /\ MaxInstances \in Nat

AreInSameShard(a, b) == (a \in Remote) <=> (b \in Remote)
IsSmartContract(a) == a \in Contracts \cup Remote

(* Mutant: a plain subtraction. *)
SubUint64Underflow(a, b) == a - b

SubUint64(a, b) == IF a < b THEN 0 ELSE a - b

-----------------------------------------------------------------------------
(* Output accounts and their merging.                                       *)

NewVMOutputAccount ==
    [balanceDelta |-> 0, storage |-> NoValue, gasUsed |-> 0,
     outputTransfers |-> << >>]

(* returnsToken: the return data is the token transfer with which an        *)
(* asynchronous call ends; contracts return no other data.                  *)
newVMOutput ==
    [accounts |-> << >>, returnCode |-> "Ok", gasRemaining |-> 0,
     returnsToken |-> FALSE]

(* GetOutputAccount creates the account that is missing. *)
GetOutputAccount(o, a) ==
    IF a \in DOMAIN o.accounts THEN o.accounts[a] ELSE NewVMOutputAccount

SetOutputAccount(o, a, account) ==
    [o EXCEPT !.accounts =
        [x \in DOMAIN @ \cup {a} |-> IF x = a THEN account ELSE @[x]]]

(* Mutant: deltas are summed, though right has both. *)
mergeOutputAccountsAddDelta(left, right) ==
    [balanceDelta |-> left.balanceDelta + right.balanceDelta,
     storage      |-> IF right.storage = NoValue THEN left.storage
                                                 ELSE right.storage,
     gasUsed      |-> right.gasUsed,
     outputTransfers |-> left.outputTransfers \o
         SubSeq(right.outputTransfers, Len(left.outputTransfers) + 1,
                Len(right.outputTransfers))]

mergeOutputAccounts(left, right) ==
    [balanceDelta |-> right.balanceDelta,
     storage      |-> IF right.storage = NoValue THEN left.storage
                                                 ELSE right.storage,
     gasUsed      |-> right.gasUsed,
     outputTransfers |-> left.outputTransfers \o
         SubSeq(right.outputTransfers, Len(left.outputTransfers) + 1,
                Len(right.outputTransfers))]

mergeVMOutputs(left, right) ==
    [accounts |->
        [a \in DOMAIN left.accounts \cup DOMAIN right.accounts |->
            IF a \in DOMAIN right.accounts
            THEN mergeOutputAccounts(GetOutputAccount(left, a),
                                     right.accounts[a])
            ELSE left.accounts[a]],
     returnCode |-> right.returnCode,
     gasRemaining |-> right.gasRemaining,
     returnsToken |-> left.returnsToken \/ right.returnsToken]

(* The account fields are kept: a nested execution sees the storage cache  *)
(* and the transfers of the ones before it.                                *)
CensorVMOutput(o) == [o EXCEPT !.returnCode = "Ok", !.gasRemaining = 0,
                               !.returnsToken = FALSE]

(* AddToActiveState: the output of a built-in function is merged; the       *)
(* balance changes and transfers of accounts on both sides are joined       *)
(* first, since mergeOutputAccounts takes right to contain left.            *)
AddToActiveState(h, right) ==
    LET joined == {a \in DOMAIN right.accounts : a \in DOMAIN h.output.accounts}
        left == [a \in DOMAIN h.output.accounts |->
                    IF a \in joined
                    THEN [h.output.accounts[a] EXCEPT !.outputTransfers =
                            @ \o right.accounts[a].outputTransfers]
                    ELSE h.output.accounts[a]]
        added == [a \in DOMAIN right.accounts |->
                    IF a \in joined
                    THEN [right.accounts[a] EXCEPT !.balanceDelta =
                            @ + h.output.accounts[a].balanceDelta]
                    ELSE right.accounts[a]]
    IN  [h EXCEPT !.output =
            mergeVMOutputs([h.output EXCEPT !.accounts = left],
                           [right EXCEPT !.accounts = added])]

-----------------------------------------------------------------------------
(* Wasmer instances and points.  Instance 0 is nil.                         *)

GetPointsUsed(h) == IF h.instance = 0 THEN 0 ELSE h.points[h.instance]

SetPointsUsed(h, p) == [h EXCEPT !.points[h.instance] = p]

UseGas(h, gas) == SetPointsUsed(h, GetPointsUsed(h) + gas)

RestoreGas(h, gas) ==
    IF gas <= GetPointsUsed(h)
    THEN SetPointsUsed(h, SubUint64(GetPointsUsed(h), gas))
    ELSE h

GasLeft(h) == SubUint64(h.metering.gasForExecution, GetPointsUsed(h))

UseGasBounded(h, gas) ==
    IF GasLeft(h) <= gas THEN [host |-> h, err |-> "ErrNotEnoughGas"]
                         ELSE [host |-> UseGas(h, gas), err |-> "Ok"]

BoundGasLimit(h, limit) == IF GasLeft(h) < limit THEN GasLeft(h) ELSE limit

GasSpentByContract(h) == h.metering.initialCost + GetPointsUsed(h)

(* Mutant: the caller's instance is reused, with its points reset. *)
StartWasmerInstanceShared(h) ==
    IF Len(h.instanceStack) >= MaxInstances
    THEN [h EXCEPT !.instance = 0]
    ELSE LET warm == IF h.instance = 0 THEN 1 ELSE h.instance
         IN  [h EXCEPT !.instance = warm, !.points[warm] = 0]

(* A new instance takes the first identifier above the instances that are  *)
(* preserved on the instance stack.                                        *)
StartWasmerInstance(h) ==
    IF Len(h.instanceStack) >= MaxInstances
    THEN [h EXCEPT !.instance = 0]
    ELSE LET fresh == Len(h.instanceStack) + 1
         IN  [h EXCEPT !.instance = fresh, !.points[fresh] = 0]

-----------------------------------------------------------------------------
(* Gas accounting at the end of an execution.                               *)

getGasTransferredByAccount(account) ==
    SumFunction([i \in DOMAIN account.outputTransfers |->
                    account.outputTransfers[i].gasLimit
                    + account.outputTransfers[i].gasLocked])

GasUsedBy(m, a) ==
    IF a \in DOMAIN m.gasUsedByAccounts THEN m.gasUsedByAccounts[a] ELSE 0

(* Mutant: the contract itself is counted too. *)
getGasUsedByAllAccounts(h) ==
    SumFunction([a \in DOMAIN h.output.accounts |->
        GasUsedBy(h.metering, a)
        + getGasTransferredByAccount(h.output.accounts[a])])

getGasUsedByAllOtherAccounts(h) ==
    SumFunction([a \in DOMAIN h.output.accounts |->
        (IF a # h.runtime.scAddress THEN GasUsedBy(h.metering, a) ELSE 0)
        + getGasTransferredByAccount(h.output.accounts[a])])

updateSCGasUsed(h) ==
    LET self    == h.runtime.scAddress
        account == GetOutputAccount(h.output, self)
        h1      == [h EXCEPT !.output =
                        SetOutputAccount(h.output, self, account)]
        gasUsed == SubUint64(SubUint64(GasSpentByContract(h1),
                                       getGasTransferredByAccount(account)),
                             getGasUsedByAllOtherAccounts(h1))
    IN  [h1 EXCEPT !.metering.gasUsedByAccounts =
            [a \in DOMAIN @ \cup {self} |-> IF a = self THEN gasUsed ELSE @[a]]]

setGasUsedToOutputAccounts(h) ==
    [h EXCEPT !.output.accounts =
        [a \in DOMAIN @ |-> [@[a] EXCEPT !.gasUsed = GasUsedBy(h.metering, a)]]]

getCurrentTotalUsedGas(h) ==
    SumFunction([a \in DOMAIN h.output.accounts |->
        h.output.accounts[a].gasUsed
        + getGasTransferredByAccount(h.output.accounts[a])])

checkGas(h) ==
    getCurrentTotalUsedGas(h) + h.output.gasRemaining
        = h.metering.initialGasProvided

UpdateGasStateOnFailure(h) ==
    LET self == h.runtime.scAddress
        account == GetOutputAccount(h.output, self)
        charged == [account EXCEPT !.gasUsed = @ + h.metering.initialGasProvided]
    IN  [h EXCEPT !.output = SetOutputAccount(@, self, charged)]

(* What the code returns as a VMOutput: the host after the accounting, the  *)
(* error (or "Ok") and the gas remaining.                                   *)
CreateVMOutputInCaseOfError(h, err) ==
    [host |-> UpdateGasStateOnFailure(h), err |-> err, gasRemaining |-> 0]

CheckedVMOutput(h) ==
    IF ~(DOMAIN h.metering.gasUsedByAccounts \subseteq DOMAIN h.output.accounts)
    THEN CreateVMOutputInCaseOfError(h, "missing OutputAccount")
    ELSE IF ~checkGas(h)
    THEN CreateVMOutputInCaseOfError(h, "ErrInputAndOutputGasDoesNotMatch")
    ELSE [host |-> h, err |-> "Ok", gasRemaining |-> h.output.gasRemaining]

GetVMOutput(h) ==
    CheckedVMOutput(setGasUsedToOutputAccounts(
        updateSCGasUsed([h EXCEPT !.output.gasRemaining = GasLeft(h)])))

-----------------------------------------------------------------------------
(* Transfers of value.                                                      *)

GetBalance(h, a) == Balance[a] + GetOutputAccount(h.output, a).balanceDelta

CanTransferValue(h, dest, sender, value, checkPayable) ==
    /\ GetBalance(h, sender) >= value
    /\ \/ ~checkPayable
       \/ dest \in Payable
       \/ value = 0
       \/ h.runtime.callType = "AsynchronousCall"

AddBalance(o, a, value) ==
    LET account == GetOutputAccount(o, a)
    IN  SetOutputAccount(o, a,
            [account EXCEPT !.balanceDelta = @ + value])

TransferValueOnly(h, dest, sender, value) ==
    [h EXCEPT !.output = AddBalance(AddBalance(@, sender, -value), dest, value)]

WithOutputTransfer(o, dest, gasLimit, gasLocked) ==
    LET account == GetOutputAccount(o, dest)
    IN  SetOutputAccount(o, dest,
            [account EXCEPT !.outputTransfers = Append(@,
                [gasLimit |-> gasLimit, gasLocked |-> gasLocked])])

AddOutputTransfer(h, dest, gasLimit, gasLocked) ==
    [h EXCEPT !.output = WithOutputTransfer(@, dest, gasLimit, gasLocked)]

Transfer(h, dest, sender, gasLimit, gasLocked, value) ==
    AddOutputTransfer(TransferValueOnly(h, dest, sender, value),
                      dest, gasLimit, gasLocked)

SetStorage(h, value) ==
    LET account == GetOutputAccount(h.output, h.storageAddress)
    IN  [h EXCEPT !.output = SetOutputAccount(@, h.storageAddress,
            [account EXCEPT !.storage = value])]

-----------------------------------------------------------------------------
(* The state stacks.                                                        *)

Top(stack) == stack[Len(stack)]
Pop(stack) == SubSeq(stack, 1, Len(stack) - 1)

NewMetering(gas) ==
    [initialGasProvided |-> gas, initialCost |-> 0, gasForExecution |-> gas,
     gasUsedByAccounts |-> << >>]

NewRuntime(input) ==
    [scAddress |-> input.recipient, caller |-> input.caller,
     callType |-> input.callType, callValue |-> input.value, gasLocked |-> 0]

OutputPushState(h) ==
    [h EXCEPT !.outputStack = Append(@, mergeVMOutputs(newVMOutput, h.output))]

(* Mutant: the state saved is dropped. *)
OutputPopKeepActiveState(h) == [h EXCEPT !.outputStack = Pop(@)]

OutputPopSetActiveState(h) ==
    [h EXCEPT !.output = Top(h.outputStack), !.outputStack = Pop(@)]

OutputPopMergeActiveState(h) ==
    [h EXCEPT !.output = mergeVMOutputs(newVMOutput,
                            mergeVMOutputs(Top(h.outputStack), h.output)),
              !.outputStack = Pop(@)]

OutputPopDiscard(h) == [h EXCEPT !.outputStack = Pop(@)]

MeteringPushState(h) == [h EXCEPT !.meteringStack = Append(@, h.metering)]

addToGasUsedByAccounts(m, added) ==
    [a \in DOMAIN m.gasUsedByAccounts \cup DOMAIN added |->
        GasUsedBy(m, a) + (IF a \in DOMAIN added THEN added[a] ELSE 0)]

MeteringPopMergeActiveState(h) ==
    LET prev == Top(h.meteringStack)
        used == addToGasUsedByAccounts(h.metering, prev.gasUsedByAccounts)
    IN  [h EXCEPT !.metering = [prev EXCEPT !.gasUsedByAccounts = used],
                  !.meteringStack = Pop(@)]

(* Mutant: a failed execution is merged as well. *)
MeteringPopMergeAlways(h) == MeteringPopMergeActiveState(h)

MeteringPopSetActiveState(h) ==
    [h EXCEPT !.metering = Top(h.meteringStack), !.meteringStack = Pop(@)]

(* The runtime state goes with the Wasmer instance; popInstance only        *)
(* cleans an instance that is not the one execution resumes on.             *)
RuntimePushState(h) ==
    [h EXCEPT !.runtimeStack = Append(@, h.runtime),
              !.instanceStack = Append(@, h.instance)]

RuntimePopSetActiveState(h) ==
    [h EXCEPT !.runtime = Top(h.runtimeStack), !.runtimeStack = Pop(@),
              !.instance = Top(h.instanceStack), !.instanceStack = Pop(@)]

BigIntPushState(h) == [h EXCEPT !.bigIntStack = Append(@, h.bigInt)]
BigIntPopSetActiveState(h) ==
    [h EXCEPT !.bigInt = Top(h.bigIntStack), !.bigIntStack = Pop(@)]
BigIntPopDiscard(h) == [h EXCEPT !.bigIntStack = Pop(@)]

StoragePushState(h) == [h EXCEPT !.storageStack = Append(@, h.storageAddress)]
StoragePopSetActiveState(h) ==
    [h EXCEPT !.storageAddress = Top(h.storageStack), !.storageStack = Pop(@)]

(* A snapshot of the Node's accounts is their state itself: how many token  *)
(* transfers the built-in functions have made.                              *)
BlockchainPushState(h) == [h EXCEPT !.snapshots = Append(@, h.world)]
BlockchainPopSetActiveState(h) ==
    [h EXCEPT !.world = Top(h.snapshots), !.snapshots = Pop(@)]
BlockchainPopDiscard(h) == [h EXCEPT !.snapshots = Pop(@)]

=============================================================================
