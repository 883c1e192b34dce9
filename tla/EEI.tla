-------------------------------- MODULE EEI --------------------------------
(***************************************************************************)
(* Contracts at work on the EEI.  A contract is the set of functions it     *)
(* imports, and its inputs: in every transaction it calls any of them, in   *)
(* any order, with any of the inputs the constants name.  Between two calls *)
(* the Node may change the keys it keeps for itself (a built-in function),  *)
(* between two transactions time passes.                                    *)
(***************************************************************************)
EXTENDS ElrondEI, WasmMemory

CONSTANTS
    Contracts,         \* the contracts: what each imports, how often and with
                       \* which inputs and gas it is called
    Balance            \* the balance of every account

\* Bound: amounts fit a word of WordBytes bytes.
IsInput(input) ==
    /\ DOMAIN input = {"args", "value", "esdt", "caller"}
    /\ Len(input.args) \in Nat /\ \A i \in 1 .. Len(input.args) : IsData(input.args[i])
    /\ IsUint64(input.value)
    /\ input.esdt # <<>> => IsUint64(input.esdt[1])

ASSUME ContractsAssumption ==
    /\ IsUint64(Balance)
    /\ \A c \in Contracts :
          /\ c.gas \in Nat /\ c.calls \in Nat /\ c.inputs # {}
          /\ \A input \in c.inputs : IsInput(input)

VARIABLES
    view,     \* history: the numbers and locks the contract has stored, what
              \* built-in functions wrote, and whether a nested executeReadOnly
              \* has left the read-only mode
    txs       \* the transactions so far

eeiVars == <<host, view, txs, memory, access>>

\* A call: arguments, the value in EGLD, the payment in a token (<<>> or <<value>>).
Input(args, value, esdt) == [args |-> args, value |-> value, esdt |-> esdt, caller |-> "user"]

\* The contract's own record: the last int64 it stored under a key, with the kind
\* of encoding, and the timestamp of the last lock it set.
NoView == [numbers |-> [k \in NumberKeys |-> <<>>], locks |-> [k \in ContractKeys |-> 0]]

\* The record of the built-in functions: what they wrote last under NodeKey, now and
\* at the end of the last transaction that succeeded.
NothingWritten == [a \in StoredAccounts |-> NoBytes]

EmptyStorage == [a \in StoredAccounts |-> [k \in AllKeys |-> NoBytes]]

\* Whether the contract is one whose accesses to memory are followed one by one.
TouchesMemory == "memory" \in host.contract.imports

EEIInit ==
    /\ \E contract \in Contracts :
           \E input \in contract.inputs :
               host = InitState(contract, input, EmptyStorage,
                                [now |-> 1, balance |-> Balance, reserved |-> NothingWritten])
    /\ view = [current |-> NoView, saved |-> NoView, left |-> FALSE,
               nodeKeys |-> [current |-> NothingWritten, saved |-> NothingWritten]]
    /\ txs = 1
    /\ MemInit
    /\ memory > 0 => TouchesMemory

-----------------------------------------------------------------------------
(* The functions, by file.                                                 *)

BigIntImports ==
    \/ bigIntGetUnsignedArgument \/ bigIntGetSignedArgument
    \/ bigIntStorageStoreUnsigned \/ bigIntStorageLoadUnsigned
    \/ bigIntGetCallValue \/ bigIntGetESDTCallValue
    \/ bigIntGetExternalBalance \/ bigIntGetESDTExternalBalance
    \/ bigIntNew \/ bigIntUnsignedByteLength \/ bigIntSignedByteLength
    \/ bigIntGetUnsignedBytes \/ bigIntGetSignedBytes
    \/ bigIntSetUnsignedBytes \/ bigIntSetSignedBytes
    \/ bigIntIsInt64 \/ bigIntGetInt64 \/ bigIntSetInt64
BigIntArithmeticImports ==
    \/ bigIntAdd \/ bigIntSub \/ bigIntMul
    \/ bigIntTDiv \/ bigIntTMod \/ bigIntEDiv \/ bigIntEMod
    \/ bigIntAbs \/ bigIntNeg \/ bigIntSign \/ bigIntCmp
    \/ bigIntNot \/ bigIntAnd \/ bigIntOr \/ bigIntXor \/ bigIntShr \/ bigIntShl
    \/ bigIntFinishUnsigned \/ bigIntFinishSigned
SmallIntImports ==
    \/ smallIntGetUnsignedArgument \/ smallIntGetSignedArgument
    \/ smallIntFinishUnsigned \/ smallIntFinishSigned
    \/ smallIntStorageStoreUnsigned \/ smallIntStorageStoreSigned
    \/ smallIntStorageLoadUnsigned \/ smallIntStorageLoadSigned
CryptoImports ==
    \/ sha256 \/ keccak256 \/ ripemd160
    \/ verifyBLS \/ verifyEd25519 \/ verifySecp256k1
CallImports ==
    \/ getSCAddress \/ getOwnerAddress \/ getShardOfAddress \/ isSmartContract
    \/ getExternalBalance \/ blockHash \/ transferValue \/ transferESDT
    \/ getArgumentLength \/ getArgument \/ getFunction \/ getNumArguments
    \/ getCaller \/ checkNoPayment \/ callValue
    \/ getESDTValue \/ getESDTTokenName \/ getESDTTokenNonce \/ getESDTTokenType
    \/ getCallValueTokenName \/ getESDTBalance \/ getESDTTokenData
    \/ getESDTNFTNameLength \/ getESDTNFTAttributeLength \/ getESDTNFTURILength
    \/ getCurrentESDTNFTNonce \/ getNumReturnData \/ getReturnDataSize \/ getReturnData
    \/ getOriginalTxHash
StorageImports ==
    \/ storageStore \/ storageLoadLength \/ storageLoad \/ storageLoadFromAddress
    \/ setStorageLock \/ getStorageLock \/ isStorageLocked \/ clearStorageLock
    \/ writeLog \/ writeEventLog \/ returnData \/ signalError
    \/ executeReadOnly \/ delegateExecution \/ executeOnDestContextByCaller
BlockImports ==
    \/ getGasLeft
    \/ getBlockTimestamp \/ getBlockNonce \/ getBlockRound \/ getBlockEpoch
    \/ getBlockRandomSeed \/ getStateRootHash
    \/ getPrevBlockTimestamp \/ getPrevBlockNonce \/ getPrevBlockRound
    \/ getPrevBlockEpoch \/ getPrevBlockRandomSeed

-----------------------------------------------------------------------------
(* Bookkeeping of what the contract stored.                                *)

UnsignedStores == {"smallIntStorageStoreUnsigned", "int64storageStore"}
SignedStores == {"smallIntStorageStoreSigned"}
LockSetters == {"setStorageLock", "clearStorageLock"}

\* h: the contexts after a call.  A call in read-only mode stores nothing.
Noted(v, h) ==
    LET c == h.call IN
    IF h.readOnly \/ h.address # Self \/ h.state # "running" THEN v
    ELSE IF c.f \in UnsignedStores
    THEN [v EXCEPT !.numbers[c.about[1]] = <<"unsigned", c.about[2]>>]
    ELSE IF c.f \in SignedStores
    THEN [v EXCEPT !.numbers[c.about[1]] = <<"signed", c.about[2]>>]
    ELSE IF c.f = "bigIntStorageStoreUnsigned" THEN [v EXCEPT !.numbers[c.about] = <<>>]
    ELSE IF c.f = "storageStore" /\ c.about \in NumberKeys THEN [v EXCEPT !.numbers[c.about] = <<>>]
    ELSE IF c.f \in LockSetters THEN [v EXCEPT !.locks[c.about[1]] = c.about[2]]
    ELSE v

InReadOnly(h) == \E i \in DOMAIN h.frames : h.frames[i].f = "executeReadOnly"
LeavesReadOnly == /\ Len(host'.frames) < Len(host.frames)
                  /\ host.frames[Len(host.frames)].f = "executeReadOnly"

-----------------------------------------------------------------------------
(* The steps.                                                              *)

ContractStep ==
    /\ \/ BigIntImports \/ BigIntArithmeticImports \/ SmallIntImports \/ CryptoImports
       \/ CallImports \/ StorageImports \/ BlockImports
       \/ ReturnFromCall \/ OutOfGas
    /\ view' = [view EXCEPT !.current = Noted(@, host'),
                            !.left = InReadOnly(host') /\ (@ \/ LeavesReadOnly)]
    /\ UNCHANGED <<txs, memory, access>>

\* A function of the EEI reads or writes the memory.
MemoryStep ==
    /\ host.state = "running" /\ TouchesMemory
    /\ MemNext
    /\ UNCHANGED <<host, view, txs>>

\* External: a built-in function of the Node writes a key it keeps for itself, of any
\* account, with the contract in the middle of its execution.
BuiltInFunction ==
    /\ host.state = "running" /\ HasGas(host) /\ host.frames = <<>>
    /\ "builtInFunction" \in host.contract.imports
    /\ \E a \in StoredAccounts, value \in MemoryStrings :
           /\ host' = [UseGas(host, ApiCost) EXCEPT !.node[a][NodeKey] = value,
                                                    !.call = NoAnswer]
           /\ view' = [view EXCEPT !.nodeKeys.current[a] = value]
    /\ UNCHANGED <<txs, memory, access>>

\* The next transaction: what the last one stored, and what built-in functions wrote
\* in it, is kept if it succeeded.
NextTransaction ==
    /\ host.frames = <<>> \/ host.state # "running"
    /\ txs < host.contract.calls
    /\ LET kept == host.state = "running" /\ HasGas(host)
           node == IF kept THEN Committed(host) ELSE RolledBack(host)
           chain == [host.chain EXCEPT !.now = @ + 1,
                                       !.reserved = [a \in StoredAccounts |-> node[a][NodeKey]]]
           own == IF kept THEN view.current ELSE view.saved
           written == IF kept THEN view.nodeKeys.current ELSE view.nodeKeys.saved
       IN /\ \E input \in host.contract.inputs :
                host' = InitState(host.contract, input, node, chain)
          /\ view' = [current |-> own, saved |-> own, left |-> FALSE,
                      nodeKeys |-> [current |-> written, saved |-> written]]
    /\ txs' = txs + 1
    /\ UNCHANGED <<memory, access>>

EEINext == ContractStep \/ MemoryStep \/ BuiltInFunction \/ NextTransaction

EEISpec == EEIInit /\ [][EEINext]_eeiVars

-----------------------------------------------------------------------------
(* Properties.                                                             *)

\* The contexts of a contract are what the Go types say: byte strings as long as
\* they claim, no value under an unused handle, gas that never goes down to below
\* zero, and a read-only mode that only a call of executeReadOnly switches on.
EEITypeOK ==
    /\ host.state \in {"running", "failed", "userError", "panicked"}
    /\ host.used \in Nat /\ host.refund \in Nat /\ host.stored \in Nat
    /\ DOMAIN host.big \subseteq AllHandles
    /\ \A i \in DOMAIN host.big : host.big[i] \in Int
    /\ \A a \in StoredAccounts, k \in AllKeys :
           LET b == host.updates[a][k]
           IN b = NotCached \/ (b.len \in Nat /\ b.val \in 0 .. Values(b.len) - 1)
    /\ MemTypeOK
    /\ host.readOnly => \E i \in DOMAIN host.frames : host.frames[i].f = "executeReadOnly"

\* What a storage key holds, as a read through the cache sees it.
Held(h, a, k) == IF h.updates[a][k] = NotCached THEN h.node[a][k] ELSE h.updates[a][k]

\* The keys whose values only contracts change.
OwnKeys == {k \in AllKeys : ~isElrondReservedKey(k)}
LengthOf(Value(_, _)) ==
    SumFunction([p \in StoredAccounts \X OwnKeys |-> Value(p[1], p[2]).len])

\* Gas is given back only for bytes that were there before the transaction or were
\* paid for in it, however often values grow, shrink, vanish and return: the
\* refunds of SetStorage, with what could still be released, never exceed the
\* release value of the storage the transaction found plus what it paid for
\* storing.
RefundBacked ==
    host.refund + ReleasePerByte * LengthOf(LAMBDA a, k : Held(host, a, k))
        <= ReleasePerByte * LengthOf(LAMBDA a, k : host.node[a][k]) + host.stored

\* From the moment executeReadOnly has entered its callee until it returns, no
\* call, and no call made by a contract that is called on the way, changes the
\* storage of any account or the logs - unless an executeReadOnly on the way has
\* returned: it switches the mode off for the contracts around it too.
ReadOnlyHolds ==
    [][InReadOnly(host) /\ InReadOnly(host') /\ ~view.left
          => /\ \A a \in StoredAccounts, k \in OwnKeys : Held(host', a, k) = Held(host, a, k)
             /\ host'.logs = host.logs]_eeiVars

\* isStorageLocked answers 1 exactly while the timestamp of the last
\* setStorageLock for the key, of this transaction or an earlier one that
\* succeeded, lies in the future.  (A negative one is stored without its sign; and
\* contracts are taken not to write the key of a lock themselves, which the type
\* that CustomStorageKey appends does not protect.)
LockReported ==
    /\ host.call.f = "isStorageLocked" /\ host.address = Self
    /\ view.current.locks[host.call.about] >= 0
    => (host.call.res = 1 <=> view.current.locks[host.call.about] > host.chain.now)

\* For a key that the Node keeps for itself, storageLoadFromAddress answers what a
\* built-in function wrote last, an empty value and the value of a key that was
\* empty before included: whatever the contract read or tried to store under the key
\* since, and whichever transactions in between succeeded or failed.  The account is
\* the caller's own or a readable one; of the others the contract learns nothing.
ReservedReadsFresh ==
    host.call.f = "storageLoadFromAddress"
        => LET a == host.call.about[1]
               k == host.call.about[2]
           IN isElrondReservedKey(k) /\ (a = host.address \/ a \in ReadableAccounts)
                  => host.call.res = view.nodeKeys.current[a]

\* bigIntNew answers a handle of its own: the numbers under all other handles,
\* also those that came to be because a function named them first, stay.
HandlesKept ==
    [][bigIntNew => \A i \in DOMAIN host.big :
                        i \in DOMAIN host'.big /\ host'.big[i] = host.big[i]]_eeiVars

\* The size of every big integer is paid for, up to the length that costs nothing
\* extra: no sequence of operations, of nested calls and of returns makes numbers
\* grow faster than the gas they use.  Free are two operands of normal length, a
\* word (an int64, a balance or the value of the call) and an argument, which came
\* with the transaction.
ArgumentBytes(contract) ==
    Max({0} \cup UNION {{input.args[j].len : j \in 1 .. Len(input.args)} :
                           input \in contract.inputs})
FreeBytes(contract) ==
    Max({2 * NormalLength + 1, WordBytes, ArgumentBytes(contract)})
SizesPaid ==
    \A i \in DOMAIN host.big :
        DataCopyPerByte * WholeBytes(host.big[i])
            <= host.used + DataCopyPerByte * FreeBytes(host.contract)

\* An int64 is loaded as it was stored, negative or not, in the same transaction or
\* a later one, as long as the load has the signedness of the store.
NumbersKept ==
    host.state = "running" =>
        \A k \in NumberKeys :
            LET n == view.current.numbers[k]
                b == Held(host, Self, k)
            IN n # <<>> => IF n[1] = "unsigned"
                           THEN DecodeUnsigned(b) = [ok |-> TRUE, value |-> n[2]]
                           ELSE DecodeSigned(b) = [ok |-> TRUE, value |-> n[2]]
=============================================================================
