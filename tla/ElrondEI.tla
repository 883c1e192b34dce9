------------------------------ MODULE ElrondEI ------------------------------
(***************************************************************************)
(* The functions of elrondapi/elrondei.go: what a contract learns of its    *)
(* call, of the block and of other accounts; its storage and its time       *)
(* locks; logs and return data; and the calls of other contracts that run   *)
(* on the caller's behalf.  Deployments and asynchronous calls are in        *)
(* Deployment and AsyncPromises, transfers with executions in VMHost.       *)
(***************************************************************************)
EXTENDS CryptoEEI

CONSTANTS
    ContractKeys,      \* the keys a contract passes to storageStore
    ReadKeys,          \* the keys a contract passes to the loads of its storage
    LockTimes,         \* the timestamps a contract passes to setStorageLock
    TokenNameLength,   \* the length of the name of the token of the call
    MaxFrames,         \* bound: calls of contracts inside each other
    MaxReadOnlyDepth,  \* bound: of these, read-only ones
    MaxLogs            \* bound: logs written

ASSUME ElrondAssumption ==
    /\ ContractKeys \cup ReadKeys \subseteq BaseKeys
    /\ LockTimes \subseteq Int64s
    /\ CryptoLengths \subseteq Int
    /\ {TokenNameLength, MaxFrames, MaxReadOnlyDepth, MaxLogs} \subseteq Nat

-----------------------------------------------------------------------------
(* What a contract learns.                                                 *)

\* A value answered directly.
Tells(f, about, value) == Calls(f) /\ host' = Answered(Paid, f, about, value)

\* A value written into the contract's memory; an empty one needs no room.
TellsInMemory(f, about, bytes, inMemory) ==
    /\ Calls(f)
    /\ host' = IF ~inMemory /\ bytes > 0 THEN WithFault(Paid)
               ELSE Answered(Paid, f, about, bytes)

getGasLeft == Tells("getGasLeft", "gas", GasLeft(Paid))

\* The block of the transaction and the one before it.
getBlockTimestamp == Tells("getBlockTimestamp", "current", host.chain.now)
getBlockNonce == Tells("getBlockNonce", "current", host.chain.now)
getBlockRound == Tells("getBlockRound", "current", host.chain.now)
getBlockEpoch == Tells("getBlockEpoch", "current", host.chain.now)
getPrevBlockTimestamp == Tells("getPrevBlockTimestamp", "last", host.chain.now - 1)
getPrevBlockNonce == Tells("getPrevBlockNonce", "last", host.chain.now - 1)
getPrevBlockRound == Tells("getPrevBlockRound", "last", host.chain.now - 1)
getPrevBlockEpoch == Tells("getPrevBlockEpoch", "last", host.chain.now - 1)
HashLen == 1
getBlockRandomSeed == \E inMemory \in BOOLEAN :
    TellsInMemory("getBlockRandomSeed", "current", HashLen, inMemory)
getPrevBlockRandomSeed == \E inMemory \in BOOLEAN :
    TellsInMemory("getPrevBlockRandomSeed", "last", HashLen, inMemory)
getStateRootHash == \E inMemory \in BOOLEAN :
    TellsInMemory("getStateRootHash", "current", HashLen, inMemory)
\* BlockHash has no hash for a block it cannot answer for.
blockHash == \E inMemory \in BOOLEAN, known \in BOOLEAN :
    TellsInMemory("blockHash", "nonce", IF known THEN HashLen ELSE 0, inMemory)
getOriginalTxHash == \E inMemory \in BOOLEAN :
    TellsInMemory("getOriginalTxHash", "tx", HashLen, inMemory)

\* Addresses.
AddressLen == 1
getSCAddress == \E inMemory \in BOOLEAN :
    TellsInMemory("getSCAddress", host.address, AddressLen, inMemory)
getCaller == \E inMemory \in BOOLEAN :
    TellsInMemory("getCaller", host.input.caller, AddressLen, inMemory)
getOwnerAddress == \E inMemory \in BOOLEAN, found \in BOOLEAN :
    TellsInMemory("getOwnerAddress", host.address, AddressLen, inMemory /\ found)

\* What is asked of an address in memory.
AsksOfAddress(f, about, value) ==
    \E inMemory \in BOOLEAN :
        /\ Calls(f)
        /\ host' = IF inMemory THEN Answered(Paid, f, about, value) ELSE WithFault(Paid)
getShardOfAddress == \E a \in StoredAccounts : AsksOfAddress("getShardOfAddress", a, 0)
isSmartContract == \E a \in StoredAccounts \cup {NoAccount} :
    AsksOfAddress("isSmartContract", a, IF a = NoAccount THEN 0 ELSE 1)
getExternalBalance == \E a \in StoredAccounts :
    AsksOfAddress("getExternalBalance", a, host.chain.balance)

\* The call itself.  A zero value has no bytes and is not padded.
BalanceLen == WordBytes
CallValueLength(value) == PadBytesLeft(Bytes(value), BalanceLen).len
callValue == \E inMemory \in BOOLEAN :
    TellsInMemory("callValue", "egld", CallValueLength(host.input.value), inMemory)
getESDTValue == \E inMemory \in BOOLEAN :
    TellsInMemory("getESDTValue", "esdt",
                  IF host.input.esdt = <<>> THEN 0 ELSE CallValueLength(host.input.esdt[1]),
                  inMemory)
NameLength == IF host.input.esdt = <<>> THEN 0 ELSE TokenNameLength
getESDTTokenName == \E inMemory \in BOOLEAN :
    TellsInMemory("getESDTTokenName", "esdt", NameLength, inMemory)
\* The name is copied into a slice of length zero: none of it arrives.
getCallValueTokenName == \E inMemory \in BOOLEAN :
    /\ Calls("getCallValueTokenName")
    /\ LET paid == IF NameLength > 0 THEN host.input.esdt[1] ELSE host.input.value
       IN host' = IF ~inMemory /\ CallValueLength(paid) > 0 THEN WithFault(Paid)
                  ELSE Answered(Paid, "getCallValueTokenName", paid, 0)
getESDTTokenNonce == Tells("getESDTTokenNonce", "esdt", Len(host.input.esdt))
getESDTTokenType == Tells("getESDTTokenType", "esdt", Len(host.input.esdt))

checkNoPayment ==
    /\ Calls("checkNoPayment")
    /\ host' = IF host.input.value > 0 \/ (host.input.esdt # <<>> /\ host.input.esdt[1] > 0)
               THEN WithFault(Paid) ELSE Paid

getNumArguments == Tells("getNumArguments", "args", Len(host.input.args))
IsArgument(id) == 0 <= id /\ id < Len(host.input.args)
getArgumentLength == \E id \in ArgumentIds :
    Tells("getArgumentLength", id, IF IsArgument(id) THEN host.input.args[id + 1].len ELSE -1)
getArgument == \E id \in ArgumentIds, inMemory \in BOOLEAN :
    IF IsArgument(id)
    THEN TellsInMemory("getArgument", id, host.input.args[id + 1].len, inMemory)
    ELSE Tells("getArgument", id, -1)
getFunction == \E inMemory \in BOOLEAN :
    TellsInMemory("getFunction", "call", 1, inMemory)

\* Results of the calls so far.  The number is not checked to be at least 0.
getNumReturnData == Tells("getNumReturnData", "results", Len(host.returnData))
getReturnDataSize == \E id \in ArgumentIds :
    IF id >= Len(host.returnData) THEN Tells("getReturnDataSize", id, 0)
    ELSE IF id < 0 THEN Calls("getReturnDataSize") /\ Panics
    ELSE Tells("getReturnDataSize", id, host.returnData[id + 1].len)
getReturnData == \E id \in ArgumentIds, inMemory \in BOOLEAN :
    IF id >= Len(host.returnData) THEN Tells("getReturnData", id, 0)
    ELSE IF id < 0 THEN Calls("getReturnData") /\ Panics
    ELSE TellsInMemory("getReturnData", id, host.returnData[id + 1].len, inMemory)

\* Tokens of an address, asked of the Node; hookOK: the hook has no error.
AsksOfToken(f, About) ==
    \E inMemory \in BOOLEAN, hookOK \in BOOLEAN :
        /\ Calls(f)
        /\ host' = IF inMemory /\ hookOK THEN Answered(About, f, "esdt", 0)
                   ELSE WithFault(Paid)
getESDTBalance == AsksOfToken("getESDTBalance", Paid)
getESDTNFTNameLength == AsksOfToken("getESDTNFTNameLength", Paid)
getESDTNFTAttributeLength == AsksOfToken("getESDTNFTAttributeLength", Paid)
getESDTNFTURILength == AsksOfToken("getESDTNFTURILength", Paid)
\* The value and, for a token with metadata, the royalties are put into numbers:
\* the value before the first write that may fail, the royalties before the last.
getESDTTokenData ==
    \E d \in Handles, e \in Handles, metadata \in BOOLEAN, inMemory \in BOOLEAN, hookOK \in BOOLEAN :
        /\ Calls("getESDTTokenData")
        /\ LET valued == SetOne(Paid, d, host.chain.balance)
           IN host' = IF ~hookOK THEN WithFault(Paid)
                      ELSE IF ~inMemory THEN WithFault(valued)
                      ELSE IF metadata THEN SetOne(valued, e, 0) ELSE valued
\* An error is the nonce 0 here.
getCurrentESDTNFTNonce ==
    \E a \in StoredAccounts, inMemory \in BOOLEAN :
        /\ Calls("getCurrentESDTNFTNonce")
        /\ host' = IF ~inMemory THEN Answered(Paid, "getCurrentESDTNFTNonce", a, 0)
                   ELSE LET r == GetStorageFromAddress(Paid, a, NodeKey)
                        IN Answered(r.host, "getCurrentESDTNFTNonce", a, SetBytes(r.value))

-----------------------------------------------------------------------------
(* Storage and time locks.                                                 *)

storageStore ==
    \E k \in ContractKeys, data \in MemoryStrings, inMemory \in BOOLEAN :
        /\ Calls("storageStore")
        /\ IF ~inMemory THEN host' = WithFault(Paid)
           ELSE Stores("storageStore", k, SetStorage(Paid, k, data))

Loads(f, about, r) == host' = Answered(r.host, f, about, r.value)

storageLoadLength ==
    \E k \in ReadKeys, inMemory \in BOOLEAN :
        /\ Calls("storageLoadLength")
        /\ IF inMemory THEN Loads("storageLoadLength", <<host.address, k>>, GetStorageUnmetered(Paid, k))
           ELSE host' = WithFault(Paid)
storageLoad ==
    \E k \in ReadKeys, inMemory \in BOOLEAN, room \in BOOLEAN :
        /\ Calls("storageLoad")
        /\ LET r == GetStorage(Paid, k)
           IN IF ~inMemory THEN host' = WithFault(Paid)
              ELSE IF ~room /\ r.value.len > 0 THEN host' = WithFault(r.host)
              ELSE Loads("storageLoad", <<host.address, k>>, r)
storageLoadFromAddress ==
    \E a \in StoredAccounts, k \in BaseKeys, inMemory \in BOOLEAN, room \in BOOLEAN :
        /\ Calls("storageLoadFromAddress")
        /\ LET r == GetStorageFromAddress(Paid, a, k)
           IN IF ~inMemory THEN host' = WithFault(Paid)
              ELSE IF ~room /\ r.value.len > 0 THEN host' = WithFault(r.host)
              ELSE Loads("storageLoadFromAddress", <<a, k>>, r)

SetsLock(f, key, timestamp, inMemory) ==
    /\ Calls(f)
    /\ IF ~inMemory THEN host' = WithFault(Paid)
       ELSE Stores(f, <<key, timestamp>>,
                   SetProtectedStorage(Paid, CustomStorageKey(key), Bytes(timestamp)))
setStorageLock == \E k \in ContractKeys, t \in LockTimes, inMemory \in BOOLEAN :
    SetsLock("setStorageLock", k, t, inMemory)
clearStorageLock == \E k \in ContractKeys, inMemory \in BOOLEAN :
    SetsLock("clearStorageLock", k, 0, inMemory)

isUnlockedLate(timeLock, now) == timeLock < now
isUnlocked(timeLock, now) == timeLock <= now
LockOf(h, key) == GetStorage(h, CustomStorageKey(key))
getStorageLock ==
    \E k \in ContractKeys, inMemory \in BOOLEAN :
        /\ Calls("getStorageLock")
        /\ LET r == LockOf(Paid, k)
           IN host' = IF ~inMemory THEN WithFault(Paid)
                      ELSE Answered(r.host, "getStorageLock", k, ToInt64(SetBytes(r.value)))
isStorageLocked ==
    \E k \in ContractKeys, inMemory \in BOOLEAN :
        /\ Calls("isStorageLocked")
        /\ LET r == LockOf(Paid, k)
               timeLock == ToInt64(SetBytes(r.value))
           IN host' = IF ~inMemory THEN WithFault(Paid)
                      ELSE IF timeLock < 0 THEN Answered(r.host, "isStorageLocked", k, -1)
                      ELSE Answered(UseGas(r.host, ApiCost), "isStorageLocked", k,
                                    IF isUnlocked(timeLock, host.chain.now) THEN 0 ELSE 1)

-----------------------------------------------------------------------------
(* Logs, return data, transfers, errors.                                   *)

\* Topics and data are paid for before they are read.
writeLog ==
    \E length \in CryptoLengths, topics \in CryptoLengths, inMemory \in BOOLEAN :
        /\ Calls("writeLog") /\ host.logs < MaxLogs
        /\ LET h == UseGas(Paid, GasForBytes(PersistPerByte, topics * HashLen + length))
           IN host' = IF NotLoaded(length, inMemory) \/ NotLoaded(topics, inMemory)
                      THEN WithFault(h) ELSE WriteLog(h)
\* Here they are read first.
writeEventLog ==
    \E length \in CryptoLengths, topics \in CryptoLengths, inMemory \in BOOLEAN :
        /\ Calls("writeEventLog") /\ host.logs < MaxLogs
        /\ host' = IF NotLoaded(topics, inMemory) \/ NotLoaded(length, inMemory)
                   THEN WithFault(host)
                   ELSE WriteLog(UseGas(Paid, DataCopyPerByte * (topics + length)))

\* A negative length is charged for like an enormous one.
returnData ==
    \E data \in MemoryStrings, inMemory \in BOOLEAN, negative \in BOOLEAN :
        /\ Calls("finish") /\ RoomForResult(host)
        /\ LET h == UseGas(Paid, GasForBytes(PersistPerByte, IF negative THEN -1 ELSE data.len))
           IN host' = IF negative \/ NotLoaded(data.len, inMemory) THEN WithFault(h)
                      ELSE Finish(h, data)

\* A transfer that would call a built-in function is refused without a fault.
transferValue ==
    \E value \in ContractInts, inMemory \in BOOLEAN, builtIn \in BOOLEAN :
        /\ Calls("transferValue") /\ value >= 0
        /\ LET h == UseGas(Paid, PersistPerByte)
           IN host' = IF ~inMemory THEN WithFault(h)
                      ELSE IF builtIn THEN Answered(h, "transferValue", value, 1)
                      ELSE IF value > host.chain.balance - host.sent[host.address] THEN WithFault(h)
                      ELSE Answered([h EXCEPT !.sent[h.address] = @ + value], "transferValue", value, 0)
\* Deprecated: it costs gas and does nothing.
transferESDT ==
    \E length \in CryptoLengths :
        /\ Calls("transferESDT")
        /\ host' = Answered(UseGas(Paid, GasForBytes(PersistPerByte, length)), "transferESDT", length, 1)

signalError ==
    \E inMemory \in BOOLEAN :
        /\ Calls("signalError")
        /\ host' = IF inMemory THEN [Paid EXCEPT !.state = "userError"] ELSE WithFault(Paid)

-----------------------------------------------------------------------------
(* Calls of other contracts.  The callee gets all the gas that is left; one *)
(* that fails makes the function that called it a fault.                    *)

Frame(f) == [f |-> f, address |-> host.address, readOnly |-> host.readOnly,
             big |-> host.big, input |-> host.input, returnData |-> host.returnData]
Depth(f) == Cardinality({i \in DOMAIN host.frames : host.frames[i].f = f})

\* Address, value and function must be in memory; if the arguments are not, their
\* error is dropped and the callee gets none.
extractIndirectContractCallArguments(inMemory, argsInMemory) ==
    LET args == IF argsInMemory THEN host.input.args ELSE <<>>
    IN [err |-> ~inMemory, args |-> args,
        host |-> UseGas(Paid, DataCopyPerByte * Len(args))]

\* The caller's state is pushed, the callee gets its arguments.
CallInput(r, f) == [r.host EXCEPT !.frames = Append(@, Frame(f)), !.input.args = r.args]

\* Then prepareIndirectContractCallInput wants a callee of this shard, isBuiltInCall
\* refuses built-in functions without a fault, and the caller must have the value
\* it sends.
Indirect(f, Entered(_)) ==
    \E inMemory, argsInMemory, sameShard, builtIn, funds \in BOOLEAN :
        /\ Calls(f) /\ Len(host.frames) < MaxFrames
        /\ LET r == extractIndirectContractCallArguments(inMemory, argsInMemory)
           IN host' = IF r.err THEN WithFault(host)
                      ELSE IF ~sameShard THEN WithFault(r.host)
                      ELSE IF builtIn THEN Answered(r.host, f, "call", 1)
                      ELSE IF ~funds THEN WithFault(r.host)
                      ELSE Entered(CallInput(r, f))

\* On the caller's context: storage and big integers are the caller's.
SameContext(h) == [h EXCEPT !.input.caller = h.address]
delegateExecution == Indirect("delegateExecution", SameContext)
ReadOnlyContext(h) == [SameContext(h) EXCEPT !.readOnly = TRUE]
executeReadOnly ==
    /\ Depth("executeReadOnly") < MaxReadOnlyDepth
    /\ Indirect("executeReadOnly", ReadOnlyContext)

\* On the callee's own context, as if the caller's caller had called it.
\* CensorVMOutput hides the caller's results and refund from it (and its logs, which
\* no function reads: they stay counted).
DestContext(h) == [h EXCEPT !.address = Other, !.big = [i \in {} |-> 0],
                            !.refund = 0, !.returnData = <<>>]
executeOnDestContextByCaller == Indirect("executeOnDestContextByCaller", DestContext)

\* The callee ends: the runtime state of the caller is restored; executeReadOnly
\* then leaves the read-only mode, whatever the mode was when it was called.  The
\* output of a callee on its own context is merged: its results come after the
\* caller's, its refund replaces the caller's.
StayReadOnly(top, readOnly) == readOnly
ReadOnlyAfter(top, readOnly) == IF top.f = "executeReadOnly" THEN FALSE ELSE top.readOnly
ReturnFromCall ==
    /\ host.state = "running" /\ host.frames # <<>> /\ HasGas(host)
    /\ LET top == host.frames[Len(host.frames)]
           own == top.f = "executeOnDestContextByCaller"
           h == [host EXCEPT !.frames = SubSeq(@, 1, Len(@) - 1),
                             !.address = top.address,
                             !.input = top.input,
                             !.readOnly = ReadOnlyAfter(top, @),
                             !.big = IF own THEN top.big ELSE @,
                             !.returnData = IF own THEN top.returnData \o @ ELSE @]
       IN host' = Answered(h, top.f, "call", 0)

\* Wasmer stops a contract that has used more than it was given.
OutOfGas == /\ host.state = "running" /\ ~HasGas(host)
            /\ host' = [host EXCEPT !.state = "failed"]
=============================================================================
