---------------------------- MODULE EEIContexts ----------------------------
(***************************************************************************)
(* The contexts behind the functions of the EEI, while one contract runs:  *)
(* metering (points used, refund), storage (the cache of StorageUpdates     *)
(* over the storage of the Node), managed big integers, return data and     *)
(* logs, and the read-only flag of the runtime.  The contexts are one        *)
(* record, host; every operator here takes a host and answers the host      *)
(* that the method of the same name leaves behind.                          *)
(*                                                                          *)
(* A byte string is a length and the number it denotes; a byte has ByteBase *)
(* values.  The int64 of a contract has WordBytes bytes.                    *)
(*                                                                          *)
(* The field stored is auxiliary: the gas paid for writing storage.         *)
(***************************************************************************)
EXTENDS Overflow, Sequences, FiniteSets, FiniteSetsExt

CONSTANTS
    ByteBase,          \* the values of a byte (256 in the code)
    WordBytes,         \* the bytes of an int64 (8)
    MaxBytes,          \* bound: the longest number a contract computes
    Handles,           \* the handles of big integers a contract uses
    ApiCost,           \* what a call of the EEI costs by itself
    DataCopyPerByte, StorePerByte, PersistPerByte, ReleasePerByte,
    NormalLength,      \* maxBigIntByteLenForNormalCost (32)
    Plain,             \* the names of keys without a special prefix
    ReadableAccounts   \* the other accounts whose metadata says Readable

ASSUME EEIAssumption ==
    /\ ByteBase \in Nat /\ ByteBase % 2 = 0 /\ ByteBase > 0
    /\ WordBytes \in Nat \ {0}
    /\ MaxBytes \in Nat /\ MaxBytes > WordBytes
    /\ Handles \subseteq Int /\ IsFiniteSet(Handles) /\ IsFiniteSet(Plain)
    /\ {ApiCost, DataCopyPerByte, StorePerByte, PersistPerByte,
        ReleasePerByte, NormalLength} \subseteq Nat
    /\ ReleasePerByte <= StorePerByte

-----------------------------------------------------------------------------
(* Numbers and byte strings.                                               *)

Magnitude(x) == IF x < 0 THEN -x ELSE x

\* base ^ n, written out: the provers know nothing of the built-in power.
Power(base, n) ==
    LET power[k \in Nat] == IF k = 0 THEN 1 ELSE base * power[k - 1] IN power[n]
Values(len) == Power(ByteBase, len)   \* of len bytes

ByteString(len, val) == [len |-> len, val |-> val]
NoBytes == ByteString(0, 0)
IsData(b) == b \in [len : 0 .. MaxBytes - 1, val : Nat] /\ b.val < Values(b.len)

\* The fewest bytes that hold n: len(big.Int.Bytes()).
ByteLen(n) == Min({k \in 0 .. MaxBytes : n < Values(k)})
Bytes(x) == ByteString(ByteLen(Magnitude(x)), Magnitude(x))
SetBytes(b) == b.val

\* big.Int.BitLen() \div 8: the whole bytes of the magnitude.
WholeBytes(x) == Max({k \in 0 .. MaxBytes : k = 0 \/ Magnitude(x) >= Values(k) \div 2})

\* Two's complement, of the fewest bytes; zero has none.
TwosToBytes(x) ==
    LET half(k) == Values(k) \div 2
        len == IF x = 0 THEN 0
               ELSE Min({k \in 1 .. MaxBytes : -half(k) <= x /\ x < half(k)})
    IN ByteString(len, IF x < 0 THEN x + Values(len) ELSE x)
TwosSetBytes(b) ==
    IF b.len > 0 /\ b.val >= Values(b.len) \div 2
    THEN b.val - Values(b.len) ELSE b.val

Word == Values(WordBytes)
Int64s == Signed(Word)
IsInt64(x) == x \in Int64s
IsUint64(x) == x \in Unsigned(Word)
ToInt64(x) == WrapSigned(Word, x)
ToUint64(x) == WrapUnsigned(Word, x)

\* big.Int.Int64 and Uint64 of a value too large: its low bits.
BigToInt64(x) == LET low == WrapSigned(Word, Magnitude(x))
                 IN IF x < 0 THEN WrapSigned(Word, -low) ELSE low

\* PadBytesLeft: zeroes in front, nothing in front of an empty string.
PadBytesLeft(b, size) ==
    IF b.len = 0 \/ b.len >= size THEN b ELSE ByteString(size, b.val)

-----------------------------------------------------------------------------
(* Storage keys and accounts.                                              *)

\* A key starts with the prefix of the Node, with Arwen's own, or with neither
\* (then it has one of the names Plain); CustomStorageKey appends the type of a
\* time lock at its end.
Key(prefix, name, lock) == [prefix |-> prefix, name |-> name, lock |-> lock]
ElrondPrefix == "ELROND"
ProtectedStoragePrefix == "ARWEN@"
NoPrefix == ""
NodeKey == Key(ElrondPrefix, "", FALSE)   \* a key the Node keeps for itself
BaseKeys == {Key(NoPrefix, n, FALSE) : n \in Plain}
            \cup {NodeKey, Key(ProtectedStoragePrefix, "", FALSE)}
CustomStorageKey(key) == [key EXCEPT !.lock = TRUE]
AllKeys == BaseKeys \cup {CustomStorageKey(k) : k \in BaseKeys}

\* The bytes of a key beyond the length of an address: those of a lock key.
ExtraBytes(key) == IF key.lock THEN 1 ELSE 0

Self == "self"
Other == "other"
NoAccount == "nobody"
StoredAccounts == {Self, Other}

isElrondReservedKey(key) == key.prefix = ElrondPrefix
isArwenProtectedKey(key) == key.prefix = ProtectedStoragePrefix

NotCached == [len |-> -1, val |-> 0]

-----------------------------------------------------------------------------
(* Metering and faults.                                                    *)

\* The points are Wasmer's counter: nothing stops the function that raises it
\* beyond the gas provided, the contract is stopped when it runs on.
UseGas(h, gas) == [h EXCEPT !.used = @ + gas]
FreeGas(h, gas) == [h EXCEPT !.refund = @ + gas]
GasLeft(h) == SubUint64(0, h.contract.gas, h.used)
HasGas(h) == h.used <= h.contract.gas

\* WithFault with an error: all the gas is used, the execution has failed.
WithFault(h) == [UseGas(h, GasLeft(h)) EXCEPT !.state = "failed"]

\* A call f of the contract, with what it was about and what it answered.
Answered(h, f, about, res) ==
    [h EXCEPT !.call = [f |-> f, about |-> about, res |-> res]]
NoAnswer == [f |-> "none", about |-> "none", res |-> "none"]

-----------------------------------------------------------------------------
(* The storage context.                                                    *)

\* Reads that go through the cache put what the Node answers into it.
Cached(h, a, k) ==
    IF h.updates[a][k] = NotCached
    THEN [h EXCEPT !.updates[a][k] = h.node[a][k]] ELSE h
getStorageFromAddressUnmetered(h, a, k) ==
    LET h1 == Cached(h, a, k) IN [host |-> h1, value |-> h1.updates[a][k]]
GetStorageUnmetered(h, k) == getStorageFromAddressUnmetered(h, h.address, k)

GetStorage(h, k) ==
    LET r == GetStorageUnmetered(UseGas(h, DataCopyPerByte * ExtraBytes(k)), k)
    IN [r EXCEPT !.host = UseGas(@, DataCopyPerByte * r.value.len)]

GetStorageThroughCache(h, a, k) ==
    LET r == getStorageFromAddressUnmetered(h, a, k)
    IN [r EXCEPT !.host = UseGas(@, DataCopyPerByte * r.value.len)]

\* Another account must exist and be readable; keys of the Node are read from
\* the Node.
GetStorageFromAddress(h, a, k) ==
    LET h1 == UseGas(h, DataCopyPerByte * ExtraBytes(k))
        r == IF isElrondReservedKey(k)
             THEN [host |-> h1, value |-> h1.node[a][k]]
             ELSE getStorageFromAddressUnmetered(h1, a, k)
    IN IF a # h.address /\ a \notin ReadableAccounts
       THEN [host |-> h1, value |-> NoBytes]
       ELSE [r EXCEPT !.host = UseGas(@, DataCopyPerByte * r.value.len)]

\* What a longer value costs: keeping the old bytes and storing the new ones.
GrowthUnpaid(old, new) == PersistPerByte * old.len
GrowthCost(old, new) == PersistPerByte * old.len + StorePerByte * (new.len - old.len)

\* What replacing the value old by new costs, and what it gives back.
StoreCharge(old, new) ==
    IF new = old THEN [status |-> "Unchanged", use |-> DataCopyPerByte * new.len, free |-> 0]
    ELSE IF old = NoBytes
    THEN [status |-> "Added", use |-> StorePerByte * new.len, free |-> 0]
    ELSE IF new = NoBytes
    THEN [status |-> "Deleted", use |-> 0, free |-> ReleasePerByte * old.len]
    ELSE IF new.len > old.len
    THEN [status |-> "Modified", use |-> GrowthCost(old, new), free |-> 0]
    ELSE IF new.len < old.len
    THEN [status |-> "Modified", use |-> PersistPerByte * new.len,
          free |-> ReleasePerByte * (old.len - new.len)]
    ELSE [status |-> "Modified", use |-> 0, free |-> 0]

\* The write itself, once it is allowed.
WriteStorage(h, k, value) ==
    LET h1 == Cached(UseGas(h, DataCopyPerByte * ExtraBytes(k)), h.address, k)
        charge == StoreCharge(h1.updates[h.address][k], value)
    IN [host |-> [FreeGas(UseGas(h1, charge.use), charge.free)
                      EXCEPT !.updates[h.address][k] = value,
                             !.stored = @ + charge.use],
        status |-> charge.status, err |-> FALSE]

SetStorageAlways(h, k, value, protection) ==
    IF isElrondReservedKey(k) \/ (isArwenProtectedKey(k) /\ protection)
    THEN [host |-> h, status |-> "Unchanged", err |-> TRUE]
    ELSE WriteStorage(h, k, value)
SetStorageGuarded(h, k, value, protection) ==
    IF h.readOnly
    THEN [host |-> h, status |-> "Unchanged", err |-> FALSE]
    ELSE IF isElrondReservedKey(k) \/ (isArwenProtectedKey(k) /\ protection)
    THEN [host |-> h, status |-> "Unchanged", err |-> TRUE]
    ELSE WriteStorage(h, k, value)
SetStorage(h, k, value) == SetStorageGuarded(h, k, value, TRUE)
SetProtectedStorage(h, k, value) == SetStorageGuarded(h, k, value, FALSE)

-----------------------------------------------------------------------------
(* Big integers, return data, logs.                                        *)

SetOne(h, i, x) ==
    [h EXCEPT !.big = [j \in DOMAIN h.big \cup {i} |-> IF j = i THEN x ELSE h.big[j]]]

\* GetOne makes a zero of a handle that is not in use.
GetOne(h, i) == IF i \in DOMAIN h.big THEN h ELSE SetOne(h, i, 0)
GetTwo(h, i, j) == GetOne(GetOne(h, i), j)
GetThree(h, i, j, k) == GetOne(GetTwo(h, i, j), k)

\* Put looks for a free handle from the number of handles in use on.  Bound: no
\* handle beyond AllHandles.
AllHandles == Handles \cup 0 .. Cardinality(Handles)
FreeHandles(h) == {i \in AllHandles : i >= Cardinality(DOMAIN h.big) /\ i \notin DOMAIN h.big}
PutAtLength(h, x) == SetOne(h, Cardinality(DOMAIN h.big), x)
Put(h, x) == SetOne(h, Min(FreeHandles(h)), x)

Finish(h, data) == [h EXCEPT !.returnData = Append(@, data)]
WriteLog(h) == IF h.readOnly THEN h ELSE [h EXCEPT !.logs = @ + 1]

-----------------------------------------------------------------------------
(* A transaction.                                                          *)

\* The contexts as a transaction finds them: the caches are empty.  The chain holds
\* the time, the balances, and the values the keys of the Node had at the start.
InitState(contract, input, node, chain) ==
    [contract |-> contract, input |-> input, chain |-> chain, node |-> node,
     updates |-> [a \in StoredAccounts |-> [k \in AllKeys |-> NotCached]],
     state |-> "running", used |-> 0, refund |-> 0, stored |-> 0,
     address |-> Self, readOnly |-> FALSE, frames |-> <<>>,
     sent |-> [a \in StoredAccounts |-> 0],
     big |-> [i \in {} |-> 0],
     returnData |-> <<>>, logs |-> 0, call |-> NoAnswer]

\* What the Node keeps of a transaction that succeeded.  It never accepts a
\* value for one of its own keys.
Committed(h) ==
    [a \in StoredAccounts |-> [k \in AllKeys |->
        IF h.updates[a][k] = NotCached \/ isElrondReservedKey(k)
        THEN h.node[a][k] ELSE h.updates[a][k]]]

\* What is left of one that failed: what built-in functions wrote is undone too.
RolledBack(h) ==
    [a \in StoredAccounts |-> [k \in AllKeys |->
        IF k = NodeKey THEN h.chain.reserved[a] ELSE h.node[a][k]]]
=============================================================================
