----------------------------- MODULE BigIntEEI -----------------------------
(***************************************************************************)
(* The functions of the EEI on numbers: managed big integers               *)
(* (elrondapi/bigIntOps.go) and the int64 values of the contract            *)
(* (elrondapi/smallIntOps.go).  A function is an action; what it does to     *)
(* the contexts is an operator of EEIContexts.                               *)
(*                                                                          *)
(* inMemory tells whether the offsets and lengths the contract passes       *)
(* denote parts of its memory (WasmMemory says which do); reading or        *)
(* writing elsewhere is a fault.                                            *)
(***************************************************************************)
EXTENDS EEIContexts

CONSTANTS
    ShiftBits,       \* the numbers of bits a contract shifts by
    MemoryStrings,   \* the byte strings a contract has in its memory
    ContractInts,    \* the int64 values a contract computes by itself
    ArgumentIds,     \* the argument numbers a contract asks for
    NumberKeys       \* the storage keys under which it keeps numbers

ASSUME NumbersAssumption ==
    /\ \A b \in MemoryStrings : IsData(b)
    /\ ContractInts \subseteq Int64s
    /\ ShiftBits \cup ArgumentIds \subseteq Int
    /\ NumberKeys \subseteq BaseKeys

VARIABLE host

\* A function the contract imports, called while it has gas.
Calls(f) == host.state = "running" /\ f \in host.contract.imports /\ HasGas(host)

\* The call is paid for; the answer of the call before it is gone.
Paid == UseGas([host EXCEPT !.call = NoAnswer], ApiCost)
Panics == host' = [Paid EXCEPT !.state = "panicked"]

\* Bound: no number is longer than MaxBytes bytes, no more than MaxReturnData
\* results are kept.
Bounded(x) == Magnitude(x) < Values(MaxBytes - 1)
MaxReturnData == 2
RoomForResult(h) == Len(h.returnData) < MaxReturnData

-----------------------------------------------------------------------------
(* Gas for large operands.                                                 *)

ExtraGas(x) == IF WholeBytes(x) > NormalLength THEN WholeBytes(x) * DataCopyPerByte ELSE 0
useExtraGasForOperations(h, handles) ==
    UseGas(h, SumFunction([n \in DOMAIN handles |-> ExtraGas(h.big[handles[n]])]))

-----------------------------------------------------------------------------
(* Arguments, storage, call value and balances.                            *)

Argument(f, Decode(_)) ==
    \E id \in ArgumentIds, d \in Handles :
        /\ Calls(f)
        /\ IF Len(host.input.args) <= id THEN host' = Paid
           ELSE IF id < 0 THEN Panics
           ELSE host' = SetOne(Paid, d, Decode(host.input.args[id + 1]))
bigIntGetUnsignedArgument == Argument("bigIntGetUnsignedArgument", SetBytes)
bigIntGetSignedArgument == Argument("bigIntGetSignedArgument", TwosSetBytes)

\* A store answers the status, an error of the storage context is a fault.
Stores(f, about, r) == host' = IF r.err THEN WithFault(r.host)
                              ELSE Answered(r.host, f, about, r.status)

bigIntStorageStoreUnsigned ==
    \E k \in NumberKeys, s \in Handles, inMemory \in BOOLEAN :
        /\ Calls("bigIntStorageStoreUnsigned")
        /\ IF ~inMemory THEN host' = WithFault(Paid)
           ELSE LET h == GetOne(Paid, s)
                IN Stores("bigIntStorageStoreUnsigned", k,
                          SetStorage(h, k, Bytes(h.big[s])))

bigIntStorageLoadUnsigned ==
    \E k \in NumberKeys, d \in Handles, inMemory \in BOOLEAN :
        /\ Calls("bigIntStorageLoadUnsigned")
        /\ IF ~inMemory THEN host' = WithFault(Paid)
           ELSE LET r == GetStorage(Paid, k)
                IN host' = Answered(SetOne(r.host, d, SetBytes(r.value)),
                                    "bigIntStorageLoadUnsigned", k, r.value.len)

bigIntGetCallValue ==
    \E d \in Handles : /\ Calls("bigIntGetCallValue")
                       /\ host' = SetOne(Paid, d, host.input.value)

\* Without a token the number is left as it was.
bigIntGetESDTCallValue ==
    \E d \in Handles :
        /\ Calls("bigIntGetESDTCallValue")
        /\ host' = LET h == GetOne(Paid, d)
                   IN IF host.input.esdt = <<>> THEN h
                      ELSE SetOne(h, d, host.input.esdt[1])

bigIntGetExternalBalance ==
    \E d \in Handles, inMemory \in BOOLEAN :
        /\ Calls("bigIntGetExternalBalance")
        /\ host' = IF inMemory THEN SetOne(Paid, d, host.chain.balance)
                   ELSE WithFault(Paid)

\* getESDTDataFromBlockchainHook charges again; hookOK: the hook has no error.
bigIntGetESDTExternalBalance ==
    \E d \in Handles, inMemory \in BOOLEAN, hookOK \in BOOLEAN :
        /\ Calls("bigIntGetESDTExternalBalance")
        /\ host' = IF inMemory /\ hookOK
                   THEN SetOne(UseGas(Paid, ApiCost), d, host.chain.balance)
                   ELSE WithFault(UseGas(Paid, ApiCost))

-----------------------------------------------------------------------------
(* Numbers, handles and bytes.                                             *)

bigIntNew ==
    \E x \in ContractInts : /\ Calls("bigIntNew")
                            /\ FreeHandles(host) # {}
                            /\ host' = Put(Paid, x)

ByteLengths(f, Encode(_)) ==
    \E i \in Handles : /\ Calls(f)
                       /\ LET h == GetOne(Paid, i)
                          IN host' = Answered(h, f, i, Encode(h.big[i]).len)
bigIntUnsignedByteLength == ByteLengths("bigIntUnsignedByteLength", Bytes)
bigIntSignedByteLength == ByteLengths("bigIntSignedByteLength", TwosToBytes)

\* The copy is paid for after it was made.
GetsBytes(f, Encode(_)) ==
    \E i \in Handles, inMemory \in BOOLEAN :
        /\ Calls(f)
        /\ LET h == GetOne(Paid, i)
               bytes == Encode(h.big[i])
           IN host' = IF ~inMemory /\ bytes.len > 0 THEN WithFault(h)
                      ELSE Answered(UseGas(h, DataCopyPerByte * bytes.len), f, i, bytes.len)
bigIntGetUnsignedBytes == GetsBytes("bigIntGetUnsignedBytes", Bytes)
bigIntGetSignedBytes == GetsBytes("bigIntGetSignedBytes", TwosToBytes)

SetsBytes(f, Decode(_)) ==
    \E d \in Handles, bytes \in MemoryStrings, inMemory \in BOOLEAN :
        /\ Calls(f)
        /\ host' = IF ~inMemory THEN WithFault(Paid)
                   ELSE UseGas(SetOne(Paid, d, Decode(bytes)), DataCopyPerByte * bytes.len)
bigIntSetUnsignedBytes == SetsBytes("bigIntSetUnsignedBytes", SetBytes)
bigIntSetSignedBytes == SetsBytes("bigIntSetSignedBytes", TwosSetBytes)

bigIntIsInt64 ==
    \E i \in Handles : /\ Calls("bigIntIsInt64")
                       /\ LET h == GetOne(Paid, i)
                          IN host' = Answered(h, "bigIntIsInt64", i,
                                              IF IsInt64(h.big[i]) THEN 1 ELSE 0)
bigIntGetInt64 ==
    \E i \in Handles : /\ Calls("bigIntGetInt64")
                       /\ LET h == GetOne(Paid, i)
                          IN host' = Answered(h, "bigIntGetInt64", i, BigToInt64(h.big[i]))
bigIntSetInt64 ==
    \E d \in Handles, x \in ContractInts :
        Calls("bigIntSetInt64") /\ host' = SetOne(Paid, d, x)

-----------------------------------------------------------------------------
(* Arithmetic.  Quo and Rem truncate, Div and Mod are Euclidean.           *)

Never(x, y) == FALSE
DivZero(x, y) == y = 0
BitwiseNegative(x, y) == x < 0 \/ y < 0

Add(x, y) == x + y
Sub(x, y) == x - y
Mul(x, y) == x * y
SignOf(x) == IF x < 0 THEN -1 ELSE IF x > 0 THEN 1 ELSE 0
Quo(x, y) == SignOf(x) * SignOf(y) * (Magnitude(x) \div Magnitude(y))
Rem(x, y) == x - y * Quo(x, y)
Mod(x, y) == x % Magnitude(y)
Div(x, y) == Quo(x - Mod(x, y), y)

\* Bits b of numbers that are not negative.
BitPositions == 0 .. 2 * MaxBytes
Bit(x, b) == (x \div Power(2, b)) % 2
BitByBit(x, y, Op(_, _)) ==
    SumFunction([b \in BitPositions |-> Op(Bit(x, b), Bit(y, b)) * Power(2, b)])
And(x, y) == BitByBit(x, y, LAMBDA p, q : p * q)
Or(x, y) == BitByBit(x, y, LAMBDA p, q : IF p + q > 0 THEN 1 ELSE 0)
Xor(x, y) == BitByBit(x, y, LAMBDA p, q : (p + q) % 2)

\* destPaid: the destination's present number is paid for too.
Binary(f, destPaid, Faulty(_, _), Op(_, _)) ==
    \E d \in Handles, a \in Handles, b \in Handles :
        /\ Calls(f)
        /\ LET h == useExtraGasForOperations(GetThree(Paid, d, a, b),
                        IF destPaid THEN <<d, a, b>> ELSE <<a, b>>)
               x == h.big[a]
               y == h.big[b]
           IN IF Faulty(x, y) THEN host' = WithFault(h)
              ELSE /\ Bounded(Op(x, y))
                   /\ host' = SetOne(h, d, Op(x, y))
bigIntAdd == Binary("bigIntAdd", TRUE, Never, Add)
bigIntSub == Binary("bigIntSub", TRUE, Never, Sub)
bigIntMul == Binary("bigIntMul", TRUE, Never, Mul)
bigIntTDiv == Binary("bigIntTDiv", TRUE, DivZero, Quo)
bigIntTMod == Binary("bigIntTMod", TRUE, DivZero, Rem)
bigIntEDiv == Binary("bigIntEDiv", TRUE, DivZero, Div)
bigIntEMod == Binary("bigIntEMod", TRUE, DivZero, Mod)
bigIntAnd == Binary("bigIntAnd", FALSE, BitwiseNegative, And)
bigIntOr == Binary("bigIntOr", FALSE, BitwiseNegative, Or)
bigIntXor == Binary("bigIntXor", FALSE, BitwiseNegative, Xor)

Unary(f, Faulty(_), Op(_)) ==
    \E d \in Handles, a \in Handles :
        /\ Calls(f)
        /\ LET h == useExtraGasForOperations(GetTwo(Paid, d, a), <<d, a>>)
           IN IF Faulty(h.big[a]) THEN host' = WithFault(h)
              ELSE /\ Bounded(Op(h.big[a]))
                   /\ host' = SetOne(h, d, Op(h.big[a]))
bigIntAbs == Unary("bigIntAbs", LAMBDA x : FALSE, Magnitude)
bigIntNeg == Unary("bigIntNeg", LAMBDA x : FALSE, LAMBDA x : -x)
bigIntNot == Unary("bigIntNot", LAMBDA x : x < 0, LAMBDA x : -x - 1)

\* The result of a shift is paid for once it is there.
Shift(f, Op(_, _)) ==
    \E d \in Handles, a \in Handles, bits \in ShiftBits :
        /\ Calls(f)
        /\ LET h == useExtraGasForOperations(GetTwo(Paid, d, a), <<a>>)
               x == h.big[a]
           IN IF x < 0 \/ bits < 0 THEN host' = WithFault(h)
              ELSE /\ Bounded(Op(x, bits))
                   /\ host' = useExtraGasForOperations(SetOne(h, d, Op(x, bits)), <<d>>)
bigIntShr == Shift("bigIntShr", LAMBDA x, bits : x \div Power(2, bits))
bigIntShlUnpaid ==
    \E d \in Handles, a \in Handles, bits \in ShiftBits :
        /\ Calls("bigIntShl") /\ bits >= 0
        /\ LET h == GetTwo(Paid, d, a)
           IN /\ h.big[a] >= 0 /\ Bounded(h.big[a] * Power(2, bits))
              /\ host' = SetOne(h, d, h.big[a] * Power(2, bits))
bigIntShl == Shift("bigIntShl", LAMBDA x, bits : x * Power(2, bits))

bigIntSign ==
    \E i \in Handles : /\ Calls("bigIntSign")
                       /\ LET h == useExtraGasForOperations(GetOne(Paid, i), <<i>>)
                          IN host' = Answered(h, "bigIntSign", i, SignOf(h.big[i]))
bigIntCmp ==
    \E a \in Handles, b \in Handles :
        /\ Calls("bigIntCmp")
        /\ LET h == useExtraGasForOperations(GetTwo(Paid, a, b), <<a, b>>)
           IN host' = Answered(h, "bigIntCmp", a, SignOf(h.big[a] - h.big[b]))

Finishes(f, Encode(_)) ==
    \E i \in Handles :
        /\ Calls(f) /\ RoomForResult(host)
        /\ LET h == GetOne(Paid, i)
               bytes == Encode(h.big[i])
           IN host' = UseGas(Finish(h, bytes), PersistPerByte * bytes.len)
bigIntFinishUnsigned == Finishes("bigIntFinishUnsigned", Bytes)
bigIntFinishSigned == Finishes("bigIntFinishSigned", TwosToBytes)

-----------------------------------------------------------------------------
(* int64 values.  An unsigned one is the uint64 with the same bits.        *)

EncodeMagnitude(x) == Bytes(x)
EncodeUnsigned(x) == Bytes(ToUint64(x))
DecodeUnsigned(b) == [ok |-> IsUint64(SetBytes(b)), value |-> ToInt64(SetBytes(b))]
EncodeSigned(x) == TwosToBytes(x)
DecodeSigned(b) == [ok |-> IsInt64(TwosSetBytes(b)), value |-> TwosSetBytes(b)]

\* int64getArgument is the old name of the signed function.
SmallArgument(names, Decode(_)) ==
    \E f \in names, id \in ArgumentIds :
        /\ Calls(f)
        /\ host' = IF id < 0 \/ id >= Len(host.input.args) THEN WithFault(Paid)
                   ELSE LET n == Decode(host.input.args[id + 1])
                        IN IF n.ok THEN Answered(Paid, f, id, n.value) ELSE WithFault(Paid)
smallIntGetUnsignedArgument ==
    SmallArgument({"smallIntGetUnsignedArgument"}, DecodeUnsigned)
smallIntGetSignedArgument ==
    SmallArgument({"smallIntGetSignedArgument", "int64getArgument"}, DecodeSigned)

SmallFinish(names, Encode(_)) ==
    \E f \in names, x \in ContractInts :
        /\ Calls(f) /\ RoomForResult(host)
        /\ host' = Finish(Paid, Encode(x))
smallIntFinishUnsigned == SmallFinish({"smallIntFinishUnsigned"}, EncodeUnsigned)
smallIntFinishSigned == SmallFinish({"smallIntFinishSigned", "int64finish"}, EncodeSigned)

SmallStore(names, Encode(_)) ==
    \E f \in names, k \in NumberKeys, x \in ContractInts, inMemory \in BOOLEAN :
        /\ Calls(f)
        /\ IF ~inMemory THEN host' = WithFault(Paid)
           ELSE Stores(f, <<k, x>>, SetStorage(Paid, k, Encode(x)))
smallIntStorageStoreUnsigned ==
    SmallStore({"smallIntStorageStoreUnsigned", "int64storageStore"}, EncodeUnsigned)
smallIntStorageStoreSigned == SmallStore({"smallIntStorageStoreSigned"}, EncodeSigned)

SmallLoad(names, Decode(_)) ==
    \E f \in names, k \in NumberKeys, inMemory \in BOOLEAN :
        /\ Calls(f)
        /\ host' = IF ~inMemory THEN WithFault(Paid)
                   ELSE LET r == GetStorage(Paid, k)
                            n == Decode(r.value)
                        IN IF n.ok THEN Answered(r.host, f, k, n.value)
                           ELSE WithFault(r.host)
smallIntStorageLoadUnsigned ==
    SmallLoad({"smallIntStorageLoadUnsigned", "int64storageLoad"}, DecodeUnsigned)
smallIntStorageLoadSigned == SmallLoad({"smallIntStorageLoadSigned"}, DecodeSigned)
=============================================================================
