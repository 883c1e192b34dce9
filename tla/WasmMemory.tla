----------------------------- MODULE WasmMemory -----------------------------
(***************************************************************************)
(* The linear memory of the contract's Wasmer instance, as the functions   *)
(* of the EEI read and write it (MemLoad, MemLoadMultiple and MemStore of   *)
(* arwen/contexts/runtime.go).  Offsets and lengths are int32 values the    *)
(* contract chooses freely; the memory's length is a uint32.  The contents  *)
(* do not matter here: what matters is which part of the memory each Go    *)
(* slice expression takes, because one that leaves the memory ends the      *)
(* process with a panic.                                                    *)
(***************************************************************************)
EXTENDS Overflow, Sequences

CONSTANTS
    Width,        \* 2^32 in the code: the number of values of an int32
    PageSize,     \* 65536 in the code
    MaxPages,     \* the pages Wasmer lets the memory grow to
    MemOffsets,   \* the offsets the contract passes
    MemLengths    \* the lengths the contract passes

ASSUME MemoryAssumption ==
    /\ Width \in Nat /\ Width % 2 = 0 /\ Width > 0
    /\ PageSize \in Nat \ {0}
    /\ MaxPages \in Nat \ {0}
    /\ MaxPages * PageSize < Width
    /\ MemOffsets \subseteq Signed(Width)
    /\ MemLengths \subseteq Signed(Width)

VARIABLES
    memory,       \* the length of the memory, in bytes
    access        \* the last access: the slice taken and what came of it

memVars == <<memory, access>>

Int32(x) == WrapSigned(Width, x)
Uint32(x) == WrapUnsigned(Width, x)

\* An access: what it answered (the error, or "nil"), the slice
\* memoryView[from:to] it took of a memory of length len, if any, and the
\* bytes it hands over.
Access(err, from, to, len, bytes) ==
    [err |-> err, from |-> from, to |-> to, len |-> len, bytes |-> bytes]
NoSlice(err) == Access(err, 0, 0, 0, 0)

-----------------------------------------------------------------------------
(* The operations.                                                         *)

MemLoadUnchecked(offset, length) ==
    IF length = 0 THEN NoSlice("nil")
    ELSE IF offset < 0 THEN NoSlice("ErrBadBounds")
    ELSE IF length < 0 THEN NoSlice("ErrNegativeLength")
    ELSE LET end == AddInt(Width, offset, length)
         IN Access("nil", offset, IF end > memory THEN memory ELSE end, memory, length)

\* Whatever lies beyond the end of the memory reads as zeroes: the result
\* always has the requested length.
MemLoad(offset, length) ==
    LET requestedEnd == AddInt(Width, offset, length)
        isOffsetTooLarge == Uint32(offset) > memory
        isRequestedEndTooLarge == Uint32(requestedEnd) > memory
    IN IF length = 0 THEN NoSlice("nil")
       ELSE IF offset < 0 \/ isOffsetTooLarge THEN NoSlice("ErrBadBounds")
       ELSE IF length < 0 THEN NoSlice("ErrNegativeLength")
       ELSE Access("nil", offset,
                   IF isRequestedEndTooLarge THEN memory ELSE requestedEnd,
                   memory, length)

\* The offset of the next load is computed without a check.
MemLoadMultiple(offset, lengths) ==
    LET OffsetOf[i \in 1 .. Len(lengths)] ==
            IF i = 1 THEN offset ELSE Int32(OffsetOf[i - 1] + lengths[i - 1])
    IN [i \in 1 .. Len(lengths) |-> MemLoad(OffsetOf[i], lengths[i])]

\* Memory.Grow of Wasmer adds a page, or fails and adds none.
GrownMemory == IF memory + PageSize <= MaxPages * PageSize
               THEN memory + PageSize ELSE memory

\* A store beyond the end adds one page at most; a page that was added stays,
\* also when the store is refused because one page is not enough.
MemStore(offset, dataLength) ==
    LET requestedEnd == AddInt(Width, offset, dataLength)
        isNewPageNecessary == Uint32(requestedEnd) > memory
        memoryLength == IF isNewPageNecessary THEN GrownMemory ELSE memory
    IN IF dataLength = 0
       THEN [memory |-> memory, access |-> NoSlice("nil")]
       ELSE IF offset < 0
       THEN [memory |-> memory, access |-> NoSlice("ErrBadLowerBounds")]
       ELSE IF isNewPageNecessary /\ memoryLength = memory
       THEN [memory |-> memory, access |-> NoSlice("ErrGrow")]
       ELSE IF Uint32(requestedEnd) > memoryLength
       THEN [memory |-> memoryLength, access |-> NoSlice("ErrBadUpperBounds")]
       ELSE [memory |-> memoryLength,
             access |-> Access("nil", offset, requestedEnd, memoryLength,
                               dataLength)]

-----------------------------------------------------------------------------
(* The accesses of a contract.                                             *)

MemInit == /\ memory \in {p * PageSize : p \in 0 .. MaxPages}
           /\ access = NoSlice("nil")

LoadStep == \E offset \in MemOffsets, length \in MemLengths :
                /\ access' = MemLoad(offset, length)
                /\ UNCHANGED memory

\* Of several loads the first that fails is the last that is made.
LoadMultipleStep ==
    \E offset \in MemOffsets, l1 \in MemLengths, l2 \in MemLengths :
        LET loads == MemLoadMultiple(offset, <<l1, l2>>)
        IN /\ access' = IF loads[1].err # "nil" THEN loads[1] ELSE loads[2]
           /\ UNCHANGED memory

\* The data stored is a Go slice: its length is not negative.
StoreStep == \E offset \in MemOffsets, length \in MemLengths :
                 /\ length >= 0
                 /\ memory' = MemStore(offset, length).memory
                 /\ access' = MemStore(offset, length).access

MemNext == LoadStep \/ LoadMultipleStep \/ StoreStep

MemSpec == MemInit /\ [][MemNext]_memVars

-----------------------------------------------------------------------------
(* Properties.                                                             *)

MemTypeOK == /\ memory \in 0 .. MaxPages * PageSize
             /\ access \in [err : {"nil", "ErrBadBounds", "ErrNegativeLength",
                                   "ErrBadLowerBounds", "ErrBadUpperBounds",
                                   "ErrGrow"},
                            from : Int, to : Int, len : Int, bytes : Int]

\* No offset and no length the contract may pass makes a slice expression of
\* MemLoad, MemLoadMultiple or MemStore leave the memory, and no access copies
\* more bytes into the memory than its slice holds or hands over fewer than it
\* took: the saturating AddInt32, the conversions to uint32 and the order of the
\* tests in runtime.go together exclude the panic.
SliceWithinMemory ==
    /\ 0 <= access.from /\ access.from <= access.to /\ access.to <= access.len
    /\ access.len <= memory
    /\ access.to - access.from <= access.bytes
=============================================================================
