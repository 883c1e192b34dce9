------------------------------ MODULE EEIProofs ------------------------------
(***************************************************************************)
(* What is proved of the EEI, for any contracts, costs and sizes of the    *)
(* integers.  Its memory is WasmMemory: the steps of the other components  *)
(* leave it alone.                                                         *)
(***************************************************************************)
EXTENDS EEI, SumProofs, SequenceTheorems, TLAPS

-----------------------------------------------------------------------------
(* Linear memory: for every width of the machine integers, every size of    *)
(* the memory and every offset and length that fits an int32, no access     *)
(* leaves the memory.                                                       *)

(* What % does to a number that is less than one modulus out of range. *)
LEMMA ModNear ==
    ASSUME NEW m \in Nat \ {0}, NEW x \in Int
    PROVE  /\ x % m \in 0 .. m - 1
           /\ x \in 0 .. m - 1 => x % m = x
           /\ x \in m .. 2 * m - 1 => x % m = x - m
           /\ x \in -m .. -1 => x % m = x + m
<1>1. x % m \in 0 .. m - 1
  BY SMT
<1>2. x \in 0 .. m - 1 => x % m = x
  BY SMT
<1>3. x \in m .. 2 * m - 1 => x % m = x - m
  BY SMT
<1>4. x \in -m .. -1 => x % m = x + m
  BY SMT
<1> QED
  BY <1>1, <1>2, <1>3, <1>4

(* The constants, as numbers. *)
LEMMA Constants ==
    /\ Width \in Nat \ {0} /\ Width = 2 * (Width \div 2) /\ Width \div 2 \in Nat \ {0}
    /\ PageSize \in Nat \ {0} /\ MaxPages * PageSize \in Nat
    /\ MaxPages * PageSize < Width
<1>1. Width \in Nat /\ Width % 2 = 0 /\ Width > 0
  BY MemoryAssumption
<1>2. Width = 2 * (Width \div 2) /\ Width \div 2 \in Nat \ {0}
  BY <1>1, SMT
<1> QED
  BY <1>1, <1>2, MemoryAssumption

(* Conversions answer a value of their type, and keep one that has it. *)
LEMMA Conversions ==
    ASSUME NEW x \in Int
    PROVE  /\ Int32(x) \in Signed(Width)
           /\ x \in 0 .. Width - 1 => Uint32(x) = x
<1> DEFINE half == Width \div 2
<1>1. half \in Nat \ {0} /\ Width = 2 * half /\ Width \in Nat \ {0}
  BY Constants
<1>2. (x + half) % Width \in 0 .. Width - 1
  BY <1>1, ModNear
<1>3. Int32(x) \in Signed(Width)
  BY <1>1, <1>2 DEF Int32, WrapSigned, Signed
<1>4. x \in 0 .. Width - 1 => Uint32(x) = x
  BY <1>1, ModNear DEF Uint32, WrapUnsigned
<1> QED
  BY <1>3, <1>4

(* AddInt32 of an offset and a positive length: the sum, or the largest     *)
(* int32 when the sum is larger, and never less than the offset.            *)
LEMMA SaturatingEnd ==
    ASSUME NEW offset \in Signed(Width), NEW length \in Signed(Width),
           offset >= 0, length > 0
    PROVE  LET end == AddInt(Width, offset, length)
           IN  /\ end \in offset .. (Width \div 2) - 1
               /\ end - offset <= length
<1> DEFINE half == Width \div 2
           sum == offset + length
           res == WrapSigned(Width, sum)
<1>1. half \in Nat \ {0} /\ Width = 2 * half /\ Width \in Nat \ {0}
  BY Constants
<1>2. /\ offset \in 0 .. half - 1 /\ length \in 1 .. half - 1
      /\ sum + half \in half + 1 .. 2 * Width - 1
  BY <1>1 DEF Signed
<1>3. CASE sum < half
  <2>1. sum + half \in 0 .. Width - 1
    BY <1>1, <1>2, <1>3
  <2>2. res = sum
    <3> HIDE DEF sum, half
    <3>1. sum \in Int
      BY <1>2 DEF sum, half
    <3>2. (sum + half) % Width = sum + half
      <4> DEFINE y == sum + half
      <4>1. y \in Int /\ y \in 0 .. Width - 1
        BY <1>1, <2>1, <3>1
      <4> HIDE DEF y
      <4>2. y % Width = y
        BY <1>1, <4>1, ModNear
      <4> QED
        BY <1>1, <3>1, <4>2 DEF y
    <3>3. res = ((sum + half) % Width) - half
      BY DEF WrapSigned, half
    <3> HIDE DEF res
    <3> QED
      BY <1>1, <3>1, <3>2, <3>3
  <2>3. res > offset <=> length > 0
    BY <1>2, <2>2
  <2>4. AddInt(Width, offset, length) = res
    <3> HIDE DEF res
    <3> QED
      BY <2>3 DEF AddInt, res
  <2> QED
    BY <1>1, <1>2, <1>3, <2>2, <2>4
<1>4. CASE sum >= half
  <2>1. sum + half \in Width .. 2 * Width - 1
    BY <1>1, <1>2, <1>4
  <2>2. res = sum - Width
    <3> HIDE DEF sum, half
    <3>1. sum \in Int
      BY <1>2 DEF sum, half
    <3>2. (sum + half) % Width = sum + half - Width
      <4> DEFINE y == sum + half
      <4>1. y \in Int /\ y \in Width .. 2 * Width - 1
        BY <1>1, <2>1, <3>1
      <4> HIDE DEF y
      <4>2. y % Width = y - Width
        BY <1>1, <4>1, ModNear
      <4> QED
        BY <1>1, <3>1, <4>2 DEF y
    <3>3. res = ((sum + half) % Width) - half
      BY DEF WrapSigned, half
    <3> HIDE DEF res
    <3> QED
      BY <1>1, <3>1, <3>2, <3>3
  <2>3. ~(res > offset <=> length > 0)
    BY <1>1, <1>2, <2>2
  <2>4. AddInt(Width, offset, length) = half - 1
    BY <2>3 DEF AddInt
  <2> QED
    BY <1>1, <1>2, <1>4, <2>4
<1> QED
  BY <1>1, <1>2, <1>3, <1>4

-----------------------------------------------------------------------------
(* Each operation alone: what it does to a memory of any admissible length. *)
WithinMemory(a, length) ==
    /\ 0 <= a.from /\ a.from <= a.to /\ a.to <= a.len
    /\ a.len <= length
    /\ a.to - a.from <= a.bytes

LEMMA NoSliceFits ==
    ASSUME NEW length \in Nat, NEW err
    PROVE  WithinMemory(NoSlice(err), length)
  BY DEF WithinMemory, NoSlice, Access

(* MemLoad, whatever the offset and the length. *)
LEMMA MemLoadFits ==
    ASSUME memory \in 0 .. MaxPages * PageSize,
           NEW offset \in Signed(Width), NEW length \in Signed(Width)
    PROVE  WithinMemory(MemLoad(offset, length), memory)
<1> DEFINE end == AddInt(Width, offset, length)
<1>1. /\ Width \in Nat \ {0} /\ Width = 2 * (Width \div 2) /\ Width \div 2 \in Nat
      /\ memory \in Nat /\ memory < Width
  BY Constants
<1>2. CASE length = 0 \/ offset < 0 \/ Uint32(offset) > memory \/ length < 0
  <2>1. MemLoad(offset, length)
           \in {NoSlice("nil"), NoSlice("ErrBadBounds"), NoSlice("ErrNegativeLength")}
    BY <1>2 DEF MemLoad
  <2> QED
    BY <1>1, <2>1, NoSliceFits
<1>3. CASE ~(length = 0 \/ offset < 0 \/ Uint32(offset) > memory \/ length < 0)
  <2>1. offset \in Int /\ length \in Int
    BY <1>1 DEF Signed
  <2>2. offset >= 0 /\ length > 0 /\ offset \in 0 .. Width - 1
    BY <1>1, <1>3, <2>1 DEF Signed
  <2>3. Uint32(offset) = offset
    BY <2>1, <2>2, Conversions
  <2>4. offset <= memory
    BY <1>1, <1>3, <2>1, <2>3
  <2>5. end \in offset .. (Width \div 2) - 1 /\ end - offset <= length
    BY <2>2, SaturatingEnd
  <2> HIDE DEF end
  <2>6. end \in Int /\ end \in 0 .. Width - 1
    BY <1>1, <2>1, <2>2, <2>5
  <2>7. Uint32(end) = end
    BY <2>6, Conversions
  <2>8. MemLoad(offset, length)
           = Access("nil", offset, IF Uint32(end) > memory THEN memory ELSE end,
                    memory, length)
    BY <1>3 DEF MemLoad, end
  <2>9. CASE end > memory
    BY <1>1, <2>1, <2>2, <2>4, <2>5, <2>6, <2>7, <2>8, <2>9 DEF WithinMemory, Access
  <2>10. CASE ~(end > memory)
    BY <1>1, <2>1, <2>2, <2>4, <2>5, <2>6, <2>7, <2>8, <2>10 DEF WithinMemory, Access
  <2> QED
    BY <2>9, <2>10
<1> QED
  BY <1>2, <1>3

(* MemStore, with the page it may add. *)
LEMMA MemStoreFits ==
    ASSUME memory \in 0 .. MaxPages * PageSize,
           NEW offset \in Signed(Width), NEW length \in Signed(Width), length >= 0
    PROVE  /\ MemStore(offset, length).memory \in memory .. MaxPages * PageSize
           /\ WithinMemory(MemStore(offset, length).access, MemStore(offset, length).memory)
<1> DEFINE end == AddInt(Width, offset, length)
           necessary == Uint32(end) > memory
           size == IF necessary THEN GrownMemory ELSE memory
           st == MemStore(offset, length)
<1>1. /\ Width \in Nat \ {0} /\ Width = 2 * (Width \div 2) /\ Width \div 2 \in Nat
      /\ memory \in Nat /\ memory < Width /\ PageSize \in Nat
      /\ MaxPages * PageSize \in Nat /\ MaxPages * PageSize < Width
      /\ memory <= MaxPages * PageSize
  BY Constants
<1>2. size \in memory .. MaxPages * PageSize
  BY <1>1 DEF GrownMemory
<1>3. /\ offset \in Int /\ length \in Int
  BY <1>1 DEF Signed
<1>4. CASE length = 0 \/ offset < 0 \/ (necessary /\ size = memory)
  <2>1. /\ st.memory = memory
        /\ \E err : st.access = NoSlice(err)
    BY <1>4 DEF MemStore
  <2> QED
    BY <1>1, <2>1, NoSliceFits
<1>5. CASE /\ ~(length = 0 \/ offset < 0 \/ (necessary /\ size = memory))
           /\ Uint32(end) > size
  <2>1. st.memory = size /\ st.access = NoSlice("ErrBadUpperBounds")
    BY <1>5 DEF MemStore
  <2> HIDE DEF size, st
  <2> QED
    BY <1>1, <1>2, <2>1, NoSliceFits DEF st
<1>6. CASE /\ ~(length = 0 \/ offset < 0 \/ (necessary /\ size = memory))
           /\ ~(Uint32(end) > size)
  <2>1. st.memory = size /\ st.access = Access("nil", offset, end, size, length)
    BY <1>6 DEF MemStore
  <2>2. offset >= 0 /\ length > 0
    BY <1>3, <1>6
  <2>3. end \in offset .. (Width \div 2) - 1 /\ end - offset <= length
    BY <2>2, SaturatingEnd
  <2>4. end \in Int /\ end \in 0 .. Width - 1
    <3> HIDE DEF end
    <3> QED
      BY <1>1, <1>3, <2>2, <2>3
  <2>5. Uint32(end) = end
    BY <2>4, Conversions
  <2>6. end <= size
    <3> HIDE DEF end, size
    <3> QED
      BY <1>1, <1>2, <1>6, <2>4, <2>5
  <2> HIDE DEF end, size, st
  <2> QED
    BY <1>1, <1>2, <1>3, <2>1, <2>2, <2>3, <2>4, <2>6 DEF WithinMemory, Access, st
<1> QED
  BY <1>4, <1>5, <1>6

(* Two loads of MemLoadMultiple: the second starts where an int32 addition  *)
(* that may wrap around has put it.                                         *)
LEMMA TwoLoads ==
    ASSUME NEW offset \in Signed(Width), NEW l1 \in Signed(Width), NEW l2 \in Signed(Width)
    PROVE  /\ MemLoadMultiple(offset, <<l1, l2>>)[1] = MemLoad(offset, l1)
           /\ MemLoadMultiple(offset, <<l1, l2>>)[2] = MemLoad(Int32(offset + l1), l2)
<1> DEFINE lengths == <<l1, l2>>
           Unfold(f) == [i \in 1 .. Len(lengths) |->
                            IF i = 1 THEN offset ELSE Int32(f[i - 1] + lengths[i - 1])]
           g == [i \in 1 .. 2 |-> IF i = 1 THEN offset ELSE Int32(offset + l1)]
           F == CHOOSE f : f = Unfold(f)
<1>1. Len(lengths) = 2 /\ lengths[1] = l1 /\ lengths[2] = l2
  OBVIOUS
<1>2. g = Unfold(g)
  <2>1. ASSUME NEW i \in 1 .. 2
        PROVE  g[i] = Unfold(g)[i]
    <3>1. CASE i = 1
      BY <1>1, <3>1
    <3>2. CASE i = 2
      <4>1. g[i - 1] = offset /\ lengths[i - 1] = l1
        BY <1>1, <3>2
      <4> QED
        BY <1>1, <3>2, <4>1
    <3> QED
      BY <3>1, <3>2
  <2> QED
    BY <1>1, <2>1
<1>3. F = Unfold(F)
  <2> HIDE DEF Unfold
  <2> QED
    BY <1>2
<1>4. MemLoadMultiple(offset, lengths) = [i \in 1 .. Len(lengths) |-> MemLoad(F[i], lengths[i])]
  BY DEF MemLoadMultiple
<1> HIDE DEF F
<1>5. F[1] = offset
  BY <1>1, <1>3
<1>6. F[2] = Int32(offset + l1)
  BY <1>1, <1>3, <1>5
<1> QED
  BY <1>1, <1>4, <1>5, <1>6

-----------------------------------------------------------------------------
(* The inductive invariant: SliceWithinMemory, which compares the last      *)
(* access with a memory that a later store may enlarge, and the bound on    *)
(* that memory, below which every length is a number of an int32 or uint32. *)
MemInv == memory \in 0 .. MaxPages * PageSize /\ SliceWithinMemory

LEMMA MemInitial == MemInit => MemInv
<1> SUFFICES ASSUME MemInit PROVE MemInv
  OBVIOUS
<1>1. PICK p \in 0 .. MaxPages : memory = p * PageSize
  BY DEF MemInit
<1>2. memory \in 0 .. MaxPages * PageSize
  BY <1>1, MemoryAssumption, SMT
<1>3. WithinMemory(NoSlice("nil"), memory)
  BY <1>2, Constants, NoSliceFits
<1> QED
  BY <1>2, <1>3 DEF MemInit, MemInv, SliceWithinMemory, WithinMemory

LEMMA MemStepKeeps == MemInv /\ [MemNext]_memVars => MemInv'
<1> SUFFICES ASSUME MemInv, [MemNext]_memVars PROVE MemInv'
  OBVIOUS
<1> USE DEF MemInv
<1>1. CASE LoadStep
  <2>1. PICK offset \in MemOffsets, length \in MemLengths :
             access' = MemLoad(offset, length) /\ memory' = memory
    BY <1>1 DEF LoadStep
  <2>2. WithinMemory(access', memory')
    BY <2>1, MemLoadFits, MemoryAssumption
  <2> QED
    BY <2>1, <2>2 DEF SliceWithinMemory, WithinMemory
<1>2. CASE LoadMultipleStep
  <2>1. PICK offset \in MemOffsets, l1 \in MemLengths, l2 \in MemLengths :
             LET loads == MemLoadMultiple(offset, <<l1, l2>>)
             IN  /\ access' = IF loads[1].err # "nil" THEN loads[1] ELSE loads[2]
                 /\ memory' = memory
    BY <1>2 DEF LoadMultipleStep
  <2>2. offset \in Signed(Width) /\ l1 \in Signed(Width) /\ l2 \in Signed(Width)
    BY MemoryAssumption
  <2>3. Int32(offset + l1) \in Signed(Width)
    <3>1. offset + l1 \in Int
      BY <2>2, Constants DEF Signed
    <3> QED
      BY <3>1, Conversions
  <2>4. access' \in {MemLoad(offset, l1), MemLoad(Int32(offset + l1), l2)}
    BY <2>1, <2>2, TwoLoads
  <2>5. WithinMemory(access', memory')
    BY <2>1, <2>2, <2>3, <2>4, MemLoadFits
  <2> QED
    BY <2>1, <2>5 DEF SliceWithinMemory, WithinMemory
<1>3. CASE StoreStep
  <2>1. PICK offset \in MemOffsets, length \in MemLengths :
             /\ length >= 0
             /\ memory' = MemStore(offset, length).memory
             /\ access' = MemStore(offset, length).access
    BY <1>3 DEF StoreStep
  <2>2. memory' \in memory .. MaxPages * PageSize /\ WithinMemory(access', memory')
    BY <2>1, MemStoreFits, MemoryAssumption
  <2>3. memory' \in 0 .. MaxPages * PageSize
    BY <2>2, Constants
  <2> QED
    BY <2>2, <2>3 DEF SliceWithinMemory, WithinMemory
<1>4. CASE UNCHANGED memVars
  BY <1>4 DEF memVars, SliceWithinMemory
<1> QED
  BY <1>1, <1>2, <1>3, <1>4 DEF MemNext

(* No sequence of loads and stores, with whatever offsets and lengths, makes *)
(* MemLoad, MemLoadMultiple or MemStore take a slice beyond the memory       *)
(* (arwen/contexts/runtime.go), for every width and every memory limit.      *)
THEOREM MemorySafe == MemSpec => []SliceWithinMemory
<1>1. MemInit => MemInv
  BY MemInitial
<1>2. MemInv /\ [MemNext]_memVars => MemInv'
  BY MemStepKeeps
<1>3. MemInv => SliceWithinMemory
  BY DEF MemInv
<1> QED
  BY <1>1, <1>2, <1>3, PTL DEF MemSpec

-----------------------------------------------------------------------------
(* The types of the memory and of its accesses.                             *)

IsAccess(a) == a \in [err : {"nil", "ErrBadBounds", "ErrNegativeLength",
                             "ErrBadLowerBounds", "ErrBadUpperBounds", "ErrGrow"},
                      from : Int, to : Int, len : Int, bytes : Int]

LEMMA SumTyped ==
    ASSUME NEW offset \in Signed(Width), NEW length \in Signed(Width)
    PROVE  offset \in Int /\ length \in Int /\ AddInt(Width, offset, length) \in Int
<1> DEFINE half == Width \div 2
           res == WrapSigned(Width, offset + length)
<1>1. half \in Nat /\ offset \in Int /\ length \in Int /\ Width \in Nat
  BY Constants DEF Signed
<1>2. res \in Signed(Width)
  BY <1>1, Conversions DEF Int32
<1>3. res \in Int
  BY <1>1, <1>2 DEF Signed
<1> HIDE DEF res, half
<1>4. AddInt(Width, offset, length) \in {res, half - 1}
  BY DEF AddInt, half, res
<1> QED
  BY <1>1, <1>3, <1>4

LEMMA LoadTyped ==
    ASSUME memory \in Int, NEW offset \in Signed(Width), NEW length \in Signed(Width)
    PROVE  IsAccess(MemLoad(offset, length))
<1> DEFINE end == AddInt(Width, offset, length)
<1>1. offset \in Int /\ length \in Int /\ end \in Int
  BY SumTyped
<1> HIDE DEF end
<1> QED
  BY <1>1 DEF MemLoad, IsAccess, NoSlice, Access, end

LEMMA StoreTyped ==
    ASSUME memory \in Int, NEW offset \in Signed(Width), NEW length \in Signed(Width)
    PROVE  IsAccess(MemStore(offset, length).access)
<1> DEFINE end == AddInt(Width, offset, length)
<1>1. offset \in Int /\ length \in Int /\ end \in Int /\ PageSize \in Int
  BY SumTyped, Constants
<1>2. GrownMemory \in Int
  BY <1>1 DEF GrownMemory
<1> HIDE DEF end
<1> QED
  BY <1>1, <1>2 DEF MemStore, IsAccess, NoSlice, Access, end

LEMMA MemTypesKept == MemInv /\ MemTypeOK /\ [MemNext]_memVars => MemTypeOK'
<1> SUFFICES ASSUME MemInv, MemTypeOK, [MemNext]_memVars PROVE MemTypeOK'
  OBVIOUS
<1>1. memory' \in 0 .. MaxPages * PageSize
  BY MemStepKeeps DEF MemInv
<1>2. memory \in Int /\ IsAccess(access)
  BY DEF MemTypeOK, IsAccess
<1>3. MemOffsets \subseteq Signed(Width) /\ MemLengths \subseteq Signed(Width)
  BY MemoryAssumption
<1>4. IsAccess(access')
  <2>1. CASE LoadStep
    BY <1>2, <1>3, <2>1, LoadTyped DEF LoadStep
  <2>2. CASE LoadMultipleStep
    <3>1. PICK offset \in MemOffsets, l1 \in MemLengths, l2 \in MemLengths :
               LET loads == MemLoadMultiple(offset, <<l1, l2>>)
               IN  access' = IF loads[1].err # "nil" THEN loads[1] ELSE loads[2]
      BY <2>2 DEF LoadMultipleStep
    <3>2. offset \in Signed(Width) /\ l1 \in Signed(Width) /\ l2 \in Signed(Width)
      BY <1>3
    <3>3. Int32(offset + l1) \in Signed(Width)
      <4>1. offset + l1 \in Int
        BY <3>2, Constants DEF Signed
      <4> QED
        BY <4>1, Conversions
    <3>4. access' \in {MemLoad(offset, l1), MemLoad(Int32(offset + l1), l2)}
      BY <3>1, <3>2, TwoLoads
    <3> QED
      BY <1>2, <3>2, <3>3, <3>4, LoadTyped
  <2>3. CASE StoreStep
    BY <1>2, <1>3, <2>3, StoreTyped DEF StoreStep
  <2>4. CASE UNCHANGED memVars
    BY <1>2, <2>4 DEF memVars
  <2> QED
    BY <2>1, <2>2, <2>3, <2>4 DEF MemNext
<1> QED
  BY <1>1, <1>4 DEF MemTypeOK, IsAccess

(* The memory never has more than MaxPages pages, and an access is one of    *)
(* those MemLoad, MemLoadMultiple and MemStore can make.                     *)
THEOREM MemTypesHold == MemSpec => []MemTypeOK
<1>1. MemInit => MemInv /\ MemTypeOK
  <2> SUFFICES ASSUME MemInit PROVE MemInv /\ MemTypeOK
    OBVIOUS
  <2>1. MemInv
    BY MemInitial
  <2>2. IsAccess(access)
    BY DEF MemInit, IsAccess, NoSlice, Access
  <2> QED
    BY <2>1, <2>2 DEF MemInv, MemTypeOK, IsAccess
<1>2. MemInv /\ MemTypeOK /\ [MemNext]_memVars => MemInv' /\ MemTypeOK'
  BY MemStepKeeps, MemTypesKept
<1> QED
  BY <1>1, <1>2, PTL DEF MemSpec

-----------------------------------------------------------------------------
(* Powers.                                                                  *)

IsPower(g, base) ==
    /\ g \in [Nat -> Nat]
    /\ \A k \in Nat : g[k] = IF k = 0 THEN 1 ELSE base * g[k - 1]

\* The first n powers, then zeroes.
Upto(g, base, n) ==
    /\ g \in [Nat -> Nat]
    /\ \A k \in 0 .. n : g[k] = IF k = 0 THEN 1 ELSE base * g[k - 1]
    /\ \A k \in Nat : k > n => g[k] = 0

LEMMA UptoSame ==
    ASSUME NEW base \in Nat, NEW n \in Nat, NEW m \in Nat, n <= m,
           NEW g, NEW h, Upto(g, base, n), Upto(h, base, m)
    PROVE  \A k \in 0 .. n : g[k] = h[k]
<1> DEFINE K == {k \in Nat : k <= n => g[k] = h[k]}
<1>1. 0 \in K
  BY DEF Upto
<1>2. ASSUME NEW k \in K PROVE k + 1 \in K
  <2> SUFFICES ASSUME k + 1 <= n PROVE g[k + 1] = h[k + 1]
    OBVIOUS
  <2>1. k \in Nat /\ g[k] = h[k] /\ (k + 1) - 1 = k /\ k + 1 # 0
    OBVIOUS
  <2>2. g[k + 1] = base * g[k] /\ h[k + 1] = base * h[k]
    BY <2>1 DEF Upto
  <2> QED
    BY <2>1, <2>2
<1>3. K = Nat
  BY <1>1, <1>2, AllNaturals
<1> QED
  BY <1>3

LEMMA PowerFunction ==
    ASSUME NEW base \in Nat
    PROVE  \E g : IsPower(g, base)
<1> DEFINE K == {n \in Nat : \E g : Upto(g, base, n)}
<1>1. 0 \in K
  <2>1. Upto([k \in Nat |-> IF k = 0 THEN 1 ELSE 0], base, 0)
    BY DEF Upto
  <2> QED
    BY <2>1
<1>2. ASSUME NEW n \in K PROVE n + 1 \in K
  <2>1. PICK g : Upto(g, base, n)
    OBVIOUS
  <2> DEFINE f == [k \in Nat |-> IF k = n + 1 THEN base * g[n] ELSE g[k]]
  <2>2. n \in Nat /\ g[n] \in Nat /\ base * g[n] \in Nat
    BY <2>1 DEF Upto
  <2>3. f \in [Nat -> Nat]
    BY <2>1, <2>2 DEF Upto
  <2>4. \A k \in 0 .. n + 1 : f[k] = IF k = 0 THEN 1 ELSE base * f[k - 1]
    BY <2>1, <2>2 DEF Upto
  <2>5. \A k \in Nat : k > n + 1 => f[k] = 0
    BY <2>1, <2>2 DEF Upto
  <2>6. Upto(f, base, n + 1)
    BY <2>3, <2>4, <2>5 DEF Upto
  <2> HIDE DEF f
  <2> QED
    BY <2>2, <2>6
<1>3. K = Nat
  BY <1>1, <1>2, AllNaturals
<1> DEFINE G(n) == CHOOSE g : Upto(g, base, n)
           p == [n \in Nat |-> G(n)[n]]
<1>4. ASSUME NEW n \in Nat PROVE Upto(G(n), base, n)
  <2>1. \E g : Upto(g, base, n)
    BY <1>3
  <2> QED
    BY <2>1
<1> HIDE DEF G
<1>5. p \in [Nat -> Nat]
  <2>1. \A n \in Nat : G(n)[n] \in Nat
    BY <1>4 DEF Upto
  <2> QED
    BY <2>1
<1>6. ASSUME NEW k \in Nat PROVE p[k] = IF k = 0 THEN 1 ELSE base * p[k - 1]
  <2>1. CASE k = 0
    <3>1. Upto(G(0), base, 0) /\ 0 \in 0 .. 0
      BY <1>4
    <3> QED
      BY <2>1, <3>1 DEF Upto
  <2>2. CASE k # 0
    <3>1. k - 1 \in Nat /\ k - 1 <= k /\ k - 1 \in 0 .. k - 1 /\ k \in 0 .. k
      BY <2>2
    <3>2. G(k)[k] = base * G(k)[k - 1]
      BY <1>4, <2>2, <3>1 DEF Upto
    <3>3. G(k - 1)[k - 1] = G(k)[k - 1]
      BY <1>4, <3>1, UptoSame
    <3> QED
      BY <2>2, <3>1, <3>2, <3>3
  <2> QED
    BY <2>1, <2>2
<1> QED
  BY <1>5, <1>6 DEF IsPower

(* Power is what it should be. *)
LEMMA PowerIs ==
    ASSUME NEW base \in Nat
    PROVE  /\ Power(base, 0) = 1
           /\ \A n \in Nat : /\ Power(base, n) \in Nat
                             /\ Power(base, n + 1) = base * Power(base, n)
<1> DEFINE Equation(g) == g = [k \in Nat |-> IF k = 0 THEN 1 ELSE base * g[k - 1]]
           power == CHOOSE g : Equation(g)
<1>1. PICK f : IsPower(f, base)
  BY PowerFunction
<1>2. Equation(f)
  BY <1>1 DEF IsPower
<1>3. Equation(power)
  BY <1>2
<1>4. \A n : Power(base, n) = power[n]
  BY DEF Power
<1> HIDE DEF power
<1> DEFINE K == {n \in Nat : power[n] = f[n]}
<1>5. 0 \in K
  BY <1>1, <1>3 DEF IsPower
<1>6. ASSUME NEW n \in K PROVE n + 1 \in K
  <2>1. n \in Nat /\ n + 1 \in Nat /\ n + 1 # 0 /\ (n + 1) - 1 = n /\ power[n] = f[n]
    OBVIOUS
  <2>2. power[n + 1] = base * power[n]
    BY <1>3, <2>1
  <2>3. f[n + 1] = base * f[n]
    BY <1>1, <2>1 DEF IsPower
  <2> QED
    BY <2>1, <2>2, <2>3
<1>7. K = Nat
  BY <1>5, <1>6, AllNaturals
<1>8. \A n \in Nat : power[n] = f[n] /\ f[n] \in Nat
  BY <1>1, <1>7 DEF IsPower
<1>9. f[0] = 1 /\ \A n \in Nat : f[n + 1] = base * f[n]
  <2> SUFFICES ASSUME NEW n \in Nat PROVE f[0] = 1 /\ f[n + 1] = base * f[n]
    OBVIOUS
  <2>1. n + 1 \in Nat /\ n + 1 # 0 /\ (n + 1) - 1 = n
    OBVIOUS
  <2> QED
    BY <1>1, <2>1 DEF IsPower
<1> QED
  BY <1>4, <1>8, <1>9

(* The values of some bytes: at least one, an even number, and more of more *)
(* bytes.                                                                   *)
LEMMA ValuesAre ==
    /\ Values(0) = 1
    /\ \A n \in Nat : Values(n) \in Nat \ {0} /\ Values(n) <= Values(n + 1)
    /\ \A n \in Nat \ {0} : /\ Values(n) = 2 * (Values(n) \div 2)
                            /\ Values(n) \div 2 \in Nat \ {0}
<1>1. PICK half \in Nat \ {0} : ByteBase = 2 * half
  <2>1. ByteBase \in Nat /\ ByteBase % 2 = 0 /\ ByteBase > 0
    BY EEIAssumption
  <2>2. ByteBase = 2 * (ByteBase \div 2) /\ ByteBase \div 2 \in Nat \ {0}
    BY <2>1
  <2> QED
    BY <2>2
<1>2. ByteBase \in Nat /\ ByteBase >= 2
  BY <1>1
<1>3. /\ Values(0) = 1
      /\ \A n \in Nat : Values(n) \in Nat /\ Values(n + 1) = ByteBase * Values(n)
  BY <1>2, PowerIs DEF Values
<1>4. ASSUME NEW v \in Nat, v # 0
      PROVE  ByteBase * v \in Nat \ {0} /\ v <= ByteBase * v /\ ByteBase * v = 2 * (half * v)
             /\ half * v \in Nat \ {0}
  BY <1>1, <1>2, <1>4
<1> DEFINE K == {n \in Nat : Values(n) # 0}
<1>5. 0 \in K
  BY <1>3
<1>6. ASSUME NEW n \in K PROVE n + 1 \in K
  BY <1>3, <1>4, <1>6
<1>7. K = Nat
  BY <1>5, <1>6, AllNaturals
<1>8. \A n \in Nat : Values(n) \in Nat \ {0}
  BY <1>3, <1>7
<1>9. \A n \in Nat : Values(n) <= Values(n + 1)
  BY <1>3, <1>4, <1>8
<1>10. ASSUME NEW n \in Nat \ {0}
       PROVE  Values(n) = 2 * (Values(n) \div 2) /\ Values(n) \div 2 \in Nat \ {0}
  <2>1. n - 1 \in Nat /\ (n - 1) + 1 = n
    OBVIOUS
  <2>2. Values(n) = ByteBase * Values(n - 1)
    BY <1>3, <2>1
  <2>3. PICK h \in Nat \ {0} : Values(n) = 2 * h
    BY <1>4, <1>8, <2>1, <2>2
  <2> QED
    BY <2>3
<1> QED
  BY <1>3, <1>8, <1>9, <1>10

LEMMA ValuesGrow ==
    ASSUME NEW m \in Nat, NEW n \in Nat, m <= n
    PROVE  Values(m) <= Values(n)
<1> DEFINE K == {d \in Nat : Values(m) <= Values(m + d)}
<1>1. 0 \in K
  BY ValuesAre
<1>2. ASSUME NEW d \in K PROVE d + 1 \in K
  <2>1. m + d \in Nat /\ m + (d + 1) = (m + d) + 1 /\ m + (d + 1) \in Nat
    OBVIOUS
  <2>2. Values(m) \in Nat /\ Values(m + d) \in Nat /\ Values(m + (d + 1)) \in Nat
    BY <2>1, ValuesAre
  <2>3. Values(m + d) <= Values(m + (d + 1))
    BY <2>1, ValuesAre
  <2> QED
    BY <2>2, <2>3
<1>3. K = Nat
  BY <1>1, <1>2, AllNaturals
<1>4. n - m \in Nat /\ m + (n - m) = n
  OBVIOUS
<1>5. n - m \in K
  BY <1>3, <1>4
<1> QED
  BY <1>4, <1>5

(* The smallest of some naturals. *)
LEMMA MinIs ==
    ASSUME NEW S \in SUBSET Nat, S # {}
    PROVE  Min(S) \in S /\ \A y \in S : Min(S) <= y
<1>0. S \subseteq Nat
  OBVIOUS
<1>1. PICK k \in S : \A j \in S : <<j, k>> \notin OpToRel(<, Nat)
  BY <1>0, NatLessThanWellFounded, WFMin
<1>2. ASSUME NEW j \in S PROVE k <= j
  <2>1. j < k => <<j, k>> \in OpToRel(<, Nat)
    BY <1>0 DEF OpToRel
  <2>2. <<j, k>> \notin OpToRel(<, Nat)
    BY <1>1
  <2>3. ~(j < k) /\ j \in Nat /\ k \in Nat
    BY <1>0, <2>1, <2>2
  <2> QED
    BY <2>3
<1> QED
  BY <1>2 DEF Min

LEMMA MaxIs ==
    ASSUME NEW M \in Nat, NEW S \in SUBSET (0 .. M), S # {}
    PROVE  Max(S) \in S /\ \A y \in S : Max(S) >= y
<1> DEFINE T == {M - y : y \in S}
<1>1. T \in SUBSET Nat /\ T # {}
  <2>1. \A y \in S : y \in Nat /\ M - y \in Nat
    OBVIOUS
  <2> QED
    BY <2>1
<1>2. PICK k \in T : \A j \in T : k <= j
  BY <1>1, MinIs
<1>3. PICK x \in S : k = M - x
  OBVIOUS
<1>4. \A y \in S : x >= y
  BY <1>2, <1>3
<1> QED
  BY <1>4 DEF Max

-----------------------------------------------------------------------------
(* Numbers and byte strings.                                                *)

Number(x) == x \in Int /\ Bounded(x)

LEMMA Sizes ==
    /\ MaxBytes \in Nat /\ MaxBytes - 1 \in Nat /\ MaxBytes - 1 # 0
    /\ WordBytes \in Nat \ {0} /\ WordBytes <= MaxBytes - 1
    /\ Word \in Nat \ {0} /\ Word = 2 * (Word \div 2) /\ Word \div 2 \in Nat \ {0}
    /\ Word <= Values(MaxBytes - 1)
    /\ Values(MaxBytes - 1) \in Nat \ {0}
    /\ {ApiCost, DataCopyPerByte, StorePerByte, PersistPerByte, ReleasePerByte,
        NormalLength} \subseteq Nat
    /\ ReleasePerByte <= StorePerByte
<1>1. /\ MaxBytes \in Nat /\ MaxBytes > WordBytes /\ WordBytes \in Nat \ {0}
      /\ {ApiCost, DataCopyPerByte, StorePerByte, PersistPerByte, ReleasePerByte,
          NormalLength} \subseteq Nat
      /\ ReleasePerByte <= StorePerByte
  BY EEIAssumption
<1>2. MaxBytes - 1 \in Nat /\ MaxBytes - 1 # 0 /\ WordBytes <= MaxBytes - 1
  BY <1>1
<1>3. Values(WordBytes) <= Values(MaxBytes - 1)
  BY <1>1, <1>2, ValuesGrow
<1> QED
  BY <1>1, <1>2, <1>3, ValuesAre DEF Word

LEMMA BytesAre ==
    ASSUME NEW x, Number(x)
    PROVE  IsData(Bytes(x)) /\ Bytes(x).val = Magnitude(x)
<1> DEFINE S == {k \in 0 .. MaxBytes : Magnitude(x) < Values(k)}
<1>1. Magnitude(x) \in Nat /\ Magnitude(x) < Values(MaxBytes - 1)
  BY DEF Number, Bounded, Magnitude
<1>2. MaxBytes - 1 \in S /\ S \in SUBSET Nat
  BY <1>1, Sizes
<1>3. Min(S) \in S /\ Min(S) <= MaxBytes - 1
  BY <1>2, MinIs
<1>4. Min(S) \in 0 .. MaxBytes - 1 /\ Magnitude(x) < Values(Min(S))
  BY <1>3, Sizes
<1>5. Bytes(x) = [len |-> Min(S), val |-> Magnitude(x)]
  BY DEF Bytes, ByteLen, ByteString
<1> HIDE DEF S
<1> QED
  BY <1>1, <1>4, <1>5 DEF IsData

LEMMA DataAre ==
    ASSUME NEW b, IsData(b)
    PROVE  /\ b.len \in Nat /\ b.val \in Nat
           /\ Number(SetBytes(b)) /\ Number(TwosSetBytes(b))
<1>1. /\ b.len \in 0 .. MaxBytes - 1 /\ b.len \in Nat /\ b.val \in Nat
      /\ b.val < Values(b.len)
  BY Sizes DEF IsData
<1>2. Values(b.len) \in Nat /\ Values(b.len) <= Values(MaxBytes - 1)
  <2>1. b.len <= MaxBytes - 1 /\ MaxBytes - 1 \in Nat
    BY <1>1, Sizes
  <2>2. Values(b.len) <= Values(MaxBytes - 1)
    BY <1>1, <2>1, ValuesGrow
  <2> QED
    BY <1>1, <2>2, ValuesAre
<1>3. Number(SetBytes(b))
  BY <1>1, <1>2, Sizes DEF Number, SetBytes, Bounded, Magnitude
<1>4. Number(TwosSetBytes(b))
  <2>1. CASE b.len > 0 /\ b.val >= Values(b.len) \div 2
    <3>1. Values(b.len) \div 2 \in Nat \ {0}
      BY <1>1, <2>1, ValuesAre
    <3>2. TwosSetBytes(b) = b.val - Values(b.len)
      BY <2>1 DEF TwosSetBytes
    <3>3. b.val - Values(b.len) < 0 /\ b.val > 0
      BY <1>1, <1>2, <2>1, <3>1
    <3> QED
      BY <1>1, <1>2, <3>2, <3>3, Sizes DEF Number, Bounded, Magnitude
  <2>2. CASE ~(b.len > 0 /\ b.val >= Values(b.len) \div 2)
    BY <1>3, <2>2 DEF TwosSetBytes, SetBytes
  <2> QED
    BY <2>1, <2>2
<1> QED
  BY <1>1, <1>3, <1>4

LEMMA NoBytesData == IsData(NoBytes) /\ NoBytes.len = 0 /\ NoBytes.val = 0 /\ Number(0)
<1>1. Values(0) = 1 /\ 0 \in 0 .. MaxBytes - 1
  BY Sizes, ValuesAre
<1> QED
  BY <1>1, Sizes DEF IsData, NoBytes, ByteString, Number, Bounded, Magnitude

LEMMA Uint64Numbers ==
    ASSUME NEW v, IsUint64(v)
    PROVE  Number(v)
  BY Sizes DEF IsUint64, Unsigned, Number, Bounded, Magnitude

LEMMA Int64Numbers ==
    ASSUME NEW x \in Int64s
    PROVE  /\ x \in Int /\ Number(x) /\ ToInt64(x) = x
           /\ ToUint64(x) \in 0 .. Word - 1 /\ ToInt64(ToUint64(x)) = x
<1> DEFINE half == Word \div 2
<1>1. half \in Nat \ {0} /\ Word = 2 * half /\ Word \in Nat \ {0} /\ Word <= Values(MaxBytes - 1)
      /\ Values(MaxBytes - 1) \in Nat
  BY Sizes
<1>2. x \in Int /\ -half <= x /\ x <= half - 1
  BY <1>1 DEF Int64s, Signed
<1>3. Number(x)
  BY <1>1, <1>2 DEF Number, Bounded, Magnitude
<1> HIDE DEF half
<1>4. ToInt64(x) = x
  <2> DEFINE y == x + half
  <2>1. y \in 0 .. Word - 1 /\ y \in Int
    BY <1>1, <1>2
  <2> HIDE DEF y
  <2>2. y % Word = y
    BY <1>1, <2>1, ModNear
  <2> QED
    BY <1>1, <1>2, <2>2 DEF ToInt64, WrapSigned, half, y
<1>5. CASE x >= 0
  <2>1. x \in 0 .. Word - 1
    BY <1>1, <1>2, <1>5
  <2>2. ToUint64(x) = x
    BY <1>1, <1>2, <2>1, ModNear DEF ToUint64, WrapUnsigned
  <2> QED
    BY <1>2, <1>3, <1>4, <2>1, <2>2
<1>6. CASE x < 0
  <2>1. x \in -Word .. -1
    BY <1>1, <1>2, <1>6
  <2>2. ToUint64(x) = x + Word
    BY <1>1, <1>2, <2>1, ModNear DEF ToUint64, WrapUnsigned
  <2> DEFINE y == (x + Word) + half
  <2>3. y \in Word .. 2 * Word - 1 /\ y \in Int
    BY <1>1, <1>2, <1>6
  <2> HIDE DEF y
  <2>4. y % Word = y - Word
    BY <1>1, <2>3, ModNear
  <2>5. ToInt64(x + Word) = x
    BY <1>1, <1>2, <2>3, <2>4 DEF ToInt64, WrapSigned, half, y
  <2>6. x + Word \in 0 .. Word - 1
    BY <1>1, <1>2, <1>6
  <2> QED
    BY <1>2, <1>3, <1>4, <2>2, <2>5, <2>6
<1> QED
  BY <1>2, <1>5, <1>6

(* An int64 comes back from its bytes as it was, unsigned or signed. *)
LEMMA UnsignedTrip ==
    ASSUME NEW x \in Int64s
    PROVE  /\ IsData(EncodeUnsigned(x))
           /\ DecodeUnsigned(EncodeUnsigned(x)) = [ok |-> TRUE, value |-> x]
<1>1. ToUint64(x) \in 0 .. Word - 1 /\ ToInt64(ToUint64(x)) = x
  BY Int64Numbers
<1>2. Number(ToUint64(x)) /\ Magnitude(ToUint64(x)) = ToUint64(x)
  BY <1>1, Sizes DEF Number, Bounded, Magnitude
<1>3. IsData(EncodeUnsigned(x)) /\ SetBytes(EncodeUnsigned(x)) = ToUint64(x)
  BY <1>2, BytesAre DEF EncodeUnsigned, SetBytes
<1> QED
  BY <1>1, <1>3 DEF DecodeUnsigned, IsUint64, Unsigned

LEMMA TwosLength ==
    ASSUME NEW x \in Int, x # 0, NEW n \in Nat \ {0}, n <= MaxBytes,
           -(Values(n) \div 2) <= x, x < Values(n) \div 2
    PROVE  LET b == TwosToBytes(x)
           IN  /\ b.len \in 1 .. n
               /\ -(Values(b.len) \div 2) <= x /\ x < Values(b.len) \div 2
               /\ b = [len |-> b.len, val |-> IF x < 0 THEN x + Values(b.len) ELSE x]
<1> DEFINE S == {k \in 1 .. MaxBytes : -(Values(k) \div 2) <= x /\ x < Values(k) \div 2}
           l == Min(S)
<1>1. n \in S /\ S \in SUBSET Nat
  BY Sizes
<1>2. l \in S /\ l <= n
  BY <1>1, MinIs
<1>3. l \in 1 .. n /\ -(Values(l) \div 2) <= x /\ x < Values(l) \div 2
  BY <1>2, Sizes
<1>4. TwosToBytes(x) = [len |-> l, val |-> IF x < 0 THEN x + Values(l) ELSE x]
  BY DEF TwosToBytes, ByteString
<1> HIDE DEF l
<1> QED
  BY <1>3, <1>4

LEMMA SignedTrip ==
    ASSUME NEW x \in Int64s
    PROVE  /\ IsData(EncodeSigned(x))
           /\ DecodeSigned(EncodeSigned(x)) = [ok |-> TRUE, value |-> x]
<1> DEFINE b == TwosToBytes(x)
<1>1. x \in Int /\ IsInt64(x) /\ -(Word \div 2) <= x /\ x < Word \div 2
  BY Sizes, Int64Numbers DEF IsInt64, Int64s, Signed
<1>2. IsData(b) /\ TwosSetBytes(b) = x
  <2>1. CASE x = 0
    <3>1. b = NoBytes
      BY <2>1 DEF TwosToBytes, NoBytes, ByteString
    <3> QED
      BY <2>1, <3>1, NoBytesData DEF TwosSetBytes
  <2>2. CASE x # 0
    <3>1. /\ b.len \in 1 .. WordBytes
          /\ -(Values(b.len) \div 2) <= x /\ x < Values(b.len) \div 2
          /\ b = [len |-> b.len, val |-> IF x < 0 THEN x + Values(b.len) ELSE x]
      BY <1>1, <2>2, Sizes, TwosLength DEF Word
    <3> DEFINE l == b.len
               v == Values(l)
               half == v \div 2
    <3>2. l \in 1 .. WordBytes /\ b = [len |-> l, val |-> IF x < 0 THEN x + v ELSE x]
          /\ -half <= x /\ x < half
      BY <3>1
    <3>3. l \in Nat \ {0} /\ l \in 0 .. MaxBytes - 1
      BY <3>2, Sizes
    <3>4. v \in Nat \ {0} /\ half \in Nat \ {0} /\ v = 2 * half
      BY <3>3, ValuesAre
    <3> HIDE DEF l, half, b
    <3>5. b.val \in Nat /\ b.val < v /\ b.len = l /\ b.val = IF x < 0 THEN x + v ELSE x
      BY <1>1, <3>2, <3>4 DEF half
    <3>6. IsData(b)
      BY <3>2, <3>3, <3>5 DEF IsData
    <3>7. TwosSetBytes(b) = x
      BY <1>1, <3>2, <3>3, <3>4, <3>5 DEF TwosSetBytes, half
    <3> QED
      BY <3>6, <3>7
  <2> QED
    BY <2>1, <2>2
<1> HIDE DEF b
<1> QED
  BY <1>1, <1>2 DEF EncodeSigned, DecodeSigned, b

(* The length of any number in two's complement. *)
LEMMA SignedLength ==
    ASSUME NEW x, Number(x)
    PROVE  TwosToBytes(x).len \in Nat
<1>1. x \in Int /\ -Values(MaxBytes - 1) < x /\ x < Values(MaxBytes - 1)
  BY Sizes DEF Number, Bounded, Magnitude
<1>2. Values(MaxBytes - 1) <= Values(MaxBytes) \div 2
  <2>1. PICK v \in Nat, h \in Nat \ {0} :
            v = Values(MaxBytes - 1) /\ ByteBase = 2 * h
    <3>1. ByteBase \in Nat /\ ByteBase % 2 = 0 /\ ByteBase > 0
      BY EEIAssumption
    <3>2. ByteBase = 2 * (ByteBase \div 2) /\ ByteBase \div 2 \in Nat \ {0}
      BY <3>1
    <3> QED
      BY <3>2, Sizes
  <2>2. Values((MaxBytes - 1) + 1) = ByteBase * Values(MaxBytes - 1)
    BY <2>1, PowerIs, Sizes DEF Values
  <2>3. (MaxBytes - 1) + 1 = MaxBytes
    BY Sizes
  <2>4. Values(MaxBytes) = 2 * (h * v) /\ h * v \in Nat /\ v <= h * v
    BY <2>1, <2>2, <2>3
  <2> QED
    BY <2>1, <2>4
<1>3. CASE x = 0
  BY <1>3 DEF TwosToBytes, ByteString
<1>4. CASE x # 0
  <2>1. MaxBytes \in Nat \ {0} /\ Values(MaxBytes) \div 2 \in Nat
    BY Sizes, ValuesAre
  <2>2. -(Values(MaxBytes) \div 2) <= x /\ x < Values(MaxBytes) \div 2
    BY <1>1, <1>2, <2>1, Sizes
  <2>3. TwosToBytes(x).len \in 1 .. MaxBytes
    BY <1>1, <1>4, <2>1, <2>2, TwosLength
  <2> QED
    BY <2>3
<1> QED
  BY <1>3, <1>4

-----------------------------------------------------------------------------
(* The whole bytes of a number, and what is free of them.                   *)

Half(k) == Values(k) \div 2

LEMMA HalfGrows ==
    ASSUME NEW n \in Nat
    PROVE  /\ Values(n) \in Nat \ {0} /\ Values(n) <= Half(n + 1)
           /\ Half(n + 1) \in Nat \ {0}
           /\ n # 0 => Half(n) \in Nat \ {0} /\ Values(n) = 2 * Half(n) /\ 2 * Half(n) <= Half(n + 1)
<1>1. PICK v \in Nat \ {0}, h \in Nat \ {0} : v = Values(n) /\ ByteBase = 2 * h
  <2>1. ByteBase \in Nat /\ ByteBase % 2 = 0 /\ ByteBase > 0
    BY EEIAssumption
  <2>2. ByteBase = 2 * (ByteBase \div 2) /\ ByteBase \div 2 \in Nat \ {0}
    BY <2>1
  <2> QED
    BY <2>2, ValuesAre
<1>2. Values(n + 1) = ByteBase * Values(n)
  BY <1>1, PowerIs DEF Values
<1>3. Values(n + 1) = 2 * (h * v) /\ h * v \in Nat \ {0} /\ v <= h * v
  BY <1>1, <1>2
<1>4. Half(n + 1) = h * v
  BY <1>3 DEF Half
<1>5. n # 0 => Half(n) \in Nat \ {0} /\ Values(n) = 2 * Half(n)
  BY ValuesAre DEF Half
<1> QED
  BY <1>1, <1>3, <1>4, <1>5

LEMMA HalvesGrow ==
    ASSUME NEW m \in Nat \ {0}, NEW n \in Nat, m <= n
    PROVE  Half(m) <= Half(n)
<1>1. Values(m) <= Values(n) /\ n \in Nat \ {0}
  BY ValuesGrow
<1>2. Values(m) = 2 * Half(m) /\ Values(n) = 2 * Half(n) /\ Half(m) \in Nat /\ Half(n) \in Nat
  BY <1>1, HalfGrows
<1> QED
  BY <1>1, <1>2

LEMMA ValuesMultiply ==
    ASSUME NEW m \in Nat, NEW n \in Nat
    PROVE  Values(m + n) = Values(m) * Values(n)
<1> DEFINE K == {k \in Nat : Values(m + k) = Values(m) * Values(k)}
<1>0. ByteBase \in Nat /\ Values(m) \in Nat
  BY EEIAssumption, ValuesAre
<1>1. 0 \in K
  BY <1>0, ValuesAre
<1>2. ASSUME NEW k \in K PROVE k + 1 \in K
  <2>1. m + k \in Nat /\ m + (k + 1) = (m + k) + 1
    OBVIOUS
  <2>2. Values(m + (k + 1)) = ByteBase * Values(m + k) /\ Values(k + 1) = ByteBase * Values(k)
    BY <1>0, <2>1, PowerIs DEF Values
  <2>3. Values(k) \in Nat /\ Values(m + k) = Values(m) * Values(k)
    BY ValuesAre
  <2>4. ASSUME NEW b \in Nat, NEW u \in Nat, NEW v \in Nat PROVE b * (u * v) = u * (b * v)
    OBVIOUS
  <2> QED
    BY <1>0, <2>2, <2>3, <2>4
<1>3. K = Nat
  BY <1>1, <1>2, AllNaturals
<1> QED
  BY <1>3

LEMMA WholeIs ==
    ASSUME NEW x \in Int
    PROVE  /\ Magnitude(x) \in Nat /\ WholeBytes(x) \in 0 .. MaxBytes /\ WholeBytes(x) \in Nat
           /\ WholeBytes(x) # 0 => Magnitude(x) >= Half(WholeBytes(x))
           /\ \A k \in 1 .. MaxBytes : Magnitude(x) >= Half(k) => k <= WholeBytes(x)
<1> DEFINE S == {k \in 0 .. MaxBytes : k = 0 \/ Magnitude(x) >= Values(k) \div 2}
<1>1. 0 \in S /\ S \in SUBSET (0 .. MaxBytes) /\ MaxBytes \in Nat
  BY Sizes
<1>2. Max(S) \in S /\ \A y \in S : Max(S) >= y
  BY <1>1, MaxIs
<1>3. WholeBytes(x) = Max(S) /\ Magnitude(x) \in Nat
  BY DEF WholeBytes, Magnitude
<1>4. Max(S) \in 0 .. MaxBytes /\ (Max(S) # 0 => Magnitude(x) >= Half(Max(S)))
  BY <1>2 DEF Half
<1>5. ASSUME NEW k \in 1 .. MaxBytes, Magnitude(x) >= Half(k) PROVE k <= Max(S)
  <2>1. k \in S
    BY <1>1, <1>5 DEF Half
  <2> QED
    BY <1>1, <1>2, <1>4, <2>1
<1> HIDE DEF S
<1> QED
  BY <1>1, <1>3, <1>4, <1>5

\* A number of n bytes.
LEMMA WholeBelow ==
    ASSUME NEW x \in Int, NEW n \in Nat, Magnitude(x) < Values(n)
    PROVE  WholeBytes(x) <= n
<1> SUFFICES ASSUME WholeBytes(x) >= n + 1 PROVE FALSE
  BY WholeIs
<1> DEFINE k == WholeBytes(x)
<1>0. k \in Nat \ {0} /\ n + 1 \in Nat \ {0} /\ n + 1 <= k /\ Magnitude(x) \in Nat
      /\ Magnitude(x) >= Half(k)
  BY WholeIs
<1> HIDE DEF k
<1>1. Half(n + 1) <= Half(k)
  BY <1>0, HalvesGrow
<1>2. Half(k) \in Nat
  BY <1>0, HalfGrows
<1>3. Values(n) \in Nat /\ Values(n) <= Half(n + 1) /\ Half(n + 1) \in Nat
  BY HalfGrows
<1> QED
  BY <1>0, <1>1, <1>2, <1>3

\* At most twice as large: at most one byte more.
LEMMA WholeDoubled ==
    ASSUME NEW x \in Int, NEW z \in Int, Magnitude(z) <= 2 * Magnitude(x)
    PROVE  WholeBytes(z) <= WholeBytes(x) + 1
<1> DEFINE k == WholeBytes(z)
<1>1. CASE k \in {0, 1}
  BY <1>1, WholeIs
<1>2. CASE k \notin {0, 1}
  <2>1. k - 1 \in Nat \ {0} /\ k - 1 \in 1 .. MaxBytes /\ (k - 1) + 1 = k /\ k \in Nat \ {0}
    BY <1>2, WholeIs, Sizes
  <2>2. Magnitude(z) >= Half(k)
    BY <2>1, WholeIs
  <2> HIDE DEF k
  <2>3. 2 * Half(k - 1) <= Half(k) /\ Half(k - 1) \in Nat /\ Half(k) \in Nat
    BY <2>1, HalfGrows
  <2>4. Magnitude(x) >= Half(k - 1)
    BY <2>2, <2>3, WholeIs
  <2>5. k - 1 <= WholeBytes(x)
    BY <2>1, <2>4, WholeIs
  <2> QED
    BY <2>1, <2>5, WholeIs DEF k
<1> QED
  BY <1>1, <1>2

LEMMA WholeOfSum ==
    ASSUME NEW x \in Int, NEW y \in Int, NEW z \in Int,
           Magnitude(z) <= Magnitude(x) + Magnitude(y)
    PROVE  WholeBytes(z) <= WholeBytes(x) + WholeBytes(y) + 1
<1>0. /\ Magnitude(x) \in Nat /\ Magnitude(y) \in Nat /\ Magnitude(z) \in Nat
      /\ WholeBytes(x) \in Nat /\ WholeBytes(y) \in Nat /\ WholeBytes(z) \in Nat
  BY WholeIs
<1>1. CASE Magnitude(x) <= Magnitude(y)
  <2>1. Magnitude(z) <= 2 * Magnitude(y)
    BY <1>0, <1>1
  <2>2. WholeBytes(z) <= WholeBytes(y) + 1
    BY <2>1, WholeDoubled
  <2> QED
    BY <1>0, <2>2
<1>2. CASE ~(Magnitude(x) <= Magnitude(y))
  <2>1. Magnitude(z) <= 2 * Magnitude(x)
    BY <1>0, <1>2
  <2>2. WholeBytes(z) <= WholeBytes(x) + 1
    BY <2>1, WholeDoubled
  <2> QED
    BY <1>0, <2>2
<1> QED
  BY <1>1, <1>2

LEMMA ProductBelow ==
    ASSUME NEW a \in Nat, NEW b \in Nat, NEW p \in Nat, NEW q \in Nat, a < p, b < q
    PROVE  a * b < 2 * (p * q) /\ a * b \in Nat
<1>1. a * b <= a * q
  OBVIOUS
<1>2. a * q < p * q
  OBVIOUS
<1>3. a * b \in Nat /\ a * q \in Nat /\ p * q \in Nat
  OBVIOUS
<1> QED
  BY <1>1, <1>2, <1>3

LEMMA MagnitudeOfProduct ==
    ASSUME NEW x \in Int, NEW y \in Int
    PROVE  Magnitude(x * y) = Magnitude(x) * Magnitude(y) /\ x * y \in Int
<1>0. x * y \in Int
  OBVIOUS
<1>1. CASE x < 0 /\ y < 0
  <2>1. x * y = (-x) * (-y) /\ x * y > 0
    BY <1>1
  <2> QED
    BY <1>0, <1>1, <2>1 DEF Magnitude
<1>2. CASE x < 0 /\ ~(y < 0)
  <2>1. -(x * y) = (-x) * y /\ x * y <= 0
    BY <1>2
  <2> QED
    BY <1>0, <1>2, <2>1 DEF Magnitude
<1>3. CASE ~(x < 0) /\ y < 0
  <2>1. -(x * y) = x * (-y) /\ x * y <= 0
    BY <1>3
  <2> QED
    BY <1>0, <1>3, <2>1 DEF Magnitude
<1>4. CASE ~(x < 0) /\ ~(y < 0)
  <2>1. x * y >= 0
    BY <1>4
  <2> QED
    BY <1>0, <1>4, <2>1 DEF Magnitude
<1> QED
  BY <1>1, <1>2, <1>3, <1>4

LEMMA WholeOfProduct ==
    ASSUME NEW x \in Int, NEW y \in Int
    PROVE  WholeBytes(x * y) <= WholeBytes(x) + WholeBytes(y) + 1
<1> DEFINE i == WholeBytes(x)
           j == WholeBytes(y)
           k == WholeBytes(x * y)
<1>0. i \in Nat /\ j \in Nat /\ k \in 0 .. MaxBytes /\ k \in Nat /\ x * y \in Int
  BY WholeIs, MagnitudeOfProduct
<1> SUFFICES ASSUME k >= i + j + 2 PROVE FALSE
  BY <1>0
<1>1. i + 1 \in 1 .. MaxBytes /\ j + 1 \in 1 .. MaxBytes /\ i + 1 > i /\ j + 1 > j
  BY <1>0, Sizes
<1>2. /\ Half(i + 1) \in Nat /\ Half(j + 1) \in Nat
      /\ Values(i + 1) = 2 * Half(i + 1) /\ Values(j + 1) = 2 * Half(j + 1)
  BY <1>0, HalfGrows
<1>3. Magnitude(x) < Half(i + 1) /\ Magnitude(y) < Half(j + 1)
  <2>1. ~(Magnitude(x) >= Half(i + 1))
    BY <1>0, <1>1, WholeIs
  <2>2. ~(Magnitude(y) >= Half(j + 1))
    BY <1>0, <1>1, WholeIs
  <2> QED
    BY <1>2, <2>1, <2>2, WholeIs
<1>4. Values((i + 1) + (j + 1)) = Values(i + 1) * Values(j + 1)
  BY <1>0, ValuesMultiply
<1>5. Half((i + 1) + (j + 1)) = 2 * (Half(i + 1) * Half(j + 1))
  <2> DEFINE p == Half(i + 1)
             q == Half(j + 1)
             v == Values((i + 1) + (j + 1))
  <2>1. v = (2 * p) * (2 * q) /\ p \in Nat /\ q \in Nat
    BY <1>2, <1>4
  <2> HIDE DEF p, q, v
  <2>2. v = 2 * (2 * (p * q)) /\ p * q \in Nat
    BY <2>1
  <2>3. v \div 2 = 2 * (p * q)
    BY <2>2
  <2> QED
    BY <2>3 DEF Half, p, q, v
<1>6. Magnitude(x * y) < Half((i + 1) + (j + 1))
  <2>1. Magnitude(x) \in Nat /\ Magnitude(y) \in Nat
    BY WholeIs
  <2>2. Magnitude(x) * Magnitude(y) < 2 * (Half(i + 1) * Half(j + 1))
    BY <1>2, <1>3, <2>1, ProductBelow
  <2>3. Magnitude(x * y) = Magnitude(x) * Magnitude(y)
    BY MagnitudeOfProduct
  <2> QED
    BY <1>5, <2>2, <2>3
<1>7. (i + 1) + (j + 1) \in Nat \ {0} /\ (i + 1) + (j + 1) <= k /\ k # 0
  BY <1>0
<1>8. Half((i + 1) + (j + 1)) <= Half(k) /\ Half(k) \in Nat /\ Half((i + 1) + (j + 1)) \in Nat
  BY <1>0, <1>7, HalvesGrow, HalfGrows
<1>9. Magnitude(x * y) >= Half(k) /\ Magnitude(x * y) \in Nat
  BY <1>0, <1>7, WholeIs
<1> QED
  BY <1>6, <1>8, <1>9

\* What data and words can be.
LEMMA WholeOfData ==
    ASSUME NEW b, IsData(b)
    PROVE  WholeBytes(SetBytes(b)) <= b.len /\ WholeBytes(TwosSetBytes(b)) <= b.len
<1>1. b.len \in Nat /\ b.val \in Nat /\ b.val < Values(b.len) /\ Values(b.len) \in Nat
  BY DataAre, ValuesAre DEF IsData
<1>2. WholeBytes(SetBytes(b)) <= b.len
  <2>1. SetBytes(b) \in Int /\ Magnitude(SetBytes(b)) < Values(b.len)
    BY <1>1 DEF SetBytes, Magnitude
  <2> QED
    BY <1>1, <2>1, WholeBelow
<1>3. CASE b.len > 0 /\ b.val >= Values(b.len) \div 2
  <2>1. Values(b.len) \div 2 \in Nat \ {0}
    BY <1>1, <1>3, ValuesAre
  <2>2. TwosSetBytes(b) = b.val - Values(b.len)
    BY <1>3 DEF TwosSetBytes
  <2>3. TwosSetBytes(b) \in Int /\ Magnitude(TwosSetBytes(b)) < Values(b.len)
    BY <1>1, <1>3, <2>1, <2>2 DEF Magnitude
  <2> QED
    BY <1>1, <1>2, <2>3, WholeBelow
<1>4. CASE ~(b.len > 0 /\ b.val >= Values(b.len) \div 2)
  BY <1>2, <1>4 DEF TwosSetBytes, SetBytes
<1> QED
  BY <1>3, <1>4

LEMMA WholeOfWord ==
    ASSUME NEW x, x \in Int64s \/ IsUint64(x)
    PROVE  x \in Int /\ WholeBytes(x) <= WordBytes
<1>1. x \in Int /\ Magnitude(x) < Word
  BY Sizes DEF Int64s, Signed, IsUint64, Unsigned, Magnitude
<1> QED
  BY <1>1, WholeBelow, Sizes DEF Word

LEMMA FreeIs ==
    ASSUME NEW c \in Contracts
    PROVE  /\ FreeBytes(c) \in Nat /\ 2 * NormalLength + 1 <= FreeBytes(c)
           /\ WordBytes <= FreeBytes(c)
           /\ \A input \in c.inputs : \A j \in 1 .. Len(input.args) :
                  input.args[j].len <= FreeBytes(c)
<1> DEFINE S == {0} \cup UNION {{input.args[j].len : j \in 1 .. Len(input.args)} :
                                  input \in c.inputs}
           n == 2 * NormalLength + 1
           a == ArgumentBytes(c)
           T == {n, WordBytes, a}
<1>1. ASSUME NEW input \in c.inputs, NEW j \in 1 .. Len(input.args)
      PROVE  input.args[j].len \in 0 .. MaxBytes /\ input.args[j].len \in S
  <2>1. IsData(input.args[j])
    BY ContractsAssumption DEF IsInput
  <2>2. input.args[j].len \in 0 .. MaxBytes
    BY <2>1, Sizes DEF IsData
  <2> QED
    BY <2>2
<1>2. S \in SUBSET (0 .. MaxBytes) /\ S # {} /\ MaxBytes \in Nat
  <2>1. \A k \in S : k \in 0 .. MaxBytes
    BY <1>1, Sizes
  <2> QED
    BY <2>1, Sizes
<1>3. a \in S /\ \A k \in S : a >= k
  <2>1. a = Max(S)
    BY DEF ArgumentBytes
  <2> HIDE DEF S
  <2> QED
    BY <1>2, <2>1, MaxIs
<1>4. a \in Nat /\ n \in Nat /\ WordBytes \in Nat
  BY <1>2, <1>3, Sizes
<1> DEFINE top == n + WordBytes + a
<1>5. T \in SUBSET (0 .. top) /\ T # {} /\ top \in Nat
  BY <1>4
<1>6. FreeBytes(c) = Max(T)
  BY DEF FreeBytes
<1> HIDE DEF T, S, top, a
<1>7. Max(T) \in T /\ \A k \in T : Max(T) >= k
  BY <1>5, MaxIs
<1>8. FreeBytes(c) \in Nat /\ n <= FreeBytes(c) /\ WordBytes <= FreeBytes(c) /\ a <= FreeBytes(c)
  BY <1>4, <1>6, <1>7 DEF T
<1>9. ASSUME NEW input \in c.inputs, NEW j \in 1 .. Len(input.args)
      PROVE  input.args[j].len <= FreeBytes(c)
  <2>1. input.args[j].len \in Nat /\ input.args[j].len \in S
    BY <1>1, <1>2
  <2>2. input.args[j].len <= a
    BY <1>3, <1>4, <2>1
  <2> QED
    BY <1>4, <1>8, <2>1, <2>2
<1> QED
  BY <1>8, <1>9

LEMMA ExtraGasNat ==
    ASSUME NEW x, Number(x)
    PROVE  WholeBytes(x) \in Nat /\ ExtraGas(x) \in Nat
<1>1. WholeBytes(x) \in Nat
  BY WholeIs DEF Number
<1> QED
  BY <1>1, Sizes DEF ExtraGas

\* The gas used pays for the number x, or x is free.
Afforded(used, c, x) ==
    DataCopyPerByte * WholeBytes(x) <= used + DataCopyPerByte * FreeBytes(c)

LEMMA CopyCosts ==
    ASSUME NEW m \in Nat, NEW n \in Nat
    PROVE  /\ DataCopyPerByte * m \in Nat
           /\ m <= n => DataCopyPerByte * m <= DataCopyPerByte * n
           /\ DataCopyPerByte * (m + n) = DataCopyPerByte * m + DataCopyPerByte * n
<1> DEFINE C == DataCopyPerByte
<1>1. C \in Nat
  BY Sizes
<1> HIDE DEF C
<1>2. C * m \in Nat /\ (m <= n => C * m <= C * n) /\ C * (m + n) = C * m + C * n
  BY <1>1
<1> QED
  BY <1>2 DEF C

LEMMA AffordedLater ==
    ASSUME NEW c \in Contracts, NEW x \in Int, NEW used \in Nat, NEW later \in Nat,
           used <= later, Afforded(used, c, x)
    PROVE  Afforded(later, c, x)
<1>1. DataCopyPerByte * WholeBytes(x) \in Nat /\ DataCopyPerByte * FreeBytes(c) \in Nat
  BY CopyCosts, FreeIs, WholeIs
<1> QED
  BY <1>1 DEF Afforded

\* What needs no gas, what a copy of n bytes pays for, and what the extra gas for
\* two operands pays for.
LEMMA AffordedFree ==
    ASSUME NEW c \in Contracts, NEW x \in Int, NEW used \in Nat, WholeBytes(x) <= FreeBytes(c)
    PROVE  Afforded(used, c, x)
<1>1. /\ DataCopyPerByte * WholeBytes(x) \in Nat /\ DataCopyPerByte * FreeBytes(c) \in Nat
      /\ DataCopyPerByte * WholeBytes(x) <= DataCopyPerByte * FreeBytes(c)
  BY CopyCosts, FreeIs, WholeIs
<1> QED
  BY <1>1 DEF Afforded

LEMMA AffordedCopied ==
    ASSUME NEW c \in Contracts, NEW x \in Int, NEW n \in Nat, WholeBytes(x) <= n,
           NEW used \in Nat, DataCopyPerByte * n <= used
    PROVE  Afforded(used, c, x)
<1>1. /\ DataCopyPerByte * WholeBytes(x) \in Nat /\ DataCopyPerByte * FreeBytes(c) \in Nat
      /\ DataCopyPerByte * WholeBytes(x) <= DataCopyPerByte * n /\ DataCopyPerByte * n \in Nat
  BY CopyCosts, FreeIs, WholeIs
<1> QED
  BY <1>1 DEF Afforded

LEMMA AffordedResult ==
    ASSUME NEW c \in Contracts, NEW x \in Int, NEW y \in Int, NEW z \in Int,
           WholeBytes(z) <= WholeBytes(x) + WholeBytes(y) + 1,
           NEW used \in Nat, ExtraGas(x) + ExtraGas(y) <= used
    PROVE  Afforded(used, c, z)
<1> DEFINE C(m) == DataCopyPerByte * m
           i == WholeBytes(x)
           j == WholeBytes(y)
           k == WholeBytes(z)
           N == NormalLength
           F == FreeBytes(c)
<1>1. /\ i \in Nat /\ j \in Nat /\ k \in Nat /\ N \in Nat /\ F \in Nat
      /\ 2 * N + 1 <= F /\ k <= i + j + 1
  BY WholeIs, FreeIs, Sizes
<1>2. /\ C(i) \in Nat /\ C(j) \in Nat /\ C(k) \in Nat /\ C(F) \in Nat
  BY <1>1, CopyCosts
<1>3. C(k) <= C(i + j + 1) /\ C(i + j + 1) \in Nat
  BY <1>1, CopyCosts
<1>4. /\ ExtraGas(x) = IF i > N THEN C(i) ELSE 0
      /\ ExtraGas(y) = IF j > N THEN C(j) ELSE 0
  <2>1. \A m \in Nat : m * DataCopyPerByte = DataCopyPerByte * m
    BY Sizes
  <2> QED
    BY <1>1, <2>1 DEF ExtraGas
<1>5. CASE i > N /\ j > N
  <2>1. C(i + j + 1) = C(i + j) + C(1) /\ C(i + j) = C(i) + C(j)
    <3>1. i + j \in Nat /\ 1 \in Nat
      BY <1>1
    <3> QED
      BY <1>1, <3>1, CopyCosts
  <2>2. C(1) <= C(F) /\ C(1) \in Nat
    BY <1>1, CopyCosts
  <2> HIDE DEF C
  <2>3. C(k) <= used + C(F)
    BY <1>2, <1>3, <1>4, <1>5, <2>1, <2>2
  <2> QED
    BY <2>3 DEF Afforded, C
<1>6. CASE i > N /\ ~(j > N)
  <2>1. C(i + j + 1) = C(i) + C(j + 1)
    <3>1. j + 1 \in Nat /\ i + j + 1 = i + (j + 1)
      BY <1>1
    <3> QED
      BY <1>1, <3>1, CopyCosts
  <2>2. C(j + 1) <= C(F) /\ C(j + 1) \in Nat
    <3>1. j + 1 \in Nat /\ j + 1 <= F
      BY <1>1, <1>6
    <3> QED
      BY <1>1, <3>1, CopyCosts
  <2> HIDE DEF C
  <2>3. C(k) <= used + C(F)
    BY <1>2, <1>3, <1>4, <1>6, <2>1, <2>2
  <2> QED
    BY <2>3 DEF Afforded, C
<1>7. CASE ~(i > N) /\ j > N
  <2>1. C(i + j + 1) = C(j) + C(i + 1)
    <3>1. i + 1 \in Nat /\ i + j + 1 = j + (i + 1)
      BY <1>1
    <3> QED
      BY <1>1, <3>1, CopyCosts
  <2>2. C(i + 1) <= C(F) /\ C(i + 1) \in Nat
    <3>1. i + 1 \in Nat /\ i + 1 <= F
      BY <1>1, <1>7
    <3> QED
      BY <1>1, <3>1, CopyCosts
  <2> HIDE DEF C
  <2>3. C(k) <= used + C(F)
    BY <1>2, <1>3, <1>4, <1>7, <2>1, <2>2
  <2> QED
    BY <2>3 DEF Afforded, C
<1>8. CASE ~(i > N) /\ ~(j > N)
  <2>1. C(i + j + 1) <= C(F)
    <3>1. i + j + 1 \in Nat /\ i + j + 1 <= F
      BY <1>1, <1>8
    <3> QED
      BY <1>1, <3>1, CopyCosts
  <2> HIDE DEF C
  <2>2. C(k) <= used + C(F)
    BY <1>2, <1>3, <2>1
  <2> QED
    BY <2>2 DEF Afforded, C
<1> QED
  BY <1>5, <1>6, <1>7, <1>8

LEMMA ZeroBytes == WholeBytes(0) = 0 /\ ExtraGas(0) = 0 /\ WholeBytes(-1) <= 1
<1>1. Magnitude(0) < Values(0) /\ Magnitude(-1) < Values(1)
  BY ValuesAre DEF Magnitude
<1>2. WholeBytes(0) <= 0 /\ WholeBytes(-1) <= 1 /\ WholeBytes(0) \in Nat
  BY <1>1, WholeBelow, WholeIs
<1>3. WholeBytes(0) = 0
  BY <1>2
<1> QED
  BY <1>2, <1>3, Sizes DEF ExtraGas

LEMMA WordFree ==
    ASSUME NEW c \in Contracts, NEW used \in Nat, NEW x, x \in Int64s \/ IsUint64(x)
    PROVE  Afforded(used, c, x)
<1>1. x \in Int /\ WholeBytes(x) <= WordBytes
  BY WholeOfWord
<1>2. WholeBytes(x) <= FreeBytes(c)
  <2>1. FreeBytes(c) \in Nat /\ WordBytes <= FreeBytes(c) /\ WordBytes \in Nat
    BY FreeIs, Sizes
  <2>2. WholeBytes(x) \in Nat
    BY <1>1, WholeIs
  <2> QED
    BY <1>1, <2>1, <2>2
<1> QED
  BY <1>1, <1>2, AffordedFree

LEMMA ZeroFree ==
    ASSUME NEW c \in Contracts, NEW used \in Nat
    PROVE  Afforded(used, c, 0)
<1>1. WholeBytes(0) <= FreeBytes(c)
  BY ZeroBytes, FreeIs
<1> QED
  BY <1>1, AffordedFree

-----------------------------------------------------------------------------
(* Well-formed contexts.                                                    *)

HostFields ==
    {"contract", "input", "chain", "node", "updates", "state", "used", "refund",
     "stored", "address", "readOnly", "frames", "sent", "big", "returnData",
     "logs", "call"}
States == {"running", "failed", "userError", "panicked"}
CallNames == {"delegateExecution", "executeReadOnly", "executeOnDestContextByCaller"}

IsStorage(s) ==
    DOMAIN s = StoredAccounts /\ \A a \in StoredAccounts : DOMAIN s[a] = AllKeys
HoldsData(s) == \A a \in StoredAccounts, k \in AllKeys : IsData(s[a][k])
CachesData(s) ==
    \A a \in StoredAccounts, k \in AllKeys : s[a][k] = NotCached \/ IsData(s[a][k])
IsChain(c) ==
    /\ DOMAIN c = {"now", "balance", "reserved"} /\ c.now \in Nat /\ c.balance = Balance
    /\ \A a \in StoredAccounts : IsData(c.reserved[a])
IsBig(big) ==
    /\ DOMAIN big \subseteq AllHandles
    /\ \A i \in DOMAIN big : Number(big[i])
IsFrame(f) ==
    /\ f.f \in CallNames /\ f.address \in StoredAccounts /\ f.readOnly \in BOOLEAN
    /\ IsBig(f.big) /\ IsInput(f.input)
IsFrames(fs) ==
    /\ Len(fs) \in Nat /\ fs = [i \in 1 .. Len(fs) |-> fs[i]]
    /\ \A i \in 1 .. Len(fs) : IsFrame(fs[i])

\* The numbers are afforded, those of the callers that wait too; the arguments are
\* free.
Short(c, input) == \A j \in 1 .. Len(input.args) : input.args[j].len <= FreeBytes(c)
AllAfforded(used, c, big) == \A i \in DOMAIN big : Afforded(used, c, big[i])
Sized(used, c, input, big, frames) ==
    /\ Short(c, input) /\ AllAfforded(used, c, big)
    /\ \A k \in 1 .. Len(frames) :
          Short(c, frames[k].input) /\ AllAfforded(used, c, frames[k].big)

IsHost(h) ==
    /\ DOMAIN h = HostFields
    /\ h.contract \in Contracts /\ IsInput(h.input) /\ IsChain(h.chain)
    /\ IsStorage(h.node) /\ HoldsData(h.node)
    /\ IsStorage(h.updates) /\ CachesData(h.updates)
    /\ h.state \in States
    /\ h.used \in Nat /\ h.refund \in Nat /\ h.stored \in Nat
    /\ h.address \in StoredAccounts /\ h.readOnly \in BOOLEAN
    /\ IsFrames(h.frames)
    /\ IsBig(h.big)
    /\ Sized(h.used, h.contract, h.input, h.big, h.frames)

(* Most functions of the EEI change nothing but the gas used, the numbers,   *)
(* the answer and, where they read, the cache.                              *)
Caches(h, g) ==
    \A a \in StoredAccounts, k \in AllKeys :
        \/ g.updates[a][k] = h.updates[a][k]
        \/ h.updates[a][k] = NotCached /\ g.updates[a][k] = h.node[a][k]
SameAround(h, g) ==
    /\ g.contract = h.contract /\ g.chain = h.chain /\ g.node = h.node
    /\ g.address = h.address /\ g.readOnly = h.readOnly /\ g.frames = h.frames
Quiet(h, g) ==
    /\ IsHost(g) /\ SameAround(h, g) /\ g.logs = h.logs
    /\ g.refund = h.refund /\ g.stored = h.stored
    /\ Caches(h, g)

\* Gas is only used, so what was afforded stays afforded.
LEMMA SizedLater ==
    ASSUME NEW h, IsHost(h), NEW later \in Nat, h.used <= later
    PROVE  Sized(later, h.contract, h.input, h.big, h.frames)
<1>1. h.used \in Nat /\ h.contract \in Contracts
  BY DEF IsHost
<1>2. ASSUME NEW big, IsBig(big), AllAfforded(h.used, h.contract, big)
      PROVE  AllAfforded(later, h.contract, big)
  <2>1. ASSUME NEW i \in DOMAIN big PROVE Afforded(later, h.contract, big[i])
    <3>1. big[i] \in Int /\ Afforded(h.used, h.contract, big[i])
      BY <1>2 DEF IsBig, Number, AllAfforded
    <3> QED
      BY <1>1, <3>1, AffordedLater
  <2> QED
    BY <2>1 DEF AllAfforded
<1>3. /\ IsBig(h.big) /\ Sized(h.used, h.contract, h.input, h.big, h.frames)
      /\ \A k \in 1 .. Len(h.frames) : IsBig(h.frames[k].big)
  BY DEF IsHost, IsFrames, IsFrame
<1> QED
  BY <1>2, <1>3 DEF Sized

LEMMA QuietTwice ==
    ASSUME NEW h, NEW g, NEW f, Quiet(h, g), Quiet(g, f)
    PROVE  Quiet(h, f)
<1>1. Caches(h, f)
  BY DEF Quiet, Caches, SameAround
<1> QED
  BY <1>1 DEF Quiet, SameAround

LEMMA UseGasQuiet ==
    ASSUME NEW h, IsHost(h), NEW gas \in Nat
    PROVE  LET g == UseGas(h, gas)
           IN  /\ Quiet(h, g) /\ g.call = h.call /\ g.state = h.state
               /\ g.big = h.big /\ g.input = h.input /\ g.updates = h.updates
               /\ g.used = h.used + gas /\ g.contract = h.contract
<1>1. h.used \in Nat
  BY DEF IsHost
<1>2. Sized(h.used + gas, h.contract, h.input, h.big, h.frames)
  BY <1>1, SizedLater
<1> QED
  BY <1>2 DEF UseGas, IsHost, HostFields, Quiet, SameAround, Caches

LEMMA AnsweredQuiet ==
    ASSUME NEW h, IsHost(h), NEW f, NEW about, NEW res
    PROVE  LET g == Answered(h, f, about, res)
           IN  /\ Quiet(h, g) /\ g.call = [f |-> f, about |-> about, res |-> res]
               /\ g.state = h.state /\ g.big = h.big /\ g.input = h.input
               /\ g.updates = h.updates /\ g.used = h.used
  BY DEF Answered, IsHost, HostFields, Quiet, SameAround, Caches

LEMMA PaidQuiet ==
    ASSUME IsHost(host)
    PROVE  /\ Quiet(host, Paid) /\ Paid.call = NoAnswer /\ Paid.state = host.state
           /\ Paid.big = host.big /\ Paid.input = host.input /\ Paid.updates = host.updates
<1>1. ApiCost \in Nat /\ host.used \in Nat
  BY Sizes DEF IsHost
<1>2. Sized(host.used + ApiCost, host.contract, host.input, host.big, host.frames)
  BY <1>1, SizedLater
<1> QED
  BY <1>1, <1>2 DEF Paid, UseGas, IsHost, HostFields, Quiet, SameAround, Caches

LEMMA FaultQuiet ==
    ASSUME NEW h, IsHost(h)
    PROVE  LET g == WithFault(h)
           IN  Quiet(h, g) /\ g.call = h.call /\ g.state = "failed"
<1>1. h.contract.gas \in Nat /\ h.used \in Nat
  BY ContractsAssumption DEF IsHost
<1>2. GasLeft(h) \in Nat
  BY <1>1 DEF GasLeft, SubUint64
<1>3. Sized(h.used + GasLeft(h), h.contract, h.input, h.big, h.frames)
  BY <1>1, <1>2, SizedLater
<1> QED
  BY <1>2, <1>3 DEF WithFault, UseGas, IsHost, HostFields, Quiet, SameAround, Caches, States

LEMMA NumberPut ==
    ASSUME NEW h, IsHost(h), NEW i \in AllHandles, NEW x, Number(x),
           Afforded(h.used, h.contract, x)
    PROVE  LET g == SetOne(h, i, x)
           IN  /\ Quiet(h, g) /\ g.call = h.call /\ g.state = h.state
               /\ g.input = h.input /\ g.updates = h.updates /\ g.used = h.used
               /\ DOMAIN g.big = DOMAIN h.big \cup {i}
               /\ g.big[i] = x /\ \A j \in DOMAIN h.big : j # i => g.big[j] = h.big[j]
<1> DEFINE big == [j \in DOMAIN h.big \cup {i} |-> IF j = i THEN x ELSE h.big[j]]
<1>2. IsBig(big)
  BY DEF IsHost, IsBig
<1>3. SetOne(h, i, x) = [h EXCEPT !.big = big]
  BY DEF SetOne
<1>4. DOMAIN big = DOMAIN h.big \cup {i} /\ big[i] = x
      /\ \A j \in DOMAIN h.big : j # i => big[j] = h.big[j]
  OBVIOUS
<1>5. Sized(h.used, h.contract, h.input, big, h.frames)
  BY DEF IsHost, Sized, AllAfforded
<1> HIDE DEF big
<1> QED
  BY <1>2, <1>3, <1>4, <1>5 DEF IsHost, HostFields, Quiet, SameAround, Caches

LEMMA NumberSet ==
    ASSUME NEW h, IsHost(h), NEW i \in Handles, NEW x, Number(x),
           Afforded(h.used, h.contract, x)
    PROVE  LET g == SetOne(h, i, x)
           IN  /\ Quiet(h, g) /\ g.call = h.call /\ g.state = h.state
               /\ g.input = h.input /\ g.updates = h.updates /\ g.used = h.used
               /\ DOMAIN g.big = DOMAIN h.big \cup {i}
               /\ g.big[i] = x /\ \A j \in DOMAIN h.big : j # i => g.big[j] = h.big[j]
  BY NumberPut DEF AllHandles

LEMMA NumberGot ==
    ASSUME NEW h, IsHost(h), NEW i \in Handles
    PROVE  LET g == GetOne(h, i)
           IN  /\ Quiet(h, g) /\ g.call = h.call /\ g.state = h.state
               /\ g.input = h.input /\ g.updates = h.updates /\ g.used = h.used
               /\ DOMAIN g.big = DOMAIN h.big \cup {i} /\ Number(g.big[i])
<1>1. CASE i \in DOMAIN h.big
  BY <1>1 DEF GetOne, Quiet, SameAround, Caches, IsHost, IsBig
<1>2. CASE i \notin DOMAIN h.big
  <2>1. Afforded(h.used, h.contract, 0)
    BY ZeroFree DEF IsHost
  <2> QED
    BY <1>2, <2>1, NumberSet, NoBytesData DEF GetOne
<1> QED
  BY <1>1, <1>2

LEMMA QuietHeld ==
    ASSUME NEW h, NEW g, Quiet(h, g), NEW a \in StoredAccounts, NEW k \in AllKeys
    PROVE  Held(g, a, k) = Held(h, a, k)
  BY DEF Quiet, SameAround, Caches, Held

LEMMA HeldData ==
    ASSUME NEW h, IsHost(h), NEW a \in StoredAccounts, NEW k \in AllKeys
    PROVE  IsData(Held(h, a, k))
  BY DEF IsHost, HoldsData, CachesData, Held

LEMMA CachedQuiet ==
    ASSUME NEW h, IsHost(h), NEW a \in StoredAccounts, NEW k \in AllKeys
    PROVE  LET g == Cached(h, a, k)
           IN  /\ Quiet(h, g) /\ g.call = h.call /\ g.state = h.state
               /\ g.big = h.big /\ g.input = h.input /\ g.used = h.used
               /\ g.updates[a][k] = Held(h, a, k)
<1>1. CASE h.updates[a][k] = NotCached
  <2> DEFINE t == [h.updates EXCEPT ![a][k] = h.node[a][k]]
             g == Cached(h, a, k)
  <2>1. g = [h EXCEPT !.updates = t]
    BY <1>1 DEF Cached
  <2>2. /\ IsStorage(t) /\ t[a][k] = h.node[a][k]
        /\ \A b \in StoredAccounts, j \in AllKeys :
               b # a \/ j # k => t[b][j] = h.updates[b][j]
    <3>1. IsStorage(h.updates)
      BY DEF IsHost
    <3> DEFINE v == h.node[a][k]
    <3>2. t = [h.updates EXCEPT ![a][k] = v]
      OBVIOUS
    <3> HIDE DEF v, t
    <3>3. /\ IsStorage(t) /\ t[a][k] = v
          /\ \A b \in StoredAccounts, j \in AllKeys :
                 b # a \/ j # k => t[b][j] = h.updates[b][j]
      BY <3>1, <3>2 DEF IsStorage
    <3> QED
      BY <3>3 DEF v
  <2>3. CachesData(t)
    BY <2>2 DEF IsHost, CachesData, HoldsData
  <2>4. \A b \in StoredAccounts, j \in AllKeys :
            t[b][j] = h.updates[b][j] \/ (h.updates[b][j] = NotCached /\ t[b][j] = h.node[b][j])
    BY <1>1, <2>2
  <2>5. t[a][k] = Held(h, a, k)
    BY <1>1, <2>2 DEF Held
  <2> HIDE DEF t
  <2> QED
    BY <2>1, <2>2, <2>3, <2>4, <2>5 DEF IsHost, HostFields, Quiet, SameAround, Caches
<1>2. CASE h.updates[a][k] # NotCached
  BY <1>2 DEF Cached, Held, Quiet, SameAround, Caches
<1> QED
  BY <1>1, <1>2

\* What reading the storage does: v is what it answers.
Reads(h, r, v) ==
    /\ Quiet(h, r.host) /\ r.host.call = h.call /\ r.host.state = h.state
    /\ r.host.big = h.big /\ r.host.input = h.input
    /\ r.value = v /\ IsData(v)

LEMMA ReadMetered ==
    ASSUME NEW h, IsHost(h), NEW gas \in Nat, NEW r, NEW v,
           r = [host |-> r.host, value |-> r.value],
           Reads(UseGas(h, gas), r, v)
    PROVE  LET m == [r EXCEPT !.host = UseGas(@, DataCopyPerByte * r.value.len)]
           IN Reads(h, m, v) /\ DataCopyPerByte * v.len <= m.host.used
<1> DEFINE h1 == UseGas(h, gas)
           g == UseGas(r.host, DataCopyPerByte * r.value.len)
<1>1. /\ Quiet(h, h1) /\ h1.call = h.call /\ h1.state = h.state
      /\ h1.big = h.big /\ h1.input = h.input
  BY UseGasQuiet
<1>2. IsHost(r.host) /\ DataCopyPerByte * r.value.len \in Nat
  BY Sizes, DataAre DEF Reads, Quiet
<1>3. /\ Quiet(r.host, g) /\ g.call = r.host.call /\ g.state = r.host.state
      /\ g.big = r.host.big /\ g.input = r.host.input
      /\ g.used = r.host.used + DataCopyPerByte * r.value.len /\ r.host.used \in Nat
  BY <1>2, UseGasQuiet DEF IsHost
<1>4. Quiet(h, r.host)
  BY <1>1, QuietTwice DEF Reads
<1>5. Quiet(h, g)
  BY <1>3, <1>4, QuietTwice
<1>6. [r EXCEPT !.host = UseGas(@, DataCopyPerByte * r.value.len)] = [host |-> g, value |-> r.value]
  OBVIOUS
<1> HIDE DEF g, h1
<1> QED
  BY <1>1, <1>2, <1>3, <1>5, <1>6 DEF Reads, h1

LEMMA ReadUnmetered ==
    ASSUME NEW h, IsHost(h), NEW a \in StoredAccounts, NEW k \in AllKeys
    PROVE  LET r == getStorageFromAddressUnmetered(h, a, k)
           IN Reads(h, r, Held(h, a, k)) /\ r = [host |-> r.host, value |-> r.value]
  BY CachedQuiet, HeldData DEF getStorageFromAddressUnmetered, Reads

LEMMA UsedHeld ==
    ASSUME NEW h, IsHost(h), NEW gas \in Nat, NEW a \in StoredAccounts, NEW k \in AllKeys
    PROVE  /\ IsHost(UseGas(h, gas)) /\ Held(UseGas(h, gas), a, k) = Held(h, a, k)
           /\ UseGas(h, gas).address = h.address /\ UseGas(h, gas).node = h.node
<1>1. Quiet(h, UseGas(h, gas))
  BY UseGasQuiet
<1> QED
  BY <1>1, QuietHeld DEF Quiet, SameAround

LEMMA ExtraCost ==
    ASSUME NEW k
    PROVE  DataCopyPerByte * ExtraBytes(k) \in Nat
  BY Sizes DEF ExtraBytes

LEMMA ReadStorage ==
    ASSUME NEW h, IsHost(h), NEW k \in AllKeys
    PROVE  /\ Reads(h, GetStorage(h, k), Held(h, h.address, k))
           /\ DataCopyPerByte * GetStorage(h, k).value.len <= GetStorage(h, k).host.used
<1> DEFINE gas == DataCopyPerByte * ExtraBytes(k)
           h1 == UseGas(h, gas)
           r == getStorageFromAddressUnmetered(h1, h.address, k)
<1>0. h.address \in StoredAccounts /\ gas \in Nat
  BY ExtraCost DEF IsHost
<1>1. IsHost(h1) /\ Held(h1, h.address, k) = Held(h, h.address, k) /\ h1.address = h.address
  BY <1>0, UsedHeld
<1>2. Reads(h1, r, Held(h, h.address, k)) /\ r = [host |-> r.host, value |-> r.value]
  BY <1>0, <1>1, ReadUnmetered
<1>3. GetStorage(h, k) = [r EXCEPT !.host = UseGas(@, DataCopyPerByte * r.value.len)]
  BY <1>1 DEF GetStorage, GetStorageUnmetered
<1> HIDE DEF r, gas
<1>4. /\ Reads(h, GetStorage(h, k), Held(h, h.address, k))
      /\ DataCopyPerByte * Held(h, h.address, k).len <= GetStorage(h, k).host.used
  BY <1>0, <1>2, <1>3, ReadMetered
<1> QED
  BY <1>4 DEF Reads

(* Keys of the Node are read from the Node, where the account may be read at all. *)
LEMMA ReadFromAddress ==
    ASSUME NEW h, IsHost(h), NEW a \in StoredAccounts, NEW k \in AllKeys
    PROVE  \E v : /\ Reads(h, GetStorageFromAddress(h, a, k), v)
                  /\ isElrondReservedKey(k) /\ (a = h.address \/ a \in ReadableAccounts)
                        => v = h.node[a][k]
<1> DEFINE gas == DataCopyPerByte * ExtraBytes(k)
           h1 == UseGas(h, gas)
           r == IF isElrondReservedKey(k)
                THEN [host |-> h1, value |-> h1.node[a][k]]
                ELSE getStorageFromAddressUnmetered(h1, a, k)
           v == IF isElrondReservedKey(k) THEN h.node[a][k] ELSE Held(h, a, k)
<1>0. gas \in Nat
  BY ExtraCost
<1>1. /\ IsHost(h1) /\ Held(h1, a, k) = Held(h, a, k) /\ h1.node = h.node
      /\ Quiet(h, h1) /\ h1.call = h.call /\ h1.state = h.state
      /\ h1.big = h.big /\ h1.input = h.input
  BY <1>0, UsedHeld, UseGasQuiet
<1>2. Quiet(h1, h1)
  BY <1>1 DEF Quiet, SameAround, Caches
<1>3. Reads(h1, r, v) /\ r = [host |-> r.host, value |-> r.value]
  <2>1. CASE isElrondReservedKey(k)
    <3>1. IsData(h.node[a][k])
      BY DEF IsHost, HoldsData
    <3> QED
      BY <1>1, <1>2, <2>1, <3>1 DEF Reads
  <2>2. CASE ~isElrondReservedKey(k)
    BY <1>1, <2>2, ReadUnmetered
  <2> QED
    BY <2>1, <2>2
<1>4. CASE a # h.address /\ a \notin ReadableAccounts
  <2>1. GetStorageFromAddress(h, a, k) = [host |-> h1, value |-> NoBytes]
    BY <1>4 DEF GetStorageFromAddress
  <2>2. Reads(h, [host |-> h1, value |-> NoBytes], NoBytes)
    BY <1>1, NoBytesData DEF Reads
  <2> QED
    BY <1>4, <2>1, <2>2
<1>5. CASE ~(a # h.address /\ a \notin ReadableAccounts)
  <2>1. GetStorageFromAddress(h, a, k) = [r EXCEPT !.host = UseGas(@, DataCopyPerByte * r.value.len)]
    BY <1>5 DEF GetStorageFromAddress
  <2>2. isElrondReservedKey(k) => v = h.node[a][k]
    OBVIOUS
  <2> HIDE DEF r, gas, v
  <2>3. Reads(h, GetStorageFromAddress(h, a, k), v)
    BY <1>0, <1>3, <2>1, ReadMetered
  <2> QED
    BY <2>2, <2>3
<1> QED
  BY <1>4, <1>5

-----------------------------------------------------------------------------
(* Writing the storage.                                                     *)

(* What is given back for a value, and what the new one could give back, is *)
(* no more than what the old one could and what is paid for.                *)
LEMMA ChargeBacked ==
    ASSUME NEW old, IsData(old), NEW new, IsData(new)
    PROVE  LET c == StoreCharge(old, new)
           IN  /\ c.use \in Nat /\ c.free \in Nat
               /\ c.free + ReleasePerByte * new.len <= ReleasePerByte * old.len + c.use
<1> DEFINE R == ReleasePerByte
           n == new.len
           o == old.len
<1>1. R \in Nat /\ n \in Nat /\ o \in Nat /\ StorePerByte \in Nat /\ PersistPerByte \in Nat
      /\ DataCopyPerByte \in Nat /\ R <= StorePerByte
  BY Sizes, DataAre
<1>2. R * n \in Nat /\ R * o \in Nat /\ R * n <= StorePerByte * n
      /\ StorePerByte * n \in Nat /\ PersistPerByte * o \in Nat
      /\ PersistPerByte * n \in Nat /\ DataCopyPerByte * n \in Nat
  BY <1>1
<1>3. CASE new = old
  BY <1>1, <1>2, <1>3 DEF StoreCharge
<1>4. CASE new # old /\ old = NoBytes
  BY <1>1, <1>2, <1>4, NoBytesData DEF StoreCharge
<1>5. CASE new # old /\ old # NoBytes /\ new = NoBytes
  <2>1. R * n = 0
    BY <1>1, <1>5, NoBytesData
  <2> QED
    BY <1>1, <1>2, <1>5, <2>1 DEF StoreCharge
<1>6. CASE new # old /\ old # NoBytes /\ new # NoBytes /\ n > o
  <2>1. n - o \in Nat
    BY <1>1, <1>6
  <2>2. R * (n - o) = R * n - R * o /\ R * (n - o) \in Nat
        /\ StorePerByte * (n - o) \in Nat /\ R * (n - o) <= StorePerByte * (n - o)
    BY <1>1, <2>1
  <2>3. StoreCharge(old, new).use = PersistPerByte * o + StorePerByte * (n - o)
        /\ StoreCharge(old, new).free = 0
    BY <1>6 DEF StoreCharge, GrowthCost
  <2> QED
    BY <1>1, <1>2, <2>2, <2>3
<1>7. CASE new # old /\ old # NoBytes /\ new # NoBytes /\ ~(n > o) /\ n < o
  <2>1. o - n \in Nat
    BY <1>1, <1>7
  <2>2. R * (o - n) = R * o - R * n /\ R * (o - n) \in Nat
    BY <1>1, <2>1
  <2>3. StoreCharge(old, new).use = PersistPerByte * n
        /\ StoreCharge(old, new).free = R * (o - n)
    BY <1>7 DEF StoreCharge
  <2> QED
    BY <1>1, <1>2, <2>2, <2>3
<1>8. CASE new # old /\ old # NoBytes /\ new # NoBytes /\ ~(n > o) /\ ~(n < o)
  <2>1. n = o
    BY <1>1, <1>8
  <2>2. StoreCharge(old, new).use = 0 /\ StoreCharge(old, new).free = 0
    BY <1>8 DEF StoreCharge
  <2> QED
    BY <1>1, <1>2, <2>1, <2>2
<1> QED
  BY <1>3, <1>4, <1>5, <1>6, <1>7, <1>8

\* Value v is written under key k of the account at work.
Writes(h, g, k, v) ==
    /\ IsHost(g) /\ SameAround(h, g) /\ g.logs = h.logs /\ g.state = h.state
    /\ IsData(v) /\ ~isElrondReservedKey(k) /\ ~h.readOnly
    /\ Held(g, h.address, k) = v
    /\ \A a \in StoredAccounts, j \in AllKeys :
          a # h.address \/ j # k => Held(g, a, j) = Held(h, a, j)
    /\ g.refund + ReleasePerByte * v.len + h.stored
          <= h.refund + ReleasePerByte * Held(h, h.address, k).len + g.stored

LEMMA WriteIs ==
    ASSUME NEW h, IsHost(h), NEW k \in AllKeys, NEW v, IsData(v),
           ~isElrondReservedKey(k), ~h.readOnly
    PROVE  /\ WriteStorage(h, k, v).err = FALSE
           /\ Writes(h, WriteStorage(h, k, v).host, k, v)
<1> DEFINE a == h.address
           h0 == UseGas(h, DataCopyPerByte * ExtraBytes(k))
           h1 == Cached(h0, a, k)
           old == Held(h, a, k)
           c == StoreCharge(h1.updates[a][k], v)
           t == [h1.updates EXCEPT ![a][k] = v]
           g == WriteStorage(h, k, v).host
<1>0. a \in StoredAccounts /\ DataCopyPerByte * ExtraBytes(k) \in Nat
  BY ExtraCost DEF IsHost
<1>1. /\ Quiet(h, h0) /\ h0.call = h.call /\ h0.state = h.state /\ IsHost(h0)
      /\ Held(h0, a, k) = old
  BY <1>0, UseGasQuiet, QuietHeld DEF Quiet
<1>2. /\ Quiet(h0, h1) /\ h1.call = h0.call /\ h1.state = h0.state
      /\ h1.updates[a][k] = old
  BY <1>0, <1>1, CachedQuiet
<1>3. Quiet(h, h1) /\ IsHost(h1) /\ IsStorage(h1.updates)
  BY <1>1, <1>2, QuietTwice DEF Quiet, IsHost
<1>4. /\ c.use \in Nat /\ c.free \in Nat
      /\ c.free + ReleasePerByte * v.len <= ReleasePerByte * old.len + c.use
  <2>1. IsData(old)
    BY <1>0, HeldData
  <2> QED
    BY <1>2, <2>1, ChargeBacked
<1>5. /\ IsStorage(t) /\ t[a][k] = v
      /\ \A b \in StoredAccounts, j \in AllKeys :
             b # a \/ j # k => t[b][j] = h1.updates[b][j]
  <2> DEFINE s == h1.updates
  <2>1. IsStorage(s) /\ t = [s EXCEPT ![a][k] = v]
    BY <1>3
  <2> HIDE DEF s, t, a
  <2>2. /\ IsStorage(t) /\ t[a][k] = v
        /\ \A b \in StoredAccounts, j \in AllKeys :
               b # a \/ j # k => t[b][j] = s[b][j]
    BY <1>0, <2>1 DEF IsStorage
  <2> QED
    BY <2>2 DEF s
<1>6. CachesData(t)
  BY <1>3, <1>5 DEF IsHost, CachesData
<1>7. WriteStorage(h, k, v).err = FALSE
      /\ g = [FreeGas(UseGas(h1, c.use), c.free)
                 EXCEPT !.updates[a][k] = v, !.stored = @ + c.use]
  BY DEF WriteStorage
<1> HIDE DEF c, t, h1, g, old
<1>8. g = [h1 EXCEPT !.used = @ + c.use, !.refund = @ + c.free,
                     !.updates = t, !.stored = @ + c.use]
  BY <1>3, <1>7 DEF UseGas, FreeGas, IsHost, HostFields, t
<1>9. /\ IsHost(g) /\ SameAround(h1, g) /\ g.logs = h1.logs
      /\ g.call = h1.call /\ g.state = h1.state /\ g.updates = t
      /\ g.refund = h1.refund + c.free /\ g.stored = h1.stored + c.use
  <2>1. h1.used \in Nat
    BY <1>3 DEF IsHost
  <2>2. Sized(h1.used + c.use, h1.contract, h1.input, h1.big, h1.frames)
    BY <1>3, <1>4, <2>1, SizedLater
  <2> QED
    BY <1>3, <1>4, <1>5, <1>6, <1>8, <2>2 DEF IsHost, HostFields, SameAround
<1>10. SameAround(h, g) /\ g.logs = h.logs /\ g.call = h.call /\ g.state = h.state
  BY <1>1, <1>2, <1>3, <1>9 DEF Quiet, SameAround
<1>11. Held(g, a, k) = v
  <2>1. v # NotCached
    BY DataAre DEF NotCached
  <2> QED
    BY <1>5, <1>9, <2>1 DEF Held
<1>12. ASSUME NEW b \in StoredAccounts, NEW j \in AllKeys, b # a \/ j # k
       PROVE  Held(g, b, j) = Held(h, b, j)
  <2>1. Held(g, b, j) = Held(h1, b, j)
    BY <1>5, <1>9, <1>12 DEF Held, SameAround
  <2> QED
    BY <1>3, <2>1, QuietHeld
<1>13. g.refund = h.refund + c.free /\ g.stored = h.stored + c.use
       /\ h.refund \in Nat /\ h.stored \in Nat
  BY <1>3, <1>9 DEF Quiet, IsHost
<1>14. ReleasePerByte * v.len \in Nat /\ ReleasePerByte * old.len \in Nat
  BY <1>0, HeldData, DataAre, Sizes DEF old
<1>15. g.refund + ReleasePerByte * v.len + h.stored
          <= h.refund + ReleasePerByte * old.len + g.stored
  BY <1>4, <1>13, <1>14
<1>16. Writes(h, g, k, v)
  <2>1. g.refund + ReleasePerByte * v.len + h.stored
          <= h.refund + ReleasePerByte * Held(h, h.address, k).len + g.stored
    BY <1>15 DEF old
  <2>2. \A b \in StoredAccounts, j \in AllKeys :
           b # h.address \/ j # k => Held(g, b, j) = Held(h, b, j)
    BY <1>12
  <2>3. IsHost(g)
    BY <1>9
  <2> QED
    BY <1>10, <1>11, <2>1, <2>2, <2>3 DEF Writes
<1> QED
  BY <1>7, <1>16 DEF g

-----------------------------------------------------------------------------
(* Steps that store nothing.                                                *)

StoreNames == UnsignedStores \cup SignedStores \cup LockSetters
              \cup {"bigIntStorageStoreUnsigned", "storageStore"}
\* The calls that a property looks at.
Marked == StoreNames \cup {"isStorageLocked", "storageLoadFromAddress"}

Unmarked(h, g) ==
    \/ g.call.f \notin Marked
    \/ g.call = h.call /\ g.state # "running"
    \/ g.readOnly /\ g.call.f \in StoreNames
PlainStep(h, g) == Quiet(h, g) /\ Unmarked(h, g)

\* The contexts in the middle of a function.
Ready(g) == Quiet(host, g) /\ g.call = NoAnswer /\ g.state = host.state

LEMMA ReadyPaid ==
    ASSUME IsHost(host)
    PROVE  /\ Ready(Paid) /\ Paid.big = host.big /\ Paid.input = host.input
           /\ Paid.readOnly = host.readOnly /\ Paid.address = host.address
  BY PaidQuiet DEF Ready, Quiet, SameAround

LEMMA ReadyGas ==
    ASSUME NEW g, Ready(g), NEW gas \in Nat
    PROVE  /\ Ready(UseGas(g, gas)) /\ UseGas(g, gas).big = g.big
           /\ UseGas(g, gas).used = g.used + gas
  BY UseGasQuiet, QuietTwice DEF Ready, Quiet

LEMMA ReadyNumber ==
    ASSUME NEW g, Ready(g), NEW i \in Handles, NEW x, Number(x),
           Afforded(g.used, g.contract, x)
    PROVE  Ready(SetOne(g, i, x)) /\ DOMAIN SetOne(g, i, x).big = DOMAIN g.big \cup {i}
  BY NumberSet, QuietTwice DEF Ready, Quiet

LEMMA ReadyMetered ==
    ASSUME NEW g, Ready(g)
    PROVE  g.used \in Nat /\ g.contract \in Contracts
  BY DEF Ready, Quiet, IsHost

LEMMA ReadyWord ==
    ASSUME NEW g, Ready(g), NEW i \in Handles, NEW x, x \in Int64s \/ IsUint64(x)
    PROVE  Ready(SetOne(g, i, x))
<1>1. Afforded(g.used, g.contract, x)
  BY ReadyMetered, WordFree
<1>2. Number(x)
  BY Int64Numbers, Uint64Numbers
<1> QED
  BY <1>1, <1>2, ReadyNumber

(* A number that is paid for once it is there. *)
LEMMA SetThenPaid ==
    ASSUME NEW g, Ready(g), NEW i \in Handles, NEW x, Number(x), NEW gas \in Nat,
           Afforded(g.used + gas, g.contract, x)
    PROVE  Ready(UseGas(SetOne(g, i, x), gas))
<1>1. DOMAIN g = HostFields
  BY DEF Ready, Quiet, IsHost
<1>2. UseGas(SetOne(g, i, x), gas) = SetOne(UseGas(g, gas), i, x)
  BY <1>1 DEF UseGas, SetOne, HostFields
<1>3. Ready(UseGas(g, gas)) /\ UseGas(g, gas).used = g.used + gas
  BY ReadyGas
<1>4. UseGas(g, gas).contract = g.contract
  BY <1>3 DEF Ready, Quiet, SameAround
<1> QED
  BY <1>2, <1>3, <1>4, ReadyNumber

LEMMA ReadyGot ==
    ASSUME NEW g, Ready(g), NEW i \in Handles
    PROVE  /\ Ready(GetOne(g, i)) /\ Number(GetOne(g, i).big[i])
           /\ DOMAIN GetOne(g, i).big = DOMAIN g.big \cup {i}
  BY NumberGot, QuietTwice DEF Ready, Quiet

LEMMA ReadyNumbers ==
    ASSUME NEW g, Ready(g)
    PROVE  \A i \in DOMAIN g.big : Number(g.big[i])
  BY DEF Ready, Quiet, IsHost, IsBig

LEMMA ReadyTwo ==
    ASSUME NEW g, Ready(g), NEW i \in Handles, NEW j \in Handles
    PROVE  LET h == GetTwo(g, i, j)
           IN Ready(h) /\ i \in DOMAIN h.big /\ j \in DOMAIN h.big
  BY ReadyGot DEF GetTwo

LEMMA ReadyThree ==
    ASSUME NEW g, Ready(g), NEW i \in Handles, NEW j \in Handles, NEW k \in Handles
    PROVE  LET h == GetThree(g, i, j, k)
           IN Ready(h) /\ i \in DOMAIN h.big /\ j \in DOMAIN h.big /\ k \in DOMAIN h.big
  BY ReadyGot, ReadyTwo DEF GetThree

LEMMA ReadyExtra ==
    ASSUME NEW g, Ready(g), NEW n \in Nat, NEW handles,
           DOMAIN handles = 1 .. n, \A i \in 1 .. n : handles[i] \in DOMAIN g.big
    PROVE  /\ Ready(useExtraGasForOperations(g, handles))
           /\ useExtraGasForOperations(g, handles).big = g.big
           /\ LET h == useExtraGasForOperations(g, handles)
                  gas == [i \in 1 .. n |-> ExtraGas(g.big[handles[i]])]
              IN  \A i, j \in 1 .. n : /\ gas[i] \in Nat /\ gas[i] <= h.used
                                       /\ i # j => gas[i] + gas[j] <= h.used
<1> DEFINE w == [i \in 1 .. n |-> ExtraGas(g.big[handles[i]])]
<1>1. \A i \in 1 .. n : w[i] \in Nat
  BY ReadyNumbers, ExtraGasNat
<1>2. IsFiniteSet(1 .. n)
  BY FS_Interval
<1>3. SumFunction(w) \in Nat
  <2>1. DOMAIN w = 1 .. n
    OBVIOUS
  <2> HIDE DEF w
  <2>2. SumFunctionOnSet(w, 1 .. n) \in Nat
    BY <1>1, <1>2, SumOfPart
  <2> QED
    BY <2>1, <2>2 DEF SumFunction
<1>4. useExtraGasForOperations(g, handles) = UseGas(g, SumFunction(w))
  BY DEF useExtraGasForOperations
<1>5. SumFunction(w) = SumFunctionOnSet(w, 1 .. n)
  <2>1. DOMAIN w = 1 .. n
    OBVIOUS
  <2> HIDE DEF w
  <2> QED
    BY <2>1 DEF SumFunction
<1> HIDE DEF w
<1>6. g.used \in Nat
  BY ReadyMetered
<1>7. ASSUME NEW i \in 1 .. n, NEW j \in 1 .. n
      PROVE  /\ w[i] \in Nat /\ w[i] <= SumFunction(w)
             /\ i # j => w[i] + w[j] <= SumFunction(w)
  <2> DEFINE R == (1 .. n) \ {i}
  <2>1. \A k \in 1 .. n : w[k] \in Int
    BY <1>1
  <2>2. SumFunction(w) = w[i] + SumFunctionOnSet(w, R)
    BY <1>2, <1>5, <2>1, SumRemove
  <2>3. IsFiniteSet(R) /\ R \in SUBSET (1 .. n) /\ \A k \in R : w[k] \in Int /\ w[k] \in Nat
    BY <1>1, <1>2, FS_Subset
  <2>4. SumFunctionOnSet(w, R) \in Nat
    BY <1>1, <1>2, <2>3, SumOfPart
  <2>5. i # j => w[j] <= SumFunctionOnSet(w, R)
    <3> SUFFICES ASSUME i # j PROVE w[j] <= SumFunctionOnSet(w, R)
      OBVIOUS
    <3>1. j \in R
      OBVIOUS
    <3> HIDE DEF R
    <3>2. SumFunctionOnSet(w, R) = w[j] + SumFunctionOnSet(w, R \ {j})
      BY <2>3, <3>1, SumRemove
    <3>3. SumFunctionOnSet(w, R \ {j}) \in Nat
      BY <2>3, SumOfPart
    <3> QED
      BY <1>1, <3>2, <3>3
  <2> HIDE DEF R
  <2> QED
    BY <1>1, <2>2, <2>4, <2>5
<1>8. /\ Ready(UseGas(g, SumFunction(w))) /\ UseGas(g, SumFunction(w)).big = g.big
      /\ UseGas(g, SumFunction(w)).used = g.used + SumFunction(w)
  BY <1>3, ReadyGas
<1>9. \A i, j \in 1 .. n : /\ w[i] \in Nat /\ w[i] <= g.used + SumFunction(w)
                           /\ i # j => w[i] + w[j] <= g.used + SumFunction(w)
  BY <1>3, <1>6, <1>7
<1> QED
  BY <1>4, <1>8, <1>9 DEF w

LEMMA ReadyEnds ==
    ASSUME NEW g, Ready(g)
    PROVE  /\ PlainStep(host, g) /\ PlainStep(host, WithFault(g))
           /\ \A f, about, res : f \notin Marked => PlainStep(host, Answered(g, f, about, res))
           /\ \A s \in States : PlainStep(host, [g EXCEPT !.state = s])
           /\ \A data : PlainStep(host, Finish(g, data)) /\ Ready(Finish(g, data))
<1>0. IsHost(g) /\ Quiet(host, g) /\ NoAnswer.f \notin Marked
  BY DEF Ready, Quiet, NoAnswer, Marked, StoreNames, UnsignedStores, SignedStores, LockSetters
<1>1. PlainStep(host, g)
  BY <1>0 DEF Ready, PlainStep, Unmarked
<1>2. PlainStep(host, WithFault(g))
  BY <1>0, FaultQuiet, QuietTwice DEF Ready, PlainStep, Unmarked
<1>3. ASSUME NEW f, NEW about, NEW res, f \notin Marked
      PROVE  PlainStep(host, Answered(g, f, about, res))
  <2>0. /\ Quiet(g, Answered(g, f, about, res))
        /\ Answered(g, f, about, res).call = [f |-> f, about |-> about, res |-> res]
    BY <1>0, AnsweredQuiet
  <2>1. Answered(g, f, about, res).call.f = f
    BY <2>0
  <2> QED
    BY <1>0, <1>3, <2>0, <2>1, QuietTwice DEF PlainStep, Unmarked
<1>4. ASSUME NEW s \in States PROVE PlainStep(host, [g EXCEPT !.state = s])
  BY <1>0 DEF Ready, PlainStep, Unmarked, Quiet, IsHost, HostFields, SameAround, Caches
<1>5. ASSUME NEW data PROVE Ready(Finish(g, data)) /\ PlainStep(host, Finish(g, data))
  <2>1. Ready(Finish(g, data))
    <3> DEFINE results == Append(g.returnData, data)
    <3>1. Finish(g, data) = [g EXCEPT !.returnData = results]
      BY DEF Finish
    <3> HIDE DEF results
    <3> QED
      BY <1>0, <3>1 DEF Ready, Quiet, IsHost, HostFields, SameAround, Caches
  <2>2. Quiet(host, Finish(g, data)) /\ Finish(g, data).call.f \notin Marked
    BY <1>0, <2>1 DEF Ready
  <2> QED
    BY <2>1, <2>2 DEF PlainStep, Unmarked
<1> QED
  BY <1>1, <1>2, <1>3, <1>4, <1>5

LEMMA MarkedAre ==
    Marked = {"smallIntStorageStoreUnsigned", "int64storageStore",
              "smallIntStorageStoreSigned", "setStorageLock", "clearStorageLock",
              "bigIntStorageStoreUnsigned", "storageStore", "isStorageLocked",
              "storageLoadFromAddress"}
  BY DEF Marked, StoreNames, UnsignedStores, SignedStores, LockSetters

-----------------------------------------------------------------------------
(* Arithmetic.                                                              *)

LEMMA TwosPowers == \A n \in Nat : Power(2, n) \in Nat \ {0}
<1> DEFINE K == {n \in Nat : Power(2, n) \in Nat \ {0}}
<1>1. 0 \in K
  BY PowerIs
<1>2. ASSUME NEW n \in K PROVE n + 1 \in K
  <2>1. Power(2, n + 1) = 2 * Power(2, n)
    BY PowerIs
  <2> QED
    BY <2>1
<1>3. K = Nat
  BY <1>1, <1>2, AllNaturals
<1> QED
  BY <1>3

LEMMA SumIsInt ==
    ASSUME NEW S, IsFiniteSet(S), NEW w, \A i \in S : w[i] \in Int
    PROVE  SumFunctionOnSet(w, S) \in Int
<1>1. CASE S = {}
  BY <1>1, SumEmpty
<1>2. CASE S # {}
  <2>1. PICK x : x \in S
    BY <1>2
  <2> QED
    BY <2>1, SumRemove
<1> QED
  BY <1>1, <1>2

LEMMA BitsAre ==
    ASSUME NEW x \in Int, NEW b \in BitPositions
    PROVE  Bit(x, b) \in {0, 1} /\ Power(2, b) \in Nat
<1>1. b \in Nat
  BY Sizes DEF BitPositions
<1>2. Power(2, b) \in Nat \ {0}
  BY <1>1, TwosPowers
<1>3. x \div Power(2, b) \in Int
  BY <1>2
<1> QED
  BY <1>2, <1>3 DEF Bit

LEMMA BitsFinite == IsFiniteSet(BitPositions)
<1>1. 2 * MaxBytes \in Int
  BY Sizes
<1> QED
  BY <1>1, FS_Interval DEF BitPositions

LEMMA BitSums ==
    ASSUME NEW w, DOMAIN w = BitPositions, \A b \in BitPositions : w[b] \in Int
    PROVE  SumFunction(w) \in Int
  BY BitsFinite, SumIsInt DEF SumFunction

LEMMA Operations ==
    ASSUME NEW x \in Int, NEW y \in Int
    PROVE  /\ Add(x, y) \in Int /\ Sub(x, y) \in Int /\ Mul(x, y) \in Int
           /\ y # 0 => /\ Quo(x, y) \in Int /\ Rem(x, y) \in Int
                       /\ Div(x, y) \in Int /\ Mod(x, y) \in Int
           /\ And(x, y) \in Int /\ Or(x, y) \in Int /\ Xor(x, y) \in Int
<1>1. Add(x, y) \in Int /\ Sub(x, y) \in Int /\ Mul(x, y) \in Int
  BY DEF Add, Sub, Mul
<1>2. ASSUME y # 0
      PROVE  Quo(x, y) \in Int /\ Rem(x, y) \in Int /\ Div(x, y) \in Int /\ Mod(x, y) \in Int
  <2>1. Magnitude(y) \in Nat \ {0}
    BY <1>2 DEF Magnitude
  <2>2. ASSUME NEW z \in Int PROVE Quo(z, y) \in Int
    <3>1. SignOf(z) \in Int /\ SignOf(y) \in Int /\ Magnitude(z) \in Int
      BY DEF SignOf, Magnitude
    <3>2. Magnitude(z) \div Magnitude(y) \in Int
      BY <2>1, <3>1
    <3> QED
      BY <3>1, <3>2 DEF Quo
  <2>3. Mod(x, y) \in Int
    BY <2>1 DEF Mod
  <2>4. x - Mod(x, y) \in Int
    BY <2>3
  <2> QED
    BY <2>2, <2>3, <2>4 DEF Rem, Div
<1>3. \A b \in BitPositions : /\ Bit(x, b) \in {0, 1} /\ Bit(y, b) \in {0, 1}
                              /\ Power(2, b) \in Nat
  BY BitsAre
<1>4. And(x, y) \in Int
  <2> DEFINE w == [b \in BitPositions |-> (Bit(x, b) * Bit(y, b)) * Power(2, b)]
  <2>1. \A b \in BitPositions : w[b] \in Int
    BY <1>3
  <2>2. And(x, y) = SumFunction(w) /\ DOMAIN w = BitPositions
    BY DEF And, BitByBit
  <2> HIDE DEF w
  <2> QED
    BY <2>1, <2>2, BitSums
<1>5. Or(x, y) \in Int
  <2> DEFINE w == [b \in BitPositions |->
                     (IF Bit(x, b) + Bit(y, b) > 0 THEN 1 ELSE 0) * Power(2, b)]
  <2>1. \A b \in BitPositions : w[b] \in Int
    BY <1>3
  <2>2. Or(x, y) = SumFunction(w) /\ DOMAIN w = BitPositions
    BY DEF Or, BitByBit
  <2> HIDE DEF w
  <2> QED
    BY <2>1, <2>2, BitSums
<1>6. Xor(x, y) \in Int
  <2> DEFINE w == [b \in BitPositions |-> ((Bit(x, b) + Bit(y, b)) % 2) * Power(2, b)]
  <2>1. \A b \in BitPositions : w[b] \in Int
    BY <1>3
  <2>2. Xor(x, y) = SumFunction(w) /\ DOMAIN w = BitPositions
    BY DEF Xor, BitByBit
  <2> HIDE DEF w
  <2> QED
    BY <2>1, <2>2, BitSums
<1> QED
  BY <1>1, <1>2, <1>4, <1>5, <1>6

LEMMA DivisionIs ==
    ASSUME NEW a \in Nat, NEW m \in Nat \ {0}
    PROVE  /\ a \div m \in Nat /\ (a \div m) * m <= a /\ a < (a \div m) * m + m
           /\ a \div m <= a
<1> DEFINE q == a \div m
<1>1. q \in Int /\ q * m <= a /\ a < q * m + m
  OBVIOUS
<1> HIDE DEF q
<1>2. q \in Nat
  <2>1. ASSUME q < 0 PROVE FALSE
    <3>1. q + 1 <= 0
      BY <1>1, <2>1
    <3>2. (q + 1) * m <= 0
      BY <1>1, <3>1
    <3>3. (q + 1) * m = q * m + m
      BY <1>1
    <3> QED
      BY <1>1, <3>2, <3>3
  <2> QED
    BY <1>1, <2>1
<1>3. q <= q * m /\ q * m \in Nat
  BY <1>1, <1>2
<1>4. q <= a
  BY <1>1, <1>2, <1>3
<1> QED
  BY <1>1, <1>2, <1>4 DEF q

LEMMA MostTimes ==
    ASSUME NEW a \in Nat, NEW m \in Nat \ {0}, NEW k \in Nat, k * m <= a
    PROVE  k <= a \div m
<1> DEFINE q == a \div m
<1>1. q \in Nat /\ a < q * m + m
  BY DivisionIs
<1> HIDE DEF q
<1>2. ASSUME q + 1 <= k PROVE FALSE
  <2>1. (q + 1) * m <= k * m
    BY <1>1, <1>2
  <2>2. (q + 1) * m = q * m + m
    BY <1>1
  <2>3. q * m \in Nat /\ k * m \in Nat
    BY <1>1
  <2> QED
    BY <1>1, <2>1, <2>2, <2>3
<1>3. k <= q
  BY <1>1, <1>2
<1> QED
  BY <1>3 DEF q

\* The bits of a number, up to any of them, add up to no more than the number.
LEMMA BitsOf ==
    ASSUME NEW x \in Nat
    PROVE  LET bits == [b \in BitPositions |-> Bit(x, b) * Power(2, b)]
           IN  /\ \A b \in BitPositions : bits[b] \in Nat
               /\ SumFunction(bits) \in Nat /\ SumFunction(bits) <= x
<1> DEFINE p(n) == Power(2, n)
           q(n) == x \div p(n)
           w == [b \in Nat |-> Bit(x, b) * p(b)]
           sum(n) == SumFunctionOnSet(w, 0 .. n)
           K == {n \in Nat : sum(n) \in Nat /\ sum(n) + q(n + 1) * p(n + 1) <= x}
<1>1. ASSUME NEW n \in Nat
      PROVE  /\ p(n) \in Nat \ {0} /\ p(n + 1) = 2 * p(n) /\ q(n) \in Nat
             /\ Bit(x, n) = q(n) % 2 /\ Bit(x, n) \in {0, 1} /\ q(n) * p(n) <= x
  <2>1. p(n) \in Nat \ {0} /\ p(n + 1) = 2 * p(n)
    BY TwosPowers, PowerIs
  <2>2. q(n) \in Nat /\ q(n) * p(n) <= x
    BY <2>1, DivisionIs
  <2> HIDE DEF p
  <2>3. Bit(x, n) = q(n) % 2
    BY DEF Bit, p
  <2>4. q(n) % 2 \in {0, 1}
    BY <2>2
  <2> QED
    BY <2>1, <2>2, <2>3, <2>4
<1>2. ASSUME NEW n \in Nat
      PROVE  Bit(x, n) * p(n) + q(n + 1) * p(n + 1) <= q(n) * p(n)
  <2> DEFINE m == p(n)
             k == q(n)
             j == q(n + 1)
             b == Bit(x, n)
  <2>1. m \in Nat \ {0} /\ k \in Nat /\ b \in {0, 1} /\ b = k % 2
    BY <1>1
  <2>2. n + 1 \in Nat
    OBVIOUS
  <2>3. j \in Nat /\ j * p(n + 1) <= x /\ p(n + 1) = 2 * m
    BY <1>1, <2>2
  <2>4. (2 * j) * m <= x
    <3> HIDE DEF m, j
    <3>1. j * (2 * m) = (2 * j) * m
      BY <2>1, <2>3
    <3> QED
      BY <2>3, <3>1
  <2>5. 2 * j <= k
    <3>1. 2 * j \in Nat
      BY <2>3
    <3> QED
      BY <2>1, <2>4, <3>1, MostTimes
  <2> HIDE DEF m, k, j, b
  <2>6. b + 2 * j <= k
    BY <2>1, <2>3, <2>5
  <2>7. (b + 2 * j) * m <= k * m
    BY <2>1, <2>3, <2>6
  <2>8. (b + 2 * j) * m = b * m + j * (2 * m)
    BY <2>1, <2>3
  <2> QED
    BY <2>3, <2>7, <2>8 DEF m, k, j, b
<1>a. ASSUME NEW n \in Nat PROVE q(n) * p(n) \in Nat
  <2>1. q(n) \in Nat /\ p(n) \in Nat
    BY <1>1
  <2> HIDE DEF q, p
  <2> QED
    BY <2>1
<1>3. \A b \in Nat : w[b] = Bit(x, b) * p(b) /\ w[b] \in Nat
  BY <1>1
<1> HIDE DEF w
<1>4. ASSUME NEW n \in Nat
      PROVE  /\ IsFiniteSet(0 .. n) /\ sum(n) \in Nat
             /\ n # 0 => sum(n) = w[n] + sum(n - 1)
  <2>1. IsFiniteSet(0 .. n) /\ \A b \in 0 .. n : w[b] \in Nat /\ w[b] \in Int
    BY <1>3, FS_Interval
  <2>2. sum(n) \in Nat
    BY <2>1, SumOfPart
  <2>3. n # 0 => (0 .. n) \ {n} = 0 .. n - 1
    OBVIOUS
  <2>4. n \in 0 .. n
    OBVIOUS
  <2>5. sum(n) = w[n] + SumFunctionOnSet(w, (0 .. n) \ {n})
    BY <2>1, <2>4, SumRemove
  <2> QED
    BY <2>1, <2>2, <2>3, <2>5
<1>5. 0 \in K
  <2>1. (0 .. 0) \ {0} = {} /\ 0 \in 0 .. 0
    OBVIOUS
  <2>2. IsFiniteSet(0 .. 0) /\ \A b \in 0 .. 0 : w[b] \in Int
    <3>1. 0 .. 0 = {0} /\ IsFiniteSet({0})
      BY FS_Singleton
    <3>2. \A b \in 0 .. 0 : b \in Nat
      OBVIOUS
    <3> QED
      BY <1>3, <3>1, <3>2
  <2>3. sum(0) = w[0]
    <3>1. sum(0) = w[0] + SumFunctionOnSet(w, {})
      BY <2>1, <2>2, SumRemove
    <3>2. SumFunctionOnSet(w, {}) = 0 /\ w[0] \in Nat
      BY <1>3, SumEmpty
    <3> QED
      BY <3>1, <3>2
  <2>4. Bit(x, 0) * p(0) + q(0 + 1) * p(0 + 1) <= q(0) * p(0) /\ q(0) * p(0) <= x
    BY <1>1, <1>2
  <2>5. q(0 + 1) * p(0 + 1) \in Nat /\ q(0) * p(0) \in Nat
    BY <1>a
  <2>6. w[0] = Bit(x, 0) * p(0) /\ w[0] \in Nat
    BY <1>3
  <2> HIDE DEF q, p, sum
  <2> QED
    BY <2>3, <2>4, <2>5, <2>6
<1>6. ASSUME NEW n \in K PROVE n + 1 \in K
  <2>1. n \in Nat /\ n + 1 \in Nat /\ n + 1 # 0 /\ (n + 1) - 1 = n
    OBVIOUS
  <2>2. sum(n + 1) = w[n + 1] + sum(n) /\ sum(n + 1) \in Nat /\ sum(n) \in Nat
    BY <1>4, <2>1
  <2>3. Bit(x, n + 1) * p(n + 1) + q((n + 1) + 1) * p((n + 1) + 1) <= q(n + 1) * p(n + 1)
    BY <1>2, <2>1
  <2>4. q((n + 1) + 1) * p((n + 1) + 1) \in Nat /\ q(n + 1) * p(n + 1) \in Nat
    <3>1. (n + 1) + 1 \in Nat
      BY <2>1
    <3> HIDE DEF q, p
    <3> QED
      BY <1>a, <2>1, <3>1
  <2>5. w[n + 1] = Bit(x, n + 1) * p(n + 1) /\ w[n + 1] \in Nat
    BY <1>3, <2>1
  <2>6. sum(n) + q(n + 1) * p(n + 1) <= x
    OBVIOUS
  <2> HIDE DEF q, p, sum
  <2> QED
    BY <2>1, <2>2, <2>3, <2>4, <2>5, <2>6
<1>7. K = Nat
  <2> HIDE DEF p, q, sum
  <2> QED
    BY <1>5, <1>6, AllNaturals
<1> DEFINE N == 2 * MaxBytes
           bits == [b \in BitPositions |-> Bit(x, b) * Power(2, b)]
<1>8. N \in Nat /\ BitPositions = 0 .. N
  BY Sizes DEF BitPositions
<1>9. \A b \in BitPositions : bits[b] = w[b] /\ w[b] \in Int /\ w[b] \in Nat
  BY <1>3, <1>8
<1>10. SumFunction(bits) = sum(N)
  <2>1. DOMAIN bits = BitPositions
    OBVIOUS
  <2> HIDE DEF bits, N
  <2>2. SumFunctionOnSet(bits, BitPositions) = SumFunctionOnSet(w, BitPositions)
    BY <1>9, BitsFinite, SumSame
  <2> QED
    BY <1>8, <2>1, <2>2 DEF SumFunction
<1>11. sum(N) \in Nat /\ sum(N) + q(N + 1) * p(N + 1) <= x
  BY <1>7, <1>8
<1>12. q(N + 1) * p(N + 1) \in Nat
  <2>1. N + 1 \in Nat
    BY <1>8
  <2> HIDE DEF q, p, N
  <2> QED
    BY <1>a, <2>1
<1> HIDE DEF q, p, sum, N, bits
<1>13. sum(N) <= x
  BY <1>11, <1>12
<1> QED
  BY <1>9, <1>10, <1>11, <1>13 DEF bits

\* Bits that are no more than those of x and y together.
LEMMA BitsTogether ==
    ASSUME NEW x \in Nat, NEW y \in Nat, NEW w, DOMAIN w = BitPositions,
           \A b \in BitPositions :
               w[b] \in Nat /\ w[b] <= Bit(x, b) * Power(2, b) + Bit(y, b) * Power(2, b)
    PROVE  SumFunction(w) \in Nat /\ SumFunction(w) <= x + y
<1> DEFINE u == [b \in BitPositions |-> Bit(x, b) * Power(2, b)]
           v == [b \in BitPositions |-> Bit(y, b) * Power(2, b)]
           both == [b \in BitPositions |-> u[b] + v[b]]
           rest == [b \in BitPositions |-> both[b] - w[b]]
<1>1. /\ \A b \in BitPositions : u[b] \in Nat
      /\ SumFunction(u) \in Nat /\ SumFunction(u) <= x /\ DOMAIN u = BitPositions
  BY BitsOf
<1>2. /\ \A b \in BitPositions : v[b] \in Nat
      /\ SumFunction(v) \in Nat /\ SumFunction(v) <= y /\ DOMAIN v = BitPositions
  BY BitsOf
<1>3. \A b \in BitPositions : w[b] <= u[b] + v[b]
  OBVIOUS
<1> HIDE DEF u, v
<1>4. \A b \in BitPositions : both[b] = u[b] + v[b] /\ u[b] \in Int /\ v[b] \in Int
  BY <1>1, <1>2
<1>5. \A b \in BitPositions : both[b] = w[b] + rest[b] /\ rest[b] \in Nat /\ rest[b] \in Int
                              /\ w[b] \in Int /\ w[b] \in Nat
  BY <1>1, <1>2, <1>3
<1> HIDE DEF both, rest
<1>6. SumFunctionOnSet(both, BitPositions) = SumFunction(u) + SumFunction(v)
  BY <1>1, <1>2, <1>4, BitsFinite, SumAdded DEF SumFunction
<1>7. SumFunctionOnSet(both, BitPositions)
          = SumFunctionOnSet(w, BitPositions) + SumFunctionOnSet(rest, BitPositions)
  BY <1>5, BitsFinite, SumAdded
<1>8. SumFunctionOnSet(w, BitPositions) \in Nat /\ SumFunctionOnSet(rest, BitPositions) \in Nat
  BY <1>5, BitsFinite, SumOfPart
<1>9. SumFunction(w) = SumFunctionOnSet(w, BitPositions)
  BY DEF SumFunction
<1> QED
  BY <1>1, <1>2, <1>6, <1>7, <1>8, <1>9

LEMMA BitwiseSized ==
    ASSUME NEW x \in Nat, NEW y \in Nat
    PROVE  /\ And(x, y) \in Nat /\ And(x, y) <= x + y
           /\ Or(x, y) \in Nat /\ Or(x, y) <= x + y
           /\ Xor(x, y) \in Nat /\ Xor(x, y) <= x + y
<1>0. \A b \in BitPositions : /\ Bit(x, b) \in {0, 1} /\ Bit(y, b) \in {0, 1}
                              /\ Power(2, b) \in Nat
  BY BitsAre
<1>1. And(x, y) \in Nat /\ And(x, y) <= x + y
  <2> DEFINE w == [b \in BitPositions |-> (Bit(x, b) * Bit(y, b)) * Power(2, b)]
  <2>1. \A b \in BitPositions :
            w[b] \in Nat /\ w[b] <= Bit(x, b) * Power(2, b) + Bit(y, b) * Power(2, b)
    BY <1>0
  <2>2. And(x, y) = SumFunction(w) /\ DOMAIN w = BitPositions
    BY DEF And, BitByBit
  <2> HIDE DEF w
  <2> QED
    BY <2>1, <2>2, BitsTogether
<1>2. Or(x, y) \in Nat /\ Or(x, y) <= x + y
  <2> DEFINE w == [b \in BitPositions |->
                     (IF Bit(x, b) + Bit(y, b) > 0 THEN 1 ELSE 0) * Power(2, b)]
  <2>1. \A b \in BitPositions :
            w[b] \in Nat /\ w[b] <= Bit(x, b) * Power(2, b) + Bit(y, b) * Power(2, b)
    BY <1>0
  <2>2. Or(x, y) = SumFunction(w) /\ DOMAIN w = BitPositions
    BY DEF Or, BitByBit
  <2> HIDE DEF w
  <2> QED
    BY <2>1, <2>2, BitsTogether
<1>3. Xor(x, y) \in Nat /\ Xor(x, y) <= x + y
  <2> DEFINE w == [b \in BitPositions |-> ((Bit(x, b) + Bit(y, b)) % 2) * Power(2, b)]
  <2>1. \A b \in BitPositions :
            w[b] \in Nat /\ w[b] <= Bit(x, b) * Power(2, b) + Bit(y, b) * Power(2, b)
    BY <1>0
  <2>2. Xor(x, y) = SumFunction(w) /\ DOMAIN w = BitPositions
    BY DEF Xor, BitByBit
  <2> HIDE DEF w
  <2> QED
    BY <2>1, <2>2, BitsTogether
<1> QED
  BY <1>1, <1>2, <1>3

LEMMA QuotientSized ==
    ASSUME NEW x \in Int, NEW y \in Int, y # 0
    PROVE  /\ Quo(x, y) \in Int /\ Magnitude(Quo(x, y)) <= Magnitude(x)
           /\ Rem(x, y) \in Int /\ Magnitude(Rem(x, y)) <= Magnitude(x)
<1> DEFINE a == Magnitude(x)
           m == Magnitude(y)
           q == a \div m
<1>1. a \in Nat /\ m \in Nat \ {0}
  BY DEF Magnitude
<1>2. q \in Nat /\ q * m <= a /\ q <= a
  BY <1>1, DivisionIs
<1>3. Quo(x, y) = SignOf(x) * SignOf(y) * q /\ Rem(x, y) = x - y * Quo(x, y)
  BY DEF Quo, Rem
<1> HIDE DEF q
<1>4. CASE x < 0 /\ y < 0
  <2>1. a = -x /\ m = -y /\ SignOf(x) * SignOf(y) = 1
    BY <1>4 DEF Magnitude, SignOf
  <2>2. Quo(x, y) = q
    BY <1>2, <1>3, <2>1
  <2>3. y * q = -(q * m) /\ q * m \in Nat
    BY <1>1, <1>2, <2>1
  <2>4. Rem(x, y) = q * m - a
    BY <1>3, <2>1, <2>2, <2>3
  <2> QED
    BY <1>1, <1>2, <2>2, <2>3, <2>4 DEF Magnitude
<1>5. CASE x < 0 /\ ~(y < 0)
  <2>1. a = -x /\ m = y /\ SignOf(x) * SignOf(y) = -1
    BY <1>5 DEF Magnitude, SignOf
  <2>2. Quo(x, y) = -q
    BY <1>2, <1>3, <2>1
  <2>3. y * (-q) = -(q * m) /\ q * m \in Nat
    BY <1>1, <1>2, <2>1
  <2>4. Rem(x, y) = q * m - a
    BY <1>3, <2>1, <2>2, <2>3
  <2> QED
    BY <1>1, <1>2, <2>2, <2>3, <2>4 DEF Magnitude
<1>6. CASE x > 0 /\ y < 0
  <2>1. a = x /\ m = -y /\ SignOf(x) * SignOf(y) = -1
    BY <1>6 DEF Magnitude, SignOf
  <2>2. Quo(x, y) = -q
    BY <1>2, <1>3, <2>1
  <2>3. y * (-q) = q * m /\ q * m \in Nat
    BY <1>1, <1>2, <2>1
  <2>4. Rem(x, y) = a - q * m
    BY <1>3, <2>1, <2>2, <2>3
  <2> QED
    BY <1>1, <1>2, <2>2, <2>3, <2>4 DEF Magnitude
<1>7. CASE x > 0 /\ ~(y < 0)
  <2>1. a = x /\ m = y /\ SignOf(x) * SignOf(y) = 1
    BY <1>7 DEF Magnitude, SignOf
  <2>2. Quo(x, y) = q
    BY <1>2, <1>3, <2>1
  <2>3. y * q = q * m /\ q * m \in Nat
    BY <1>1, <1>2, <2>1
  <2>4. Rem(x, y) = a - q * m
    BY <1>3, <2>1, <2>2, <2>3
  <2> QED
    BY <1>1, <1>2, <2>2, <2>3, <2>4 DEF Magnitude
<1>8. CASE x = 0
  <2>1. SignOf(x) = 0 /\ SignOf(y) \in Int
    BY <1>8 DEF SignOf
  <2>2. Quo(x, y) = 0
    BY <1>2, <1>3, <2>1
  <2>3. Rem(x, y) = 0
    BY <1>3, <1>8, <2>2
  <2> QED
    BY <1>1, <2>2, <2>3 DEF Magnitude
<1> QED
  BY <1>4, <1>5, <1>6, <1>7, <1>8

\* A result is at most one byte longer than its operands together.
Fits(z, x, y) == WholeBytes(z) <= WholeBytes(x) + WholeBytes(y) + 1

LEMMA OperationsFit ==
    ASSUME NEW x \in Int, NEW y \in Int
    PROVE  /\ Fits(Add(x, y), x, y) /\ Fits(Sub(x, y), x, y) /\ Fits(Mul(x, y), x, y)
           /\ y # 0 => /\ Fits(Quo(x, y), x, y) /\ Fits(Rem(x, y), x, y)
                       /\ Fits(Div(x, y), x, y) /\ Fits(Mod(x, y), x, y)
           /\ ~(x < 0 \/ y < 0) => /\ Fits(And(x, y), x, y) /\ Fits(Or(x, y), x, y)
                                   /\ Fits(Xor(x, y), x, y)
<1>1. ASSUME NEW z \in Int, Magnitude(z) <= Magnitude(x) + Magnitude(y)
      PROVE  Fits(z, x, y)
  BY <1>1, WholeOfSum DEF Fits
<1>2. Fits(Add(x, y), x, y) /\ Fits(Sub(x, y), x, y)
  BY <1>1 DEF Add, Sub, Magnitude
<1>3. Fits(Mul(x, y), x, y)
  BY WholeOfProduct DEF Fits, Mul
<1>4. ASSUME y # 0
      PROVE  /\ Fits(Quo(x, y), x, y) /\ Fits(Rem(x, y), x, y)
             /\ Fits(Div(x, y), x, y) /\ Fits(Mod(x, y), x, y)
  <2> DEFINE m == Magnitude(y)
             r == x % m
  <2>1. m \in Nat \ {0} /\ Magnitude(x) \in Nat
    BY <1>4 DEF Magnitude
  <2>2. r \in Nat /\ r < m
    BY <2>1
  <2>3. Mod(x, y) = r /\ Div(x, y) = Quo(x - r, y)
    BY DEF Mod, Div
  <2> HIDE DEF r
  <2>4. Fits(Mod(x, y), x, y)
    <3>1. Magnitude(r) = r
      BY <2>2 DEF Magnitude
    <3> QED
      BY <1>1, <2>1, <2>2, <2>3, <3>1
  <2>5. Fits(Div(x, y), x, y)
    <3>1. x - r \in Int /\ Magnitude(x - r) <= Magnitude(x) + r
      BY <2>2 DEF Magnitude
    <3>2. Quo(x - r, y) \in Int /\ Magnitude(Quo(x - r, y)) <= Magnitude(x - r)
      BY <1>4, <3>1, QuotientSized
    <3>3. Magnitude(Quo(x - r, y)) \in Nat /\ Magnitude(x - r) \in Nat
      BY <3>1, <3>2 DEF Magnitude
    <3>4. Magnitude(Quo(x - r, y)) <= Magnitude(x) + m
      BY <2>1, <2>2, <3>1, <3>2, <3>3
    <3> QED
      BY <1>1, <2>3, <3>2, <3>4
  <2>6. Fits(Quo(x, y), x, y) /\ Fits(Rem(x, y), x, y)
    <3>1. /\ Quo(x, y) \in Int /\ Magnitude(Quo(x, y)) <= Magnitude(x)
          /\ Rem(x, y) \in Int /\ Magnitude(Rem(x, y)) <= Magnitude(x)
      BY <1>4, QuotientSized
    <3>2. Magnitude(Quo(x, y)) \in Nat /\ Magnitude(Rem(x, y)) \in Nat
      BY <3>1 DEF Magnitude
    <3> QED
      BY <1>1, <2>1, <3>1, <3>2
  <2> QED
    BY <2>4, <2>5, <2>6
<1>5. ASSUME ~(x < 0 \/ y < 0)
      PROVE  Fits(And(x, y), x, y) /\ Fits(Or(x, y), x, y) /\ Fits(Xor(x, y), x, y)
  <2>1. x \in Nat /\ y \in Nat /\ Magnitude(x) = x /\ Magnitude(y) = y
    BY <1>5 DEF Magnitude
  <2>2. \A z \in Nat : Magnitude(z) = z
    BY DEF Magnitude
  <2>3. \A z \in Nat : z <= x + y => Fits(z, x, y)
    BY <1>1, <2>1, <2>2
  <2> QED
    BY <2>1, <2>3, BitwiseSized
<1> QED
  BY <1>2, <1>3, <1>4, <1>5

LEMMA UnariesFit ==
    ASSUME NEW x \in Int
    PROVE  /\ Fits(Magnitude(x), x, 0) /\ Fits(-x, x, 0)
           /\ ~(x < 0) => Fits(-x - 1, x, 0)
<1>0. WholeBytes(x) \in Nat /\ WholeBytes(0) = 0 /\ WholeBytes(-1) <= 1
  BY WholeIs, ZeroBytes
<1>1. ASSUME NEW z \in Int, Magnitude(z) <= 2 * Magnitude(x)
      PROVE  Fits(z, x, 0)
  <2>1. WholeBytes(z) <= WholeBytes(x) + 1 /\ WholeBytes(z) \in Nat
    BY <1>1, WholeDoubled, WholeIs
  <2> QED
    BY <1>0, <2>1 DEF Fits
<1>2. Fits(Magnitude(x), x, 0) /\ Fits(-x, x, 0)
  BY <1>1 DEF Magnitude
<1>3. CASE x = 0
  <2>1. Fits(-1, 0, 0)
    BY <1>0, WholeIs DEF Fits
  <2> QED
    BY <1>2, <1>3, <2>1
<1>4. CASE x # 0
  BY <1>1, <1>2, <1>4 DEF Magnitude
<1> QED
  BY <1>3, <1>4

LEMMA ReadyOperands ==
    ASSUME NEW g, Ready(g), NEW d \in DOMAIN g.big, NEW a \in DOMAIN g.big,
           NEW b \in DOMAIN g.big, NEW handles,
           handles \in {<<d, a, b>>, <<a, b>>, <<a>>}
    PROVE  /\ Ready(useExtraGasForOperations(g, handles))
           /\ useExtraGasForOperations(g, handles).big = g.big
           /\ ExtraGas(g.big[a]) <= useExtraGasForOperations(g, handles).used
           /\ handles \in {<<d, a, b>>, <<a, b>>} =>
                 /\ ExtraGas(g.big[b]) <= useExtraGasForOperations(g, handles).used
                 /\ ExtraGas(g.big[a]) + ExtraGas(g.big[b])
                      <= useExtraGasForOperations(g, handles).used
<1> DEFINE h == useExtraGasForOperations(g, handles)
<1>1. CASE handles = <<d, a, b>>
  <2> DEFINE gas == [i \in 1 .. 3 |-> ExtraGas(g.big[handles[i]])]
  <2>1. DOMAIN handles = 1 .. 3 /\ \A i \in 1 .. 3 : handles[i] \in DOMAIN g.big
    BY <1>1
  <2>2. /\ Ready(h) /\ h.big = g.big
        /\ \A i, j \in 1 .. 3 : /\ gas[i] \in Nat /\ gas[i] <= h.used
                                /\ i # j => gas[i] + gas[j] <= h.used
    BY <2>1, ReadyExtra
  <2>3. gas[2] = ExtraGas(g.big[a]) /\ gas[3] = ExtraGas(g.big[b])
    BY <1>1
  <2>4. 2 \in 1 .. 3 /\ 3 \in 1 .. 3 /\ 2 # 3
    OBVIOUS
  <2> HIDE DEF h, gas
  <2>5. /\ gas[2] <= h.used /\ gas[3] <= h.used
        /\ gas[2] + gas[3] <= h.used
    BY <2>2, <2>4
  <2> QED
    BY <2>2, <2>3, <2>5 DEF h
<1>2. CASE handles = <<a, b>>
  <2> DEFINE gas == [i \in 1 .. 2 |-> ExtraGas(g.big[handles[i]])]
  <2>1. DOMAIN handles = 1 .. 2 /\ \A i \in 1 .. 2 : handles[i] \in DOMAIN g.big
    BY <1>2
  <2>2. /\ Ready(h) /\ h.big = g.big
        /\ \A i, j \in 1 .. 2 : /\ gas[i] \in Nat /\ gas[i] <= h.used
                                /\ i # j => gas[i] + gas[j] <= h.used
    BY <2>1, ReadyExtra
  <2>3. gas[1] = ExtraGas(g.big[a]) /\ gas[2] = ExtraGas(g.big[b])
    BY <1>2
  <2>4. 1 \in 1 .. 2 /\ 2 \in 1 .. 2 /\ 1 # 2
    OBVIOUS
  <2> HIDE DEF h, gas
  <2>5. /\ gas[1] <= h.used /\ gas[2] <= h.used
        /\ gas[1] + gas[2] <= h.used
    BY <2>2, <2>4
  <2> QED
    BY <2>2, <2>3, <2>5 DEF h
<1>3. CASE handles = <<a>>
  <2> DEFINE gas == [i \in 1 .. 1 |-> ExtraGas(g.big[handles[i]])]
  <2>1. DOMAIN handles = 1 .. 1 /\ \A i \in 1 .. 1 : handles[i] \in DOMAIN g.big
    BY <1>3
  <2>2. /\ Ready(h) /\ h.big = g.big
        /\ \A i, j \in 1 .. 1 : /\ gas[i] \in Nat /\ gas[i] <= h.used
                                /\ i # j => gas[i] + gas[j] <= h.used
    BY <2>1, ReadyExtra
  <2>3. gas[1] = ExtraGas(g.big[a]) /\ handles \notin {<<d, a, b>>, <<a, b>>}
    BY <1>3
  <2>4. 1 \in 1 .. 1
    OBVIOUS
  <2> HIDE DEF h, gas
  <2>5. gas[1] <= h.used
    BY <2>2, <2>4
  <2> QED
    BY <2>2, <2>3, <2>5 DEF h
<1> QED
  BY <1>1, <1>2, <1>3

\* The contexts once the operands are there and paid for.
Operands(d, a, b, handles) == useExtraGasForOperations(GetThree(Paid, d, a, b), handles)
Operand(d, a, handles) == useExtraGasForOperations(GetTwo(Paid, d, a), handles)

LEMMA BinaryPlain ==
    ASSUME IsHost(host), NEW d \in Handles, NEW a \in Handles, NEW b \in Handles,
           NEW handles, handles \in {<<d, a, b>>, <<a, b>>}
    PROVE  LET h == Operands(d, a, b, handles)
           IN  /\ h.big[a] \in Int /\ h.big[b] \in Int
               /\ PlainStep(host, WithFault(h))
               /\ \A z \in Int : Bounded(z) /\ Fits(z, h.big[a], h.big[b])
                                 => PlainStep(host, SetOne(h, d, z))
<1> DEFINE g == GetThree(Paid, d, a, b)
           h == useExtraGasForOperations(g, handles)
<1>1. Ready(g) /\ d \in DOMAIN g.big /\ a \in DOMAIN g.big /\ b \in DOMAIN g.big
  BY ReadyPaid, ReadyThree
<1> HIDE DEF g
<1>2. Ready(h) /\ h.big = g.big /\ ExtraGas(h.big[a]) + ExtraGas(h.big[b]) <= h.used
  BY <1>1, ReadyOperands
<1> HIDE DEF h
<1>3. Number(h.big[a]) /\ Number(h.big[b])
  BY <1>1, <1>2, ReadyNumbers
<1>4. ASSUME NEW z \in Int, Bounded(z), Fits(z, h.big[a], h.big[b])
      PROVE  PlainStep(host, SetOne(h, d, z))
  <2>0. Afforded(h.used, h.contract, z)
    <3>1. h.used \in Nat /\ h.contract \in Contracts
      BY <1>2, ReadyMetered
    <3> QED
      BY <1>2, <1>3, <1>4, <3>1, AffordedResult DEF Number, Fits
  <2>1. Ready(SetOne(h, d, z))
    BY <1>2, <1>4, <2>0, ReadyNumber DEF Number
  <2> QED
    BY <2>1, ReadyEnds
<1>5. /\ h.big[a] \in Int /\ h.big[b] \in Int
      /\ PlainStep(host, WithFault(h))
      /\ \A z \in Int : Bounded(z) /\ Fits(z, h.big[a], h.big[b])
                        => PlainStep(host, SetOne(h, d, z))
  BY <1>2, <1>3, <1>4, ReadyEnds DEF Number
<1> QED
  BY <1>5 DEF h, g, Operands

\* A result that is paid for once it is there.
LEMMA ResultPaid ==
    ASSUME NEW h, Ready(h), NEW d \in Handles, NEW z, Number(z)
    PROVE  Ready(useExtraGasForOperations(SetOne(h, d, z), <<d>>))
<1> DEFINE k == SetOne(h, d, z)
           w == [n \in DOMAIN <<d>> |-> ExtraGas(k.big[<<d>>[n]])]
           gas == ExtraGas(z)
<1>1. DOMAIN h = HostFields /\ h.used \in Nat /\ h.contract \in Contracts
  BY DEF Ready, Quiet, IsHost
<1>2. k.big[d] = z
  BY <1>1 DEF SetOne, HostFields
<1>3. gas \in Nat /\ WholeBytes(z) \in Nat /\ z \in Int
  BY ExtraGasNat DEF Number
<1> HIDE DEF k
<1>4. DOMAIN w = {1} /\ w[1] = gas
  BY <1>2
<1>5. useExtraGasForOperations(k, <<d>>) = UseGas(k, SumFunction(w))
  BY DEF useExtraGasForOperations
<1> HIDE DEF w, gas
<1>6. SumFunction(w) = gas
  <2>1. IsFiniteSet({1}) /\ {1} \ {1} = {} /\ \A i \in {1} : w[i] \in Int
    <3>1. IsFiniteSet({1})
      BY FS_Singleton
    <3>2. {1} \ {1} = {}
      OBVIOUS
    <3>3. w[1] \in Int
      BY <1>3, <1>4
    <3>4. \A i \in {1} : w[i] \in Int
      BY <3>3
    <3> QED
      BY <3>1, <3>2, <3>4, Zenon
  <2>2. SumFunctionOnSet(w, {1}) = w[1] + SumFunctionOnSet(w, {})
    <3>1. 1 \in {1}
      OBVIOUS
    <3>2. SumFunctionOnSet(w, {1}) = w[1] + SumFunctionOnSet(w, {1} \ {1})
      BY <2>1, <3>1, SumRemove, Zenon
    <3> QED
      BY <2>1, <3>2
  <2>3. SumFunctionOnSet(w, {}) = 0
    BY SumEmpty
  <2> QED
    BY <1>3, <1>4, <2>2, <2>3 DEF SumFunction
<1>7. Afforded(h.used + gas, h.contract, z)
  <2>1. WholeBytes(z) <= WholeBytes(z) + WholeBytes(0) + 1
    BY <1>3, ZeroBytes
  <2>2. ExtraGas(z) + ExtraGas(0) <= h.used + gas /\ h.used + gas \in Nat
    BY <1>1, <1>3, ZeroBytes DEF gas
  <2> QED
    BY <1>1, <1>3, <2>1, <2>2, AffordedResult
<1>8. Ready(UseGas(SetOne(h, d, z), gas))
  BY <1>3, <1>7, SetThenPaid
<1> QED
  BY <1>5, <1>6, <1>8 DEF k

LEMMA UnaryPlain ==
    ASSUME IsHost(host), NEW d \in Handles, NEW a \in Handles,
           NEW handles, handles \in {<<d, a>>, <<a>>}
    PROVE  LET h == Operand(d, a, handles)
           IN  /\ h.big[a] \in Int
               /\ PlainStep(host, h) /\ PlainStep(host, WithFault(h))
               /\ \A z \in Int : Bounded(z) =>
                      /\ Fits(z, h.big[a], 0) => PlainStep(host, SetOne(h, d, z))
                      /\ PlainStep(host, useExtraGasForOperations(SetOne(h, d, z), <<d>>))
<1> DEFINE g == GetTwo(Paid, d, a)
           h == useExtraGasForOperations(g, handles)
<1>1. Ready(g) /\ d \in DOMAIN g.big /\ a \in DOMAIN g.big
  BY ReadyPaid, ReadyTwo
<1> HIDE DEF g
<1>2. Ready(h) /\ h.big = g.big /\ ExtraGas(h.big[a]) <= h.used
  BY <1>1, ReadyOperands
<1> HIDE DEF h
<1>3. Number(h.big[a])
  BY <1>1, <1>2, ReadyNumbers
<1>4. ASSUME NEW z \in Int, Bounded(z)
      PROVE  /\ Fits(z, h.big[a], 0) => PlainStep(host, SetOne(h, d, z))
             /\ PlainStep(host, useExtraGasForOperations(SetOne(h, d, z), <<d>>))
  <2>0. h.used \in Nat /\ h.contract \in Contracts
    BY <1>2, ReadyMetered
  <2>1. ASSUME Fits(z, h.big[a], 0) PROVE Ready(SetOne(h, d, z))
    <3>1. ExtraGas(h.big[a]) \in Nat /\ ExtraGas(h.big[a]) + ExtraGas(0) <= h.used
      BY <1>2, <1>3, ZeroBytes, ExtraGasNat
    <3>2. Afforded(h.used, h.contract, z)
      BY <1>3, <2>0, <2>1, <3>1, AffordedResult DEF Number, Fits
    <3> QED
      BY <1>2, <1>4, <3>2, ReadyNumber DEF Number
  <2>2. Ready(useExtraGasForOperations(SetOne(h, d, z), <<d>>))
    BY <1>2, <1>4, ResultPaid DEF Number
  <2> QED
    BY <2>1, <2>2, ReadyEnds
<1>5. /\ h.big[a] \in Int /\ PlainStep(host, h) /\ PlainStep(host, WithFault(h))
      /\ \A z \in Int : Bounded(z) =>
             /\ Fits(z, h.big[a], 0) => PlainStep(host, SetOne(h, d, z))
             /\ PlainStep(host, useExtraGasForOperations(SetOne(h, d, z), <<d>>))
  BY <1>2, <1>3, <1>4, ReadyEnds DEF Number
<1> QED
  BY <1>5 DEF h, g, Operand

LEMMA ArithmeticPlain ==
    ASSUME IsHost(host),
           \/ bigIntAdd \/ bigIntSub \/ bigIntMul \/ bigIntTDiv \/ bigIntTMod
           \/ bigIntEDiv \/ bigIntEMod \/ bigIntAnd \/ bigIntOr \/ bigIntXor
    PROVE  PlainStep(host, host')
<1>1. CASE bigIntAdd
  <2>1. PICK d \in Handles, a \in Handles, b \in Handles :
            LET h == Operands(d, a, b, <<d, a, b>>)
            IN Bounded(Add(h.big[a], h.big[b])) /\ host' = SetOne(h, d, Add(h.big[a], h.big[b]))
    BY <1>1 DEF bigIntAdd, Binary, Never, Operands
  <2> QED
    BY <2>1, BinaryPlain, Operations, OperationsFit
<1>2. CASE bigIntSub
  <2>1. PICK d \in Handles, a \in Handles, b \in Handles :
            LET h == Operands(d, a, b, <<d, a, b>>)
            IN Bounded(Sub(h.big[a], h.big[b])) /\ host' = SetOne(h, d, Sub(h.big[a], h.big[b]))
    BY <1>2 DEF bigIntSub, Binary, Never, Operands
  <2> QED
    BY <2>1, BinaryPlain, Operations, OperationsFit
<1>3. CASE bigIntMul
  <2>1. PICK d \in Handles, a \in Handles, b \in Handles :
            LET h == Operands(d, a, b, <<d, a, b>>)
            IN Bounded(Mul(h.big[a], h.big[b])) /\ host' = SetOne(h, d, Mul(h.big[a], h.big[b]))
    BY <1>3 DEF bigIntMul, Binary, Never, Operands
  <2> QED
    BY <2>1, BinaryPlain, Operations, OperationsFit
<1>4. CASE bigIntTDiv
  <2>1. PICK d \in Handles, a \in Handles, b \in Handles :
            LET h == Operands(d, a, b, IF TRUE THEN <<d, a, b>> ELSE <<a, b>>)
            IN IF DivZero(h.big[a], h.big[b]) THEN host' = WithFault(h)
               ELSE /\ Bounded(Quo(h.big[a], h.big[b]))
                    /\ host' = SetOne(h, d, Quo(h.big[a], h.big[b]))
    BY <1>4 DEF bigIntTDiv, Binary, Operands
  <2> DEFINE h == Operands(d, a, b, IF TRUE THEN <<d, a, b>> ELSE <<a, b>>)
  <2>2. /\ h.big[a] \in Int /\ h.big[b] \in Int /\ PlainStep(host, WithFault(h))
        /\ \A z \in Int : Bounded(z) /\ Fits(z, h.big[a], h.big[b])
                          => PlainStep(host, SetOne(h, d, z))
    BY BinaryPlain
  <2> HIDE DEF h
  <2> QED
    BY <2>1, <2>2, Operations, OperationsFit DEF DivZero, h
<1>5. CASE bigIntTMod
  <2>1. PICK d \in Handles, a \in Handles, b \in Handles :
            LET h == Operands(d, a, b, IF TRUE THEN <<d, a, b>> ELSE <<a, b>>)
            IN IF DivZero(h.big[a], h.big[b]) THEN host' = WithFault(h)
               ELSE /\ Bounded(Rem(h.big[a], h.big[b]))
                    /\ host' = SetOne(h, d, Rem(h.big[a], h.big[b]))
    BY <1>5 DEF bigIntTMod, Binary, Operands
  <2> DEFINE h == Operands(d, a, b, IF TRUE THEN <<d, a, b>> ELSE <<a, b>>)
  <2>2. /\ h.big[a] \in Int /\ h.big[b] \in Int /\ PlainStep(host, WithFault(h))
        /\ \A z \in Int : Bounded(z) /\ Fits(z, h.big[a], h.big[b])
                          => PlainStep(host, SetOne(h, d, z))
    BY BinaryPlain
  <2> HIDE DEF h
  <2> QED
    BY <2>1, <2>2, Operations, OperationsFit DEF DivZero, h
<1>6. CASE bigIntEDiv
  <2>1. PICK d \in Handles, a \in Handles, b \in Handles :
            LET h == Operands(d, a, b, IF TRUE THEN <<d, a, b>> ELSE <<a, b>>)
            IN IF DivZero(h.big[a], h.big[b]) THEN host' = WithFault(h)
               ELSE /\ Bounded(Div(h.big[a], h.big[b]))
                    /\ host' = SetOne(h, d, Div(h.big[a], h.big[b]))
    BY <1>6 DEF bigIntEDiv, Binary, Operands
  <2> DEFINE h == Operands(d, a, b, IF TRUE THEN <<d, a, b>> ELSE <<a, b>>)
  <2>2. /\ h.big[a] \in Int /\ h.big[b] \in Int /\ PlainStep(host, WithFault(h))
        /\ \A z \in Int : Bounded(z) /\ Fits(z, h.big[a], h.big[b])
                          => PlainStep(host, SetOne(h, d, z))
    BY BinaryPlain
  <2> HIDE DEF h
  <2> QED
    BY <2>1, <2>2, Operations, OperationsFit DEF DivZero, h
<1>7. CASE bigIntEMod
  <2>1. PICK d \in Handles, a \in Handles, b \in Handles :
            LET h == Operands(d, a, b, IF TRUE THEN <<d, a, b>> ELSE <<a, b>>)
            IN IF DivZero(h.big[a], h.big[b]) THEN host' = WithFault(h)
               ELSE /\ Bounded(Mod(h.big[a], h.big[b]))
                    /\ host' = SetOne(h, d, Mod(h.big[a], h.big[b]))
    BY <1>7 DEF bigIntEMod, Binary, Operands
  <2> DEFINE h == Operands(d, a, b, IF TRUE THEN <<d, a, b>> ELSE <<a, b>>)
  <2>2. /\ h.big[a] \in Int /\ h.big[b] \in Int /\ PlainStep(host, WithFault(h))
        /\ \A z \in Int : Bounded(z) /\ Fits(z, h.big[a], h.big[b])
                          => PlainStep(host, SetOne(h, d, z))
    BY BinaryPlain
  <2> HIDE DEF h
  <2> QED
    BY <2>1, <2>2, Operations, OperationsFit DEF DivZero, h
<1>8. CASE bigIntAnd
  <2>1. PICK d \in Handles, a \in Handles, b \in Handles :
            LET h == Operands(d, a, b, <<a, b>>)
            IN IF BitwiseNegative(h.big[a], h.big[b]) THEN host' = WithFault(h)
               ELSE /\ Bounded(And(h.big[a], h.big[b]))
                    /\ host' = SetOne(h, d, And(h.big[a], h.big[b]))
    BY <1>8 DEF bigIntAnd, Binary, Operands
  <2> DEFINE h == Operands(d, a, b, <<a, b>>)
  <2>2. /\ h.big[a] \in Int /\ h.big[b] \in Int /\ PlainStep(host, WithFault(h))
        /\ \A z \in Int : Bounded(z) /\ Fits(z, h.big[a], h.big[b])
                          => PlainStep(host, SetOne(h, d, z))
    BY BinaryPlain
  <2> HIDE DEF h
  <2> QED
    BY <2>1, <2>2, Operations, OperationsFit DEF BitwiseNegative, h
<1>9. CASE bigIntOr
  <2>1. PICK d \in Handles, a \in Handles, b \in Handles :
            LET h == Operands(d, a, b, <<a, b>>)
            IN IF BitwiseNegative(h.big[a], h.big[b]) THEN host' = WithFault(h)
               ELSE /\ Bounded(Or(h.big[a], h.big[b]))
                    /\ host' = SetOne(h, d, Or(h.big[a], h.big[b]))
    BY <1>9 DEF bigIntOr, Binary, Operands
  <2> DEFINE h == Operands(d, a, b, <<a, b>>)
  <2>2. /\ h.big[a] \in Int /\ h.big[b] \in Int /\ PlainStep(host, WithFault(h))
        /\ \A z \in Int : Bounded(z) /\ Fits(z, h.big[a], h.big[b])
                          => PlainStep(host, SetOne(h, d, z))
    BY BinaryPlain
  <2> HIDE DEF h
  <2> QED
    BY <2>1, <2>2, Operations, OperationsFit DEF BitwiseNegative, h
<1>10. CASE bigIntXor
  <2>1. PICK d \in Handles, a \in Handles, b \in Handles :
            LET h == Operands(d, a, b, <<a, b>>)
            IN IF BitwiseNegative(h.big[a], h.big[b]) THEN host' = WithFault(h)
               ELSE /\ Bounded(Xor(h.big[a], h.big[b]))
                    /\ host' = SetOne(h, d, Xor(h.big[a], h.big[b]))
    BY <1>10 DEF bigIntXor, Binary, Operands
  <2> DEFINE h == Operands(d, a, b, <<a, b>>)
  <2>2. /\ h.big[a] \in Int /\ h.big[b] \in Int /\ PlainStep(host, WithFault(h))
        /\ \A z \in Int : Bounded(z) /\ Fits(z, h.big[a], h.big[b])
                          => PlainStep(host, SetOne(h, d, z))
    BY BinaryPlain
  <2> HIDE DEF h
  <2> QED
    BY <2>1, <2>2, Operations, OperationsFit DEF BitwiseNegative, h
<1> QED
  BY <1>1, <1>2, <1>3, <1>4, <1>5, <1>6, <1>7, <1>8, <1>9, <1>10

LEMMA UnaryOutcome ==
    ASSUME IsHost(host), NEW d \in Handles, NEW a \in Handles,
           NEW handles, handles \in {<<d, a>>, <<a>>},
           NEW z, Operand(d, a, handles).big[a] \in Int => z \in Int,
           \/ host' = WithFault(Operand(d, a, handles))
           \/ /\ Bounded(z) /\ host' = SetOne(Operand(d, a, handles), d, z)
              /\ Operand(d, a, handles).big[a] \in Int => Fits(z, Operand(d, a, handles).big[a], 0)
           \/ /\ Bounded(z)
              /\ host' = useExtraGasForOperations(SetOne(Operand(d, a, handles), d, z), <<d>>)
    PROVE  PlainStep(host, host')
  BY UnaryPlain

LEMMA UnariesPlain ==
    ASSUME IsHost(host),
           bigIntAbs \/ bigIntNeg \/ bigIntNot \/ bigIntShr \/ bigIntShl
    PROVE  PlainStep(host, host')
<1>1. CASE bigIntAbs
  <2>1. PICK d \in Handles, a \in Handles :
            LET h == Operand(d, a, <<d, a>>)
            IN Bounded(Magnitude(h.big[a])) /\ host' = SetOne(h, d, Magnitude(h.big[a]))
    BY <1>1 DEF bigIntAbs, Unary, Operand
  <2>2. \A x \in Int : Magnitude(x) \in Int /\ Fits(Magnitude(x), x, 0)
    BY UnariesFit DEF Magnitude
  <2> QED
    BY <2>1, <2>2, UnaryOutcome
<1>2. CASE bigIntNeg
  <2>1. PICK d \in Handles, a \in Handles :
            LET h == Operand(d, a, <<d, a>>)
            IN Bounded(-h.big[a]) /\ host' = SetOne(h, d, -h.big[a])
    BY <1>2 DEF bigIntNeg, Unary, Operand
  <2>2. \A x \in Int : -x \in Int /\ Fits(-x, x, 0)
    BY UnariesFit
  <2> QED
    BY <2>1, <2>2, UnaryOutcome
<1>3. CASE bigIntNot
  <2>1. PICK d \in Handles, a \in Handles :
            LET h == Operand(d, a, <<d, a>>)
            IN IF h.big[a] < 0 THEN host' = WithFault(h)
               ELSE Bounded(-h.big[a] - 1) /\ host' = SetOne(h, d, -h.big[a] - 1)
    BY <1>3 DEF bigIntNot, Unary, Operand
  <2>2. \A x \in Int : -x - 1 \in Int /\ (~(x < 0) => Fits(-x - 1, x, 0))
    BY UnariesFit
  <2>3. Operand(d, a, <<d, a>>).big[a] \in Int
    BY UnaryPlain
  <2> QED
    BY <2>1, <2>2, <2>3, UnaryOutcome
<1>4. CASE bigIntShr
  <2>1. PICK d \in Handles, a \in Handles, bits \in ShiftBits :
            LET h == Operand(d, a, <<a>>)
                z == h.big[a] \div Power(2, bits)
            IN IF h.big[a] < 0 \/ bits < 0 THEN host' = WithFault(h)
               ELSE /\ Bounded(z)
                    /\ host' = useExtraGasForOperations(SetOne(h, d, z), <<d>>)
    BY <1>4 DEF bigIntShr, Shift, Operand
  <2>2. bits \in Int
    BY NumbersAssumption
  <2>3. ~(bits < 0) => \A x \in Int : x \div Power(2, bits) \in Int
    BY <2>2, TwosPowers
  <2> QED
    BY <2>1, <2>3, UnaryOutcome
<1>5. CASE bigIntShl
  <2>1. PICK d \in Handles, a \in Handles, bits \in ShiftBits :
            LET h == Operand(d, a, <<a>>)
                z == h.big[a] * Power(2, bits)
            IN IF h.big[a] < 0 \/ bits < 0 THEN host' = WithFault(h)
               ELSE /\ Bounded(z)
                    /\ host' = useExtraGasForOperations(SetOne(h, d, z), <<d>>)
    BY <1>5 DEF bigIntShl, Shift, Operand
  <2>2. bits \in Int
    BY NumbersAssumption
  <2>3. ~(bits < 0) => \A x \in Int : x * Power(2, bits) \in Int
    BY <2>2, TwosPowers
  <2> QED
    BY <2>1, <2>3, UnaryOutcome
<1> QED
  BY <1>1, <1>2, <1>3, <1>4, <1>5

(* What a function answers about one number. *)
LEMMA OnePlain ==
    ASSUME IsHost(host), NEW i \in Handles
    PROVE  LET h == GetOne(Paid, i)
           IN  /\ Ready(h) /\ Number(h.big[i]) /\ i \in DOMAIN h.big
               /\ Bytes(h.big[i]).len \in Nat /\ TwosToBytes(h.big[i]).len \in Nat
<1>1. LET h == GetOne(Paid, i) IN Ready(h) /\ Number(h.big[i]) /\ i \in DOMAIN h.big
  BY ReadyPaid, ReadyGot
<1> QED
  BY <1>1, BytesAre, DataAre, SignedLength

LEMMA ComparesPlain ==
    ASSUME IsHost(host), bigIntSign \/ bigIntCmp
    PROVE  PlainStep(host, host')
<1>1. CASE bigIntSign
  <2>1. PICK i \in Handles :
            LET h == useExtraGasForOperations(GetOne(Paid, i), <<i>>)
            IN host' = Answered(h, "bigIntSign", i, SignOf(h.big[i]))
    BY <1>1 DEF bigIntSign
  <2>2. Ready(useExtraGasForOperations(GetOne(Paid, i), <<i>>))
    BY OnePlain, ReadyOperands
  <2> QED
    BY <2>1, <2>2, ReadyEnds, MarkedAre
<1>2. CASE bigIntCmp
  <2>1. PICK a \in Handles, b \in Handles :
            LET h == useExtraGasForOperations(GetTwo(Paid, a, b), <<a, b>>)
            IN host' = Answered(h, "bigIntCmp", a, SignOf(h.big[a] - h.big[b]))
    BY <1>2 DEF bigIntCmp
  <2>2. Ready(useExtraGasForOperations(GetTwo(Paid, a, b), <<a, b>>))
    BY ReadyPaid, ReadyTwo, ReadyOperands
  <2> QED
    BY <2>1, <2>2, ReadyEnds, MarkedAre
<1> QED
  BY <1>1, <1>2

LEMMA FinishesPlain ==
    ASSUME IsHost(host), bigIntFinishUnsigned \/ bigIntFinishSigned
    PROVE  PlainStep(host, host')
<1>1. PICK i, bytes :
          /\ i \in Handles
          /\ bytes \in {Bytes(GetOne(Paid, i).big[i]), TwosToBytes(GetOne(Paid, i).big[i])}
          /\ host' = UseGas(Finish(GetOne(Paid, i), bytes), PersistPerByte * bytes.len)
  BY DEF bigIntFinishUnsigned, bigIntFinishSigned, Finishes
<1>2. bytes.len \in Nat /\ PersistPerByte \in Nat
  BY <1>1, OnePlain, Sizes
<1>3. Ready(Finish(GetOne(Paid, i), bytes)) /\ PersistPerByte * bytes.len \in Nat
  BY <1>1, <1>2, OnePlain, ReadyEnds
<1> QED
  BY <1>1, <1>3, ReadyGas, ReadyEnds

LEMMA BigIntArithmeticPlain ==
    ASSUME IsHost(host), BigIntArithmeticImports
    PROVE  PlainStep(host, host')
  BY ArithmeticPlain, UnariesPlain, ComparesPlain, FinishesPlain
     DEF BigIntArithmeticImports

-----------------------------------------------------------------------------
(* Numbers from elsewhere.                                                  *)

LEMMA InputIs ==
    ASSUME IsHost(host)
    PROVE  /\ Number(host.input.value) /\ Number(host.chain.balance)
           /\ host.input.esdt # <<>> => Number(host.input.esdt[1])
           /\ Len(host.input.args) \in Nat
           /\ \A id \in Int : 0 <= id /\ id < Len(host.input.args)
                                => /\ IsData(host.input.args[id + 1])
                                   /\ host.input.args[id + 1].len <= FreeBytes(host.contract)
           /\ IsUint64(host.input.value) /\ IsUint64(host.chain.balance)
           /\ host.input.esdt # <<>> => IsUint64(host.input.esdt[1])
<1>1. IsInput(host.input) /\ host.chain.balance = Balance /\ IsUint64(Balance)
  BY ContractsAssumption DEF IsHost, IsChain
<1>2. ASSUME NEW id \in Int, 0 <= id, id < Len(host.input.args)
      PROVE  /\ IsData(host.input.args[id + 1])
             /\ host.input.args[id + 1].len <= FreeBytes(host.contract)
  <2>1. Len(host.input.args) \in Nat
    BY <1>1 DEF IsInput
  <2>2. id + 1 \in 1 .. Len(host.input.args)
    BY <1>2, <2>1
  <2>3. Short(host.contract, host.input)
    BY DEF IsHost, Sized
  <2> QED
    BY <1>1, <2>2, <2>3 DEF IsInput, Short
<1>3. /\ Number(host.input.value) /\ Number(host.chain.balance)
      /\ host.input.esdt # <<>> => Number(host.input.esdt[1])
  BY <1>1, Uint64Numbers DEF IsInput
<1> QED
  BY <1>1, <1>2, <1>3 DEF IsInput

LEMMA ArgumentsPlain ==
    ASSUME IsHost(host), bigIntGetUnsignedArgument \/ bigIntGetSignedArgument
    PROVE  PlainStep(host, host')
<1>1. PICK id, d, x :
          /\ id \in ArgumentIds /\ d \in Handles
          /\ x \in {SetBytes(host.input.args[id + 1]), TwosSetBytes(host.input.args[id + 1])}
          /\ IF Len(host.input.args) <= id THEN host' = Paid
             ELSE IF id < 0 THEN Panics ELSE host' = SetOne(Paid, d, x)
  <2>1. CASE bigIntGetUnsignedArgument
    BY <2>1 DEF bigIntGetUnsignedArgument, Argument
  <2>2. CASE bigIntGetSignedArgument
    BY <2>2 DEF bigIntGetSignedArgument, Argument
  <2> QED
    BY <2>1, <2>2
<1>2. id \in Int /\ Len(host.input.args) \in Nat
  BY <1>1, NumbersAssumption, InputIs
<1>4. Ready(Paid) /\ Paid.contract = host.contract
  BY ReadyPaid DEF Ready, Quiet, SameAround
<1>3. ASSUME ~(Len(host.input.args) <= id), ~(id < 0)
      PROVE  Number(x) /\ Afforded(Paid.used, Paid.contract, x)
  <2> DEFINE b == host.input.args[id + 1]
  <2>1. IsData(b) /\ b.len <= FreeBytes(host.contract)
    BY <1>2, <1>3, InputIs
  <2>2. x \in {SetBytes(b), TwosSetBytes(b)}
    BY <1>1
  <2> HIDE DEF b
  <2>3. Number(x) /\ b.len \in Nat
    BY <2>1, <2>2, DataAre
  <2>4. WholeBytes(x) <= b.len /\ WholeBytes(x) \in Nat /\ x \in Int
    BY <2>1, <2>2, <2>3, WholeOfData, WholeIs DEF Number
  <2>5. Paid.used \in Nat /\ Paid.contract \in Contracts
    BY <1>4, ReadyMetered
  <2>6. FreeBytes(Paid.contract) \in Nat
    BY <2>5, FreeIs
  <2>7. WholeBytes(x) <= FreeBytes(Paid.contract)
    BY <1>4, <2>1, <2>3, <2>4, <2>6
  <2> QED
    BY <2>3, <2>4, <2>5, <2>7, AffordedFree
<1>5. Number(x) /\ Afforded(Paid.used, Paid.contract, x) => Ready(SetOne(Paid, d, x))
  BY <1>1, <1>4, ReadyNumber
<1>6. PlainStep(host, [Paid EXCEPT !.state = "panicked"])
  BY <1>4, ReadyEnds DEF States
<1> QED
  BY <1>1, <1>3, <1>4, <1>5, <1>6, ReadyEnds DEF Panics

LEMMA LoadsNumberPlain ==
    ASSUME IsHost(host), bigIntStorageLoadUnsigned
    PROVE  PlainStep(host, host')
<1>1. PICK k \in NumberKeys, d \in Handles :
          \/ host' = WithFault(Paid)
          \/ LET r == GetStorage(Paid, k)
             IN host' = Answered(SetOne(r.host, d, SetBytes(r.value)),
                                 "bigIntStorageLoadUnsigned", k, r.value.len)
  BY DEF bigIntStorageLoadUnsigned
<1> DEFINE r == GetStorage(Paid, k)
           v == Held(Paid, Paid.address, k)
<1>2. Ready(Paid) /\ IsHost(Paid) /\ k \in AllKeys
  BY ReadyPaid, NumbersAssumption DEF Ready, Quiet, AllKeys
<1>3. Reads(Paid, r, v) /\ DataCopyPerByte * r.value.len <= r.host.used
  BY <1>2, ReadStorage
<1> HIDE DEF r, v
<1>4. Ready(r.host) /\ Number(SetBytes(r.value)) /\ IsData(r.value)
  BY <1>2, <1>3, DataAre, QuietTwice DEF Ready, Reads
<1>a. Afforded(r.host.used, r.host.contract, SetBytes(r.value))
  <2>1. r.host.used \in Nat /\ r.host.contract \in Contracts
    BY <1>4, ReadyMetered
  <2>2. r.value.len \in Nat /\ SetBytes(r.value) \in Int
    BY <1>4, DataAre DEF Number
  <2>3. WholeBytes(SetBytes(r.value)) <= r.value.len
    BY <1>4, WholeOfData
  <2> QED
    BY <1>3, <2>1, <2>2, <2>3, AffordedCopied
<1>5. Ready(SetOne(r.host, d, SetBytes(r.value)))
  BY <1>4, <1>a, ReadyNumber
<1> QED
  BY <1>1, <1>2, <1>5, ReadyEnds, MarkedAre DEF r

LEMMA ValuesPlain ==
    ASSUME IsHost(host),
           \/ bigIntGetCallValue \/ bigIntGetESDTCallValue
           \/ bigIntGetExternalBalance \/ bigIntGetESDTExternalBalance
    PROVE  PlainStep(host, host')
<1>1. /\ Ready(Paid) /\ Ready(UseGas(Paid, ApiCost))
  BY ReadyPaid, ReadyGas, Sizes
<1>2. CASE bigIntGetCallValue
  BY <1>1, <1>2, InputIs, ReadyWord, ReadyEnds DEF bigIntGetCallValue
<1>3. CASE bigIntGetESDTCallValue
  BY <1>1, <1>3, InputIs, ReadyGot, ReadyWord, ReadyEnds DEF bigIntGetESDTCallValue
<1>4. CASE bigIntGetExternalBalance
  BY <1>1, <1>4, InputIs, ReadyWord, ReadyEnds DEF bigIntGetExternalBalance
<1>5. CASE bigIntGetESDTExternalBalance
  BY <1>1, <1>5, InputIs, ReadyWord, ReadyEnds DEF bigIntGetESDTExternalBalance
<1> QED
  BY <1>2, <1>3, <1>4, <1>5

(* bigIntNew finds a handle that is not in use. *)
LEMMA NewHandle ==
    ASSUME NEW h, IsHost(h), FreeHandles(h) # {}
    PROVE  Min(FreeHandles(h)) \in AllHandles /\ Min(FreeHandles(h)) \notin DOMAIN h.big
<1>1. IsFiniteSet(AllHandles) /\ \A i \in AllHandles : i \in Int
  <2>1. Cardinality(Handles) \in Nat /\ IsFiniteSet(Handles) /\ Handles \subseteq Int
    BY EEIAssumption, FS_CardinalityType
  <2>2. IsFiniteSet(0 .. Cardinality(Handles))
    BY <2>1, FS_Interval
  <2>3. IsFiniteSet(AllHandles)
    BY <2>1, <2>2, FS_Union DEF AllHandles
  <2>4. ASSUME NEW i \in AllHandles PROVE i \in Int
    <3>1. i \in Handles \/ i \in 0 .. Cardinality(Handles)
      BY DEF AllHandles
    <3>2. i \in Handles => i \in Int
      BY <2>1
    <3>3. i \in 0 .. Cardinality(Handles) => i \in Int
      BY <2>1
    <3> QED
      BY <3>1, <3>2, <3>3
  <2> QED
    BY <2>3, <2>4
<1>2. DOMAIN h.big \subseteq AllHandles
  BY DEF IsHost, IsBig
<1>3. Cardinality(DOMAIN h.big) \in Nat
  <2>1. IsFiniteSet(DOMAIN h.big)
    BY <1>1, <1>2, FS_Subset
  <2> QED
    BY <2>1, FS_CardinalityType
<1>4. FreeHandles(h) \in SUBSET Nat
  <2>1. ASSUME NEW i \in FreeHandles(h) PROVE i \in Nat
    <3>1. i \in AllHandles /\ i >= Cardinality(DOMAIN h.big)
      BY DEF FreeHandles
    <3> QED
      BY <1>1, <1>3, <3>1
  <2> QED
    BY <2>1
<1>5. Min(FreeHandles(h)) \in FreeHandles(h)
  BY <1>4, MinIs
<1> QED
  BY <1>5 DEF FreeHandles

LEMMA NewPlain ==
    ASSUME IsHost(host), bigIntNew
    PROVE  /\ PlainStep(host, host')
           /\ \A i \in DOMAIN host.big : i \in DOMAIN host'.big /\ host'.big[i] = host.big[i]
<1>1. PICK x \in ContractInts : FreeHandles(host) # {} /\ host' = Put(Paid, x)
  BY DEF bigIntNew
<1> DEFINE i == Min(FreeHandles(Paid))
<1>2. Ready(Paid) /\ IsHost(Paid) /\ Paid.big = host.big /\ FreeHandles(Paid) = FreeHandles(host)
  BY ReadyPaid DEF Ready, Quiet, FreeHandles
<1>3. i \in AllHandles /\ i \notin DOMAIN Paid.big
  BY <1>1, <1>2, NewHandle
<1>4. host' = SetOne(Paid, i, x)
  BY <1>1 DEF Put
<1> HIDE DEF i
<1>5. Number(x) /\ Afforded(Paid.used, Paid.contract, x)
  <2>1. x \in Int64s
    BY NumbersAssumption
  <2>2. Paid.used \in Nat /\ Paid.contract \in Contracts
    BY <1>2, ReadyMetered
  <2> QED
    BY <2>1, <2>2, Int64Numbers, WordFree
<1>6. /\ Quiet(Paid, host') /\ host'.call = Paid.call /\ host'.state = Paid.state
      /\ DOMAIN host'.big = DOMAIN Paid.big \cup {i}
      /\ \A j \in DOMAIN Paid.big : j # i => host'.big[j] = Paid.big[j]
  BY <1>2, <1>3, <1>4, <1>5, NumberPut
<1>7. Ready(host')
  BY <1>2, <1>6, QuietTwice DEF Ready
<1>8. PlainStep(host, host')
  BY <1>7, ReadyEnds
<1> QED
  BY <1>2, <1>3, <1>6, <1>8

LEMMA LengthsPlain ==
    ASSUME IsHost(host),
           \/ bigIntUnsignedByteLength \/ bigIntSignedByteLength
           \/ bigIntGetUnsignedBytes \/ bigIntGetSignedBytes
           \/ bigIntIsInt64 \/ bigIntGetInt64
    PROVE  PlainStep(host, host')
<1>1. PICK i, f, res, len :
          /\ i \in Handles /\ f \notin Marked
          /\ len \in {Bytes(GetOne(Paid, i).big[i]).len, TwosToBytes(GetOne(Paid, i).big[i]).len}
          /\ \/ host' = Answered(GetOne(Paid, i), f, i, res)
             \/ host' = WithFault(GetOne(Paid, i))
             \/ host' = Answered(UseGas(GetOne(Paid, i), DataCopyPerByte * len), f, i, res)
  <2>1. CASE bigIntUnsignedByteLength
    BY <2>1, MarkedAre DEF bigIntUnsignedByteLength, ByteLengths
  <2>2. CASE bigIntSignedByteLength
    BY <2>2, MarkedAre DEF bigIntSignedByteLength, ByteLengths
  <2>3. CASE bigIntGetUnsignedBytes
    <3>1. PICK i \in Handles :
              LET h == GetOne(Paid, i)
                  bytes == Bytes(h.big[i])
              IN  \/ host' = WithFault(h)
                  \/ host' = Answered(UseGas(h, DataCopyPerByte * bytes.len),
                                      "bigIntGetUnsignedBytes", i, bytes.len)
      BY <2>3 DEF bigIntGetUnsignedBytes, GetsBytes
    <3>2. "bigIntGetUnsignedBytes" \notin Marked
      BY MarkedAre
    <3> QED
      BY <3>1, <3>2
  <2>4. CASE bigIntGetSignedBytes
    <3>1. PICK i \in Handles :
              LET h == GetOne(Paid, i)
                  bytes == TwosToBytes(h.big[i])
              IN  \/ host' = WithFault(h)
                  \/ host' = Answered(UseGas(h, DataCopyPerByte * bytes.len),
                                      "bigIntGetSignedBytes", i, bytes.len)
      BY <2>4 DEF bigIntGetSignedBytes, GetsBytes
    <3>2. "bigIntGetSignedBytes" \notin Marked
      BY MarkedAre
    <3> QED
      BY <3>1, <3>2
  <2>5. CASE bigIntIsInt64
    BY <2>5, MarkedAre DEF bigIntIsInt64
  <2>6. CASE bigIntGetInt64
    BY <2>6, MarkedAre DEF bigIntGetInt64
  <2> QED
    BY <2>1, <2>2, <2>3, <2>4, <2>5, <2>6
<1>2. Ready(GetOne(Paid, i)) /\ len \in Nat
  BY <1>1, OnePlain
<1>3. DataCopyPerByte * len \in Nat
  BY <1>2, Sizes
<1>4. Ready(UseGas(GetOne(Paid, i), DataCopyPerByte * len))
  BY <1>2, <1>3, ReadyGas
<1> QED
  BY <1>1, <1>2, <1>4, ReadyEnds

LEMMA SetsPlain ==
    ASSUME IsHost(host),
           bigIntSetUnsignedBytes \/ bigIntSetSignedBytes \/ bigIntSetInt64
    PROVE  PlainStep(host, host')
<1>0. Ready(Paid)
  BY ReadyPaid
<1>1. CASE bigIntSetUnsignedBytes \/ bigIntSetSignedBytes
  <2>1. PICK d, bytes, x :
            /\ d \in Handles /\ bytes \in MemoryStrings
            /\ x \in {SetBytes(bytes), TwosSetBytes(bytes)}
            /\ \/ host' = WithFault(Paid)
               \/ host' = UseGas(SetOne(Paid, d, x), DataCopyPerByte * bytes.len)
    BY <1>1 DEF bigIntSetUnsignedBytes, bigIntSetSignedBytes, SetsBytes
  <2>2. IsData(bytes)
    BY <2>1, NumbersAssumption
  <2>3. Number(x) /\ bytes.len \in Nat
    BY <2>1, <2>2, DataAre
  <2>4. DataCopyPerByte * bytes.len \in Nat
    BY <2>3, CopyCosts
  <2>5. Afforded(Paid.used + DataCopyPerByte * bytes.len, Paid.contract, x)
    <3>1. Paid.used \in Nat /\ Paid.contract \in Contracts
      BY <1>0, ReadyMetered
    <3>2. WholeBytes(x) <= bytes.len /\ x \in Int
      BY <2>1, <2>2, <2>3, WholeOfData DEF Number
    <3>3. /\ Paid.used + DataCopyPerByte * bytes.len \in Nat
          /\ DataCopyPerByte * bytes.len <= Paid.used + DataCopyPerByte * bytes.len
      BY <2>4, <3>1
    <3> QED
      BY <2>3, <3>1, <3>2, <3>3, AffordedCopied
  <2>6. Ready(UseGas(SetOne(Paid, d, x), DataCopyPerByte * bytes.len))
    BY <1>0, <2>1, <2>3, <2>4, <2>5, SetThenPaid
  <2> QED
    BY <1>0, <2>1, <2>6, ReadyEnds
<1>2. CASE bigIntSetInt64
  <2>1. PICK d \in Handles, x \in ContractInts : host' = SetOne(Paid, d, x)
    BY <1>2 DEF bigIntSetInt64
  <2>2. x \in Int64s
    BY NumbersAssumption
  <2> QED
    BY <1>0, <2>1, <2>2, ReadyWord, ReadyEnds
<1> QED
  BY <1>1, <1>2

LEMMA BigIntPlain ==
    ASSUME IsHost(host), BigIntImports
    PROVE  PlainStep(host, host') \/ bigIntStorageStoreUnsigned
  BY ArgumentsPlain, LoadsNumberPlain, ValuesPlain, NewPlain, LengthsPlain, SetsPlain
     DEF BigIntImports

LEMMA SmallPlain ==
    ASSUME IsHost(host),
           \/ smallIntGetUnsignedArgument \/ smallIntGetSignedArgument
           \/ smallIntFinishUnsigned \/ smallIntFinishSigned
           \/ smallIntStorageLoadUnsigned \/ smallIntStorageLoadSigned
    PROVE  PlainStep(host, host')
<1>0. Ready(Paid) /\ IsHost(Paid)
  BY ReadyPaid DEF Ready, Quiet
<1>1. CASE smallIntGetUnsignedArgument \/ smallIntGetSignedArgument
  <2>1. \/ host' = WithFault(Paid)
        \/ \E f, id, res : f \notin Marked /\ host' = Answered(Paid, f, id, res)
    BY <1>1, MarkedAre DEF smallIntGetUnsignedArgument, smallIntGetSignedArgument, SmallArgument
  <2> QED
    BY <1>0, <2>1, ReadyEnds
<1>2. CASE smallIntFinishUnsigned \/ smallIntFinishSigned
  <2>1. \E data : host' = Finish(Paid, data)
    BY <1>2 DEF smallIntFinishUnsigned, smallIntFinishSigned, SmallFinish
  <2> QED
    BY <1>0, <2>1, ReadyEnds
<1>3. CASE smallIntStorageLoadUnsigned \/ smallIntStorageLoadSigned
  <2>1. PICK k \in NumberKeys :
            \/ host' = WithFault(Paid)
            \/ host' = WithFault(GetStorage(Paid, k).host)
            \/ \E f, res : f \notin Marked /\ host' = Answered(GetStorage(Paid, k).host, f, k, res)
    BY <1>3, MarkedAre DEF smallIntStorageLoadUnsigned, smallIntStorageLoadSigned, SmallLoad
  <2>2. k \in AllKeys
    BY NumbersAssumption DEF AllKeys
  <2>3. Ready(GetStorage(Paid, k).host)
    BY <1>0, <2>2, ReadStorage, QuietTwice DEF Ready, Reads
  <2> QED
    BY <1>0, <2>1, <2>3, ReadyEnds
<1> QED
  BY <1>1, <1>2, <1>3

LEMMA SmallIntPlain ==
    ASSUME IsHost(host), SmallIntImports
    PROVE  \/ PlainStep(host, host')
           \/ smallIntStorageStoreUnsigned \/ smallIntStorageStoreSigned
  BY SmallPlain DEF SmallIntImports

LEMMA BytesCost ==
    ASSUME IsHost(host), NEW perByte \in Nat, NEW length \in Int
    PROVE  GasForBytes(perByte, length) \in Nat
<1>1. host.contract.gas \in Nat
  BY ContractsAssumption DEF IsHost
<1> QED
  BY <1>1 DEF GasForBytes, AllGas

LEMMA CryptoPlain ==
    ASSUME IsHost(host), CryptoImports
    PROVE  PlainStep(host, host')
<1>1. PICK length, f, res :
          /\ length \in CryptoLengths /\ f \notin Marked
          /\ LET h == UseGas(Paid, GasForBytes(DataCopyPerByte, length))
             IN  \/ host' = WithFault(Paid) \/ host' = WithFault(h)
                 \/ host' = Answered(h, f, length, res)
  <2>1. CASE sha256
    BY <2>1, MarkedAre DEF sha256, Hash
  <2>2. CASE keccak256
    BY <2>2, MarkedAre DEF keccak256, Hash
  <2>3. CASE ripemd160
    BY <2>3, MarkedAre DEF ripemd160, Hash
  <2>4. CASE verifyBLS
    BY <2>4, MarkedAre DEF verifyBLS, Verify
  <2>5. CASE verifyEd25519
    BY <2>5, MarkedAre DEF verifyEd25519, Verify
  <2>6. CASE verifySecp256k1
    BY <2>6, MarkedAre DEF verifySecp256k1, Verify
  <2> QED
    BY <2>1, <2>2, <2>3, <2>4, <2>5, <2>6 DEF CryptoImports
<1>2. length \in Int /\ DataCopyPerByte \in Nat
  BY <1>1, ElrondAssumption, Sizes
<1>3. GasForBytes(DataCopyPerByte, length) \in Nat
  BY <1>2, BytesCost
<1>4. Ready(Paid) /\ Ready(UseGas(Paid, GasForBytes(DataCopyPerByte, length)))
  BY <1>3, ReadyPaid, ReadyGas
<1> QED
  BY <1>1, <1>4, ReadyEnds

-----------------------------------------------------------------------------
(* What a contract is told.                                                 *)

Told ==
    \/ host' = Paid \/ host' = WithFault(Paid)
    \/ host' = [Paid EXCEPT !.state = "panicked"]
    \/ \E f, about, res : f \notin Marked /\ host' = Answered(Paid, f, about, res)

LEMMA ToldPlain ==
    ASSUME IsHost(host), Told
    PROVE  PlainStep(host, host')
<1>1. Ready(Paid) /\ "panicked" \in States
  BY ReadyPaid DEF States
<1> QED
  BY <1>1, ReadyEnds DEF Told

LEMMA CallsTold ==
    ASSUME \/ getSCAddress \/ getOwnerAddress \/ getShardOfAddress
           \/ isSmartContract \/ getExternalBalance \/ blockHash
           \/ getArgumentLength \/ getArgument \/ getFunction
           \/ getNumArguments \/ getCaller \/ checkNoPayment
           \/ callValue \/ getESDTValue \/ getESDTTokenName
           \/ getESDTTokenNonce \/ getESDTTokenType \/ getCallValueTokenName
           \/ getESDTBalance \/ getESDTNFTNameLength \/ getESDTNFTAttributeLength
           \/ getESDTNFTURILength \/ getNumReturnData \/ getReturnDataSize
           \/ getReturnData \/ getOriginalTxHash
    PROVE  Told
<1>1. CASE getSCAddress
  BY <1>1, MarkedAre DEF getSCAddress, TellsInMemory, Told
<1>2. CASE getOwnerAddress
  BY <1>2, MarkedAre DEF getOwnerAddress, TellsInMemory, Told
<1>3. CASE getShardOfAddress
  BY <1>3, MarkedAre DEF getShardOfAddress, AsksOfAddress, Told
<1>4. CASE isSmartContract
  BY <1>4, MarkedAre DEF isSmartContract, AsksOfAddress, Told
<1>5. CASE getExternalBalance
  BY <1>5, MarkedAre DEF getExternalBalance, AsksOfAddress, Told
<1>6. CASE blockHash
  BY <1>6, MarkedAre DEF blockHash, TellsInMemory, Told
<1>7. CASE getArgumentLength
  BY <1>7, MarkedAre DEF getArgumentLength, Tells, Told
<1>8. CASE getArgument
  BY <1>8, MarkedAre DEF getArgument, Tells, TellsInMemory, Told
<1>9. CASE getFunction
  BY <1>9, MarkedAre DEF getFunction, TellsInMemory, Told
<1>10. CASE getNumArguments
  BY <1>10, MarkedAre DEF getNumArguments, Tells, Told
<1>11. CASE getCaller
  BY <1>11, MarkedAre DEF getCaller, TellsInMemory, Told
<1>12. CASE checkNoPayment
  BY <1>12, MarkedAre DEF checkNoPayment, Told
<1>13. CASE callValue
  BY <1>13, MarkedAre DEF callValue, TellsInMemory, Told
<1>14. CASE getESDTValue
  BY <1>14, MarkedAre DEF getESDTValue, TellsInMemory, Told
<1>15. CASE getESDTTokenName
  BY <1>15, MarkedAre DEF getESDTTokenName, TellsInMemory, Told
<1>16. CASE getESDTTokenNonce
  BY <1>16, MarkedAre DEF getESDTTokenNonce, Tells, Told
<1>17. CASE getESDTTokenType
  BY <1>17, MarkedAre DEF getESDTTokenType, Tells, Told
<1>18. CASE getCallValueTokenName
  BY <1>18, MarkedAre DEF getCallValueTokenName, Told
<1>19. CASE getESDTBalance
  BY <1>19, MarkedAre DEF getESDTBalance, AsksOfToken, Told
<1>20. CASE getESDTNFTNameLength
  BY <1>20, MarkedAre DEF getESDTNFTNameLength, AsksOfToken, Told
<1>21. CASE getESDTNFTAttributeLength
  BY <1>21, MarkedAre DEF getESDTNFTAttributeLength, AsksOfToken, Told
<1>22. CASE getESDTNFTURILength
  BY <1>22, MarkedAre DEF getESDTNFTURILength, AsksOfToken, Told
<1>23. CASE getNumReturnData
  BY <1>23, MarkedAre DEF getNumReturnData, Tells, Told
<1>24. CASE getReturnDataSize
  BY <1>24, MarkedAre DEF getReturnDataSize, Tells, Panics, Told
<1>25. CASE getReturnData
  BY <1>25, MarkedAre DEF getReturnData, Tells, TellsInMemory, Panics, Told
<1>26. CASE getOriginalTxHash
  BY <1>26, MarkedAre DEF getOriginalTxHash, TellsInMemory, Told
<1> QED
  BY <1>1, <1>2, <1>3, <1>4, <1>5, <1>6, <1>7, <1>8, <1>9, <1>10, <1>11,
     <1>12, <1>13, <1>14, <1>15, <1>16, <1>17, <1>18, <1>19, <1>20,
     <1>21, <1>22, <1>23, <1>24, <1>25, <1>26

LEMMA BlocksTold ==
    ASSUME BlockImports
    PROVE  Told
<1>1. CASE getGasLeft
  BY <1>1, MarkedAre DEF getGasLeft, Tells, Told
<1>2. CASE getBlockTimestamp
  BY <1>2, MarkedAre DEF getBlockTimestamp, Tells, Told
<1>3. CASE getBlockNonce
  BY <1>3, MarkedAre DEF getBlockNonce, Tells, Told
<1>4. CASE getBlockRound
  BY <1>4, MarkedAre DEF getBlockRound, Tells, Told
<1>5. CASE getBlockEpoch
  BY <1>5, MarkedAre DEF getBlockEpoch, Tells, Told
<1>6. CASE getBlockRandomSeed
  BY <1>6, MarkedAre DEF getBlockRandomSeed, TellsInMemory, Told
<1>7. CASE getStateRootHash
  BY <1>7, MarkedAre DEF getStateRootHash, TellsInMemory, Told
<1>8. CASE getPrevBlockTimestamp
  BY <1>8, MarkedAre DEF getPrevBlockTimestamp, Tells, Told
<1>9. CASE getPrevBlockNonce
  BY <1>9, MarkedAre DEF getPrevBlockNonce, Tells, Told
<1>10. CASE getPrevBlockRound
  BY <1>10, MarkedAre DEF getPrevBlockRound, Tells, Told
<1>11. CASE getPrevBlockEpoch
  BY <1>11, MarkedAre DEF getPrevBlockEpoch, Tells, Told
<1>12. CASE getPrevBlockRandomSeed
  BY <1>12, MarkedAre DEF getPrevBlockRandomSeed, TellsInMemory, Told
<1> QED
  BY <1>1, <1>2, <1>3, <1>4, <1>5, <1>6, <1>7, <1>8, <1>9, <1>10, <1>11,
     <1>12 DEF BlockImports

LEMMA TokenDataPlain ==
    ASSUME IsHost(host), getESDTTokenData
    PROVE  PlainStep(host, host')
<1>1. PICK d \in Handles, e \in Handles :
          LET valued == SetOne(Paid, d, host.chain.balance)
          IN  \/ host' = WithFault(Paid) \/ host' = WithFault(valued)
              \/ host' = SetOne(valued, e, 0) \/ host' = valued
  BY DEF getESDTTokenData
<1>2. Ready(Paid) /\ Ready(SetOne(Paid, d, host.chain.balance))
  BY ReadyPaid, ReadyWord, InputIs
<1>3. Ready(SetOne(SetOne(Paid, d, host.chain.balance), e, 0))
  <2>1. 0 \in Int64s
    BY Sizes DEF Int64s, Signed
  <2> QED
    BY <1>2, <2>1, ReadyWord
<1> QED
  BY <1>1, <1>2, <1>3, ReadyEnds

LEMMA NoncePlain ==
    ASSUME IsHost(host), getCurrentESDTNFTNonce
    PROVE  PlainStep(host, host')
<1> DEFINE k == NodeKey
<1>1. PICK a, res :
          /\ a \in StoredAccounts
          /\ \/ host' = Answered(Paid, "getCurrentESDTNFTNonce", a, 0)
             \/ host' = Answered(GetStorageFromAddress(Paid, a, k).host,
                                 "getCurrentESDTNFTNonce", a, res)
  BY DEF getCurrentESDTNFTNonce
<1>2. Ready(Paid) /\ IsHost(Paid)
  BY ReadyPaid DEF Ready, Quiet
<1>3. k \in AllKeys
  BY DEF AllKeys, BaseKeys
<1> HIDE DEF k
<1> DEFINE g == GetStorageFromAddress(Paid, a, k)
<1>4. PICK v : Reads(Paid, g, v)
  BY <1>1, <1>2, <1>3, ReadFromAddress
<1>5. Ready(g.host)
  BY <1>2, <1>4, QuietTwice DEF Ready, Reads
<1> HIDE DEF g
<1>6. "getCurrentESDTNFTNonce" \notin Marked
  BY MarkedAre
<1> QED
  BY <1>1, <1>2, <1>5, <1>6, ReadyEnds DEF g

LEMMA TransfersPlain ==
    ASSUME IsHost(host), transferValue \/ transferESDT
    PROVE  PlainStep(host, host')
<1>1. CASE transferValue
  <2>1. PICK value :
            LET h == UseGas(Paid, PersistPerByte)
            IN  \/ host' = WithFault(h)
                \/ host' = Answered(h, "transferValue", value, 1)
                \/ host' = Answered([h EXCEPT !.sent[h.address] = @ + value],
                                    "transferValue", value, 0)
    BY <1>1 DEF transferValue
  <2> DEFINE h == UseGas(Paid, PersistPerByte)
             sent == [h.sent EXCEPT ![h.address] = @ + value]
             g == [h EXCEPT !.sent = sent]
  <2>2. Ready(h)
    BY ReadyPaid, ReadyGas, Sizes
  <2>3. [h EXCEPT !.sent[h.address] = @ + value] = g
    OBVIOUS
  <2> HIDE DEF h, sent
  <2>4. Ready(g)
    BY <2>2 DEF Ready, Quiet, IsHost, HostFields, SameAround, Caches
  <2> HIDE DEF g
  <2> QED
    BY <2>1, <2>2, <2>3, <2>4, ReadyEnds, MarkedAre DEF h
<1>2. CASE transferESDT
  <2>1. PICK length \in CryptoLengths :
            host' = Answered(UseGas(Paid, GasForBytes(PersistPerByte, length)),
                             "transferESDT", length, 1)
    BY <1>2 DEF transferESDT
  <2>2. GasForBytes(PersistPerByte, length) \in Nat
    BY ElrondAssumption, BytesCost, Sizes
  <2> QED
    BY <2>1, <2>2, ReadyPaid, ReadyGas, ReadyEnds, MarkedAre
<1> QED
  BY <1>1, <1>2

LEMMA CallPlain ==
    ASSUME IsHost(host), CallImports
    PROVE  PlainStep(host, host')
  BY CallsTold, ToldPlain, TokenDataPlain, NoncePlain, TransfersPlain DEF CallImports

LEMMA BlockPlain ==
    ASSUME IsHost(host), BlockImports
    PROVE  PlainStep(host, host')
  BY BlocksTold, ToldPlain

-----------------------------------------------------------------------------
(* Stores.  In the read-only mode, or under a key of the Node, nothing is   *)
(* written.                                                                 *)

LEMMA StoreOutcome ==
    ASSUME IsHost(host), NEW g, Ready(g), NEW k \in AllKeys, NEW v, IsData(v),
           NEW protection \in BOOLEAN, NEW f \in StoreNames, NEW about,
           Stores(f, about, SetStorageGuarded(g, k, v, protection))
    PROVE  \/ PlainStep(host, host')
           \/ /\ Writes(host, host', k, v)
              /\ host'.call.f = f /\ host'.call.about = about
<1>0. IsHost(g) /\ Quiet(host, g)
  BY DEF Ready, Quiet
<1>1. CASE g.readOnly
  <2>1. host' = Answered(g, f, about, "Unchanged")
    BY <1>1 DEF Stores, SetStorageGuarded
  <2>2. Quiet(g, host') /\ host'.call = [f |-> f, about |-> about, res |-> "Unchanged"]
    BY <1>0, <2>1, AnsweredQuiet
  <2>3. host'.readOnly /\ host'.call.f = f
    BY <1>1, <2>2 DEF Quiet, SameAround
  <2> QED
    BY <1>0, <2>2, <2>3, QuietTwice DEF PlainStep, Unmarked
<1>2. CASE ~g.readOnly /\ (isElrondReservedKey(k) \/ (isArwenProtectedKey(k) /\ protection))
  <2>1. host' = WithFault(g)
    BY <1>2 DEF Stores, SetStorageGuarded
  <2> QED
    BY <2>1, ReadyEnds
<1>3. CASE /\ ~g.readOnly
           /\ ~(isElrondReservedKey(k) \/ (isArwenProtectedKey(k) /\ protection))
  <2> DEFINE w == WriteStorage(g, k, v)
  <2>1. w.err = FALSE /\ Writes(g, w.host, k, v)
    BY <1>0, <1>3, WriteIs
  <2>2. host' = Answered(w.host, f, about, w.status)
    BY <1>3, <2>1 DEF Stores, SetStorageGuarded
  <2> HIDE DEF w
  <2>3. /\ Quiet(w.host, host') /\ host'.state = w.host.state
        /\ host'.call = [f |-> f, about |-> about, res |-> w.status]
        /\ host'.updates = w.host.updates
    BY <2>1, <2>2, AnsweredQuiet DEF Writes
  <2>4. host'.call.f = f /\ host'.call.about = about
    BY <2>3
  <2>5. g.address = host.address /\ host.address \in StoredAccounts
    BY <1>0 DEF Quiet, SameAround, IsHost
  <2>6. \A a \in StoredAccounts, j \in AllKeys :
            Held(host', a, j) = Held(w.host, a, j) /\ Held(g, a, j) = Held(host, a, j)
    BY <1>0, <2>3, QuietHeld
  <2>7. /\ IsHost(host') /\ SameAround(host, host') /\ host'.logs = host.logs
        /\ host'.state = host.state /\ ~host.readOnly
        /\ host'.refund = w.host.refund /\ host'.stored = w.host.stored
        /\ g.refund = host.refund /\ g.stored = host.stored
    BY <1>0, <1>3, <2>1, <2>3 DEF Quiet, SameAround, Writes, Ready
  <2>8. Writes(host, host', k, v)
    BY <1>3, <2>1, <2>5, <2>6, <2>7 DEF Writes
  <2> QED
    BY <2>4, <2>8
<1> QED
  BY <1>1, <1>2, <1>3

NumberStore(h, g) ==
    \E k \in NumberKeys, x \in ContractInts :
        /\ g.call.about = <<k, x>>
        /\ \/ g.call.f \in UnsignedStores /\ Writes(h, g, k, EncodeUnsigned(x))
           \/ g.call.f \in SignedStores /\ Writes(h, g, k, EncodeSigned(x))
PlainStore(h, g) ==
    \E k \in BaseKeys : \E v :
        /\ g.call.about = k /\ Writes(h, g, k, v)
        /\ \/ g.call.f = "storageStore"
           \/ g.call.f = "bigIntStorageStoreUnsigned" /\ k \in NumberKeys
LockStore(h, g) ==
    \E k \in ContractKeys, t \in Int64s :
        /\ g.call.f \in LockSetters /\ g.call.about = <<k, t>>
        /\ Writes(h, g, CustomStorageKey(k), Bytes(t))

LEMMA BaseKeysAre ==
    ASSUME NEW k \in BaseKeys
    PROVE  /\ k \in AllKeys /\ CustomStorageKey(k) \in AllKeys
           /\ k = [prefix |-> k.prefix, name |-> k.name, lock |-> FALSE]
           /\ CustomStorageKey(k).prefix = k.prefix /\ CustomStorageKey(k).name = k.name
           /\ CustomStorageKey(k).lock
<1>1. PICK p, n : k = [prefix |-> p, name |-> n, lock |-> FALSE]
  BY DEF BaseKeys, NodeKey, Key
<1>2. k.prefix = p /\ k.name = n
  BY <1>1
<1>3. /\ CustomStorageKey(k).prefix = p /\ CustomStorageKey(k).name = n
      /\ CustomStorageKey(k).lock
  BY <1>1 DEF CustomStorageKey
<1>4. k \in AllKeys /\ CustomStorageKey(k) \in AllKeys
  BY DEF AllKeys
<1> QED
  BY <1>1, <1>2, <1>3, <1>4

LEMMA SmallStores ==
    ASSUME IsHost(host), smallIntStorageStoreUnsigned \/ smallIntStorageStoreSigned
    PROVE  PlainStep(host, host') \/ NumberStore(host, host')
<1>0. Ready(Paid)
  BY ReadyPaid
<1>1. CASE smallIntStorageStoreUnsigned
  <2>1. PICK f \in UnsignedStores, k \in NumberKeys, x \in ContractInts :
            \/ host' = WithFault(Paid)
            \/ Stores(f, <<k, x>>, SetStorageGuarded(Paid, k, EncodeUnsigned(x), TRUE))
    BY <1>1 DEF smallIntStorageStoreUnsigned, SmallStore, SetStorage, UnsignedStores
  <2>2. k \in AllKeys /\ IsData(EncodeUnsigned(x)) /\ f \in StoreNames
    BY NumbersAssumption, BaseKeysAre, UnsignedTrip DEF StoreNames
  <2>3. CASE host' = WithFault(Paid)
    BY <1>0, <2>3, ReadyEnds
  <2>4. CASE Stores(f, <<k, x>>, SetStorageGuarded(Paid, k, EncodeUnsigned(x), TRUE))
    <3>1. \/ PlainStep(host, host')
          \/ /\ Writes(host, host', k, EncodeUnsigned(x))
             /\ host'.call.f = f /\ host'.call.about = <<k, x>>
      BY <1>0, <2>2, <2>4, StoreOutcome
    <3> QED
      BY <3>1 DEF NumberStore
  <2> QED
    BY <2>1, <2>3, <2>4
<1>2. CASE smallIntStorageStoreSigned
  <2>1. PICK f \in SignedStores, k \in NumberKeys, x \in ContractInts :
            \/ host' = WithFault(Paid)
            \/ Stores(f, <<k, x>>, SetStorageGuarded(Paid, k, EncodeSigned(x), TRUE))
    BY <1>2 DEF smallIntStorageStoreSigned, SmallStore, SetStorage, SignedStores
  <2>2. k \in AllKeys /\ IsData(EncodeSigned(x)) /\ f \in StoreNames
    BY NumbersAssumption, BaseKeysAre, SignedTrip DEF StoreNames
  <2>3. CASE host' = WithFault(Paid)
    BY <1>0, <2>3, ReadyEnds
  <2>4. CASE Stores(f, <<k, x>>, SetStorageGuarded(Paid, k, EncodeSigned(x), TRUE))
    <3>1. \/ PlainStep(host, host')
          \/ /\ Writes(host, host', k, EncodeSigned(x))
             /\ host'.call.f = f /\ host'.call.about = <<k, x>>
      BY <1>0, <2>2, <2>4, StoreOutcome
    <3> QED
      BY <3>1 DEF NumberStore
  <2> QED
    BY <2>1, <2>3, <2>4
<1> QED
  BY <1>1, <1>2

LEMMA PlainStores ==
    ASSUME IsHost(host), bigIntStorageStoreUnsigned \/ storageStore
    PROVE  PlainStep(host, host') \/ PlainStore(host, host')
<1>0. Ready(Paid)
  BY ReadyPaid
<1>1. CASE bigIntStorageStoreUnsigned
  <2>1. PICK k \in NumberKeys, s \in Handles :
            \/ host' = WithFault(Paid)
            \/ LET h == GetOne(Paid, s)
               IN Stores("bigIntStorageStoreUnsigned", k,
                         SetStorageGuarded(h, k, Bytes(h.big[s]), TRUE))
    BY <1>1 DEF bigIntStorageStoreUnsigned, SetStorage
  <2> DEFINE h == GetOne(Paid, s)
             v == Bytes(h.big[s])
             f == "bigIntStorageStoreUnsigned"
  <2>2. Ready(h) /\ IsData(v)
    BY OnePlain, BytesAre
  <2>3. k \in BaseKeys /\ k \in AllKeys /\ f \in StoreNames
    BY NumbersAssumption, BaseKeysAre DEF StoreNames
  <2>4. CASE host' = WithFault(Paid)
    BY <1>0, <2>4, ReadyEnds
  <2>5. CASE Stores(f, k, SetStorageGuarded(h, k, v, TRUE))
    <3> HIDE DEF h, v, f
    <3>1. \/ PlainStep(host, host')
          \/ Writes(host, host', k, v) /\ host'.call.f = f /\ host'.call.about = k
      BY <2>2, <2>3, <2>5, StoreOutcome
    <3> QED
      BY <2>3, <3>1 DEF PlainStore, f
  <2> QED
    BY <2>1, <2>4, <2>5
<1>2. CASE storageStore
  <2>1. PICK k \in ContractKeys, v \in MemoryStrings :
            \/ host' = WithFault(Paid)
            \/ Stores("storageStore", k, SetStorageGuarded(Paid, k, v, TRUE))
    BY <1>2 DEF storageStore, SetStorage
  <2> DEFINE f == "storageStore"
  <2>2. k \in BaseKeys /\ k \in AllKeys /\ f \in StoreNames /\ IsData(v)
    BY ElrondAssumption, NumbersAssumption, BaseKeysAre DEF StoreNames
  <2>3. CASE host' = WithFault(Paid)
    BY <1>0, <2>3, ReadyEnds
  <2>4. CASE Stores(f, k, SetStorageGuarded(Paid, k, v, TRUE))
    <3> HIDE DEF f
    <3>1. \/ PlainStep(host, host')
          \/ Writes(host, host', k, v) /\ host'.call.f = f /\ host'.call.about = k
      BY <1>0, <2>2, <2>4, StoreOutcome
    <3> QED
      BY <2>2, <3>1 DEF PlainStore, f
  <2> QED
    BY <2>1, <2>3, <2>4
<1> QED
  BY <1>1, <1>2

LEMMA LockStores ==
    ASSUME IsHost(host), setStorageLock \/ clearStorageLock
    PROVE  PlainStep(host, host') \/ LockStore(host, host')
<1>0. Ready(Paid) /\ 0 \in Int64s
  BY ReadyPaid, Sizes DEF Int64s, Signed
<1>1. PICK f, k, t :
          /\ f \in LockSetters /\ k \in ContractKeys /\ t \in Int64s
          /\ \/ host' = WithFault(Paid)
             \/ Stores(f, <<k, t>>, SetStorageGuarded(Paid, CustomStorageKey(k), Bytes(t), FALSE))
  <2>1. CASE setStorageLock
    <3>1. PICK k \in ContractKeys, t \in LockTimes :
              \/ host' = WithFault(Paid)
              \/ Stores("setStorageLock", <<k, t>>,
                        SetStorageGuarded(Paid, CustomStorageKey(k), Bytes(t), FALSE))
      BY <2>1 DEF setStorageLock, SetsLock, SetProtectedStorage
    <3>2. "setStorageLock" \in LockSetters /\ t \in Int64s
      BY ElrondAssumption DEF LockSetters
    <3> QED
      BY <3>1, <3>2
  <2>2. CASE clearStorageLock
    <3>1. PICK k \in ContractKeys :
              \/ host' = WithFault(Paid)
              \/ Stores("clearStorageLock", <<k, 0>>,
                        SetStorageGuarded(Paid, CustomStorageKey(k), Bytes(0), FALSE))
      BY <2>2 DEF clearStorageLock, SetsLock, SetProtectedStorage
    <3>2. "clearStorageLock" \in LockSetters
      BY DEF LockSetters
    <3> QED
      BY <1>0, <3>1, <3>2
  <2> QED
    BY <2>1, <2>2
<1>2. k \in BaseKeys
  BY <1>1, ElrondAssumption
<1>3. CustomStorageKey(k) \in AllKeys /\ IsData(Bytes(t)) /\ f \in StoreNames
  BY <1>1, <1>2, BaseKeysAre, Int64Numbers, BytesAre DEF StoreNames
<1>4. CASE host' = WithFault(Paid)
  BY <1>0, <1>4, ReadyEnds
<1>5. CASE Stores(f, <<k, t>>, SetStorageGuarded(Paid, CustomStorageKey(k), Bytes(t), FALSE))
  <2>1. \/ PlainStep(host, host')
        \/ /\ Writes(host, host', CustomStorageKey(k), Bytes(t))
           /\ host'.call.f = f /\ host'.call.about = <<k, t>>
    BY <1>0, <1>3, <1>5, StoreOutcome
  <2> QED
    BY <1>1, <2>1 DEF LockStore
<1> QED
  BY <1>1, <1>4, <1>5

-----------------------------------------------------------------------------
(* Loads, locks and logs.                                                   *)

AddressLoad(h, g) ==
    /\ Quiet(h, g) /\ g.call.f = "storageLoadFromAddress"
    /\ \E a \in StoredAccounts, k \in BaseKeys :
          /\ g.call.about = <<a, k>>
          /\ isElrondReservedKey(k) /\ (a = h.address \/ a \in ReadableAccounts)
                => g.call.res = h.node[a][k]
LockAsk(h, g) ==
    /\ Quiet(h, g) /\ g.call.f = "isStorageLocked"
    /\ \E k \in ContractKeys :
          LET timeLock == ToInt64(SetBytes(Held(h, h.address, CustomStorageKey(k))))
          IN  /\ g.call.about = k
              /\ g.call.res = IF timeLock < 0 THEN -1
                              ELSE IF isUnlocked(timeLock, h.chain.now) THEN 0 ELSE 1
LogStep(h, g) ==
    /\ ~h.readOnly /\ IsHost(g) /\ SameAround(h, g)
    /\ g.refund = h.refund /\ g.stored = h.stored
    /\ Caches(h, g) /\ Unmarked(h, g)

LEMMA LoadsPlain ==
    ASSUME IsHost(host), storageLoadLength \/ storageLoad \/ getStorageLock
    PROVE  PlainStep(host, host')
<1>0. Ready(Paid) /\ IsHost(Paid) /\ Paid.address \in StoredAccounts
  BY ReadyPaid DEF Ready, Quiet, IsHost
<1>1. ASSUME NEW k \in AllKeys PROVE Ready(GetStorage(Paid, k).host)
  BY <1>0, ReadStorage, QuietTwice DEF Ready, Reads
<1>2. ASSUME NEW k \in AllKeys PROVE Ready(GetStorageUnmetered(Paid, k).host)
  BY <1>0, ReadUnmetered, QuietTwice DEF Ready, Reads, GetStorageUnmetered
<1>3. CASE storageLoadLength
  <2>1. PICK k \in ReadKeys :
            \/ host' = WithFault(Paid)
            \/ LET r == GetStorageUnmetered(Paid, k)
               IN host' = Answered(r.host, "storageLoadLength", <<host.address, k>>, r.value)
    BY <1>3 DEF storageLoadLength, Loads
  <2>2. Ready(GetStorageUnmetered(Paid, k).host) /\ "storageLoadLength" \notin Marked
    BY <1>2, ElrondAssumption, BaseKeysAre, MarkedAre
  <2> QED
    BY <1>0, <2>1, <2>2, ReadyEnds
<1>4. CASE storageLoad
  <2>1. PICK k \in ReadKeys :
            LET r == GetStorage(Paid, k)
            IN  \/ host' = WithFault(Paid) \/ host' = WithFault(r.host)
                \/ host' = Answered(r.host, "storageLoad", <<host.address, k>>, r.value)
    BY <1>4 DEF storageLoad, Loads
  <2>2. Ready(GetStorage(Paid, k).host) /\ "storageLoad" \notin Marked
    BY <1>1, ElrondAssumption, BaseKeysAre, MarkedAre
  <2> QED
    BY <1>0, <2>1, <2>2, ReadyEnds
<1>5. CASE getStorageLock
  <2>1. PICK k \in ContractKeys :
            LET r == GetStorage(Paid, CustomStorageKey(k))
            IN  \/ host' = WithFault(Paid)
                \/ host' = Answered(r.host, "getStorageLock", k, ToInt64(SetBytes(r.value)))
    BY <1>5 DEF getStorageLock, LockOf
  <2>2. Ready(GetStorage(Paid, CustomStorageKey(k)).host) /\ "getStorageLock" \notin Marked
    BY <1>1, ElrondAssumption, BaseKeysAre, MarkedAre
  <2> QED
    BY <1>0, <2>1, <2>2, ReadyEnds
<1> QED
  BY <1>3, <1>4, <1>5

LEMMA AddressLoads ==
    ASSUME IsHost(host), storageLoadFromAddress
    PROVE  PlainStep(host, host') \/ AddressLoad(host, host')
<1>0. Ready(Paid) /\ IsHost(Paid) /\ Paid.node = host.node /\ Paid.address = host.address
  BY ReadyPaid DEF Ready, Quiet, SameAround
<1>1. PICK a \in StoredAccounts, k \in BaseKeys :
          LET r == GetStorageFromAddress(Paid, a, k)
          IN  \/ host' = WithFault(Paid) \/ host' = WithFault(r.host)
              \/ host' = Answered(r.host, "storageLoadFromAddress", <<a, k>>, r.value)
  BY DEF storageLoadFromAddress, Loads
<1> DEFINE r == GetStorageFromAddress(Paid, a, k)
<1>2. PICK v : /\ Reads(Paid, r, v)
               /\ isElrondReservedKey(k) /\ (a = host.address \/ a \in ReadableAccounts)
                     => v = host.node[a][k]
  BY <1>0, BaseKeysAre, ReadFromAddress
<1>3. Ready(r.host) /\ r.value = v /\ IsHost(r.host)
  BY <1>0, <1>2, QuietTwice DEF Ready, Reads, Quiet
<1>4. \/ host' = WithFault(Paid) \/ host' = WithFault(r.host)
      \/ host' = Answered(r.host, "storageLoadFromAddress", <<a, k>>, v)
  BY <1>1, <1>3
<1> HIDE DEF r
<1>5. CASE host' = Answered(r.host, "storageLoadFromAddress", <<a, k>>, v)
  <2>1. /\ Quiet(r.host, host')
        /\ host'.call = [f |-> "storageLoadFromAddress", about |-> <<a, k>>, res |-> v]
    BY <1>3, <1>5, AnsweredQuiet
  <2>2. Quiet(host, host')
    BY <1>3, <2>1, QuietTwice DEF Ready
  <2>3. host'.call.f = "storageLoadFromAddress" /\ host'.call.about = <<a, k>>
        /\ host'.call.res = v
    BY <2>1
  <2> QED
    BY <1>2, <2>2, <2>3 DEF AddressLoad
<1>6. CASE host' = WithFault(Paid) \/ host' = WithFault(r.host)
  BY <1>0, <1>3, <1>6, ReadyEnds
<1> QED
  BY <1>4, <1>5, <1>6

LEMMA LockAsks ==
    ASSUME IsHost(host), isStorageLocked
    PROVE  PlainStep(host, host') \/ LockAsk(host, host')
<1>0. /\ Ready(Paid) /\ IsHost(Paid) /\ Quiet(host, Paid) /\ Paid.address = host.address
      /\ host.address \in StoredAccounts /\ ApiCost \in Nat
  BY ReadyPaid, Sizes DEF Ready, Quiet, SameAround, IsHost
<1>1. PICK k \in ContractKeys :
          LET r == GetStorage(Paid, CustomStorageKey(k))
              timeLock == ToInt64(SetBytes(r.value))
          IN  \/ host' = WithFault(Paid)
              \/ /\ timeLock < 0
                 /\ host' = Answered(r.host, "isStorageLocked", k, -1)
              \/ /\ ~(timeLock < 0)
                 /\ host' = Answered(UseGas(r.host, ApiCost), "isStorageLocked", k,
                                     IF isUnlocked(timeLock, host.chain.now) THEN 0 ELSE 1)
  BY DEF isStorageLocked, LockOf
<1> DEFINE c == CustomStorageKey(k)
           v == Held(host, host.address, c)
           r == GetStorage(Paid, c)
           timeLock == ToInt64(SetBytes(v))
           unlocked == isUnlocked(timeLock, host.chain.now)
           res == IF timeLock < 0 THEN -1 ELSE IF unlocked THEN 0 ELSE 1
<1>2. c \in AllKeys
  BY ElrondAssumption, BaseKeysAre
<1>3. Held(Paid, Paid.address, c) = v
  BY <1>0, <1>2, QuietHeld
<1>4. Reads(Paid, r, v)
  BY <1>0, <1>2, <1>3, ReadStorage
<1>5. r.value = v /\ Ready(r.host)
  BY <1>0, <1>4, QuietTwice DEF Reads, Ready
<1>6. Ready(UseGas(r.host, ApiCost))
  BY <1>0, <1>5, ReadyGas
<1>7. \/ host' = WithFault(Paid)
      \/ \E g : Ready(g) /\ host' = Answered(g, "isStorageLocked", k, res)
  BY <1>1, <1>5, <1>6
<1> HIDE DEF r, res
<1>8. CASE host' = WithFault(Paid)
  BY <1>0, <1>8, ReadyEnds
<1>9. CASE \E g : Ready(g) /\ host' = Answered(g, "isStorageLocked", k, res)
  <2>1. PICK g : Ready(g) /\ host' = Answered(g, "isStorageLocked", k, res)
    BY <1>9
  <2>2. /\ IsHost(g) /\ Quiet(host, g)
    BY <2>1 DEF Ready, Quiet
  <2>3. /\ Quiet(g, host')
        /\ host'.call = [f |-> "isStorageLocked", about |-> k, res |-> res]
    BY <2>1, <2>2, AnsweredQuiet
  <2>4. Quiet(host, host')
    BY <2>2, <2>3, QuietTwice
  <2>5. host'.call.f = "isStorageLocked" /\ host'.call.about = k /\ host'.call.res = res
    BY <2>3
  <2> QED
    BY <2>4, <2>5 DEF LockAsk, res
<1> QED
  BY <1>7, <1>8, <1>9

LEMMA LogOutcome ==
    ASSUME NEW g, Ready(g)
    PROVE  PlainStep(host, WriteLog(g)) \/ LogStep(host, WriteLog(g))
<1>1. CASE g.readOnly
  BY <1>1, ReadyEnds DEF WriteLog
<1>2. CASE ~g.readOnly
  <2>1. WriteLog(g) = [g EXCEPT !.logs = @ + 1]
    BY <1>2 DEF WriteLog
  <2>2. NoAnswer.f \notin Marked /\ ~host.readOnly
    BY <1>2, MarkedAre DEF NoAnswer, Ready, Quiet, SameAround
  <2>3. WriteLog(g).call.f \notin Marked
    BY <2>1, <2>2 DEF Ready, Quiet, IsHost, HostFields
  <2> QED
    BY <2>1, <2>2, <2>3 DEF Ready, LogStep, Unmarked, Quiet, IsHost, HostFields, SameAround, Caches
<1> QED
  BY <1>1, <1>2

\* An error of a function before it has done anything leaves the answer of the
\* function before.
LEMMA FaultPlain ==
    ASSUME IsHost(host)
    PROVE  PlainStep(host, WithFault(host))
  BY FaultQuiet DEF PlainStep, Unmarked

LEMMA LogsPlain ==
    ASSUME IsHost(host), writeLog \/ writeEventLog
    PROVE  PlainStep(host, host') \/ LogStep(host, host')
<1>0. Ready(Paid) /\ HashLen = 1 /\ PersistPerByte \in Nat /\ DataCopyPerByte \in Nat
  BY ReadyPaid, Sizes DEF HashLen
<1>1. CASE writeLog
  <2>1. PICK length \in CryptoLengths, topics \in CryptoLengths :
            LET h == UseGas(Paid, GasForBytes(PersistPerByte, topics * HashLen + length))
            IN  host' = WithFault(h) \/ host' = WriteLog(h)
    BY <1>1 DEF writeLog
  <2>2. topics * HashLen + length \in Int
    BY <1>0, ElrondAssumption
  <2>3. GasForBytes(PersistPerByte, topics * HashLen + length) \in Nat
    BY <1>0, <2>2, BytesCost
  <2>4. Ready(UseGas(Paid, GasForBytes(PersistPerByte, topics * HashLen + length)))
    BY <1>0, <2>3, ReadyGas
  <2> QED
    BY <2>1, <2>4, ReadyEnds, LogOutcome
<1>2. CASE writeEventLog
  <2>1. PICK length \in CryptoLengths, topics \in CryptoLengths :
            \/ host' = WithFault(host)
            \/ /\ ~(length < 0) /\ ~(topics < 0)
               /\ host' = WriteLog(UseGas(Paid, DataCopyPerByte * (topics + length)))
    BY <1>2 DEF writeEventLog, NotLoaded
  <2>2. topics \in Int /\ length \in Int
    BY ElrondAssumption
  <2>3. CASE host' = WithFault(host)
    BY <2>3, FaultPlain
  <2>4. CASE /\ ~(length < 0) /\ ~(topics < 0)
             /\ host' = WriteLog(UseGas(Paid, DataCopyPerByte * (topics + length)))
    <3>1. topics + length \in Nat
      BY <2>2, <2>4
    <3>2. DataCopyPerByte * (topics + length) \in Nat
      BY <1>0, <3>1
    <3>3. Ready(UseGas(Paid, DataCopyPerByte * (topics + length)))
      BY <1>0, <3>2, ReadyGas
    <3> QED
      BY <2>4, <3>3, LogOutcome
  <2> QED
    BY <2>1, <2>3, <2>4
<1> QED
  BY <1>1, <1>2

LEMMA ResultsPlain ==
    ASSUME IsHost(host), returnData \/ signalError
    PROVE  PlainStep(host, host')
<1>0. Ready(Paid) /\ PersistPerByte \in Nat /\ "userError" \in States
  BY ReadyPaid, Sizes DEF States
<1>1. CASE returnData
  <2>1. PICK data, length :
            /\ data \in MemoryStrings /\ length \in {-1, data.len}
            /\ LET h == UseGas(Paid, GasForBytes(PersistPerByte, length))
               IN host' = WithFault(h) \/ host' = Finish(h, data)
    BY <1>1 DEF returnData
  <2>2. IsData(data)
    BY <2>1, NumbersAssumption
  <2>3. length \in Int
    BY <2>1, <2>2, DataAre
  <2>4. GasForBytes(PersistPerByte, length) \in Nat
    BY <1>0, <2>3, BytesCost
  <2>5. Ready(UseGas(Paid, GasForBytes(PersistPerByte, length)))
    BY <1>0, <2>4, ReadyGas
  <2> QED
    BY <2>1, <2>5, ReadyEnds
<1>2. CASE signalError
  BY <1>0, <1>2, ReadyEnds DEF signalError
<1> QED
  BY <1>1, <1>2

LEMMA GasStopPlain ==
    ASSUME IsHost(host), OutOfGas
    PROVE  PlainStep(host, host')
  BY DEF OutOfGas, PlainStep, Unmarked, Quiet, IsHost, HostFields, SameAround, Caches, States

-----------------------------------------------------------------------------
(* Calls of other contracts.                                                *)

LEMMA FramesPushed ==
    ASSUME NEW fs, IsFrames(fs), NEW f, IsFrame(f)
    PROVE  LET gs == Append(fs, f)
           IN  /\ IsFrames(gs) /\ Len(gs) = Len(fs) + 1 /\ Len(fs) \in Nat
               /\ gs[Len(fs) + 1] = f /\ \A i \in 1 .. Len(fs) : gs[i] = fs[i]
<1> DEFINE S == {fs[i] : i \in 1 .. Len(fs)} \cup {f}
           gs == Append(fs, f)
<1>1. fs \in Seq(S) /\ f \in S /\ Len(fs) \in Nat
  <2>1. fs \in [1 .. Len(fs) -> S] /\ Len(fs) \in Nat
    BY DEF IsFrames
  <2> HIDE DEF S
  <2>2. fs \in Seq(S)
    BY <2>1, SeqDef
  <2> QED
    BY <2>1, <2>2 DEF S
<1> HIDE DEF S
<1>2. /\ gs \in Seq(S) /\ Len(gs) = Len(fs) + 1 /\ gs[Len(fs) + 1] = f
      /\ \A i \in 1 .. Len(fs) : gs[i] = fs[i]
  BY <1>1, AppendProperties
<1>3. gs = [i \in 1 .. Len(gs) |-> gs[i]]
  BY <1>2, LenProperties
<1>4. \A i \in 1 .. Len(gs) : IsFrame(gs[i])
  BY <1>1, <1>2 DEF IsFrames
<1> QED
  BY <1>1, <1>2, <1>3, <1>4 DEF IsFrames

LEMMA FramesPopped ==
    ASSUME NEW fs, IsFrames(fs), fs # <<>>
    PROVE  LET gs == SubSeq(fs, 1, Len(fs) - 1)
           IN  /\ IsFrames(gs) /\ Len(gs) = Len(fs) - 1 /\ Len(fs) \in Nat \ {0}
               /\ IsFrame(fs[Len(fs)])
               /\ \A i \in 1 .. Len(fs) - 1 : gs[i] = fs[i]
<1> DEFINE S == {fs[i] : i \in 1 .. Len(fs)}
           gs == SubSeq(fs, 1, Len(fs) - 1)
<1>1. fs \in Seq(S) /\ Len(fs) \in Nat
  <2>1. fs \in [1 .. Len(fs) -> S] /\ Len(fs) \in Nat
    BY DEF IsFrames
  <2> HIDE DEF S
  <2> QED
    BY <2>1, SeqDef
<1>2. Len(fs) # 0
  BY <1>1, EmptySeq
<1> HIDE DEF S
<1>3. /\ gs \in Seq(S) /\ Len(gs) = Len(fs) - 1
      /\ \A i \in 1 .. Len(fs) - 1 : gs[i] = fs[i]
  <2>1. 1 \in 1 .. Len(fs) + 1 /\ Len(fs) - 1 \in 1 - 1 .. Len(fs)
    BY <1>1, <1>2
  <2> QED
    BY <1>1, <1>2, <2>1, SubSeqProperties
<1>4. gs = [i \in 1 .. Len(gs) |-> gs[i]]
  BY <1>3, LenProperties
<1>5. \A i \in 1 .. Len(gs) : IsFrame(gs[i])
  BY <1>1, <1>2, <1>3 DEF IsFrames
<1>6. IsFrame(fs[Len(fs)])
  BY <1>1, <1>2 DEF IsFrames
<1> HIDE DEF gs
<1>7. IsFrames(gs)
  BY <1>1, <1>2, <1>3, <1>4, <1>5 DEF IsFrames
<1> QED
  BY <1>1, <1>2, <1>3, <1>6, <1>7 DEF gs

\* What a call of another contract, and the return from it, leave alone.  A callee on
\* its own context starts without the caller's refund, which is then lost.
SameStores(h, g) ==
    /\ g.contract = h.contract /\ g.chain = h.chain /\ g.node = h.node
    /\ g.refund <= h.refund /\ g.stored = h.stored /\ g.logs = h.logs
    /\ Caches(h, g)

Enters(h, g) ==
    /\ IsHost(g) /\ SameStores(h, g) /\ g.call = NoAnswer
    /\ \E f : /\ IsFrame(f) /\ f.readOnly = h.readOnly
              /\ g.frames = Append(h.frames, f)
              /\ g.readOnly = IF f.f = "executeReadOnly" THEN TRUE ELSE h.readOnly
Returns(h, g) ==
    /\ IsHost(g) /\ SameStores(h, g) /\ h.frames # <<>>
    /\ LET top == h.frames[Len(h.frames)]
       IN  /\ g.frames = SubSeq(h.frames, 1, Len(h.frames) - 1)
           /\ g.readOnly = ReadOnlyAfter(top, h.readOnly)
           /\ g.call.f = top.f

LEMMA FrameIs ==
    ASSUME IsHost(host), NEW f \in CallNames
    PROVE  /\ IsFrame(Frame(f)) /\ Frame(f).f = f /\ Frame(f).readOnly = host.readOnly
           /\ Frame(f).big = host.big /\ Frame(f).input = host.input
  BY DEF Frame, IsFrame, IsHost

\* The arguments a callee gets.
LEMMA ArgsPassed ==
    ASSUME NEW input, IsInput(input), NEW args, args \in {input.args, <<>>}, NEW caller
    PROVE  /\ IsInput([input EXCEPT !.args = args])
           /\ IsInput([[input EXCEPT !.args = args] EXCEPT !.caller = caller])
           /\ \A c : Short(c, input) =>
                 /\ Short(c, [input EXCEPT !.args = args])
                 /\ Short(c, [[input EXCEPT !.args = args] EXCEPT !.caller = caller])
<1>1. Len(args) \in Nat /\ \A i \in 1 .. Len(args) : IsData(args[i])
  <2>1. CASE args = input.args
    BY <2>1 DEF IsInput
  <2>2. CASE args = <<>>
    <3>1. Len(args) = 0
      BY <2>2
    <3> QED
      BY <3>1
  <2> QED
    BY <2>1, <2>2
<1> DEFINE a == [input EXCEPT !.args = args]
           b == [a EXCEPT !.caller = caller]
<1>2. DOMAIN input = {"args", "value", "esdt", "caller"}
  BY DEF IsInput
<1>3. /\ DOMAIN a = {"args", "value", "esdt", "caller"}
      /\ a.args = args /\ a.value = input.value /\ a.esdt = input.esdt
  BY <1>2
<1> HIDE DEF a
<1>4. /\ DOMAIN b = {"args", "value", "esdt", "caller"}
      /\ b.args = args /\ b.value = input.value /\ b.esdt = input.esdt
  BY <1>3
<1> HIDE DEF b
<1>5. IsInput(a) /\ IsInput(b)
  BY <1>1, <1>3, <1>4 DEF IsInput
<1>6. ASSUME NEW c, Short(c, input) PROVE Short(c, a) /\ Short(c, b)
  <2>1. CASE args = input.args
    BY <1>3, <1>4, <1>6, <2>1 DEF Short
  <2>2. CASE args = <<>>
    <3>1. Len(args) = 0
      BY <2>2
    <3> QED
      BY <1>3, <1>4, <3>1 DEF Short
  <2> QED
    BY <2>1, <2>2
<1> QED
  BY <1>5, <1>6 DEF a, b

\* The contexts g with the caller's state pushed and the callee's arguments.
CalleeOf(g, f, args) == [g EXCEPT !.frames = Append(@, Frame(f)), !.input.args = args]

LEMMA CalleeEntered ==
    ASSUME IsHost(host), NEW g, Ready(g), g.big = host.big, g.input = host.input,
           NEW f \in CallNames, NEW args, args \in {host.input.args, <<>>},
           NEW e, e = CalleeOf(g, f, args)
    PROVE  /\ f # "executeReadOnly" => Enters(host, SameContext(e)) /\ Enters(host, DestContext(e))
           /\ f = "executeReadOnly" => Enters(host, ReadOnlyContext(e))
<1> DEFINE fs == Append(host.frames, Frame(f))
           input == [host.input EXCEPT !.args = args]
           input2 == [input EXCEPT !.caller = host.address]
           none == [i \in {} |-> 0]
<1>1. /\ IsHost(g) /\ DOMAIN g = HostFields /\ SameStores(host, g)
      /\ g.frames = host.frames /\ g.call = NoAnswer /\ g.address = host.address
      /\ g.readOnly = host.readOnly
  BY DEF Ready, Quiet, SameAround, SameStores, IsHost
<1>b. host.refund \in Nat /\ g.refund \in Nat
  BY <1>1 DEF IsHost
<1>2. /\ IsFrame(Frame(f)) /\ Frame(f).f = f /\ Frame(f).readOnly = host.readOnly
      /\ Frame(f).big = host.big /\ Frame(f).input = host.input
  BY FrameIs
<1>3. /\ IsFrames(fs) /\ Len(fs) = Len(host.frames) + 1 /\ Len(host.frames) \in Nat
      /\ fs[Len(host.frames) + 1] = Frame(f)
      /\ \A i \in 1 .. Len(host.frames) : fs[i] = host.frames[i]
  BY <1>2, FramesPushed DEF IsHost
<1>4. /\ IsInput(input) /\ IsInput(input2)
      /\ Short(g.contract, host.input) => Short(g.contract, input) /\ Short(g.contract, input2)
  BY ArgsPassed DEF IsHost
<1>5. IsBig(none) /\ DOMAIN none = {}
  BY DEF IsBig
<1>a. ASSUME NEW passed \in {input, input2}, NEW big \in {g.big, none}
      PROVE  Sized(g.used, g.contract, passed, big, fs)
  <2>1. Sized(g.used, g.contract, host.input, host.big, host.frames)
    BY <1>1 DEF IsHost
  <2>2. Short(g.contract, passed)
    BY <1>4, <2>1 DEF Sized
  <2>3. AllAfforded(g.used, g.contract, big)
    BY <1>5, <2>1 DEF Sized, AllAfforded
  <2>4. ASSUME NEW k \in 1 .. Len(fs)
        PROVE  Short(g.contract, fs[k].input) /\ AllAfforded(g.used, g.contract, fs[k].big)
    <3>1. k \in 1 .. Len(host.frames) \/ k = Len(host.frames) + 1
      BY <1>3
    <3> HIDE DEF fs
    <3> QED
      BY <1>2, <1>3, <2>1, <3>1 DEF Sized
  <2> QED
    BY <2>2, <2>3, <2>4 DEF Sized
<1>6. e = [g EXCEPT !.frames = fs, !.input = input]
  BY <1>1 DEF HostFields, CalleeOf
<1> HIDE DEF fs, none, input2, input
<1>7. SameContext(e) = [g EXCEPT !.frames = fs, !.input = input2]
  BY <1>1, <1>6 DEF SameContext, HostFields, input2
<1>8. ReadOnlyContext(e)
          = [g EXCEPT !.frames = fs, !.input = input2, !.readOnly = TRUE]
  BY <1>7 DEF ReadOnlyContext
<1>9. DestContext(e) = [g EXCEPT !.frames = fs, !.input = input, !.address = Other, !.big = none,
                                 !.refund = 0, !.returnData = <<>>]
  BY <1>6 DEF DestContext, none
<1>10. ASSUME NEW g2, IsHost(g2), SameStores(g, g2), g2.call = g.call, g2.frames = fs,
              g2.readOnly = IF f = "executeReadOnly" THEN TRUE ELSE host.readOnly
       PROVE  Enters(host, g2)
  <2>0. g2.refund \in Nat
    BY <1>10 DEF IsHost
  <2>1. SameStores(host, g2)
    BY <1>1, <1>b, <1>10, <2>0 DEF SameStores, Caches
  <2> QED
    BY <1>1, <1>2, <1>10, <2>1 DEF Enters, fs
<1>11. ASSUME f # "executeReadOnly" PROVE Enters(host, SameContext(e))
  <2> DEFINE g2 == SameContext(e)
  <2>1. IsHost(g2) /\ SameStores(g, g2) /\ g2.call = g.call /\ g2.frames = fs
        /\ g2.readOnly = host.readOnly
    BY <1>1, <1>3, <1>4, <1>7, <1>a, <1>b DEF IsHost, HostFields, SameStores, Caches
  <2> QED
    BY <1>10, <1>11, <2>1
<1>12. ASSUME f # "executeReadOnly" PROVE Enters(host, DestContext(e))
  <2> DEFINE g2 == DestContext(e)
  <2>1. IsHost(g2) /\ SameStores(g, g2) /\ g2.call = g.call /\ g2.frames = fs
        /\ g2.readOnly = host.readOnly
    <3>0. g2 = [g EXCEPT !.frames = fs, !.input = input, !.address = Other, !.big = none,
                         !.refund = 0, !.returnData = <<>>]
      BY <1>9
    <3> HIDE DEF g2
    <3>1. Other \in StoredAccounts
      BY DEF StoredAccounts
    <3>2. SameStores(g, g2) /\ g2.call = g.call /\ g2.frames = fs /\ g2.readOnly = host.readOnly
      BY <1>1, <1>b, <3>0 DEF HostFields, SameStores, Caches
    <3>3. IsHost(g2)
      BY <1>1, <1>3, <1>4, <1>5, <1>a, <3>0, <3>1 DEF IsHost, HostFields
    <3> QED
      BY <3>2, <3>3
  <2> QED
    BY <1>10, <1>12, <2>1
<1>13. ASSUME f = "executeReadOnly"
       PROVE  Enters(host, ReadOnlyContext(e))
  <2> DEFINE g2 == ReadOnlyContext(e)
             mode == TRUE
  <2>1. mode \in BOOLEAN /\ g2 = [g EXCEPT !.frames = fs, !.input = input2, !.readOnly = mode]
    BY <1>8
  <2> HIDE DEF mode, g2
  <2>2. IsHost(g2) /\ SameStores(g, g2) /\ g2.call = g.call /\ g2.frames = fs
        /\ g2.readOnly = mode
    BY <1>1, <1>3, <1>4, <1>a, <1>b, <2>1 DEF IsHost, HostFields, SameStores, Caches
  <2>3. Enters(host, g2)
    BY <1>10, <1>13, <2>2 DEF mode
  <2> QED
    BY <2>3 DEF g2
<1> QED
  BY <1>11, <1>12, <1>13

LEMMA CallOutcome ==
    ASSUME IsHost(host), NEW f \in CallNames, NEW args, args \in {host.input.args, <<>>},
           NEW g, g = UseGas(Paid, DataCopyPerByte * Len(args)),
           NEW e, e = CalleeOf(g, f, args)
    PROVE  /\ PlainStep(host, WithFault(g)) /\ PlainStep(host, Answered(g, f, "call", 1))
           /\ f # "executeReadOnly" => Enters(host, SameContext(e)) /\ Enters(host, DestContext(e))
           /\ f = "executeReadOnly" => Enters(host, ReadOnlyContext(e))
<1>1. DataCopyPerByte * Len(args) \in Nat
  <2>1. CASE args = host.input.args
    <3>1. Len(args) \in Nat
      BY <2>1, InputIs
    <3> QED
      BY <3>1, Sizes
  <2>2. CASE args = <<>>
    <3>1. Len(args) = 0
      BY <2>2
    <3> QED
      BY <3>1, Sizes
  <2> QED
    BY <2>1, <2>2
<1>2. Ready(g) /\ g.big = host.big /\ g.input = host.input
  <2>1. IsHost(Paid) /\ Ready(Paid) /\ Paid.big = host.big /\ Paid.input = host.input
    BY ReadyPaid DEF Ready, Quiet
  <2> QED
    BY <1>1, <2>1, ReadyGas, UseGasQuiet
<1>3. f \notin Marked
  BY MarkedAre DEF CallNames
<1>4. PlainStep(host, WithFault(g)) /\ PlainStep(host, Answered(g, f, "call", 1))
  BY <1>2, <1>3, ReadyEnds
<1> QED
  BY <1>2, <1>4, CalleeEntered

LEMMA CallsEnter ==
    ASSUME IsHost(host),
           delegateExecution \/ executeReadOnly \/ executeOnDestContextByCaller
    PROVE  PlainStep(host, host') \/ Enters(host, host')
<1>1. CASE delegateExecution
  <2> DEFINE f == "delegateExecution"
  <2>1. PICK inMemory, argsInMemory \in BOOLEAN :
            LET r == extractIndirectContractCallArguments(inMemory, argsInMemory)
                e == CallInput(r, f)
            IN  \/ host' = WithFault(host) \/ host' = WithFault(r.host)
                \/ host' = Answered(r.host, f, "call", 1)
                \/ host' = SameContext(e)
    <3>1. PICK inMemory, argsInMemory, sameShard, builtIn, funds \in BOOLEAN :
              LET r == extractIndirectContractCallArguments(inMemory, argsInMemory)
                  e == CallInput(r, f)
              IN host' = IF r.err THEN WithFault(host)
                         ELSE IF ~sameShard THEN WithFault(r.host)
                         ELSE IF builtIn THEN Answered(r.host, f, "call", 1)
                         ELSE IF ~funds THEN WithFault(r.host)
                         ELSE SameContext(e)
      BY <1>1 DEF delegateExecution, Indirect
    <3> HIDE DEF f
    <3> QED
      BY <3>1
  <2> DEFINE r == extractIndirectContractCallArguments(inMemory, argsInMemory)
             args == r.args
             g == r.host
             e == CallInput(r, f)
  <2>2. /\ args \in {host.input.args, <<>>} /\ g = UseGas(Paid, DataCopyPerByte * Len(args))
        /\ e = CalleeOf(g, f, args)
    BY DEF extractIndirectContractCallArguments, CallInput, CalleeOf
  <2>3. f \in CallNames
    BY DEF CallNames
  <2>4. /\ PlainStep(host, WithFault(g)) /\ PlainStep(host, Answered(g, f, "call", 1))
        /\ f # "executeReadOnly" => Enters(host, SameContext(e)) /\ Enters(host, DestContext(e))
        /\ f = "executeReadOnly" => Enters(host, ReadOnlyContext(e))
    <3> HIDE DEF r, args, g, f, e
    <3> QED
      BY <2>2, <2>3, CallOutcome
  <2> QED
    BY <2>1, <2>4, FaultPlain
<1>2. CASE executeReadOnly
  <2> DEFINE f == "executeReadOnly"
  <2>1. PICK inMemory, argsInMemory \in BOOLEAN :
            LET r == extractIndirectContractCallArguments(inMemory, argsInMemory)
                e == CallInput(r, f)
            IN  \/ host' = WithFault(host) \/ host' = WithFault(r.host)
                \/ host' = Answered(r.host, f, "call", 1)
                \/ host' = ReadOnlyContext(e)
    <3>1. PICK inMemory, argsInMemory, sameShard, builtIn, funds \in BOOLEAN :
              LET r == extractIndirectContractCallArguments(inMemory, argsInMemory)
                  e == CallInput(r, f)
              IN host' = IF r.err THEN WithFault(host)
                         ELSE IF ~sameShard THEN WithFault(r.host)
                         ELSE IF builtIn THEN Answered(r.host, f, "call", 1)
                         ELSE IF ~funds THEN WithFault(r.host)
                         ELSE ReadOnlyContext(e)
      BY <1>2 DEF executeReadOnly, Indirect
    <3> HIDE DEF f
    <3> QED
      BY <3>1
  <2> DEFINE r == extractIndirectContractCallArguments(inMemory, argsInMemory)
             args == r.args
             g == r.host
             e == CallInput(r, f)
  <2>2. /\ args \in {host.input.args, <<>>} /\ g = UseGas(Paid, DataCopyPerByte * Len(args))
        /\ e = CalleeOf(g, f, args)
    BY DEF extractIndirectContractCallArguments, CallInput, CalleeOf
  <2>3. f \in CallNames
    BY DEF CallNames
  <2>4. /\ PlainStep(host, WithFault(g)) /\ PlainStep(host, Answered(g, f, "call", 1))
        /\ f # "executeReadOnly" => Enters(host, SameContext(e)) /\ Enters(host, DestContext(e))
        /\ f = "executeReadOnly" => Enters(host, ReadOnlyContext(e))
    <3> HIDE DEF r, args, g, f, e
    <3> QED
      BY <2>2, <2>3, CallOutcome
  <2> QED
    BY <2>1, <2>4, FaultPlain
<1>3. CASE executeOnDestContextByCaller
  <2> DEFINE f == "executeOnDestContextByCaller"
  <2>1. PICK inMemory, argsInMemory \in BOOLEAN :
            LET r == extractIndirectContractCallArguments(inMemory, argsInMemory)
                e == CallInput(r, f)
            IN  \/ host' = WithFault(host) \/ host' = WithFault(r.host)
                \/ host' = Answered(r.host, f, "call", 1)
                \/ host' = DestContext(e)
    <3>1. PICK inMemory, argsInMemory, sameShard, builtIn, funds \in BOOLEAN :
              LET r == extractIndirectContractCallArguments(inMemory, argsInMemory)
                  e == CallInput(r, f)
              IN host' = IF r.err THEN WithFault(host)
                         ELSE IF ~sameShard THEN WithFault(r.host)
                         ELSE IF builtIn THEN Answered(r.host, f, "call", 1)
                         ELSE IF ~funds THEN WithFault(r.host)
                         ELSE DestContext(e)
      BY <1>3 DEF executeOnDestContextByCaller, Indirect
    <3> HIDE DEF f
    <3> QED
      BY <3>1
  <2> DEFINE r == extractIndirectContractCallArguments(inMemory, argsInMemory)
             args == r.args
             g == r.host
             e == CallInput(r, f)
  <2>2. /\ args \in {host.input.args, <<>>} /\ g = UseGas(Paid, DataCopyPerByte * Len(args))
        /\ e = CalleeOf(g, f, args)
    BY DEF extractIndirectContractCallArguments, CallInput, CalleeOf
  <2>3. f \in CallNames
    BY DEF CallNames
  <2>4. /\ PlainStep(host, WithFault(g)) /\ PlainStep(host, Answered(g, f, "call", 1))
        /\ f # "executeReadOnly" => Enters(host, SameContext(e)) /\ Enters(host, DestContext(e))
        /\ f = "executeReadOnly" => Enters(host, ReadOnlyContext(e))
    <3> HIDE DEF r, args, g, f, e
    <3> QED
      BY <2>2, <2>3, CallOutcome
  <2> QED
    BY <2>1, <2>4, FaultPlain
<1> QED
  BY <1>1, <1>2, <1>3

LEMMA CalleeReturns ==
    ASSUME IsHost(host), ReturnFromCall
    PROVE  Returns(host, host')
<1> DEFINE top == host.frames[Len(host.frames)]
           fs == SubSeq(host.frames, 1, Len(host.frames) - 1)
           big == IF top.f = "executeOnDestContextByCaller" THEN top.big ELSE host.big
           mode == ReadOnlyAfter(top, host.readOnly)
           results == IF top.f = "executeOnDestContextByCaller"
                      THEN top.returnData \o host.returnData ELSE host.returnData
           h == [host EXCEPT !.frames = fs, !.address = top.address, !.input = top.input,
                             !.readOnly = mode, !.big = big, !.returnData = results]
<1>0. DOMAIN host = HostFields
  BY DEF IsHost
<1>1. host.frames # <<>> /\ host' = Answered(h, top.f, "call", 0)
  BY <1>0 DEF ReturnFromCall, HostFields
<1>2. IsFrames(fs) /\ IsFrame(top)
  BY <1>1, FramesPopped DEF IsHost
<1>3. IsBig(big) /\ mode \in BOOLEAN /\ top.address \in StoredAccounts /\ IsInput(top.input)
  BY <1>2 DEF IsFrame, ReadOnlyAfter, IsHost
<1>a. Sized(host.used, host.contract, top.input, big, fs)
  <2>1. Sized(host.used, host.contract, host.input, host.big, host.frames)
    BY DEF IsHost
  <2>2. /\ Len(fs) = Len(host.frames) - 1 /\ Len(host.frames) \in Nat \ {0}
        /\ \A i \in 1 .. Len(host.frames) - 1 : fs[i] = host.frames[i]
    BY <1>1, FramesPopped DEF IsHost
  <2>3. Len(host.frames) \in 1 .. Len(host.frames)
    BY <2>2
  <2>4. Short(host.contract, top.input) /\ AllAfforded(host.used, host.contract, top.big)
    BY <2>1, <2>3 DEF Sized
  <2>5. AllAfforded(host.used, host.contract, big)
    BY <2>1, <2>4 DEF Sized
  <2> HIDE DEF fs, big, top
  <2>6. \A k \in 1 .. Len(fs) : Short(host.contract, fs[k].input)
                               /\ AllAfforded(host.used, host.contract, fs[k].big)
    BY <2>1, <2>2 DEF Sized
  <2> QED
    BY <2>4, <2>5, <2>6 DEF Sized
<1> HIDE DEF fs, big, mode, top, results
<1>4. IsHost(h) /\ SameStores(host, h) /\ h.frames = fs /\ h.readOnly = mode
  BY <1>2, <1>3, <1>a DEF IsHost, HostFields, SameStores, Caches
<1> HIDE DEF h
<1>5. /\ Quiet(h, host') /\ host'.call = [f |-> top.f, about |-> "call", res |-> 0]
  BY <1>1, <1>4, AnsweredQuiet
<1>6. host'.call.f = top.f
  BY <1>5
<1>7. /\ IsHost(host') /\ SameStores(host, host') /\ host'.frames = fs
      /\ host'.readOnly = mode
  BY <1>4, <1>5 DEF Quiet, SameAround, SameStores, Caches
<1> QED
  BY <1>1, <1>6, <1>7 DEF Returns, fs, mode, top

-----------------------------------------------------------------------------
(* The inductive invariant.  What the contract has noted of its stores is    *)
(* what its storage holds, in this transaction (current, through the cache)  *)
(* and at its start (saved, at the Node): a later read sees it, whichever    *)
(* transaction it is part of.  The read-only mode is on only inside an       *)
(* executeReadOnly, and inside one as long as none has been left; each frame *)
(* keeps the mode of its caller, of which the same holds.  Under its own keys *)
(* the Node has what built-in functions wrote: no commit writes over it, and  *)
(* a transaction that fails goes back to what the last one left.             *)

NumberIs(n, b) ==
    \/ n = <<>>
    \/ \E x \in Int64s : n = <<"unsigned", x>> /\ b = EncodeUnsigned(x)
    \/ \E x \in Int64s : n = <<"signed", x>> /\ b = EncodeSigned(x)
Matches(note, s) ==
    /\ DOMAIN note = {"numbers", "locks"}
    /\ DOMAIN note.numbers = NumberKeys /\ DOMAIN note.locks = ContractKeys
    /\ \A k \in NumberKeys :
          /\ NumberIs(note.numbers[k], s[k])
          /\ isElrondReservedKey(k) => note.numbers[k] = <<>>
    /\ \A k \in ContractKeys :
          /\ note.locks[k] \in Int64s
          /\ note.locks[k] >= 0 => s[CustomStorageKey(k)].val = note.locks[k]
          /\ isElrondReservedKey(k) => note.locks[k] = 0
OwnStorage(h) == [k \in AllKeys |-> Held(h, Self, k)]

\* An executeReadOnly among the first n frames.
ReadOnlyUpTo(h, n) == \E i \in 1 .. n : h.frames[i].f = "executeReadOnly"
ModeIs(h, n, readOnly, left) ==
    /\ readOnly => ReadOnlyUpTo(h, n)
    /\ ReadOnlyUpTo(h, n) /\ ~left => readOnly
ModesAre(h, left) ==
    /\ ModeIs(h, Len(h.frames), h.readOnly, left)
    /\ \A i \in 1 .. Len(h.frames) : ModeIs(h, i - 1, h.frames[i].readOnly, left)

\* A history w of built-in functions, against the Node.
NodeKept(h, w) ==
    /\ DOMAIN w = {"current", "saved"}
    /\ DOMAIN w.current = StoredAccounts /\ DOMAIN w.saved = StoredAccounts
    /\ \A a \in StoredAccounts :
          h.node[a][NodeKey] = w.current[a] /\ h.chain.reserved[a] = w.saved[a]

ViewFields == {"current", "saved", "left", "nodeKeys"}
EEIInv ==
    /\ IsHost(host)
    /\ DOMAIN view = ViewFields /\ view.left \in BOOLEAN
    /\ NodeKept(host, view.nodeKeys)
    /\ Matches(view.current, OwnStorage(host))
    /\ Matches(view.saved, host.node[Self])
    /\ ModesAre(host, view.left)
    /\ RefundBacked /\ LockReported /\ ReservedReadsFresh

-----------------------------------------------------------------------------
(* What a step of a contract can be.                                        *)

\* Nothing is stored, by the contract or by the Node.
StoresNothing(h, g) ==
    /\ IsHost(g) /\ g.contract = h.contract /\ g.chain = h.chain /\ g.node = h.node
    /\ g.refund <= h.refund /\ g.stored = h.stored
    /\ Caches(h, g)
StepOfContract ==
    \/ BigIntImports \/ BigIntArithmeticImports \/ SmallIntImports \/ CryptoImports
    \/ CallImports \/ StorageImports \/ BlockImports
    \/ ReturnFromCall \/ OutOfGas

LEMMA StoresWhileRunning ==
    ASSUME \/ smallIntStorageStoreUnsigned \/ smallIntStorageStoreSigned
           \/ bigIntStorageStoreUnsigned \/ storageStore \/ setStorageLock \/ clearStorageLock
    PROVE  host.state = "running"
  BY DEF smallIntStorageStoreUnsigned, smallIntStorageStoreSigned, SmallStore,
         bigIntStorageStoreUnsigned, storageStore, setStorageLock, clearStorageLock,
         SetsLock, Calls

LEMMA StepKinds ==
    ASSUME IsHost(host), StepOfContract
    PROVE  \/ PlainStep(host, host') \/ LogStep(host, host')
           \/ AddressLoad(host, host') \/ LockAsk(host, host')
           \/ Enters(host, host') \/ Returns(host, host')
           \/ /\ host.state = "running"
              /\ NumberStore(host, host') \/ PlainStore(host, host') \/ LockStore(host, host')
<1>1. CASE BigIntImports \/ BigIntArithmeticImports
  BY <1>1, BigIntPlain, BigIntArithmeticPlain, PlainStores, StoresWhileRunning
<1>2. CASE SmallIntImports
  BY <1>2, SmallIntPlain, SmallStores, StoresWhileRunning
<1>3. CASE CryptoImports \/ CallImports \/ BlockImports
  BY <1>3, CryptoPlain, CallPlain, BlockPlain
<1>4. CASE ReturnFromCall \/ OutOfGas
  BY <1>4, CalleeReturns, GasStopPlain
<1>5. CASE StorageImports
  <2>1. CASE storageStore \/ setStorageLock \/ clearStorageLock
    BY <2>1, PlainStores, LockStores, StoresWhileRunning
  <2>2. CASE storageLoadLength \/ storageLoad \/ getStorageLock
    BY <2>2, LoadsPlain
  <2>3. CASE storageLoadFromAddress
    BY <2>3, AddressLoads
  <2>4. CASE isStorageLocked
    BY <2>4, LockAsks
  <2>5. CASE writeLog \/ writeEventLog
    BY <2>5, LogsPlain
  <2>6. CASE returnData \/ signalError
    BY <2>6, ResultsPlain
  <2>7. CASE executeReadOnly \/ delegateExecution \/ executeOnDestContextByCaller
    BY <2>7, CallsEnter
  <2> QED
    BY <1>5, <2>1, <2>2, <2>3, <2>4, <2>5, <2>6, <2>7 DEF StorageImports
<1> QED
  BY <1>1, <1>2, <1>3, <1>4, <1>5 DEF StepOfContract

LEMMA NothingStored ==
    ASSUME NEW h, IsHost(h), NEW g,
           \/ PlainStep(h, g) \/ LogStep(h, g) \/ AddressLoad(h, g) \/ LockAsk(h, g)
           \/ Enters(h, g) \/ Returns(h, g)
    PROVE  StoresNothing(h, g)
<1>1. h.refund \in Nat
  BY DEF IsHost
<1>2. CASE PlainStep(h, g) \/ LogStep(h, g) \/ AddressLoad(h, g) \/ LockAsk(h, g)
  <2>1. /\ IsHost(g) /\ SameAround(h, g) /\ Caches(h, g)
        /\ g.refund = h.refund /\ g.stored = h.stored
    BY <1>2 DEF PlainStep, Quiet, LogStep, AddressLoad, LockAsk
  <2>2. g.refund <= h.refund
    BY <1>1, <2>1
  <2> QED
    BY <2>1, <2>2 DEF SameAround, StoresNothing
<1>3. CASE Enters(h, g) \/ Returns(h, g)
  BY <1>3 DEF Enters, Returns, SameStores, StoresNothing
<1> QED
  BY <1>2, <1>3

LEMMA NothingStoredSame ==
    ASSUME NEW h, NEW g, StoresNothing(h, g)
    PROVE  /\ \A a \in StoredAccounts, k \in AllKeys : Held(g, a, k) = Held(h, a, k)
           /\ OwnStorage(g) = OwnStorage(h)
<1>1. ASSUME NEW a \in StoredAccounts, NEW k \in AllKeys PROVE Held(g, a, k) = Held(h, a, k)
  BY DEF StoresNothing, Caches, Held
<1>2. Self \in StoredAccounts
  BY DEF StoredAccounts
<1> QED
  BY <1>1, <1>2 DEF OwnStorage

LEMMA NothingNoted ==
    ASSUME NEW h, NEW g, NEW v,
           \/ PlainStep(h, g) \/ LogStep(h, g) \/ AddressLoad(h, g) \/ LockAsk(h, g)
           \/ Enters(h, g) \/ (Returns(h, g) /\ IsHost(h))
    PROVE  Noted(v, g) = v
<1>1. CASE g.call.f \notin StoreNames
  BY <1>1 DEF Noted, StoreNames
<1>2. CASE PlainStep(h, g) \/ LogStep(h, g)
  <2>1. g.call.f \notin StoreNames \/ g.state # "running" \/ g.readOnly
    BY <1>2 DEF PlainStep, LogStep, Unmarked, Marked
  <2> QED
    BY <1>1, <2>1 DEF Noted
<1>3. CASE AddressLoad(h, g) \/ LockAsk(h, g)
  <2>1. g.call.f \in {"storageLoadFromAddress", "isStorageLocked"}
    BY <1>3 DEF AddressLoad, LockAsk
  <2> QED
    BY <1>1, <2>1 DEF StoreNames, UnsignedStores, SignedStores, LockSetters
<1>4. CASE Enters(h, g)
  <2>1. g.call.f = "none"
    BY <1>4 DEF Enters, NoAnswer
  <2> QED
    BY <1>1, <2>1 DEF StoreNames, UnsignedStores, SignedStores, LockSetters
<1>5. CASE Returns(h, g) /\ IsHost(h)
  <2>1. g.call.f \in CallNames
    BY <1>5, FramesPopped DEF Returns, IsHost, IsFrame
  <2> QED
    BY <1>1, <2>1 DEF CallNames, StoreNames, UnsignedStores, SignedStores, LockSetters
<1> QED
  BY <1>2, <1>3, <1>4, <1>5

-----------------------------------------------------------------------------
(* The read-only mode.                                                      *)

LEMMA InReadOnlyIs ==
    ASSUME NEW h, IsHost(h)
    PROVE  /\ Len(h.frames) \in Nat
           /\ InReadOnly(h) <=> ReadOnlyUpTo(h, Len(h.frames))
  BY DEF IsHost, IsFrames, InReadOnly, ReadOnlyUpTo

LEMMA ModesStay ==
    ASSUME NEW h, IsHost(h), NEW g, IsHost(g), NEW left, NEW now, ModesAre(h, left),
           g.frames = h.frames, g.readOnly = h.readOnly,
           InReadOnly(g) /\ left => now
    PROVE  ModesAre(g, now)
<1>1. \A n \in Int : ReadOnlyUpTo(g, n) <=> ReadOnlyUpTo(h, n)
  BY DEF ReadOnlyUpTo
<1>2. Len(g.frames) \in Nat /\ \A n \in 0 .. Len(g.frames) : ReadOnlyUpTo(g, n) => InReadOnly(g)
  BY InReadOnlyIs DEF ReadOnlyUpTo
<1>3. ASSUME NEW n \in 0 .. Len(g.frames), NEW readOnly, ModeIs(h, n, readOnly, left)
      PROVE  ModeIs(g, n, readOnly, now)
  BY <1>1, <1>2, <1>3 DEF ModeIs
<1>4. ModeIs(g, Len(g.frames), g.readOnly, now)
  BY <1>2, <1>3 DEF ModesAre
<1>5. ASSUME NEW i \in 1 .. Len(g.frames) PROVE ModeIs(g, i - 1, g.frames[i].readOnly, now)
  <2>1. i - 1 \in 0 .. Len(g.frames) /\ ModeIs(h, i - 1, h.frames[i].readOnly, left)
    BY <1>2 DEF ModesAre
  <2> QED
    BY <1>3, <2>1
<1> QED
  BY <1>4, <1>5 DEF ModesAre

LEMMA ModesEntering ==
    ASSUME NEW h, IsHost(h), NEW g, Enters(h, g), NEW left, NEW now, ModesAre(h, left),
           InReadOnly(g) /\ left => now
    PROVE  ModesAre(g, now)
<1> DEFINE n == Len(h.frames)
<1>1. PICK f : /\ IsFrame(f) /\ f.readOnly = h.readOnly /\ g.frames = Append(h.frames, f)
               /\ g.readOnly = IF f.f = "executeReadOnly" THEN TRUE ELSE h.readOnly
  BY DEF Enters
<1>2. /\ n \in Nat /\ Len(g.frames) = n + 1 /\ g.frames[n + 1] = f
      /\ \A i \in 1 .. n : g.frames[i] = h.frames[i]
  BY <1>1, FramesPushed DEF IsHost
<1>3. IsHost(g)
  BY DEF Enters
<1> HIDE DEF n
<1>4. \A m \in 0 .. n : ReadOnlyUpTo(g, m) <=> ReadOnlyUpTo(h, m)
  BY <1>2 DEF ReadOnlyUpTo
<1>5. \A m \in 0 .. n + 1 : ReadOnlyUpTo(g, m) => InReadOnly(g)
  BY <1>2, <1>3, InReadOnlyIs DEF ReadOnlyUpTo
<1>6. ASSUME NEW m \in 0 .. n, NEW readOnly, ModeIs(h, m, readOnly, left)
      PROVE  ModeIs(g, m, readOnly, now)
  <2>1. m \in 0 .. n + 1
    BY <1>2
  <2> QED
    BY <1>4, <1>5, <1>6, <2>1 DEF ModeIs
<1>7. ModeIs(h, n, h.readOnly, left)
  BY DEF ModesAre, n
<1>8. ModeIs(g, n + 1, g.readOnly, now)
  <2>1. ReadOnlyUpTo(g, n + 1) <=> f.f = "executeReadOnly" \/ ReadOnlyUpTo(g, n)
    BY <1>2 DEF ReadOnlyUpTo
  <2>2. ModeIs(g, n, h.readOnly, now)
    BY <1>2, <1>6, <1>7
  <2> QED
    BY <1>1, <2>1, <2>2 DEF ModeIs
<1>9. ASSUME NEW i \in 1 .. n + 1 PROVE ModeIs(g, i - 1, g.frames[i].readOnly, now)
  <2>1. CASE i = n + 1
    <3>1. i - 1 = n /\ n \in 0 .. n
      BY <1>2, <2>1
    <3> QED
      BY <1>1, <1>2, <1>6, <1>7, <2>1, <3>1
  <2>2. CASE i # n + 1
    <3>1. i \in 1 .. n /\ i - 1 \in 0 .. n
      BY <1>2, <2>2
    <3>2. ModeIs(h, i - 1, h.frames[i].readOnly, left)
      BY <3>1 DEF ModesAre, n
    <3> QED
      BY <1>2, <1>6, <3>1, <3>2
  <2> QED
    BY <2>1, <2>2
<1> QED
  BY <1>2, <1>8, <1>9 DEF ModesAre

LEMMA ModesReturning ==
    ASSUME NEW h, IsHost(h), NEW g, Returns(h, g), NEW left, NEW now, ModesAre(h, left),
           InReadOnly(g)
               /\ (left \/ h.frames[Len(h.frames)].f = "executeReadOnly") => now
    PROVE  ModesAre(g, now)
<1> DEFINE n == Len(h.frames)
           top == h.frames[n]
<1>1. /\ IsHost(g) /\ h.frames # <<>> /\ g.frames = SubSeq(h.frames, 1, n - 1)
      /\ g.readOnly = ReadOnlyAfter(top, h.readOnly)
  BY DEF Returns
<1>2. /\ n \in Nat \ {0} /\ Len(g.frames) = n - 1
      /\ \A i \in 1 .. n - 1 : g.frames[i] = h.frames[i]
  BY <1>1, FramesPopped DEF IsHost
<1> HIDE DEF n, top
<1>4. \A m \in 0 .. n - 1 : ReadOnlyUpTo(g, m) <=> ReadOnlyUpTo(h, m)
  BY <1>2 DEF ReadOnlyUpTo
<1>5. \A m \in 0 .. n - 1 : ReadOnlyUpTo(g, m) => InReadOnly(g)
  <2>1. InReadOnly(g) <=> ReadOnlyUpTo(g, n - 1)
    BY <1>1, <1>2, InReadOnlyIs
  <2> QED
    BY <1>2, <2>1 DEF ReadOnlyUpTo
<1>6. ASSUME NEW m \in 0 .. n - 1, NEW readOnly, ModeIs(h, m, readOnly, left)
      PROVE  ModeIs(g, m, readOnly, now)
  BY <1>4, <1>5, <1>6 DEF ModeIs
<1>7. ModeIs(g, n - 1, g.readOnly, now)
  <2>1. n - 1 \in 0 .. n - 1 /\ ModeIs(h, n - 1, top.readOnly, left)
    BY <1>2 DEF ModesAre, n, top
  <2>2. CASE top.f # "executeReadOnly"
    <3>1. g.readOnly = top.readOnly
      BY <1>1, <2>2 DEF ReadOnlyAfter
    <3> QED
      BY <1>6, <2>1, <3>1
  <2>3. CASE top.f = "executeReadOnly"
    <3>1. g.readOnly = FALSE
      BY <1>1, <2>3 DEF ReadOnlyAfter
    <3>2. InReadOnly(g) => now
      BY <2>3 DEF n, top
    <3> QED
      BY <1>5, <2>1, <3>1, <3>2 DEF ModeIs
  <2> QED
    BY <2>2, <2>3
<1>8. ASSUME NEW i \in 1 .. n - 1 PROVE ModeIs(g, i - 1, g.frames[i].readOnly, now)
  <2>1. i - 1 \in 0 .. n - 1 /\ i \in 1 .. n
    BY <1>2
  <2>2. ModeIs(h, i - 1, h.frames[i].readOnly, left)
    BY <2>1 DEF ModesAre, n
  <2> QED
    BY <1>2, <1>6, <2>1, <2>2
<1> QED
  BY <1>2, <1>7, <1>8 DEF ModesAre

-----------------------------------------------------------------------------
(* Refunds.                                                                 *)

\* What an image of a finite set has is finite; f lists it.
LEMMA ListedFinite ==
    ASSUME NEW S, IsFiniteSet(S), NEW f, DOMAIN f = S
    PROVE  IsFiniteSet({f[x] : x \in S})
<1> DEFINE T == {f[x] : x \in S}
           g == [x \in S |-> f[x]]
<1>1. g \in Surjection(S, T)
  BY DEF Surjection
<1> HIDE DEF T, g
<1>2. IsFiniteSet(T)
  BY <1>1, FS_Surjection
<1> QED
  BY <1>2 DEF T

LEMMA KeysFinite == IsFiniteSet(StoredAccounts \X OwnKeys)
<1> DEFINE f == [n \in Plain |-> Key(NoPrefix, n, FALSE)]
           g == [k \in BaseKeys |-> CustomStorageKey(k)]
           special == {Key(ElrondPrefix, "", FALSE), Key(ProtectedStoragePrefix, "", FALSE)}
           Accounts == {Self, Other}
<1>1. IsFiniteSet({f[n] : n \in Plain})
  <2>1. IsFiniteSet(Plain) /\ DOMAIN f = Plain
    BY EEIAssumption
  <2> HIDE DEF f
  <2> QED
    BY <2>1, ListedFinite
<1>2. ASSUME NEW a, NEW b PROVE IsFiniteSet({a, b})
  <2>1. {a, b} = {a} \cup {b} /\ IsFiniteSet({a}) /\ IsFiniteSet({b})
    BY FS_Singleton
  <2>2. IsFiniteSet({a} \cup {b})
    BY <2>1, FS_Union
  <2> QED
    BY <2>1, <2>2
<1>3. IsFiniteSet(BaseKeys)
  <2>1. BaseKeys = {f[n] : n \in Plain} \cup special
    BY DEF BaseKeys, NodeKey
  <2>2. IsFiniteSet(special)
    BY <1>2
  <2> QED
    BY <1>1, <2>1, <2>2, FS_Union
<1>4. IsFiniteSet({g[k] : k \in BaseKeys})
  <2>1. DOMAIN g = BaseKeys
    OBVIOUS
  <2> HIDE DEF g
  <2> QED
    BY <1>3, <2>1, ListedFinite
<1>5. IsFiniteSet(AllKeys)
  <2>1. AllKeys = BaseKeys \cup {g[k] : k \in BaseKeys}
    BY DEF AllKeys
  <2> QED
    BY <1>3, <1>4, <2>1, FS_Union
<1>6. IsFiniteSet(OwnKeys)
  BY <1>5, FS_Subset DEF OwnKeys
<1>7. IsFiniteSet(StoredAccounts)
  BY <1>2 DEF StoredAccounts
<1> QED
  BY <1>6, <1>7, FS_Product

\* The lengths of what the keys hold, and of what the Node has under them.
Pairs == StoredAccounts \X OwnKeys
HeldLengths(h) == [p \in Pairs |-> Held(h, p[1], p[2]).len]
NodeLengths(h) == [p \in Pairs |-> h.node[p[1]][p[2]].len]
Total(f) == SumFunctionOnSet(f, Pairs)
Backed(h) ==
    h.refund + ReleasePerByte * Total(HeldLengths(h))
        <= ReleasePerByte * Total(NodeLengths(h)) + h.stored

LEMMA RefundIs ==
    /\ RefundBacked <=> Backed(host)
    /\ RefundBacked' <=> Backed(host')
<1>1. RefundBacked <=> Backed(host)
  BY DEF RefundBacked, LengthOf, SumFunction, Backed, Total, HeldLengths, NodeLengths, Pairs
<1>2. RefundBacked' <=> Backed(host')
  BY DEF RefundBacked, LengthOf, SumFunction, Backed, Total, HeldLengths, NodeLengths, Pairs
<1> QED
  BY <1>1, <1>2

LEMMA PairsAre ==
    \A p \in Pairs : /\ p[1] \in StoredAccounts /\ p[2] \in AllKeys
                     /\ ~isElrondReservedKey(p[2])
  BY DEF Pairs, OwnKeys

LEMMA LengthsAre ==
    ASSUME NEW h, IsHost(h)
    PROVE  /\ \A p \in Pairs : HeldLengths(h)[p] \in Nat /\ NodeLengths(h)[p] \in Nat
           /\ Total(HeldLengths(h)) \in Int /\ Total(NodeLengths(h)) \in Int
<1>1. ASSUME NEW p \in Pairs PROVE HeldLengths(h)[p] \in Nat /\ NodeLengths(h)[p] \in Nat
  <2>1. IsData(Held(h, p[1], p[2])) /\ IsData(h.node[p[1]][p[2]])
    BY PairsAre, HeldData DEF IsHost, HoldsData
  <2> QED
    BY <2>1, DataAre DEF HeldLengths, NodeLengths
<1>2. IsFiniteSet(Pairs)
  BY KeysFinite DEF Pairs
<1> QED
  BY <1>1, <1>2, SumIsInt DEF Total

LEMMA TotalSame ==
    ASSUME NEW f, NEW g, \A p \in Pairs : f[p] \in Nat /\ g[p] = f[p]
    PROVE  Total(g) = Total(f)
<1>1. IsFiniteSet(Pairs) /\ \A p \in Pairs : f[p] \in Int /\ g[p] = f[p]
  BY KeysFinite DEF Pairs
<1> QED
  BY <1>1, SumSame DEF Total

LEMMA TotalChanged ==
    ASSUME NEW f, NEW g, NEW x \in Pairs, \A p \in Pairs : f[p] \in Int /\ g[p] \in Int,
           \A p \in Pairs \ {x} : g[p] = f[p]
    PROVE  Total(g) = Total(f) + g[x] - f[x]
<1>1. IsFiniteSet(Pairs) /\ Pairs \cup {x} = Pairs
  BY KeysFinite DEF Pairs
<1>2. SumFunctionOnSet(g, Pairs \cup {x}) = SumFunctionOnSet(f, Pairs) + g[x] - f[x]
  <2>1. /\ \A p \in Pairs : f[p] \in Int
        /\ \A p \in Pairs \cup {x} : g[p] \in Int
    OBVIOUS
  <2> QED
    BY <1>1, <2>1, SumChange
<1> QED
  BY <1>1, <1>2 DEF Total

LEMMA BackedWhenSame ==
    ASSUME NEW h, IsHost(h), NEW g, IsHost(g), Backed(h),
           g.refund <= h.refund, g.stored = h.stored,
           \A p \in Pairs : /\ Held(g, p[1], p[2]) = Held(h, p[1], p[2])
                            /\ g.node[p[1]][p[2]] = h.node[p[1]][p[2]]
    PROVE  Backed(g)
<1>1. /\ \A p \in Pairs : HeldLengths(h)[p] \in Nat /\ HeldLengths(g)[p] = HeldLengths(h)[p]
      /\ \A p \in Pairs : NodeLengths(h)[p] \in Nat /\ NodeLengths(g)[p] = NodeLengths(h)[p]
  BY LengthsAre DEF HeldLengths, NodeLengths
<1>2. Total(HeldLengths(g)) = Total(HeldLengths(h)) /\ Total(NodeLengths(g)) = Total(NodeLengths(h))
  BY <1>1, TotalSame
<1>3. /\ ReleasePerByte * Total(HeldLengths(h)) \in Int /\ h.refund \in Nat /\ g.refund \in Nat
      /\ ReleasePerByte * Total(NodeLengths(h)) \in Int /\ h.stored \in Nat
  BY LengthsAre, Sizes DEF IsHost
<1> QED
  BY <1>2, <1>3 DEF Backed

LEMMA BackedAtStart ==
    ASSUME NEW g, IsHost(g), g.refund = 0, g.stored = 0,
           \A a \in StoredAccounts, k \in AllKeys : Held(g, a, k) = g.node[a][k]
    PROVE  Backed(g)
<1>1. \A p \in Pairs : NodeLengths(g)[p] \in Nat /\ HeldLengths(g)[p] = NodeLengths(g)[p]
  BY LengthsAre, PairsAre DEF HeldLengths, NodeLengths
<1>2. Total(HeldLengths(g)) = Total(NodeLengths(g))
  BY <1>1, TotalSame
<1>3. Total(NodeLengths(g)) \in Int /\ ReleasePerByte \in Nat
  BY LengthsAre, Sizes
<1>4. ReleasePerByte * Total(NodeLengths(g)) \in Int
  BY <1>3
<1> QED
  BY <1>2, <1>4 DEF Backed

LEMMA BackedWhenWritten ==
    ASSUME NEW h, IsHost(h), NEW g, NEW k \in AllKeys, NEW v, Writes(h, g, k, v), Backed(h)
    PROVE  Backed(g)
<1> DEFINE x == <<h.address, k>>
           old == Held(h, h.address, k)
           R == ReleasePerByte
           A == Total(HeldLengths(h))
           B == Total(HeldLengths(g))
           N == Total(NodeLengths(h))
<1>1. h.address \in StoredAccounts /\ x \in Pairs /\ x[1] = h.address /\ x[2] = k
  BY DEF IsHost, Writes, Pairs, OwnKeys
<1>2. IsHost(g) /\ g.node = h.node
  BY DEF Writes, SameAround
<1>3. HeldLengths(h)[x] = old.len /\ HeldLengths(g)[x] = v.len
  BY <1>1 DEF HeldLengths, Writes
<1>4. ASSUME NEW p \in Pairs \ {x} PROVE HeldLengths(g)[p] = HeldLengths(h)[p]
  <2>1. p[1] \in StoredAccounts /\ p[2] \in AllKeys
    BY PairsAre
  <2>2. p[1] # h.address \/ p[2] # k
    <3>1. p \in StoredAccounts \X OwnKeys /\ p # <<h.address, k>>
      BY DEF Pairs
    <3>2. p = <<p[1], p[2]>>
      BY <3>1
    <3> QED
      BY <3>1, <3>2
  <2>3. Held(g, p[1], p[2]) = Held(h, p[1], p[2])
    BY <2>1, <2>2 DEF Writes
  <2> QED
    BY <2>3 DEF HeldLengths
<1>5. \A p \in Pairs : HeldLengths(h)[p] \in Int /\ HeldLengths(g)[p] \in Int
  BY <1>2, LengthsAre
<1>6. B = A + v.len - old.len
  <2> HIDE DEF x, old
  <2>1. Pairs \cup {x} = Pairs /\ IsFiniteSet(Pairs)
    BY <1>1, KeysFinite DEF Pairs
  <2>2. Total(HeldLengths(g)) = Total(HeldLengths(h)) + HeldLengths(g)[x] - HeldLengths(h)[x]
    BY <1>1, <1>4, <1>5, <2>1, TotalChanged
  <2> QED
    BY <1>3, <2>2
<1>7. Total(NodeLengths(g)) = N
  BY <1>2 DEF NodeLengths
<1>8. /\ R \in Nat /\ v.len \in Nat /\ old.len \in Nat /\ A \in Int /\ N \in Int
      /\ h.refund \in Nat /\ h.stored \in Nat /\ g.refund \in Nat /\ g.stored \in Nat
  BY <1>1, <1>2, Sizes, HeldData, DataAre, LengthsAre DEF Writes, IsHost
<1>9. /\ h.refund + R * A <= R * N + h.stored
      /\ g.refund + R * v.len + h.stored <= h.refund + R * old.len + g.stored
  BY DEF Backed, Writes
<1> HIDE DEF A, B, N, R, old
<1>10. R * B = R * A + R * v.len - R * old.len
  BY <1>6, <1>8
<1>11. R * A \in Int /\ R * N \in Int /\ R * v.len \in Int /\ R * old.len \in Int
  BY <1>8
<1>12. g.refund + R * B <= R * N + g.stored
  BY <1>8, <1>9, <1>10, <1>11
<1> QED
  BY <1>7, <1>12 DEF Backed, A, B, N, R

-----------------------------------------------------------------------------
(* What the contract notes of its stores.                                   *)

LEMMA LockKeysApart ==
    ASSUME NEW j \in BaseKeys, NEW k \in BaseKeys
    PROVE  CustomStorageKey(j) # k /\ (CustomStorageKey(j) = CustomStorageKey(k) => j = k)
<1>1. k.lock = FALSE
  BY BaseKeysAre
<1>2. CustomStorageKey(j).lock
  BY BaseKeysAre
<1>3. /\ j = [prefix |-> j.prefix, name |-> j.name, lock |-> FALSE]
      /\ k = [prefix |-> k.prefix, name |-> k.name, lock |-> FALSE]
      /\ CustomStorageKey(j).prefix = j.prefix /\ CustomStorageKey(j).name = j.name
      /\ CustomStorageKey(k).prefix = k.prefix /\ CustomStorageKey(k).name = k.name
  BY BaseKeysAre
<1>4. CustomStorageKey(j) # k
  BY <1>1, <1>2
<1>5. ASSUME CustomStorageKey(j) = CustomStorageKey(k) PROVE j = k
  <2>1. j.prefix = k.prefix /\ j.name = k.name
    BY <1>3, <1>5
  <2> QED
    BY <1>3, <2>1
<1> QED
  BY <1>4, <1>5

LEMMA KeySets ==
    /\ \A k \in NumberKeys : k \in BaseKeys /\ k \in AllKeys
    /\ \A k \in ContractKeys : k \in BaseKeys /\ CustomStorageKey(k) \in AllKeys
  BY NumbersAssumption, ElrondAssumption, BaseKeysAre

LEMMA MatchesKept ==
    ASSUME NEW note, NEW s, NEW t, Matches(note, s),
           \A k \in NumberKeys : ~isElrondReservedKey(k) => t[k] = s[k],
           \A k \in ContractKeys : t[CustomStorageKey(k)].val = s[CustomStorageKey(k)].val
    PROVE  Matches(note, t)
  BY DEF Matches, NumberIs

LEMMA NoteNumber ==
    ASSUME NEW note, NEW s, NEW t, Matches(note, s), NEW k \in NumberKeys,
           ~isElrondReservedKey(k), NEW n, NumberIs(n, t[k]),
           \A j \in AllKeys \ {k} : t[j] = s[j]
    PROVE  Matches([note EXCEPT !.numbers[k] = n], t)
<1> DEFINE m == [note EXCEPT !.numbers[k] = n]
           ns == [note.numbers EXCEPT ![k] = n]
<1>1. DOMAIN note = {"numbers", "locks"} /\ DOMAIN note.numbers = NumberKeys
      /\ DOMAIN note.locks = ContractKeys
  BY DEF Matches
<1>2. DOMAIN m = {"numbers", "locks"} /\ m.numbers = ns /\ m.locks = note.locks
  BY <1>1
<1>3. DOMAIN ns = NumberKeys /\ ns[k] = n /\ \A j \in NumberKeys \ {k} : ns[j] = note.numbers[j]
  BY <1>1
<1> HIDE DEF m, ns
<1>4. ASSUME NEW j \in NumberKeys
      PROVE  NumberIs(ns[j], t[j]) /\ (isElrondReservedKey(j) => ns[j] = <<>>)
  <2>1. CASE j = k
    BY <1>3, <2>1
  <2>2. CASE j # k
    <3>1. t[j] = s[j] /\ ns[j] = note.numbers[j]
      BY <1>3, <2>2, KeySets
    <3> QED
      BY <3>1 DEF Matches
  <2> QED
    BY <2>1, <2>2
<1>5. ASSUME NEW j \in ContractKeys PROVE t[CustomStorageKey(j)] = s[CustomStorageKey(j)]
  <2>1. CustomStorageKey(j) \in AllKeys /\ CustomStorageKey(j) # k
    BY KeySets, LockKeysApart
  <2> QED
    BY <2>1
<1>6. Matches(m, t)
  BY <1>1, <1>2, <1>3, <1>4, <1>5 DEF Matches
<1> QED
  BY <1>6 DEF m

LEMMA NoteLock ==
    ASSUME NEW note, NEW s, NEW t, Matches(note, s), NEW k \in ContractKeys,
           ~isElrondReservedKey(CustomStorageKey(k)), NEW x \in Int64s,
           t[CustomStorageKey(k)] = Bytes(x),
           \A j \in AllKeys \ {CustomStorageKey(k)} : t[j] = s[j]
    PROVE  Matches([note EXCEPT !.locks[k] = x], t)
<1> DEFINE m == [note EXCEPT !.locks[k] = x]
           ls == [note.locks EXCEPT ![k] = x]
<1>0. ~isElrondReservedKey(k)
  <2>1. k \in BaseKeys
    BY KeySets
  <2> QED
    BY <2>1, BaseKeysAre DEF isElrondReservedKey
<1>1. DOMAIN note = {"numbers", "locks"} /\ DOMAIN note.numbers = NumberKeys
      /\ DOMAIN note.locks = ContractKeys
  BY DEF Matches
<1>2. DOMAIN m = {"numbers", "locks"} /\ m.locks = ls /\ m.numbers = note.numbers
  BY <1>1
<1>3. DOMAIN ls = ContractKeys /\ ls[k] = x /\ \A j \in ContractKeys \ {k} : ls[j] = note.locks[j]
  BY <1>1
<1> HIDE DEF m, ls
<1>4. x >= 0 => t[CustomStorageKey(k)].val = x
  <2>1. x \in Int
    BY Int64Numbers DEF Number
  <2> QED
    BY <2>1 DEF Bytes, ByteString, Magnitude
<1>5. ASSUME NEW j \in NumberKeys PROVE t[j] = s[j]
  <2>1. j \in AllKeys /\ j # CustomStorageKey(k)
    BY KeySets, LockKeysApart
  <2> QED
    BY <2>1
<1>6. ASSUME NEW j \in ContractKeys
      PROVE  /\ ls[j] \in Int64s
             /\ ls[j] >= 0 => t[CustomStorageKey(j)].val = ls[j]
             /\ isElrondReservedKey(j) => ls[j] = 0
  <2>1. CASE j = k
    BY <1>0, <1>3, <1>4, <2>1
  <2>2. CASE j # k
    <3>1. CustomStorageKey(j) \in AllKeys /\ CustomStorageKey(j) # CustomStorageKey(k)
      BY <2>2, KeySets, LockKeysApart
    <3>2. t[CustomStorageKey(j)] = s[CustomStorageKey(j)] /\ ls[j] = note.locks[j]
      BY <1>3, <2>2, <3>1
    <3> QED
      BY <3>2 DEF Matches
  <2> QED
    BY <2>1, <2>2
<1>7. Matches(m, t)
  BY <1>1, <1>2, <1>3, <1>5, <1>6 DEF Matches
<1> QED
  BY <1>7 DEF m

LEMMA NoteOther ==
    ASSUME NEW note, NEW s, NEW t, Matches(note, s), NEW k \in BaseKeys, k \notin NumberKeys,
           \A j \in AllKeys \ {k} : t[j] = s[j]
    PROVE  Matches(note, t)
<1>1. \A j \in NumberKeys : t[j] = s[j]
  BY KeySets
<1>2. ASSUME NEW j \in ContractKeys PROVE t[CustomStorageKey(j)] = s[CustomStorageKey(j)]
  <2>1. CustomStorageKey(j) \in AllKeys /\ CustomStorageKey(j) # k
    BY KeySets, LockKeysApart
  <2> QED
    BY <2>1
<1> QED
  BY <1>1, <1>2, MatchesKept

\* Whatever is stored, the note of it is right.
LEMMA WrittenAndNoted ==
    ASSUME NEW h, IsHost(h), NEW g, h.state = "running",
           NumberStore(h, g) \/ PlainStore(h, g) \/ LockStore(h, g),
           NEW note, Matches(note, OwnStorage(h))
    PROVE  /\ Matches(Noted(note, g), OwnStorage(g))
           /\ \E k \in AllKeys : \E v : Writes(h, g, k, v)
<1>a. \E k \in AllKeys : \E v : Writes(h, g, k, v)
  BY KeySets, BaseKeysAre DEF NumberStore, PlainStore, LockStore
<1> SUFFICES Matches(Noted(note, g), OwnStorage(g))
  BY <1>a
<1> DEFINE Noting == ~g.readOnly /\ g.address = Self /\ g.state = "running"
<1>1. ASSUME NEW k \in AllKeys, NEW v, Writes(h, g, k, v)
      PROVE  /\ g.address = h.address /\ (Noting <=> h.address = Self)
             /\ \A j \in AllKeys \ {k} : OwnStorage(g)[j] = OwnStorage(h)[j]
             /\ h.address = Self => OwnStorage(g)[k] = v
             /\ h.address # Self => OwnStorage(g) = OwnStorage(h)
             /\ ~isElrondReservedKey(k)
  <2>1. g.address = h.address /\ ~g.readOnly /\ g.state = "running"
    BY <1>1 DEF Writes, SameAround
  <2>2. \A j \in AllKeys : h.address # Self \/ j # k => Held(g, Self, j) = Held(h, Self, j)
    BY <1>1 DEF Writes, StoredAccounts
  <2> QED
    BY <1>1, <2>1, <2>2 DEF OwnStorage, Writes
<1>2. ASSUME g.address # Self, NEW k \in AllKeys, NEW v, Writes(h, g, k, v)
      PROVE  Matches(Noted(note, g), OwnStorage(g))
  <2>1. Noted(note, g) = note
    BY <1>2 DEF Noted
  <2> QED
    BY <1>1, <1>2, <2>1
<1>3. CASE NumberStore(h, g)
  <2>1. PICK k \in NumberKeys, x \in ContractInts :
            /\ g.call.about = <<k, x>>
            /\ \/ g.call.f \in UnsignedStores /\ Writes(h, g, k, EncodeUnsigned(x))
               \/ g.call.f \in SignedStores /\ Writes(h, g, k, EncodeSigned(x))
    BY <1>3 DEF NumberStore
  <2>2. k \in AllKeys /\ x \in Int64s
    BY KeySets, NumbersAssumption
  <2>3. CASE g.call.f \in UnsignedStores /\ Writes(h, g, k, EncodeUnsigned(x))
    <3>1. CASE g.address = Self
      <4>1. Noting /\ OwnStorage(g)[k] = EncodeUnsigned(x) /\ ~isElrondReservedKey(k)
            /\ \A j \in AllKeys \ {k} : OwnStorage(g)[j] = OwnStorage(h)[j]
        BY <1>1, <2>2, <2>3, <3>1
      <4>2. Noted(note, g) = [note EXCEPT !.numbers[k] = <<"unsigned", x>>]
        BY <2>1, <2>3, <4>1 DEF Noted
      <4>3. NumberIs(<<"unsigned", x>>, OwnStorage(g)[k])
        BY <2>2, <4>1 DEF NumberIs
      <4> QED
        BY <4>1, <4>2, <4>3, NoteNumber
    <3> QED
      BY <1>2, <2>2, <2>3, <3>1
  <2>4. CASE g.call.f \in SignedStores /\ Writes(h, g, k, EncodeSigned(x))
    <3>1. CASE g.address = Self
      <4>1. Noting /\ OwnStorage(g)[k] = EncodeSigned(x) /\ ~isElrondReservedKey(k)
            /\ \A j \in AllKeys \ {k} : OwnStorage(g)[j] = OwnStorage(h)[j]
        BY <1>1, <2>2, <2>4, <3>1
      <4>2. Noted(note, g) = [note EXCEPT !.numbers[k] = <<"signed", x>>]
        BY <2>1, <2>4, <4>1 DEF Noted, SignedStores, UnsignedStores
      <4>3. NumberIs(<<"signed", x>>, OwnStorage(g)[k])
        BY <2>2, <4>1 DEF NumberIs
      <4> QED
        BY <4>1, <4>2, <4>3, NoteNumber
    <3> QED
      BY <1>2, <2>2, <2>4, <3>1
  <2> QED
    BY <2>1, <2>2, <2>3, <2>4
<1>4. CASE PlainStore(h, g)
  <2>1. PICK k \in BaseKeys : \E v :
            /\ g.call.about = k /\ Writes(h, g, k, v)
            /\ \/ g.call.f = "storageStore"
               \/ g.call.f = "bigIntStorageStoreUnsigned" /\ k \in NumberKeys
    BY <1>4 DEF PlainStore
  <2>2. PICK v :
            /\ g.call.about = k /\ Writes(h, g, k, v)
            /\ \/ g.call.f = "storageStore"
               \/ g.call.f = "bigIntStorageStoreUnsigned" /\ k \in NumberKeys
    BY <2>1
  <2>3. k \in AllKeys
    BY BaseKeysAre
  <2>4. CASE g.address = Self
    <3>1. Noting /\ ~isElrondReservedKey(k)
          /\ \A j \in AllKeys \ {k} : OwnStorage(g)[j] = OwnStorage(h)[j]
      BY <1>1, <2>2, <2>3, <2>4
    <3>2. CASE k \in NumberKeys
      <4>1. Noted(note, g) = [note EXCEPT !.numbers[k] = <<>>]
        BY <2>2, <3>1, <3>2 DEF Noted, SignedStores, UnsignedStores
      <4>2. NumberIs(<<>>, OwnStorage(g)[k])
        BY DEF NumberIs
      <4> QED
        BY <3>1, <3>2, <4>1, <4>2, NoteNumber
    <3>3. CASE k \notin NumberKeys
      <4>1. Noted(note, g) = note
        BY <2>2, <3>1, <3>3 DEF Noted, SignedStores, UnsignedStores, LockSetters
      <4> QED
        BY <3>1, <3>3, <4>1, NoteOther
    <3> QED
      BY <3>2, <3>3
  <2> QED
    BY <1>2, <2>2, <2>3, <2>4
<1>5. CASE LockStore(h, g)
  <2>1. PICK k \in ContractKeys, x \in Int64s :
            /\ g.call.f \in LockSetters /\ g.call.about = <<k, x>>
            /\ Writes(h, g, CustomStorageKey(k), Bytes(x))
    BY <1>5 DEF LockStore
  <2> DEFINE c == CustomStorageKey(k)
  <2>2. c \in AllKeys
    BY KeySets
  <2>3. CASE g.address = Self
    <3>1. Noting /\ OwnStorage(g)[c] = Bytes(x) /\ ~isElrondReservedKey(c)
          /\ \A j \in AllKeys \ {c} : OwnStorage(g)[j] = OwnStorage(h)[j]
      BY <1>1, <2>1, <2>2, <2>3
    <3>2. Noted(note, g) = [note EXCEPT !.locks[k] = x]
      BY <2>1, <3>1 DEF Noted, SignedStores, UnsignedStores, LockSetters
    <3> QED
      BY <3>1, <3>2, NoteLock
  <2> QED
    BY <1>2, <2>1, <2>2, <2>3
<1> QED
  BY <1>3, <1>4, <1>5

-----------------------------------------------------------------------------
(* Transactions and built-in functions.                                     *)

LEMMA NoFrames == IsFrames(<<>>) /\ Len(<<>>) = 0
<1>1. Len(<<>>) = 0
  OBVIOUS
<1>2. <<>> = [i \in 1 .. 0 |-> <<>>[i]]
  OBVIOUS
<1> QED
  BY <1>1, <1>2 DEF IsFrames

\* The contexts as a transaction finds them.
Starts(g, node) ==
    /\ IsHost(g) /\ g.node = node /\ g.refund = 0 /\ g.stored = 0
    /\ g.call = NoAnswer /\ g.frames = <<>> /\ g.readOnly = FALSE
    /\ \A a \in StoredAccounts, k \in AllKeys : Held(g, a, k) = node[a][k]

LEMMA InitStarts ==
    ASSUME NEW contract \in Contracts, NEW input \in contract.inputs, NEW node,
           IsStorage(node), HoldsData(node), NEW chain, IsChain(chain)
    PROVE  Starts(InitState(contract, input, node, chain), node)
<1> DEFINE g == InitState(contract, input, node, chain)
           updates == [a \in StoredAccounts |-> [k \in AllKeys |-> NotCached]]
           big == [i \in {} |-> 0]
           mode == FALSE
<1>1. IsInput(input)
  BY ContractsAssumption
<1>2. /\ IsStorage(updates) /\ CachesData(updates)
      /\ \A a \in StoredAccounts, k \in AllKeys : updates[a][k] = NotCached
  BY DEF IsStorage, CachesData
<1>3. IsBig(big) /\ mode \in BOOLEAN /\ Self \in StoredAccounts /\ "running" \in States
  BY DEF IsBig, StoredAccounts, States
<1>4. /\ DOMAIN g = HostFields /\ g.contract = contract /\ g.input = input /\ g.chain = chain
      /\ g.node = node /\ g.updates = updates /\ g.state = "running" /\ g.used = 0
      /\ g.refund = 0 /\ g.stored = 0 /\ g.address = Self /\ g.readOnly = mode
      /\ g.frames = <<>> /\ g.big = big /\ g.call = NoAnswer
  BY DEF InitState, HostFields
<1> HIDE DEF g, updates, big, mode
<1>a. Sized(0, contract, input, big, <<>>)
  <2>1. DOMAIN big = {} /\ Short(contract, input)
    BY FreeIs DEF big, Short
  <2> QED
    BY <2>1, NoFrames DEF Sized, AllAfforded
<1>5. IsHost(g)
  BY <1>1, <1>2, <1>3, <1>4, <1>a, NoFrames DEF IsHost
<1>6. \A a \in StoredAccounts, k \in AllKeys : Held(g, a, k) = node[a][k]
  BY <1>2, <1>4 DEF Held
<1>7. g.readOnly = FALSE
  BY <1>4 DEF mode
<1> QED
  BY <1>4, <1>5, <1>6, <1>7 DEF Starts, g

LEMMA StartedRight ==
    ASSUME NEW g, NEW node, Starts(g, node), NEW note, Matches(note, node[Self])
    PROVE  /\ Backed(g) /\ ModesAre(g, FALSE)
           /\ Matches(note, OwnStorage(g)) /\ Matches(note, g.node[Self])
<1>1. Backed(g)
  BY BackedAtStart DEF Starts
<1>2. ModesAre(g, FALSE)
  <2>1. g.readOnly = FALSE /\ Len(g.frames) = 0
    BY NoFrames DEF Starts
  <2>2. ~ReadOnlyUpTo(g, 0)
    BY DEF ReadOnlyUpTo
  <2> QED
    BY <2>1, <2>2 DEF ModesAre, ModeIs
<1>3. Matches(note, OwnStorage(g))
  <2>1. \A k \in AllKeys : OwnStorage(g)[k] = node[Self][k]
    BY DEF Starts, OwnStorage, StoredAccounts
  <2>2. \A k \in NumberKeys : OwnStorage(g)[k] = node[Self][k]
    BY <2>1, KeySets
  <2>3. \A k \in ContractKeys :
            OwnStorage(g)[CustomStorageKey(k)].val = node[Self][CustomStorageKey(k)].val
    BY <2>1, KeySets
  <2> QED
    BY <2>2, <2>3, MatchesKept
<1> QED
  BY <1>1, <1>2, <1>3 DEF Starts

\* What the Node has after a transaction that succeeded.
LEMMA CommittedIs ==
    ASSUME NEW h, IsHost(h)
    PROVE  /\ IsStorage(Committed(h)) /\ HoldsData(Committed(h))
           /\ \A a \in StoredAccounts, k \in AllKeys :
                 Committed(h)[a][k] = IF isElrondReservedKey(k) THEN h.node[a][k]
                                      ELSE Held(h, a, k)
<1>1. ASSUME NEW a \in StoredAccounts, NEW k \in AllKeys
      PROVE  /\ Committed(h)[a][k] = IF isElrondReservedKey(k) THEN h.node[a][k]
                                     ELSE Held(h, a, k)
             /\ IsData(Committed(h)[a][k])
  <2>1. Committed(h)[a][k] = IF isElrondReservedKey(k) THEN h.node[a][k] ELSE Held(h, a, k)
    BY DEF Committed, Held
  <2> QED
    BY <2>1, HeldData DEF IsHost, HoldsData
<1>2. IsStorage(Committed(h))
  BY DEF IsStorage, Committed
<1> QED
  BY <1>1, <1>2 DEF HoldsData

LEMMA CommittedNoted ==
    ASSUME NEW h, IsHost(h), NEW note, Matches(note, OwnStorage(h)),
           NEW saved, Matches(saved, h.node[Self])
    PROVE  Matches(note, Committed(h)[Self])
<1> DEFINE t == Committed(h)[Self]
           s == OwnStorage(h)
<1>1. \A k \in AllKeys : t[k] = IF isElrondReservedKey(k) THEN h.node[Self][k] ELSE s[k]
  BY CommittedIs DEF OwnStorage, StoredAccounts
<1>2. \A k \in NumberKeys : ~isElrondReservedKey(k) => t[k] = s[k]
  BY <1>1, KeySets
<1>3. ASSUME NEW k \in ContractKeys
      PROVE  t[CustomStorageKey(k)].val = s[CustomStorageKey(k)].val
  <2> DEFINE c == CustomStorageKey(k)
  <2>1. c \in AllKeys /\ (isElrondReservedKey(c) <=> isElrondReservedKey(k))
    BY KeySets, BaseKeysAre DEF isElrondReservedKey
  <2>2. CASE ~isElrondReservedKey(c)
    BY <1>1, <2>1, <2>2
  <2>3. CASE isElrondReservedKey(c)
    <3>1. note.locks[k] = 0 /\ saved.locks[k] = 0
      BY <2>1, <2>3 DEF Matches
    <3>2. s[c].val = 0 /\ h.node[Self][c].val = 0
      BY <3>1 DEF Matches
    <3> QED
      BY <1>1, <2>1, <2>3, <3>2
  <2> QED
    BY <2>2, <2>3
<1> HIDE DEF t, s
<1>4. Matches(note, t)
  BY <1>2, <1>3, MatchesKept DEF s
<1> QED
  BY <1>4 DEF t

\* The Node has one key of its own.
LEMMA NodeKeyIs ==
    /\ NodeKey \in BaseKeys /\ NodeKey \in AllKeys /\ isElrondReservedKey(NodeKey)
    /\ \A k \in BaseKeys : isElrondReservedKey(k) => k = NodeKey
<1>1. NodeKey \in BaseKeys /\ isElrondReservedKey(NodeKey)
  <2>1. NodeKey.prefix = ElrondPrefix
    BY DEF NodeKey, Key
  <2> QED
    BY <2>1 DEF BaseKeys, isElrondReservedKey
<1>2. ASSUME NEW k \in BaseKeys, isElrondReservedKey(k) PROVE k = NodeKey
  <2>1. ASSUME NEW n \in Plain PROVE Key(NoPrefix, n, FALSE).prefix # ElrondPrefix
    BY DEF Key, NoPrefix, ElrondPrefix
  <2>2. Key(ProtectedStoragePrefix, "", FALSE).prefix # ElrondPrefix
    BY DEF Key, ProtectedStoragePrefix, ElrondPrefix
  <2> QED
    BY <1>2, <2>1, <2>2 DEF BaseKeys, isElrondReservedKey
<1> QED
  BY <1>1, <1>2, BaseKeysAre

\* And after one that failed.
LEMMA RolledBackIs ==
    ASSUME NEW h, IsHost(h)
    PROVE  /\ IsStorage(RolledBack(h)) /\ HoldsData(RolledBack(h))
           /\ \A a \in StoredAccounts, k \in AllKeys :
                 RolledBack(h)[a][k] = IF k = NodeKey THEN h.chain.reserved[a] ELSE h.node[a][k]
           /\ \A a \in StoredAccounts : RolledBack(h)[a][NodeKey] = h.chain.reserved[a]
<1>1. ASSUME NEW a \in StoredAccounts, NEW k \in AllKeys
      PROVE  /\ RolledBack(h)[a][k] = IF k = NodeKey THEN h.chain.reserved[a] ELSE h.node[a][k]
             /\ IsData(RolledBack(h)[a][k])
  <2>1. RolledBack(h)[a][k] = IF k = NodeKey THEN h.chain.reserved[a] ELSE h.node[a][k]
    BY DEF RolledBack
  <2> QED
    BY <2>1 DEF IsHost, HoldsData, IsChain
<1>2. IsStorage(RolledBack(h))
  BY DEF IsStorage, RolledBack
<1> QED
  BY <1>1, <1>2, NodeKeyIs DEF HoldsData

LEMMA RolledBackNoted ==
    ASSUME NEW h, IsHost(h), NEW note, Matches(note, h.node[Self])
    PROVE  Matches(note, RolledBack(h)[Self])
<1>1. \A k \in AllKeys : k # NodeKey => RolledBack(h)[Self][k] = h.node[Self][k]
  BY RolledBackIs DEF StoredAccounts
<1>2. \A k \in NumberKeys : ~isElrondReservedKey(k) => k \in AllKeys /\ k # NodeKey
  BY NodeKeyIs, KeySets
<1>3. \A k \in ContractKeys : CustomStorageKey(k) \in AllKeys /\ CustomStorageKey(k) # NodeKey
  BY NodeKeyIs, KeySets, LockKeysApart
<1> QED
  BY <1>1, <1>2, <1>3, MatchesKept

-----------------------------------------------------------------------------
(* The answers of isStorageLocked and storageLoadFromAddress.               *)

\* A call that neither property looks at, or the last one, in a contract that has
\* been stopped.
OtherAnswer(h, g) ==
    \/ g.call.f \notin {"isStorageLocked", "storageLoadFromAddress"}
    \/ /\ g.call = h.call /\ g.state # "running" /\ g.address = h.address
       /\ g.chain = h.chain /\ g.node = h.node /\ \A v : Noted(v, g) = v

LEMMA OtherAnswers ==
    ASSUME NEW h, IsHost(h), NEW g,
           \/ PlainStep(h, g) \/ LogStep(h, g) \/ Enters(h, g) \/ Returns(h, g)
           \/ NumberStore(h, g) \/ PlainStore(h, g) \/ LockStore(h, g)
    PROVE  OtherAnswer(h, g)
<1>1. CASE PlainStep(h, g) \/ LogStep(h, g)
  <2>1. \/ g.call.f \notin Marked \/ g.call.f \in StoreNames
        \/ g.call = h.call /\ g.state # "running"
    BY <1>1 DEF PlainStep, LogStep, Unmarked
  <2>2. SameAround(h, g)
    BY <1>1 DEF PlainStep, LogStep, Quiet
  <2>3. g.state # "running" => \A v : Noted(v, g) = v
    BY DEF Noted
  <2> QED
    BY <2>1, <2>2, <2>3 DEF OtherAnswer, SameAround, Marked, StoreNames, UnsignedStores,
                            SignedStores, LockSetters
<1>2. CASE Enters(h, g)
  BY <1>2 DEF Enters, NoAnswer, OtherAnswer
<1>3. CASE Returns(h, g)
  <2>1. g.call.f \in CallNames
    BY <1>3, FramesPopped DEF Returns, IsHost, IsFrame
  <2> QED
    BY <2>1 DEF CallNames, OtherAnswer
<1>4. CASE NumberStore(h, g) \/ PlainStore(h, g) \/ LockStore(h, g)
  <2>1. g.call.f \in StoreNames
    BY <1>4 DEF NumberStore, PlainStore, LockStore, StoreNames
  <2> QED
    BY <2>1 DEF OtherAnswer, StoreNames, UnsignedStores, SignedStores, LockSetters
<1> QED
  BY <1>1, <1>2, <1>3, <1>4

LEMMA LocksReported ==
    ASSUME EEIInv, LockAsk(host, host'), view'.current = view.current
    PROVE  LockReported'
<1>1. PICK k \in ContractKeys :
          LET timeLock == ToInt64(SetBytes(Held(host, host.address, CustomStorageKey(k))))
          IN  /\ host'.call.about = k
              /\ host'.call.res = IF timeLock < 0 THEN -1
                                  ELSE IF isUnlocked(timeLock, host.chain.now) THEN 0 ELSE 1
  BY DEF LockAsk
<1> DEFINE x == view.current.locks[k]
           b == OwnStorage(host)[CustomStorageKey(k)]
<1>2. host'.address = host.address /\ host'.chain = host.chain
  BY DEF LockAsk, Quiet, SameAround
<1>3. x \in Int64s /\ (x >= 0 => b.val = x)
  BY DEF EEIInv, Matches
<1>4. x \in Int /\ ToInt64(x) = x /\ host.chain.now \in Int
  BY <1>3, Int64Numbers DEF EEIInv, IsHost, IsChain
<1>5. CASE host'.address = Self /\ x >= 0
  <2>1. b = Held(host, host.address, CustomStorageKey(k))
    BY <1>2, <1>5, KeySets DEF OwnStorage
  <2>2. ToInt64(SetBytes(Held(host, host.address, CustomStorageKey(k)))) = x
    BY <1>3, <1>4, <1>5, <2>1 DEF SetBytes
  <2> HIDE DEF x
  <2>3. host'.call.res = IF x < 0 THEN -1 ELSE IF isUnlocked(x, host.chain.now) THEN 0 ELSE 1
    BY <1>1, <2>2
  <2>4. host'.call.res = 1 <=> x > host.chain.now
    BY <1>4, <1>5, <2>3 DEF isUnlocked
  <2>5. view'.current.locks[host'.call.about] = x
    BY <1>1 DEF x
  <2> QED
    BY <1>2, <2>4, <2>5 DEF LockReported
<1>6. CASE ~(host'.address = Self /\ x >= 0)
  BY <1>1, <1>6 DEF LockReported
<1> QED
  BY <1>5, <1>6

LEMMA AnswersRight ==
    ASSUME EEIInv, StepOfContract, view'.current = Noted(view.current, host'),
           view'.nodeKeys = view.nodeKeys
    PROVE  LockReported' /\ ReservedReadsFresh'
<1>0. IsHost(host) /\ LockReported /\ ReservedReadsFresh /\ NodeKept(host, view.nodeKeys)
  BY DEF EEIInv
<1>1. CASE OtherAnswer(host, host')
  <2>1. CASE host'.call.f \notin {"isStorageLocked", "storageLoadFromAddress"}
    BY <2>1 DEF LockReported, ReservedReadsFresh
  <2>2. CASE /\ host'.call = host.call /\ host'.address = host.address
             /\ host'.chain = host.chain /\ host'.node = host.node
             /\ view'.current = view.current
    BY <1>0, <2>2 DEF LockReported, ReservedReadsFresh
  <2> QED
    BY <1>1, <2>1, <2>2 DEF OtherAnswer
<1>2. CASE LockAsk(host, host')
  <2>1. view'.current = view.current
    BY <1>2, NothingNoted
  <2>2. ReservedReadsFresh'
    BY <1>2 DEF LockAsk, ReservedReadsFresh
  <2> QED
    BY <1>2, <2>1, <2>2, LocksReported
<1>3. CASE AddressLoad(host, host')
  <2>1. PICK a \in StoredAccounts, k \in BaseKeys :
            /\ host'.call.about = <<a, k>>
            /\ isElrondReservedKey(k) /\ (a = host.address \/ a \in ReadableAccounts)
                  => host'.call.res = host.node[a][k]
    BY <1>3 DEF AddressLoad
  <2>2. host'.address = host.address /\ host'.call.f = "storageLoadFromAddress"
    BY <1>3 DEF AddressLoad, Quiet, SameAround
  <2>3. host'.call.about[1] = a /\ host'.call.about[2] = k
    BY <2>1
  <2>4. isElrondReservedKey(k) => host.node[a][k] = view'.nodeKeys.current[a]
    BY <1>0, NodeKeyIs DEF NodeKept
  <2>6. ReservedReadsFresh'
    BY <2>1, <2>2, <2>3, <2>4 DEF ReservedReadsFresh
  <2>5. LockReported'
    BY <2>2 DEF LockReported
  <2> QED
    BY <2>5, <2>6
<1> QED
  BY <1>0, <1>1, <1>2, <1>3, StepKinds, OtherAnswers

-----------------------------------------------------------------------------
(* The invariant holds in every state.                                      *)

LEMMA ContractKeeps == EEIInv /\ ContractStep => EEIInv'
<1> SUFFICES ASSUME EEIInv, ContractStep PROVE EEIInv'
  OBVIOUS
<1> DEFINE left == InReadOnly(host') /\ (view.left \/ LeavesReadOnly)
<1>1. IsHost(host) /\ StepOfContract
  BY DEF EEIInv, ContractStep, StepOfContract
<1>2. /\ DOMAIN view' = ViewFields /\ view'.current = Noted(view.current, host')
      /\ view'.saved = view.saved /\ view'.left = left /\ view'.nodeKeys = view.nodeKeys
  BY DEF EEIInv, ContractStep, ViewFields
<1>a. host'.node = host.node /\ host'.chain = host.chain => NodeKept(host', view'.nodeKeys)
  BY <1>2 DEF EEIInv, NodeKept
<1>3. view'.left \in BOOLEAN
  BY <1>2
<1>4. LockReported' /\ ReservedReadsFresh'
  BY <1>1, <1>2, AnswersRight
<1>5. /\ ModesAre(host, view.left) /\ Backed(host)
      /\ Matches(view.current, OwnStorage(host)) /\ Matches(view.saved, host.node[Self])
  BY RefundIs DEF EEIInv
<1>6. CASE \/ PlainStep(host, host') \/ LogStep(host, host')
           \/ AddressLoad(host, host') \/ LockAsk(host, host')
           \/ Enters(host, host') \/ Returns(host, host')
  <2>1. StoresNothing(host, host') /\ Noted(view.current, host') = view.current
    BY <1>1, <1>6, NothingStored, NothingNoted
  <2>2. /\ \A a \in StoredAccounts, k \in AllKeys : Held(host', a, k) = Held(host, a, k)
        /\ OwnStorage(host') = OwnStorage(host)
    BY <2>1, NothingStoredSame
  <2>3. /\ IsHost(host') /\ host'.node = host.node /\ host'.chain = host.chain
        /\ host'.refund <= host.refund /\ host'.stored = host.stored
    BY <2>1 DEF StoresNothing
  <2>4. Backed(host')
    BY <1>1, <1>5, <2>2, <2>3, PairsAre, BackedWhenSame
  <2>5. ModesAre(host', left)
    <3>1. CASE Enters(host, host')
      BY <1>1, <1>5, <3>1, ModesEntering
    <3>2. CASE Returns(host, host')
      <4>1. Len(host'.frames) < Len(host.frames)
        <5>1. host.frames # <<>> /\ IsFrames(host.frames)
              /\ host'.frames = SubSeq(host.frames, 1, Len(host.frames) - 1)
          BY <1>1, <3>2 DEF Returns, IsHost
        <5> QED
          BY <5>1, FramesPopped
      <4>2. InReadOnly(host') /\ (view.left
                \/ host.frames[Len(host.frames)].f = "executeReadOnly") => left
        BY <4>1 DEF LeavesReadOnly
      <4> HIDE DEF left
      <4> QED
        BY <1>1, <1>5, <3>2, <4>2, ModesReturning
    <3>3. CASE SameAround(host, host')
      <4>1. host'.frames = host.frames /\ host'.readOnly = host.readOnly
        BY <3>3 DEF SameAround
      <4>2. InReadOnly(host') /\ view.left => left
        OBVIOUS
      <4> HIDE DEF left
      <4> QED
        BY <1>1, <1>5, <2>3, <4>1, <4>2, ModesStay
    <3> QED
      BY <1>6, <3>1, <3>2, <3>3 DEF PlainStep, LogStep, AddressLoad, LockAsk, Quiet
  <2>6. RefundBacked'
    BY <2>4, RefundIs
  <2> HIDE DEF left
  <2>7. Matches(view'.current, OwnStorage(host')) /\ Matches(view'.saved, host'.node[Self])
    BY <1>2, <1>5, <2>1, <2>2, <2>3
  <2>8. ModesAre(host', view'.left)
    BY <1>2, <2>5
  <2> QED
    BY <1>2, <1>3, <1>4, <1>a, <2>3, <2>6, <2>7, <2>8 DEF EEIInv
<1>7. CASE /\ host.state = "running"
           /\ NumberStore(host, host') \/ PlainStore(host, host') \/ LockStore(host, host')
  <2>1. /\ Matches(Noted(view.current, host'), OwnStorage(host'))
        /\ \E k \in AllKeys : \E v : Writes(host, host', k, v)
    BY <1>1, <1>5, <1>7, WrittenAndNoted
  <2>2. PICK k \in AllKeys : \E v : Writes(host, host', k, v)
    BY <2>1
  <2>3. PICK v : Writes(host, host', k, v)
    BY <2>2
  <2>4. Backed(host')
    BY <1>1, <1>5, <2>3, BackedWhenWritten
  <2>5. /\ IsHost(host') /\ host'.node = host.node /\ host'.chain = host.chain
        /\ host'.frames = host.frames /\ host'.readOnly = host.readOnly
    BY <2>3 DEF Writes, SameAround
  <2>6. InReadOnly(host') /\ view.left => left
    OBVIOUS
  <2> HIDE DEF left
  <2>7. ModesAre(host', left)
    BY <1>1, <1>5, <2>5, <2>6, ModesStay
  <2>8. RefundBacked'
    BY <2>4, RefundIs
  <2>9. Matches(view'.current, OwnStorage(host')) /\ Matches(view'.saved, host'.node[Self])
    BY <1>2, <1>5, <2>1, <2>5
  <2>10. ModesAre(host', view'.left)
    BY <1>2, <2>7
  <2> QED
    BY <1>2, <1>3, <1>4, <1>a, <2>5, <2>8, <2>9, <2>10 DEF EEIInv
<1> QED
  BY <1>1, <1>6, <1>7, StepKinds

LEMMA BuiltInKeeps == EEIInv /\ BuiltInFunction => EEIInv'
<1> SUFFICES ASSUME EEIInv, BuiltInFunction PROVE EEIInv'
  OBVIOUS
<1> DEFINE e == NodeKey
<1>1. IsHost(host) /\ IsStorage(host.node) /\ HoldsData(host.node)
  BY DEF EEIInv, IsHost
<1>2. PICK b \in StoredAccounts, value \in MemoryStrings :
          /\ host' = [UseGas(host, ApiCost) EXCEPT !.node[b][e] = value, !.call = NoAnswer]
          /\ view' = [view EXCEPT !.nodeKeys.current[b] = value]
  BY DEF BuiltInFunction
<1> DEFINE node == [host.node EXCEPT ![b][e] = value]
<1>3. e \in BaseKeys /\ e \in AllKeys /\ isElrondReservedKey(e)
  BY NodeKeyIs
<1>4. Self \in StoredAccounts /\ IsData(value) /\ ApiCost \in Nat
  BY NumbersAssumption, Sizes DEF StoredAccounts
<1> HIDE DEF e
<1>5. /\ IsStorage(node) /\ node[b][e] = value
      /\ \A a \in StoredAccounts, k \in AllKeys :
             a # b \/ k # e => node[a][k] = host.node[a][k]
  <2> DEFINE s == host.node
  <2>1. IsStorage(s) /\ node = [s EXCEPT ![b][e] = value]
    BY <1>1
  <2> HIDE DEF s, node
  <2>2. /\ IsStorage(node) /\ node[b][e] = value
        /\ \A a \in StoredAccounts, k \in AllKeys :
               a # b \/ k # e => node[a][k] = s[a][k]
    BY <1>3, <1>4, <2>1 DEF IsStorage
  <2> QED
    BY <2>2 DEF s
<1>6. HoldsData(node)
  BY <1>1, <1>4, <1>5 DEF HoldsData
<1>7. host' = [host EXCEPT !.used = @ + ApiCost, !.node = node, !.call = NoAnswer]
  BY <1>1, <1>2 DEF UseGas, IsHost, HostFields
<1> HIDE DEF node
<1>8. /\ IsHost(host') /\ host'.node = node /\ host'.updates = host.updates
      /\ host'.refund = host.refund /\ host'.stored = host.stored
      /\ host'.frames = host.frames /\ host'.readOnly = host.readOnly
      /\ host'.call = NoAnswer /\ host'.chain = host.chain
  <2>1. host.used \in Nat /\ host.used <= host.used + ApiCost /\ host.used + ApiCost \in Nat
    BY <1>1, <1>4 DEF IsHost
  <2>2. Sized(host.used + ApiCost, host.contract, host.input, host.big, host.frames)
    BY <1>1, <2>1, SizedLater
  <2> QED
    BY <1>1, <1>4, <1>5, <1>6, <1>7, <2>2 DEF IsHost, HostFields
<1>9. \A a \in StoredAccounts, k \in AllKeys :
          k # e => /\ host'.node[a][k] = host.node[a][k]
                   /\ Held(host', a, k) = Held(host, a, k)
  BY <1>5, <1>8 DEF Held
<1>10. /\ Backed(host) /\ ModesAre(host, view.left)
       /\ Matches(view.current, OwnStorage(host)) /\ Matches(view.saved, host.node[Self])
  BY RefundIs DEF EEIInv
<1>11. RefundBacked'
  <2>1. \A p \in Pairs : p[1] \in StoredAccounts /\ p[2] \in AllKeys /\ p[2] # e
    BY <1>3, PairsAre
  <2>2. host'.refund <= host.refund
    BY <1>1, <1>8 DEF IsHost
  <2>3. Backed(host')
    BY <1>1, <1>8, <1>9, <1>10, <2>1, <2>2, BackedWhenSame
  <2> QED
    BY <2>3, RefundIs
<1>12. ModesAre(host', view.left)
  BY <1>1, <1>8, <1>10, ModesStay
<1>13. \A k \in NumberKeys : ~isElrondReservedKey(k) => k \in AllKeys /\ k # e
  BY <1>3, KeySets
<1>14. \A k \in ContractKeys : CustomStorageKey(k) \in AllKeys /\ CustomStorageKey(k) # e
  BY <1>3, KeySets, LockKeysApart
<1>15. Matches(view.current, OwnStorage(host'))
  <2>1. \A k \in AllKeys : k # e => OwnStorage(host')[k] = OwnStorage(host)[k]
    BY <1>4, <1>9 DEF OwnStorage
  <2> QED
    BY <1>10, <1>13, <1>14, <2>1, MatchesKept
<1>16. Matches(view.saved, host'.node[Self])
  <2>1. \A k \in AllKeys : k # e => host'.node[Self][k] = host.node[Self][k]
    BY <1>4, <1>9
  <2> QED
    BY <1>10, <1>13, <1>14, <2>1, MatchesKept
<1>17. LockReported' /\ ReservedReadsFresh'
  BY <1>8 DEF LockReported, ReservedReadsFresh, NoAnswer
<1>18. /\ DOMAIN view = ViewFields /\ view.left \in BOOLEAN
       /\ NodeKept(host, view.nodeKeys)
  BY DEF EEIInv
<1> DEFINE w == [view.nodeKeys EXCEPT !.current[b] = value]
<1>19. /\ DOMAIN view' = ViewFields /\ view'.nodeKeys = w /\ view'.left = view.left
       /\ view'.current = view.current /\ view'.saved = view.saved
  BY <1>2, <1>18 DEF ViewFields
<1>20. NodeKept(host', w)
  <2>1. /\ DOMAIN w = {"current", "saved"} /\ DOMAIN w.current = StoredAccounts
        /\ w.saved = view.nodeKeys.saved /\ w.current[b] = value
        /\ \A a \in StoredAccounts : a # b => w.current[a] = view.nodeKeys.current[a]
    BY <1>18 DEF NodeKept
  <2> HIDE DEF w
  <2>2. ASSUME NEW a \in StoredAccounts PROVE host'.node[a][e] = w.current[a]
    BY <1>3, <1>5, <1>8, <1>18, <2>1 DEF NodeKept, e
  <2> QED
    BY <1>8, <1>18, <2>1, <2>2 DEF NodeKept, e
<1> HIDE DEF w
<1> QED
  BY <1>8, <1>11, <1>12, <1>15, <1>16, <1>17, <1>18, <1>19, <1>20 DEF EEIInv

LEMMA TransactionKeeps == EEIInv /\ NextTransaction => EEIInv'
<1> SUFFICES ASSUME EEIInv, NextTransaction PROVE EEIInv'
  OBVIOUS
<1> DEFINE kept == host.state = "running" /\ HasGas(host)
           node == IF kept THEN Committed(host) ELSE RolledBack(host)
           own == IF kept THEN view.current ELSE view.saved
           written == IF kept THEN view.nodeKeys.current ELSE view.nodeKeys.saved
           reserved == [a \in StoredAccounts |-> node[a][NodeKey]]
           chain == [host.chain EXCEPT !.now = @ + 1, !.reserved = reserved]
           w == [current |-> written, saved |-> written]
<1>1. IsHost(host) /\ host.contract \in Contracts
  BY DEF EEIInv, IsHost
<1>2. /\ \E input \in host.contract.inputs : host' = InitState(host.contract, input, node, chain)
      /\ view' = [current |-> own, saved |-> own, left |-> FALSE, nodeKeys |-> w]
  BY DEF NextTransaction
<1>3. IsStorage(node) /\ HoldsData(node)
  BY <1>1, CommittedIs, RolledBackIs
<1>4. IsChain(chain)
  <2>1. \A a \in StoredAccounts : IsData(reserved[a])
    BY <1>3, NodeKeyIs DEF HoldsData
  <2> HIDE DEF reserved
  <2> QED
    BY <1>1, <2>1 DEF IsHost, IsChain
<1>a. \A a \in StoredAccounts : node[a][NodeKey] = written[a]
  <2>1. NodeKept(host, view.nodeKeys)
    BY DEF EEIInv
  <2>2. CASE kept
    BY <1>1, <2>1, <2>2, CommittedIs, NodeKeyIs DEF NodeKept
  <2>3. CASE ~kept
    BY <1>1, <2>1, <2>3, RolledBackIs DEF NodeKept
  <2> QED
    BY <2>2, <2>3
<1>b. /\ chain.reserved = reserved /\ DOMAIN written = StoredAccounts
      /\ \A a \in StoredAccounts : reserved[a] = node[a][NodeKey]
  BY <1>1 DEF EEIInv, NodeKept, IsHost, IsChain
<1>5. Matches(own, node[Self])
  <2>1. CASE kept
    <3>1. Matches(view.current, Committed(host)[Self])
      BY <1>1, CommittedNoted DEF EEIInv
    <3> QED
      BY <2>1, <3>1
  <2>2. CASE ~kept
    <3>1. Matches(view.saved, RolledBack(host)[Self])
      BY <1>1, RolledBackNoted DEF EEIInv
    <3> QED
      BY <2>2, <3>1
  <2> QED
    BY <2>1, <2>2
<1> HIDE DEF node, own, chain, kept, reserved, written
<1>6. Starts(host', node) /\ host'.chain = chain
  BY <1>1, <1>2, <1>3, <1>4, InitStarts DEF InitState
<1>7. /\ Backed(host') /\ ModesAre(host', FALSE)
      /\ Matches(own, OwnStorage(host')) /\ Matches(own, host'.node[Self])
  BY <1>5, <1>6, StartedRight
<1>8. RefundBacked'
  BY <1>7, RefundIs
<1>9. LockReported' /\ ReservedReadsFresh'
  BY <1>6 DEF Starts, LockReported, ReservedReadsFresh, NoAnswer
<1>10. /\ DOMAIN view' = ViewFields /\ view'.current = own
       /\ view'.saved = own /\ view'.left = FALSE /\ view'.nodeKeys = w
  BY <1>2 DEF ViewFields
<1>c. NodeKept(host', view'.nodeKeys)
  BY <1>a, <1>b, <1>6, <1>10 DEF NodeKept, Starts
<1>11. ModesAre(host', view'.left) /\ view'.left \in BOOLEAN
  BY <1>7, <1>10
<1>12. Matches(view'.current, OwnStorage(host')) /\ Matches(view'.saved, host'.node[Self])
  BY <1>7, <1>10
<1>13. IsHost(host')
  BY <1>6 DEF Starts
<1> QED
  BY <1>8, <1>9, <1>10, <1>11, <1>12, <1>13, <1>c DEF EEIInv

LEMMA InitInv == EEIInit => EEIInv
<1> SUFFICES ASSUME EEIInit PROVE EEIInv
  OBVIOUS
<1> DEFINE chain == [now |-> 1, balance |-> Balance, reserved |-> NothingWritten]
           w == [current |-> NothingWritten, saved |-> NothingWritten]
<1>1. PICK contract \in Contracts : \E input \in contract.inputs :
               host = InitState(contract, input, EmptyStorage, chain)
  BY DEF EEIInit
<1>2. view = [current |-> NoView, saved |-> NoView, left |-> FALSE, nodeKeys |-> w]
  BY DEF EEIInit
<1>3. /\ IsStorage(EmptyStorage) /\ HoldsData(EmptyStorage)
      /\ \A a \in StoredAccounts, k \in AllKeys : EmptyStorage[a][k] = NoBytes
      /\ Self \in StoredAccounts
  BY NoBytesData DEF IsStorage, HoldsData, EmptyStorage, StoredAccounts
<1>4. IsChain(chain) /\ chain.reserved = NothingWritten
  BY NoBytesData DEF IsChain, NothingWritten
<1> HIDE DEF chain
<1>5. Starts(host, EmptyStorage) /\ host.chain = chain
  BY <1>1, <1>3, <1>4, InitStarts DEF InitState
<1>6. Matches(NoView, EmptyStorage[Self])
  <2>1. /\ DOMAIN NoView = {"numbers", "locks"}
        /\ NoView.numbers = [k \in NumberKeys |-> <<>>]
        /\ NoView.locks = [k \in ContractKeys |-> 0]
    BY DEF NoView
  <2>2. 0 \in Int64s
    BY Sizes DEF Int64s, Signed
  <2>3. \A k \in ContractKeys : EmptyStorage[Self][CustomStorageKey(k)].val = 0
    BY <1>3, KeySets, NoBytesData
  <2> QED
    BY <2>1, <2>2, <2>3 DEF Matches, NumberIs
<1>7. /\ Backed(host) /\ ModesAre(host, FALSE)
      /\ Matches(NoView, OwnStorage(host)) /\ Matches(NoView, host.node[Self])
  BY <1>5, <1>6, StartedRight
<1>8. RefundBacked
  BY <1>7, RefundIs
<1>9. LockReported /\ ReservedReadsFresh
  BY <1>5 DEF Starts, LockReported, ReservedReadsFresh, NoAnswer
<1>10. /\ DOMAIN view = ViewFields /\ view.current = NoView
       /\ view.saved = NoView /\ view.left = FALSE /\ view.nodeKeys = w
  BY <1>2 DEF ViewFields
<1>13. NodeKept(host, view.nodeKeys)
  BY <1>3, <1>4, <1>5, <1>10, NodeKeyIs DEF NodeKept, Starts, NothingWritten
<1>11. ModesAre(host, view.left) /\ view.left \in BOOLEAN
  BY <1>7, <1>10
<1>12. IsHost(host)
  BY <1>5 DEF Starts
<1> QED
  BY <1>7, <1>8, <1>9, <1>10, <1>11, <1>12, <1>13 DEF EEIInv

LEMMA NextInv == EEIInv /\ [EEINext]_eeiVars => EEIInv'
<1> SUFFICES ASSUME EEIInv, [EEINext]_eeiVars PROVE EEIInv'
  OBVIOUS
<1>1. CASE UNCHANGED <<host, view>>
  BY <1>1 DEF EEIInv, NodeKept, RefundBacked, LengthOf, LockReported, ReservedReadsFresh
<1> QED
  BY <1>1, ContractKeeps, BuiltInKeeps, TransactionKeeps DEF EEINext, MemoryStep, eeiVars

THEOREM EEIInvariant == EEISpec => []EEIInv
  BY InitInv, NextInv, PTL DEF EEISpec

-----------------------------------------------------------------------------
(* The theorems.                                                            *)

\* Every step of the EEI is one of the memory, or none.
LEMMA MemoryStepOrNone == [EEINext]_eeiVars => [MemNext]_memVars
  BY DEF EEINext, ContractStep, MemoryStep, BuiltInFunction, NextTransaction,
         eeiVars, memVars

LEMMA MemoryIsRun == EEISpec => MemSpec
<1>1. EEIInit => MemInit
  BY DEF EEIInit
<1> QED
  BY <1>1, MemoryStepOrNone, PTL DEF EEISpec, MemSpec

(* Whatever contracts a transaction runs and whatever they call, no slice   *)
(* of the memory that the EEI takes for them lies beyond it (MemLoad,       *)
(* MemLoadMultiple and MemStore, arwen/contexts/runtime.go).                *)
THEOREM EEIMemorySafe == EEISpec => []SliceWithinMemory
  BY MemoryIsRun, MemorySafe, PTL

(* The contexts keep their types: whichever functions of the EEI a contract *)
(* calls, with whichever inputs, the numbers and byte strings that bigIntOps *)
(* and storage.go compute stay within their lengths, the gas counters within *)
(* the naturals, and the read-only mode is on only inside an executeReadOnly. *)
THEOREM EEITypesHold == EEISpec => []EEITypeOK
<1>1. EEIInv /\ MemTypeOK => EEITypeOK
  <2> SUFFICES ASSUME EEIInv, MemTypeOK PROVE EEITypeOK
    OBVIOUS
  <2>1. IsHost(host) /\ ModesAre(host, view.left)
    BY DEF EEIInv
  <2>2. /\ host.state \in {"running", "failed", "userError", "panicked"}
        /\ host.used \in Nat /\ host.refund \in Nat /\ host.stored \in Nat
        /\ DOMAIN host.big \subseteq AllHandles
        /\ \A i \in DOMAIN host.big : host.big[i] \in Int
    BY <2>1 DEF IsHost, IsBig, Number, States
  <2>3. \A a \in StoredAccounts, k \in AllKeys :
            LET b == host.updates[a][k]
            IN b = NotCached \/ (b.len \in Nat /\ b.val \in 0 .. Values(b.len) - 1)
    <3> SUFFICES ASSUME NEW a \in StoredAccounts, NEW k \in AllKeys,
                        NEW b, b = host.updates[a][k], IsData(b)
                 PROVE  b.len \in Nat /\ b.val \in 0 .. Values(b.len) - 1
      BY <2>1 DEF IsHost, CachesData
    <3>1. b.len \in Nat /\ b.val \in Nat /\ b.val < Values(b.len) /\ Values(b.len) \in Nat
      BY DataAre, ValuesAre DEF IsData
    <3> QED
      BY <3>1
  <2>4. host.readOnly => \E i \in DOMAIN host.frames : host.frames[i].f = "executeReadOnly"
    BY <2>1, InReadOnlyIs DEF ModesAre, ModeIs, InReadOnly
  <2> QED
    BY <2>2, <2>3, <2>4 DEF EEITypeOK
<1> QED
  BY <1>1, EEIInvariant, MemoryIsRun, MemTypesHold, PTL

(* SetStorage never gives back gas for bytes nobody has paid for: over a     *)
(* whole transaction, with calls into other contracts and built-in functions *)
(* between its stores, the refunds and what could still be released stay     *)
(* within what the storage was worth before it and what it paid.             *)
THEOREM RefundsBacked == EEISpec => []RefundBacked
<1>1. EEIInv => RefundBacked
  BY DEF EEIInv
<1> QED
  BY <1>1, EEIInvariant, PTL

(* isStorageLocked tells of the lock that setStorageLock has set, in this    *)
(* transaction or in an earlier one that succeeded, for every timestamp of an *)
(* int64 that is not negative (LockReported leaves the negative ones out:     *)
(* big.Int.Bytes drops their sign before they are stored).                   *)
THEOREM LocksAreReported == EEISpec => []LockReported
<1>1. EEIInv => LockReported
  BY DEF EEIInv
<1> QED
  BY <1>1, EEIInvariant, PTL

(* For a reserved key of the contract's own account or of a readable one,    *)
(* storageLoadFromAddress answers what a built-in function wrote last, an     *)
(* empty value included, in this transaction or an earlier one that succeeded: *)
(* GetStorageFromAddress asks the Node, SetStorage refuses the key, and the   *)
(* copies that other loads leave in the cache are neither answered nor saved. *)
THEOREM ReservedKeysFresh == EEISpec => []ReservedReadsFresh
<1>1. EEIInv => ReservedReadsFresh
  BY DEF EEIInv
<1> QED
  BY <1>1, EEIInvariant, PTL

(* An int64 stored by smallIntStorageStore is what the load of the same      *)
(* signedness decodes, in this transaction and in later ones: the encodings  *)
(* are inverse to each other on all the values of an int64.                  *)
THEOREM NumbersAreKept == EEISpec => []NumbersKept
<1>1. EEIInv => NumbersKept
  <2> SUFFICES ASSUME EEIInv, NEW k \in NumberKeys, view.current.numbers[k] # <<>>
               PROVE  LET n == view.current.numbers[k]
                          b == Held(host, Self, k)
                      IN IF n[1] = "unsigned"
                         THEN DecodeUnsigned(b) = [ok |-> TRUE, value |-> n[2]]
                         ELSE DecodeSigned(b) = [ok |-> TRUE, value |-> n[2]]
    BY DEF NumbersKept
  <2> DEFINE n == view.current.numbers[k]
             b == Held(host, Self, k)
  <2>1. OwnStorage(host)[k] = b
    BY KeySets DEF OwnStorage
  <2>2. NumberIs(n, b)
    BY <2>1 DEF EEIInv, Matches
  <2> HIDE DEF n, b
  <2>3. ASSUME NEW x \in Int64s, n = <<"unsigned", x>>, b = EncodeUnsigned(x)
        PROVE  n[1] = "unsigned" /\ DecodeUnsigned(b) = [ok |-> TRUE, value |-> n[2]]
    BY <2>3, UnsignedTrip
  <2>4. ASSUME NEW x \in Int64s, n = <<"signed", x>>, b = EncodeSigned(x)
        PROVE  n[1] # "unsigned" /\ DecodeSigned(b) = [ok |-> TRUE, value |-> n[2]]
    <3>1. n[1] = "signed" /\ n[2] = x
      BY <2>4
    <3> QED
      BY <2>4, <3>1, SignedTrip
  <2>5. IF n[1] = "unsigned" THEN DecodeUnsigned(b) = [ok |-> TRUE, value |-> n[2]]
        ELSE DecodeSigned(b) = [ok |-> TRUE, value |-> n[2]]
    <3>1. n # <<>>
      BY DEF n
    <3> QED
      BY <2>2, <2>3, <2>4, <3>1 DEF NumberIs
  <2> QED
    BY <2>5 DEF n, b
<1> QED
  BY <1>1, EEIInvariant, PTL

\* The size of every big integer is paid for, beyond what is free: what a function
\* computes from its operands is at most one byte longer than they are together,
\* and useExtraGasForOperations has charged for each of them (for the result, where
\* it is a shift); a number read from storage or memory is copied for gas; and a
\* caller's numbers, kept while a contract it called runs, were paid for before.
THEOREM SizesArePaid == EEISpec => []SizesPaid
<1>1. EEIInv => SizesPaid
  BY DEF EEIInv, IsHost, Sized, AllAfforded, Afforded, SizesPaid
<1> QED
  BY <1>1, EEIInvariant, PTL

(* Between an executeReadOnly and its end no call stores or logs anything,   *)
(* however deep it is nested, as long as no inner executeReadOnly has ended  *)
(* (which switches the mode off: ReturnFromCall).                            *)
THEOREM ReadOnlyIsKept == EEISpec => ReadOnlyHolds
<1> DEFINE A == InReadOnly(host) /\ InReadOnly(host') /\ ~view.left
                   => /\ \A a \in StoredAccounts, k \in OwnKeys :
                             Held(host', a, k) = Held(host, a, k)
                      /\ host'.logs = host.logs
<1>1. EEIInv /\ [EEINext]_eeiVars => [A]_eeiVars
  <2> SUFFICES ASSUME EEIInv, EEINext, InReadOnly(host), InReadOnly(host'), ~view.left
               PROVE  /\ \A a \in StoredAccounts, k \in OwnKeys :
                             Held(host', a, k) = Held(host, a, k)
                      /\ host'.logs = host.logs
    OBVIOUS
  <2>1. IsHost(host) /\ host.readOnly
    BY InReadOnlyIs DEF EEIInv, ModesAre, ModeIs
  <2>2. CASE ContractStep
    <3>1. StepOfContract
      BY <2>2 DEF ContractStep, StepOfContract
    <3>2. ~(NumberStore(host, host') \/ PlainStore(host, host') \/ LockStore(host, host')
              \/ LogStep(host, host'))
      BY <2>1 DEF NumberStore, PlainStore, LockStore, LogStep, Writes
    <3>3. StoresNothing(host, host') /\ host'.logs = host.logs
      BY <2>1, <3>1, <3>2, StepKinds, NothingStored
         DEF PlainStep, AddressLoad, LockAsk, Quiet, Enters, Returns, SameStores
    <3> QED
      BY <3>3, NothingStoredSame DEF OwnKeys
  <2>3. CASE MemoryStep
    BY <2>3 DEF MemoryStep
  <2>4. CASE BuiltInFunction
    BY <2>4 DEF BuiltInFunction, InReadOnly
  <2>5. CASE NextTransaction
    <3>1. host'.frames = <<>>
      BY <2>5 DEF NextTransaction, InitState
    <3> QED
      BY <3>1 DEF InReadOnly
  <2> QED
    BY <2>2, <2>3, <2>4, <2>5 DEF EEINext
<1> QED
  BY <1>1, EEIInvariant, PTL DEF EEISpec, ReadOnlyHolds

(* bigIntNew never answers a handle that is in use (managedBigInts, Put):    *)
(* the numbers under the others stay, however they came to be.               *)
THEOREM HandlesAreKept == EEISpec => HandlesKept
<1> DEFINE A == bigIntNew => \A i \in DOMAIN host.big :
                                 i \in DOMAIN host'.big /\ host'.big[i] = host.big[i]
<1>1. EEIInv /\ [EEINext]_eeiVars => [A]_eeiVars
  BY NewPlain DEF EEIInv
<1> QED
  BY <1>1, EEIInvariant, PTL DEF EEISpec, HandlesKept
=============================================================================
