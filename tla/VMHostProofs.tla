---------------------------- MODULE VMHostProofs ----------------------------
(***************************************************************************)
(* The invariants of VMHost, for any contracts, costs, amounts of gas and  *)
(* depth of the calls.                                                     *)
(*                                                                         *)
(* A nested execution pushes what its caller had onto seven stacks, and    *)
(* its frame remembers it too (before).  The inductive invariant says that *)
(* the stacks hold, level by level, what the frames remember, and that     *)
(* every level is well formed; the properties follow from it.              *)
(***************************************************************************)
EXTENDS VMHost, SumProofs, SequenceTheorems, TLAPS

-----------------------------------------------------------------------------
(* Well-formed contexts.                                                    *)

HostFields ==
    {"output", "outputStack", "metering", "meteringStack", "runtime",
     "runtimeStack", "instance", "instanceStack", "points", "bigInt",
     "bigIntStack", "storageAddress", "storageStack", "world", "snapshots"}
OutputFields == {"accounts", "returnCode", "gasRemaining", "returnsToken"}
MeteringFields ==
    {"initialGasProvided", "initialCost", "gasForExecution", "gasUsedByAccounts"}

Transfers == [gasLimit : Nat, gasLocked : Nat]
AccountType ==
    [balanceDelta : Int, storage : StorageValues \cup {NoValue}, gasUsed : Nat,
     outputTransfers : Seq(Transfers)]
KnownCallTypes == {"DirectCall", "AsynchronousCall", "AsynchronousCallBack"}
RuntimeType ==
    [scAddress : Accounts, caller : Accounts, callType : KnownCallTypes,
     callValue : Nat, gasLocked : Nat]
PointsType == [1 .. MaxInstances -> Nat]

IsOutput(o) ==
    /\ DOMAIN o = OutputFields
    /\ DOMAIN o.accounts \subseteq Accounts
    /\ IsFiniteSet(DOMAIN o.accounts)
    /\ \A a \in DOMAIN o.accounts : o.accounts[a] \in AccountType
    /\ o.gasRemaining \in Nat

IsGasUsed(u) == DOMAIN u \subseteq Accounts /\ \A a \in DOMAIN u : u[a] \in Nat

IsMetering(m) ==
    /\ DOMAIN m = MeteringFields
    /\ m.initialGasProvided \in Nat /\ m.initialCost \in Nat
    /\ m.gasForExecution \in Nat
    /\ IsGasUsed(m.gasUsedByAccounts)

IsInput(input) ==
    /\ input.caller \in Accounts /\ input.recipient \in Accounts
    /\ input.value \in Nat /\ input.gas \in Nat
    /\ input.callType \in KnownCallTypes

(* The contexts that live on between two transactions, and those of a       *)
(* transaction.                                                             *)
IdleHost(h) ==
    /\ DOMAIN h = HostFields
    /\ IsOutput(h.output) /\ IsMetering(h.metering)
    /\ h.points \in PointsType /\ h.instance \in 0 .. MaxInstances
    /\ h.bigInt \in 0 .. MaxBigInts /\ h.world \in Nat

IsHost(h) ==
    /\ IdleHost(h)
    /\ h.runtime \in RuntimeType /\ h.storageAddress \in Accounts

\* The contract that runs has an output account.
Present(output, runtime) == runtime.scAddress \in DOMAIN output.accounts

-----------------------------------------------------------------------------
(* Value: the balance changes of an output sum up to v, and no contract has *)
(* less than nothing.                                                       *)

Deltas(o) == [a \in DOMAIN o.accounts |-> o.accounts[a].balanceDelta]
DeltaOf(o, a) == GetOutputAccount(o, a).balanceDelta
Conserves(o, v) ==
    /\ SumFunction(Deltas(o)) = v
    /\ \A a \in Contracts : Balance[a] + DeltaOf(o, a) >= 0

-----------------------------------------------------------------------------
(* The levels: frame i + 1 was entered from level i.                        *)

IsStack(s, n) == s = [i \in 1 .. n |-> s[i]]

IsLedger(l) ==
    /\ DOMAIN l = {"burnt", "forwarded", "unfunded", "unchecked"}
    /\ l.burnt \in [Accounts -> Nat]

\* What frame f remembers of its caller.
IsFrame(f, i, v) ==
    /\ f.kind = "top" <=> i = 1
    /\ IsInput(f.input) /\ IsLedger(f.ledger)
    /\ f.kind = "asyncDest" => f.input.recipient \in Contracts
    /\ i > 1 => f.before.runtime.scAddress \in Contracts
    /\ IsOutput(f.before.output) /\ Conserves(f.before.output, v)
    /\ f.before.bigInt \in 0 .. MaxBigInts
    /\ f.before.world \in Nat
    /\ f.kind = "esdt" => f.before.world # 0
    /\ f.before.storageAddress \in Accounts
    /\ f.before.runtime \in RuntimeType
    /\ Present(f.before.output, f.before.runtime)
    /\ IsGasUsed(f.before.gasUsedByAccounts)

\* What the stacks of h hold for it, in the i-th place.
Saved(h, b, i) ==
    /\ h.outputStack[i] = mergeVMOutputs(newVMOutput, b.output)
    /\ IsMetering(h.meteringStack[i])
    /\ h.meteringStack[i].gasUsedByAccounts = b.gasUsedByAccounts
    /\ h.runtimeStack[i] = b.runtime
    /\ h.instanceStack[i] = i /\ i <= MaxInstances
    /\ h.bigIntStack[i] = b.bigInt
    /\ h.snapshots[i] = b.world

\* Only executions on another context push the storage context.
Others(fs, n) == {i \in 2 .. n : fs[i].kind # "same"}
StorageDepth(fs, n) == Cardinality(Others(fs, n))

\* The storage address and the accounts of the output at level i.
AddressAt(h, fs, i) ==
    IF i = Len(fs) THEN h.storageAddress ELSE fs[i + 1].before.storageAddress
AccountsAt(h, fs, i) ==
    IF i = Len(fs) THEN DOMAIN h.output.accounts
                   ELSE DOMAIN fs[i + 1].before.output.accounts

StackSizes(h, n, d) ==
    /\ IsStack(h.outputStack, n) /\ IsStack(h.meteringStack, n)
    /\ IsStack(h.runtimeStack, n) /\ IsStack(h.instanceStack, n)
    /\ IsStack(h.bigIntStack, n) /\ IsStack(h.snapshots, n)
    /\ IsStack(h.storageStack, d)

IsCallStack(fs, v) ==
    /\ Len(fs) \in Nat \ {0} /\ IsStack(fs, Len(fs))
    /\ \A i \in 1 .. Len(fs) : IsFrame(fs[i], i, v)

Level(h, fs, v) ==
    /\ IsHost(h) /\ Conserves(h.output, v)
    /\ IsCallStack(fs, v)
    /\ StackSizes(h, Len(fs) - 1, StorageDepth(fs, Len(fs)))
    /\ \A i \in 2 .. Len(fs) : Saved(h, fs[i].before, i - 1)
    /\ \A i \in Others(fs, Len(fs)) :
          h.storageStack[StorageDepth(fs, i)] = fs[i].before.storageAddress
    /\ \A i \in 2 .. Len(fs) :
          /\ fs[i].kind = "same" =>
                AddressAt(h, fs, i) = fs[i].before.storageAddress
          /\ DOMAIN fs[i].before.output.accounts \subseteq AccountsAt(h, fs, i)

(* The level of a contract that can go on: it has the instance of its       *)
(* level.                                                                   *)
Active(h, fs, v) ==
    /\ Level(h, fs, v)
    /\ h.instance = Len(fs)
    /\ h.runtime.scAddress \in Contracts
    /\ Present(h.output, h.runtime)

VMInv ==
    /\ exit = "idle" => frames = << >> /\ IdleHost(host) /\ StackSizes(host, 0, 0)
    /\ exit # "idle" => Level(host, frames, frames[1].input.value)
    /\ exit = "running" => Active(host, frames, frames[1].input.value)
    /\ IsLedger(ledger)
    /\ txs \in 0 .. MaxTransactions

-----------------------------------------------------------------------------
(* Stacks.                                                                  *)

LEMMA StackIsSeq ==
    ASSUME NEW n \in Nat, NEW s, IsStack(s, n)
    PROVE  \E S : s \in Seq(S) /\ Len(s) = n /\ DOMAIN s = 1 .. n
<1>1. s \in [1 .. n -> {s[i] : i \in 1 .. n}]
  BY DEF IsStack
<1>2. s \in Seq({s[i] : i \in 1 .. n}) /\ Len(s) = n /\ DOMAIN s = 1 .. n
  BY <1>1
<1> QED
  BY <1>2

LEMMA StackLen ==
    ASSUME NEW n \in Nat, NEW s, IsStack(s, n)
    PROVE  Len(s) = n /\ DOMAIN s = 1 .. n
  BY StackIsSeq

LEMMA EmptyStack ==
    /\ IsStack(<< >>, 0)
    /\ \A s : IsStack(s, 0) => s = << >>
<1>1. << >> \in [1 .. 0 -> {}]
  OBVIOUS
<1> QED
  BY <1>1 DEF IsStack

\* t is the stack s of n elements with e on top, or without its top.
PushOf(t, s, n, e) ==
    /\ IsStack(t, n + 1) /\ t[n + 1] = e
    /\ \A i \in 1 .. n : t[i] = s[i]
PopOf(t, s, n) ==
    /\ IsStack(t, n - 1)
    /\ \A i \in 1 .. n - 1 : t[i] = s[i]

(* What pushing an element does to a stack. *)
LEMMA StackPush ==
    ASSUME NEW n \in Nat, NEW s, IsStack(s, n), NEW e
    PROVE  PushOf(Append(s, e), s, n, e)
<1>1. PICK S : s \in Seq(S) /\ Len(s) = n
  BY StackIsSeq
<1>2. s \in Seq(S \cup {e}) /\ e \in S \cup {e}
  BY <1>1, SeqMonotonic
<1>3. /\ Append(s, e) \in Seq(S \cup {e}) /\ Len(Append(s, e)) = n + 1
      /\ \A i \in 1 .. n : Append(s, e)[i] = s[i]
      /\ Append(s, e)[n + 1] = e
  BY <1>1, <1>2, AppendProperties
<1>4. Append(s, e) \in [1 .. n + 1 -> S \cup {e}]
  BY <1>3, LenProperties
<1> QED
  BY <1>3, <1>4 DEF IsStack, PushOf

(* What popping one does. *)
LEMMA StackPop ==
    ASSUME NEW n \in Nat \ {0}, NEW s, IsStack(s, n)
    PROVE  PopOf(Pop(s), s, n) /\ Top(s) = s[n]
<1>1. PICK S : s \in Seq(S) /\ Len(s) = n
  BY StackIsSeq
<1>2. \A i \in 1 .. n - 1 : s[i] \in S
  BY <1>1, ElementOfSeq
<1>3. /\ Pop(s) \in Seq(S) /\ Len(Pop(s)) = n - 1
      /\ \A i \in 1 .. n - 1 : Pop(s)[i] = s[i]
  <2>1. /\ SubSeq(s, 1, n - 1) \in Seq(S)
        /\ Len(SubSeq(s, 1, n - 1)) = IF 1 <= n - 1 THEN n - 1 - 1 + 1 ELSE 0
        /\ \A i \in 1 .. n - 1 - 1 + 1 : SubSeq(s, 1, n - 1)[i] = s[1 + i - 1]
    BY <1>2, SubSeqProperties
  <2> QED
    BY <1>1, <2>1 DEF Pop
<1>4. Pop(s) \in [1 .. n - 1 -> S]
  BY <1>3, LenProperties
<1> QED
  BY <1>1, <1>3, <1>4 DEF IsStack, Top, PopOf

(* The depth of the storage stack, which executions on the same context do  *)
(* not push.                                                                *)
LEMMA StorageDepths ==
    ASSUME NEW fs, NEW n \in Nat \ {0}
    PROVE  /\ StorageDepth(fs, 1) = 0
           /\ StorageDepth(fs, n) \in Nat
           /\ \A i \in 1 .. n : StorageDepth(fs, i) <= StorageDepth(fs, n)
           /\ n > 1 => StorageDepth(fs, n) = StorageDepth(fs, n - 1)
                            + (IF fs[n].kind = "same" THEN 0 ELSE 1)
<1>1. \A i \in 1 .. n : IsFiniteSet(Others(fs, i)) /\ StorageDepth(fs, i) \in Nat
  <2> SUFFICES ASSUME NEW i \in 1 .. n
               PROVE  IsFiniteSet(Others(fs, i)) /\ StorageDepth(fs, i) \in Nat
    OBVIOUS
  <2>1. IsFiniteSet(2 .. i) /\ Others(fs, i) \subseteq 2 .. i
    BY FS_Interval DEF Others
  <2> QED
    BY <2>1, FS_Subset, FS_CardinalityType DEF StorageDepth
<1>2. StorageDepth(fs, 1) = 0
  BY FS_EmptySet DEF StorageDepth, Others
<1>3. ASSUME NEW i \in 1 .. n PROVE StorageDepth(fs, i) <= StorageDepth(fs, n)
  <2>1. Others(fs, i) \subseteq Others(fs, n)
    BY DEF Others
  <2> QED
    BY <1>1, <2>1, FS_Subset DEF StorageDepth
<1>4. ASSUME n > 1
      PROVE  StorageDepth(fs, n) = StorageDepth(fs, n - 1)
                 + (IF fs[n].kind = "same" THEN 0 ELSE 1)
  <2>1. CASE fs[n].kind = "same"
    <3>1. Others(fs, n) = Others(fs, n - 1)
      BY <1>4, <2>1 DEF Others
    <3> QED
      BY <1>1, <1>4, <2>1, <3>1 DEF StorageDepth
  <2>2. CASE fs[n].kind # "same"
    <3>1. /\ Others(fs, n) = Others(fs, n - 1) \cup {n}
          /\ n \notin Others(fs, n - 1)
      BY <1>4, <2>2 DEF Others
    <3>2. n - 1 \in 1 .. n
      BY <1>4
    <3>3. Cardinality(Others(fs, n - 1) \cup {n}) = Cardinality(Others(fs, n - 1)) + 1
      BY <1>1, <3>1, <3>2, FS_AddElement
    <3> QED
      BY <2>2, <3>1, <3>3 DEF StorageDepth
  <2> QED
    BY <2>1, <2>2
<1> QED
  BY <1>1, <1>2, <1>3, <1>4

(* It depends on the frames below only. *)
LEMMA SameDepth ==
    ASSUME NEW fs, NEW gs, NEW n \in Nat, \A i \in 1 .. n : gs[i] = fs[i]
    PROVE  Others(gs, n) = Others(fs, n) /\ StorageDepth(gs, n) = StorageDepth(fs, n)
  BY DEF Others, StorageDepth

-----------------------------------------------------------------------------
(* Outputs.                                                                 *)

LEMMA NewOutputs ==
    /\ NewVMOutputAccount \in AccountType
    /\ IsOutput(newVMOutput) /\ DOMAIN newVMOutput.accounts = {}
<1>1. << >> \in Seq(Transfers)
  BY EmptySeq
<1>2. NewVMOutputAccount \in AccountType
  BY <1>1 DEF NewVMOutputAccount, AccountType
<1>3. DOMAIN newVMOutput.accounts = {}
  BY EmptyStack DEF newVMOutput, IsStack
<1> QED
  BY <1>2, <1>3, FS_EmptySet DEF IsOutput, newVMOutput, OutputFields

LEMMA GotAccount ==
    ASSUME NEW o, IsOutput(o), NEW a
    PROVE  GetOutputAccount(o, a) \in AccountType /\ DeltaOf(o, a) \in Int
<1>1. GetOutputAccount(o, a) \in AccountType
  BY NewOutputs DEF GetOutputAccount, IsOutput
<1> QED
  BY <1>1 DEF DeltaOf, AccountType

\* p is o with the account of a.
AccountSet(p, o, a, account) ==
    /\ IsOutput(p)
    /\ DOMAIN p.accounts = DOMAIN o.accounts \cup {a}
    /\ p.accounts[a] = account
    /\ \A x \in DOMAIN o.accounts \ {a} : p.accounts[x] = o.accounts[x]
    /\ p.returnCode = o.returnCode /\ p.gasRemaining = o.gasRemaining
    /\ p.returnsToken = o.returnsToken

LEMMA SetAccount ==
    ASSUME NEW o, IsOutput(o), NEW a \in Accounts, NEW account \in AccountType
    PROVE  AccountSet(SetOutputAccount(o, a, account), o, a, account)
<1>0. PICK p : p = SetOutputAccount(o, a, account)
  OBVIOUS
<1>1. /\ p.accounts = [x \in DOMAIN o.accounts \cup {a} |->
                           IF x = a THEN account ELSE o.accounts[x]]
      /\ DOMAIN p = OutputFields /\ p.returnCode = o.returnCode
      /\ p.gasRemaining = o.gasRemaining /\ p.returnsToken = o.returnsToken
  BY <1>0 DEF SetOutputAccount, IsOutput, OutputFields
<1>2. IsFiniteSet(DOMAIN o.accounts \cup {a})
  BY FS_AddElement DEF IsOutput
<1>3. AccountSet(p, o, a, account)
  BY <1>1, <1>2 DEF IsOutput, AccountSet
<1> QED
  BY <1>0, <1>3

LEMMA MergedTransfers ==
    ASSUME NEW l \in Seq(Transfers), NEW r \in Seq(Transfers)
    PROVE  l \o SubSeq(r, Len(l) + 1, Len(r)) \in Seq(Transfers)
<1>1. \A i \in Len(l) + 1 .. Len(r) : r[i] \in Transfers
  BY ElementOfSeq
<1>2. SubSeq(r, Len(l) + 1, Len(r)) \in Seq(Transfers)
  <2>1. Len(l) \in Nat /\ Len(r) \in Nat
    OBVIOUS
  <2>2. Len(l) + 1 \in Int /\ Len(r) \in Int
    BY <2>1
  <2> QED
    BY <1>1, <2>2, SubSeqProperties
<1> QED
  BY <1>2, ConcatProperties

LEMMA MergedAccounts ==
    ASSUME NEW left \in AccountType, NEW right \in AccountType
    PROVE  /\ mergeOutputAccounts(left, right) \in AccountType
           /\ mergeOutputAccounts(left, right).balanceDelta = right.balanceDelta
<1>1. left.outputTransfers \o SubSeq(right.outputTransfers,
          Len(left.outputTransfers) + 1, Len(right.outputTransfers)) \in Seq(Transfers)
  BY MergedTransfers DEF AccountType
<1> QED
  BY <1>1 DEF mergeOutputAccounts, AccountType

\* p is l with r merged into it.
MergeOf(p, l, r) ==
    /\ IsOutput(p)
    /\ DOMAIN p.accounts = DOMAIN l.accounts \cup DOMAIN r.accounts
    /\ \A a \in DOMAIN r.accounts :
          p.accounts[a].balanceDelta = r.accounts[a].balanceDelta
    /\ \A a \in DOMAIN l.accounts \ DOMAIN r.accounts :
          p.accounts[a] = l.accounts[a]
    /\ p.gasRemaining = r.gasRemaining

LEMMA MergedOutputs ==
    ASSUME NEW l, IsOutput(l), NEW r, IsOutput(r)
    PROVE  MergeOf(mergeVMOutputs(l, r), l, r)
<1>0. PICK p : p = mergeVMOutputs(l, r)
  OBVIOUS
<1>1. /\ DOMAIN p = OutputFields /\ p.gasRemaining = r.gasRemaining
      /\ DOMAIN p.accounts = DOMAIN l.accounts \cup DOMAIN r.accounts
      /\ \A a \in DOMAIN r.accounts : p.accounts[a] =
            mergeOutputAccounts(GetOutputAccount(l, a), r.accounts[a])
      /\ \A a \in DOMAIN l.accounts \ DOMAIN r.accounts :
            p.accounts[a] = l.accounts[a]
  BY <1>0 DEF mergeVMOutputs, OutputFields
<1>2. ASSUME NEW a \in DOMAIN r.accounts
      PROVE  /\ p.accounts[a] \in AccountType
             /\ p.accounts[a].balanceDelta = r.accounts[a].balanceDelta
  <2>1. GetOutputAccount(l, a) \in AccountType /\ r.accounts[a] \in AccountType
    BY GotAccount DEF IsOutput
  <2> QED
    BY <1>1, <2>1, MergedAccounts
<1>3. IsFiniteSet(DOMAIN p.accounts)
  <2>1. IsFiniteSet(DOMAIN l.accounts) /\ IsFiniteSet(DOMAIN r.accounts)
    BY DEF IsOutput
  <2>2. IsFiniteSet(DOMAIN l.accounts \cup DOMAIN r.accounts)
    BY <2>1, FS_Union
  <2> QED
    BY <1>1, <2>2
<1>4. MergeOf(p, l, r)
  BY <1>1, <1>2, <1>3 DEF IsOutput, MergeOf
<1> QED
  BY <1>0, <1>4

(* Merging into a new output keeps all that the Node will apply. *)
LEMMA MergedIntoNew ==
    ASSUME NEW o, IsOutput(o), NEW p, p = mergeVMOutputs(newVMOutput, o)
    PROVE  /\ IsOutput(p) /\ DOMAIN p.accounts = DOMAIN o.accounts
           /\ Effects(p) = Effects(o)
<1>1. IsOutput(p) /\ DOMAIN p.accounts = DOMAIN o.accounts
  <2>1. PICK n : n = newVMOutput
    OBVIOUS
  <2>2. IsOutput(n) /\ DOMAIN n.accounts = {} /\ p = mergeVMOutputs(n, o)
    BY <2>1, NewOutputs
  <2>3. MergeOf(p, n, o)
    BY <2>2, MergedOutputs
  <2> QED
    BY <2>2, <2>3 DEF MergeOf
<1>2. ASSUME NEW a \in DOMAIN o.accounts
      PROVE  /\ p.accounts[a].balanceDelta = o.accounts[a].balanceDelta
             /\ p.accounts[a].storage = o.accounts[a].storage
             /\ p.accounts[a].outputTransfers = o.accounts[a].outputTransfers
  <2>1. p.accounts[a] = mergeOutputAccounts(NewVMOutputAccount, o.accounts[a])
    BY NewOutputs DEF mergeVMOutputs, GetOutputAccount
  <2>2. o.accounts[a].outputTransfers \in Seq(Transfers)
    BY DEF IsOutput, AccountType
  <2> DEFINE t == o.accounts[a].outputTransfers
  <2>3. << >> \o SubSeq(t, Len(<< >>) + 1, Len(t)) = t
    <3>1. Len(<< >>) + 1 = 1
      BY EmptySeq
    <3>2. SubSeq(t, 1, Len(t)) = t
      BY <2>2, SubSeqFull
    <3>3. << >> \o t = t
      BY <2>2, ConcatEmptySeq
    <3> QED
      BY <3>1, <3>2, <3>3
  <2> QED
    BY <2>1, <2>3 DEF mergeOutputAccounts, NewVMOutputAccount
<1> QED
  BY <1>1, <1>2 DEF Effects

-----------------------------------------------------------------------------
(* Value.                                                                   *)

SumDeltas(o) == SumFunctionOnSet(Deltas(o), DOMAIN o.accounts)

\* p comes from o, with all of its accounts and no other value.
Carries(p, o) ==
    /\ IsOutput(p)
    /\ DOMAIN o.accounts \subseteq DOMAIN p.accounts
    /\ \A v : Conserves(o, v) => Conserves(p, v)

SameDeltas(p, o) ==
    /\ DOMAIN o.accounts \subseteq DOMAIN p.accounts
    /\ \A a \in DOMAIN p.accounts : p.accounts[a].balanceDelta = DeltaOf(o, a)

LEMMA DeltaFacts ==
    ASSUME NEW o, IsOutput(o)
    PROVE  /\ DOMAIN Deltas(o) = DOMAIN o.accounts
           /\ SumFunction(Deltas(o)) = SumDeltas(o)
           /\ \A a \in DOMAIN o.accounts : Deltas(o)[a] \in Int
           /\ \A a \in DOMAIN o.accounts : Deltas(o)[a] = o.accounts[a].balanceDelta
           /\ \A a \in DOMAIN o.accounts : Deltas(o)[a] = DeltaOf(o, a)
           /\ \A a : a \notin DOMAIN o.accounts => DeltaOf(o, a) = 0
<1>1. DOMAIN Deltas(o) = DOMAIN o.accounts
  BY DEF Deltas
<1>2. SumFunction(Deltas(o)) = SumDeltas(o)
  BY <1>1 DEF SumFunction, SumDeltas
<1>3. \A a \in DOMAIN o.accounts : Deltas(o)[a] = o.accounts[a].balanceDelta
  BY DEF Deltas
<1>4. \A a \in DOMAIN o.accounts : o.accounts[a].balanceDelta \in Int
  BY DEF IsOutput, AccountType
<1>5. \A a \in DOMAIN o.accounts : DeltaOf(o, a) = o.accounts[a].balanceDelta
  BY DEF DeltaOf, GetOutputAccount
<1>6. \A a : a \notin DOMAIN o.accounts => DeltaOf(o, a) = 0
  BY DEF DeltaOf, GetOutputAccount, NewVMOutputAccount
<1> QED
  BY <1>1, <1>2, <1>3, <1>4, <1>5, <1>6

LEMMA SameDeltasCarry ==
    ASSUME NEW p, IsOutput(p), NEW o, IsOutput(o), SameDeltas(p, o)
    PROVE  Carries(p, o)
<1> DEFINE S == DOMAIN p.accounts
           T == DOMAIN o.accounts
<1>1. IsFiniteSet(S) /\ IsFiniteSet(T) /\ T \in SUBSET S
  BY DEF IsOutput, SameDeltas
<1>2. /\ \A i \in S : Deltas(p)[i] \in Int
      /\ \A i \in S \ T : Deltas(p)[i] = 0
      /\ \A i \in T : Deltas(o)[i] \in Int /\ Deltas(p)[i] = Deltas(o)[i]
  BY DeltaFacts DEF SameDeltas
<1>3. SumFunctionOnSet(Deltas(p), S) = SumFunctionOnSet(Deltas(p), T)
  BY <1>1, <1>2, SumZeros
<1>4. SumFunctionOnSet(Deltas(p), T) = SumFunctionOnSet(Deltas(o), T)
  BY <1>1, <1>2, SumSame
<1>5. SumFunction(Deltas(p)) = SumFunction(Deltas(o))
  BY <1>3, <1>4, DeltaFacts DEF SumDeltas
<1>6. \A a : DeltaOf(p, a) = DeltaOf(o, a)
  BY DeltaFacts DEF SameDeltas
<1> QED
  BY <1>1, <1>5, <1>6 DEF Carries, Conserves

LEMMA CarriesTransitive ==
    ASSUME NEW p, NEW q, NEW r, Carries(p, q), Carries(q, r)
    PROVE  Carries(p, r)
  BY DEF Carries

LEMMA SetCarries ==
    ASSUME NEW o, IsOutput(o), NEW a \in Accounts, NEW account \in AccountType,
           account.balanceDelta = DeltaOf(o, a)
    PROVE  Carries(SetOutputAccount(o, a, account), o)
<1>0. PICK p : p = SetOutputAccount(o, a, account)
  OBVIOUS
<1>1. AccountSet(p, o, a, account)
  BY <1>0, SetAccount
<1>2. SameDeltas(p, o)
  BY <1>1, DeltaFacts DEF AccountSet, SameDeltas
<1>3. IsOutput(p)
  BY <1>1 DEF AccountSet
<1> QED
  BY <1>0, <1>2, <1>3, SameDeltasCarry

\* q is o with v added to the balance of a.
BalanceAdded(q, o, a, v) ==
    /\ IsOutput(q)
    /\ DOMAIN q.accounts = DOMAIN o.accounts \cup {a}
    /\ SumDeltas(q) = SumDeltas(o) + v /\ SumDeltas(o) \in Int
    /\ DeltaOf(q, a) = DeltaOf(o, a) + v
    /\ \A x : x # a => DeltaOf(q, x) = DeltaOf(o, x)

LEMMA SumOfDeltas ==
    ASSUME NEW o, IsOutput(o)
    PROVE  SumDeltas(o) \in Int
<1>1. IsFiniteSet(DOMAIN o.accounts)
  BY DEF IsOutput
<1>2. \A i \in DOMAIN o.accounts : Deltas(o)[i] \in Int
  BY DeltaFacts
<1>3. PICK g : /\ IsSum(g, Deltas(o), DOMAIN o.accounts)
               /\ \A U \in SUBSET DOMAIN o.accounts :
                      SumFunctionOnSet(Deltas(o), U) = g[U]
  BY <1>1, <1>2, SumsAreOneFunction
<1> QED
  BY <1>3 DEF SumDeltas, IsSum

LEMMA AddingBalance ==
    ASSUME NEW o, IsOutput(o), NEW a \in Accounts, NEW v \in Int
    PROVE  BalanceAdded(AddBalance(o, a, v), o, a, v)
<1> DEFINE account == [GetOutputAccount(o, a) EXCEPT !.balanceDelta = @ + v]
<1>0. PICK q : q = AddBalance(o, a, v)
  OBVIOUS
<1>1. account \in AccountType /\ account.balanceDelta = DeltaOf(o, a) + v
  BY GotAccount DEF AccountType, DeltaOf
<1>2. q = SetOutputAccount(o, a, account)
  BY <1>0 DEF AddBalance
<1> HIDE DEF account
<1>3. AccountSet(q, o, a, account)
  BY <1>1, <1>2, SetAccount
<1>4. IsOutput(q) /\ DOMAIN q.accounts = DOMAIN o.accounts \cup {a}
  BY <1>3 DEF AccountSet
<1>5. /\ DeltaOf(q, a) = DeltaOf(o, a) + v /\ DeltaOf(o, a) \in Int
      /\ \A x : x # a => DeltaOf(q, x) = DeltaOf(o, x)
  <2>1. GetOutputAccount(q, a) = account
    BY <1>3 DEF AccountSet, GetOutputAccount
  <2>2. \A x : x # a => GetOutputAccount(q, x) = GetOutputAccount(o, x)
    BY <1>3 DEF AccountSet, GetOutputAccount
  <2> QED
    BY <1>1, <2>1, <2>2, GotAccount DEF DeltaOf
<1>6. SumDeltas(q) = SumDeltas(o) + v
  <2> DEFINE S == DOMAIN o.accounts
  <2>1. /\ IsFiniteSet(S) /\ \A i \in S : Deltas(o)[i] \in Int
        /\ \A i \in S \cup {a} : Deltas(q)[i] \in Int
        /\ \A i \in S \ {a} : Deltas(q)[i] = Deltas(o)[i]
    <3>1. IsFiniteSet(S)
      BY DEF IsOutput
    <3>2. \A i \in S \cup {a} : Deltas(q)[i] \in Int
      BY <1>4, DeltaFacts
    <3>3. \A i \in S \ {a} : Deltas(q)[i] = Deltas(o)[i]
      BY <1>4, <1>5, DeltaFacts
    <3> QED
      BY <3>1, <3>2, <3>3, DeltaFacts
  <2>2. SumFunctionOnSet(Deltas(q), S \cup {a})
          = SumFunctionOnSet(Deltas(o), S) + Deltas(q)[a]
                - (IF a \in S THEN Deltas(o)[a] ELSE 0)
    <3> HIDE DEF S
    <3>1. PICK d, e : d = Deltas(o) /\ e = Deltas(q)
      OBVIOUS
    <3>2. /\ SumFunctionOnSet(d, S) \in Int /\ e[a] \in Int
          /\ a \in S => SumFunctionOnSet(e, S \cup {a})
                           = SumFunctionOnSet(d, S) + e[a] - d[a]
          /\ a \notin S => SumFunctionOnSet(e, S \cup {a})
                              = SumFunctionOnSet(d, S) + e[a]
      <4>1. IsFiniteSet(S)
        BY <2>1
      <4>2. \A i \in S : d[i] \in Int
        BY <2>1, <3>1
      <4>3. \A i \in S \cup {a} : e[i] \in Int
        BY <2>1, <3>1
      <4>4. \A i \in S \ {a} : e[i] = d[i]
        BY <2>1, <3>1
      <4> QED
        BY <4>1, <4>2, <4>3, <4>4, SumChange
    <3> QED
      BY <3>1, <3>2
  <2>3. Deltas(q)[a] - (IF a \in S THEN Deltas(o)[a] ELSE 0) = v
    <3>1. Deltas(q)[a] = DeltaOf(o, a) + v
      BY <1>4, <1>5, DeltaFacts
    <3>2. DeltaOf(o, a) = IF a \in S THEN Deltas(o)[a] ELSE 0
      BY DeltaFacts
    <3> QED
      BY <1>5, <3>1, <3>2
  <2>4. Deltas(q)[a] \in Int /\ (IF a \in S THEN Deltas(o)[a] ELSE 0) \in Int
    BY <2>1
  <2>5. /\ SumFunctionOnSet(Deltas(o), S) = SumDeltas(o)
        /\ SumFunctionOnSet(Deltas(q), S \cup {a}) = SumDeltas(q)
    BY <1>4 DEF SumDeltas
  <2> HIDE DEF S
  <2> QED
    BY <2>2, <2>3, <2>4, <2>5, SumOfDeltas
<1>7. BalanceAdded(q, o, a, v)
  BY <1>4, <1>5, <1>6, SumOfDeltas DEF BalanceAdded
<1> QED
  BY <1>0, <1>7

(* A transfer that the sender can afford. *)
LEMMA TransferCarries ==
    ASSUME NEW o, IsOutput(o), NEW dest \in Accounts, NEW sender \in Accounts,
           NEW v \in Nat, Balance[sender] + DeltaOf(o, sender) >= v,
           NEW p, p = AddBalance(AddBalance(o, sender, -v), dest, v)
    PROVE  Carries(p, o) /\ {sender, dest} \subseteq DOMAIN p.accounts
<1>1. PICK q : q = AddBalance(o, sender, -v)
  OBVIOUS
<1>2. BalanceAdded(q, o, sender, -v)
  BY <1>1, AddingBalance
<1>3. IsOutput(q) /\ p = AddBalance(q, dest, v)
  BY <1>1, <1>2 DEF BalanceAdded
<1>4. BalanceAdded(p, q, dest, v)
  BY <1>3, AddingBalance
<1>5. /\ IsOutput(p) /\ {sender, dest} \subseteq DOMAIN p.accounts
      /\ DOMAIN o.accounts \subseteq DOMAIN p.accounts
  BY <1>2, <1>4 DEF BalanceAdded
<1>6. SumFunction(Deltas(p)) = SumFunction(Deltas(o))
  <2>1. SumDeltas(p) = SumDeltas(o)
    BY <1>2, <1>4 DEF BalanceAdded
  <2> QED
    BY <1>5, <2>1, DeltaFacts
<1>7. ASSUME NEW a \in Contracts, Balance[a] + DeltaOf(o, a) >= 0
      PROVE  Balance[a] + DeltaOf(p, a) >= 0
  <2>1. Balance[a] \in Nat /\ DeltaOf(o, a) \in Int
    BY GotAccount, ContextsAssumption DEF Accounts
  <2>2. CASE a = sender
    <3>1. DeltaOf(p, a) = DeltaOf(o, a) - v + (IF a = dest THEN v ELSE 0)
      BY <1>2, <1>4, <2>1, <2>2 DEF BalanceAdded
    <3> QED
      BY <2>1, <2>2, <3>1
  <2>3. CASE a # sender
    <3>1. DeltaOf(p, a) = DeltaOf(o, a) + (IF a = dest THEN v ELSE 0)
      BY <1>2, <1>4, <2>1, <2>3 DEF BalanceAdded
    <3> QED
      BY <1>7, <2>1, <3>1
  <2> QED
    BY <2>2, <2>3
<1> QED
  BY <1>5, <1>6, <1>7 DEF Carries, Conserves

-----------------------------------------------------------------------------
(* What an operator leaves alone.                                           *)

SameBut(g, h, F) == DOMAIN g = HostFields /\ \A f \in HostFields \ F : g[f] = h[f]

OnlyPoints(g, h) == SameBut(g, h, {"points"}) /\ g.points \in PointsType

SameStacks(g, h) ==
    /\ g.outputStack = h.outputStack /\ g.meteringStack = h.meteringStack
    /\ g.runtimeStack = h.runtimeStack /\ g.instanceStack = h.instanceStack
    /\ g.bigIntStack = h.bigIntStack /\ g.storageStack = h.storageStack
    /\ g.snapshots = h.snapshots

\* g is h a little later, in the same execution.
Kept(g, h) ==
    /\ IsHost(g) /\ SameStacks(g, h)
    /\ g.storageAddress = h.storageAddress
    /\ g.runtime.scAddress = h.runtime.scAddress
    /\ Carries(g.output, h.output)
KeptHere(g, h) == Kept(g, h) /\ g.instance = h.instance

LEMMA KeptTransitive ==
    ASSUME NEW f, NEW g, NEW h
    PROVE  /\ Kept(f, g) /\ Kept(g, h) => Kept(f, h)
           /\ KeptHere(f, g) /\ KeptHere(g, h) => KeptHere(f, h)
  BY CarriesTransitive DEF Kept, KeptHere, SameStacks

LEMMA SameCarries ==
    ASSUME NEW o, IsOutput(o) PROVE Carries(o, o)
  BY DEF Carries

Inner == {"output", "points", "metering", "bigInt", "world", "runtime"}

LEMMA InnerKeeps ==
    ASSUME NEW h, IsHost(h), NEW g, SameBut(g, h, Inner),
           Carries(g.output, h.output), g.points \in PointsType,
           IsMetering(g.metering), g.bigInt \in 0 .. MaxBigInts, g.world \in Nat,
           g.runtime \in RuntimeType, g.runtime.scAddress = h.runtime.scAddress
    PROVE  KeptHere(g, h)
<1>1. /\ DOMAIN g = HostFields /\ SameStacks(g, h)
      /\ g.storageAddress = h.storageAddress /\ g.instance = h.instance
  BY DEF SameBut, SameStacks, HostFields, Inner
<1>2. IsOutput(g.output)
  BY DEF Carries
<1>3. IsHost(g)
  BY <1>1, <1>2 DEF IsHost, IdleHost
<1> QED
  BY <1>1, <1>3 DEF KeptHere, Kept

LEMMA OutputKeeps ==
    ASSUME NEW h, IsHost(h), NEW g, SameBut(g, h, {"output", "points"}),
           Carries(g.output, h.output), g.points \in PointsType
    PROVE  KeptHere(g, h)
<1>1. /\ SameBut(g, h, Inner) /\ g.metering = h.metering /\ g.bigInt = h.bigInt
      /\ g.world = h.world /\ g.runtime = h.runtime
  BY DEF SameBut, HostFields, Inner
<1> QED
  BY <1>1, InnerKeeps DEF IsHost, IdleHost

LEMMA PointsKeep ==
    ASSUME NEW h, IsHost(h), NEW g, OnlyPoints(g, h)
    PROVE  KeptHere(g, h)
<1>1. SameBut(g, h, {"output", "points"}) /\ g.output = h.output
  BY DEF OnlyPoints, SameBut, HostFields
<1>2. Carries(g.output, h.output)
  BY <1>1, SameCarries DEF IsHost, IdleHost
<1> QED
  BY <1>1, <1>2, OutputKeeps DEF OnlyPoints

LEMMA SubtractionIsNat ==
    ASSUME NEW a \in Nat, NEW b \in Nat
    PROVE  SubUint64(a, b) \in Nat /\ SubUint64(a, b) <= a
  BY DEF SubUint64

LEMMA GasIsNat ==
    ASSUME NEW h, IsHost(h)
    PROVE  /\ GetPointsUsed(h) \in Nat /\ GasLeft(h) \in Nat
           /\ GasSpentByContract(h) \in Nat
           /\ \A limit \in Nat : BoundGasLimit(h, limit) \in Nat
<1>1. h.points \in [1 .. MaxInstances -> Nat] /\ h.instance \in 0 .. MaxInstances
  BY DEF IsHost, IdleHost, PointsType
<1>2. h.metering.gasForExecution \in Nat /\ h.metering.initialCost \in Nat
  BY DEF IsHost, IdleHost, IsMetering
<1>3. GetPointsUsed(h) \in Nat
  BY <1>1, ContextsAssumption DEF GetPointsUsed
<1>4. GasLeft(h) \in Nat
  BY <1>2, <1>3, SubtractionIsNat DEF GasLeft
<1> QED
  BY <1>2, <1>3, <1>4 DEF GasSpentByContract, BoundGasLimit

LEMMA PointsSet ==
    ASSUME NEW h, IsHost(h), NEW p \in Nat
    PROVE  OnlyPoints(SetPointsUsed(h, p), h)
<1>1. PICK g : g = SetPointsUsed(h, p)
  OBVIOUS
<1>2. DOMAIN h = HostFields /\ h.points \in PointsType
  BY DEF IsHost, IdleHost
<1>3. SameBut(g, h, {"points"}) /\ g.points = [h.points EXCEPT ![h.instance] = p]
  BY <1>1, <1>2 DEF SetPointsUsed, SameBut, HostFields
<1>4. [h.points EXCEPT ![h.instance] = p] \in PointsType
  BY <1>2 DEF PointsType
<1> QED
  BY <1>1, <1>3, <1>4 DEF OnlyPoints

LEMMA GasUsed ==
    ASSUME NEW h, IsHost(h), NEW gas \in Nat
    PROVE  OnlyPoints(UseGas(h, gas), h) /\ OnlyPoints(RestoreGas(h, gas), h)
<1>1. GetPointsUsed(h) + gas \in Nat
  BY GasIsNat
<1>2. SubUint64(GetPointsUsed(h), gas) \in Nat
  BY GasIsNat, SubtractionIsNat
<1>3. OnlyPoints(h, h)
  BY DEF OnlyPoints, SameBut, IsHost, IdleHost
<1>4. OnlyPoints(UseGas(h, gas), h)
  BY <1>1, PointsSet DEF UseGas
<1>5. OnlyPoints(RestoreGas(h, gas), h)
  BY <1>2, <1>3, PointsSet DEF RestoreGas
<1> QED
  BY <1>4, <1>5

LEMMA GasUseKeeps ==
    ASSUME NEW h, IsHost(h), NEW gas \in Nat
    PROVE  KeptHere(UseGas(h, gas), h) /\ KeptHere(RestoreGas(h, gas), h)
  BY GasUsed, PointsKeep

-----------------------------------------------------------------------------
(* Operators on the output.                                                 *)

WithOutput(h, o) == [h EXCEPT !.output = o]

LEMMA OutputReplaced ==
    ASSUME NEW h, IsHost(h), NEW o, Carries(o, h.output)
    PROVE  /\ SameBut(WithOutput(h, o), h, {"output"})
           /\ WithOutput(h, o).output = o
           /\ KeptHere(WithOutput(h, o), h)
<1>1. PICK g : g = WithOutput(h, o)
  OBVIOUS
<1>2. DOMAIN h = HostFields /\ h.points \in PointsType
  BY DEF IsHost, IdleHost
<1>3. /\ SameBut(g, h, {"output"}) /\ SameBut(g, h, {"output", "points"})
      /\ g.output = o /\ g.points = h.points
  BY <1>1, <1>2 DEF WithOutput, SameBut, HostFields
<1>4. KeptHere(g, h)
  BY <1>2, <1>3, OutputKeeps
<1> QED
  BY <1>1, <1>3, <1>4

\* The accounts do not change, whatever the rest of the output does.
LEMMA SameAccountsCarry ==
    ASSUME NEW o, IsOutput(o), NEW p, DOMAIN p = OutputFields,
           p.accounts = o.accounts, p.gasRemaining \in Nat
    PROVE  Carries(p, o) /\ Effects(p) = Effects(o)
<1>1. IsOutput(p)
  BY DEF IsOutput
<1>2. SameDeltas(p, o)
  BY DEF SameDeltas, DeltaOf, GetOutputAccount
<1> QED
  BY <1>1, <1>2, SameDeltasCarry DEF Effects

LEMMA CensoredCarries ==
    ASSUME NEW o, IsOutput(o)
    PROVE  Carries(CensorVMOutput(o), o) /\ CensorVMOutput(o).accounts = o.accounts
<1>1. PICK p : p = CensorVMOutput(o)
  OBVIOUS
<1>2. DOMAIN p = OutputFields /\ p.accounts = o.accounts /\ p.gasRemaining \in Nat
  BY <1>1 DEF CensorVMOutput, IsOutput, OutputFields
<1> QED
  BY <1>1, <1>2, SameAccountsCarry

LEMMA StoringKeeps ==
    ASSUME NEW h, IsHost(h), NEW value \in StorageValues
    PROVE  KeptHere(SetStorage(h, value), h)
<1> DEFINE account == GetOutputAccount(h.output, h.storageAddress)
           stored == [account EXCEPT !.storage = value]
<1>1. IsOutput(h.output) /\ h.storageAddress \in Accounts
  BY DEF IsHost, IdleHost
<1>2. account \in AccountType /\ account.balanceDelta = DeltaOf(h.output, h.storageAddress)
  BY <1>1, GotAccount DEF DeltaOf
<1>3. stored \in AccountType /\ stored.balanceDelta = account.balanceDelta
  BY <1>2 DEF AccountType
<1>4. PICK o : o = SetOutputAccount(h.output, h.storageAddress, stored)
  OBVIOUS
<1>5. SetStorage(h, value) = WithOutput(h, o)
  BY <1>4 DEF SetStorage, WithOutput
<1> HIDE DEF stored, account
<1>6. Carries(o, h.output)
  BY <1>1, <1>2, <1>3, <1>4, SetCarries
<1> QED
  BY <1>5, <1>6, OutputReplaced

LEMMA OutputTransferCarries ==
    ASSUME NEW o, IsOutput(o), NEW dest \in Accounts, NEW gasLimit \in Nat,
           NEW gasLocked \in Nat
    PROVE  Carries(WithOutputTransfer(o, dest, gasLimit, gasLocked), o)
<1> DEFINE account == GetOutputAccount(o, dest)
           transfer == [gasLimit |-> gasLimit, gasLocked |-> gasLocked]
           added == Append(account.outputTransfers, transfer)
           sent == [account EXCEPT !.outputTransfers = added]
<1>1. account \in AccountType /\ account.balanceDelta = DeltaOf(o, dest)
  BY GotAccount DEF DeltaOf
<1>2. added \in Seq(Transfers)
  <2>1. account.outputTransfers \in Seq(Transfers) /\ transfer \in Transfers
    BY <1>1 DEF AccountType, Transfers
  <2> HIDE DEF account, transfer
  <2> QED
    BY <2>1, AppendProperties
<1>3. WithOutputTransfer(o, dest, gasLimit, gasLocked) = SetOutputAccount(o, dest, sent)
  BY DEF WithOutputTransfer
<1> HIDE DEF account, added
<1>4. sent \in AccountType /\ sent.balanceDelta = account.balanceDelta
  BY <1>1, <1>2 DEF AccountType
<1> HIDE DEF sent
<1> QED
  BY <1>1, <1>3, <1>4, SetCarries

LEMMA OutputTransferKeeps ==
    ASSUME NEW h, IsHost(h), NEW dest \in Accounts, NEW gasLimit \in Nat,
           NEW gasLocked \in Nat
    PROVE  KeptHere(AddOutputTransfer(h, dest, gasLimit, gasLocked), h)
<1>1. PICK o : o = WithOutputTransfer(h.output, dest, gasLimit, gasLocked)
  OBVIOUS
<1>2. AddOutputTransfer(h, dest, gasLimit, gasLocked) = WithOutput(h, o)
  BY <1>1 DEF AddOutputTransfer, WithOutput
<1>3. Carries(o, h.output)
  BY <1>1, OutputTransferCarries DEF IsHost, IdleHost
<1> QED
  BY <1>2, <1>3, OutputReplaced

LEMMA ValueTransferKeeps ==
    ASSUME NEW h, IsHost(h), NEW dest \in Accounts, NEW sender \in Accounts,
           NEW value \in Nat, GetBalance(h, sender) >= value
    PROVE  /\ KeptHere(TransferValueOnly(h, dest, sender, value), h)
           /\ dest \in DOMAIN TransferValueOnly(h, dest, sender, value).output.accounts
<1>1. PICK o : o = AddBalance(AddBalance(h.output, sender, -value), dest, value)
  OBVIOUS
<1>2. TransferValueOnly(h, dest, sender, value) = WithOutput(h, o)
  BY <1>1 DEF TransferValueOnly, WithOutput
<1>3. Balance[sender] + DeltaOf(h.output, sender) >= value
  BY DEF GetBalance, DeltaOf
<1>4. IsOutput(h.output)
  BY DEF IsHost, IdleHost
<1>5. Carries(o, h.output) /\ dest \in DOMAIN o.accounts
  BY <1>1, <1>3, <1>4, TransferCarries
<1> QED
  BY <1>2, <1>5, OutputReplaced

LEMMA TransferKeeps ==
    ASSUME NEW h, IsHost(h), NEW dest \in Accounts, NEW sender \in Accounts,
           NEW gasLimit \in Nat, NEW gasLocked \in Nat, NEW value \in Nat,
           GetBalance(h, sender) >= value
    PROVE  KeptHere(Transfer(h, dest, sender, gasLimit, gasLocked, value), h)
<1>1. PICK g : g = TransferValueOnly(h, dest, sender, value)
  OBVIOUS
<1>2. KeptHere(g, h)
  BY <1>1, ValueTransferKeeps
<1>3. IsHost(g)
  BY <1>2 DEF KeptHere, Kept
<1>4. PICK f : f = AddOutputTransfer(g, dest, gasLimit, gasLocked)
  OBVIOUS
<1>5. KeptHere(f, g)
  BY <1>3, <1>4, OutputTransferKeeps
<1>6. Transfer(h, dest, sender, gasLimit, gasLocked, value) = f
  BY <1>1, <1>4 DEF Transfer
<1> QED
  BY <1>2, <1>5, <1>6, KeptTransitive

-----------------------------------------------------------------------------
(* The accounting at the end of an execution.                               *)

\* g is h after a failure: the Node would apply the same to the accounts.
Fails(g, h) ==
    /\ KeptHere(g, h) /\ SameBut(g, h, {"output", "points"})
    /\ Present(h.output, h.runtime) => Effects(g.output) = Effects(h.output)

LEMMA FailExecutionFails ==
    ASSUME NEW h, IsHost(h)
    PROVE  Fails(FailExecution(h), h)
<1>1. PICK g : g = UseGas(h, GasLeft(h))
  OBVIOUS
<1>2. OnlyPoints(g, h)
  BY <1>1, GasIsNat, GasUsed
<1>3. KeptHere(g, h)
  BY <1>2, PointsKeep
<1>4. IsHost(g) /\ g.output = h.output /\ IsOutput(g.output)
  BY <1>2, <1>3 DEF OnlyPoints, SameBut, HostFields, KeptHere, Kept, IsHost, IdleHost
<1>5. PICK o : o = [g.output EXCEPT !.returnCode = "ExecutionFailed"]
  OBVIOUS
<1>6. DOMAIN o = OutputFields /\ o.accounts = g.output.accounts /\ o.gasRemaining \in Nat
  BY <1>4, <1>5 DEF IsOutput, OutputFields
<1>7. Carries(o, g.output) /\ Effects(o) = Effects(g.output)
  BY <1>4, <1>6, SameAccountsCarry
<1>8. FailExecution(h) = WithOutput(g, o)
  BY <1>1, <1>5 DEF FailExecution, WithOutput
<1>9. PICK f : f = WithOutput(g, o)
  OBVIOUS
<1>10. SameBut(f, g, {"output"}) /\ f.output = o /\ KeptHere(f, g)
  BY <1>4, <1>7, <1>9, OutputReplaced
<1>11. SameBut(f, h, {"output", "points"})
  BY <1>2, <1>10 DEF OnlyPoints, SameBut, HostFields
<1>12. KeptHere(f, h)
  BY <1>3, <1>10, KeptTransitive
<1> QED
  BY <1>4, <1>7, <1>8, <1>9, <1>10, <1>11, <1>12 DEF Fails

LEMMA FailureUpdateFails ==
    ASSUME NEW h, IsHost(h)
    PROVE  Fails(UpdateGasStateOnFailure(h), h)
<1>1. PICK a : a = h.runtime.scAddress
  OBVIOUS
<1>2. a \in Accounts /\ IsOutput(h.output) /\ h.metering.initialGasProvided \in Nat
  BY <1>1 DEF IsHost, IdleHost, RuntimeType, IsMetering
<1>3. PICK account : account = GetOutputAccount(h.output, a)
  OBVIOUS
<1>4. account \in AccountType /\ account.balanceDelta = DeltaOf(h.output, a)
  BY <1>2, <1>3, GotAccount DEF DeltaOf
<1>5. PICK used : used = [account EXCEPT !.gasUsed = @ + h.metering.initialGasProvided]
  OBVIOUS
<1>6. /\ used \in AccountType /\ used.balanceDelta = account.balanceDelta
      /\ used.storage = account.storage
      /\ used.outputTransfers = account.outputTransfers
  BY <1>2, <1>4, <1>5 DEF AccountType
<1>7. PICK o : o = SetOutputAccount(h.output, a, used)
  OBVIOUS
<1>8. UpdateGasStateOnFailure(h) = WithOutput(h, o)
  BY <1>1, <1>3, <1>5, <1>7 DEF UpdateGasStateOnFailure, WithOutput
<1>9. Carries(o, h.output) /\ AccountSet(o, h.output, a, used)
  BY <1>2, <1>4, <1>6, <1>7, SetCarries, SetAccount
<1>10. ASSUME a \in DOMAIN h.output.accounts
       PROVE  Effects(o) = Effects(h.output)
  <2>1. DOMAIN o.accounts = DOMAIN h.output.accounts
    BY <1>9, <1>10 DEF AccountSet
  <2>2. account = h.output.accounts[a]
    BY <1>3, <1>10 DEF GetOutputAccount
  <2>3. \A x \in DOMAIN h.output.accounts :
            /\ o.accounts[x].balanceDelta = h.output.accounts[x].balanceDelta
            /\ o.accounts[x].storage = h.output.accounts[x].storage
            /\ o.accounts[x].outputTransfers = h.output.accounts[x].outputTransfers
    BY <1>6, <1>9, <2>2 DEF AccountSet
  <2> QED
    BY <2>1, <2>3 DEF Effects
<1>11. PICK f : f = WithOutput(h, o)
  OBVIOUS
<1>12. SameBut(f, h, {"output"}) /\ f.output = o /\ KeptHere(f, h)
  BY <1>9, <1>11, OutputReplaced
<1>13. SameBut(f, h, {"output", "points"})
  BY <1>12 DEF SameBut
<1> QED
  BY <1>1, <1>8, <1>10, <1>11, <1>12, <1>13 DEF Fails, Present

LEMMA TransferredGasIsNat ==
    ASSUME NEW account \in AccountType
    PROVE  getGasTransferredByAccount(account) \in Nat
<1> DEFINE t == account.outputTransfers
           w == [i \in DOMAIN t |-> t[i].gasLimit + t[i].gasLocked]
<1>1. t \in Seq(Transfers)
  BY DEF AccountType
<1>2. /\ DOMAIN t = 1 .. Len(t) /\ Len(t) \in Nat
      /\ \A i \in DOMAIN t : t[i] \in Transfers
  BY <1>1, LenProperties, ElementOfSeq
<1>3. DOMAIN w = DOMAIN t /\ \A i \in DOMAIN t : w[i] \in Nat
  BY <1>2 DEF Transfers
<1>4. IsFiniteSet(DOMAIN t)
  BY <1>2, FS_Interval
<1>5. getGasTransferredByAccount(account) = SumFunctionOnSet(w, DOMAIN w)
  BY DEF getGasTransferredByAccount, SumFunction
<1> HIDE DEF t, w
<1>6. SumFunctionOnSet(w, DOMAIN t) \in Nat
  BY <1>3, <1>4, SumOfPart
<1> QED
  BY <1>3, <1>5, <1>6

LEMMA OthersGasIsNat ==
    ASSUME NEW h, IsOutput(h.output), IsMetering(h.metering)
    PROVE  getGasUsedByAllOtherAccounts(h) \in Nat
<1> DEFINE D == DOMAIN h.output.accounts
           used(a) == IF a # h.runtime.scAddress THEN GasUsedBy(h.metering, a) ELSE 0
           sent(a) == getGasTransferredByAccount(h.output.accounts[a])
           w == [a \in D |-> used(a) + sent(a)]
<1>1. \A a : used(a) \in Nat
  BY DEF IsMetering, IsGasUsed, GasUsedBy
<1>2. \A a \in D : sent(a) \in Nat
  BY TransferredGasIsNat DEF IsOutput
<1>3. getGasUsedByAllOtherAccounts(h) = SumFunctionOnSet(w, DOMAIN w)
  BY DEF getGasUsedByAllOtherAccounts, SumFunction
<1> HIDE DEF used, sent
<1>4. DOMAIN w = D /\ \A a \in D : w[a] \in Nat
  BY <1>1, <1>2
<1>5. IsFiniteSet(D)
  BY DEF IsOutput
<1> HIDE DEF D, w
<1>6. SumFunctionOnSet(w, D) \in Nat
  BY <1>4, <1>5, SumOfPart
<1> QED
  BY <1>3, <1>4, <1>6

LEMMA UsedGasUpdated ==
    ASSUME NEW h, IsHost(h)
    PROVE  KeptHere(updateSCGasUsed(h), h)
<1>1. PICK a : a = h.runtime.scAddress
  OBVIOUS
<1>2. a \in Accounts /\ IsOutput(h.output)
  BY <1>1 DEF IsHost, IdleHost, RuntimeType
<1>3. PICK account : account = GetOutputAccount(h.output, a)
  OBVIOUS
<1>4. account \in AccountType /\ account.balanceDelta = DeltaOf(h.output, a)
  BY <1>2, <1>3, GotAccount DEF DeltaOf
<1>5. PICK o : o = SetOutputAccount(h.output, a, account)
  OBVIOUS
<1>6. Carries(o, h.output)
  BY <1>2, <1>4, <1>5, SetCarries
<1>7. PICK h1 : h1 = WithOutput(h, o)
  OBVIOUS
<1>8. SameBut(h1, h, {"output"}) /\ h1.output = o /\ KeptHere(h1, h)
  BY <1>6, <1>7, OutputReplaced
<1>9. IsHost(h1) /\ IsOutput(h1.output) /\ IsMetering(h1.metering)
  BY <1>8 DEF KeptHere, Kept, IsHost, IdleHost
<1>10. PICK gasUsed : gasUsed =
           SubUint64(SubUint64(GasSpentByContract(h1), getGasTransferredByAccount(account)),
                     getGasUsedByAllOtherAccounts(h1))
  OBVIOUS
<1>11. gasUsed \in Nat
  <2>1. /\ GasSpentByContract(h1) \in Nat /\ getGasTransferredByAccount(account) \in Nat
        /\ getGasUsedByAllOtherAccounts(h1) \in Nat
    BY <1>4, <1>9, GasIsNat, TransferredGasIsNat, OthersGasIsNat
  <2> QED
    BY <1>10, <2>1, SubtractionIsNat
<1>12. PICK u : u = [x \in DOMAIN h1.metering.gasUsedByAccounts \cup {a} |->
                        IF x = a THEN gasUsed ELSE h1.metering.gasUsedByAccounts[x]]
  OBVIOUS
<1>13. IsGasUsed(u)
  BY <1>2, <1>9, <1>11, <1>12 DEF IsGasUsed, IsMetering
<1>14. PICK m : m = [h1.metering EXCEPT !.gasUsedByAccounts = u]
  OBVIOUS
<1>15. IsMetering(m)
  BY <1>9, <1>13, <1>14 DEF IsMetering, MeteringFields
<1>16. PICK g : g = [h1 EXCEPT !.metering = m]
  OBVIOUS
<1>17. updateSCGasUsed(h) = g
  BY <1>1, <1>3, <1>5, <1>7, <1>10, <1>12, <1>14, <1>16 DEF updateSCGasUsed, WithOutput
<1>18. SameBut(g, h1, {"metering"}) /\ g.metering = m
  BY <1>9, <1>16 DEF SameBut, HostFields, IsHost, IdleHost
<1>19. /\ SameBut(g, h1, Inner) /\ g.output = h1.output /\ g.points = h1.points
       /\ g.bigInt = h1.bigInt /\ g.world = h1.world /\ g.runtime = h1.runtime
  BY <1>18 DEF SameBut, HostFields, Inner
<1>20. Carries(g.output, h1.output)
  BY <1>9, <1>19, SameCarries
<1>21. KeptHere(g, h1)
  BY <1>9, <1>15, <1>18, <1>19, <1>20, InnerKeeps DEF IsHost, IdleHost
<1> QED
  BY <1>8, <1>17, <1>21, KeptTransitive

LEMMA UsedGasSet ==
    ASSUME NEW h, IsHost(h)
    PROVE  KeptHere(setGasUsedToOutputAccounts(h), h)
<1>1. PICK acc : acc = [a \in DOMAIN h.output.accounts |->
                  [h.output.accounts[a] EXCEPT !.gasUsed = GasUsedBy(h.metering, a)]]
  OBVIOUS
<1>2. PICK o : o = [h.output EXCEPT !.accounts = acc]
  OBVIOUS
<1>3. IsOutput(h.output) /\ \A a : GasUsedBy(h.metering, a) \in Nat
  BY DEF IsHost, IdleHost, IsMetering, IsGasUsed, GasUsedBy
<1>4. /\ DOMAIN o = OutputFields /\ o.accounts = acc
      /\ o.gasRemaining = h.output.gasRemaining
  BY <1>2, <1>3 DEF IsOutput, OutputFields
<1>5. DOMAIN acc = DOMAIN h.output.accounts
  BY <1>1
<1>6. \A a \in DOMAIN acc : /\ acc[a] \in AccountType
                            /\ acc[a].balanceDelta = h.output.accounts[a].balanceDelta
  BY <1>1, <1>3 DEF IsOutput, AccountType
<1>7. IsOutput(o)
  BY <1>3, <1>4, <1>5, <1>6 DEF IsOutput
<1>8. SameDeltas(o, h.output)
  BY <1>3, <1>4, <1>5, <1>6 DEF SameDeltas, DeltaOf, GetOutputAccount
<1>9. Carries(o, h.output)
  BY <1>3, <1>7, <1>8, SameDeltasCarry
<1>10. setGasUsedToOutputAccounts(h) = WithOutput(h, o)
  BY <1>1, <1>2 DEF setGasUsedToOutputAccounts, WithOutput
<1> QED
  BY <1>9, <1>10, OutputReplaced

\* A VMOutput made from the host h, which stays in its execution.
VMOutputOf(o, h) == KeptHere(o.host, h) /\ o.gasRemaining \in Nat

LEMMA ErrorOutput ==
    ASSUME NEW h, IsHost(h), NEW err
    PROVE  /\ VMOutputOf(CreateVMOutputInCaseOfError(h, err), h)
           /\ CreateVMOutputInCaseOfError(h, err).err = err
<1>1. KeptHere(UpdateGasStateOnFailure(h), h)
  BY FailureUpdateFails DEF Fails
<1> QED
  BY <1>1 DEF CreateVMOutputInCaseOfError, VMOutputOf

LEMMA SuccessOutput ==
    ASSUME NEW h, IsHost(h)
    PROVE  VMOutputOf(GetVMOutput(h), h)
<1>1. PICK o : o = [h.output EXCEPT !.gasRemaining = GasLeft(h)]
  OBVIOUS
<1>2. IsOutput(h.output) /\ GasLeft(h) \in Nat
  BY GasIsNat DEF IsHost, IdleHost
<1>3. DOMAIN o = OutputFields /\ o.accounts = h.output.accounts /\ o.gasRemaining \in Nat
  BY <1>1, <1>2 DEF IsOutput, OutputFields
<1>4. Carries(o, h.output)
  BY <1>2, <1>3, SameAccountsCarry
<1>5. PICK h1 : h1 = WithOutput(h, o)
  OBVIOUS
<1>6. KeptHere(h1, h)
  BY <1>4, <1>5, OutputReplaced
<1>7. PICK h2 : h2 = updateSCGasUsed(h1)
  OBVIOUS
<1>8. KeptHere(h2, h1)
  BY <1>6, <1>7, UsedGasUpdated DEF KeptHere, Kept
<1>9. PICK h3 : h3 = setGasUsedToOutputAccounts(h2)
  OBVIOUS
<1>10. KeptHere(h3, h2)
  BY <1>8, <1>9, UsedGasSet DEF KeptHere, Kept
<1>11. KeptHere(h3, h)
  BY <1>6, <1>8, <1>10, KeptTransitive
<1>12. IsHost(h3) /\ h3.output.gasRemaining \in Nat
  BY <1>11 DEF KeptHere, Kept, IsHost, IdleHost, IsOutput
<1>13. GetVMOutput(h) = CheckedVMOutput(h3)
  BY <1>1, <1>5, <1>7, <1>9 DEF GetVMOutput, WithOutput
<1>14. ASSUME NEW err
       PROVE  VMOutputOf(CreateVMOutputInCaseOfError(h3, err), h3)
  BY <1>12, ErrorOutput
<1>15. KeptHere(h3, h3)
  BY <1>12, SameCarries DEF KeptHere, Kept, SameStacks, IsHost, IdleHost
<1>16. VMOutputOf(CheckedVMOutput(h3), h3)
  BY <1>12, <1>14, <1>15 DEF CheckedVMOutput, VMOutputOf
<1> QED
  BY <1>11, <1>13, <1>16, KeptTransitive DEF VMOutputOf

-----------------------------------------------------------------------------
(* Levels.                                                                  *)

LEMMA KeptLevel ==
    ASSUME NEW h, NEW fs, NEW v, Level(h, fs, v), NEW g, Kept(g, h)
    PROVE  /\ Level(g, fs, v)
           /\ Present(h.output, h.runtime) => Present(g.output, g.runtime)
<1>1. IsHost(g) /\ Conserves(g.output, v) /\ SameStacks(g, h)
  BY DEF Kept, Carries, Level
<1>2. StackSizes(g, Len(fs) - 1, StorageDepth(fs, Len(fs)))
  BY <1>1 DEF Level, StackSizes, SameStacks
<1>3. \A i \in 2 .. Len(fs) : Saved(g, fs[i].before, i - 1)
  BY <1>1 DEF Level, Saved, SameStacks
<1>4. \A i \in Others(fs, Len(fs)) :
          g.storageStack[StorageDepth(fs, i)] = fs[i].before.storageAddress
  BY <1>1 DEF Level, SameStacks
<1>5. \A i : AddressAt(g, fs, i) = AddressAt(h, fs, i)
  BY DEF AddressAt, Kept
<1>6. \A i : AccountsAt(h, fs, i) \subseteq AccountsAt(g, fs, i)
  BY DEF AccountsAt, Kept, Carries
<1>7. \A i \in 2 .. Len(fs) :
          /\ fs[i].kind = "same" =>
                AddressAt(g, fs, i) = fs[i].before.storageAddress
          /\ DOMAIN fs[i].before.output.accounts \subseteq AccountsAt(g, fs, i)
  BY <1>5, <1>6 DEF Level
<1>8. IsCallStack(fs, v)
  BY DEF Level
<1>9. Level(g, fs, v)
  BY <1>1, <1>2, <1>3, <1>4, <1>7, <1>8 DEF Level
<1> QED
  BY <1>9 DEF Present, Kept, Carries

LEMMA KeptActive ==
    ASSUME NEW h, NEW fs, NEW v, Active(h, fs, v), NEW g, KeptHere(g, h)
    PROVE  Active(g, fs, v)
<1>1. Level(g, fs, v) /\ Present(g.output, g.runtime)
  BY KeptLevel DEF Active, KeptHere
<1> QED
  BY <1>1 DEF Active, KeptHere, Kept

\* p is what the caller c becomes when an execution is pushed.
PushedFrom(p, c, kind, input) ==
    /\ IsHost(p) /\ Carries(p.output, c.output)
    /\ p.runtime.scAddress = input.recipient
    /\ p.instance = c.instance
    /\ p.outputStack = Append(c.outputStack, mergeVMOutputs(newVMOutput, c.output))
    /\ p.meteringStack = Append(c.meteringStack, c.metering)
    /\ p.runtimeStack = Append(c.runtimeStack, c.runtime)
    /\ p.instanceStack = Append(c.instanceStack, c.instance)
    /\ p.bigIntStack = Append(c.bigIntStack, c.bigInt)
    /\ p.snapshots = Append(c.snapshots, c.world)
    /\ IF kind = "same"
       THEN p.storageStack = c.storageStack /\ p.storageAddress = c.storageAddress
       ELSE p.storageStack = Append(c.storageStack, c.storageAddress)

LEMMA PushedCallStack ==
    ASSUME NEW fs, NEW v, IsCallStack(fs, v), NEW f, IsFrame(f, Len(fs) + 1, v)
    PROVE  /\ IsCallStack(Append(fs, f), v) /\ Len(Append(fs, f)) = Len(fs) + 1
           /\ \A i \in 1 .. Len(fs) : Append(fs, f)[i] = fs[i]
           /\ Append(fs, f)[Len(fs) + 1] = f
<1>1. PICK n : n = Len(fs)
  OBVIOUS
<1>2. n \in Nat \ {0} /\ IsStack(fs, n) /\ \A i \in 1 .. n : IsFrame(fs[i], i, v)
  BY <1>1 DEF IsCallStack
<1>3. PICK gs : gs = Append(fs, f)
  OBVIOUS
<1>4. IsStack(gs, n + 1) /\ gs[n + 1] = f /\ \A i \in 1 .. n : gs[i] = fs[i]
  <2>1. PushOf(gs, fs, n, f)
    BY <1>2, <1>3, StackPush
  <2> QED
    BY <2>1 DEF PushOf
<1>5. Len(gs) = n + 1
  BY <1>2, <1>4, StackLen
<1>6. \A i \in 1 .. n + 1 : IsFrame(gs[i], i, v)
  BY <1>1, <1>2, <1>4
<1>7. IsCallStack(gs, v)
  BY <1>2, <1>4, <1>5, <1>6 DEF IsCallStack
<1> QED
  BY <1>1, <1>3, <1>4, <1>5, <1>7

\* The stacks of p are those of c with one element more.
StacksPushed(p, c, n) ==
    /\ PushOf(p.outputStack, c.outputStack, n, mergeVMOutputs(newVMOutput, c.output))
    /\ PushOf(p.meteringStack, c.meteringStack, n, c.metering)
    /\ PushOf(p.runtimeStack, c.runtimeStack, n, c.runtime)
    /\ PushOf(p.instanceStack, c.instanceStack, n, c.instance)
    /\ PushOf(p.bigIntStack, c.bigIntStack, n, c.bigInt)
    /\ PushOf(p.snapshots, c.snapshots, n, c.world)

LEMMA PushedStacks ==
    ASSUME NEW c, NEW n \in Nat, NEW d \in Nat, StackSizes(c, n, d), NEW p,
           NEW kind, NEW input, PushedFrom(p, c, kind, input)
    PROVE  /\ StacksPushed(p, c, n)
           /\ kind # "same" => PushOf(p.storageStack, c.storageStack, d, c.storageAddress)
           /\ StackSizes(p, n + 1, IF kind = "same" THEN d ELSE d + 1)
<1>1. StacksPushed(p, c, n)
  BY StackPush DEF StackSizes, PushedFrom, StacksPushed
<1>2. kind # "same" => PushOf(p.storageStack, c.storageStack, d, c.storageAddress)
  BY StackPush DEF StackSizes, PushedFrom
<1>3. IsStack(p.storageStack, IF kind = "same" THEN d ELSE d + 1)
  BY <1>2 DEF StackSizes, PushedFrom, PushOf
<1> QED
  BY <1>1, <1>2, <1>3 DEF StacksPushed, PushOf, StackSizes

(* The level of a nested execution, from that of its caller. *)
LEMMA PushedLevel ==
    ASSUME NEW c, NEW fs, NEW v, Active(c, fs, v), NEW p, NEW kind, NEW input,
           PushedFrom(p, c, kind, input), NEW l,
           IsFrame(Frame(kind, input, c, l), Len(fs) + 1, v)
    PROVE  Level(p, Append(fs, Frame(kind, input, c, l)), v)
<1>1. PICK f : f = Frame(kind, input, c, l)
  OBVIOUS
<1>2. PICK gs : gs = Append(fs, f)
  OBVIOUS
<1>3. PICK n : n = Len(fs)
  OBVIOUS
<1>4. IsCallStack(fs, v) /\ IsFrame(f, n + 1, v) /\ n \in Nat \ {0}
  BY <1>1, <1>3 DEF Active, Level, IsCallStack
<1>5. /\ IsCallStack(gs, v) /\ Len(gs) = n + 1 /\ gs[n + 1] = f
      /\ \A i \in 1 .. n : gs[i] = fs[i]
  BY <1>2, <1>3, <1>4, PushedCallStack
<1>6. /\ f.kind = kind /\ f.before.storageAddress = c.storageAddress
      /\ f.before.output = c.output /\ f.before.bigInt = c.bigInt
      /\ f.before.world = c.world /\ f.before.runtime = c.runtime
      /\ f.before.gasUsedByAccounts = c.metering.gasUsedByAccounts
  BY <1>1 DEF Frame
<1>7. IsHost(p) /\ Conserves(p.output, v)
  BY DEF PushedFrom, Carries, Active, Level
<1>8. /\ \A i \in 1 .. n : /\ StorageDepth(gs, i) = StorageDepth(fs, i)
                           /\ StorageDepth(fs, i) \in Nat
                           /\ StorageDepth(fs, i) <= StorageDepth(fs, n)
      /\ StorageDepth(gs, n + 1)
            = StorageDepth(fs, n) + (IF kind = "same" THEN 0 ELSE 1)
  <2>1. \A i \in 1 .. n : StorageDepth(gs, i) = StorageDepth(fs, i)
    <3> SUFFICES ASSUME NEW i \in 1 .. n PROVE StorageDepth(gs, i) = StorageDepth(fs, i)
      OBVIOUS
    <3>1. i \in Nat /\ \A j \in 1 .. i : gs[j] = fs[j]
      BY <1>4, <1>5
    <3> QED
      BY <3>1, SameDepth
  <2>2. StorageDepth(gs, n + 1) = StorageDepth(gs, n + 1 - 1)
                                    + (IF gs[n + 1].kind = "same" THEN 0 ELSE 1)
    BY <1>4, StorageDepths
  <2>3. /\ \A i \in 1 .. n : StorageDepth(fs, i) <= StorageDepth(fs, n)
        /\ \A i \in 1 .. n : StorageDepth(fs, i) \in Nat
    BY <1>4, StorageDepths
  <2> QED
    BY <1>4, <1>5, <1>6, <2>1, <2>2, <2>3
<1>9. /\ StackSizes(c, n - 1, StorageDepth(fs, n)) /\ n - 1 \in Nat
      /\ StorageDepth(fs, n) \in Nat
  BY <1>3, <1>4, <1>8 DEF Active, Level
<1>10. StackSizes(p, Len(gs) - 1, StorageDepth(gs, Len(gs)))
  <2>1. StackSizes(p, n - 1 + 1, IF kind = "same" THEN StorageDepth(fs, n)
                                                  ELSE StorageDepth(fs, n) + 1)
    BY <1>9, PushedStacks
  <2>2. n - 1 + 1 = Len(gs) - 1
    BY <1>4, <1>5
  <2>3. StorageDepth(gs, Len(gs)) = IF kind = "same" THEN StorageDepth(fs, n)
                                                     ELSE StorageDepth(fs, n) + 1
    BY <1>5, <1>8, <1>9
  <2> QED
    BY <2>1, <2>2, <2>3
<1>a. /\ StacksPushed(p, c, n - 1)
      /\ kind # "same" => PushOf(p.storageStack, c.storageStack, StorageDepth(fs, n),
                                 c.storageAddress)
  BY <1>9, PushedStacks
<1>11. \A i \in 2 .. n + 1 : Saved(p, gs[i].before, i - 1)
  <2>1. ASSUME NEW i \in 2 .. n PROVE Saved(p, gs[i].before, i - 1)
    <3>1. Saved(c, fs[i].before, i - 1) /\ gs[i] = fs[i]
      BY <1>3, <1>4, <1>5 DEF Active, Level
    <3>2. i - 1 \in 1 .. n - 1
      BY <1>4
    <3>3. /\ p.outputStack[i - 1] = c.outputStack[i - 1]
          /\ p.meteringStack[i - 1] = c.meteringStack[i - 1]
          /\ p.runtimeStack[i - 1] = c.runtimeStack[i - 1]
          /\ p.instanceStack[i - 1] = c.instanceStack[i - 1]
          /\ p.bigIntStack[i - 1] = c.bigIntStack[i - 1]
          /\ p.snapshots[i - 1] = c.snapshots[i - 1]
      BY <1>a, <3>2 DEF StacksPushed, PushOf
    <3> QED
      BY <3>1, <3>3 DEF Saved
  <2>2. Saved(p, gs[n + 1].before, n)
    <3>1. /\ p.outputStack[n] = mergeVMOutputs(newVMOutput, c.output)
          /\ p.meteringStack[n] = c.metering /\ p.runtimeStack[n] = c.runtime
          /\ p.instanceStack[n] = c.instance /\ p.bigIntStack[n] = c.bigInt
          /\ p.snapshots[n] = c.world
      <4>1. n - 1 + 1 = n
        BY <1>4
      <4> QED
        BY <1>a, <4>1 DEF StacksPushed, PushOf
    <3>2. c.instance = n /\ n <= MaxInstances /\ IsMetering(c.metering)
      BY <1>3, <1>4, ContextsAssumption DEF Active, Level, IsHost, IdleHost
    <3> QED
      BY <1>5, <1>6, <3>1, <3>2 DEF Saved
  <2>3. ASSUME NEW i \in 2 .. n + 1 PROVE i \in 2 .. n \/ (i = n + 1 /\ i - 1 = n)
    BY <1>4
  <2> QED
    BY <2>1, <2>2, <2>3
<1>12. ASSUME NEW i \in Others(gs, n + 1)
       PROVE  p.storageStack[StorageDepth(gs, i)] = gs[i].before.storageAddress
  <2>1. i \in 2 .. n + 1 /\ gs[i].kind # "same"
    BY DEF Others
  <2>2. IsStack(c.storageStack, StorageDepth(fs, n))
    BY <1>9 DEF StackSizes
  <2>3. CASE i = n + 1
    <3>1. p.storageStack = Append(c.storageStack, c.storageAddress)
      BY <1>5, <1>6, <2>1, <2>3 DEF PushedFrom
    <3>2. StorageDepth(gs, i) = StorageDepth(fs, n) + 1
      BY <1>5, <1>6, <1>8, <2>1, <2>3
    <3>3. p.storageStack[StorageDepth(fs, n) + 1] = c.storageAddress
      BY <1>5, <1>6, <1>a, <2>1, <2>3 DEF PushOf
    <3> QED
      BY <1>5, <1>6, <2>3, <3>2, <3>3
  <2>4. CASE i # n + 1
    <3>1. i \in 2 .. n /\ i \in 1 .. n /\ gs[i] = fs[i]
      BY <1>4, <1>5, <2>1, <2>4
    <3>2. i \in Others(fs, n)
      BY <2>1, <3>1 DEF Others
    <3>3. c.storageStack[StorageDepth(fs, i)] = fs[i].before.storageAddress
      BY <1>3, <3>2 DEF Active, Level
    <3>4. StorageDepth(fs, i) \in 1 .. StorageDepth(fs, n)
      <4>1. StorageDepth(fs, i) = StorageDepth(fs, i - 1) + 1
        BY <1>4, <2>1, <3>1, StorageDepths
      <4>2. StorageDepth(fs, i - 1) \in Nat
        BY <1>4, <1>8, <3>1
      <4> QED
        BY <1>8, <1>9, <3>1, <4>1, <4>2
    <3>5. p.storageStack[StorageDepth(fs, i)] = c.storageStack[StorageDepth(fs, i)]
      BY <1>a, <3>4 DEF PushedFrom, PushOf
    <3> QED
      BY <1>8, <3>1, <3>3, <3>5
  <2> QED
    BY <2>3, <2>4
<1>13. ASSUME NEW i \in 2 .. n + 1
       PROVE  /\ gs[i].kind = "same" =>
                    AddressAt(p, gs, i) = gs[i].before.storageAddress
              /\ DOMAIN gs[i].before.output.accounts \subseteq AccountsAt(p, gs, i)
  <2>1. CASE i = n + 1
    <3>1. AddressAt(p, gs, i) = p.storageAddress /\ gs[i] = f
      BY <1>5, <2>1 DEF AddressAt
    <3>2. AccountsAt(p, gs, i) = DOMAIN p.output.accounts
      BY <1>5, <2>1 DEF AccountsAt
    <3>3. kind = "same" => p.storageAddress = c.storageAddress
      BY DEF PushedFrom
    <3>4. DOMAIN c.output.accounts \subseteq DOMAIN p.output.accounts
      BY DEF PushedFrom, Carries
    <3> QED
      BY <1>6, <3>1, <3>2, <3>3, <3>4
  <2>2. CASE i # n + 1
    <3>1. i \in 2 .. n /\ i \in 1 .. n /\ gs[i] = fs[i] /\ i # Len(gs)
      BY <1>4, <1>5, <2>2
    <3>2. AddressAt(p, gs, i) = AddressAt(c, fs, i)
      <4>1. CASE i = n
        BY <1>3, <1>5, <1>6, <3>1, <4>1 DEF AddressAt
      <4>2. CASE i # n
        <5>1. i + 1 \in 1 .. n
          BY <1>4, <3>1, <4>2
        <5> QED
          BY <1>3, <1>5, <3>1, <4>2, <5>1 DEF AddressAt
      <4> QED
        BY <4>1, <4>2
    <3>3. AccountsAt(p, gs, i) = AccountsAt(c, fs, i)
      <4>1. CASE i = n
        BY <1>3, <1>5, <1>6, <3>1, <4>1 DEF AccountsAt
      <4>2. CASE i # n
        <5>1. i + 1 \in 1 .. n
          BY <1>4, <3>1, <4>2
        <5> QED
          BY <1>3, <1>5, <3>1, <4>2, <5>1 DEF AccountsAt
      <4> QED
        BY <4>1, <4>2
    <3> QED
      BY <1>3, <3>1, <3>2, <3>3 DEF Active, Level
  <2> QED
    BY <2>1, <2>2
<1>14. Level(p, gs, v)
  BY <1>5, <1>7, <1>10, <1>11, <1>12, <1>13 DEF Level
<1> QED
  BY <1>1, <1>2, <1>14

\* g is what h becomes when the execution on top ends.
PoppedFrom(g, h, kind) ==
    /\ DOMAIN g = HostFields /\ g.points \in PointsType
    /\ g.outputStack = Pop(h.outputStack)
    /\ g.meteringStack = Pop(h.meteringStack)
    /\ g.runtimeStack = Pop(h.runtimeStack) /\ g.runtime = Top(h.runtimeStack)
    /\ g.instanceStack = Pop(h.instanceStack) /\ g.instance = Top(h.instanceStack)
    /\ g.bigIntStack = Pop(h.bigIntStack)
    /\ g.snapshots = Pop(h.snapshots)
    /\ IF kind = "same"
       THEN g.storageStack = h.storageStack /\ g.storageAddress = h.storageAddress
       ELSE /\ g.storageStack = Pop(h.storageStack)
            /\ g.storageAddress = Top(h.storageStack)

LEMMA PoppedCallStack ==
    ASSUME NEW gs, NEW v, IsCallStack(gs, v), NEW n \in Nat \ {0}, Len(gs) = n + 1
    PROVE  /\ IsCallStack(Pop(gs), v) /\ Len(Pop(gs)) = n
           /\ \A i \in 1 .. n : Pop(gs)[i] = gs[i]
<1>1. IsStack(gs, n + 1) /\ \A i \in 1 .. n + 1 : IsFrame(gs[i], i, v)
  BY DEF IsCallStack
<1>2. PICK fs : fs = Pop(gs)
  OBVIOUS
<1>3. PopOf(fs, gs, n + 1)
  BY <1>1, <1>2, StackPop
<1>4. IsStack(fs, n) /\ \A i \in 1 .. n : fs[i] = gs[i]
  <2>1. n + 1 - 1 = n
    OBVIOUS
  <2> QED
    BY <1>3, <2>1 DEF PopOf
<1>5. Len(fs) = n
  BY <1>4, StackLen
<1>6. \A i \in 1 .. n : IsFrame(fs[i], i, v)
  BY <1>1, <1>4
<1> QED
  BY <1>2, <1>4, <1>5, <1>6 DEF IsCallStack

\* The elements on top of the stacks, and the stacks without them.
StacksPopped(g, h, n) ==
    /\ PopOf(g.outputStack, h.outputStack, n)
    /\ PopOf(g.meteringStack, h.meteringStack, n)
    /\ PopOf(g.runtimeStack, h.runtimeStack, n)
    /\ PopOf(g.instanceStack, h.instanceStack, n)
    /\ PopOf(g.bigIntStack, h.bigIntStack, n)
    /\ PopOf(g.snapshots, h.snapshots, n)

LEMMA PoppedStacks ==
    ASSUME NEW h, NEW n \in Nat \ {0}, NEW d \in Nat, StackSizes(h, n, d), NEW g,
           NEW kind, PoppedFrom(g, h, kind), kind # "same" => d # 0
    PROVE  /\ StacksPopped(g, h, n)
           /\ kind # "same" => /\ PopOf(g.storageStack, h.storageStack, d)
                               /\ g.storageAddress = h.storageStack[d]
           /\ StackSizes(g, n - 1, IF kind = "same" THEN d ELSE d - 1)
<1>1. StacksPopped(g, h, n)
  BY StackPop DEF StackSizes, PoppedFrom, StacksPopped
<1>2. kind # "same" => /\ PopOf(g.storageStack, h.storageStack, d)
                       /\ g.storageAddress = h.storageStack[d]
  BY StackPop DEF StackSizes, PoppedFrom
<1>3. IsStack(g.storageStack, IF kind = "same" THEN d ELSE d - 1)
  BY <1>2 DEF StackSizes, PoppedFrom, PopOf
<1> QED
  BY <1>1, <1>2, <1>3 DEF StacksPopped, PopOf, StackSizes

\* What the tops of the stacks are for a frame on top.
LEMMA SavedOnTop ==
    ASSUME NEW h, NEW gs, NEW v, Level(h, gs, v), Len(gs) > 1,
           NEW b, b = gs[Len(gs)].before
    PROVE  /\ Len(gs) - 1 \in Nat \ {0}
           /\ Top(h.outputStack) = mergeVMOutputs(newVMOutput, b.output)
           /\ IsMetering(Top(h.meteringStack))
           /\ Top(h.meteringStack).gasUsedByAccounts = b.gasUsedByAccounts
           /\ Top(h.runtimeStack) = b.runtime
           /\ Top(h.instanceStack) = Len(gs) - 1 /\ Len(gs) - 1 <= MaxInstances
           /\ Top(h.bigIntStack) = b.bigInt
           /\ Top(h.snapshots) = b.world
           /\ IsFrame(gs[Len(gs)], Len(gs), v)
           /\ DOMAIN b.output.accounts \subseteq DOMAIN h.output.accounts
<1>1. PICK n : n = Len(gs) - 1
  OBVIOUS
<1>2. Len(gs) \in Nat \ {0}
  BY DEF Level, IsCallStack
<1>3. n \in Nat \ {0} /\ Len(gs) \in 2 .. Len(gs) /\ Len(gs) \in 1 .. Len(gs)
  BY <1>1, <1>2
<1>4. StackSizes(h, n, StorageDepth(gs, Len(gs)))
  BY <1>1 DEF Level
<1>5. /\ Top(h.outputStack) = h.outputStack[n]
      /\ Top(h.meteringStack) = h.meteringStack[n]
      /\ Top(h.runtimeStack) = h.runtimeStack[n]
      /\ Top(h.instanceStack) = h.instanceStack[n]
      /\ Top(h.bigIntStack) = h.bigIntStack[n]
      /\ Top(h.snapshots) = h.snapshots[n]
  BY <1>3, <1>4, StackPop DEF StackSizes
<1>6. Saved(h, b, n)
  BY <1>1, <1>3 DEF Level
<1>7. IsFrame(gs[Len(gs)], Len(gs), v)
  BY <1>3 DEF Level, IsCallStack
<1>8. DOMAIN b.output.accounts \subseteq DOMAIN h.output.accounts
  BY <1>3 DEF Level, AccountsAt
<1> QED
  BY <1>1, <1>3, <1>5, <1>6, <1>7, <1>8 DEF Saved

(* The level of a caller, from that of the execution that ends. *)
LEMMA PoppedLevel ==
    ASSUME NEW h, NEW gs, NEW v, Level(h, gs, v), Len(gs) > 1,
           NEW b, b = gs[Len(gs)].before,
           NEW g, PoppedFrom(g, h, gs[Len(gs)].kind),
           IsOutput(g.output), Conserves(g.output, v),
           DOMAIN b.output.accounts \subseteq DOMAIN g.output.accounts,
           IsMetering(g.metering), g.bigInt \in 0 .. MaxBigInts, g.world \in Nat
    PROVE  /\ Active(g, Pop(gs), v)
           /\ g.storageAddress = b.storageAddress /\ g.runtime = b.runtime
<1>1. PICK n : n = Len(gs) - 1
  OBVIOUS
<1>2. PICK fs : fs = Pop(gs)
  OBVIOUS
<1>3. n \in Nat \ {0} /\ Len(gs) = n + 1 /\ n + 1 \in 2 .. n + 1
  BY <1>1 DEF Level, IsCallStack
<1>4. IsCallStack(gs, v) /\ IsFrame(gs[n + 1], n + 1, v) /\ b = gs[n + 1].before
  BY <1>3, SavedOnTop DEF Level
<1>5. IsCallStack(fs, v) /\ Len(fs) = n /\ \A i \in 1 .. n : fs[i] = gs[i]
  BY <1>2, <1>3, <1>4, PoppedCallStack
<1>6. g.runtime = b.runtime /\ g.instance = n
  BY <1>1, SavedOnTop DEF PoppedFrom
<1>7. PICK kind : kind = gs[n + 1].kind
  OBVIOUS
<1>8. /\ \A i \in 1 .. n : /\ StorageDepth(gs, i) = StorageDepth(fs, i)
                           /\ StorageDepth(fs, i) \in Nat
                           /\ StorageDepth(fs, i) <= StorageDepth(fs, n)
      /\ StorageDepth(gs, n + 1)
            = StorageDepth(fs, n) + (IF kind = "same" THEN 0 ELSE 1)
  <2>1. \A i \in 1 .. n : StorageDepth(gs, i) = StorageDepth(fs, i)
    <3> SUFFICES ASSUME NEW i \in 1 .. n PROVE StorageDepth(gs, i) = StorageDepth(fs, i)
      OBVIOUS
    <3>1. i \in Nat /\ \A j \in 1 .. i : gs[j] = fs[j]
      BY <1>3, <1>5
    <3> QED
      BY <3>1, SameDepth
  <2>2. StorageDepth(gs, n + 1) = StorageDepth(gs, n + 1 - 1)
                                    + (IF gs[n + 1].kind = "same" THEN 0 ELSE 1)
    BY <1>3, StorageDepths
  <2>3. /\ \A i \in 1 .. n : StorageDepth(fs, i) <= StorageDepth(fs, n)
        /\ \A i \in 1 .. n : StorageDepth(fs, i) \in Nat
    BY <1>3, StorageDepths
  <2> QED
    BY <1>3, <1>7, <2>1, <2>2, <2>3
<1>9. PICK d : d = StorageDepth(gs, n + 1)
  OBVIOUS
<1>10. /\ StackSizes(h, n, d) /\ d \in Nat /\ (kind # "same" => d # 0)
       /\ StorageDepth(fs, n) = IF kind = "same" THEN d ELSE d - 1
  <2>1. StackSizes(h, n, d)
    BY <1>1, <1>3, <1>9 DEF Level
  <2>2. StorageDepth(fs, n) \in Nat
    BY <1>3, <1>8
  <2> QED
    BY <1>8, <1>9, <2>1, <2>2
<1>11. /\ StacksPopped(g, h, n)
       /\ kind # "same" => /\ PopOf(g.storageStack, h.storageStack, d)
                           /\ g.storageAddress = h.storageStack[d]
       /\ StackSizes(g, n - 1, IF kind = "same" THEN d ELSE d - 1)
  <2>1. PoppedFrom(g, h, kind)
    BY <1>3, <1>7
  <2> QED
    BY <1>3, <1>10, <2>1, PoppedStacks
<1>12. g.storageAddress = b.storageAddress
  <2>1. CASE kind = "same"
    <3>1. AddressAt(h, gs, n + 1) = gs[n + 1].before.storageAddress
      BY <1>3, <1>7, <2>1 DEF Level
    <3> QED
      BY <1>3, <1>4, <1>7, <2>1, <3>1 DEF AddressAt, PoppedFrom
  <2>2. CASE kind # "same"
    <3>1. n + 1 \in Others(gs, n + 1)
      BY <1>3, <1>7, <2>2 DEF Others
    <3>2. h.storageStack[d] = gs[n + 1].before.storageAddress
      BY <1>3, <1>9, <3>1 DEF Level
    <3> QED
      BY <1>4, <1>11, <2>2, <3>2
  <2> QED
    BY <2>1, <2>2
<1>13. IsHost(g)
  <2>1. g.instance \in 0 .. MaxInstances
    BY <1>1, <1>3, <1>6, SavedOnTop, ContextsAssumption
  <2>2. g.runtime \in RuntimeType /\ g.storageAddress \in Accounts
    BY <1>4, <1>6, <1>12 DEF IsFrame
  <2> QED
    BY <2>1, <2>2 DEF IsHost, IdleHost, PoppedFrom
<1>14. \A i \in 2 .. n : Saved(g, fs[i].before, i - 1)
  <2> SUFFICES ASSUME NEW i \in 2 .. n PROVE Saved(g, fs[i].before, i - 1)
    OBVIOUS
  <2>1. Saved(h, gs[i].before, i - 1) /\ fs[i] = gs[i] /\ i - 1 \in 1 .. n - 1
    BY <1>3, <1>5 DEF Level
  <2>2. /\ g.outputStack[i - 1] = h.outputStack[i - 1]
        /\ g.meteringStack[i - 1] = h.meteringStack[i - 1]
        /\ g.runtimeStack[i - 1] = h.runtimeStack[i - 1]
        /\ g.instanceStack[i - 1] = h.instanceStack[i - 1]
        /\ g.bigIntStack[i - 1] = h.bigIntStack[i - 1]
        /\ g.snapshots[i - 1] = h.snapshots[i - 1]
    BY <1>11, <2>1 DEF StacksPopped, PopOf
  <2> QED
    BY <2>1, <2>2 DEF Saved
<1>15. ASSUME NEW i \in Others(fs, n)
       PROVE  g.storageStack[StorageDepth(fs, i)] = fs[i].before.storageAddress
  <2>1. i \in 2 .. n /\ i \in 1 .. n /\ fs[i] = gs[i] /\ fs[i].kind # "same"
    BY <1>3, <1>5 DEF Others
  <2>2. i \in Others(gs, n + 1)
    BY <1>3, <2>1 DEF Others
  <2>3. h.storageStack[StorageDepth(gs, i)] = gs[i].before.storageAddress
    BY <1>3, <2>2 DEF Level
  <2>4. StorageDepth(fs, i) \in 1 .. StorageDepth(fs, n)
    <3>1. StorageDepth(fs, i) = StorageDepth(fs, i - 1) + 1
      BY <1>3, <2>1, StorageDepths
    <3>2. StorageDepth(fs, i - 1) \in Nat /\ StorageDepth(fs, n) \in Nat
      BY <1>3, <1>8, <2>1
    <3> QED
      BY <1>8, <2>1, <3>1, <3>2
  <2>5. g.storageStack[StorageDepth(fs, i)] = h.storageStack[StorageDepth(fs, i)]
    <3>1. CASE kind = "same"
      BY <1>3, <1>7, <3>1 DEF PoppedFrom
    <3>2. CASE kind # "same"
      BY <1>10, <1>11, <2>4, <3>2 DEF PopOf
    <3> QED
      BY <3>1, <3>2
  <2> QED
    BY <1>8, <2>1, <2>3, <2>5
<1>16. ASSUME NEW i \in 2 .. n
       PROVE  /\ fs[i].kind = "same" =>
                    AddressAt(g, fs, i) = fs[i].before.storageAddress
              /\ DOMAIN fs[i].before.output.accounts \subseteq AccountsAt(g, fs, i)
  <2>1. /\ fs[i] = gs[i] /\ i # Len(gs) /\ i \in 2 .. Len(gs)
        /\ (i # n => i + 1 \in 1 .. n)
    BY <1>3, <1>5
  <2>2. AddressAt(g, fs, i) = AddressAt(h, gs, i)
    BY <1>4, <1>5, <1>12, <2>1 DEF AddressAt
  <2>3. AccountsAt(h, gs, i) \subseteq AccountsAt(g, fs, i)
    BY <1>4, <1>5, <2>1 DEF AccountsAt
  <2> QED
    BY <2>1, <2>2, <2>3 DEF Level
<1>17. Level(g, fs, v)
  <2>1. StackSizes(g, Len(fs) - 1, StorageDepth(fs, Len(fs)))
    BY <1>5, <1>10, <1>11
  <2> QED
    BY <1>5, <1>13, <1>14, <1>15, <1>16, <2>1 DEF Level
<1>18. Present(g.output, g.runtime) /\ g.runtime.scAddress \in Contracts
  BY <1>3, <1>4, <1>6 DEF IsFrame, Present
<1> QED
  BY <1>2, <1>5, <1>6, <1>12, <1>17, <1>18 DEF Active

-----------------------------------------------------------------------------
(* Beginning an execution.                                                  *)

LEMMA NewContexts ==
    ASSUME NEW input, IsInput(input)
    PROVE  /\ NewRuntime(input) \in RuntimeType
           /\ NewRuntime(input).scAddress = input.recipient
           /\ IsMetering(NewMetering(input.gas))
<1>1. DOMAIN << >> = {}
  BY EmptyStack DEF IsStack
<1> QED
  BY <1>1 DEF NewRuntime, NewMetering, IsInput, RuntimeType, IsMetering,
              MeteringFields, IsGasUsed

LEMMA NoBuiltinPushed ==
    ASSUME NEW c, IsHost(c), NEW h, IsHost(h), SameBut(h, c, {"world", "snapshots"}),
           h.snapshots = Append(c.snapshots, c.world),
           NEW input, IsInput(input), NEW kind, kind # "same"
    PROVE  PushedFrom(PushNoBuiltin(h, input), c, kind, input)
<1>1. PICK h1 : h1 = OutputPushState(BigIntPushState(h))
  OBVIOUS
<1>2. DOMAIN h = HostFields
  BY DEF IsHost, IdleHost
<1>3. /\ SameBut(h1, h, {"outputStack", "bigIntStack"})
      /\ h1.outputStack = Append(h.outputStack, mergeVMOutputs(newVMOutput, h.output))
      /\ h1.bigIntStack = Append(h.bigIntStack, h.bigInt)
  BY <1>1, <1>2 DEF OutputPushState, BigIntPushState, SameBut, HostFields
<1>4. PICK h2 : h2 = MeteringPushState(RuntimePushState(h1))
  OBVIOUS
<1>5. /\ SameBut(h2, h1, {"meteringStack", "runtimeStack", "instanceStack"})
      /\ h2.meteringStack = Append(h1.meteringStack, h1.metering)
      /\ h2.runtimeStack = Append(h1.runtimeStack, h1.runtime)
      /\ h2.instanceStack = Append(h1.instanceStack, h1.instance)
  BY <1>3, <1>4 DEF MeteringPushState, RuntimePushState, SameBut, HostFields
<1>6. PICK h3 : h3 = StoragePushState(h2)
  OBVIOUS
<1>7. /\ SameBut(h3, h2, {"storageStack"})
      /\ h3.storageStack = Append(h2.storageStack, h2.storageAddress)
  BY <1>5, <1>6 DEF StoragePushState, SameBut, HostFields
<1>8. PICK p : p = PushNoBuiltin(h, input)
  OBVIOUS
<1>9. p = [h3 EXCEPT !.bigInt = 0, !.output = CensorVMOutput(@),
                     !.runtime = NewRuntime(input), !.metering = NewMetering(input.gas),
                     !.storageAddress = input.recipient]
  BY <1>1, <1>4, <1>6, <1>8 DEF PushNoBuiltin
<1>10. /\ SameBut(p, h3, {"bigInt", "output", "runtime", "metering", "storageAddress"})
       /\ p.bigInt = 0 /\ p.output = CensorVMOutput(h3.output)
       /\ p.runtime = NewRuntime(input) /\ p.metering = NewMetering(input.gas)
       /\ p.storageAddress = input.recipient
  BY <1>7, <1>9 DEF SameBut, HostFields
<1>11. /\ h3.output = c.output /\ h.output = c.output /\ h.metering = c.metering
       /\ h.runtime = c.runtime /\ h.bigInt = c.bigInt /\ h.instance = c.instance
       /\ h.storageAddress = c.storageAddress /\ p.instance = c.instance
       /\ p.points = h.points /\ p.world = h.world
  BY <1>3, <1>5, <1>7, <1>10 DEF SameBut, HostFields
<1>12. /\ p.outputStack = Append(c.outputStack, mergeVMOutputs(newVMOutput, c.output))
       /\ p.meteringStack = Append(c.meteringStack, c.metering)
       /\ p.runtimeStack = Append(c.runtimeStack, c.runtime)
       /\ p.instanceStack = Append(c.instanceStack, c.instance)
       /\ p.bigIntStack = Append(c.bigIntStack, c.bigInt)
       /\ p.snapshots = Append(c.snapshots, c.world)
       /\ p.storageStack = Append(c.storageStack, c.storageAddress)
  <2>1. /\ p.outputStack = h1.outputStack /\ h.outputStack = c.outputStack
        /\ p.bigIntStack = h1.bigIntStack /\ h.bigIntStack = c.bigIntStack
        /\ p.meteringStack = h2.meteringStack /\ p.runtimeStack = h2.runtimeStack
        /\ p.instanceStack = h2.instanceStack
        /\ p.storageStack = h3.storageStack /\ p.snapshots = h.snapshots
    BY <1>3, <1>5, <1>7, <1>10 DEF SameBut, HostFields
  <2>2. /\ h1.meteringStack = c.meteringStack /\ h1.metering = c.metering
        /\ h1.runtimeStack = c.runtimeStack /\ h1.runtime = c.runtime
        /\ h1.instanceStack = c.instanceStack /\ h1.instance = c.instance
        /\ h2.storageStack = c.storageStack /\ h2.storageAddress = c.storageAddress
    BY <1>3, <1>5 DEF SameBut, HostFields
  <2> QED
    BY <1>3, <1>5, <1>7, <1>11, <2>1, <2>2
<1>13. Carries(p.output, c.output) /\ IsOutput(p.output)
  <2>1. IsOutput(c.output)
    BY DEF IsHost, IdleHost
  <2> QED
    BY <1>10, <1>11, <2>1, CensoredCarries DEF Carries
<1>14. /\ p.runtime \in RuntimeType /\ p.runtime.scAddress = input.recipient
       /\ IsMetering(p.metering) /\ input.recipient \in Accounts
  BY <1>10, NewContexts DEF IsInput
<1>15. IsHost(p)
  <2>1. DOMAIN p = HostFields
    BY <1>10 DEF SameBut
  <2>2. h.points \in PointsType /\ h.world \in Nat /\ h.instance \in 0 .. MaxInstances
    BY DEF IsHost, IdleHost
  <2>3. 0 \in 0 .. MaxBigInts
    BY HostAssumption
  <2> QED
    BY <1>10, <1>11, <1>13, <1>14, <2>1, <2>2, <2>3 DEF IsHost, IdleHost
<1> QED
  BY <1>8, <1>11, <1>12, <1>13, <1>14, <1>15 DEF PushedFrom

\* A snapshot is taken.
LEMMA SnapshotTaken ==
    ASSUME NEW h, IsHost(h)
    PROVE  /\ IsHost(BlockchainPushState(h))
           /\ SameBut(BlockchainPushState(h), h, {"snapshots"})
           /\ BlockchainPushState(h).snapshots = Append(h.snapshots, h.world)
<1>1. PICK g : g = BlockchainPushState(h)
  OBVIOUS
<1>2. DOMAIN h = HostFields
  BY DEF IsHost, IdleHost
<1>3. SameBut(g, h, {"snapshots"}) /\ g.snapshots = Append(h.snapshots, h.world)
  BY <1>1, <1>2 DEF BlockchainPushState, SameBut, HostFields
<1>4. IsHost(g)
  BY <1>3 DEF SameBut, HostFields, IsHost, IdleHost
<1> QED
  BY <1>1, <1>3, <1>4

LEMMA DestPushed ==
    ASSUME NEW h, IsHost(h), NEW input, IsInput(input), NEW kind, kind # "same"
    PROVE  PushedFrom(PushDestContexts(h, input), h, kind, input)
<1>1. PICK g : g = BlockchainPushState(h)
  OBVIOUS
<1>2. /\ IsHost(g) /\ SameBut(g, h, {"snapshots"})
      /\ g.snapshots = Append(h.snapshots, h.world)
  BY <1>1, SnapshotTaken
<1>3. SameBut(g, h, {"world", "snapshots"})
  BY <1>2 DEF SameBut
<1>4. PushedFrom(PushNoBuiltin(g, input), h, kind, input)
  BY <1>2, <1>3, NoBuiltinPushed
<1> QED
  BY <1>1, <1>4 DEF PushDestContexts

LEMMA SamePushed ==
    ASSUME NEW h, IsHost(h), NEW input, IsInput(input)
    PROVE  PushedFrom(PushSameContexts(h, input), h, "same", input)
<1>1. PICK h1 : h1 = OutputPushState(BigIntPushState(BlockchainPushState(h)))
  OBVIOUS
<1>2. DOMAIN h = HostFields
  BY DEF IsHost, IdleHost
<1>3. /\ SameBut(h1, h, {"outputStack", "bigIntStack", "snapshots"})
      /\ h1.outputStack = Append(h.outputStack, mergeVMOutputs(newVMOutput, h.output))
      /\ h1.bigIntStack = Append(h.bigIntStack, h.bigInt)
      /\ h1.snapshots = Append(h.snapshots, h.world)
  BY <1>1, <1>2 DEF OutputPushState, BigIntPushState, BlockchainPushState, SameBut, HostFields
<1>4. PICK h2 : h2 = MeteringPushState(RuntimePushState(h1))
  OBVIOUS
<1>5. /\ SameBut(h2, h1, {"meteringStack", "runtimeStack", "instanceStack"})
      /\ h2.meteringStack = Append(h1.meteringStack, h1.metering)
      /\ h2.runtimeStack = Append(h1.runtimeStack, h1.runtime)
      /\ h2.instanceStack = Append(h1.instanceStack, h1.instance)
  BY <1>3, <1>4 DEF MeteringPushState, RuntimePushState, SameBut, HostFields
<1>6. PICK p : p = PushSameContexts(h, input)
  OBVIOUS
<1>7. p = [h2 EXCEPT !.runtime = NewRuntime(input), !.metering = NewMetering(input.gas)]
  BY <1>1, <1>4, <1>6 DEF PushSameContexts
<1>8. /\ SameBut(p, h2, {"runtime", "metering"})
      /\ p.runtime = NewRuntime(input) /\ p.metering = NewMetering(input.gas)
  BY <1>5, <1>7 DEF SameBut, HostFields
<1>9. /\ p.output = h.output /\ p.instance = h.instance /\ p.points = h.points
      /\ p.bigInt = h.bigInt /\ p.world = h.world
      /\ p.storageAddress = h.storageAddress /\ p.storageStack = h.storageStack
      /\ p.outputStack = h1.outputStack /\ p.bigIntStack = h1.bigIntStack
      /\ p.snapshots = h1.snapshots
  BY <1>3, <1>5, <1>8 DEF SameBut, HostFields
<1>10. /\ p.meteringStack = Append(h.meteringStack, h.metering)
       /\ p.runtimeStack = Append(h.runtimeStack, h.runtime)
       /\ p.instanceStack = Append(h.instanceStack, h.instance)
  <2>1. /\ h1.meteringStack = h.meteringStack /\ h1.metering = h.metering
        /\ h1.runtimeStack = h.runtimeStack /\ h1.runtime = h.runtime
        /\ h1.instanceStack = h.instanceStack /\ h1.instance = h.instance
    BY <1>3 DEF SameBut, HostFields
  <2>2. /\ p.meteringStack = h2.meteringStack /\ p.runtimeStack = h2.runtimeStack
        /\ p.instanceStack = h2.instanceStack
    BY <1>8 DEF SameBut, HostFields
  <2> QED
    BY <1>5, <2>1, <2>2
<1>11. Carries(p.output, h.output)
  BY <1>9, SameCarries DEF IsHost, IdleHost
<1>12. /\ p.runtime \in RuntimeType /\ p.runtime.scAddress = input.recipient
       /\ IsMetering(p.metering)
  BY <1>8, NewContexts
<1>13. IsHost(p)
  <2>1. DOMAIN p = HostFields
    BY <1>8 DEF SameBut
  <2> QED
    BY <1>9, <1>12, <2>1 DEF IsHost, IdleHost
<1> QED
  BY <1>3, <1>6, <1>9, <1>10, <1>11, <1>12, <1>13 DEF PushedFrom

LEMMA InstanceKeeps ==
    ASSUME NEW h, IsHost(h), NEW g, SameBut(g, h, {"instance", "points"}),
           g.instance \in 0 .. MaxInstances, g.points \in PointsType
    PROVE  Kept(g, h)
<1>1. /\ DOMAIN g = HostFields /\ SameStacks(g, h) /\ g.output = h.output
      /\ g.metering = h.metering /\ g.runtime = h.runtime /\ g.bigInt = h.bigInt
      /\ g.world = h.world /\ g.storageAddress = h.storageAddress
  BY DEF SameBut, HostFields, SameStacks
<1>2. IsHost(g)
  BY <1>1 DEF IsHost, IdleHost
<1>3. Carries(g.output, h.output)
  BY <1>1, SameCarries DEF IsHost, IdleHost
<1> QED
  BY <1>1, <1>2, <1>3 DEF Kept

LEMMA InstanceStarted ==
    ASSUME NEW h, IsHost(h), NEW n \in Nat, IsStack(h.instanceStack, n)
    PROVE  /\ Kept(StartWasmerInstance(h), h)
           /\ StartWasmerInstance(h).instance \in {0, n + 1}
<1>1. Len(h.instanceStack) = n
  BY StackLen
<1>2. DOMAIN h = HostFields /\ h.points \in PointsType
  BY DEF IsHost, IdleHost
<1>3. PICK g : g = StartWasmerInstance(h)
  OBVIOUS
<1>4. CASE n >= MaxInstances
  <2>1. g = [h EXCEPT !.instance = 0]
    BY <1>1, <1>3, <1>4 DEF StartWasmerInstance
  <2>2. SameBut(g, h, {"instance", "points"}) /\ g.instance = 0 /\ g.points = h.points
    BY <1>2, <2>1 DEF SameBut, HostFields
  <2>3. 0 \in 0 .. MaxInstances
    BY ContextsAssumption
  <2> QED
    BY <1>2, <1>3, <2>2, <2>3, InstanceKeeps
<1>5. CASE ~(n >= MaxInstances)
  <2>1. g = [h EXCEPT !.instance = n + 1, !.points[n + 1] = 0]
    BY <1>1, <1>3, <1>5 DEF StartWasmerInstance
  <2>2. /\ SameBut(g, h, {"instance", "points"}) /\ g.instance = n + 1
        /\ g.points = [h.points EXCEPT ![n + 1] = 0]
    BY <1>2, <2>1 DEF SameBut, HostFields
  <2>3. n + 1 \in 0 .. MaxInstances
    BY <1>5, ContextsAssumption
  <2>4. g.points \in PointsType
    <3>1. PICK P : P = h.points
      OBVIOUS
    <3>2. P \in [1 .. MaxInstances -> Nat]
      BY <1>2, <3>1 DEF PointsType
    <3>3. [P EXCEPT ![n + 1] = 0] \in [1 .. MaxInstances -> Nat]
      BY <3>2
    <3> QED
      BY <2>2, <3>1, <3>3 DEF PointsType
  <2> QED
    BY <1>3, <2>2, <2>3, <2>4, InstanceKeeps
<1> QED
  BY <1>4, <1>5

LEMMA InitialGasDeducted ==
    ASSUME NEW h, IsHost(h), NEW input, IsInput(input), input.recipient \in Contracts,
           ~(CodeCost[input.recipient] > input.gas)
    PROVE  /\ KeptHere(DeductInitialGas(h, input), h)
           /\ DeductInitialGas(h, input).instanceStack = h.instanceStack
<1>1. PICK cost : cost = CodeCost[input.recipient]
  OBVIOUS
<1>2. cost \in Nat /\ input.gas \in Nat /\ input.gas - cost \in Nat
  BY <1>1, ContextsAssumption DEF IsInput
<1>3. PICK m : m = [h.metering EXCEPT !.initialCost = cost,
                                      !.gasForExecution = input.gas - cost]
  OBVIOUS
<1>4. IsMetering(h.metering) /\ DOMAIN h = HostFields
  BY DEF IsHost, IdleHost
<1>5. IsMetering(m)
  BY <1>2, <1>3, <1>4 DEF IsMetering, MeteringFields
<1>6. PICK g : g = DeductInitialGas(h, input)
  OBVIOUS
<1>7. g = [h EXCEPT !.metering = m]
  BY <1>1, <1>3, <1>4, <1>6 DEF DeductInitialGas, HostFields
<1>8. SameBut(g, h, {"metering"}) /\ g.metering = m
  BY <1>4, <1>7 DEF SameBut, HostFields
<1>9. /\ SameBut(g, h, Inner) /\ g.output = h.output /\ g.points = h.points
      /\ g.bigInt = h.bigInt /\ g.world = h.world /\ g.runtime = h.runtime
      /\ g.instanceStack = h.instanceStack
  BY <1>8 DEF SameBut, HostFields, Inner
<1>10. Carries(g.output, h.output)
  BY <1>9, SameCarries DEF IsHost, IdleHost
<1>11. KeptHere(g, h)
  BY <1>5, <1>8, <1>9, <1>10, InnerKeeps DEF IsHost, IdleHost
<1> QED
  BY <1>6, <1>9, <1>11

\* How the execution of input started from h, at level n.
Starts(r, h, n, input) ==
    /\ Kept(r.host, h) /\ r.exit # "idle"
    /\ r.exit \in {"running", "Ok"} =>
          input.recipient \in Contracts /\ r.host.instance = n

LEMMA InstancePrepared ==
    ASSUME NEW h, IsHost(h), NEW n \in Nat, IsStack(h.instanceStack, n),
           NEW input, IsInput(input)
    PROVE  Starts(PrepareInstance(h, input), h, n + 1, input)
<1>1. PICK r : r = PrepareInstance(h, input)
  OBVIOUS
<1>2. Kept(h, h)
  BY SameCarries DEF Kept, SameStacks, IsHost, IdleHost
<1>3. CASE input.recipient \notin Contracts
  BY <1>1, <1>2, <1>3 DEF PrepareInstance, Starts
<1>4. CASE input.recipient \in Contracts /\ CodeCost[input.recipient] > input.gas
  BY <1>1, <1>2, <1>4 DEF PrepareInstance, Starts
<1>5. CASE input.recipient \in Contracts /\ ~(CodeCost[input.recipient] > input.gas)
  <2>1. PICK h0 : h0 = DeductInitialGas(h, input)
    OBVIOUS
  <2>2. KeptHere(h0, h) /\ h0.instanceStack = h.instanceStack
    BY <1>5, <2>1, InitialGasDeducted
  <2>3. PICK h1 : h1 = StartWasmerInstance(h0)
    OBVIOUS
  <2>4. Kept(h1, h0) /\ h1.instance \in {0, n + 1}
    BY <2>2, <2>3, InstanceStarted DEF KeptHere, Kept
  <2>5. Kept(h1, h)
    BY <2>2, <2>4, KeptTransitive DEF KeptHere
  <2>6. /\ r.host = h1 /\ r.exit # "idle"
        /\ r.exit \in {"running", "Ok"} => h1.instance # 0
    BY <1>1, <1>5, <2>1, <2>3 DEF PrepareInstance
  <2> QED
    BY <1>1, <1>5, <2>4, <2>5, <2>6 DEF Starts
<1> QED
  BY <1>3, <1>4, <1>5

LEMMA Executed ==
    ASSUME NEW h, IsHost(h), NEW n \in Nat, IsStack(h.instanceStack, n),
           NEW input, IsInput(input)
    PROVE  Starts(execute(h, input), h, n + 1, input)
<1>1. PICK r : r = execute(h, input)
  OBVIOUS
<1>2. Kept(h, h)
  BY SameCarries DEF Kept, SameStacks, IsHost, IdleHost
<1>3. CASE input.init
  BY <1>1, <1>2, <1>3 DEF execute, Starts
<1>4. CASE ~input.init
  <2>1. PICK g : g = UseGas(h, input.gas)
    OBVIOUS
  <2>2. KeptHere(g, h)
    BY <2>1, GasUseKeeps DEF IsInput
  <2>3. IsHost(g) /\ g.instanceStack = h.instanceStack
    BY <2>2 DEF KeptHere, Kept, SameStacks
  <2>4. r = PrepareInstance(g, input)
    BY <1>1, <1>4, <2>1 DEF execute
  <2>5. Starts(r, g, n + 1, input)
    BY <2>3, <2>4, InstancePrepared
  <2> QED
    BY <1>1, <2>2, <2>5, KeptTransitive DEF Starts, KeptHere
<1> QED
  BY <1>3, <1>4

LEMMA TransferredAndExecuted ==
    ASSUME NEW h, IsHost(h), NEW n \in Nat, IsStack(h.instanceStack, n),
           NEW input, IsInput(input), h.runtime.scAddress = input.recipient
    PROVE  /\ Starts(TransferAndExecute(h, input), h, n + 1, input)
           /\ TransferAndExecute(h, input).exit \in {"running", "Ok"} =>
                 Present(TransferAndExecute(h, input).host.output,
                         TransferAndExecute(h, input).host.runtime)
<1>1. PICK r : r = TransferAndExecute(h, input)
  OBVIOUS
<1>2. Kept(h, h)
  BY SameCarries DEF Kept, SameStacks, IsHost, IdleHost
<1>3. CASE CanTransferValue(h, input.recipient, input.caller, input.value, FALSE)
  <2>1. PICK g : g = TransferValueOnly(h, input.recipient, input.caller, input.value)
    OBVIOUS
  <2>2. KeptHere(g, h) /\ input.recipient \in DOMAIN g.output.accounts
    BY <1>3, <2>1, ValueTransferKeeps DEF IsInput, CanTransferValue
  <2>3. IsHost(g) /\ g.instanceStack = h.instanceStack
    BY <2>2 DEF KeptHere, Kept, SameStacks
  <2>4. r = execute(g, input)
    BY <1>1, <1>3, <2>1 DEF TransferAndExecute
  <2>5. Starts(r, g, n + 1, input)
    BY <2>3, <2>4, Executed
  <2>6. Starts(r, h, n + 1, input)
    BY <2>2, <2>5, KeptTransitive DEF Starts, KeptHere
  <2>7. /\ input.recipient \in DOMAIN r.host.output.accounts
        /\ r.host.runtime.scAddress = input.recipient
    BY <2>2, <2>5, <2>6 DEF Starts, Kept, Carries
  <2> QED
    BY <1>1, <2>6, <2>7 DEF Present
<1>4. CASE ~CanTransferValue(h, input.recipient, input.caller, input.value, FALSE)
  BY <1>1, <1>2, <1>4 DEF TransferAndExecute, Starts
<1> QED
  BY <1>3, <1>4

-----------------------------------------------------------------------------
(* The states in the middle of a transaction that brings the value v.       *)

Good(h, x, fs, v) ==
    /\ x # "idle" /\ Level(h, fs, v) /\ fs[1].input.value = v
    /\ x = "running" => Active(h, fs, v)

LEMMA BurntLedger ==
    ASSUME NEW l, IsLedger(l), NEW a \in Accounts, NEW gas \in Nat
    PROVE  IsLedger(Burn(l, a, gas))
<1>1. PICK b : b = l.burnt
  OBVIOUS
<1>2. b \in [Accounts -> Nat]
  BY <1>1 DEF IsLedger
<1>3. PICK c : c = [b EXCEPT ![a] = b[a] + gas]
  OBVIOUS
<1>4. c \in [Accounts -> Nat] /\ Burn(l, a, gas) = [l EXCEPT !.burnt = c]
  BY <1>1, <1>2, <1>3 DEF Burn, IsLedger
<1> QED
  BY <1>4 DEF IsLedger

LEMMA StayedActive ==
    ASSUME NEW h, NEW fs, NEW v, Active(h, fs, v), fs[1].input.value = v,
           NEW g, KeptHere(g, h), NEW x, x # "idle"
    PROVE  Good(g, x, fs, v)
<1>1. Active(g, fs, v)
  BY KeptActive
<1> QED
  BY <1>1 DEF Good, Active

(* The frame of a nested execution. *)
LEMMA FrameMade ==
    ASSUME NEW c, NEW fs, NEW v, Active(c, fs, v), NEW kind, kind # "top",
           NEW input, IsInput(input), NEW l, IsLedger(l),
           kind = "asyncDest" => input.recipient \in Contracts,
           kind = "esdt" => c.world # 0
    PROVE  IsFrame(Frame(kind, input, c, l), Len(fs) + 1, v)
<1>1. PICK f : f = Frame(kind, input, c, l)
  OBVIOUS
<1>2. /\ f.kind = kind /\ f.input = input /\ f.ledger = l
      /\ f.before.output = c.output /\ f.before.bigInt = c.bigInt
      /\ f.before.world = c.world /\ f.before.storageAddress = c.storageAddress
      /\ f.before.runtime = c.runtime
      /\ f.before.gasUsedByAccounts = c.metering.gasUsedByAccounts
  BY <1>1 DEF Frame
<1>3. /\ IsHost(c) /\ Conserves(c.output, v) /\ Len(fs) \in Nat \ {0}
      /\ c.runtime.scAddress \in Contracts /\ Present(c.output, c.runtime)
  BY DEF Active, Level, IsCallStack
<1>4. Len(fs) + 1 # 1
  BY <1>3
<1>5. /\ IsOutput(c.output) /\ c.bigInt \in 0 .. MaxBigInts /\ c.world \in Nat
      /\ c.storageAddress \in Accounts /\ c.runtime \in RuntimeType
      /\ IsGasUsed(c.metering.gasUsedByAccounts)
  BY <1>3 DEF IsHost, IdleHost, IsMetering
<1>6. IsFrame(f, Len(fs) + 1, v)
  BY <1>2, <1>3, <1>4, <1>5 DEF IsFrame
<1> QED
  BY <1>1, <1>6

(* The host goes from the caller c into a nested execution. *)
LEMMA Entered ==
    ASSUME NEW c, NEW fs, NEW v, Active(c, fs, v), fs[1].input.value = v,
           NEW kind, kind # "top", NEW input, IsInput(input), NEW l, IsLedger(l),
           kind = "asyncDest" => input.recipient \in Contracts,
           kind = "esdt" => c.world # 0,
           NEW p, PushedFrom(p, c, kind, input),
           EnterFrom(fs, c, l, kind, input, TransferAndExecute(p, input))
    PROVE  Good(host', exit', frames', v) /\ IsLedger(ledger')
<1>1. PICK r : r = TransferAndExecute(p, input)
  OBVIOUS
<1>2. PICK gs : gs = Append(fs, Frame(kind, input, c, l))
  OBVIOUS
<1>3. /\ host' = r.host /\ exit' = r.exit /\ frames' = gs
      /\ ledger' = IF r.exit \in {"running", "Ok"}
                   THEN Burn(l, input.recipient, CodeCost[input.recipient]) ELSE l
  BY <1>1, <1>2 DEF EnterFrom
<1>4. IsFrame(Frame(kind, input, c, l), Len(fs) + 1, v)
  BY FrameMade
<1>5. IsCallStack(fs, v) /\ Len(fs) \in Nat \ {0}
  BY DEF Active, Level, IsCallStack
<1>6. Level(p, gs, v)
  BY <1>2, <1>4, PushedLevel
<1>7. /\ Len(gs) = Len(fs) + 1 /\ gs[1] = fs[1]
  BY <1>2, <1>4, <1>5, PushedCallStack
<1>8. /\ IsHost(p) /\ p.runtime.scAddress = input.recipient
      /\ IsStack(p.instanceStack, Len(fs))
  BY <1>6, <1>7, <1>5 DEF Level, StackSizes, PushedFrom
<1>9. /\ Starts(r, p, Len(fs) + 1, input)
      /\ r.exit \in {"running", "Ok"} => Present(r.host.output, r.host.runtime)
  BY <1>1, <1>5, <1>8, TransferredAndExecuted
<1>10. Level(r.host, gs, v)
  BY <1>6, <1>9, KeptLevel DEF Starts
<1>11. r.host.runtime.scAddress = input.recipient
  BY <1>8, <1>9 DEF Starts, Kept
<1>12. r.exit = "running" => Active(r.host, gs, v)
  BY <1>7, <1>9, <1>10, <1>11 DEF Starts, Active
<1>13. Good(host', exit', frames', v)
  BY <1>3, <1>7, <1>9, <1>10, <1>12 DEF Good, Starts
<1>14. IsLedger(ledger')
  <2>1. CASE r.exit \in {"running", "Ok"}
    <3>1. /\ input.recipient \in Accounts
          /\ CodeCost[input.recipient] \in Nat
      BY <1>9, <2>1, ContextsAssumption DEF Starts, Accounts
    <3> QED
      BY <1>3, <2>1, <3>1, BurntLedger
  <2>2. CASE r.exit \notin {"running", "Ok"}
    BY <1>3, <2>2
  <2> QED
    BY <2>1, <2>2
<1> QED
  BY <1>13, <1>14

LEMMA GoodKeeps ==
    ASSUME NEW v, Good(host', exit', frames', v), IsLedger(ledger'),
           txs' \in 0 .. MaxTransactions
    PROVE  VMInv'
  BY DEF VMInv, Good

-----------------------------------------------------------------------------
(* What the running contract does.                                          *)

\* The running contract, charged with gas for what it does next.
Charged(c, fs, v, l, gas) ==
    /\ c = UseGas(host, gas) /\ l = Burn(ledger, self, gas) /\ fs = frames
    /\ IsHost(c) /\ Active(c, fs, v) /\ fs[1].input.value = v /\ IsLedger(l)
    /\ self = c.runtime.scAddress /\ self \in Contracts /\ self \in Accounts
    /\ c.runtime = host.runtime

LEMMA ChargedOnce ==
    ASSUME VMInv, exit = "running", NEW gas \in Nat
    PROVE  \E c, fs, v, l : Charged(c, fs, v, l, gas)
<1>1. PICK h, fs, v, k : /\ h = host /\ fs = frames /\ v = frames[1].input.value
                         /\ k = ledger
  OBVIOUS
<1>2. Active(h, fs, v) /\ fs[1].input.value = v /\ IsLedger(k)
  BY <1>1 DEF VMInv
<1>3. IsHost(h) /\ h.runtime.scAddress \in Contracts /\ self = h.runtime.scAddress
  BY <1>1, <1>2 DEF Active, Level, self
<1>4. self \in Contracts /\ self \in Accounts
  BY <1>3 DEF Accounts
<1>5. PICK c : c = UseGas(h, gas)
  OBVIOUS
<1>6. KeptHere(c, h) /\ OnlyPoints(c, h)
  BY <1>3, <1>5, GasUseKeeps, GasUsed
<1>7. Active(c, fs, v) /\ IsHost(c)
  BY <1>2, <1>6, KeptActive DEF KeptHere, Kept
<1>8. c.runtime = h.runtime
  BY <1>6 DEF OnlyPoints, SameBut, HostFields
<1>9. PICK a, l : a = self /\ l = Burn(k, a, gas)
  OBVIOUS
<1>10. IsLedger(l)
  BY <1>2, <1>4, <1>9, BurntLedger
<1>11. Charged(c, fs, v, l, gas)
  BY <1>1, <1>2, <1>3, <1>4, <1>5, <1>7, <1>8, <1>9, <1>10 DEF Charged
<1> QED
  BY <1>11

LEMMA StepsAreNat ==
    /\ ApiCost \in Nat /\ 2 * ApiCost \in Nat /\ EsdtCost \in Nat
    /\ AsyncCallStep \in Nat /\ 2 * AsyncCallStep \in Nat /\ 1 \in Nat
    /\ AsyncCallbackGasLock \in Nat
    /\ GasLimits \subseteq Nat /\ CallValues \subseteq Nat
  BY HostAssumption

\* The contract goes on, or stops, on a host g that comes from c.
LEMMA StepStays ==
    ASSUME VMInv, NEW c, NEW fs, NEW v, NEW l, Active(c, fs, v),
           fs[1].input.value = v, IsLedger(l), NEW g, KeptHere(g, c),
           host' = g, ledger' = l, frames' = fs, exit' # "idle", txs' = txs
    PROVE  VMInv'
<1>1. PICK x : x = exit'
  OBVIOUS
<1>2. Good(g, x, fs, v)
  BY <1>1, StayedActive
<1>3. txs' \in 0 .. MaxTransactions
  BY DEF VMInv
<1> QED
  BY <1>1, <1>2, <1>3, GoodKeeps

LEMMA FaultStays ==
    ASSUME VMInv, NEW c, NEW fs, NEW v, NEW l, Active(c, fs, v),
           fs[1].input.value = v, IsLedger(l), IsHost(c),
           Fault(c, l), frames = fs, txs' = txs
    PROVE  VMInv'
<1>1. PICK g : g = FailExecution(c)
  OBVIOUS
<1>2. KeptHere(g, c)
  BY <1>1, FailExecutionFails DEF Fails
<1>3. host' = g /\ ledger' = l /\ frames' = fs /\ exit' # "idle"
  BY <1>1 DEF Fault
<1> QED
  BY <1>2, <1>3, StepStays

LEMMA OpcodeStep ==
    ASSUME VMInv, Opcode PROVE VMInv'
<1>1. PICK c, fs, v, l : Charged(c, fs, v, l, 1)
  BY ChargedOnce DEF Opcode, Running
<1>2. host' = c /\ ledger' = l /\ frames' = fs /\ exit' # "idle" /\ txs' = txs
  BY <1>1 DEF Opcode, Continue, Charged
<1>3. KeptHere(c, c)
  BY <1>1, SameCarries DEF Charged, KeptHere, Kept, SameStacks, IsHost, IdleHost
<1> QED
  BY <1>1, <1>2, <1>3, StepStays DEF Charged

LEMMA ContractStops ==
    ASSUME VMInv, OutOfGas \/ Return PROVE VMInv'
  BY DEF VMInv, OutOfGas, Return, Active

LEMMA SignalErrorStep ==
    ASSUME VMInv, SignalError PROVE VMInv'
<1>1. PICK c, fs, v, l : Charged(c, fs, v, l, ApiCost)
  BY ChargedOnce, StepsAreNat DEF SignalError, Running
<1>2. PICK o : o = [c.output EXCEPT !.returnCode = "UserError"]
  OBVIOUS
<1>3. IsOutput(c.output) /\ DOMAIN c = HostFields
  BY <1>1 DEF Charged, IsHost, IdleHost
<1>4. DOMAIN o = OutputFields /\ o.accounts = c.output.accounts /\ o.gasRemaining \in Nat
  BY <1>2, <1>3 DEF IsOutput, OutputFields
<1>5. Carries(o, c.output)
  BY <1>3, <1>4, SameAccountsCarry
<1>6. KeptHere(WithOutput(c, o), c)
  BY <1>1, <1>5, OutputReplaced DEF Charged
<1>7. host' = WithOutput(c, o)
  BY <1>1, <1>2, <1>3 DEF SignalError, Charged, WithOutput, HostFields
<1>8. ledger' = l /\ frames' = fs /\ exit' # "idle" /\ txs' = txs
  BY <1>1 DEF SignalError, Charged
<1> QED
  BY <1>1, <1>6, <1>7, <1>8, StepStays DEF Charged

LEMMA StorageStoreStep ==
    ASSUME VMInv, NEW value \in StorageValues, StorageStore(value) PROVE VMInv'
<1>1. PICK c, fs, v, l : Charged(c, fs, v, l, ApiCost)
  BY ChargedOnce, StepsAreNat DEF StorageStore, Running
<1>2. PICK g : g = SetStorage(c, value)
  OBVIOUS
<1>3. KeptHere(g, c)
  BY <1>1, <1>2, StoringKeeps DEF Charged
<1>4. host' = g /\ ledger' = l /\ frames' = fs /\ exit' # "idle" /\ txs' = txs
  BY <1>1, <1>2 DEF StorageStore, Continue, Charged
<1> QED
  BY <1>1, <1>3, <1>4, StepStays DEF Charged

LEMMA BigIntNewStep ==
    ASSUME VMInv, BigIntNew PROVE VMInv'
<1>1. PICK c, fs, v, l : Charged(c, fs, v, l, ApiCost)
  BY ChargedOnce, StepsAreNat DEF BigIntNew, Running
<1>2. PICK h : h = host
  OBVIOUS
<1>3. IsHost(h)
  BY <1>2 DEF BigIntNew, Running, VMInv, Active, Level
<1>4. OnlyPoints(c, h)
  BY <1>1, <1>2, <1>3, GasUsed, StepsAreNat DEF Charged
<1>5. c.bigInt = h.bigInt /\ DOMAIN c = HostFields
  BY <1>4 DEF OnlyPoints, SameBut, HostFields
<1>6. c.bigInt + 1 \in 0 .. MaxBigInts
  BY <1>2, <1>3, <1>5, HostAssumption DEF BigIntNew, IsHost, IdleHost
<1>7. PICK g : g = [c EXCEPT !.bigInt = @ + 1]
  OBVIOUS
<1>8. SameBut(g, c, {"bigInt"}) /\ g.bigInt = c.bigInt + 1
  BY <1>5, <1>7 DEF SameBut, HostFields
<1>9. /\ SameBut(g, c, Inner) /\ g.output = c.output /\ g.points = c.points
      /\ g.metering = c.metering /\ g.world = c.world /\ g.runtime = c.runtime
  BY <1>8 DEF SameBut, HostFields, Inner
<1>10. KeptHere(g, c)
  <2>1. IsHost(c) /\ Carries(g.output, c.output)
    BY <1>1, <1>9, SameCarries DEF Charged, IsHost, IdleHost
  <2> QED
    BY <1>6, <1>8, <1>9, <2>1, InnerKeeps DEF IsHost, IdleHost
<1>11. host' = g /\ ledger' = l /\ frames' = fs /\ exit' # "idle" /\ txs' = txs
  BY <1>1, <1>7 DEF BigIntNew, Continue, Charged
<1> QED
  BY <1>1, <1>10, <1>11, StepStays DEF Charged

LEMMA InputMade ==
    ASSUME NEW caller \in Accounts, NEW recipient \in Accounts, NEW value \in Nat,
           NEW gas \in Nat, NEW callType \in KnownCallTypes, NEW init
    PROVE  /\ IsInput(Input(caller, recipient, value, gas, callType, init))
           /\ Input(caller, recipient, value, gas, callType, init).recipient = recipient
  BY DEF IsInput, Input

(* A step into a nested execution, from the contexts that it pushes. *)
LEMMA EnterDestStep ==
    ASSUME VMInv, NEW c, NEW fs, NEW v, NEW l, Active(c, fs, v),
           fs[1].input.value = v, IsLedger(l), IsHost(c), frames = fs,
           NEW kind, kind \notin {"top", "same"}, NEW input, IsInput(input),
           kind = "asyncDest" => input.recipient \in Contracts,
           kind = "esdt" => c.world # 0,
           EnterDest(c, l, kind, input), txs' = txs
    PROVE  VMInv'
<1>1. PICK p : p = PushDestContexts(c, input)
  OBVIOUS
<1>2. PushedFrom(p, c, kind, input)
  BY <1>1, DestPushed
<1>3. EnterFrom(fs, c, l, kind, input, TransferAndExecute(p, input))
  BY <1>1 DEF EnterDest, Enter, EnterFrom
<1>4. Good(host', exit', frames', v) /\ IsLedger(ledger')
  BY <1>2, <1>3, Entered
<1> QED
  BY <1>4, GoodKeeps DEF VMInv

LEMMA ExecuteOnDestContextStep ==
    ASSUME VMInv, NEW dest \in Accounts, NEW gasLimit \in GasLimits,
           NEW value \in CallValues, NEW init,
           ExecuteOnDestContext(dest, gasLimit, value, init)
    PROVE  VMInv'
<1>1. PICK c, fs, v, l : Charged(c, fs, v, l, ApiCost)
  BY ChargedOnce, StepsAreNat DEF ExecuteOnDestContext, Running
<1>2. PICK a, input : /\ a = self
                      /\ input = Input(a, dest, value, BoundGasLimit(c, gasLimit),
                                       "DirectCall", init)
  OBVIOUS
<1>3. IsInput(input)
  <2>1. /\ a \in Accounts /\ value \in Nat /\ BoundGasLimit(c, gasLimit) \in Nat
        /\ "DirectCall" \in KnownCallTypes
    BY <1>1, <1>2, GasIsNat, StepsAreNat DEF Charged, KnownCallTypes
  <2> QED
    BY <1>2, <2>1, InputMade
<1>4. txs' = txs /\ frames = fs
  BY <1>1 DEF ExecuteOnDestContext, Charged
<1>5. CASE AreInSameShard(self, dest)
  <2>1. EnterDest(c, l, "dest", input)
    BY <1>1, <1>2, <1>5 DEF ExecuteOnDestContext, Charged
  <2> QED
    BY <1>1, <1>3, <1>4, <2>1, EnterDestStep DEF Charged
<1>6. CASE ~AreInSameShard(self, dest)
  <2>1. Fault(c, l)
    BY <1>1, <1>6 DEF ExecuteOnDestContext, Charged
  <2> QED
    BY <1>1, <1>4, <2>1, FaultStays DEF Charged
<1> QED
  BY <1>5, <1>6

LEMMA ExecuteOnSameContextStep ==
    ASSUME VMInv, NEW dest \in Accounts, NEW gasLimit \in GasLimits,
           NEW value \in CallValues, ExecuteOnSameContext(dest, gasLimit, value)
    PROVE  VMInv'
<1>1. PICK c, fs, v, l : Charged(c, fs, v, l, ApiCost)
  BY ChargedOnce, StepsAreNat DEF ExecuteOnSameContext, Running
<1>2. PICK a, input : /\ a = self
                      /\ input = Input(a, dest, value, BoundGasLimit(c, gasLimit),
                                       "DirectCall", FALSE)
  OBVIOUS
<1>3. IsInput(input)
  <2>1. /\ a \in Accounts /\ value \in Nat /\ BoundGasLimit(c, gasLimit) \in Nat
        /\ "DirectCall" \in KnownCallTypes
    BY <1>1, <1>2, GasIsNat, StepsAreNat DEF Charged, KnownCallTypes
  <2> QED
    BY <1>2, <2>1, InputMade
<1>4. txs' = txs /\ frames = fs
  BY <1>1 DEF ExecuteOnSameContext, Charged
<1>5. CASE AreInSameShard(self, dest)
  <2>1. PICK p : p = PushSameContexts(c, input)
    OBVIOUS
  <2>2. PushedFrom(p, c, "same", input)
    BY <1>1, <1>3, <2>1, SamePushed DEF Charged
  <2>3. EnterFrom(fs, c, l, "same", input, TransferAndExecute(p, input))
    BY <1>1, <1>2, <1>5, <2>1 DEF ExecuteOnSameContext, Enter, EnterFrom, Charged
  <2>4. Good(host', exit', frames', v) /\ IsLedger(ledger')
    BY <1>1, <1>3, <2>2, <2>3, Entered DEF Charged
  <2> QED
    BY <1>4, <2>4, GoodKeeps DEF VMInv
<1>6. CASE ~AreInSameShard(self, dest)
  <2>1. Fault(c, l)
    BY <1>1, <1>6 DEF ExecuteOnSameContext, Charged
  <2> QED
    BY <1>1, <1>4, <2>1, FaultStays DEF Charged
<1> QED
  BY <1>5, <1>6

LEMMA TransferValueExecuteStep ==
    ASSUME VMInv, NEW dest \in Accounts, NEW gasLimit \in GasLimits,
           NEW value \in CallValues, NEW function,
           TransferValueExecute(dest, gasLimit, value, function)
    PROVE  VMInv'
<1>1. PICK c, fs, v, l : Charged(c, fs, v, l, 2 * ApiCost)
  BY ChargedOnce, StepsAreNat DEF TransferValueExecute, Running
<1>2. PICK a, input : /\ a = self
                      /\ input = Input(a, dest, value, BoundGasLimit(c, gasLimit),
                                       "DirectCall", FALSE)
  OBVIOUS
<1>3. /\ a \in Accounts /\ value \in Nat /\ BoundGasLimit(c, gasLimit) \in Nat
      /\ gasLimit \in Nat /\ "DirectCall" \in KnownCallTypes /\ 0 \in Nat
  BY <1>1, <1>2, GasIsNat, StepsAreNat DEF Charged, KnownCallTypes
<1>4. IsInput(input)
  BY <1>2, <1>3, InputMade
<1>5. txs' = txs /\ frames = fs
  BY <1>1 DEF TransferValueExecute, Charged
<1>6. CASE function /\ AreInSameShard(self, dest) /\ IsSmartContract(dest)
  <2>1. EnterDest(c, l, "transfer", input)
    BY <1>1, <1>2, <1>6 DEF TransferValueExecute, Charged
  <2> QED
    BY <1>1, <1>4, <1>5, <2>1, EnterDestStep DEF Charged
<1>7. CASE /\ ~(function /\ AreInSameShard(self, dest) /\ IsSmartContract(dest))
           /\ CanTransferValue(c, dest, a, value, gasLimit > 0)
  <2>1. PICK g, m : /\ g = Transfer(c, dest, a, gasLimit, 0, value)
                    /\ m = [l EXCEPT !.unfunded = @ + gasLimit]
    OBVIOUS
  <2>2. Continue(g, m)
    BY <1>1, <1>2, <1>7, <2>1 DEF TransferValueExecute, Charged
  <2>3. KeptHere(g, c)
    BY <1>1, <1>3, <1>7, <2>1, TransferKeeps DEF CanTransferValue, Charged
  <2>4. IsLedger(m)
    BY <1>1, <2>1 DEF IsLedger, Charged
  <2>5. host' = g /\ ledger' = m /\ frames' = fs /\ exit' # "idle"
    BY <1>5, <2>2 DEF Continue
  <2> QED
    BY <1>1, <1>5, <2>3, <2>4, <2>5, StepStays DEF Charged
<1>8. CASE /\ ~(function /\ AreInSameShard(self, dest) /\ IsSmartContract(dest))
           /\ ~CanTransferValue(c, dest, a, value, gasLimit > 0)
  <2>1. Fault(c, l)
    BY <1>1, <1>2, <1>8 DEF TransferValueExecute, Charged
  <2> QED
    BY <1>1, <1>5, <2>1, FaultStays DEF Charged
<1> QED
  BY <1>6, <1>7, <1>8

(* The built-in function moves a token. *)
LEMMA TokenMoved ==
    ASSUME NEW h, IsHost(h)
    PROVE  /\ KeptHere([h EXCEPT !.world = @ + 1], h)
           /\ [h EXCEPT !.world = @ + 1].world = h.world + 1
           /\ h.world + 1 # 0
<1>1. PICK g : g = [h EXCEPT !.world = @ + 1]
  OBVIOUS
<1>2. DOMAIN h = HostFields /\ h.world \in Nat
  BY DEF IsHost, IdleHost
<1>3. SameBut(g, h, {"world"}) /\ g.world = h.world + 1
  BY <1>1, <1>2 DEF SameBut, HostFields
<1>4. /\ SameBut(g, h, Inner) /\ g.output = h.output /\ g.points = h.points
      /\ g.metering = h.metering /\ g.bigInt = h.bigInt /\ g.runtime = h.runtime
  BY <1>3 DEF SameBut, HostFields, Inner
<1>5. Carries(g.output, h.output) /\ g.world \in Nat
  BY <1>2, <1>3, <1>4, SameCarries DEF IsHost, IdleHost
<1>6. KeptHere(g, h)
  BY <1>4, <1>5, InnerKeeps DEF IsHost, IdleHost
<1> QED
  BY <1>1, <1>2, <1>3, <1>6

LEMMA ESDTTransferred ==
    ASSUME NEW h, IsHost(h), ExecuteESDTTransfer(h).err = "Ok"
    PROVE  /\ KeptHere(ExecuteESDTTransfer(h).host, h)
           /\ ExecuteESDTTransfer(h).host.world # 0
<1>1. PICK u : u = UseGas(h, EsdtCost)
  OBVIOUS
<1>2. KeptHere(u, h)
  BY <1>1, GasUseKeeps, StepsAreNat
<1>3. PICK g : g = [u EXCEPT !.world = @ + 1]
  OBVIOUS
<1>4. KeptHere(g, u) /\ g.world # 0
  BY <1>2, <1>3, TokenMoved DEF KeptHere, Kept
<1>5. ExecuteESDTTransfer(h).host = g
  BY <1>1, <1>3 DEF ExecuteESDTTransfer
<1>6. KeptHere(g, h)
  BY <1>2, <1>4, KeptTransitive
<1> QED
  BY <1>4, <1>5, <1>6

LEMMA TransferESDTExecuteStep ==
    ASSUME VMInv, NEW dest \in Accounts, NEW gasLimit \in GasLimits, NEW function,
           TransferESDTExecute(dest, gasLimit, function)
    PROVE  VMInv'
<1>1. PICK c, fs, v, l : Charged(c, fs, v, l, ApiCost)
  BY ChargedOnce, StepsAreNat DEF TransferESDTExecute, Running
<1>2. PICK a, moved, provided, isExecution :
          /\ a = self /\ moved = ExecuteESDTTransfer(c)
          /\ provided = BoundGasLimit(c, gasLimit)
          /\ isExecution = (function /\ IsSmartContract(dest))
  OBVIOUS
<1>3. PICK h, m, remaining : /\ h = moved.host /\ m = Burn(l, a, EsdtCost)
                             /\ remaining = provided - EsdtCost
  OBVIOUS
<1>4. /\ a \in Accounts /\ provided \in Nat /\ 0 \in Nat /\ EsdtCost \in Nat
      /\ "DirectCall" \in KnownCallTypes
  BY <1>1, <1>2, GasIsNat, StepsAreNat DEF Charged, KnownCallTypes
<1>5. txs' = txs /\ frames = fs
  BY <1>1 DEF TransferESDTExecute, Charged
<1>6. IsLedger(m)
  BY <1>1, <1>3, <1>4, BurntLedger DEF Charged
<1>7. IF moved.err # "Ok" THEN Fault(c, l)
      ELSE IF isExecution /\ (EsdtCost > provided \/ remaining > GasLeft(h))
      THEN Fault(h, m)
      ELSE IF ~isExecution THEN Continue(AddOutputTransfer(h, dest, 0, 0), m)
      ELSE IF AreInSameShard(self, dest)
      THEN EnterDest(AddOutputTransfer(h, dest, 0, 0), m, "esdt",
                     Input(a, dest, 0, remaining, "DirectCall", FALSE))
      ELSE Continue(ForwardGas(h, dest, remaining),
                    [m EXCEPT !.forwarded = @ + remaining])
  BY <1>1, <1>2, <1>3 DEF TransferESDTExecute, Charged
<1>8. CASE moved.err # "Ok"
  BY <1>1, <1>5, <1>7, <1>8, FaultStays DEF Charged
<1>9. CASE moved.err = "Ok"
  <2>1. KeptHere(h, c) /\ h.world # 0
    BY <1>1, <1>2, <1>3, <1>9, ESDTTransferred DEF Charged
  <2>2. IsHost(h) /\ Active(h, fs, v)
    BY <1>1, <2>1, KeptActive DEF Charged, KeptHere, Kept
  <2>3. CASE isExecution /\ (EsdtCost > provided \/ remaining > GasLeft(h))
    <3>1. Fault(h, m)
      BY <1>7, <1>9, <2>3
    <3> QED
      BY <1>1, <1>5, <1>6, <2>2, <3>1, FaultStays DEF Charged
  <2>4. PICK g : g = AddOutputTransfer(h, dest, 0, 0)
    OBVIOUS
  <2>5. KeptHere(g, h)
    BY <1>4, <2>2, <2>4, OutputTransferKeeps
  <2>6. CASE ~isExecution
    <3>1. host' = g /\ ledger' = m /\ frames' = fs /\ exit' # "idle"
      BY <1>5, <1>7, <1>9, <2>4, <2>6 DEF Continue
    <3> QED
      BY <1>1, <1>5, <1>6, <2>2, <2>5, <3>1, StepStays DEF Charged
  <2>7. ASSUME isExecution, ~(EsdtCost > provided \/ remaining > GasLeft(h))
        PROVE  VMInv'
    <3>1. remaining \in Nat
      BY <1>3, <1>4, <2>7
    <3>2. CASE AreInSameShard(self, dest)
      <4>1. PICK input : input = Input(a, dest, 0, remaining, "DirectCall", FALSE)
        OBVIOUS
      <4>2. IsInput(input)
        BY <1>4, <3>1, <4>1, InputMade
      <4>3. EnterDest(g, m, "esdt", input)
        BY <1>7, <1>9, <2>4, <2>7, <3>2, <4>1
      <4>4. g.world = h.world
        <5>1. DOMAIN h = HostFields
          BY <2>2 DEF IsHost, IdleHost
        <5> QED
          BY <2>4, <5>1 DEF AddOutputTransfer, HostFields
      <4>5. IsHost(g) /\ Active(g, fs, v)
        BY <2>2, <2>5, KeptActive DEF KeptHere, Kept
      <4>6. g.world # 0 /\ fs[1].input.value = v
        BY <1>1, <2>1, <4>4 DEF Charged
      <4> QED
        BY <1>5, <1>6, <4>2, <4>3, <4>5, <4>6, EnterDestStep
    <3>3. CASE ~AreInSameShard(self, dest)
      <4>1. PICK u : u = UseGas(h, remaining)
        OBVIOUS
      <4>2. KeptHere(u, h)
        BY <2>2, <3>1, <4>1, GasUseKeeps
      <4>3. PICK w, k : /\ w = AddOutputTransfer(u, dest, remaining, 0)
                        /\ k = [m EXCEPT !.forwarded = @ + remaining]
        OBVIOUS
      <4>4. KeptHere(w, u)
        <5>1. IsHost(u)
          BY <4>2 DEF KeptHere, Kept
        <5> QED
          BY <1>4, <3>1, <4>3, <5>1, OutputTransferKeeps
      <4>5. KeptHere(w, h) /\ IsLedger(k)
        BY <1>6, <4>2, <4>3, <4>4, KeptTransitive DEF IsLedger
      <4>6. host' = w /\ ledger' = k /\ frames' = fs /\ exit' # "idle"
        BY <1>5, <1>7, <1>9, <2>7, <3>3, <4>1, <4>3 DEF Continue, ForwardGas
      <4> QED
        BY <1>1, <1>5, <2>2, <4>5, <4>6, StepStays DEF Charged
    <3> QED
      BY <3>2, <3>3
  <2> QED
    BY <2>3, <2>6, <2>7
<1> QED
  BY <1>8, <1>9

-----------------------------------------------------------------------------
(* Built-in functions.  Their outputs move no value.                        *)

ZeroOutput(o) ==
    /\ IsOutput(o)
    /\ \A a \in DOMAIN o.accounts : o.accounts[a].balanceDelta = 0

LEMMA ZeroTransfer ==
    ASSUME NEW o, ZeroOutput(o), NEW dest \in Accounts, NEW gasLimit \in Nat,
           NEW gasLocked \in Nat
    PROVE  /\ ZeroOutput(WithOutputTransfer(o, dest, gasLimit, gasLocked))
           /\ WithOutputTransfer(o, dest, gasLimit, gasLocked).gasRemaining
                 = o.gasRemaining
<1>1. PICK old, t : /\ old = GetOutputAccount(o, dest)
                    /\ t = [gasLimit |-> gasLimit, gasLocked |-> gasLocked]
  OBVIOUS
<1>2. old \in AccountType /\ old.balanceDelta = 0
  BY <1>1, GotAccount DEF ZeroOutput, GetOutputAccount, NewVMOutputAccount
<1>3. t \in Transfers
  BY <1>1 DEF Transfers
<1>4. PICK account : account = [old EXCEPT !.outputTransfers = Append(@, t)]
  OBVIOUS
<1>5. Append(old.outputTransfers, t) \in Seq(Transfers)
  BY <1>2, <1>3, AppendProperties DEF AccountType
<1>6. account \in AccountType /\ account.balanceDelta = 0
  BY <1>2, <1>4, <1>5 DEF AccountType
<1>7. PICK p : p = SetOutputAccount(o, dest, account)
  OBVIOUS
<1>8. AccountSet(p, o, dest, account)
  BY <1>6, <1>7, SetAccount DEF ZeroOutput
<1>9. p = WithOutputTransfer(o, dest, gasLimit, gasLocked)
  BY <1>1, <1>4, <1>7 DEF WithOutputTransfer
<1>10. ZeroOutput(p) /\ p.gasRemaining = o.gasRemaining
  BY <1>6, <1>8 DEF AccountSet, ZeroOutput
<1> QED
  BY <1>9, <1>10

(* The output of a built-in function, merged into the active one. *)
WithAccounts(o, accounts) == [o EXCEPT !.accounts = accounts]
Joined(o, right) == {a \in DOMAIN right.accounts : a \in DOMAIN o.accounts}
JoinedLeft(o, right) ==
    [a \in DOMAIN o.accounts |->
        IF a \in Joined(o, right)
        THEN [o.accounts[a] EXCEPT !.outputTransfers =
                @ \o right.accounts[a].outputTransfers]
        ELSE o.accounts[a]]
JoinedRight(o, right) ==
    [a \in DOMAIN right.accounts |->
        IF a \in Joined(o, right)
        THEN [right.accounts[a] EXCEPT !.balanceDelta = @ + o.accounts[a].balanceDelta]
        ELSE right.accounts[a]]

LEMMA AddedToActiveState ==
    ASSUME NEW h, IsHost(h), NEW right, ZeroOutput(right)
    PROVE  KeptHere(AddToActiveState(h, right), h)
<1>1. PICK o, joined : o = h.output /\ joined = Joined(o, right)
  OBVIOUS
<1>2. IsOutput(o) /\ IsOutput(right)
  BY <1>1 DEF IsHost, IdleHost, ZeroOutput
<1>3. PICK l, r : l = JoinedLeft(o, right) /\ r = JoinedRight(o, right)
  OBVIOUS
<1>4. PICK left, added : left = WithAccounts(o, l) /\ added = WithAccounts(right, r)
  OBVIOUS
<1>5. AddToActiveState(h, right) = WithOutput(h, mergeVMOutputs(left, added))
  <2>1. AddToActiveState(h, right) =
          WithOutput(h, mergeVMOutputs(
              WithAccounts(h.output, JoinedLeft(h.output, right)),
              WithAccounts(right, JoinedRight(h.output, right))))
    BY DEF AddToActiveState, WithOutput, WithAccounts, JoinedLeft, JoinedRight, Joined
  <2> QED
    BY <1>1, <1>3, <1>4, <2>1
<1>6. /\ DOMAIN left = OutputFields /\ left.gasRemaining = o.gasRemaining
      /\ DOMAIN left.accounts = DOMAIN o.accounts
      /\ \A a \in DOMAIN o.accounts : left.accounts[a] =
            IF a \in joined
            THEN [o.accounts[a] EXCEPT !.outputTransfers =
                    @ \o right.accounts[a].outputTransfers]
            ELSE o.accounts[a]
  <2>1. left.accounts = l /\ DOMAIN left = OutputFields /\ left.gasRemaining = o.gasRemaining
    BY <1>2, <1>4 DEF IsOutput, OutputFields, WithAccounts
  <2> QED
    BY <1>1, <1>3, <2>1 DEF JoinedLeft
<1>7. /\ DOMAIN added = OutputFields /\ added.gasRemaining = right.gasRemaining
      /\ DOMAIN added.accounts = DOMAIN right.accounts
      /\ \A a \in DOMAIN right.accounts : added.accounts[a] =
            IF a \in joined
            THEN [right.accounts[a] EXCEPT !.balanceDelta =
                    @ + o.accounts[a].balanceDelta]
            ELSE right.accounts[a]
  <2>1. /\ added.accounts = r /\ DOMAIN added = OutputFields
        /\ added.gasRemaining = right.gasRemaining
    BY <1>2, <1>4 DEF IsOutput, OutputFields, WithAccounts
  <2> QED
    BY <1>1, <1>3, <2>1 DEF JoinedRight
<1>8. ASSUME NEW a \in DOMAIN o.accounts
      PROVE  /\ left.accounts[a] \in AccountType
             /\ left.accounts[a].balanceDelta = o.accounts[a].balanceDelta
  <2>1. o.accounts[a] \in AccountType
    BY <1>2 DEF IsOutput
  <2>2. CASE a \in joined
    <3>1. PICK x, y : x = o.accounts[a] /\ y = right.accounts[a].outputTransfers
      OBVIOUS
    <3>2. x \in AccountType /\ y \in Seq(Transfers)
      BY <1>1, <1>2, <2>1, <2>2, <3>1 DEF IsOutput, AccountType, Joined
    <3>3. x.outputTransfers \o y \in Seq(Transfers)
      BY <3>2, ConcatProperties DEF AccountType
    <3>4. left.accounts[a] = [x EXCEPT !.outputTransfers = @ \o y]
      BY <1>6, <2>2, <3>1
    <3> QED
      BY <3>1, <3>2, <3>3, <3>4 DEF AccountType
  <2>3. CASE a \notin joined
    BY <1>6, <2>1, <2>3
  <2> QED
    BY <2>2, <2>3
<1>9. ASSUME NEW a \in DOMAIN right.accounts
      PROVE  /\ added.accounts[a] \in AccountType
             /\ added.accounts[a].balanceDelta = DeltaOf(o, a)
  <2>1. right.accounts[a] \in AccountType /\ right.accounts[a].balanceDelta = 0
    BY <1>2 DEF IsOutput, ZeroOutput
  <2>2. CASE a \in joined
    <3>1. PICK x, d : x = right.accounts[a] /\ d = o.accounts[a].balanceDelta
      OBVIOUS
    <3>2. x \in AccountType /\ x.balanceDelta = 0 /\ d \in Int /\ d = DeltaOf(o, a)
      BY <1>1, <1>2, <2>1, <2>2, <3>1 DEF IsOutput, AccountType, DeltaOf,
                                                GetOutputAccount, Joined
    <3>3. added.accounts[a] = [x EXCEPT !.balanceDelta = @ + d]
      BY <1>7, <2>2, <3>1
    <3> QED
      BY <3>2, <3>3 DEF AccountType
  <2>3. CASE a \notin joined
    <3>1. a \notin DOMAIN o.accounts
      BY <1>1, <2>3 DEF Joined
    <3>2. DeltaOf(o, a) = 0
      BY <1>2, <3>1, DeltaFacts
    <3> QED
      BY <1>7, <2>1, <2>3, <3>2
  <2> QED
    BY <2>2, <2>3
<1>10. IsOutput(left) /\ IsOutput(added)
  BY <1>2, <1>6, <1>7, <1>8, <1>9 DEF IsOutput
<1>11. PICK p : p = mergeVMOutputs(left, added)
  OBVIOUS
<1>12. MergeOf(p, left, added)
  BY <1>10, <1>11, MergedOutputs
<1>13. SameDeltas(p, o) /\ IsOutput(p)
  <2>1. IsOutput(p) /\ DOMAIN p.accounts = DOMAIN o.accounts \cup DOMAIN right.accounts
    BY <1>6, <1>7, <1>12 DEF MergeOf
  <2>2. ASSUME NEW a \in DOMAIN p.accounts
        PROVE  p.accounts[a].balanceDelta = DeltaOf(o, a)
    <3>1. CASE a \in DOMAIN right.accounts
      BY <1>7, <1>9, <1>12, <3>1 DEF MergeOf
    <3>2. CASE a \notin DOMAIN right.accounts
      <4>1. a \in DOMAIN o.accounts /\ p.accounts[a] = left.accounts[a]
        BY <1>6, <1>7, <1>12, <2>1, <3>2 DEF MergeOf
      <4> QED
        BY <1>8, <4>1 DEF DeltaOf, GetOutputAccount
    <3> QED
      BY <3>1, <3>2
  <2> QED
    BY <2>1, <2>2 DEF SameDeltas
<1>14. Carries(p, o)
  BY <1>2, <1>13, SameDeltasCarry
<1>15. KeptHere(WithOutput(h, p), h)
  BY <1>1, <1>14, OutputReplaced
<1> QED
  BY <1>5, <1>11, <1>15

(* What the function gives back. *)
LEMMA BuiltInProcessed ==
    ASSUME NEW h, IsHost(h), NEW input, IsInput(input), NEW andCall, NEW p,
           p = ProcessBuiltInFunction(h, input, andCall), p.err = "Ok"
    PROVE  /\ ZeroOutput(p.output)
           /\ (andCall /\ input.recipient \in Contracts =>
                  /\ input.recipient \in DOMAIN p.output.accounts
                  /\ Len(p.output.accounts[input.recipient].outputTransfers) = 1)
<1>1. PICK rest, locked, r :
          /\ rest = input.gas - EsdtCost /\ r = input.recipient
          /\ locked = IF input.callType = "AsynchronousCall"
                      THEN h.runtime.gasLocked ELSE 0
  OBVIOUS
<1>2. /\ input.gas \in Nat /\ EsdtCost \in Nat /\ h.runtime.gasLocked \in Nat
      /\ r \in Accounts /\ locked \in Nat
  BY <1>1, StepsAreNat DEF IsInput, IsHost, RuntimeType
<1>3. ~(input.gas < EsdtCost)
  BY DEF ProcessBuiltInFunction
<1>4. rest \in Nat
  BY <1>1, <1>2, <1>3
<1>5. ZeroOutput(newVMOutput)
  BY NewOutputs DEF ZeroOutput
<1>6. CASE input.recipient \in Remote \/ (andCall /\ input.recipient \in Contracts)
  <2>1. PICK o : o = WithOutputTransfer(newVMOutput, r, rest, locked)
    OBVIOUS
  <2>2. p.output = o
    BY <1>1, <1>3, <1>6, <2>1 DEF ProcessBuiltInFunction
  <2>3. ZeroOutput(o)
    BY <1>2, <1>4, <1>5, <2>1, ZeroTransfer
  <2>4. PICK t : t = [gasLimit |-> rest, gasLocked |-> locked]
    OBVIOUS
  <2>5. PICK account : account = [NewVMOutputAccount EXCEPT !.outputTransfers = Append(@, t)]
    OBVIOUS
  <2>6. /\ t \in Transfers /\ << >> \in Seq(Transfers)
        /\ NewVMOutputAccount.outputTransfers = << >>
    BY <1>2, <1>4, <2>4, EmptySeq DEF Transfers, NewVMOutputAccount
  <2>7. Append(<< >>, t) \in Seq(Transfers) /\ Len(Append(<< >>, t)) = 1
    <3>1. Len(Append(<< >>, t)) = Len(<< >>) + 1 /\ Append(<< >>, t) \in Seq(Transfers)
      BY <2>6, AppendProperties
    <3> QED
      BY <3>1, EmptySeq
  <2>8. account \in AccountType /\ account.outputTransfers = Append(<< >>, t)
    BY <2>5, <2>6, <2>7, NewOutputs DEF AccountType
  <2>9. o = SetOutputAccount(newVMOutput, r, account)
    <3>1. GetOutputAccount(newVMOutput, r) = NewVMOutputAccount
      BY NewOutputs DEF GetOutputAccount
    <3> QED
      BY <2>1, <2>4, <2>5, <3>1 DEF WithOutputTransfer
  <2>10. AccountSet(o, newVMOutput, r, account)
    BY <1>2, <2>8, <2>9, NewOutputs, SetAccount
  <2>11. r \in DOMAIN o.accounts /\ Len(o.accounts[r].outputTransfers) = 1
    BY <2>7, <2>8, <2>10 DEF AccountSet
  <2> QED
    BY <1>1, <2>2, <2>3, <2>11
<1>7. CASE ~(input.recipient \in Remote \/ (andCall /\ input.recipient \in Contracts))
  <2>1. p.output = [newVMOutput EXCEPT !.gasRemaining = rest]
    BY <1>1, <1>3, <1>7 DEF ProcessBuiltInFunction
  <2>2. /\ DOMAIN p.output = OutputFields /\ p.output.accounts = newVMOutput.accounts
        /\ p.output.gasRemaining = rest
    BY <2>1 DEF newVMOutput, OutputFields
  <2>3. ZeroOutput(p.output)
    BY <1>4, <1>5, <2>2 DEF ZeroOutput, IsOutput
  <2> QED
    BY <1>7, <2>3
<1> QED
  BY <1>6, <1>7

(* The call after it. *)
LEMMA ExecutionAfterBuiltIn ==
    ASSUME NEW input, IsInput(input), NEW o, ZeroOutput(o), NEW after,
           after = isSCExecutionAfterBuiltInFunc(input, o)
    PROVE  /\ after # << >> =>
                 /\ IsInput(after[1]) /\ after[1].recipient = input.recipient
                 /\ input.caller \in Contracts => input.recipient \in Contracts
           /\ /\ input.caller \in Contracts /\ input.recipient \in Contracts
              /\ input.recipient \in DOMAIN o.accounts
              /\ Len(o.accounts[input.recipient].outputTransfers) = 1
              => after # << >>
<1>1. PICK r, ts : r = input.recipient /\ ts = o.accounts[r].outputTransfers
  OBVIOUS
<1>2. PICK cond : cond = (/\ AreInSameShard(input.caller, r) /\ IsSmartContract(r)
                         /\ r \in DOMAIN o.accounts /\ Len(ts) = 1)
  OBVIOUS
<1>3. PICK next : next = Input(input.caller, r, 0, ts[1].gasLimit, input.callType, FALSE)
  OBVIOUS
<1>4. after = IF cond THEN << next >> ELSE << >>
  BY <1>1, <1>2, <1>3 DEF isSCExecutionAfterBuiltInFunc
<1>5. << next >> # << >> /\ << next >>[1] = next
  OBVIOUS
<1>6. ASSUME cond PROVE IsInput(next) /\ next.recipient = r
  <2>1. ts \in Seq(Transfers) /\ Len(ts) = 1
    BY <1>1, <1>2, <1>6 DEF ZeroOutput, IsOutput, AccountType
  <2>2. ts[1] \in Transfers
    BY <2>1, ElementOfSeq
  <2>3. ts[1].gasLimit \in Nat /\ 0 \in Nat
    BY <2>2 DEF Transfers
  <2>4. /\ input.caller \in Accounts /\ r \in Accounts
        /\ input.callType \in KnownCallTypes
    BY <1>1 DEF IsInput
  <2>5. PICK caller, gas, callType : /\ caller = input.caller /\ gas = ts[1].gasLimit
                                     /\ callType = input.callType
    OBVIOUS
  <2>6. next = Input(caller, r, 0, gas, callType, FALSE)
    BY <1>3, <2>5
  <2>7. /\ next.caller = caller /\ next.recipient = r /\ next.value = 0
        /\ next.gas = gas /\ next.callType = callType
    BY <2>6 DEF Input
  <2> QED
    BY <2>3, <2>4, <2>5, <2>7 DEF IsInput
<1>7. ASSUME cond, input.caller \in Contracts PROVE r \in Contracts
  BY <1>2, <1>7, ContextsAssumption DEF AreInSameShard, IsSmartContract
<1>8. ASSUME input.caller \in Contracts, r \in Contracts, r \in DOMAIN o.accounts,
             Len(ts) = 1
      PROVE  cond
  BY <1>2, <1>8, ContextsAssumption DEF AreInSameShard, IsSmartContract
<1> QED
  BY <1>1, <1>4, <1>5, <1>6, <1>7, <1>8

\* What a call of a built-in function, b, made of the host h.
BuiltInDone(b, h, input, andCall) ==
    /\ KeptHere(b.host, h) /\ b.err \in {"Ok", "ErrNotEnoughGas"}
    /\ b.err = "Ok" => b.output.gasRemaining \in Nat /\ ZeroOutput(b.output)
    /\ b.after # << >> =>
          /\ b.err = "Ok"
          /\ IsInput(b.after[1]) /\ b.after[1].recipient = input.recipient
          /\ input.caller \in Contracts => input.recipient \in Contracts
    /\ /\ input.caller \in Contracts /\ input.recipient \in Contracts
       /\ andCall /\ b.err = "Ok"
       => b.after # << >>

LEMMA BuiltInCalled ==
    ASSUME NEW h, IsHost(h), NEW input, IsInput(input), NEW andCall
    PROVE  BuiltInDone(handleBuiltinFunctionCall(h, input, andCall), h, input, andCall)
<1>1. PICK p, after : /\ p = ProcessBuiltInFunction(h, input, andCall)
                      /\ after = isSCExecutionAfterBuiltInFunc(input, p.output)
  OBVIOUS
<1>2. PICK c, b : /\ c = callBuiltinFunction(h, input, andCall)
                  /\ b = handleBuiltinFunctionCall(h, input, andCall)
  OBVIOUS
<1>3. p.err \in {"Ok", "ErrNotEnoughGas"}
  BY <1>1 DEF ProcessBuiltInFunction
<1>4. CASE p.err # "Ok"
  <2>1. c = [err |-> p.err, after |-> << >>, host |-> UseGas(h, input.gas)]
    BY <1>1, <1>2, <1>4 DEF callBuiltinFunction
  <2>2. b = c
    BY <1>2, <1>4, <2>1 DEF handleBuiltinFunctionCall
  <2>3. KeptHere(b.host, h)
    BY <2>1, <2>2, GasUseKeeps DEF IsInput
  <2> QED
    BY <1>2, <1>3, <1>4, <2>1, <2>2, <2>3 DEF BuiltInDone
<1>5. CASE p.err = "Ok"
  <2>1. /\ ZeroOutput(p.output)
        /\ (andCall /\ input.recipient \in Contracts =>
               /\ input.recipient \in DOMAIN p.output.accounts
               /\ Len(p.output.accounts[input.recipient].outputTransfers) = 1)
    BY <1>1, <1>5, BuiltInProcessed
  <2>2. /\ after # << >> =>
              /\ IsInput(after[1]) /\ after[1].recipient = input.recipient
              /\ input.caller \in Contracts => input.recipient \in Contracts
        /\ /\ input.caller \in Contracts /\ input.recipient \in Contracts
           /\ input.recipient \in DOMAIN p.output.accounts
           /\ Len(p.output.accounts[input.recipient].outputTransfers) = 1
           => after # << >>
    BY <1>1, <2>1, ExecutionAfterBuiltIn
  <2>3. PICK accounts : accounts = [a \in DOMAIN p.output.accounts |->
                            [p.output.accounts[a] EXCEPT !.outputTransfers = << >>]]
    OBVIOUS
  <2>4. PICK kept : kept = IF after = << >> THEN p.output
                           ELSE WithAccounts(p.output, accounts)
    OBVIOUS
  <2>5. ZeroOutput(kept)
    <3>1. CASE after = << >>
      BY <2>1, <2>4, <3>1
    <3>2. CASE after # << >>
      <4>1. /\ kept.accounts = accounts /\ DOMAIN kept = OutputFields
            /\ kept.gasRemaining = p.output.gasRemaining
        BY <2>1, <2>4, <3>2 DEF WithAccounts, ZeroOutput, IsOutput, OutputFields
      <4>2. ASSUME NEW a \in DOMAIN p.output.accounts
            PROVE  /\ accounts[a] \in AccountType /\ accounts[a].balanceDelta = 0
        <5>1. PICK x : x = p.output.accounts[a]
          OBVIOUS
        <5>2. x \in AccountType /\ x.balanceDelta = 0 /\ << >> \in Seq(Transfers)
          BY <2>1, <5>1, EmptySeq DEF ZeroOutput, IsOutput
        <5>3. accounts[a] = [x EXCEPT !.outputTransfers = << >>]
          BY <2>3, <5>1
        <5> QED
          BY <5>2, <5>3 DEF AccountType
      <4>3. DOMAIN accounts = DOMAIN p.output.accounts
        BY <2>3
      <4> QED
        BY <2>1, <4>1, <4>2, <4>3 DEF ZeroOutput, IsOutput
    <3> QED
      BY <3>1, <3>2
  <2>6. PICK o : o = addESDTTransferToVMOutputSCIntraShardCall(input, kept)
    OBVIOUS
  <2>7. ZeroOutput(o)
    <3>1. input.recipient \in Accounts /\ 0 \in Nat
      BY DEF IsInput
    <3>2. ZeroOutput(WithOutputTransfer(kept, input.recipient, 0, 0))
      BY <2>5, <3>1, ZeroTransfer
    <3> QED
      BY <2>5, <2>6, <3>2 DEF addESDTTransferToVMOutputSCIntraShardCall
  <2>8. PICK t : t = TrackGasUsedByBuiltinFunction(h, input, kept, after)
    OBVIOUS
  <2>9. KeptHere(t, h)
    <3>1. PICK used : used = SubUint64(input.gas, kept.gasRemaining)
      OBVIOUS
    <3>2. used \in Nat
      BY <2>5, <3>1, SubtractionIsNat DEF IsInput, ZeroOutput, IsOutput
    <3>3. CASE after = << >>
      BY <2>8, <3>1, <3>2, <3>3, GasUseKeeps DEF TrackGasUsedByBuiltinFunction
    <3>4. CASE after # << >>
      <4>1. SubUint64(used, after[1].gas) \in Nat
        BY <2>2, <3>2, <3>4, SubtractionIsNat DEF IsInput
      <4> QED
        BY <2>8, <3>1, <3>4, <4>1, GasUseKeeps DEF TrackGasUsedByBuiltinFunction
    <3> QED
      BY <3>3, <3>4
  <2>10. PICK w : w = [t EXCEPT !.world = @ + 1]
    OBVIOUS
  <2>11. KeptHere(w, t) /\ IsHost(w)
    BY <2>9, <2>10, TokenMoved DEF KeptHere, Kept
  <2>12. PICK g : g = AddToActiveState(w, o)
    OBVIOUS
  <2>13. KeptHere(g, w)
    BY <2>7, <2>11, <2>12, AddedToActiveState
  <2>14. KeptHere(g, h)
    BY <2>9, <2>11, <2>13, KeptTransitive
  <2>15. c = [err |-> "Ok", after |-> after, host |-> w, output |-> o]
    BY <1>1, <1>2, <1>5, <2>3, <2>4, <2>6, <2>8, <2>10
       DEF callBuiltinFunction, WithAccounts
  <2>16. b.err = "Ok" /\ b.after = after /\ b.host = g /\ b.output = o
    BY <1>2, <2>12, <2>15 DEF handleBuiltinFunctionCall
  <2>17. o.gasRemaining \in Nat
    BY <2>7 DEF ZeroOutput, IsOutput
  <2>18. BuiltInDone(b, h, input, andCall)
    BY <2>1, <2>2, <2>7, <2>14, <2>16, <2>17 DEF BuiltInDone
  <2> QED
    BY <1>2, <2>18
<1> QED
  BY <1>4, <1>5

LEMMA PushThenPop ==
    ASSUME NEW n \in Nat, NEW s, IsStack(s, n), NEW e
    PROVE  Pop(Append(s, e)) = s /\ Top(Append(s, e)) = e
<1>1. PICK t : t = Append(s, e)
  OBVIOUS
<1>2. IsStack(t, n + 1) /\ t[n + 1] = e /\ \A i \in 1 .. n : t[i] = s[i]
  <2>1. PushOf(t, s, n, e)
    BY <1>1, StackPush
  <2> QED
    BY <2>1 DEF PushOf
<1>3. PICK u : u = Pop(t)
  OBVIOUS
<1>4. IsStack(u, n) /\ (\A i \in 1 .. n : u[i] = t[i]) /\ Top(t) = t[n + 1]
  <2>1. n + 1 \in Nat \ {0} /\ n + 1 - 1 = n
    OBVIOUS
  <2>2. PopOf(u, t, n + 1) /\ Top(t) = t[n + 1]
    BY <1>2, <1>3, <2>1, StackPop
  <2> QED
    BY <2>1, <2>2 DEF PopOf
<1>5. u = s
  <2>1. [i \in 1 .. n |-> u[i]] = [i \in 1 .. n |-> s[i]]
    BY <1>2, <1>4
  <2>2. u = [i \in 1 .. n |-> u[i]] /\ s = [i \in 1 .. n |-> s[i]]
    BY <1>4, Zenon DEF IsStack
  <2> QED
    BY <2>1, <2>2, Zenon
<1> QED
  BY <1>1, <1>2, <1>3, <1>4, <1>5

(* The host k of a built-in function, which ran on the host h with a        *)
(* snapshot, when the snapshot is gone.                                     *)
LEMMA SnapshotGone ==
    ASSUME NEW h, IsHost(h), NEW k, KeptHere(k, BlockchainPushState(h)),
           NEW g, SameBut(g, k, {"world", "snapshots"}),
           g.snapshots = h.snapshots, g.world \in Nat
    PROVE  KeptHere(g, h)
<1>1. PICK s : s = BlockchainPushState(h)
  OBVIOUS
<1>2. SameBut(s, h, {"snapshots"})
  BY <1>1, SnapshotTaken
<1>3. KeptHere(k, s)
  BY <1>1
<1>4. /\ IsHost(k) /\ SameStacks(k, s) /\ k.storageAddress = s.storageAddress
      /\ k.runtime.scAddress = s.runtime.scAddress /\ k.instance = s.instance
      /\ Carries(k.output, s.output)
  BY <1>3 DEF KeptHere, Kept
<1>5. /\ g.outputStack = k.outputStack /\ g.meteringStack = k.meteringStack
      /\ g.runtimeStack = k.runtimeStack /\ g.instanceStack = k.instanceStack
      /\ g.bigIntStack = k.bigIntStack /\ g.storageStack = k.storageStack
      /\ g.storageAddress = k.storageAddress /\ g.runtime = k.runtime
      /\ g.instance = k.instance /\ g.output = k.output /\ g.metering = k.metering
      /\ g.points = k.points /\ g.bigInt = k.bigInt /\ DOMAIN g = HostFields
  BY DEF SameBut, HostFields
<1>6. /\ s.outputStack = h.outputStack /\ s.meteringStack = h.meteringStack
      /\ s.runtimeStack = h.runtimeStack /\ s.instanceStack = h.instanceStack
      /\ s.bigIntStack = h.bigIntStack /\ s.storageStack = h.storageStack
      /\ s.storageAddress = h.storageAddress /\ s.runtime = h.runtime
      /\ s.instance = h.instance /\ s.output = h.output
  BY <1>2 DEF SameBut, HostFields
<1>7. SameStacks(g, h)
  BY <1>4, <1>5, <1>6 DEF SameStacks
<1>8. IsHost(g)
  BY <1>4, <1>5 DEF IsHost, IdleHost
<1> QED
  BY <1>4, <1>5, <1>6, <1>7, <1>8 DEF KeptHere, Kept

LEMMA SnapshotPopped ==
    ASSUME NEW h, IsHost(h), NEW n \in Nat, IsStack(h.snapshots, n),
           NEW k, KeptHere(k, BlockchainPushState(h))
    PROVE  /\ KeptHere(BlockchainPopDiscard(k), h)
           /\ KeptHere(UpdateGasStateOnFailure(BlockchainPopSetActiveState(k)), h)
<1>1. k.snapshots = Append(h.snapshots, h.world) /\ DOMAIN k = HostFields
      /\ k.world \in Nat /\ h.world \in Nat
  BY SnapshotTaken DEF KeptHere, Kept, SameStacks, IsHost, IdleHost
<1>2. Pop(k.snapshots) = h.snapshots /\ Top(k.snapshots) = h.world
  BY <1>1, PushThenPop
<1>3. PICK d, e : d = BlockchainPopDiscard(k) /\ e = BlockchainPopSetActiveState(k)
  OBVIOUS
<1>4. SameBut(d, k, {"world", "snapshots"}) /\ d.snapshots = h.snapshots /\ d.world \in Nat
  BY <1>1, <1>2, <1>3 DEF BlockchainPopDiscard, SameBut, HostFields
<1>5. SameBut(e, k, {"world", "snapshots"}) /\ e.snapshots = h.snapshots /\ e.world \in Nat
  BY <1>1, <1>2, <1>3 DEF BlockchainPopSetActiveState, SameBut, HostFields
<1>6. KeptHere(d, h) /\ KeptHere(e, h)
  BY <1>4, <1>5, SnapshotGone
<1>7. IsHost(e)
  BY <1>6 DEF KeptHere, Kept
<1>8. KeptHere(UpdateGasStateOnFailure(e), e)
  BY <1>7, FailureUpdateFails DEF Fails
<1>9. KeptHere(UpdateGasStateOnFailure(e), h)
  BY <1>6, <1>8, KeptTransitive
<1> QED
  BY <1>3, <1>6, <1>9

LEMMA ActiveSnapshots ==
    ASSUME NEW h, NEW fs, NEW v, Active(h, fs, v)
    PROVE  IsHost(h) /\ Len(fs) - 1 \in Nat /\ IsStack(h.snapshots, Len(fs) - 1)
  BY DEF Active, Level, StackSizes, IsCallStack

(* The step into the contract that is called after a built-in function. *)
LEMMA EnteredAfterBuiltIn ==
    ASSUME NEW h, NEW fs, NEW v, Active(h, fs, v), fs[1].input.value = v,
           NEW l, IsLedger(l), NEW kind, kind \notin {"top", "same", "esdt"},
           NEW input, NEW andCall, NEW b,
           BuiltInDone(b, BlockchainPushState(h), input, andCall), b.after # << >>,
           input.caller \in Contracts,
           EnterAfterBuiltin(fs, h, b, l, kind)
    PROVE  Good(host', exit', frames', v) /\ IsLedger(ledger')
<1>1. PICK k, next : k = b.host /\ next = b.after[1]
  OBVIOUS
<1>2. /\ KeptHere(k, BlockchainPushState(h)) /\ IsInput(next)
      /\ next.recipient \in Contracts
  BY <1>1 DEF BuiltInDone
<1>3. IsHost(h) /\ h.world \in Nat
  BY ActiveSnapshots DEF IsHost, IdleHost
<1>4. IsHost(k) /\ DOMAIN k = HostFields /\ k.snapshots = Append(h.snapshots, h.world)
  BY <1>2, <1>3, SnapshotTaken DEF KeptHere, Kept, SameStacks, IsHost, IdleHost
<1>5. PICK c : c = [k EXCEPT !.world = h.world, !.snapshots = h.snapshots]
  OBVIOUS
<1>6. PICK d : d = [k EXCEPT !.world = h.world]
  OBVIOUS
<1>7. /\ SameBut(c, k, {"world", "snapshots"}) /\ c.world = h.world
      /\ c.snapshots = h.snapshots /\ SameBut(k, c, {"world", "snapshots"})
  BY <1>4, <1>5 DEF SameBut, HostFields
<1>8. SameBut(d, c, {"snapshots"})
  BY <1>4, <1>5, <1>6 DEF SameBut, HostFields
<1>9. KeptHere(c, h)
  BY <1>2, <1>3, <1>7, SnapshotGone
<1>10. IsHost(c) /\ Active(c, fs, v)
  BY <1>9, KeptActive DEF KeptHere, Kept
<1>11. PICK p : p = PushNoBuiltin(k, next)
  OBVIOUS
<1>12. PushedFrom(p, c, kind, next)
  BY <1>2, <1>4, <1>7, <1>10, <1>11, NoBuiltinPushed
<1>13. Frame(kind, next, d, l) = Frame(kind, next, c, l)
  <2>1. /\ d.output = c.output /\ d.bigInt = c.bigInt /\ d.world = c.world
        /\ d.storageAddress = c.storageAddress /\ d.runtime = c.runtime
        /\ d.metering = c.metering /\ d.instance = c.instance /\ d.points = c.points
    BY <1>8 DEF SameBut, HostFields
  <2> QED
    BY <2>1 DEF Frame, GetPointsUsed
<1>14. EnterFrom(fs, d, l, kind, next, TransferAndExecute(p, next))
  BY <1>1, <1>6, <1>11 DEF EnterAfterBuiltin
<1>15. EnterFrom(fs, c, l, kind, next, TransferAndExecute(p, next))
  BY <1>13, <1>14 DEF EnterFrom
<1> QED
  BY <1>2, <1>10, <1>12, <1>15, Entered

LEMMA ExecuteBuiltinFunctionStep ==
    ASSUME VMInv, NEW dest \in Accounts, NEW gasLimit \in GasLimits, NEW andCall,
           ExecuteBuiltinFunction(dest, gasLimit, andCall)
    PROVE  VMInv'
<1>1. PICK c, fs, v, l : Charged(c, fs, v, l, ApiCost)
  BY ChargedOnce, StepsAreNat DEF ExecuteBuiltinFunction, Running
<1>2. PICK a, input : /\ a = self
                      /\ input = Input(a, dest, 0, BoundGasLimit(c, gasLimit),
                                       "DirectCall", FALSE)
  OBVIOUS
<1>3. /\ a \in Accounts /\ a \in Contracts /\ BoundGasLimit(c, gasLimit) \in Nat
      /\ "DirectCall" \in KnownCallTypes /\ 0 \in Nat /\ EsdtCost \in Nat
  BY <1>1, <1>2, GasIsNat, StepsAreNat DEF Charged, KnownCallTypes
<1>4. IsInput(input)
  BY <1>2, <1>3, InputMade
<1>5. input.caller = a /\ input.gas \in Nat
  BY <1>2, <1>3 DEF Input
<1>6. PICK s, b : /\ s = BlockchainPushState(c)
                  /\ b = handleBuiltinFunctionCall(s, input, andCall)
  OBVIOUS
<1>7. BuiltInDone(b, s, input, andCall)
  BY <1>1, <1>4, <1>6, SnapshotTaken, BuiltInCalled DEF Charged
<1>8. PICK paid : paid = Burn(l, a, IF b.err = "Ok" THEN EsdtCost ELSE input.gas)
  OBVIOUS
<1>9. IsLedger(paid)
  <2>1. (IF b.err = "Ok" THEN EsdtCost ELSE input.gas) \in Nat
    BY <1>3, <1>5
  <2> QED
    BY <1>1, <1>3, <1>8, <2>1, BurntLedger DEF Charged
<1>10. txs' = txs /\ frames = fs
  BY <1>1 DEF ExecuteBuiltinFunction, Charged
<1>11. IF ~AreInSameShard(a, dest) THEN Fault(c, l)
       ELSE IF b.after # << >> THEN EnterAfterBuiltin(fs, c, b, paid, "dest")
       ELSE IF b.err = "Ok" THEN Continue(BlockchainPopDiscard(b.host), paid)
       ELSE Fault(FailedBuiltin(b), paid)
  BY <1>1, <1>2, <1>6, <1>8 DEF ExecuteBuiltinFunction, Charged
<1>12. Active(c, fs, v) /\ fs[1].input.value = v /\ IsHost(c) /\ IsLedger(l)
  BY <1>1 DEF Charged
<1>13. KeptHere(BlockchainPopDiscard(b.host), c) /\ KeptHere(FailedBuiltin(b), c)
  BY <1>6, <1>7, <1>12, ActiveSnapshots, SnapshotPopped DEF BuiltInDone, FailedBuiltin
<1>14. CASE ~AreInSameShard(a, dest)
  BY <1>10, <1>11, <1>12, <1>14, FaultStays
<1>15. CASE AreInSameShard(a, dest) /\ b.after # << >>
  <2>1. EnterAfterBuiltin(fs, c, b, paid, "dest")
    BY <1>11, <1>15
  <2>2. Good(host', exit', frames', v) /\ IsLedger(ledger')
    BY <1>3, <1>5, <1>6, <1>7, <1>9, <1>12, <1>15, <2>1, EnteredAfterBuiltIn
  <2> QED
    BY <1>10, <2>2, GoodKeeps DEF VMInv
<1>16. CASE AreInSameShard(a, dest) /\ b.after = << >> /\ b.err = "Ok"
  <2>1. PICK g : g = BlockchainPopDiscard(b.host)
    OBVIOUS
  <2>2. host' = g /\ ledger' = paid /\ frames' = fs /\ exit' # "idle"
    BY <1>10, <1>11, <1>16, <2>1 DEF Continue
  <2> QED
    BY <1>9, <1>10, <1>12, <1>13, <2>1, <2>2, StepStays
<1>17. CASE AreInSameShard(a, dest) /\ b.after = << >> /\ b.err # "Ok"
  <2>1. PICK g : g = FailedBuiltin(b)
    OBVIOUS
  <2>2. Fault(g, paid) /\ KeptHere(g, c)
    BY <1>11, <1>13, <1>17, <2>1
  <2>3. IsHost(g) /\ Active(g, fs, v)
    BY <1>12, <2>2, KeptActive DEF KeptHere, Kept
  <2> QED
    BY <1>9, <1>10, <1>12, <2>2, <2>3, FaultStays
<1> QED
  BY <1>14, <1>15, <1>16, <1>17

-----------------------------------------------------------------------------
(* Asynchronous calls.                                                      *)

\* The active contract h stops with the host g.
LEMMA StoppedGood ==
    ASSUME NEW h, NEW fs, NEW v, Active(h, fs, v), fs[1].input.value = v,
           NEW g, KeptHere(g, h), NEW l, IsLedger(l), NEW x, x # "idle",
           host' = g, ledger' = l, frames' = fs, exit' = x
    PROVE  Good(host', exit', frames', v) /\ IsLedger(ledger')
  BY StayedActive

(* The callback of the contract whose host is h. *)
LEMMA CalledBack ==
    ASSUME NEW h, NEW fs, NEW v, Active(h, fs, v), fs[1].input.value = v,
           NEW l, IsLedger(l), NEW initiator \in Accounts, NEW gasLimit \in Nat,
           NEW returnsToken, returnsToken => initiator \in Contracts,
           executeSyncCallbackCall(fs, h, l, initiator, gasLimit, returnsToken)
    PROVE  Good(host', exit', frames', v) /\ IsLedger(ledger')
<1>1. IsHost(h) /\ h.runtime.scAddress \in Contracts /\ h.runtime \in RuntimeType
  BY DEF Active, Level, IsHost
<1>2. PICK caller, locked : caller = h.runtime.scAddress /\ locked = h.runtime.gasLocked
  OBVIOUS
<1>3. caller \in Accounts /\ caller \in Contracts /\ locked \in Nat /\ AsyncCallStep \in Nat
  BY <1>1, <1>2, StepsAreNat DEF Accounts, RuntimeType
<1>4. CASE gasLimit <= AsyncCallStep
  <2>1. PICK g, m : g = UpdateGasStateOnFailure(h) /\ m = Burn(l, caller, locked)
    OBVIOUS
  <2>2. KeptHere(g, h) /\ IsLedger(m)
    BY <1>1, <1>3, <2>1, FailureUpdateFails, BurntLedger DEF Fails
  <2>3. host' = g /\ ledger' = m /\ frames' = fs /\ exit' = "Ok"
    BY <1>2, <1>4, <2>1 DEF executeSyncCallbackCall
  <2> QED
    BY <2>2, <2>3, StoppedGood
<1>5. CASE ~(gasLimit <= AsyncCallStep)
  <2>1. PICK input : input = Input(initiator, caller, 0, gasLimit - AsyncCallStep,
                                   "AsynchronousCallBack", FALSE)
    OBVIOUS
  <2>2. IsInput(input)
    <3>1. /\ gasLimit - AsyncCallStep \in Nat /\ 0 \in Nat
          /\ "AsynchronousCallBack" \in KnownCallTypes
      BY <1>3, <1>5 DEF KnownCallTypes
    <3> QED
      BY <1>3, <2>1, <3>1, InputMade
  <2>3. input.recipient = caller /\ input.caller = initiator /\ input.gas \in Nat
    BY <2>1, <2>2 DEF Input, IsInput
  <2>4. PICK h1 : h1 = RestoreGas(h, locked)
    OBVIOUS
  <2>5. KeptHere(h1, h)
    BY <1>1, <1>3, <2>4, GasUseKeeps
  <2>6. IsHost(h1) /\ Active(h1, fs, v)
    BY <2>5, KeptActive DEF KeptHere, Kept
  <2>7. PICK s, b : s = BlockchainPushState(h1) /\ b = handleBuiltinFunctionCall(s, input, TRUE)
    OBVIOUS
  <2>8. BuiltInDone(b, s, input, TRUE)
    BY <2>2, <2>6, <2>7, SnapshotTaken, BuiltInCalled
  <2>9. IF ~returnsToken
        THEN EnterFrom(fs, h1, l, "callback", input,
                       TransferAndExecute(PushDestContexts(h1, input), input))
        ELSE IF b.err # "Ok"
        THEN /\ host' = FailedBuiltin(b) /\ ledger' = Burn(l, caller, input.gas)
             /\ exit' = "Ok" /\ frames' = fs
        ELSE EnterAfterBuiltin(fs, h1, b, Burn(l, caller, EsdtCost), "callback")
    BY <1>2, <1>5, <2>1, <2>4, <2>7
       DEF executeSyncCallbackCall, createCallbackContractCallInput
  <2>10. CASE ~returnsToken
    <3>1. PICK p : p = PushDestContexts(h1, input)
      OBVIOUS
    <3>2. PushedFrom(p, h1, "callback", input)
      BY <2>2, <2>6, <3>1, DestPushed
    <3>3. EnterFrom(fs, h1, l, "callback", input, TransferAndExecute(p, input))
      BY <2>9, <2>10, <3>1
    <3> QED
      BY <2>2, <2>6, <3>2, <3>3, Entered
  <2>11. CASE returnsToken /\ b.err # "Ok"
    <3>1. PICK g, m : g = FailedBuiltin(b) /\ m = Burn(l, caller, input.gas)
      OBVIOUS
    <3>2. KeptHere(g, h1)
      BY <2>6, <2>7, <2>8, <3>1, ActiveSnapshots, SnapshotPopped DEF BuiltInDone, FailedBuiltin
    <3>3. IsLedger(m)
      BY <1>3, <2>3, <3>1, BurntLedger
    <3>4. host' = g /\ ledger' = m /\ frames' = fs /\ exit' = "Ok"
      BY <2>9, <2>11, <3>1
    <3> QED
      BY <2>6, <3>2, <3>3, <3>4, StoppedGood
  <2>12. CASE returnsToken /\ b.err = "Ok"
    <3>1. PICK m : m = Burn(l, caller, EsdtCost)
      OBVIOUS
    <3>2. IsLedger(m)
      BY <1>3, <3>1, BurntLedger, StepsAreNat
    <3>3. b.after # << >> /\ input.caller \in Contracts
      BY <1>3, <2>3, <2>8, <2>12 DEF BuiltInDone
    <3>4. EnterAfterBuiltin(fs, h1, b, m, "callback")
      BY <2>9, <2>12, <3>1
    <3> QED
      BY <2>6, <2>7, <2>8, <3>2, <3>3, <3>4, EnteredAfterBuiltIn
  <2> QED
    BY <2>10, <2>11, <2>12
<1> QED
  BY <1>4, <1>5

LEMMA AskedAsync ==
    ASSUME NEW c, IsHost(c), self \in Contracts
    PROVE  /\ KeptHere(ExecuteAsyncCall(c).host, c)
           /\ ExecuteAsyncCall(c).err \in {"Ok", "ErrNotEnoughGas"}
<1>1. PICK lock, step, asked : /\ lock = ComputeGasLockedForAsync
                               /\ step = UseGasBounded(c, AsyncCallStep)
                               /\ asked = ExecuteAsyncCall(c)
  OBVIOUS
<1>2. lock \in Nat
  BY <1>1, StepsAreNat, ContextsAssumption DEF ComputeGasLockedForAsync
<1>3. KeptHere(c, c)
  BY SameCarries DEF KeptHere, Kept, SameStacks, IsHost, IdleHost
<1>4. KeptHere(step.host, c) /\ step.err \in {"Ok", "ErrNotEnoughGas"}
  BY <1>1, <1>3, GasUseKeeps, StepsAreNat DEF UseGasBounded
<1>5. PICK s : s = step.host
  OBVIOUS
<1>6. IsHost(s) /\ KeptHere(s, c)
  BY <1>4, <1>5 DEF KeptHere, Kept
<1>7. PICK locked : locked = UseGasBounded(s, lock)
  OBVIOUS
<1>8. /\ KeptHere(locked.host, c) /\ locked.err \in {"Ok", "ErrNotEnoughGas"}
      /\ DOMAIN locked = {"host", "err"}
  <2>1. KeptHere(UseGas(s, lock), c)
    BY <1>2, <1>6, GasUseKeeps, KeptTransitive
  <2> QED
    BY <1>6, <1>7, <2>1 DEF UseGasBounded
<1>9. CASE step.err # "Ok" \/ self \notin WithCallback
  BY <1>1, <1>4, <1>9 DEF ExecuteAsyncCall
<1>10. CASE ~(step.err # "Ok" \/ self \notin WithCallback) /\ locked.err # "Ok"
  BY <1>1, <1>5, <1>7, <1>8, <1>10 DEF ExecuteAsyncCall
<1>11. CASE ~(step.err # "Ok" \/ self \notin WithCallback) /\ locked.err = "Ok"
  <2>1. PICK u : u = locked.host
    OBVIOUS
  <2>2. IsHost(u) /\ KeptHere(u, c)
    BY <1>8, <2>1 DEF KeptHere, Kept
  <2>3. DOMAIN u = HostFields /\ u.runtime \in RuntimeType
    BY <2>2 DEF IsHost, IdleHost
  <2>4. PICK g : g = [u EXCEPT !.runtime.gasLocked = lock]
    OBVIOUS
  <2>5. asked = [locked EXCEPT !.host = g]
    BY <1>1, <1>5, <1>7, <1>8, <1>11, <2>1, <2>4 DEF ExecuteAsyncCall
  <2>6. asked.host = g /\ asked.err = "Ok"
    BY <1>8, <1>11, <2>5
  <2>7. /\ SameBut(g, u, {"runtime"})
        /\ g.runtime = [u.runtime EXCEPT !.gasLocked = lock]
    BY <2>3, <2>4 DEF SameBut, HostFields
  <2>8. g.runtime \in RuntimeType /\ g.runtime.scAddress = u.runtime.scAddress
    BY <1>2, <2>3, <2>7 DEF RuntimeType
  <2>9. /\ SameBut(g, u, Inner) /\ g.output = u.output /\ g.points = u.points
        /\ g.metering = u.metering /\ g.bigInt = u.bigInt /\ g.world = u.world
    BY <2>7 DEF SameBut, HostFields, Inner
  <2>10. /\ Carries(g.output, u.output) /\ g.points \in PointsType
         /\ IsMetering(g.metering) /\ g.bigInt \in 0 .. MaxBigInts /\ g.world \in Nat
    BY <2>2, <2>9, SameCarries DEF IsHost, IdleHost
  <2>11. KeptHere(g, u)
    BY <2>2, <2>8, <2>9, <2>10, InnerKeeps
  <2>12. KeptHere(g, c)
    BY <2>2, <2>11, KeptTransitive
  <2> QED
    BY <1>1, <2>6, <2>12
<1> QED
  BY <1>9, <1>10, <1>11

LEMMA SentToDestination ==
    ASSUME NEW h, NEW fs, NEW v, Active(h, fs, v), fs[1].input.value = v,
           NEW l, IsLedger(l), frames = fs, self \in Accounts, NEW dest \in Accounts,
           NEW value \in Nat, sendAsyncCallToDestination(h, l, dest, value)
    PROVE  Good(host', exit', frames', v) /\ IsLedger(ledger')
<1>1. PICK a, gas, locked : /\ a = self /\ gas = GasLeft(h)
                            /\ locked = h.runtime.gasLocked
  OBVIOUS
<1>2. IsHost(h) /\ h.runtime \in RuntimeType
  BY DEF Active, Level, IsHost
<1>3. a \in Accounts /\ gas \in Nat /\ locked \in Nat
  BY <1>1, <1>2, GasIsNat DEF RuntimeType
<1>4. CASE CanTransferValue(h, dest, a, value, gas > 0)
  <2>1. PICK t : t = Transfer(h, dest, a, gas, locked, value)
    OBVIOUS
  <2>2. KeptHere(t, h)
    BY <1>2, <1>3, <1>4, <2>1, TransferKeeps DEF CanTransferValue
  <2>3. IsHost(t)
    BY <2>2 DEF KeptHere, Kept
  <2>4. PICK g, m : g = UseGas(t, gas) /\ m = [l EXCEPT !.forwarded = @ + gas + locked]
    OBVIOUS
  <2>5. KeptHere(g, h) /\ IsLedger(m)
    BY <1>3, <2>2, <2>3, <2>4, GasUseKeeps, KeptTransitive DEF IsLedger
  <2>6. host' = g /\ ledger' = m /\ frames' = fs /\ exit' = "Ok"
    BY <1>1, <1>4, <2>1, <2>4 DEF sendAsyncCallToDestination
  <2> QED
    BY <2>5, <2>6, StoppedGood
<1>5. CASE ~CanTransferValue(h, dest, a, value, gas > 0)
  <2>1. PICK g : g = FailExecution(h)
    OBVIOUS
  <2>2. KeptHere(g, h)
    BY <1>2, <2>1, FailExecutionFails DEF Fails
  <2>3. host' = g /\ ledger' = l /\ frames' = fs /\ exit' = "ErrExecutionFailed"
    BY <1>1, <1>5, <2>1 DEF sendAsyncCallToDestination, Fault
  <2> QED
    BY <2>2, <2>3, StoppedGood
<1> QED
  BY <1>4, <1>5

\* The modes in which the call is executed, or answered, at once.
LEMMA BreakpointHandled ==
    ASSUME NEW h, NEW fs, NEW v, Active(h, fs, v), fs[1].input.value = v,
           NEW l, IsLedger(l), frames = fs, self \in Contracts,
           NEW dest \in Accounts, NEW value \in Nat, NEW andCall, NEW mode,
           mode \in {"AsyncUnknown", "SyncCall", "ESDTTransferOnCallBack",
                     "AsyncBuiltinFuncCrossShard", "AsyncBuiltinFuncIntraShard"},
           mode = "SyncCall" => dest \in Contracts,
           handleAsyncCallBreakpoint(h, l, mode, dest, value, andCall)
    PROVE  Good(host', exit', frames', v) /\ IsLedger(ledger')
<1>1. PICK a, gas, locked : /\ a = self /\ gas = GasLeft(h)
                            /\ locked = h.runtime.gasLocked
  OBVIOUS
<1>2. IsHost(h) /\ h.runtime \in RuntimeType
  BY DEF Active, Level, IsHost
<1>3. /\ a \in Accounts /\ a \in Contracts /\ self \in Accounts /\ gas \in Nat
      /\ locked \in Nat /\ EsdtCost \in Nat /\ "AsynchronousCall" \in KnownCallTypes
  BY <1>1, <1>2, GasIsNat, StepsAreNat DEF RuntimeType, Accounts, KnownCallTypes
<1>4. PICK input : input = Input(a, dest, value, gas, "AsynchronousCall", FALSE)
  OBVIOUS
<1>5. input = createDestinationContractCallInput(h, dest, value)
  BY <1>1, <1>4 DEF createDestinationContractCallInput
<1>6. IsInput(input)
  BY <1>3, <1>4, InputMade
<1>7. input.caller = a /\ input.recipient = dest /\ input.gas = gas
  BY <1>4 DEF Input
<1>8. PICK s, b : /\ s = BlockchainPushState(h)
                  /\ b = handleBuiltinFunctionCall(s, input, andCall)
  OBVIOUS
<1>9. BuiltInDone(b, s, input, andCall)
  BY <1>2, <1>6, <1>8, SnapshotTaken, BuiltInCalled
<1>10. PICK paid : paid = Burn(l, a, IF b.err = "Ok" THEN EsdtCost ELSE input.gas)
  OBVIOUS
<1>11. IsLedger(paid)
  <2>1. (IF b.err = "Ok" THEN EsdtCost ELSE input.gas) \in Nat
    BY <1>3, <1>7
  <2> QED
    BY <1>3, <1>10, <2>1, BurntLedger
<1>12. PICK d, e : d = BlockchainPopDiscard(b.host) /\ e = FailedBuiltin(b)
  OBVIOUS
<1>13. KeptHere(d, h) /\ KeptHere(e, h)
  BY <1>8, <1>9, <1>12, ActiveSnapshots, SnapshotPopped DEF BuiltInDone, FailedBuiltin
<1>14. Active(d, fs, v) /\ Active(e, fs, v)
  BY <1>13, KeptActive
<1>15. CASE mode = "AsyncUnknown"
  <2>1. sendAsyncCallToDestination(h, l, dest, value)
    BY <1>15 DEF handleAsyncCallBreakpoint
  <2> QED
    BY <1>3, <2>1, SentToDestination
<1>16. CASE mode = "SyncCall"
  <2>1. PICK p : p = PushDestContexts(h, input)
    OBVIOUS
  <2>2. PushedFrom(p, h, "asyncDest", input)
    BY <1>2, <1>6, <2>1, DestPushed
  <2>3. EnterFrom(fs, h, l, "asyncDest", input, TransferAndExecute(p, input))
    BY <1>5, <1>16, <2>1
       DEF handleAsyncCallBreakpoint, executeSyncDestinationCall, EnterDest, Enter
  <2> QED
    BY <1>6, <1>7, <1>16, <2>2, <2>3, Entered
<1>17. CASE mode = "ESDTTransferOnCallBack"
  <2>1. PICK u : u = RestoreGas(h, locked)
    OBVIOUS
  <2>2. KeptHere(u, h)
    BY <1>2, <1>3, <2>1, GasUseKeeps
  <2>3. IsHost(u) /\ IsOutput(u.output) /\ DOMAIN u = HostFields
    BY <2>2 DEF KeptHere, Kept, IsHost, IdleHost
  <2>4. PICK o : o = [u.output EXCEPT !.returnsToken = TRUE]
    OBVIOUS
  <2>5. DOMAIN o = OutputFields /\ o.accounts = u.output.accounts /\ o.gasRemaining \in Nat
    BY <2>3, <2>4 DEF IsOutput, OutputFields
  <2>6. Carries(o, u.output)
    BY <2>3, <2>5, SameAccountsCarry
  <2>7. PICK g : g = WithOutput(u, o)
    OBVIOUS
  <2>8. KeptHere(g, h)
    BY <2>2, <2>3, <2>6, <2>7, OutputReplaced, KeptTransitive
  <2>9. host' = g /\ ledger' = l /\ frames' = fs /\ exit' = "Ok"
    <3>1. EndCall([u EXCEPT !.output.returnsToken = TRUE], l, "Ok")
      BY <1>1, <1>17, <2>1 DEF handleAsyncCallBreakpoint
    <3>2. [u EXCEPT !.output.returnsToken = TRUE] = g
      BY <2>3, <2>4, <2>7 DEF WithOutput, HostFields
    <3> QED
      BY <3>1, <3>2 DEF EndCall
  <2> QED
    BY <2>8, <2>9, StoppedGood
<1>18. CASE mode = "AsyncBuiltinFuncCrossShard"
  <2>1. IF b.err = "Ok"
        THEN EndCall(d, [paid EXCEPT !.forwarded = @ + input.gas - EsdtCost + locked], "Ok")
        ELSE EndCall(e, paid, b.err)
    BY <1>1, <1>5, <1>8, <1>10, <1>12, <1>18 DEF handleAsyncCallBreakpoint
  <2>2. CASE b.err = "Ok"
    <3>1. PICK m : m = [paid EXCEPT !.forwarded = @ + input.gas - EsdtCost + locked]
      OBVIOUS
    <3>2. IsLedger(m)
      BY <1>11, <3>1 DEF IsLedger
    <3>3. host' = d /\ ledger' = m /\ frames' = fs /\ exit' = "Ok"
      BY <2>1, <2>2, <3>1 DEF EndCall
    <3> QED
      BY <1>13, <3>2, <3>3, StoppedGood
  <2>3. CASE b.err # "Ok"
    <3>1. PICK x : x = b.err
      OBVIOUS
    <3>2. host' = e /\ ledger' = paid /\ frames' = fs /\ exit' = x /\ x # "idle"
      BY <1>9, <2>1, <2>3, <3>1 DEF EndCall, BuiltInDone
    <3> QED
      BY <1>11, <1>13, <3>2, StoppedGood
  <2> QED
    BY <2>2, <2>3
<1>19. CASE mode = "AsyncBuiltinFuncIntraShard"
  <2>1. IF b.after # << >> THEN EnterAfterBuiltin(fs, h, b, paid, "asyncDest")
        ELSE IF b.err = "Ok"
        THEN executeSyncCallbackCall(fs, d, paid, dest, b.output.gasRemaining + locked, FALSE)
        ELSE executeSyncCallbackCall(fs, e, paid, dest, locked, FALSE)
    BY <1>1, <1>5, <1>8, <1>10, <1>12, <1>19 DEF handleAsyncCallBreakpoint
  <2>2. CASE b.after # << >>
    <3>1. EnterAfterBuiltin(fs, h, b, paid, "asyncDest") /\ input.caller \in Contracts
      BY <1>3, <1>7, <2>1, <2>2
    <3> QED
      BY <1>8, <1>9, <1>11, <2>2, <3>1, EnteredAfterBuiltIn
  <2>3. CASE b.after = << >> /\ b.err = "Ok"
    <3>1. PICK limit : limit = b.output.gasRemaining + locked
      OBVIOUS
    <3>2. limit \in Nat
      BY <1>3, <1>9, <2>3, <3>1 DEF BuiltInDone
    <3>3. executeSyncCallbackCall(fs, d, paid, dest, limit, FALSE)
      BY <2>1, <2>3, <3>1
    <3> QED
      BY <1>11, <1>14, <3>2, <3>3, CalledBack
  <2>4. CASE b.after = << >> /\ b.err # "Ok"
    <3>1. executeSyncCallbackCall(fs, e, paid, dest, locked, FALSE)
      BY <2>1, <2>4
    <3> QED
      BY <1>3, <1>11, <1>14, <3>1, CalledBack
  <2> QED
    BY <2>2, <2>3, <2>4
<1> QED
  BY <1>15, <1>16, <1>17, <1>18, <1>19

LEMMA AsyncCallKeeps ==
    ASSUME VMInv, NEW dest \in Accounts, NEW value \in Nat, NEW builtIn, NEW andCall,
           AsyncCall(dest, value, builtIn, andCall)
    PROVE  VMInv'
<1>1. PICK c, fs, v, k : Charged(c, fs, v, k, AsyncCallStep)
  BY ChargedOnce, StepsAreNat DEF AsyncCall, Running
<1>2. PICK c2, fs2, v2, l : Charged(c2, fs2, v2, l, 2 * AsyncCallStep)
  BY ChargedOnce, StepsAreNat DEF AsyncCall, Running
<1>3. PICK asked, mode : /\ asked = ExecuteAsyncCall(c)
                         /\ mode = determineAsyncCallExecutionMode(dest, builtIn, andCall)
  OBVIOUS
<1>4. KeptHere(asked.host, c) /\ asked.err \in {"Ok", "ErrNotEnoughGas"}
  BY <1>1, <1>3, AskedAsync DEF Charged
<1>5. PICK h, m : h = asked.host /\ m = ledger
  OBVIOUS
<1>6. Active(h, fs, v) /\ fs[1].input.value = v /\ KeptHere(h, c) /\ Active(c, fs, v)
  BY <1>1, <1>4, <1>5, KeptActive DEF Charged
<1>7. /\ txs' = txs /\ frames = fs /\ self \in Contracts /\ IsLedger(l) /\ IsLedger(m)
      /\ txs \in 0 .. MaxTransactions
  BY <1>1, <1>2, <1>5 DEF AsyncCall, Charged, VMInv
<1>8. IF asked.err # "Ok" THEN EndCall(h, m, asked.err)
      ELSE handleAsyncCallBreakpoint(h, l, mode, dest, value, andCall)
  BY <1>1, <1>2, <1>3, <1>5 DEF AsyncCall, Charged
<1>9. Good(host', exit', frames', v) /\ IsLedger(ledger')
  <2>1. CASE asked.err # "Ok"
    <3>1. PICK x : x = asked.err
      OBVIOUS
    <3>2. host' = h /\ ledger' = m /\ frames' = fs /\ exit' = x /\ x # "idle"
      BY <1>4, <1>7, <1>8, <2>1, <3>1 DEF EndCall
    <3> QED
      BY <1>6, <1>7, <3>2, StoppedGood
  <2>2. CASE asked.err = "Ok"
    <3>1. handleAsyncCallBreakpoint(h, l, mode, dest, value, andCall)
      BY <1>8, <2>2
    <3>2. /\ mode \in {"AsyncUnknown", "SyncCall", "ESDTTransferOnCallBack",
                       "AsyncBuiltinFuncCrossShard", "AsyncBuiltinFuncIntraShard"}
          /\ mode = "SyncCall" => dest \in Contracts
      BY <1>3 DEF determineAsyncCallExecutionMode
    <3> QED
      BY <1>6, <1>7, <3>1, <3>2, BreakpointHandled
  <2> QED
    BY <2>1, <2>2
<1> QED
  BY <1>7, <1>9, GoodKeeps

-----------------------------------------------------------------------------
(* Ending a nested execution.                                               *)

LEMMA GasRestored ==
    ASSUME NEW h, IdleHost(h), NEW gas \in Nat
    PROVE  OnlyPoints(RestoreGas(h, gas), h)
<1>1. /\ h.points \in PointsType /\ h.instance \in 0 .. MaxInstances
      /\ DOMAIN h = HostFields
  BY DEF IdleHost
<1>2. PICK used : used = GetPointsUsed(h)
  OBVIOUS
<1>3. used \in Nat
  BY <1>1, <1>2, ContextsAssumption DEF GetPointsUsed, PointsType
<1>4. CASE gas <= used
  <2>1. PICK p, g : p = SubUint64(used, gas) /\ g = RestoreGas(h, gas)
    OBVIOUS
  <2>2. p \in Nat
    BY <1>3, <2>1, SubtractionIsNat
  <2>3. g = [h EXCEPT !.points[h.instance] = p]
    BY <1>2, <1>4, <2>1 DEF RestoreGas, SetPointsUsed
  <2>4. SameBut(g, h, {"points"}) /\ g.points = [h.points EXCEPT ![h.instance] = p]
    BY <1>1, <2>3 DEF SameBut, HostFields
  <2>5. [h.points EXCEPT ![h.instance] = p] \in PointsType
    BY <1>1, <2>2 DEF PointsType
  <2> QED
    BY <2>1, <2>4, <2>5 DEF OnlyPoints
<1>5. CASE ~(gas <= used)
  BY <1>1, <1>2, <1>5 DEF RestoreGas, OnlyPoints, SameBut
<1> QED
  BY <1>4, <1>5

\* An output with the effects of o.
LEMMA SameEffects ==
    ASSUME NEW o, IsOutput(o), NEW p, IsOutput(p), Effects(p) = Effects(o)
    PROVE  /\ Carries(p, o) /\ DOMAIN p.accounts = DOMAIN o.accounts
<1>1. PICK e, f : e = Effects(p) /\ f = Effects(o)
  OBVIOUS
<1>2. /\ DOMAIN e = DOMAIN p.accounts /\ DOMAIN f = DOMAIN o.accounts
      /\ \A a \in DOMAIN p.accounts : e[a].balanceDelta = p.accounts[a].balanceDelta
      /\ \A a \in DOMAIN o.accounts : f[a].balanceDelta = o.accounts[a].balanceDelta
  BY <1>1 DEF Effects
<1>3. SameDeltas(p, o)
  BY <1>1, <1>2 DEF SameDeltas, DeltaOf, GetOutputAccount
<1> QED
  BY <1>1, <1>2, <1>3, SameDeltasCarry

(* The output of an execution that succeeded, merged into its caller's. *)
LEMMA MergedBack ==
    ASSUME NEW left, IsOutput(left), NEW right, IsOutput(right),
           DOMAIN left.accounts \subseteq DOMAIN right.accounts
    PROVE  Carries(mergeVMOutputs(newVMOutput, mergeVMOutputs(left, right)), right)
<1>1. PICK p, q : p = mergeVMOutputs(left, right) /\ q = mergeVMOutputs(newVMOutput, p)
  OBVIOUS
<1>2. MergeOf(p, left, right)
  BY <1>1, MergedOutputs
<1>3. IsOutput(p) /\ SameDeltas(p, right)
  BY <1>2 DEF MergeOf, SameDeltas, DeltaOf, GetOutputAccount
<1>4. Carries(p, right)
  BY <1>3, SameDeltasCarry
<1>5. IsOutput(q) /\ Effects(q) = Effects(p)
  BY <1>1, <1>3, MergedIntoNew
<1>6. Carries(q, p)
  BY <1>3, <1>5, SameEffects
<1>7. Carries(q, right)
  BY <1>4, <1>6, CarriesTransitive
<1> QED
  BY <1>1, <1>7

LEMMA MergedMetering ==
    ASSUME NEW h, IsMetering(h.metering), NEW prev, IsMetering(prev)
    PROVE  IsMetering([prev EXCEPT !.gasUsedByAccounts =
                          addToGasUsedByAccounts(h.metering, prev.gasUsedByAccounts)])
<1>1. PICK m, u, s : /\ m = h.metering /\ u = prev.gasUsedByAccounts
                     /\ s = addToGasUsedByAccounts(m, u)
  OBVIOUS
<1>2. IsGasUsed(u) /\ IsGasUsed(m.gasUsedByAccounts)
  BY <1>1 DEF IsMetering
<1>3. /\ DOMAIN s = DOMAIN m.gasUsedByAccounts \cup DOMAIN u
      /\ \A a \in DOMAIN s : s[a] = GasUsedBy(m, a) + (IF a \in DOMAIN u THEN u[a] ELSE 0)
  BY <1>1 DEF addToGasUsedByAccounts
<1>4. ASSUME NEW a \in DOMAIN s PROVE s[a] \in Nat
  <2>1. GasUsedBy(m, a) \in Nat /\ (IF a \in DOMAIN u THEN u[a] ELSE 0) \in Nat
    BY <1>2 DEF GasUsedBy, IsGasUsed
  <2> QED
    BY <1>3, <2>1
<1>5. IsGasUsed(s)
  BY <1>2, <1>3, <1>4 DEF IsGasUsed
<1>6. IsMetering([prev EXCEPT !.gasUsedByAccounts = s])
  BY <1>5 DEF IsMetering, MeteringFields
<1> QED
  BY <1>1, <1>6

\* The contexts of t are those of h, popped for an execution on another context.
PoppedContexts(t, h) ==
    /\ DOMAIN t = HostFields /\ t.points = h.points
    /\ t.world = h.world /\ t.snapshots = h.snapshots
    /\ t.outputStack = Pop(h.outputStack) /\ t.meteringStack = Pop(h.meteringStack)
    /\ t.runtimeStack = Pop(h.runtimeStack) /\ t.runtime = Top(h.runtimeStack)
    /\ t.instanceStack = Pop(h.instanceStack) /\ t.instance = Top(h.instanceStack)
    /\ t.bigIntStack = Pop(h.bigIntStack) /\ t.bigInt = Top(h.bigIntStack)
    /\ t.storageStack = Pop(h.storageStack) /\ t.storageAddress = Top(h.storageStack)

\* g is the host of the caller, whose contexts t has.
EndOf(g, t, b, fs, v) ==
    /\ Active(g, fs, v)
    /\ g.storageAddress = b.storageAddress /\ g.runtime = b.runtime
    /\ g.bigInt = b.bigInt /\ g.output = t.output /\ g.metering = t.metering

LEMMA DestEnded ==
    ASSUME NEW h, NEW gs, NEW v, Level(h, gs, v), Len(gs) > 1, gs[Len(gs)].kind # "same",
           NEW b, b = gs[Len(gs)].before, NEW t, PoppedContexts(t, h),
           IsOutput(t.output), Conserves(t.output, v), IsMetering(t.metering),
           DOMAIN b.output.accounts \subseteq DOMAIN t.output.accounts,
           NEW gas \in Nat, NEW u, u = RestoreGas(t, gas),
           NEW world, world \in {h.world, b.world},
           NEW g, SameBut(g, u, {"world", "snapshots"}), g.world = world,
           g.snapshots = Pop(u.snapshots)
    PROVE  EndOf(g, t, b, Pop(gs), v)
<1>1. /\ Top(h.instanceStack) = Len(gs) - 1 /\ Len(gs) - 1 \in Nat
      /\ Len(gs) - 1 <= MaxInstances /\ Top(h.bigIntStack) = b.bigInt
      /\ IsFrame(gs[Len(gs)], Len(gs), v)
  BY SavedOnTop
<1>2. b.bigInt \in 0 .. MaxBigInts /\ b.world \in Nat
  BY <1>1 DEF IsFrame
<1>3. h.world \in Nat /\ h.points \in PointsType
  BY DEF Level, IsHost, IdleHost
<1>4. t.instance \in 0 .. MaxInstances
  BY <1>1, ContextsAssumption DEF PoppedContexts
<1>5. IdleHost(t)
  BY <1>1, <1>2, <1>3, <1>4 DEF IdleHost, PoppedContexts
<1>6. SameBut(u, t, {"points"}) /\ u.points \in PointsType
  BY <1>5, GasRestored DEF OnlyPoints
<1>7. /\ u.outputStack = t.outputStack /\ u.meteringStack = t.meteringStack
      /\ u.runtimeStack = t.runtimeStack /\ u.instanceStack = t.instanceStack
      /\ u.bigIntStack = t.bigIntStack /\ u.storageStack = t.storageStack
      /\ u.runtime = t.runtime /\ u.instance = t.instance /\ u.bigInt = t.bigInt
      /\ u.storageAddress = t.storageAddress /\ u.output = t.output
      /\ u.metering = t.metering /\ u.snapshots = t.snapshots
  BY <1>6 DEF SameBut, HostFields
<1>8. /\ g.outputStack = u.outputStack /\ g.meteringStack = u.meteringStack
      /\ g.runtimeStack = u.runtimeStack /\ g.instanceStack = u.instanceStack
      /\ g.bigIntStack = u.bigIntStack /\ g.storageStack = u.storageStack
      /\ g.runtime = u.runtime /\ g.instance = u.instance /\ g.bigInt = u.bigInt
      /\ g.storageAddress = u.storageAddress /\ g.output = u.output
      /\ g.metering = u.metering /\ g.points = u.points
  BY DEF SameBut, HostFields
<1>9. /\ DOMAIN g = HostFields /\ g.points \in PointsType
      /\ g.outputStack = t.outputStack /\ g.meteringStack = t.meteringStack
      /\ g.runtimeStack = t.runtimeStack /\ g.instanceStack = t.instanceStack
      /\ g.bigIntStack = t.bigIntStack /\ g.storageStack = t.storageStack
      /\ g.runtime = t.runtime /\ g.instance = t.instance /\ g.bigInt = t.bigInt
      /\ g.storageAddress = t.storageAddress /\ g.output = t.output
      /\ g.metering = t.metering /\ g.snapshots = Pop(t.snapshots)
  BY <1>6, <1>7, <1>8 DEF SameBut
<1>10. PICK kind : kind = gs[Len(gs)].kind
  OBVIOUS
<1>11. PoppedFrom(g, h, kind)
  BY <1>9, <1>10 DEF PoppedFrom, PoppedContexts
<1>12. g.bigInt = b.bigInt /\ g.world \in Nat
  BY <1>1, <1>2, <1>3, <1>8, <1>9 DEF PoppedContexts
<1>13. /\ Active(g, Pop(gs), v)
       /\ g.storageAddress = b.storageAddress /\ g.runtime = b.runtime
  <2>1. /\ IsOutput(g.output) /\ Conserves(g.output, v) /\ IsMetering(g.metering)
        /\ DOMAIN b.output.accounts \subseteq DOMAIN g.output.accounts
        /\ g.bigInt \in 0 .. MaxBigInts
    BY <1>2, <1>9, <1>12
  <2> QED
    BY <1>10, <1>11, <1>12, <2>1, PoppedLevel
<1> QED
  BY <1>9, <1>12, <1>13 DEF EndOf

\* g is the caller's host, as the frame remembers it.
Restored(g, b) ==
    /\ Effects(g.output) = Effects(b.output)
    /\ g.bigInt = b.bigInt /\ g.world = b.world
    /\ g.storageAddress = b.storageAddress /\ g.runtime = b.runtime
    /\ g.metering.gasUsedByAccounts = b.gasUsedByAccounts

(* The bigInt and storage contexts. *)
LEMMA DestPopped ==
    ASSUME NEW h, DOMAIN h = HostFields
    PROVE  /\ SameBut(PopDestContexts(h), h,
                      {"bigInt", "bigIntStack", "storageAddress", "storageStack"})
           /\ PopDestContexts(h).bigInt = Top(h.bigIntStack)
           /\ PopDestContexts(h).bigIntStack = Pop(h.bigIntStack)
           /\ PopDestContexts(h).storageAddress = Top(h.storageStack)
           /\ PopDestContexts(h).storageStack = Pop(h.storageStack)
<1>1. PICK a : a = BigIntPopSetActiveState(h)
  OBVIOUS
<1>2. /\ SameBut(a, h, {"bigInt", "bigIntStack"})
      /\ a.bigInt = Top(h.bigIntStack) /\ a.bigIntStack = Pop(h.bigIntStack)
  BY <1>1 DEF BigIntPopSetActiveState, SameBut, HostFields
<1>3. PICK b : b = StoragePopSetActiveState(a)
  OBVIOUS
<1>4. /\ SameBut(b, a, {"storageAddress", "storageStack"})
      /\ b.storageAddress = Top(a.storageStack) /\ b.storageStack = Pop(a.storageStack)
  BY <1>2, <1>3 DEF StoragePopSetActiveState, SameBut, HostFields
<1>5. a.storageStack = h.storageStack /\ b.bigInt = a.bigInt /\ b.bigIntStack = a.bigIntStack
  BY <1>2, <1>4 DEF SameBut, HostFields
<1>6. SameBut(b, h, {"bigInt", "bigIntStack", "storageAddress", "storageStack"})
  BY <1>2, <1>4 DEF SameBut, HostFields
<1>7. PopDestContexts(h) = b
  BY <1>1, <1>3 DEF PopDestContexts
<1> QED
  BY <1>2, <1>4, <1>5, <1>6, <1>7

\* Then metering, output and runtime, given what the first two leave.
LEMMA ContextsPopped ==
    ASSUME NEW h, DOMAIN h = HostFields, NEW a, a = PopDestContexts(h),
           NEW m, SameBut(m, a, {"metering", "meteringStack"}),
           m.meteringStack = Pop(a.meteringStack),
           NEW o, SameBut(o, m, {"output", "outputStack"}),
           o.outputStack = Pop(m.outputStack),
           NEW t, t = RuntimePopSetActiveState(o)
    PROVE  /\ PoppedContexts(t, h)
           /\ t.output = o.output /\ t.metering = m.metering
           /\ a.output = h.output /\ m.output = h.output /\ a.metering = h.metering
           /\ a.meteringStack = h.meteringStack /\ m.outputStack = h.outputStack
<1>1. /\ SameBut(a, h, {"bigInt", "bigIntStack", "storageAddress", "storageStack"})
      /\ a.bigInt = Top(h.bigIntStack) /\ a.bigIntStack = Pop(h.bigIntStack)
      /\ a.storageAddress = Top(h.storageStack) /\ a.storageStack = Pop(h.storageStack)
  BY DestPopped
<1>2. DOMAIN o = HostFields
  BY DEF SameBut
<1>3. /\ SameBut(t, o, {"runtime", "runtimeStack", "instance", "instanceStack"})
      /\ t.runtime = Top(o.runtimeStack) /\ t.runtimeStack = Pop(o.runtimeStack)
      /\ t.instance = Top(o.instanceStack) /\ t.instanceStack = Pop(o.instanceStack)
  BY <1>2 DEF RuntimePopSetActiveState, SameBut, HostFields
<1>4. /\ a.output = h.output /\ a.outputStack = h.outputStack /\ a.metering = h.metering
      /\ a.meteringStack = h.meteringStack /\ a.runtimeStack = h.runtimeStack
      /\ a.instanceStack = h.instanceStack /\ a.points = h.points
      /\ a.world = h.world /\ a.snapshots = h.snapshots
  BY <1>1 DEF SameBut, HostFields
<1>5. /\ m.output = a.output /\ m.outputStack = a.outputStack
      /\ m.runtimeStack = a.runtimeStack /\ m.instanceStack = a.instanceStack
      /\ m.points = a.points /\ m.world = a.world /\ m.snapshots = a.snapshots
      /\ m.bigInt = a.bigInt /\ m.bigIntStack = a.bigIntStack
      /\ m.storageAddress = a.storageAddress /\ m.storageStack = a.storageStack
  BY DEF SameBut, HostFields
<1>6. /\ o.metering = m.metering /\ o.meteringStack = m.meteringStack
      /\ o.runtimeStack = m.runtimeStack /\ o.instanceStack = m.instanceStack
      /\ o.points = m.points /\ o.world = m.world /\ o.snapshots = m.snapshots
      /\ o.bigInt = m.bigInt /\ o.bigIntStack = m.bigIntStack
      /\ o.storageAddress = m.storageAddress /\ o.storageStack = m.storageStack
  BY DEF SameBut, HostFields
<1>7. /\ t.output = o.output /\ t.outputStack = o.outputStack
      /\ t.metering = o.metering /\ t.meteringStack = o.meteringStack
      /\ t.points = o.points /\ t.world = o.world /\ t.snapshots = o.snapshots
      /\ t.bigInt = o.bigInt /\ t.bigIntStack = o.bigIntStack
      /\ t.storageAddress = o.storageAddress /\ t.storageStack = o.storageStack
      /\ DOMAIN t = HostFields
  BY <1>3 DEF SameBut, HostFields
<1>8. PoppedContexts(t, h)
  BY <1>1, <1>3, <1>4, <1>5, <1>6, <1>7 DEF PoppedContexts
<1> QED
  BY <1>4, <1>5, <1>6, <1>7, <1>8

(* What the frame on top remembers, and the output that was saved for it. *)
LEMMA SavedOutput ==
    ASSUME NEW h, NEW gs, NEW v, Level(h, gs, v), Len(gs) > 1,
           NEW b, b = gs[Len(gs)].before, NEW o, o = Top(h.outputStack)
    PROVE  /\ IsOutput(o) /\ Conserves(o, v) /\ Effects(o) = Effects(b.output)
           /\ DOMAIN o.accounts = DOMAIN b.output.accounts
           /\ DOMAIN o.accounts \subseteq DOMAIN h.output.accounts
           /\ IsOutput(h.output) /\ Conserves(h.output, v) /\ IsMetering(h.metering)
           /\ DOMAIN h = HostFields
<1>1. /\ o = mergeVMOutputs(newVMOutput, b.output)
      /\ DOMAIN b.output.accounts \subseteq DOMAIN h.output.accounts
      /\ IsFrame(gs[Len(gs)], Len(gs), v)
  BY SavedOnTop
<1>2. PICK p : p = b.output
  OBVIOUS
<1>3. IsOutput(p) /\ Conserves(p, v)
  BY <1>1, <1>2 DEF IsFrame
<1>4. IsOutput(o) /\ Effects(o) = Effects(p)
  BY <1>1, <1>2, <1>3, MergedIntoNew
<1>5. Carries(o, p) /\ DOMAIN o.accounts = DOMAIN p.accounts
  BY <1>3, <1>4, SameEffects
<1>6. Conserves(o, v)
  BY <1>3, <1>5 DEF Carries
<1>7. IsOutput(h.output) /\ Conserves(h.output, v) /\ IsMetering(h.metering)
      /\ DOMAIN h = HostFields
  BY DEF Level, IsHost, IdleHost
<1> QED
  BY <1>1, <1>2, <1>4, <1>5, <1>6, <1>7

(* An execution on another context ends with the VMOutput o. *)
LEMMA DestFinished ==
    ASSUME NEW o, NEW h, h = o.host, o.gasRemaining \in Nat, NEW gs, NEW v,
           Level(h, gs, v), Len(gs) > 1, gs[Len(gs)].kind # "same",
           NEW b, b = gs[Len(gs)].before
    PROVE  /\ Active(finishExecuteOnDestContext(o), Pop(gs), v)
           /\ o.err # "Ok" => Restored(finishExecuteOnDestContext(o), b)
<1>1. PICK left, gas, g : /\ left = Top(h.outputStack) /\ gas = o.gasRemaining
                          /\ g = finishExecuteOnDestContext(o)
  OBVIOUS
<1>2. /\ IsOutput(left) /\ Conserves(left, v) /\ Effects(left) = Effects(b.output)
      /\ DOMAIN left.accounts = DOMAIN b.output.accounts
      /\ DOMAIN left.accounts \subseteq DOMAIN h.output.accounts
      /\ IsOutput(h.output) /\ Conserves(h.output, v) /\ IsMetering(h.metering)
      /\ DOMAIN h = HostFields
  BY <1>1, SavedOutput
<1>3. /\ IsMetering(Top(h.meteringStack)) /\ Top(h.snapshots) = b.world
      /\ Top(h.meteringStack).gasUsedByAccounts = b.gasUsedByAccounts
  BY SavedOnTop
<1>4. PICK a : a = PopDestContexts(h)
  OBVIOUS
<1>5. DOMAIN a = HostFields
  BY <1>2, <1>4, DestPopped DEF SameBut
<1>6. CASE o.err = "Ok"
  <2>1. PICK prev, m : prev = Top(a.meteringStack) /\ m = MeteringPopMergeActiveState(a)
    OBVIOUS
  <2>2. /\ SameBut(m, a, {"metering", "meteringStack"})
        /\ m.meteringStack = Pop(a.meteringStack)
        /\ m.metering = [prev EXCEPT !.gasUsedByAccounts =
                            addToGasUsedByAccounts(a.metering, prev.gasUsedByAccounts)]
    BY <1>5, <2>1 DEF MeteringPopMergeActiveState, SameBut, HostFields
  <2>3. PICK p : p = OutputPopMergeActiveState(m)
    OBVIOUS
  <2>4. /\ SameBut(p, m, {"output", "outputStack"}) /\ p.outputStack = Pop(m.outputStack)
        /\ p.output = mergeVMOutputs(newVMOutput,
                          mergeVMOutputs(Top(m.outputStack), m.output))
    <3>1. DOMAIN m = HostFields
      BY <2>2 DEF SameBut
    <3> QED
      BY <2>3, <3>1 DEF OutputPopMergeActiveState, SameBut, HostFields
  <2>5. PICK t : t = RuntimePopSetActiveState(p)
    OBVIOUS
  <2>6. /\ PoppedContexts(t, h) /\ t.output = p.output /\ t.metering = m.metering
        /\ m.output = h.output /\ a.metering = h.metering
        /\ a.meteringStack = h.meteringStack /\ m.outputStack = h.outputStack
    BY <1>2, <1>4, <2>2, <2>4, <2>5, ContextsPopped
  <2>7. Carries(t.output, h.output)
    BY <1>1, <1>2, <2>4, <2>6, MergedBack
  <2>8. /\ IsOutput(t.output) /\ Conserves(t.output, v)
        /\ DOMAIN b.output.accounts \subseteq DOMAIN t.output.accounts
    BY <1>2, <2>7 DEF Carries
  <2>9. IsMetering(t.metering)
    <3>1. IsMetering(prev) /\ IsMetering(a.metering)
      BY <1>2, <1>3, <2>1, <2>6
    <3> QED
      BY <2>2, <2>6, <3>1, MergedMetering
  <2>10. PICK u : u = RestoreGas(t, gas)
    OBVIOUS
  <2>11. g = BlockchainPopDiscard(u)
    BY <1>1, <1>4, <1>6, <2>1, <2>3, <2>5, <2>10 DEF finishExecuteOnDestContext
  <2>12. DOMAIN u = HostFields /\ u.world = h.world
    <3>1. DOMAIN t = HostFields /\ t.world = h.world
      BY <2>6 DEF PoppedContexts
    <3> QED
      BY <2>10, <3>1 DEF RestoreGas, SetPointsUsed, HostFields
  <2>13. /\ SameBut(g, u, {"world", "snapshots"}) /\ g.world = h.world
         /\ g.snapshots = Pop(u.snapshots)
    BY <2>11, <2>12 DEF BlockchainPopDiscard, SameBut, HostFields
  <2>14. gas \in Nat
    BY <1>1
  <2>15. Active(g, Pop(gs), v)
    <3>1. EndOf(g, t, b, Pop(gs), v)
      BY <2>6, <2>8, <2>9, <2>10, <2>13, <2>14, DestEnded
    <3> QED
      BY <3>1 DEF EndOf
  <2> QED
    BY <1>1, <1>6, <2>15
<1>7. CASE o.err # "Ok"
  <2>1. PICK m : m = MeteringPopSetActiveState(a)
    OBVIOUS
  <2>2. /\ SameBut(m, a, {"metering", "meteringStack"})
        /\ m.meteringStack = Pop(a.meteringStack)
        /\ m.metering = Top(a.meteringStack)
    BY <1>5, <2>1 DEF MeteringPopSetActiveState, SameBut, HostFields
  <2>3. PICK p : p = OutputPopSetActiveState(m)
    OBVIOUS
  <2>4. /\ SameBut(p, m, {"output", "outputStack"}) /\ p.outputStack = Pop(m.outputStack)
        /\ p.output = Top(m.outputStack)
    <3>1. DOMAIN m = HostFields
      BY <2>2 DEF SameBut
    <3> QED
      BY <2>3, <3>1 DEF OutputPopSetActiveState, SameBut, HostFields
  <2>5. PICK t : t = RuntimePopSetActiveState(p)
    OBVIOUS
  <2>6. /\ PoppedContexts(t, h) /\ t.output = p.output /\ t.metering = m.metering
        /\ a.meteringStack = h.meteringStack /\ m.outputStack = h.outputStack
    BY <1>2, <1>4, <2>2, <2>4, <2>5, ContextsPopped
  <2>7. t.output = left /\ t.metering = Top(h.meteringStack)
    BY <1>1, <2>2, <2>4, <2>6
  <2>8. /\ IsOutput(t.output) /\ Conserves(t.output, v) /\ IsMetering(t.metering)
        /\ DOMAIN b.output.accounts \subseteq DOMAIN t.output.accounts
    BY <1>2, <1>3, <2>7
  <2>9. PICK u : u = RestoreGas(t, gas)
    OBVIOUS
  <2>10. g = BlockchainPopSetActiveState(u)
    BY <1>1, <1>4, <1>7, <2>1, <2>3, <2>5, <2>9 DEF finishExecuteOnDestContext
  <2>11. DOMAIN u = HostFields /\ u.snapshots = h.snapshots
    <3>1. DOMAIN t = HostFields /\ t.snapshots = h.snapshots
      BY <2>6 DEF PoppedContexts
    <3> QED
      BY <2>9, <3>1 DEF RestoreGas, SetPointsUsed, HostFields
  <2>12. /\ SameBut(g, u, {"world", "snapshots"}) /\ g.world = b.world
         /\ g.snapshots = Pop(u.snapshots)
    BY <1>3, <2>10, <2>11 DEF BlockchainPopSetActiveState, SameBut, HostFields
  <2>13. gas \in Nat
    BY <1>1
  <2>14. /\ Active(g, Pop(gs), v)
         /\ g.storageAddress = b.storageAddress /\ g.runtime = b.runtime
         /\ g.bigInt = b.bigInt /\ g.output = t.output /\ g.metering = t.metering
    <3>1. EndOf(g, t, b, Pop(gs), v)
      BY <2>6, <2>8, <2>9, <2>12, <2>13, DestEnded
    <3> QED
      BY <3>1 DEF EndOf
  <2>15. Restored(g, b)
    BY <1>2, <1>3, <2>7, <2>12, <2>14 DEF Restored
  <2> QED
    BY <1>1, <2>14, <2>15
<1> QED
  BY <1>6, <1>7

(* An execution on the same context that returned an error, and one that    *)
(* did not.                                                                 *)
LEMMA SameFailed ==
    ASSUME NEW h, NEW gs, NEW v, Level(h, gs, v), Len(gs) > 1,
           gs[Len(gs)].kind = "same", NEW b, b = gs[Len(gs)].before
    PROVE  Active(FailedSameContext(h), Pop(gs), v) /\ Restored(FailedSameContext(h), b)
<1>1. PICK left : left = Top(h.outputStack)
  OBVIOUS
<1>2. /\ IsOutput(left) /\ Conserves(left, v) /\ Effects(left) = Effects(b.output)
      /\ DOMAIN left.accounts = DOMAIN b.output.accounts /\ DOMAIN h = HostFields
  BY <1>1, SavedOutput
<1>3. /\ IsMetering(Top(h.meteringStack)) /\ Top(h.snapshots) = b.world
      /\ Top(h.meteringStack).gasUsedByAccounts = b.gasUsedByAccounts
      /\ Top(h.bigIntStack) = b.bigInt /\ IsFrame(gs[Len(gs)], Len(gs), v)
  BY SavedOnTop
<1>4. b.bigInt \in 0 .. MaxBigInts /\ b.world \in Nat /\ h.points \in PointsType
  BY <1>3 DEF IsFrame, Level, IsHost, IdleHost
<1>5. PICK m : m = MeteringPopSetActiveState(BigIntPopSetActiveState(h))
  OBVIOUS
<1>6. /\ SameBut(m, h, {"bigInt", "bigIntStack", "metering", "meteringStack"})
      /\ m.bigInt = Top(h.bigIntStack) /\ m.bigIntStack = Pop(h.bigIntStack)
      /\ m.metering = Top(h.meteringStack) /\ m.meteringStack = Pop(h.meteringStack)
  BY <1>2, <1>5 DEF MeteringPopSetActiveState, BigIntPopSetActiveState, SameBut, HostFields
<1>7. PICK g : g = BlockchainPopSetActiveState(RuntimePopSetActiveState(
                       OutputPopSetActiveState(m)))
  OBVIOUS
<1>8. /\ SameBut(g, m, {"world", "snapshots", "runtime", "runtimeStack", "instance",
                        "instanceStack", "output", "outputStack"})
      /\ g.world = Top(m.snapshots) /\ g.snapshots = Pop(m.snapshots)
      /\ g.runtime = Top(m.runtimeStack) /\ g.runtimeStack = Pop(m.runtimeStack)
      /\ g.instance = Top(m.instanceStack) /\ g.instanceStack = Pop(m.instanceStack)
      /\ g.output = Top(m.outputStack) /\ g.outputStack = Pop(m.outputStack)
  BY <1>6, <1>7 DEF BlockchainPopSetActiveState, RuntimePopSetActiveState,
                    OutputPopSetActiveState, SameBut, HostFields
<1>9. /\ m.snapshots = h.snapshots /\ m.runtimeStack = h.runtimeStack
      /\ m.instanceStack = h.instanceStack /\ m.outputStack = h.outputStack
      /\ m.points = h.points /\ m.storageStack = h.storageStack
      /\ m.storageAddress = h.storageAddress
  BY <1>6 DEF SameBut, HostFields
<1>10. /\ g.points = m.points /\ g.storageStack = m.storageStack
       /\ g.storageAddress = m.storageAddress /\ g.bigInt = m.bigInt
       /\ g.bigIntStack = m.bigIntStack /\ g.metering = m.metering
       /\ g.meteringStack = m.meteringStack /\ DOMAIN g = HostFields
  BY <1>8 DEF SameBut, HostFields
<1>11. PICK kind : kind = gs[Len(gs)].kind
  OBVIOUS
<1>12. PoppedFrom(g, h, kind)
  BY <1>4, <1>6, <1>8, <1>9, <1>10, <1>11 DEF PoppedFrom
<1>13. /\ g.output = left /\ g.bigInt = b.bigInt /\ g.world = b.world
       /\ g.metering = Top(h.meteringStack)
  BY <1>1, <1>3, <1>6, <1>8, <1>9, <1>10
<1>14. /\ IsOutput(g.output) /\ Conserves(g.output, v) /\ IsMetering(g.metering)
       /\ DOMAIN b.output.accounts \subseteq DOMAIN g.output.accounts
       /\ g.bigInt \in 0 .. MaxBigInts /\ g.world \in Nat
  BY <1>2, <1>3, <1>4, <1>13
<1>15. /\ Active(g, Pop(gs), v)
       /\ g.storageAddress = b.storageAddress /\ g.runtime = b.runtime
  BY <1>11, <1>12, <1>14, PoppedLevel
<1>16. Restored(g, b)
  BY <1>2, <1>3, <1>13, <1>15 DEF Restored
<1>17. FailedSameContext(h) = g
  BY <1>5, <1>7 DEF FailedSameContext
<1> QED
  BY <1>15, <1>16, <1>17

LEMMA SameFinished ==
    ASSUME NEW o, NEW h, h = o.host, o.gasRemaining \in Nat, NEW gs, NEW v,
           Level(h, gs, v), Len(gs) > 1, gs[Len(gs)].kind = "same",
           NEW b, b = gs[Len(gs)].before
    PROVE  Active(finishExecuteOnSameContext(o), Pop(gs), v)
<1>1. PICK left : left = Top(h.outputStack)
  OBVIOUS
<1>2. /\ DOMAIN b.output.accounts \subseteq DOMAIN h.output.accounts
      /\ IsOutput(h.output) /\ Conserves(h.output, v) /\ IsMetering(h.metering)
      /\ DOMAIN h = HostFields
  BY <1>1, SavedOutput
<1>3. IsMetering(Top(h.meteringStack))
  BY SavedOnTop
<1>4. h.points \in PointsType /\ h.bigInt \in 0 .. MaxBigInts /\ h.world \in Nat
  BY DEF Level, IsHost, IdleHost
<1>5. PICK prev, m : prev = Top(h.meteringStack) /\ m = MeteringPopMergeActiveState(h)
  OBVIOUS
<1>6. /\ SameBut(m, h, {"metering", "meteringStack"})
      /\ m.meteringStack = Pop(h.meteringStack)
      /\ m.metering = [prev EXCEPT !.gasUsedByAccounts =
                          addToGasUsedByAccounts(h.metering, prev.gasUsedByAccounts)]
  BY <1>2, <1>5 DEF MeteringPopMergeActiveState, SameBut, HostFields
<1>7. IsMetering(m.metering)
  BY <1>2, <1>3, <1>5, <1>6, MergedMetering
<1>8. PICK g : g = RuntimePopSetActiveState(BlockchainPopDiscard(BigIntPopDiscard(
                       OutputPopDiscard(m))))
  OBVIOUS
<1>9. /\ SameBut(g, m, {"snapshots", "runtime", "runtimeStack", "instance",
                        "instanceStack", "bigIntStack", "outputStack"})
      /\ g.snapshots = Pop(m.snapshots) /\ g.bigIntStack = Pop(m.bigIntStack)
      /\ g.runtime = Top(m.runtimeStack) /\ g.runtimeStack = Pop(m.runtimeStack)
      /\ g.instance = Top(m.instanceStack) /\ g.instanceStack = Pop(m.instanceStack)
      /\ g.outputStack = Pop(m.outputStack)
  BY <1>6, <1>8 DEF BlockchainPopDiscard, RuntimePopSetActiveState, BigIntPopDiscard,
                    OutputPopDiscard, SameBut, HostFields
<1>10. /\ m.snapshots = h.snapshots /\ m.runtimeStack = h.runtimeStack
       /\ m.instanceStack = h.instanceStack /\ m.outputStack = h.outputStack
       /\ m.points = h.points /\ m.storageStack = h.storageStack
       /\ m.storageAddress = h.storageAddress /\ m.output = h.output
       /\ m.bigInt = h.bigInt /\ m.bigIntStack = h.bigIntStack /\ m.world = h.world
  BY <1>6 DEF SameBut, HostFields
<1>11. /\ g.points = m.points /\ g.storageStack = m.storageStack
       /\ g.storageAddress = m.storageAddress /\ g.bigInt = m.bigInt
       /\ g.metering = m.metering /\ g.world = m.world /\ g.output = m.output
       /\ g.meteringStack = m.meteringStack /\ DOMAIN g = HostFields
  BY <1>9 DEF SameBut, HostFields
<1>12. PICK kind : kind = gs[Len(gs)].kind
  OBVIOUS
<1>13. PoppedFrom(g, h, kind)
  BY <1>4, <1>6, <1>9, <1>10, <1>11, <1>12 DEF PoppedFrom
<1>14. /\ IsOutput(g.output) /\ Conserves(g.output, v) /\ IsMetering(g.metering)
       /\ DOMAIN b.output.accounts \subseteq DOMAIN g.output.accounts
       /\ g.bigInt \in 0 .. MaxBigInts /\ g.world \in Nat
  BY <1>2, <1>4, <1>7, <1>10, <1>11
<1>15. Active(g, Pop(gs), v)
  BY <1>12, <1>13, <1>14, PoppedLevel
<1>16. IsHost(g)
  BY <1>15 DEF Active, Level
<1>17. KeptHere(RestoreGas(g, o.gasRemaining), g)
  BY <1>16, GasUseKeeps
<1>18. finishExecuteOnSameContext(o) = RestoreGas(g, o.gasRemaining)
  BY <1>5, <1>8 DEF finishExecuteOnSameContext
<1> QED
  BY <1>15, <1>17, <1>18, KeptActive

-----------------------------------------------------------------------------
(* The steps that end a nested execution: each keeps the invariant and      *)
(* rolls back what failed.                                                  *)

RollsBack == ChildFailed /\ frames' # frames => RestoredTo(top.before, CallerContexts)

\* The execution that ends: its host, its frame, its caller and its VMOutput.
Ending(h, fs, v, b, o) ==
    /\ h = host /\ fs = frames /\ o = ChildOutput /\ b = fs[Len(fs)].before
    /\ top = fs[Len(fs)] /\ Len(fs) > 1 /\ Len(fs) \in Nat
    /\ Level(h, fs, v) /\ Level(o.host, fs, v) /\ o.gasRemaining \in Nat
    /\ IsFrame(fs[Len(fs)], Len(fs), v)
    /\ Len(Pop(fs)) = Len(fs) - 1 /\ Pop(fs)[1].input.value = v
    /\ IsLedger(ledger) /\ IsLedger(ChargeCaller)

LEMMA EndingNow ==
    ASSUME VMInv, Len(frames) > 1
    PROVE  \E h, fs, v, b, o : Ending(h, fs, v, b, o)
<1>1. PICK h, fs, v, o : /\ h = host /\ fs = frames /\ v = frames[1].input.value
                         /\ o = ChildOutput
  OBVIOUS
<1>2. PICK b : b = fs[Len(fs)].before
  OBVIOUS
<1>3. exit # "idle"
  <2>1. Len(<< >>) = 0
    BY EmptyStack, StackLen
  <2>2. ASSUME exit = "idle" PROVE FALSE
    <3>1. frames = << >>
      BY <2>2 DEF VMInv
    <3>2. PICK n : n = Len(frames)
      OBVIOUS
    <3>3. n > 1 /\ n = 0
      BY <2>1, <3>1, <3>2
    <3> QED
      BY <3>3
  <2> QED
    BY <2>2
<1>4. Level(h, fs, v) /\ IsLedger(ledger) /\ fs[1].input.value = v
  BY <1>1, <1>3 DEF VMInv
<1>5. IsHost(h) /\ IsCallStack(fs, v) /\ Len(fs) \in Nat /\ Len(fs) > 1
  BY <1>1, <1>4 DEF Level, IsCallStack
<1>6. VMOutputOf(o, h)
  BY <1>1, <1>5, ErrorOutput, SuccessOutput DEF ChildOutput
<1>7. Level(o.host, fs, v) /\ o.gasRemaining \in Nat
  BY <1>4, <1>6, KeptLevel DEF VMOutputOf, KeptHere
<1>8. PICK n : n = Len(fs) - 1
  OBVIOUS
<1>9. n \in Nat \ {0} /\ Len(fs) = n + 1 /\ 1 \in 1 .. n
  <2>1. PICK m : m = Len(fs)
    OBVIOUS
  <2>2. m \in Nat /\ m > 1 /\ n = m - 1
    BY <1>5, <1>8, <2>1
  <2> QED
    BY <2>1, <2>2
<1>10. Len(Pop(fs)) = n /\ \A i \in 1 .. n : Pop(fs)[i] = fs[i]
  BY <1>5, <1>9, PoppedCallStack
<1>11. top = fs[Len(fs)] /\ IsFrame(fs[Len(fs)], Len(fs), v)
  BY <1>1, <1>5 DEF top, IsCallStack
<1>12. IsLedger(ChargeCaller)
  <2>1. PICK f : f = top
    OBVIOUS
  <2>2. PICK l, a, gas : /\ l = f.ledger /\ a = f.before.runtime.scAddress
                         /\ gas = IF exit \in {"ErrTransferInsufficientFunds",
                                               "ErrInitFuncCalledInRun"}
                                  THEN 0 ELSE f.input.gas
    OBVIOUS
  <2>3. IsLedger(l) /\ a \in Contracts /\ f.input.gas \in Nat
    BY <1>5, <1>11, <2>1, <2>2 DEF IsFrame, IsInput
  <2>4. a \in Accounts /\ gas \in Nat
    BY <2>2, <2>3 DEF Accounts
  <2>5. ChargeCaller = Burn(l, a, gas)
    BY <2>1, <2>2 DEF ChargeCaller
  <2> QED
    BY <2>3, <2>4, <2>5, BurntLedger
<1>13. Ending(h, fs, v, b, o)
  BY <1>1, <1>2, <1>4, <1>5, <1>7, <1>8, <1>9, <1>10, <1>11, <1>12 DEF Ending
<1> QED
  BY <1>13

\* A failure of the caller itself changes nothing of what was restored.
LEMMA RestoredThenFailed ==
    ASSUME NEW g, NEW b, Restored(g, b), Present(g.output, g.runtime), NEW e, Fails(e, g)
    PROVE  Restored(e, b)
<1>1. /\ e.bigInt = g.bigInt /\ e.world = g.world /\ e.runtime = g.runtime
      /\ e.storageAddress = g.storageAddress /\ e.metering = g.metering
  BY DEF Fails, SameBut, HostFields
<1>2. Effects(e.output) = Effects(g.output)
  BY DEF Fails
<1> QED
  BY <1>1, <1>2 DEF Restored

\* Back in the caller.
LEMMA CallerRestored ==
    ASSUME NEW h, NEW fs, NEW v, NEW b, NEW o, Ending(h, fs, v, b, o),
           NEW g, Restored(g, b), top.kind # "esdt", host' = g, frames' = Pop(fs)
    PROVE  RestoredTo(top.before, CallerContexts)
<1>1. Len(frames') < Len(frames)
  BY DEF Ending
<1>2. CallerContexts =
        [output |-> g.output, bigInt |-> g.bigInt, world |-> g.world,
         storageAddress |-> g.storageAddress, runtime |-> g.runtime,
         gasUsedByAccounts |-> g.metering.gasUsedByAccounts]
  BY <1>1 DEF CallerContexts
<1>3. top.before = b /\ b.world \in Nat
  BY DEF Ending, IsFrame
<1>4. b.world - (IF top.kind = "esdt" THEN 1 ELSE 0) = b.world
  BY <1>3
<1> QED
  BY <1>2, <1>3, <1>4 DEF RestoredTo, Restored

\* Back in the caller, with the host g.
LEMMA BackGood ==
    ASSUME VMInv, NEW h, NEW fs, NEW v, NEW b, NEW o, Ending(h, fs, v, b, o),
           NEW g, Active(g, Pop(fs), v), NEW l, IsLedger(l), NEW x, x # "idle",
           host' = g, frames' = Pop(fs), exit' = x, ledger' = l, txs' = txs
    PROVE  VMInv'
<1>1. Good(host', exit', frames', v)
  BY DEF Good, Active, Ending
<1>2. IsLedger(ledger') /\ txs' \in 0 .. MaxTransactions
  BY DEF VMInv
<1> QED
  BY <1>1, <1>2, GoodKeeps

LEMMA FinishDestCallStep ==
    ASSUME VMInv, FinishDestCall PROVE VMInv' /\ RollsBack
<1>1. PICK h, fs, v, b, o : Ending(h, fs, v, b, o)
  BY EndingNow DEF FinishDestCall, Ended
<1>2. top.kind = "dest" /\ ReturnFromDest(o) /\ exit # "running"
  BY <1>1 DEF FinishDestCall, Ended, Ending
<1>3. PICK g : g = finishExecuteOnDestContext(o)
  OBVIOUS
<1>4. Active(g, Pop(fs), v) /\ (o.err # "Ok" => Restored(g, b))
  BY <1>1, <1>2, <1>3, DestFinished DEF Ending
<1>5. ChildFailed <=> o.err # "Ok"
  BY <1>1, <1>2 DEF ChildFailed, Ending
<1>6. CASE o.err = "Ok"
  <2>1. /\ host' = g /\ ledger' = ledger /\ exit' = "running" /\ frames' = Pop(fs)
        /\ txs' = txs
    BY <1>1, <1>2, <1>3, <1>6 DEF ReturnFromDest, BackToCaller, Ending
  <2>2. VMInv'
    BY <1>1, <1>4, <2>1, BackGood DEF Ending
  <2> QED
    BY <1>5, <1>6, <2>2 DEF RollsBack
<1>7. CASE o.err # "Ok"
  <2>1. PICK e, l : e = FailExecution(g) /\ l = ChargeCaller
    OBVIOUS
  <2>2. /\ host' = e /\ ledger' = l /\ exit' = "ErrExecutionFailed"
        /\ frames' = Pop(fs) /\ txs' = txs
    BY <1>1, <1>2, <1>3, <1>7, <2>1 DEF ReturnFromDest, BackToFault, Ending
  <2>3. IsHost(g) /\ Present(g.output, g.runtime)
    BY <1>4 DEF Active, Level
  <2>4. Fails(e, g)
    BY <2>1, <2>3, FailExecutionFails
  <2>5. Active(e, Pop(fs), v)
    BY <1>4, <2>4, KeptActive DEF Fails
  <2>6. VMInv'
    BY <1>1, <2>1, <2>2, <2>5, BackGood DEF Ending
  <2>7. Restored(e, b)
    BY <1>4, <1>7, <2>3, <2>4, RestoredThenFailed
  <2>8. RestoredTo(top.before, CallerContexts)
    BY <1>1, <1>2, <2>2, <2>7, CallerRestored
  <2> QED
    BY <2>6, <2>8 DEF RollsBack
<1> QED
  BY <1>6, <1>7

LEMMA ChildLedgers ==
    ASSUME NEW h, NEW fs, NEW v, NEW b, NEW o, Ending(h, fs, v, b, o)
    PROVE  IsLedger(ChildLedger(o))
  BY DEF ChildLedger, Ending

LEMMA FinishTransferExecuteStep ==
    ASSUME VMInv, FinishTransferExecute PROVE VMInv' /\ RollsBack
<1>1. PICK h, fs, v, b, o : Ending(h, fs, v, b, o)
  BY EndingNow DEF FinishTransferExecute, Ended
<1>2. top.kind = "transfer" /\ ReturnFromTransfer(o) /\ exit # "running"
  BY <1>1 DEF FinishTransferExecute, Ended, Ending
<1>3. PICK g, l : g = finishExecuteOnDestContext(o) /\ l = ChildLedger(o)
  OBVIOUS
<1>4. Active(g, Pop(fs), v) /\ (o.err # "Ok" => Restored(g, b))
  BY <1>1, <1>2, <1>3, DestFinished DEF Ending
<1>5. ChildFailed <=> o.err # "Ok"
  BY <1>1, <1>2 DEF ChildFailed, Ending
<1>6. /\ host' = g /\ ledger' = l /\ exit' = "running" /\ frames' = Pop(fs)
      /\ txs' = txs
  BY <1>1, <1>2, <1>3 DEF ReturnFromTransfer, BackToCaller, Ending
<1>7. IsLedger(l)
  BY <1>1, <1>3, ChildLedgers
<1>8. VMInv'
  BY <1>1, <1>4, <1>6, <1>7, BackGood
<1>9. o.err # "Ok" => RestoredTo(top.before, CallerContexts)
  BY <1>1, <1>2, <1>4, <1>6, CallerRestored
<1> QED
  BY <1>5, <1>8, <1>9 DEF RollsBack

LEMMA FinishCallbackStep ==
    ASSUME VMInv, FinishCallback PROVE VMInv' /\ RollsBack
<1>1. PICK h, fs, v, b, o : Ending(h, fs, v, b, o)
  BY EndingNow DEF FinishCallback, Ended
<1>2. top.kind = "callback" /\ processCallbackVMOutput(o) /\ exit # "running"
  BY <1>1 DEF FinishCallback, Ended, Ending
<1>3. PICK g, l : g = finishExecuteOnDestContext(o) /\ l = ChildLedger(o)
  OBVIOUS
<1>4. Active(g, Pop(fs), v) /\ (o.err # "Ok" => Restored(g, b))
  BY <1>1, <1>2, <1>3, DestFinished DEF Ending
<1>5. ChildFailed <=> o.err # "Ok"
  BY <1>1, <1>2 DEF ChildFailed, Ending
<1>6. /\ host' = g /\ ledger' = l /\ exit' = "Ok" /\ frames' = Pop(fs)
      /\ txs' = txs
  BY <1>1, <1>2, <1>3 DEF processCallbackVMOutput, Ending
<1>7. IsLedger(l)
  BY <1>1, <1>3, ChildLedgers
<1>8. VMInv'
  BY <1>1, <1>4, <1>6, <1>7, BackGood
<1>9. o.err # "Ok" => RestoredTo(top.before, CallerContexts)
  BY <1>1, <1>2, <1>4, <1>6, CallerRestored
<1> QED
  BY <1>5, <1>8, <1>9 DEF RollsBack

\* The Node's accounts, before the tokens moved.
WithWorld(h, w) == [h EXCEPT !.world = w]

LEMMA FinishESDTExecuteStep ==
    ASSUME VMInv, FinishESDTExecute PROVE VMInv' /\ RollsBack
<1>1. PICK h, fs, v, b, o : Ending(h, fs, v, b, o)
  BY EndingNow DEF FinishESDTExecute, Ended
<1>2. top.kind = "esdt" /\ ReturnFromESDT(o) /\ exit # "running"
  BY <1>1 DEF FinishESDTExecute, Ended, Ending
<1>3. PICK g : g = finishExecuteOnDestContext(o)
  OBVIOUS
<1>4. Active(g, Pop(fs), v) /\ (o.err # "Ok" => Restored(g, b))
  BY <1>1, <1>2, <1>3, DestFinished DEF Ending
<1>5. ChildFailed <=> o.err # "Ok"
  BY <1>1, <1>2 DEF ChildFailed, Ending
<1>6. CASE o.err = "Ok"
  <2>1. /\ host' = g /\ ledger' = ledger /\ exit' = "running" /\ frames' = Pop(fs)
        /\ txs' = txs
    BY <1>1, <1>2, <1>3, <1>6 DEF ReturnFromESDT, BackToCaller, Ending
  <2>2. VMInv'
    BY <1>1, <1>4, <2>1, BackGood DEF Ending
  <2> QED
    BY <1>5, <1>6, <2>2 DEF RollsBack
<1>7. CASE o.err # "Ok"
  <2>1. top.before = b /\ b.world \in Nat \ {0}
    BY <1>1, <1>2 DEF Ending, IsFrame
  <2>2. PICK w, l : w = b.world - 1 /\ l = ChargeCaller
    OBVIOUS
  <2>3. w \in Nat
    BY <2>1, <2>2
  <2>4. PICK e : e = WithWorld(g, w)
    OBVIOUS
  <2>5. /\ host' = e /\ ledger' = l /\ exit' = "running"
        /\ frames' = Pop(fs) /\ txs' = txs
    BY <1>1, <1>2, <1>3, <1>7, <2>1, <2>2, <2>4
       DEF ReturnFromESDT, BackToCaller, Ending, WithWorld
  <2>6. IsHost(g)
    BY <1>4 DEF Active, Level
  <2>7. SameBut(e, g, {"world"}) /\ e.world = w
    BY <2>4, <2>6 DEF WithWorld, SameBut, HostFields, IsHost, IdleHost
  <2>8. KeptHere(e, g)
    <3>1. /\ SameBut(e, g, Inner) /\ e.output = g.output /\ e.points = g.points
          /\ e.metering = g.metering /\ e.bigInt = g.bigInt /\ e.runtime = g.runtime
      BY <2>7 DEF SameBut, Inner, HostFields
    <3>2. Carries(e.output, g.output)
      BY <2>6, <3>1, SameCarries DEF IsHost, IdleHost
    <3> QED
      BY <2>3, <2>6, <2>7, <3>1, <3>2, InnerKeeps DEF IsHost, IdleHost
  <2>9. Active(e, Pop(fs), v)
    BY <1>4, <2>8, KeptActive
  <2>10. VMInv'
    BY <1>1, <2>2, <2>5, <2>9, BackGood DEF Ending
  <2>11. Restored(g, b)
    BY <1>4, <1>7
  <2>12. /\ e.output = g.output /\ e.bigInt = g.bigInt /\ e.runtime = g.runtime
         /\ e.storageAddress = g.storageAddress /\ e.metering = g.metering
    BY <2>7 DEF SameBut, HostFields
  <2>13. Len(frames') < Len(frames)
    BY <1>1, <2>5 DEF Ending
  <2>14. CallerContexts =
           [output |-> e.output, bigInt |-> e.bigInt, world |-> e.world,
            storageAddress |-> e.storageAddress, runtime |-> e.runtime,
            gasUsedByAccounts |-> e.metering.gasUsedByAccounts]
    BY <2>5, <2>13 DEF CallerContexts
  <2>15. b.world - (IF top.kind = "esdt" THEN 1 ELSE 0) = w
    BY <1>2, <2>2
  <2>16. RestoredTo(top.before, CallerContexts)
    BY <2>1, <2>7, <2>11, <2>12, <2>14, <2>15 DEF RestoredTo, Restored
  <2> QED
    BY <2>10, <2>16 DEF RollsBack
<1> QED
  BY <1>6, <1>7

LEMMA FinishSameContextStep ==
    ASSUME VMInv, FinishSameContext PROVE VMInv' /\ RollsBack
<1>1. PICK h, fs, v, b, o : Ending(h, fs, v, b, o)
  BY EndingNow DEF FinishSameContext, Ended
<1>2. top.kind = "same" /\ exit # "running"
  BY <1>1 DEF FinishSameContext, Ended
<1>3. ChildFailed <=> exit # "Ok"
  BY <1>1, <1>2 DEF ChildFailed, Ending
<1>4. CASE exit = "Ok"
  <2>1. ReturnFromSame(o)
    BY <1>1, <1>4 DEF FinishSameContext, Ending
  <2>2. PICK g, l : /\ g = finishExecuteOnSameContext(o)
                    /\ l = [ledger EXCEPT !.unchecked = @ \/ o.err # "Ok"]
    OBVIOUS
  <2>3. Active(g, Pop(fs), v)
    BY <1>1, <1>2, <2>2, SameFinished DEF Ending
  <2>4. IsLedger(l)
    BY <1>1, <2>2 DEF Ending, IsLedger
  <2>5. /\ host' = g /\ ledger' = l /\ exit' = "running" /\ frames' = Pop(fs)
        /\ txs' = txs
    BY <1>1, <2>1, <2>2 DEF ReturnFromSame, BackToCaller, Ending
  <2>6. VMInv'
    BY <1>1, <2>3, <2>4, <2>5, BackGood
  <2> QED
    BY <1>3, <1>4, <2>6 DEF RollsBack
<1>5. CASE exit # "Ok"
  <2>1. PICK g : g = FailedSameContext(h)
    OBVIOUS
  <2>2. BackToFault(g, ChargeCaller)
    BY <1>1, <1>5, <2>1 DEF FinishSameContext, Ending
  <2>3. Active(g, Pop(fs), v) /\ Restored(g, b)
    BY <1>1, <1>2, <2>1, SameFailed DEF Ending
  <2>4. PICK e, l : e = FailExecution(g) /\ l = ChargeCaller
    OBVIOUS
  <2>5. /\ host' = e /\ ledger' = l /\ exit' = "ErrExecutionFailed"
        /\ frames' = Pop(fs) /\ txs' = txs
    BY <1>1, <2>2, <2>4 DEF BackToFault, Ending
  <2>6. IsHost(g) /\ Present(g.output, g.runtime)
    BY <2>3 DEF Active, Level
  <2>7. Fails(e, g)
    BY <2>4, <2>6, FailExecutionFails
  <2>8. Active(e, Pop(fs), v)
    BY <2>3, <2>7, KeptActive DEF Fails
  <2>9. VMInv'
    BY <1>1, <2>4, <2>5, <2>8, BackGood DEF Ending
  <2>10. Restored(e, b)
    BY <2>3, <2>6, <2>7, RestoredThenFailed
  <2>11. RestoredTo(top.before, CallerContexts)
    BY <1>1, <1>2, <2>5, <2>10, CallerRestored
  <2> QED
    BY <2>9, <2>11 DEF RollsBack
<1> QED
  BY <1>4, <1>5

\* The callback after a failure starts from what the caller was.
LEMMA FailureCalledBack ==
    ASSUME NEW h, NEW fs, NEW v, NEW b, NEW o, Ending(h, fs, v, b, o),
           top.kind = "asyncDest", NEW g, Restored(g, b), Active(g, Pop(fs), v),
           NEW l, NEW initiator, NEW gasLimit, NEW returnsToken, ~returnsToken,
           executeSyncCallbackCall(Pop(fs), g, l, initiator, gasLimit, returnsToken)
    PROVE  RestoredTo(top.before, CallerContexts)
<1>1. IsHost(g) /\ Present(g.output, g.runtime) /\ g.runtime.gasLocked \in Nat
  BY DEF Active, Level, IsHost, RuntimeType
<1>2. CASE gasLimit <= AsyncCallStep
  <2>1. PICK e : e = UpdateGasStateOnFailure(g)
    OBVIOUS
  <2>2. host' = e /\ frames' = Pop(fs)
    BY <1>2, <2>1 DEF executeSyncCallbackCall
  <2>3. Fails(e, g)
    BY <1>1, <2>1, FailureUpdateFails
  <2>4. Restored(e, b)
    BY <1>1, <2>3, RestoredThenFailed
  <2> QED
    BY <2>2, <2>4, CallerRestored
<1>3. CASE ~(gasLimit <= AsyncCallStep)
  <2>1. PICK c, input, r : /\ c = RestoreGas(g, g.runtime.gasLocked)
                           /\ input = createCallbackContractCallInput(g, initiator, gasLimit)
                           /\ r = TransferAndExecute(PushDestContexts(c, input), input)
    OBVIOUS
  <2>2. EnterFrom(Pop(fs), c, l, "callback", input, r)
    BY <1>3, <2>1 DEF executeSyncCallbackCall
  <2>3. OnlyPoints(c, g)
    BY <1>1, <2>1, GasUsed
  <2>4. /\ c.output = g.output /\ c.bigInt = g.bigInt /\ c.world = g.world
        /\ c.storageAddress = g.storageAddress /\ c.runtime = g.runtime
        /\ c.metering = g.metering
    BY <2>3 DEF OnlyPoints, SameBut, HostFields
  <2>5. PICK f : f = Frame("callback", input, c, l)
    OBVIOUS
  <2>6. frames' = Append(Pop(fs), f)
    BY <2>2, <2>5 DEF EnterFrom
  <2>7. PICK n : n = Len(Pop(fs))
    OBVIOUS
  <2>8. IsStack(Pop(fs), n) /\ n \in Nat /\ Len(frames) = n + 1
    BY <2>7 DEF Active, Level, IsCallStack, Ending
  <2>9. PushOf(frames', Pop(fs), n, f)
    BY <2>6, <2>8, StackPush
  <2>10. IsStack(frames', n + 1) /\ frames'[n + 1] = f
    BY <2>9 DEF PushOf
  <2>11. Len(frames') = n + 1
    BY <2>8, <2>10, StackLen
  <2>12. ~(Len(frames') < Len(frames))
    BY <2>8, <2>11
  <2>13. CallerContexts = f.before
    BY <2>10, <2>11, <2>12 DEF CallerContexts
  <2>14. /\ f.before.output = c.output /\ f.before.bigInt = c.bigInt
         /\ f.before.world = c.world /\ f.before.storageAddress = c.storageAddress
         /\ f.before.runtime = c.runtime
         /\ f.before.gasUsedByAccounts = c.metering.gasUsedByAccounts
    BY <2>5 DEF Frame
  <2>15. top.before = b /\ b.world \in Nat
    BY DEF Ending, IsFrame
  <2>16. b.world - (IF top.kind = "esdt" THEN 1 ELSE 0) = b.world
    BY <2>15
  <2> QED
    BY <2>4, <2>13, <2>14, <2>15, <2>16 DEF RestoredTo, Restored
<1> QED
  BY <1>2, <1>3

LEMMA FinishAsyncDestinationStep ==
    ASSUME VMInv, FinishAsyncDestination PROVE VMInv' /\ RollsBack
<1>1. PICK h, fs, v, b, o : Ending(h, fs, v, b, o)
  BY EndingNow DEF FinishAsyncDestination, Ended
<1>2. top.kind = "asyncDest" /\ CallBackAfter(o) /\ exit # "running" /\ txs' = txs
  BY <1>1 DEF FinishAsyncDestination, Ended, Ending
<1>3. PICK g, l, initiator, returnsToken :
          /\ g = finishExecuteOnDestContext(o) /\ l = ChildLedger(o)
          /\ initiator = top.input.recipient
          /\ returnsToken = (o.err = "Ok" /\ o.host.output.returnsToken)
  OBVIOUS
<1>4. PICK gasLimit : gasLimit = o.gasRemaining + g.runtime.gasLocked
  OBVIOUS
<1>5. executeSyncCallbackCall(Pop(fs), g, l, initiator, gasLimit, returnsToken)
  BY <1>1, <1>2, <1>3, <1>4 DEF CallBackAfter, ReturnFromAsyncDestination, Ending
<1>6. Active(g, Pop(fs), v) /\ (o.err # "Ok" => Restored(g, b))
  BY <1>1, <1>2, <1>3, DestFinished DEF Ending
<1>7. g.runtime.gasLocked \in Nat
  BY <1>6 DEF Active, Level, IsHost, RuntimeType
<1>8. gasLimit \in Nat
  BY <1>1, <1>4, <1>7 DEF Ending
<1>9. initiator \in Contracts /\ initiator \in Accounts
  BY <1>1, <1>2, <1>3 DEF Ending, IsFrame, Accounts
<1>10. Pop(fs)[1].input.value = v /\ IsLedger(l)
  BY <1>1, <1>3, ChildLedgers DEF Ending
<1>11. Good(host', exit', frames', v) /\ IsLedger(ledger')
  BY <1>5, <1>6, <1>8, <1>9, <1>10, CalledBack
<1>12. txs' \in 0 .. MaxTransactions
  BY <1>2 DEF VMInv
<1>13. VMInv'
  BY <1>11, <1>12, GoodKeeps
<1>14. ChildFailed <=> o.err # "Ok"
  BY <1>1, <1>2 DEF ChildFailed, Ending
<1>15. o.err # "Ok" => RestoredTo(top.before, CallerContexts)
  <2>1. ASSUME o.err # "Ok" PROVE RestoredTo(top.before, CallerContexts)
    <3>1. ~returnsToken
      BY <1>3, <2>1
    <3> QED
      BY <1>1, <1>2, <1>5, <1>6, <2>1, <3>1, FailureCalledBack
  <2> QED
    BY <2>1
<1> QED
  BY <1>13, <1>14, <1>15 DEF RollsBack

-----------------------------------------------------------------------------
(* Transactions.                                                            *)

LEMMA EmptyLedgers == IsLedger(EmptyLedger)
  BY DEF IsLedger, EmptyLedger

\* The host of the transaction input, before its contract starts.
Begun(h, input) ==
    /\ IsHost(h) /\ Conserves(h.output, input.value) /\ StackSizes(h, 0, 0)
    /\ h.runtime.scAddress = input.recipient /\ Present(h.output, h.runtime)

LEMMA TransactionInput ==
    ASSUME NEW input \in TxInputs PROVE IsInput(input)
  BY HostAssumption DEF TxInputs, IsInput, Accounts, KnownCallTypes

LEMMA EmptyHosts == IdleHost(EmptyHost) /\ StackSizes(EmptyHost, 0, 0)
<1>1. PICK h : h = EmptyHost
  OBVIOUS
<1>2. /\ DOMAIN h = HostFields /\ h.output = newVMOutput /\ h.metering = NewMetering(0)
      /\ h.points = [i \in 1 .. MaxInstances |-> 0] /\ h.instance = 0
      /\ h.bigInt = 0 /\ h.world = 0
  BY <1>1 DEF EmptyHost, HostFields
<1>3. h.points \in PointsType
  BY <1>2 DEF PointsType
<1>4. IsMetering(h.metering)
  <2>1. DOMAIN << >> = {}
    BY EmptyStack DEF IsStack
  <2> QED
    BY <1>2, <2>1 DEF NewMetering, IsMetering, MeteringFields, IsGasUsed
<1>5. IdleHost(h)
  BY <1>2, <1>3, <1>4, NewOutputs, ContextsAssumption, HostAssumption DEF IdleHost
<1>6. StackSizes(h, 0, 0)
  BY <1>1, EmptyStack DEF EmptyHost, StackSizes
<1> QED
  BY <1>1, <1>5, <1>6

\* The balance that the transaction brings.
LEMMA ValueBrought ==
    ASSUME NEW a \in Accounts, NEW v \in Nat, NEW o, o = AddBalance(newVMOutput, a, v)
    PROVE  IsOutput(o) /\ a \in DOMAIN o.accounts /\ Conserves(o, v)
<1>1. PICK n : n = newVMOutput
  OBVIOUS
<1>2. IsOutput(n) /\ DOMAIN n.accounts = {}
  BY <1>1, NewOutputs
<1>3. BalanceAdded(o, n, a, v)
  BY <1>1, <1>2, AddingBalance
<1>4. /\ IsOutput(o) /\ a \in DOMAIN o.accounts /\ SumDeltas(o) = SumDeltas(n) + v
      /\ DeltaOf(o, a) = DeltaOf(n, a) + v
      /\ \A x : x # a => DeltaOf(o, x) = DeltaOf(n, x)
  BY <1>3 DEF BalanceAdded
<1>5. \A x : DeltaOf(n, x) = 0
  BY <1>2, DeltaFacts
<1>6. SumDeltas(n) = 0
  BY <1>2, SumEmpty DEF SumDeltas
<1>7. SumFunction(Deltas(o)) = v
  BY <1>4, <1>6, DeltaFacts
<1>8. \A x \in Contracts : Balance[x] + DeltaOf(o, x) >= 0
  <2> SUFFICES ASSUME NEW x \in Contracts PROVE Balance[x] + DeltaOf(o, x) >= 0
    OBVIOUS
  <2>1. Balance[x] \in Nat
    BY ContextsAssumption DEF Accounts
  <2>2. DeltaOf(o, x) \in Nat
    BY <1>4, <1>5
  <2> QED
    BY <2>1, <2>2
<1> QED
  BY <1>4, <1>7, <1>8 DEF Conserves

\* The host g at the beginning of the transaction input.
BeginOf(g, input) ==
    [InitState(g) EXCEPT !.runtime = NewRuntime(input),
                         !.metering = NewMetering(input.gas),
                         !.output = AddBalance(@, input.recipient, input.value),
                         !.storageAddress = input.recipient]

\* h with the contexts of a transaction.
WithTransaction(h, runtime, metering, output, address) ==
    [h EXCEPT !.runtime = runtime, !.metering = metering, !.output = output,
              !.storageAddress = address]

LEMMA TransactionBegun ==
    ASSUME NEW g, IdleHost(g), StackSizes(g, 0, 0), NEW input, IsInput(input),
           NEW h, h = BeginOf(g, input)
    PROVE  Begun(h, input)
<1>1. PICK i : i = InitState(g)
  OBVIOUS
<1>2. IdleHost(EmptyHost) /\ StackSizes(EmptyHost, 0, 0)
  BY EmptyHosts
<1>3. PICK e : e = EmptyHost
  OBVIOUS
<1>4. DOMAIN e = HostFields
  BY <1>2, <1>3 DEF IdleHost
<1>5. /\ SameBut(i, e, {"snapshots", "instanceStack"})
      /\ i.snapshots = g.snapshots /\ i.instanceStack = g.instanceStack
  BY <1>1, <1>3, <1>4 DEF InitState, SameBut, HostFields
<1>6. /\ DOMAIN i = HostFields /\ i.output = e.output /\ i.points = e.points
      /\ i.instance = e.instance /\ i.bigInt = e.bigInt /\ i.world = e.world
      /\ i.outputStack = e.outputStack /\ i.meteringStack = e.meteringStack
      /\ i.runtimeStack = e.runtimeStack /\ i.bigIntStack = e.bigIntStack
      /\ i.storageStack = e.storageStack
  BY <1>5 DEF SameBut, HostFields
<1>7. PICK o, r, m, a : /\ o = AddBalance(i.output, input.recipient, input.value)
                        /\ r = NewRuntime(input) /\ m = NewMetering(input.gas)
                        /\ a = input.recipient
  OBVIOUS
<1>8. h = WithTransaction(i, r, m, o, a)
  BY <1>1, <1>7 DEF BeginOf, WithTransaction
<1>9. /\ SameBut(h, i, {"runtime", "metering", "output", "storageAddress"})
      /\ h.runtime = r /\ h.metering = m /\ h.output = o /\ h.storageAddress = a
  BY <1>6, <1>8 DEF WithTransaction, SameBut, HostFields
<1>10. /\ DOMAIN h = HostFields /\ h.points = e.points
       /\ h.instance = e.instance /\ h.bigInt = e.bigInt /\ h.world = e.world
       /\ h.outputStack = e.outputStack /\ h.meteringStack = e.meteringStack
       /\ h.runtimeStack = e.runtimeStack /\ h.bigIntStack = e.bigIntStack
       /\ h.storageStack = e.storageStack /\ h.snapshots = g.snapshots
       /\ h.instanceStack = g.instanceStack
  BY <1>5, <1>6, <1>9 DEF SameBut, HostFields
<1>11. /\ r \in RuntimeType /\ r.scAddress = a /\ IsMetering(m) /\ a \in Accounts
       /\ input.value \in Nat
  BY <1>7, NewContexts DEF IsInput
<1>12. i.output = newVMOutput
  BY <1>3, <1>6 DEF EmptyHost
<1>13. IsOutput(o) /\ a \in DOMAIN o.accounts /\ Conserves(o, input.value)
  BY <1>7, <1>11, <1>12, ValueBrought
<1>14. IsHost(h)
  BY <1>2, <1>3, <1>9, <1>10, <1>11, <1>13 DEF IsHost, IdleHost
<1>15. StackSizes(h, 0, 0)
  BY <1>2, <1>3, <1>10 DEF StackSizes
<1> QED
  BY <1>7, <1>9, <1>11, <1>13, <1>14, <1>15 DEF Begun, Present

\* The one frame of a transaction.
LEMMA TopLevel ==
    ASSUME NEW input, IsInput(input), NEW h, Begun(h, input),
           NEW f, f = Frame("top", input, h, EmptyLedger)
    PROVE  /\ Level(h, << f >>, input.value) /\ << f >>[1].input.value = input.value
           /\ Len(<< f >>) = 1
<1>1. /\ f.kind = "top" /\ f.input = input /\ f.ledger = EmptyLedger
      /\ f.before.output = h.output /\ f.before.bigInt = h.bigInt
      /\ f.before.world = h.world /\ f.before.storageAddress = h.storageAddress
      /\ f.before.runtime = h.runtime
      /\ f.before.gasUsedByAccounts = h.metering.gasUsedByAccounts
  BY DEF Frame
<1>2. /\ IsHost(h) /\ IsOutput(h.output) /\ h.bigInt \in 0 .. MaxBigInts
      /\ h.world \in Nat /\ h.storageAddress \in Accounts /\ h.runtime \in RuntimeType
      /\ IsGasUsed(h.metering.gasUsedByAccounts)
      /\ Conserves(h.output, input.value) /\ Present(h.output, h.runtime)
  BY DEF Begun, IsHost, IdleHost, IsMetering
<1>3. PICK fs : fs = << f >>
  OBVIOUS
<1>4. IsFrame(f, 1, input.value)
  BY <1>1, <1>2, EmptyLedgers DEF IsFrame
<1>5. Len(fs) = 1 /\ fs[1] = f /\ IsStack(fs, 1)
  BY <1>3 DEF IsStack
<1>6. IsCallStack(fs, input.value)
  BY <1>4, <1>5 DEF IsCallStack
<1>7. StorageDepth(fs, 1) = 0 /\ Others(fs, 1) = {}
  BY StorageDepths DEF Others
<1>8. Level(h, fs, input.value)
  <2>1. StackSizes(h, Len(fs) - 1, StorageDepth(fs, Len(fs)))
    BY <1>5, <1>7 DEF Begun
  <2>2. 2 .. Len(fs) = {} /\ Others(fs, Len(fs)) = {}
    BY <1>5, <1>7
  <2> QED
    BY <1>2, <1>6, <2>1, <2>2 DEF Level
<1> QED
  BY <1>1, <1>3, <1>5, <1>8

LEMMA TransactionStep ==
    ASSUME VMInv, NEW input \in TxInputs, doRunSmartContractCall(input)
    PROVE  VMInv'
<1>1. exit = "idle" /\ txs < MaxTransactions /\ txs' = txs + 1
  BY DEF doRunSmartContractCall
<1>2. IdleHost(host) /\ StackSizes(host, 0, 0) /\ IsInput(input)
  BY <1>1, TransactionInput DEF VMInv
<1>3. PICK h : h = BeginOf(host, input)
  OBVIOUS
<1>4. Begun(h, input)
  BY <1>2, <1>3, TransactionBegun
<1>5. PICK f, r, v : /\ f = Frame("top", input, h, EmptyLedger)
                     /\ r = PrepareInstance(h, input) /\ v = input.value
  OBVIOUS
<1>6. Level(h, << f >>, v) /\ << f >>[1].input.value = v /\ Len(<< f >>) = 1
  BY <1>2, <1>4, <1>5, TopLevel
<1>7. /\ host' = r.host /\ frames' = << f >>
      /\ exit' \in {"ErrInitFuncCalledInRun", r.exit}
      /\ ledger' = IF r.exit \in {"running", "Ok"}
                   THEN Burn(EmptyLedger, input.recipient, CodeCost[input.recipient])
                   ELSE EmptyLedger
  BY <1>3, <1>5 DEF doRunSmartContractCall, BeginOf
<1>8. Starts(r, h, 0 + 1, input)
  BY <1>2, <1>4, <1>5, InstancePrepared DEF Begun, StackSizes
<1>9. Level(r.host, << f >>, v) /\ Present(r.host.output, r.host.runtime)
  BY <1>4, <1>6, <1>8, KeptLevel DEF Starts, Begun
<1>10. r.host.runtime.scAddress = input.recipient
  BY <1>4, <1>8 DEF Starts, Kept, Begun
<1>11. exit' # "idle" /\ (exit' = "running" => Active(r.host, << f >>, v))
  BY <1>6, <1>7, <1>8, <1>9, <1>10 DEF Starts, Active
<1>12. Good(host', exit', frames', v)
  BY <1>6, <1>7, <1>9, <1>11 DEF Good
<1>13. IsLedger(ledger')
  <2>1. CASE r.exit \in {"running", "Ok"}
    <3>1. input.recipient \in Accounts /\ CodeCost[input.recipient] \in Nat
      BY <1>8, <2>1, ContextsAssumption DEF Starts, Accounts
    <3> QED
      BY <1>7, <2>1, <3>1, BurntLedger, EmptyLedgers
  <2>2. CASE r.exit \notin {"running", "Ok"}
    BY <1>7, <2>2, EmptyLedgers
  <2> QED
    BY <2>1, <2>2
<1>14. txs' \in 0 .. MaxTransactions
  BY <1>1, HostAssumption DEF VMInv
<1> QED
  BY <1>12, <1>13, <1>14, GoodKeeps

(* The end of a transaction, with a VMOutput that comes from its host. *)
LEMMA TransactionEnds ==
    ASSUME VMInv, Len(frames) = 1, exit # "idle", NEW h, h = host,
           NEW o, VMOutputOf(o, h), NEW l, IsLedger(l), EndTransaction(o, l)
    PROVE  VMInv'
<1>1. PICK g, fs, v : g = o.host /\ fs = frames /\ v = frames[1].input.value
  OBVIOUS
<1>2. Level(h, fs, v) /\ Len(fs) = 1
  BY <1>1 DEF VMInv
<1>3. Kept(g, h)
  BY <1>1 DEF VMOutputOf, KeptHere
<1>4. Level(g, fs, v)
  BY <1>2, <1>3, KeptLevel
<1>5. StorageDepth(fs, 1) = 0
  BY StorageDepths
<1>6. IdleHost(g) /\ StackSizes(g, 0, 0)
  BY <1>2, <1>4, <1>5 DEF Level, IsHost
<1>7. PICK e : e = [g EXCEPT !.instance = 0]
  OBVIOUS
<1>8. SameBut(e, g, {"instance"}) /\ e.instance = 0
  BY <1>6, <1>7 DEF SameBut, HostFields, IdleHost
<1>9. /\ DOMAIN e = HostFields /\ e.output = g.output /\ e.metering = g.metering
      /\ e.points = g.points /\ e.bigInt = g.bigInt /\ e.world = g.world
      /\ SameStacks(e, g)
  BY <1>8 DEF SameBut, HostFields, SameStacks
<1>10. IdleHost(e)
  BY <1>6, <1>8, <1>9, ContextsAssumption DEF IdleHost
<1>11. StackSizes(e, 0, 0)
  BY <1>6, <1>9 DEF StackSizes, SameStacks
<1>12. /\ host' = e /\ ledger' = l /\ exit' = "idle" /\ frames' = << >> /\ txs' = txs
  BY <1>1, <1>7 DEF EndTransaction
<1> QED
  BY <1>10, <1>11, <1>12 DEF VMInv

(* A contract called from another shard calls back. *)
LEMMA CallbackSent ==
    ASSUME NEW h, IsHost(h),
           CanTransferValue(h, h.runtime.caller, h.runtime.scAddress,
                            h.runtime.callValue, FALSE)
    PROVE  KeptHere(sendCallbackToCurrentCaller(h), h)
<1>1. PICK caller, a, value, gas : /\ caller = h.runtime.caller /\ gas = GasLeft(h)
                                   /\ a = h.runtime.scAddress /\ value = h.runtime.callValue
  OBVIOUS
<1>2. /\ caller \in Accounts /\ a \in Accounts /\ value \in Nat /\ gas \in Nat
      /\ 0 \in Nat
  BY <1>1, GasIsNat DEF IsHost, RuntimeType
<1>3. GetBalance(h, a) >= value
  BY <1>1 DEF CanTransferValue
<1>4. PICK g : g = Transfer(h, caller, a, gas, 0, value)
  OBVIOUS
<1>5. KeptHere(g, h)
  BY <1>2, <1>3, <1>4, TransferKeeps
<1>6. IsHost(g)
  BY <1>5 DEF KeptHere, Kept
<1>7. KeptHere(UseGas(g, gas), g)
  BY <1>2, <1>6, GasUseKeeps
<1>8. sendCallbackToCurrentCaller(h) = UseGas(g, gas)
  BY <1>1, <1>4 DEF sendCallbackToCurrentCaller
<1> QED
  BY <1>5, <1>7, <1>8, KeptTransitive

LEMMA FinishTransactionStep ==
    ASSUME VMInv, FinishTransaction PROVE VMInv'
<1>1. PICK h, err, l : h = host /\ err = CallError(host) /\ l = ledger
  OBVIOUS
<1>2. Len(frames) = 1 /\ exit # "idle" /\ callSCMethod(err)
  BY <1>1 DEF FinishTransaction
<1>3. IsHost(h) /\ IsLedger(l)
  BY <1>1, <1>2 DEF VMInv, Level
<1>4. CASE err # "Ok"
  <2>1. PICK o : o = CreateVMOutputInCaseOfError(h, err)
    OBVIOUS
  <2>2. VMOutputOf(o, h)
    BY <1>3, <2>1, ErrorOutput
  <2>3. EndTransaction(o, l)
    BY <1>1, <1>2, <1>4, <2>1 DEF callSCMethod
  <2> QED
    BY <1>1, <1>2, <1>3, <2>2, <2>3, TransactionEnds
<1>5. CASE err = "Ok" /\ SendsCallback(h)
  <2>1. CanTransferValue(h, h.runtime.caller, h.runtime.scAddress,
                         h.runtime.callValue, FALSE)
    BY <1>1, <1>5 DEF CallError
  <2>2. PICK g, m : /\ g = sendCallbackToCurrentCaller(h)
                    /\ m = [l EXCEPT !.forwarded = @ + GasLeft(h)]
    OBVIOUS
  <2>3. KeptHere(g, h)
    BY <1>3, <2>1, <2>2, CallbackSent
  <2>4. IsHost(g)
    BY <2>3 DEF KeptHere, Kept
  <2>5. PICK o : o = GetVMOutput(g)
    OBVIOUS
  <2>6. VMOutputOf(o, g)
    BY <2>4, <2>5, SuccessOutput
  <2>7. VMOutputOf(o, h)
    BY <2>3, <2>6, KeptTransitive DEF VMOutputOf
  <2>8. IsLedger(m)
    BY <1>3, <2>2 DEF IsLedger
  <2>9. EndTransaction(o, m)
    BY <1>1, <1>2, <1>5, <2>2, <2>5 DEF callSCMethod
  <2> QED
    BY <1>1, <1>2, <2>7, <2>8, <2>9, TransactionEnds
<1>6. CASE err = "Ok" /\ ~SendsCallback(h)
  <2>1. PICK o : o = GetVMOutput(h)
    OBVIOUS
  <2>2. VMOutputOf(o, h)
    BY <1>3, <2>1, SuccessOutput
  <2>3. EndTransaction(o, l)
    BY <1>1, <1>2, <1>6, <2>1 DEF callSCMethod
  <2> QED
    BY <1>1, <1>2, <1>3, <2>2, <2>3, TransactionEnds
<1> QED
  BY <1>4, <1>5, <1>6

-----------------------------------------------------------------------------
(* The invariant of the specification.                                      *)

LEMMA InitHolds == Init => VMInv
  BY EmptyHosts, EmptyLedgers, HostAssumption DEF Init, VMInv

\* No nested execution ends while a contract runs, or between transactions.
LEMMA NothingFails ==
    ASSUME VMInv, exit \in {"running", "idle"} PROVE RollsBack
<1>1. CASE exit = "running"
  BY <1>1 DEF RollsBack, ChildFailed
<1>2. CASE exit = "idle"
  <2>1. frames = << >> /\ Len(<< >>) = 0
    BY <1>2, EmptyStack, StackLen DEF VMInv
  <2>2. PICK n : n = Len(frames)
    OBVIOUS
  <2>3. ~(n > 1)
    BY <2>1, <2>2
  <2> QED
    BY <2>2, <2>3 DEF RollsBack, ChildFailed
<1> QED
  BY <1>1, <1>2

LEMMA EEICallStep ==
    ASSUME VMInv, EEICall PROVE VMInv' /\ exit = "running"
<1>1. ASSUME NEW value \in StorageValues, StorageStore(value)
      PROVE  VMInv' /\ exit = "running"
  BY <1>1, StorageStoreStep DEF StorageStore, Running
<1>2. ASSUME BigIntNew PROVE VMInv' /\ exit = "running"
  BY <1>2, BigIntNewStep DEF BigIntNew, Running
<1>3. ASSUME SignalError PROVE VMInv' /\ exit = "running"
  BY <1>3, SignalErrorStep DEF SignalError, Running
<1>4. ASSUME NEW dest \in Accounts, NEW g \in GasLimits, NEW v \in CallValues,
             NEW init \in BOOLEAN, ExecuteOnDestContext(dest, g, v, init)
      PROVE  VMInv' /\ exit = "running"
  BY <1>4, ExecuteOnDestContextStep DEF ExecuteOnDestContext, Running
<1>5. ASSUME NEW dest \in Accounts, NEW g \in GasLimits, NEW v \in CallValues,
             ExecuteOnSameContext(dest, g, v)
      PROVE  VMInv' /\ exit = "running"
  BY <1>5, ExecuteOnSameContextStep DEF ExecuteOnSameContext, Running
<1>6. ASSUME NEW dest \in Accounts, NEW g \in GasLimits, NEW v \in CallValues,
             NEW function \in BOOLEAN, TransferValueExecute(dest, g, v, function)
      PROVE  VMInv' /\ exit = "running"
  BY <1>6, TransferValueExecuteStep DEF TransferValueExecute, Running
<1>7. ASSUME NEW dest \in Accounts, NEW g \in GasLimits, NEW function \in BOOLEAN,
             TransferESDTExecute(dest, g, function)
      PROVE  VMInv' /\ exit = "running"
  BY <1>7, TransferESDTExecuteStep DEF TransferESDTExecute, Running
<1>8. ASSUME NEW dest \in Accounts, NEW g \in GasLimits, NEW andCall \in BOOLEAN,
             ExecuteBuiltinFunction(dest, g, andCall)
      PROVE  VMInv' /\ exit = "running"
  BY <1>8, ExecuteBuiltinFunctionStep DEF ExecuteBuiltinFunction, Running
<1>9. ASSUME NEW dest \in Accounts, NEW v \in Nat, NEW builtIn, NEW andCall,
             AsyncCall(dest, v, builtIn, andCall)
      PROVE  VMInv' /\ exit = "running"
  BY <1>9, AsyncCallKeeps DEF AsyncCall, Running
<1>10. CallValues \subseteq Nat /\ 0 \in Nat
  BY HostAssumption
<1> QED
  BY <1>1, <1>2, <1>3, <1>4, <1>5, <1>6, <1>7, <1>8, <1>9, <1>10 DEF EEICall

LEMMA StepHolds ==
    ASSUME VMInv, Next PROVE VMInv' /\ RollsBack
<1>1. CASE Opcode
  BY <1>1, OpcodeStep, NothingFails DEF Opcode, Running
<1>2. CASE OutOfGas \/ Return
  <2>1. exit = "running"
    BY <1>2 DEF OutOfGas, Return
  <2> QED
    BY <1>2, <2>1, ContractStops, NothingFails
<1>3. CASE EEICall
  BY <1>3, EEICallStep, NothingFails
<1>4. CASE FinishDestCall
  BY <1>4, FinishDestCallStep
<1>5. CASE FinishTransferExecute
  BY <1>5, FinishTransferExecuteStep
<1>6. CASE FinishESDTExecute
  BY <1>6, FinishESDTExecuteStep
<1>7. CASE FinishSameContext
  BY <1>7, FinishSameContextStep
<1>8. CASE FinishAsyncDestination
  BY <1>8, FinishAsyncDestinationStep
<1>9. CASE FinishCallback
  BY <1>9, FinishCallbackStep
<1>10. CASE FinishTransaction
  <2>1. ~(Len(frames) > 1)
    BY <1>10 DEF FinishTransaction
  <2> QED
    BY <1>10, <2>1, FinishTransactionStep DEF RollsBack, ChildFailed
<1>11. ASSUME NEW input \in TxInputs, doRunSmartContractCall(input)
       PROVE  VMInv' /\ RollsBack
  <2>1. exit = "idle"
    BY <1>11 DEF doRunSmartContractCall
  <2> QED
    BY <1>11, <2>1, TransactionStep, NothingFails
<1>12. CASE NoMoreTransactions
  BY <1>12, NothingFails DEF NoMoreTransactions, vars, VMInv
<1> QED
  BY <1>1, <1>2, <1>3, <1>4, <1>5, <1>6, <1>7, <1>8, <1>9, <1>10, <1>11, <1>12
     DEF Next, Execution, Finish

(* The stacks of a vmHost hold, at every step of any transaction, what the   *)
(* executions in progress remember of their callers.                        *)
THEOREM VMInvariant == Spec => []VMInv
<1>1. VMInv /\ [Next]_vars => VMInv'
  <2>1. ASSUME VMInv, vars' = vars PROVE VMInv'
    BY <2>1 DEF vars, VMInv
  <2> QED
    BY <2>1, StepHolds
<1> QED
  BY <1>1, InitHolds, PTL DEF Spec

\* The host, at any time.
LEMMA HostAlways ==
    ASSUME VMInv
    PROVE  IdleHost(host) /\ (exit # "idle" => Len(frames) \in Nat \ {0})
<1>1. CASE exit = "idle"
  BY <1>1 DEF VMInv
<1>2. CASE exit # "idle"
  BY <1>2 DEF VMInv, Level, IsHost, IsCallStack
<1> QED
  BY <1>1, <1>2

LEMMA EmptyFrames == DOMAIN << >> = {} /\ Len(<< >>) = 0
  BY EmptyStack, StackLen

\* The frames are one transaction with the executions nested in it.
LEMMA FramesAlways ==
    ASSUME VMInv
    PROVE  /\ exit = "idle" <=> frames = << >>
           /\ exit # "idle" => /\ Len(frames) \in Nat \ {0}
                               /\ DOMAIN frames = 1 .. Len(frames)
           /\ \A i \in DOMAIN frames : frames[i].kind = "top" <=> i = 1
<1>1. CASE exit = "idle"
  <2>1. frames = << >>
    BY <1>1 DEF VMInv
  <2>2. DOMAIN frames = {}
    BY <2>1, EmptyFrames
  <2> QED
    BY <1>1, <2>1, <2>2
<1>2. CASE exit # "idle"
  <2>1. PICK v, n : v = frames[1].input.value /\ n = Len(frames)
    OBVIOUS
  <2>2. IsCallStack(frames, v)
    BY <1>2, <2>1 DEF VMInv, Level
  <2>3. n \in Nat \ {0} /\ IsStack(frames, n) /\ \A i \in 1 .. n : IsFrame(frames[i], i, v)
    BY <2>1, <2>2 DEF IsCallStack
  <2>4. DOMAIN frames = 1 .. n
    BY <2>3, StackLen
  <2>5. frames # << >>
    BY <2>1, <2>3, EmptyFrames
  <2>6. \A i \in 1 .. n : frames[i].kind = "top" <=> i = 1
    BY <2>3 DEF IsFrame
  <2> QED
    BY <1>2, <2>1, <2>3, <2>4, <2>5, <2>6
<1> QED
  BY <1>1, <1>2

(* The contexts of a vmHost always hold values of their types, in calls of   *)
(* any depth, and the frames are one transaction with the executions nested *)
(* in it.                                                                   *)
THEOREM VMTypesHold == Spec => []TypeOK
<1>1. ASSUME VMInv PROVE TypeOK
  <2>1. PICK h : h = host
    OBVIOUS
  <2>2. IdleHost(h)
    BY <1>1, <2>1, HostAlways
  <2>3. IsOutput(h.output) /\ IsMetering(h.metering) /\ IsLedger(ledger)
    BY <1>1, <2>2 DEF IdleHost, VMInv
  <2>4. DOMAIN h.output.accounts \subseteq Accounts
    BY <2>3 DEF IsOutput
  <2>5. ASSUME NEW a \in DOMAIN h.output.accounts, NEW account,
               account = h.output.accounts[a]
        PROVE  /\ account.balanceDelta \in Int
               /\ account.storage \in StorageValues \cup {NoValue}
               /\ account.gasUsed \in Nat
               /\ \A i \in DOMAIN account.outputTransfers :
                     account.outputTransfers[i] \in [gasLimit : Nat, gasLocked : Nat]
    <3>1. account \in AccountType
      BY <2>3, <2>5 DEF IsOutput
    <3>2. PICK s : s = account.outputTransfers
      OBVIOUS
    <3>3. s \in Seq(Transfers)
      BY <3>1, <3>2 DEF AccountType
    <3>4. \A i \in DOMAIN s : s[i] \in Transfers
      BY <3>3, ElementOfSeq
    <3> QED
      BY <3>1, <3>2, <3>4 DEF AccountType, Transfers
  <2>6. /\ h.metering.initialGasProvided \in Nat /\ h.metering.gasForExecution \in Nat
        /\ DOMAIN h.metering.gasUsedByAccounts \subseteq Accounts
    BY <2>3 DEF IsMetering, IsGasUsed
  <2>7. /\ h.points \in [1 .. MaxInstances -> Nat] /\ h.instance \in 0 .. MaxInstances
        /\ h.bigInt \in 0 .. MaxBigInts /\ h.world \in Nat
    BY <2>2 DEF IdleHost, PointsType
  <2>8. ledger.burnt \in [Accounts -> Nat] /\ txs \in 0 .. MaxTransactions
    BY <1>1, <2>3 DEF IsLedger, VMInv
  <2>9. /\ exit = "idle" <=> frames = << >>
        /\ \A i \in DOMAIN frames : frames[i].kind = "top" <=> i = 1
    BY <1>1, FramesAlways
  <2> QED
    BY <2>1, <2>4, <2>5, <2>6, <2>7, <2>8, <2>9 DEF TypeOK
<1> QED
  BY <1>1, VMInvariant, PTL

\* Executions on the same context, and the others.
LEMMA SameAndOthers ==
    ASSUME NEW fs, NEW n \in Nat \ {0}, fs[1].kind = "top", DOMAIN fs = 1 .. n
    PROVE  StorageDepth(fs, n) =
               n - 1 - Cardinality({i \in DOMAIN fs : fs[i].kind = "same"})
<1>1. PICK S, T : S = {i \in DOMAIN fs : fs[i].kind = "same"} /\ T = Others(fs, n)
  OBVIOUS
<1>2. S \subseteq 2 .. n /\ T \subseteq 2 .. n /\ S \cup T = 2 .. n /\ S \cap T = {}
  BY <1>1 DEF Others
<1>3. IsFiniteSet(2 .. n) /\ Cardinality(2 .. n) = n - 1
  BY FS_Interval
<1>4. IsFiniteSet(S) /\ IsFiniteSet(T)
  BY <1>2, <1>3, FS_Subset
<1>5. /\ Cardinality(S) \in Nat /\ Cardinality(T) \in Nat
      /\ Cardinality({}) = 0
  BY <1>4, FS_CardinalityType, FS_EmptySet
<1>6. Cardinality(S \cup T) = Cardinality(S) + Cardinality(T) - Cardinality(S \cap T)
  BY <1>4, FS_Union
<1>7. n - 1 = Cardinality(S) + Cardinality(T)
  <2>1. Cardinality(2 .. n) = Cardinality(S) + Cardinality(T) - Cardinality({})
    BY <1>2, <1>6, Zenon
  <2> QED
    BY <1>3, <1>5, <2>1
<1>8. Cardinality(T) = n - 1 - Cardinality(S)
  BY <1>5, <1>7
<1> QED
  BY <1>1, <1>8 DEF StorageDepth

\* The sizes of the stacks.
LEMMA Sizes ==
    ASSUME NEW h, NEW n \in Nat, NEW d \in Nat, StackSizes(h, n, d)
    PROVE  /\ Len(h.outputStack) = n /\ Len(h.meteringStack) = n
           /\ Len(h.runtimeStack) = n /\ Len(h.instanceStack) = n
           /\ Len(h.bigIntStack) = n /\ Len(h.snapshots) = n
           /\ Len(h.storageStack) = d
  BY StackLen DEF StackSizes

(* Whatever calls succeed, fail or call back, at any depth, every context    *)
(* has been pushed exactly once for each execution in progress, and a       *)
(* finished transaction leaves nothing behind for the next.                 *)
THEOREM StacksStayBalanced == Spec => []StacksBalanced
<1>1. ASSUME VMInv PROVE StacksBalanced
  <2>1. PICK h, fs : h = host /\ fs = frames
    OBVIOUS
  <2>2. PICK nested, same :
            /\ nested = IF fs = << >> THEN 0 ELSE Len(fs) - 1
            /\ same = Cardinality({i \in DOMAIN fs : fs[i].kind = "same"})
    OBVIOUS
  <2>3. /\ StackSizes(h, nested, nested - same) /\ nested \in Nat
        /\ nested - same \in Nat
    <3>1. CASE exit = "idle"
      <4>1. fs = << >> /\ StackSizes(h, 0, 0)
        BY <1>1, <2>1, <3>1 DEF VMInv
      <4>2. {i \in DOMAIN fs : fs[i].kind = "same"} = {}
        BY <4>1, EmptyFrames
      <4>3. nested = 0 /\ same = 0
        BY <2>2, <4>1, <4>2, FS_EmptySet
      <4> QED
        BY <4>1, <4>3
    <3>2. CASE exit # "idle"
      <4>1. PICK n : n = Len(fs)
        OBVIOUS
      <4>2. /\ n \in Nat \ {0} /\ DOMAIN fs = 1 .. n /\ fs # << >>
            /\ \A i \in DOMAIN fs : fs[i].kind = "top" <=> i = 1
        BY <1>1, <2>1, <3>2, <4>1, FramesAlways
      <4>3. fs[1].kind = "top"
        BY <4>2
      <4>4. StorageDepth(fs, n) = n - 1 - same
        BY <2>2, <4>2, <4>3, SameAndOthers
      <4>5. StackSizes(h, n - 1, StorageDepth(fs, n))
        BY <1>1, <2>1, <3>2, <4>1 DEF VMInv, Level
      <4>6. StorageDepth(fs, n) \in Nat
        BY <4>2, StorageDepths
      <4>7. nested = n - 1 /\ nested \in Nat
        BY <2>2, <4>1, <4>2
      <4> QED
        BY <4>4, <4>5, <4>6, <4>7
    <3> QED
      BY <3>1, <3>2
  <2>4. /\ Len(h.outputStack) = nested /\ Len(h.meteringStack) = nested
        /\ Len(h.runtimeStack) = nested /\ Len(h.instanceStack) = nested
        /\ Len(h.bigIntStack) = nested /\ Len(h.snapshots) = nested
        /\ Len(h.storageStack) = nested - same
    BY <2>3, Sizes
  <2> QED
    BY <2>1, <2>2, <2>4 DEF StacksBalanced
<1> QED
  BY <1>1, VMInvariant, PTL

(* The contract that runs never shares the Wasmer instance, and so the gas   *)
(* points, of a caller that waits for it.                                   *)
THEOREM InstancesAreOwn == Spec => []InstanceOfItsOwn
<1>1. ASSUME VMInv PROVE InstanceOfItsOwn
  <2> SUFFICES ASSUME exit = "running"
               PROVE  host.instance \notin {0} \cup ToSet(host.instanceStack)
    BY DEF InstanceOfItsOwn
  <2>1. PICK h, fs, v, n, s : /\ h = host /\ fs = frames /\ v = frames[1].input.value
                              /\ n = Len(fs) /\ s = h.instanceStack
    OBVIOUS
  <2>2. Active(h, fs, v)
    BY <1>1, <2>1 DEF VMInv
  <2>3. h.instance = n /\ n \in Nat \ {0} /\ IsStack(s, n - 1)
    BY <2>1, <2>2 DEF Active, Level, IsCallStack, StackSizes
  <2>4. ASSUME NEW i \in 1 .. n - 1 PROVE s[i] = i
    <3>1. i + 1 \in 2 .. Len(fs) /\ (i + 1) - 1 = i
      BY <2>1, <2>3
    <3>2. Saved(h, fs[i + 1].before, (i + 1) - 1)
      BY <2>2, <3>1 DEF Active, Level
    <3> QED
      BY <2>1, <3>1, <3>2 DEF Saved
  <2>5. DOMAIN s = 1 .. n - 1
    BY <2>3, StackLen
  <2>6. ToSet(s) = 1 .. n - 1
    BY <2>4, <2>5 DEF ToSet
  <2> QED
    BY <2>1, <2>3, <2>6
<1> QED
  BY <1>1, VMInvariant, PTL

(* Through nesting, merging and rollback the balance changes of all accounts *)
(* sum up to the value that came with the transaction, and no contract      *)
(* spends what it does not have.                                            *)
THEOREM ValueIsConserved == Spec => []ValueConserved
<1>1. ASSUME VMInv PROVE ValueConserved
  <2> SUFFICES ASSUME exit # "idle"
               PROVE  /\ SumFunction([a \in DOMAIN host.output.accounts |->
                                         host.output.accounts[a].balanceDelta])
                            = frames[1].input.value
                      /\ \A a \in Contracts : GetBalance(host, a) >= 0
    BY DEF ValueConserved
  <2>1. Conserves(host.output, frames[1].input.value)
    BY <1>1 DEF VMInv, Level
  <2>2. SumFunction(Deltas(host.output)) = frames[1].input.value
    BY <2>1 DEF Conserves
  <2>3. \A a \in Contracts : GetBalance(host, a) >= 0
    BY <2>1 DEF Conserves, GetBalance, DeltaOf
  <2> QED
    BY <2>2, <2>3 DEF Deltas
<1> QED
  BY <1>1, VMInvariant, PTL

(* When a nested execution fails, on another context, on the same one, in an *)
(* asynchronous call or in its callback, its caller goes on with the        *)
(* contexts it had before the call, whatever deeper executions had merged.  *)
THEOREM FailuresRollBack == Spec => FailureRollsBack
<1>1. VMInv /\ [Next]_vars
        => [ChildFailed /\ frames' # frames
              => RestoredTo(top.before, CallerContexts)]_vars
  BY StepHolds DEF RollsBack
<1> QED
  BY <1>1, VMInvariant, PTL DEF Spec, FailureRollsBack
=============================================================================
