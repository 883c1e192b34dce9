------------------------------ MODULE GasProofs ------------------------------
(***************************************************************************)
(* The gas of VMHost, for any contracts, costs, amounts of gas and depth of *)
(* the calls: what is burnt, forwarded and returned is what was provided,  *)
(* accounts are charged for what their code burnt, and no step mints gas.  *)
(*                                                                         *)
(* The points of a caller that waits include all the gas that it gave to   *)
(* the execution it waits for; the gas used by accounts is only up to date *)
(* when an execution ends.  The inductive invariant says, level by level,  *)
(* how the points and the gas used by others relate to the ledger at the   *)
(* beginning of the level and at its end.                                  *)
(***************************************************************************)
EXTENDS VMHostProofs

-----------------------------------------------------------------------------
(* The ledger.                                                              *)

IsBook(l) ==
    /\ DOMAIN l = {"burnt", "forwarded", "unfunded", "unchecked"}
    /\ l.burnt \in [Accounts -> Nat]
    /\ l.forwarded \in Nat /\ l.unfunded \in Nat /\ l.unchecked \in BOOLEAN

\* No gas was sent that nobody paid for, and none left the shard.
Sound(l) == ~l.unchecked /\ l.unfunded = 0
Inside(l) == Sound(l) /\ l.forwarded = 0

Spent(l) == TotalBurnt(l) + l.forwarded

\* l is k a little later.
Grows(l, k) ==
    /\ \A a \in Accounts : k.burnt[a] <= l.burnt[a]
    /\ k.forwarded <= l.forwarded /\ k.unfunded <= l.unfunded
    /\ k.unchecked => l.unchecked

(* An execution of s with the metering state m that has used the points p,  *)
(* of which lock are locked: since the ledger k, it has spent what the      *)
(* ledger l says, and the gas used by others is what they burnt.            *)
Accounted(l, k, m, p, s, lock) ==
    /\ Grows(l, k)
    /\ Sound(l) => Spent(l) + lock = Spent(k) + m.initialCost + p
    /\ Inside(l) => \A a \in Accounts \ {s} :
                        l.burnt[a] = k.burnt[a] + GasUsedBy(m, a)

\* Some of the transfers t carry gas; the accounts of o that send gas.
GasSent(t) == \E i \in DOMAIN t : t[i].gasLimit + t[i].gasLocked # 0
Carriers(o) ==
    {a \in DOMAIN o.accounts : GasSent(o.accounts[a].outputTransfers)}

Sends(l, o) ==
    /\ Sound(l) => Carriers(o) \cap Contracts = {}
    /\ Inside(l) => Carriers(o) = {}

Provided(m, gas) ==
    m.initialGasProvided = gas /\ m.initialCost + m.gasForExecution = gas

\* The gas locked by the call of frame f.
LockOf(f) == IF f.kind = "asyncDest" THEN f.before.runtime.gasLocked ELSE 0

Early == {"ErrTransferInsufficientFunds", "ErrInitFuncCalledInRun"}

\* The caller that the frame f remembers, with ledger k, input gas and
\* metering state m, has used the points q, of which paid are for f.
Waits(f, k, gas, m, q, paid) ==
    /\ IsBook(f.ledger) /\ f.before.points \in Nat
    /\ Accounted(f.ledger, k, m, f.before.points, f.before.runtime.scAddress,
                 LockOf(f))
    /\ Sends(f.ledger, f.before.output)
    /\ Provided(m, gas)
    /\ f.input.gas <= SubUint64(m.gasForExecution, f.before.points)
    /\ f.kind = "asyncDest" => /\ f.before.points <= m.gasForExecution
                               /\ f.before.runtime.gasLocked <= f.before.points
    /\ f.kind \notin {"asyncDest", "callback"} => f.before.runtime.gasLocked = 0
    /\ q = f.before.points + paid

\* What the execution that ends, or runs, as x was paid by its caller.
Paid(f, x) == IF x \in Early THEN 0 ELSE f.input.gas

Callers(h, x, fs) ==
    \A i \in 1 .. Len(fs) - 1 :
        Waits(fs[i + 1], fs[i].ledger, fs[i].input.gas, h.meteringStack[i], h.points[i],
              Paid(fs[i + 1], IF i + 1 = Len(fs) THEN x ELSE "running"))

\* The execution on top of fs goes on with the host c and the ledger l.
Open(c, fs, l, lock) ==
    /\ c.instance = Len(fs) /\ c.runtime.scAddress \in Contracts
    /\ Accounted(l, fs[Len(fs)].ledger, c.metering, GetPointsUsed(c),
                 c.runtime.scAddress, lock)
    /\ Sends(l, c.output)
    /\ Provided(c.metering, fs[Len(fs)].input.gas)

GasGood(h, x, fs, l) ==
    /\ fs[1].ledger = EmptyLedger
    /\ Callers(h, x, fs)
    /\ x \in {"running", "Ok"} => Open(h, fs, l, 0)
    /\ x = "running" => h.runtime.gasLocked = 0

GasInv ==
    /\ IsBook(ledger)
    /\ exit # "idle" => GasGood(host, exit, frames, ledger)
    /\ GasConserved /\ GasAttributed

-----------------------------------------------------------------------------
(* The ledger.                                                              *)

LEMMA AccountsFinite ==
    /\ IsFiniteSet(Accounts) /\ Contracts \subseteq Accounts
    /\ \A a \in Contracts : CodeCost[a] \in Nat
  BY ContextsAssumption DEF Accounts

LEMMA BooksAreLedgers ==
    ASSUME NEW l, IsBook(l)
    PROVE  /\ IsLedger(l) /\ TotalBurnt(l) \in Nat /\ Spent(l) \in Nat
           /\ TotalBurnt(l) = SumFunctionOnSet(l.burnt, Accounts)
           /\ \A a \in Accounts : l.burnt[a] \in Nat
<1>1. l.burnt \in [Accounts -> Nat] /\ l.forwarded \in Nat
  BY DEF IsBook
<1>2. DOMAIN l.burnt = Accounts /\ \A a \in Accounts : l.burnt[a] \in Nat
  BY <1>1
<1>3. SumFunctionOnSet(l.burnt, Accounts) \in Nat
  BY <1>2, AccountsFinite, SumOfPart
<1> QED
  BY <1>1, <1>2, <1>3 DEF IsBook, IsLedger, TotalBurnt, SumFunction, Spent

\* k is l with gas burnt by a.
BurntBy(k, l, a, gas) ==
    /\ IsBook(k) /\ Grows(k, l) /\ Spent(k) = Spent(l) + gas
    /\ k.burnt[a] = l.burnt[a] + gas
    /\ \A x \in Accounts \ {a} : k.burnt[x] = l.burnt[x]
    /\ k.forwarded = l.forwarded /\ k.unfunded = l.unfunded
    /\ k.unchecked = l.unchecked

LEMMA Burning ==
    ASSUME NEW l, IsBook(l), NEW a \in Accounts, NEW gas \in Nat
    PROVE  BurntBy(Burn(l, a, gas), l, a, gas)
<1> DEFINE k == Burn(l, a, gas)
<1>1. l.burnt \in [Accounts -> Nat]
  BY DEF IsBook
<1>2. /\ DOMAIN k = DOMAIN l /\ k.burnt = [l.burnt EXCEPT ![a] = @ + gas]
      /\ k.forwarded = l.forwarded /\ k.unfunded = l.unfunded
      /\ k.unchecked = l.unchecked
  BY DEF Burn, IsBook
<1>3. /\ k.burnt \in [Accounts -> Nat] /\ k.burnt[a] = l.burnt[a] + gas
      /\ \A x \in Accounts \ {a} : k.burnt[x] = l.burnt[x]
  BY <1>1, <1>2
<1>4. IsBook(k)
  BY <1>2, <1>3 DEF IsBook
<1> HIDE DEF k
<1>5. /\ \A x \in Accounts : l.burnt[x] \in Int
      /\ \A x \in Accounts \cup {a} : k.burnt[x] \in Int
  BY <1>1, <1>3
<1>6. SumFunctionOnSet(k.burnt, Accounts \cup {a})
          = SumFunctionOnSet(l.burnt, Accounts) + k.burnt[a] - l.burnt[a]
  <2>1. PICK v, w, S : v = l.burnt /\ w = k.burnt /\ S = Accounts
    OBVIOUS
  <2>2. \A x \in S : v[x] \in Int
    BY <1>5, <2>1
  <2>3. \A x \in S \cup {a} : w[x] \in Int
    BY <1>5, <2>1
  <2>4. \A x \in S \ {a} : w[x] = v[x]
    BY <1>3, <2>1
  <2>5. IsFiniteSet(S) /\ a \in S
    BY <2>1, AccountsFinite
  <2>6. SumFunctionOnSet(w, S \cup {a}) = SumFunctionOnSet(v, S) + w[a] - v[a]
    BY <2>2, <2>3, <2>4, <2>5, SumChange
  <2> QED
    BY <2>1, <2>6
<1>7. Accounts \cup {a} = Accounts
  OBVIOUS
<1>8. /\ TotalBurnt(k) = SumFunctionOnSet(k.burnt, Accounts) /\ TotalBurnt(k) \in Nat
      /\ TotalBurnt(l) = SumFunctionOnSet(l.burnt, Accounts) /\ TotalBurnt(l) \in Nat
  BY <1>4, BooksAreLedgers
<1>9. TotalBurnt(k) = TotalBurnt(l) + gas
  <2>1. k.burnt[a] = l.burnt[a] + gas /\ l.burnt[a] \in Nat
    BY <1>1, <1>3
  <2>2. TotalBurnt(k) = TotalBurnt(l) + k.burnt[a] - l.burnt[a]
    BY <1>6, <1>7, <1>8
  <2> QED
    BY <1>8, <2>1, <2>2
<1>10. Spent(k) = Spent(l) + gas
  BY <1>2, <1>8, <1>9 DEF Spent, IsBook
<1>11. Grows(k, l)
  <2>1. \A x \in Accounts : l.burnt[x] <= k.burnt[x]
    BY <1>1, <1>3
  <2> QED
    BY <1>2, <2>1 DEF Grows, IsBook
<1>12. k = Burn(l, a, gas)
  BY DEF k
<1> QED
  BY <1>2, <1>3, <1>4, <1>10, <1>11, <1>12 DEF BurntBy

\* k is l with gas forwarded to another shard, or sent unfunded.
ForwardedFrom(k, l, gas) ==
    /\ IsBook(k) /\ Grows(k, l) /\ Spent(k) = Spent(l) + gas
    /\ k.burnt = l.burnt
    /\ k.forwarded = l.forwarded + gas /\ k.unfunded = l.unfunded
    /\ k.unchecked = l.unchecked

LEMMA Forwarding ==
    ASSUME NEW l, IsBook(l), NEW gas \in Nat,
           NEW k, k = [l EXCEPT !.forwarded = @ + gas]
    PROVE  ForwardedFrom(k, l, gas)
<1>1. /\ DOMAIN k = DOMAIN l /\ k.burnt = l.burnt
      /\ k.forwarded = l.forwarded + gas /\ k.unfunded = l.unfunded
      /\ k.unchecked = l.unchecked
  BY DEF IsBook
<1>2. IsBook(k)
  BY <1>1 DEF IsBook
<1>3. TotalBurnt(k) = TotalBurnt(l) /\ TotalBurnt(l) \in Nat
  BY <1>1, BooksAreLedgers DEF TotalBurnt
<1>4. \A a \in Accounts : l.burnt[a] \in Nat
  BY BooksAreLedgers
<1>5. Grows(k, l)
  BY <1>1, <1>4 DEF Grows, IsBook
<1>6. Spent(k) = Spent(l) + gas
  BY <1>1, <1>3 DEF Spent, IsBook
<1> QED
  BY <1>1, <1>2, <1>5, <1>6 DEF ForwardedFrom

\* k is l with no other gas in it; it may be less sound.
SameGas(k, l) ==
    /\ IsBook(k) /\ Grows(k, l) /\ Spent(k) = Spent(l) /\ k.burnt = l.burnt
    /\ k.forwarded = l.forwarded

LEMMA UnfundedGas ==
    ASSUME NEW l, IsBook(l), NEW gas \in Nat,
           NEW k, k = [l EXCEPT !.unfunded = @ + gas]
    PROVE  SameGas(k, l) /\ (Sound(k) => gas = 0 /\ Sound(l))
<1>1. /\ DOMAIN k = DOMAIN l /\ k.burnt = l.burnt
      /\ k.forwarded = l.forwarded /\ k.unfunded = l.unfunded + gas
      /\ k.unchecked = l.unchecked
  BY DEF IsBook
<1>2. IsBook(k)
  BY <1>1 DEF IsBook
<1>4. \A a \in Accounts : l.burnt[a] \in Nat
  BY BooksAreLedgers
<1>5. Grows(k, l)
  BY <1>1, <1>4 DEF Grows, IsBook
<1>6. Spent(k) = Spent(l)
  BY <1>1 DEF Spent, TotalBurnt
<1> QED
  BY <1>1, <1>2, <1>5, <1>6 DEF SameGas, Sound, IsBook

LEMMA UncheckedGas ==
    ASSUME NEW l, IsBook(l), NEW failed \in BOOLEAN,
           NEW k, k = [l EXCEPT !.unchecked = @ \/ failed]
    PROVE  SameGas(k, l) /\ (Sound(k) => ~failed /\ Sound(l))
<1>1. /\ DOMAIN k = DOMAIN l /\ k.burnt = l.burnt
      /\ k.forwarded = l.forwarded /\ k.unfunded = l.unfunded
      /\ k.unchecked = (l.unchecked \/ failed)
  BY DEF IsBook
<1>2. IsBook(k)
  BY <1>1 DEF IsBook
<1>4. \A a \in Accounts : l.burnt[a] \in Nat
  BY BooksAreLedgers
<1>5. Grows(k, l)
  BY <1>1, <1>4 DEF Grows, IsBook
<1>6. Spent(k) = Spent(l)
  BY <1>1 DEF Spent, TotalBurnt
<1> QED
  BY <1>1, <1>2, <1>5, <1>6 DEF SameGas, Sound, IsBook

LEMMA GrowsTransitive ==
    ASSUME NEW j, IsBook(j), NEW k, IsBook(k), NEW l, IsBook(l),
           Grows(l, k), Grows(k, j)
    PROVE  Grows(l, j)
<1>1. \A a \in Accounts : j.burnt[a] \in Nat /\ k.burnt[a] \in Nat /\ l.burnt[a] \in Nat
  BY BooksAreLedgers
<1>2. \A a \in Accounts : j.burnt[a] <= l.burnt[a]
  BY <1>1 DEF Grows
<1> QED
  BY <1>2 DEF Grows, IsBook

\* What is sound now was sound before.
LEMMA SoundBefore ==
    ASSUME NEW k, IsBook(k), NEW l, IsBook(l), Grows(l, k)
    PROVE  (Sound(l) => Sound(k)) /\ (Inside(l) => Inside(k) /\ Sound(l))
  BY DEF Grows, Sound, Inside, IsBook

-----------------------------------------------------------------------------
(* Gas in the output transfers.                                             *)

LEMMA TransferSeqs ==
    ASSUME NEW t \in Seq(Transfers)
    PROVE  /\ DOMAIN t = 1 .. Len(t) /\ Len(t) \in Nat
           /\ \A i \in 1 .. Len(t) : t[i] \in Transfers
  BY LenProperties, ElementOfSeq

LEMMA NothingSent ==
    /\ ~GasSent(<< >>) /\ Carriers(newVMOutput) = {}
    /\ << >> \in Seq(Transfers)
<1>1. << >> \in Seq(Transfers) /\ Len(<< >>) = 0
  BY EmptySeq
<1>2. DOMAIN << >> = {}
  BY <1>1, TransferSeqs
<1> QED
  BY <1>1, <1>2, NewOutputs DEF GasSent, Carriers

LEMMA ConcatSent ==
    ASSUME NEW t \in Seq(Transfers), NEW u \in Seq(Transfers), GasSent(t \o u)
    PROVE  GasSent(t) \/ GasSent(u)
<1>1. /\ t \o u \in Seq(Transfers) /\ Len(t \o u) = Len(t) + Len(u)
      /\ \A i \in 1 .. Len(t) + Len(u) : (t \o u)[i] =
            IF i <= Len(t) THEN t[i] ELSE u[i - Len(t)]
  BY ConcatProperties
<1>2. DOMAIN t = 1 .. Len(t) /\ Len(t) \in Nat /\ DOMAIN u = 1 .. Len(u) /\ Len(u) \in Nat
  BY TransferSeqs
<1>3. PICK i \in 1 .. Len(t) + Len(u) :
          (t \o u)[i].gasLimit + (t \o u)[i].gasLocked # 0
  BY <1>1, TransferSeqs DEF GasSent
<1>4. CASE i <= Len(t)
  <2>1. i \in DOMAIN t /\ (t \o u)[i] = t[i]
    BY <1>1, <1>2, <1>4
  <2> QED
    BY <1>3, <2>1 DEF GasSent
<1>5. CASE ~(i <= Len(t))
  <2>1. i - Len(t) \in DOMAIN u /\ (t \o u)[i] = u[i - Len(t)]
    BY <1>1, <1>2, <1>5
  <2> QED
    BY <1>3, <2>1 DEF GasSent
<1> QED
  BY <1>4, <1>5

LEMMA SubSeqSent ==
    ASSUME NEW r \in Seq(Transfers), NEW m \in Nat \ {0},
           GasSent(SubSeq(r, m, Len(r)))
    PROVE  GasSent(r)
<1>1. DOMAIN r = 1 .. Len(r) /\ Len(r) \in Nat /\ \A i \in m .. Len(r) : r[i] \in Transfers
  BY TransferSeqs
<1>2. /\ SubSeq(r, m, Len(r)) \in Seq(Transfers)
      /\ Len(SubSeq(r, m, Len(r))) = IF m <= Len(r) THEN Len(r) - m + 1 ELSE 0
      /\ \A i \in 1 .. Len(r) - m + 1 : SubSeq(r, m, Len(r))[i] = r[m + i - 1]
  <2>1. m \in Int /\ Len(r) \in Int
    BY <1>1
  <2> QED
    BY <1>1, <2>1, SubSeqProperties
<1>3. PICK s : s = SubSeq(r, m, Len(r))
  OBVIOUS
<1>4. PICK i \in 1 .. Len(s) : s[i].gasLimit + s[i].gasLocked # 0
  BY <1>2, <1>3, TransferSeqs DEF GasSent
<1>5. i \in 1 .. Len(r) - m + 1 /\ m + i - 1 \in DOMAIN r
  BY <1>1, <1>2, <1>3, <1>4
<1>6. s[i] = r[m + i - 1]
  BY <1>2, <1>3, <1>5
<1> QED
  BY <1>4, <1>5, <1>6 DEF GasSent

LEMMA AppendSent ==
    ASSUME NEW t \in Seq(Transfers), NEW e \in Transfers, GasSent(Append(t, e))
    PROVE  GasSent(t) \/ e.gasLimit + e.gasLocked # 0
<1>1. /\ Append(t, e) \in Seq(Transfers) /\ Len(Append(t, e)) = Len(t) + 1
      /\ \A i \in 1 .. Len(t) : Append(t, e)[i] = t[i]
      /\ Append(t, e)[Len(t) + 1] = e
  BY AppendProperties
<1>2. DOMAIN t = 1 .. Len(t) /\ Len(t) \in Nat
  BY TransferSeqs
<1>3. PICK i \in 1 .. Len(t) + 1 : Append(t, e)[i].gasLimit + Append(t, e)[i].gasLocked # 0
  BY <1>1, TransferSeqs DEF GasSent
<1>4. i \in 1 .. Len(t) \/ i = Len(t) + 1
  BY <1>2
<1> QED
  BY <1>1, <1>2, <1>3, <1>4 DEF GasSent

\* The gas of transfers that carry none.
LEMMA NoGasTransferred ==
    ASSUME NEW account \in AccountType, ~GasSent(account.outputTransfers)
    PROVE  getGasTransferredByAccount(account) = 0
<1> DEFINE t == account.outputTransfers
           w == [i \in DOMAIN t |-> t[i].gasLimit + t[i].gasLocked]
<1>1. t \in Seq(Transfers)
  BY DEF AccountType
<1>2. DOMAIN t = 1 .. Len(t) /\ Len(t) \in Nat
  BY <1>1, TransferSeqs
<1>3. DOMAIN w = DOMAIN t /\ \A i \in DOMAIN t : w[i] = 0
  BY DEF GasSent
<1>4. IsFiniteSet(DOMAIN t)
  BY <1>2, FS_Interval
<1>5. getGasTransferredByAccount(account) = SumFunctionOnSet(w, DOMAIN w)
  BY DEF getGasTransferredByAccount, SumFunction
<1> HIDE DEF t, w
<1>6. PICK S : S = DOMAIN t
  OBVIOUS
<1>7. {} \in SUBSET S /\ \A i \in S : w[i] \in Int
  BY <1>3, <1>6
<1>8. SumFunctionOnSet(w, S) = SumFunctionOnSet(w, {})
  BY <1>3, <1>4, <1>6, <1>7, SumZeros
<1> QED
  BY <1>3, <1>5, <1>6, <1>8, SumEmpty

\* An account is replaced.
LEMMA CarriersSet ==
    ASSUME NEW o, IsOutput(o), NEW a \in Accounts, NEW account \in AccountType
    PROVE  Carriers(SetOutputAccount(o, a, account)) \subseteq
               Carriers(o) \cup (IF GasSent(account.outputTransfers) THEN {a} ELSE {})
<1>1. PICK p : p = SetOutputAccount(o, a, account)
  OBVIOUS
<1>2. AccountSet(p, o, a, account)
  BY <1>1, SetAccount
<1>3. ASSUME NEW x \in Carriers(p)
      PROVE  x \in Carriers(o) \cup (IF GasSent(account.outputTransfers) THEN {a} ELSE {})
  BY <1>2, <1>3 DEF Carriers, AccountSet
<1> QED
  BY <1>1, <1>3

LEMMA SameTransfersSet ==
    ASSUME NEW o, IsOutput(o), NEW a \in Accounts, NEW account \in AccountType,
           account.outputTransfers = GetOutputAccount(o, a).outputTransfers
    PROVE  Carriers(SetOutputAccount(o, a, account)) \subseteq Carriers(o)
<1>1. GasSent(account.outputTransfers) => a \in Carriers(o)
  BY NothingSent DEF Carriers, GetOutputAccount, NewVMOutputAccount
<1> QED
  BY <1>1, CarriersSet

LEMMA CarriersOfTransfer ==
    ASSUME NEW o, IsOutput(o), NEW dest \in Accounts, NEW gasLimit \in Nat,
           NEW gasLocked \in Nat
    PROVE  Carriers(WithOutputTransfer(o, dest, gasLimit, gasLocked)) \subseteq
               Carriers(o) \cup (IF gasLimit + gasLocked = 0 THEN {} ELSE {dest})
<1>1. PICK account, e : /\ account = GetOutputAccount(o, dest)
                        /\ e = [gasLimit |-> gasLimit, gasLocked |-> gasLocked]
  OBVIOUS
<1>2. account \in AccountType /\ e \in Transfers
  BY <1>1, GotAccount DEF Transfers
<1>3. PICK t, added : /\ t = account.outputTransfers
                      /\ added = [account EXCEPT !.outputTransfers = Append(@, e)]
  OBVIOUS
<1>4. t \in Seq(Transfers) /\ Append(t, e) \in Seq(Transfers)
  BY <1>2, <1>3, AppendProperties DEF AccountType
<1>5. added \in AccountType /\ added.outputTransfers = Append(t, e)
  BY <1>2, <1>3, <1>4 DEF AccountType
<1>6. WithOutputTransfer(o, dest, gasLimit, gasLocked) = SetOutputAccount(o, dest, added)
  BY <1>1, <1>3 DEF WithOutputTransfer
<1>7. GasSent(t) => dest \in Carriers(o)
  BY <1>1, <1>3, NothingSent DEF Carriers, GetOutputAccount, NewVMOutputAccount
<1>8. GasSent(added.outputTransfers) => dest \in Carriers(o) \/ gasLimit + gasLocked # 0
  BY <1>1, <1>2, <1>4, <1>5, <1>7, AppendSent
<1> QED
  BY <1>5, <1>6, <1>8, CarriersSet

LEMMA CarriersOfBalance ==
    ASSUME NEW o, IsOutput(o), NEW a \in Accounts, NEW v \in Int
    PROVE  IsOutput(AddBalance(o, a, v)) /\ Carriers(AddBalance(o, a, v)) \subseteq Carriers(o)
<1>1. PICK account : account = GetOutputAccount(o, a)
  OBVIOUS
<1>2. account \in AccountType
  BY <1>1, GotAccount
<1>3. PICK added : added = [account EXCEPT !.balanceDelta = @ + v]
  OBVIOUS
<1>4. added \in AccountType /\ added.outputTransfers = account.outputTransfers
  BY <1>2, <1>3 DEF AccountType
<1>5. AddBalance(o, a, v) = SetOutputAccount(o, a, added)
  BY <1>1, <1>3 DEF AddBalance
<1> QED
  BY <1>1, <1>4, <1>5, SameTransfersSet, SetAccount DEF AccountSet

LEMMA SameEffectsCarry ==
    ASSUME NEW o, NEW p, Effects(p) = Effects(o)
    PROVE  Carriers(p) = Carriers(o)
<1>1. DOMAIN p.accounts = DOMAIN o.accounts
  <2>1. DOMAIN Effects(p) = DOMAIN p.accounts /\ DOMAIN Effects(o) = DOMAIN o.accounts
    BY DEF Effects
  <2> QED
    BY <2>1
<1>2. ASSUME NEW a \in DOMAIN o.accounts
      PROVE  p.accounts[a].outputTransfers = o.accounts[a].outputTransfers
  <2>1. /\ Effects(p)[a].outputTransfers = p.accounts[a].outputTransfers
        /\ Effects(o)[a].outputTransfers = o.accounts[a].outputTransfers
    BY <1>1 DEF Effects
  <2> QED
    BY <2>1
<1> QED
  BY <1>1, <1>2 DEF Carriers

LEMMA CarriersOfMerge ==
    ASSUME NEW l, IsOutput(l), NEW r, IsOutput(r)
    PROVE  Carriers(mergeVMOutputs(l, r)) \subseteq Carriers(l) \cup Carriers(r)
<1>0. PICK p : p = mergeVMOutputs(l, r)
  OBVIOUS
<1>1. /\ DOMAIN p.accounts = DOMAIN l.accounts \cup DOMAIN r.accounts
      /\ \A a \in DOMAIN r.accounts : p.accounts[a] =
            mergeOutputAccounts(GetOutputAccount(l, a), r.accounts[a])
      /\ \A a \in DOMAIN l.accounts \ DOMAIN r.accounts :
            p.accounts[a] = l.accounts[a]
  BY <1>0 DEF mergeVMOutputs
<1>2. ASSUME NEW a \in DOMAIN r.accounts, GasSent(p.accounts[a].outputTransfers)
      PROVE  a \in Carriers(l) \cup Carriers(r)
  <2>1. PICK x, y : x = GetOutputAccount(l, a) /\ y = r.accounts[a]
    OBVIOUS
  <2>2. x \in AccountType /\ y \in AccountType
    BY <2>1, GotAccount DEF IsOutput
  <2>3. PICK t, u : t = x.outputTransfers /\ u = y.outputTransfers
    OBVIOUS
  <2>4. t \in Seq(Transfers) /\ u \in Seq(Transfers) /\ Len(t) \in Nat
    BY <2>2, <2>3, TransferSeqs DEF AccountType
  <2>5. p.accounts[a].outputTransfers = t \o SubSeq(u, Len(t) + 1, Len(u))
    <3>1. p.accounts[a] = mergeOutputAccounts(x, y)
      BY <1>1, <2>1
    <3>2. mergeOutputAccounts(x, y).outputTransfers =
              x.outputTransfers \o SubSeq(y.outputTransfers,
                  Len(x.outputTransfers) + 1, Len(y.outputTransfers))
      BY DEF mergeOutputAccounts
    <3> QED
      BY <2>3, <3>1, <3>2
  <2>6. SubSeq(u, Len(t) + 1, Len(u)) \in Seq(Transfers)
    <3>1. Len(t) + 1 \in Int /\ Len(u) \in Int /\ \A i \in Len(t) + 1 .. Len(u) : u[i] \in Transfers
      BY <2>4, TransferSeqs
    <3> QED
      BY <3>1, SubSeqProperties
  <2>7. GasSent(t) \/ GasSent(SubSeq(u, Len(t) + 1, Len(u)))
    BY <1>2, <2>4, <2>5, <2>6, ConcatSent
  <2>8. Len(t) + 1 \in Nat \ {0}
    BY <2>4
  <2>9. GasSent(t) \/ GasSent(u)
    BY <2>4, <2>7, <2>8, SubSeqSent
  <2>10. GasSent(t) => a \in Carriers(l)
    BY <2>1, <2>3, NothingSent DEF Carriers, GetOutputAccount, NewVMOutputAccount
  <2> QED
    BY <2>1, <2>3, <2>9, <2>10 DEF Carriers
<1>3. ASSUME NEW a \in Carriers(p) PROVE a \in Carriers(l) \cup Carriers(r)
  <2>1. a \in DOMAIN p.accounts /\ GasSent(p.accounts[a].outputTransfers)
    BY <1>3 DEF Carriers
  <2>2. CASE a \in DOMAIN r.accounts
    BY <1>2, <2>1, <2>2
  <2>3. CASE a \notin DOMAIN r.accounts
    BY <1>1, <2>1, <2>3 DEF Carriers
  <2> QED
    BY <2>2, <2>3
<1> QED
  BY <1>0, <1>3

\* The output of a built-in function is merged.
LEMMA CarriersOfActiveState ==
    ASSUME NEW h, IsHost(h), NEW right, ZeroOutput(right)
    PROVE  /\ SameBut(AddToActiveState(h, right), h, {"output"})
           /\ Carriers(AddToActiveState(h, right).output)
                  \subseteq Carriers(h.output) \cup Carriers(right)
<1>1. PICK o : o = h.output
  OBVIOUS
<1>2. IsOutput(o) /\ IsOutput(right)
  BY <1>1 DEF IsHost, IdleHost, ZeroOutput
<1>3. PICK l, r : l = JoinedLeft(o, right) /\ r = JoinedRight(o, right)
  OBVIOUS
<1>4. PICK left, added : left = WithAccounts(o, l) /\ added = WithAccounts(right, r)
  OBVIOUS
<1>5. PICK p : p = mergeVMOutputs(left, added)
  OBVIOUS
<1>6. AddToActiveState(h, right) = WithOutput(h, p)
  <2>1. AddToActiveState(h, right) =
          WithOutput(h, mergeVMOutputs(
              WithAccounts(h.output, JoinedLeft(h.output, right)),
              WithAccounts(right, JoinedRight(h.output, right))))
    BY DEF AddToActiveState, WithOutput, WithAccounts, JoinedLeft, JoinedRight, Joined
  <2> QED
    BY <1>1, <1>3, <1>4, <1>5, <2>1
<1>7. /\ left.accounts = l /\ DOMAIN left = OutputFields /\ left.gasRemaining = o.gasRemaining
      /\ added.accounts = r /\ DOMAIN added = OutputFields
      /\ added.gasRemaining = right.gasRemaining
  BY <1>2, <1>4 DEF IsOutput, OutputFields, WithAccounts
<1>8. ASSUME NEW a \in DOMAIN o.accounts
      PROVE  /\ left.accounts[a] \in AccountType
             /\ GasSent(left.accounts[a].outputTransfers)
                   => a \in Carriers(o) \cup Carriers(right)
  <2>1. o.accounts[a] \in AccountType
    BY <1>2 DEF IsOutput
  <2>2. CASE a \in Joined(o, right)
    <3>1. PICK x, y : x = o.accounts[a] /\ y = right.accounts[a].outputTransfers
      OBVIOUS
    <3>2. x \in AccountType /\ x.outputTransfers \in Seq(Transfers) /\ y \in Seq(Transfers)
      BY <1>2, <2>1, <2>2, <3>1 DEF IsOutput, AccountType, Joined
    <3>3. x.outputTransfers \o y \in Seq(Transfers)
      BY <3>2, ConcatProperties
    <3>4. left.accounts[a] = [x EXCEPT !.outputTransfers = @ \o y]
      BY <1>3, <1>7, <2>2, <3>1 DEF JoinedLeft
    <3>5. /\ left.accounts[a] \in AccountType
          /\ left.accounts[a].outputTransfers = x.outputTransfers \o y
      BY <3>2, <3>3, <3>4 DEF AccountType
    <3>6. GasSent(x.outputTransfers \o y) => GasSent(x.outputTransfers) \/ GasSent(y)
      BY <3>2, ConcatSent
    <3>7. a \in DOMAIN right.accounts
      BY <2>2 DEF Joined
    <3> QED
      BY <3>1, <3>5, <3>6, <3>7 DEF Carriers
  <2>3. CASE a \notin Joined(o, right)
    <3>1. left.accounts[a] = o.accounts[a]
      BY <1>3, <1>7, <2>3 DEF JoinedLeft
    <3> QED
      BY <2>1, <3>1 DEF Carriers
  <2> QED
    BY <2>2, <2>3
<1>9. ASSUME NEW a \in DOMAIN right.accounts
      PROVE  /\ added.accounts[a] \in AccountType
             /\ added.accounts[a].outputTransfers = right.accounts[a].outputTransfers
  <2>1. right.accounts[a] \in AccountType
    BY <1>2 DEF IsOutput
  <2>2. CASE a \in Joined(o, right)
    <3>1. PICK x, d : x = right.accounts[a] /\ d = o.accounts[a].balanceDelta
      OBVIOUS
    <3>2. x \in AccountType /\ d \in Int
      BY <1>2, <2>1, <2>2, <3>1 DEF IsOutput, AccountType, Joined
    <3>3. added.accounts[a] = [x EXCEPT !.balanceDelta = @ + d]
      BY <1>3, <1>7, <2>2, <3>1 DEF JoinedRight
    <3> QED
      BY <3>1, <3>2, <3>3 DEF AccountType
  <2>3. CASE a \notin Joined(o, right)
    <3>1. added.accounts[a] = right.accounts[a]
      BY <1>3, <1>7, <2>3 DEF JoinedRight
    <3> QED
      BY <2>1, <3>1
  <2> QED
    BY <2>2, <2>3
<1>10. DOMAIN left.accounts = DOMAIN o.accounts /\ DOMAIN added.accounts = DOMAIN right.accounts
  BY <1>3, <1>7 DEF JoinedLeft, JoinedRight
<1>11. IsOutput(left) /\ IsOutput(added)
  BY <1>2, <1>7, <1>8, <1>9, <1>10 DEF IsOutput
<1>12. Carriers(p) \subseteq Carriers(left) \cup Carriers(added)
  BY <1>5, <1>11, CarriersOfMerge
<1>13. Carriers(left) \subseteq Carriers(o) \cup Carriers(right)
  BY <1>8, <1>10 DEF Carriers
<1>14. Carriers(added) \subseteq Carriers(right)
  BY <1>9, <1>10 DEF Carriers
<1>15. SameBut(WithOutput(h, p), h, {"output"}) /\ WithOutput(h, p).output = p
  BY DEF SameBut, WithOutput, HostFields, IsHost, IdleHost
<1> QED
  BY <1>1, <1>6, <1>12, <1>13, <1>14, <1>15

-----------------------------------------------------------------------------
(* The accounting at the end of an execution.                               *)

LEMMA UsedIsNat ==
    ASSUME NEW m, IsMetering(m)
    PROVE  \A a : GasUsedBy(m, a) \in Nat
  BY DEF IsMetering, IsGasUsed, GasUsedBy

\* g has the metering state of h but for the gas used by accounts.
SameMetering(g, h) ==
    /\ g.metering.initialGasProvided = h.metering.initialGasProvided
    /\ g.metering.initialCost = h.metering.initialCost
    /\ g.metering.gasForExecution = h.metering.gasForExecution

LEMMA OthersSame ==
    ASSUME NEW g, NEW h, g.runtime.scAddress = h.runtime.scAddress,
           DOMAIN g.output.accounts = DOMAIN h.output.accounts,
           \A a \in DOMAIN h.output.accounts :
               g.output.accounts[a].outputTransfers = h.output.accounts[a].outputTransfers,
           \A a : a # h.runtime.scAddress =>
               GasUsedBy(g.metering, a) = GasUsedBy(h.metering, a)
    PROVE  getGasUsedByAllOtherAccounts(g) = getGasUsedByAllOtherAccounts(h)
<1> DEFINE D == DOMAIN h.output.accounts
           s == h.runtime.scAddress
           T(x, a) == getGasTransferredByAccount(x.output.accounts[a])
           U(x, a) == IF a # s THEN GasUsedBy(x.metering, a) ELSE 0
<1>1. \A a \in D : T(g, a) = T(h, a)
  BY DEF getGasTransferredByAccount
<1>2. \A a \in D : U(g, a) = U(h, a)
  OBVIOUS
<1>3. /\ getGasUsedByAllOtherAccounts(g) = SumFunction([a \in D |-> U(g, a) + T(g, a)])
      /\ getGasUsedByAllOtherAccounts(h) = SumFunction([a \in D |-> U(h, a) + T(h, a)])
  BY DEF getGasUsedByAllOtherAccounts
<1> HIDE DEF D, T, U
<1>4. [a \in D |-> U(g, a) + T(g, a)] = [a \in D |-> U(h, a) + T(h, a)]
  BY <1>1, <1>2
<1> QED
  BY <1>3, <1>4

\* What updateSCGasUsed makes of h, with the contract s.
GasUpdated(g, h, s) ==
    /\ IsHost(g) /\ SameBut(g, h, {"output", "metering"}) /\ SameMetering(g, h)
    /\ s \in DOMAIN g.output.accounts
    /\ Carriers(g.output) \subseteq Carriers(h.output)
    /\ g.output.gasRemaining = h.output.gasRemaining
    /\ \A a : a # s => GasUsedBy(g.metering, a) = GasUsedBy(h.metering, a)
    /\ s \notin Carriers(h.output) =>
          GasUsedBy(g.metering, s) =
              SubUint64(GasSpentByContract(h), getGasUsedByAllOtherAccounts(g))

LEMMA GasUpdate ==
    ASSUME NEW h, IsHost(h), NEW s, s = h.runtime.scAddress
    PROVE  GasUpdated(updateSCGasUsed(h), h, s)
<1>2. s \in Accounts /\ IsOutput(h.output)
  BY DEF IsHost, IdleHost, RuntimeType
<1>3. PICK account : account = GetOutputAccount(h.output, s)
  OBVIOUS
<1>4. account \in AccountType /\ account.balanceDelta = DeltaOf(h.output, s)
  BY <1>2, <1>3, GotAccount DEF DeltaOf
<1>5. PICK o : o = SetOutputAccount(h.output, s, account)
  OBVIOUS
<1>6. Carries(o, h.output) /\ AccountSet(o, h.output, s, account)
  BY <1>2, <1>4, <1>5, SetCarries, SetAccount
<1>7. PICK h1 : h1 = WithOutput(h, o)
  OBVIOUS
<1>8. SameBut(h1, h, {"output"}) /\ h1.output = o /\ KeptHere(h1, h)
  BY <1>6, <1>7, OutputReplaced
<1>9. IsHost(h1) /\ IsOutput(h1.output) /\ IsMetering(h1.metering)
  BY <1>8 DEF KeptHere, Kept, IsHost, IdleHost
<1>10. PICK gasUsed : gasUsed =
           SubUint64(SubUint64(GasSpentByContract(h1), getGasTransferredByAccount(account)),
                     getGasUsedByAllOtherAccounts(h1))
  OBVIOUS
<1>12. PICK u : u = [x \in DOMAIN h1.metering.gasUsedByAccounts \cup {s} |->
                        IF x = s THEN gasUsed ELSE h1.metering.gasUsedByAccounts[x]]
  OBVIOUS
<1>14. PICK m : m = [h1.metering EXCEPT !.gasUsedByAccounts = u]
  OBVIOUS
<1>16. PICK g : g = [h1 EXCEPT !.metering = m]
  OBVIOUS
<1>17. updateSCGasUsed(h) = g
  BY <1>3, <1>5, <1>7, <1>10, <1>12, <1>14, <1>16 DEF updateSCGasUsed, WithOutput
<1>18. SameBut(g, h1, {"metering"}) /\ g.metering = m
  BY <1>9, <1>16 DEF SameBut, HostFields, IsHost, IdleHost
<1>19. IsHost(g)
  BY <1>17, UsedGasUpdated DEF KeptHere, Kept
<1>20. SameBut(g, h, {"output", "metering"}) /\ g.output = o /\ g.runtime = h.runtime
  BY <1>8, <1>18 DEF SameBut, HostFields
<1>21. /\ h1.metering = h.metering /\ h1.instance = h.instance /\ h1.points = h.points
       /\ h1.runtime = h.runtime
  BY <1>8 DEF SameBut, HostFields
<1>22. /\ m.gasUsedByAccounts = u /\ SameMetering(g, h)
  BY <1>9, <1>14, <1>18, <1>21 DEF SameMetering, IsMetering, MeteringFields
<1>23. /\ GasUsedBy(g.metering, s) = gasUsed
       /\ \A a : a # s => GasUsedBy(g.metering, a) = GasUsedBy(h.metering, a)
  BY <1>12, <1>18, <1>21, <1>22 DEF GasUsedBy
<1>24. Carriers(o) \subseteq Carriers(h.output)
  BY <1>2, <1>3, <1>4, <1>5, SameTransfersSet
<1>25. getGasUsedByAllOtherAccounts(g) = getGasUsedByAllOtherAccounts(h1)
  <2>1. /\ g.runtime.scAddress = h1.runtime.scAddress /\ g.output = h1.output
        /\ \A a : a # h1.runtime.scAddress =>
               GasUsedBy(g.metering, a) = GasUsedBy(h1.metering, a)
    BY <1>8, <1>20, <1>21, <1>23
  <2> QED
    BY <2>1, OthersSame
<1>26. GasSpentByContract(h1) = GasSpentByContract(h)
  BY <1>21 DEF GasSpentByContract, GetPointsUsed
<1>27. ASSUME s \notin Carriers(h.output)
       PROVE  gasUsed = SubUint64(GasSpentByContract(h), getGasUsedByAllOtherAccounts(g))
  <2>1. ~GasSent(account.outputTransfers)
    BY <1>3, <1>27, NothingSent DEF Carriers, GetOutputAccount, NewVMOutputAccount
  <2>2. getGasTransferredByAccount(account) = 0
    BY <1>4, <2>1, NoGasTransferred
  <2>3. GasSpentByContract(h) \in Nat
    BY GasIsNat
  <2>4. SubUint64(GasSpentByContract(h), 0) = GasSpentByContract(h)
    BY <2>3 DEF SubUint64
  <2> QED
    BY <1>10, <1>25, <1>26, <2>2, <2>4
<1>28. s \in DOMAIN g.output.accounts /\ g.output.gasRemaining = h.output.gasRemaining
  BY <1>6, <1>20 DEF AccountSet
<1>29. GasUpdated(g, h, s)
  BY <1>19, <1>20, <1>22, <1>23, <1>24, <1>27, <1>28 DEF GasUpdated
<1> QED
  BY <1>17, <1>29

\* setGasUsedToOutputAccounts.
GasSetFrom(g, h) ==
    /\ IsHost(g) /\ SameBut(g, h, {"output"})
    /\ DOMAIN g.output.accounts = DOMAIN h.output.accounts
    /\ \A a \in DOMAIN h.output.accounts :
          /\ g.output.accounts[a].gasUsed = GasUsedBy(h.metering, a)
          /\ g.output.accounts[a].outputTransfers = h.output.accounts[a].outputTransfers
    /\ g.output.gasRemaining = h.output.gasRemaining
    /\ Carriers(g.output) = Carriers(h.output)

LEMMA GasSet ==
    ASSUME NEW h, IsHost(h)
    PROVE  GasSetFrom(setGasUsedToOutputAccounts(h), h)
<1>1. PICK acc : acc = [a \in DOMAIN h.output.accounts |->
                  [h.output.accounts[a] EXCEPT !.gasUsed = GasUsedBy(h.metering, a)]]
  OBVIOUS
<1>2. PICK o : o = [h.output EXCEPT !.accounts = acc]
  OBVIOUS
<1>3. IsOutput(h.output)
  BY DEF IsHost, IdleHost
<1>4. o.accounts = acc /\ o.gasRemaining = h.output.gasRemaining
  BY <1>2, <1>3 DEF IsOutput, OutputFields
<1>5. DOMAIN acc = DOMAIN h.output.accounts
  BY <1>1
<1>6. \A a \in DOMAIN acc :
          /\ acc[a].gasUsed = GasUsedBy(h.metering, a)
          /\ acc[a].outputTransfers = h.output.accounts[a].outputTransfers
  BY <1>1, <1>3 DEF IsOutput, AccountType
<1>7. PICK g : g = WithOutput(h, o)
  OBVIOUS
<1>8. SameBut(g, h, {"output"}) /\ g.output = o
  BY <1>7 DEF SameBut, WithOutput, HostFields, IsHost, IdleHost
<1>9. setGasUsedToOutputAccounts(h) = g
  BY <1>1, <1>2, <1>7 DEF setGasUsedToOutputAccounts, WithOutput
<1>10. IsHost(g)
  BY <1>9, UsedGasSet DEF KeptHere, Kept
<1>11. Carriers(g.output) = Carriers(h.output)
  BY <1>4, <1>5, <1>6, <1>8 DEF Carriers
<1> QED
  BY <1>4, <1>5, <1>6, <1>8, <1>9, <1>10, <1>11 DEF GasSetFrom

\* The gas of all accounts is that of the contract s and that of the others.
LEMMA TotalAndOthers ==
    ASSUME NEW h, IsHost(h), NEW s, s = h.runtime.scAddress, s \in DOMAIN h.output.accounts,
           \A a \in DOMAIN h.output.accounts :
               h.output.accounts[a].gasUsed = GasUsedBy(h.metering, a)
    PROVE  /\ getGasUsedByAllOtherAccounts(h) \in Nat
           /\ getCurrentTotalUsedGas(h)
                 = getGasUsedByAllOtherAccounts(h) + GasUsedBy(h.metering, s)
<1> DEFINE D == DOMAIN h.output.accounts
           T(a) == getGasTransferredByAccount(h.output.accounts[a])
           U(a) == GasUsedBy(h.metering, a)
           O(a) == IF a # s THEN U(a) ELSE 0
           v == [a \in D |-> O(a) + T(a)]
           w == [a \in D |-> h.output.accounts[a].gasUsed + T(a)]
<1>1. IsOutput(h.output) /\ IsMetering(h.metering) /\ IsFiniteSet(D)
  BY DEF IsHost, IdleHost, IsOutput
<1>2. \A a \in D : T(a) \in Nat
  BY <1>1, TransferredGasIsNat DEF IsOutput
<1>3. \A a \in D : U(a) \in Nat
  BY <1>1, UsedIsNat
<1>4. /\ getGasUsedByAllOtherAccounts(h) = SumFunctionOnSet(v, DOMAIN v)
      /\ getCurrentTotalUsedGas(h) = SumFunctionOnSet(w, DOMAIN w)
  BY DEF getGasUsedByAllOtherAccounts, getCurrentTotalUsedGas, SumFunction
<1>5. \A a \in D : h.output.accounts[a].gasUsed = U(a)
  OBVIOUS
<1> HIDE DEF T, U
<1>6. DOMAIN v = D /\ DOMAIN w = D
  OBVIOUS
<1>7. \A a \in D : v[a] \in Int
  BY <1>2, <1>3
<1>8. \A a \in D : w[a] \in Int
  BY <1>2, <1>3, <1>5
<1>9. \A a \in D \ {s} : w[a] = v[a]
  BY <1>5
<1>10. w[s] = U(s) + T(s) /\ v[s] = T(s) /\ T(s) \in Nat /\ U(s) \in Nat
  BY <1>2, <1>3, <1>5
<1>11. s \in D /\ IsFiniteSet(D)
  BY <1>1
<1> HIDE DEF D, v, w
<1>12. /\ SumFunctionOnSet(v, D) \in Int
       /\ SumFunctionOnSet(w, D) = SumFunctionOnSet(v, D) + w[s] - v[s]
  BY <1>7, <1>8, <1>9, <1>11, SumDiffers
<1>14. getGasUsedByAllOtherAccounts(h) \in Nat
  BY <1>1, OthersGasIsNat
<1>15. SumFunctionOnSet(w, D) = SumFunctionOnSet(v, D) + U(s)
  <2>1. PICK i, j, k, t : /\ i = SumFunctionOnSet(w, D) /\ j = SumFunctionOnSet(v, D)
                          /\ k = U(s) /\ t = T(s)
    OBVIOUS
  <2>2. j \in Int /\ k \in Nat /\ t \in Nat /\ i = j + (k + t) - t
    BY <1>10, <1>12, <2>1
  <2> QED
    BY <2>1, <2>2
<1>16. U(s) = GasUsedBy(h.metering, s)
  BY DEF U
<1> QED
  BY <1>4, <1>6, <1>14, <1>15, <1>16

(* When nothing is sent, the gas used by others is what they burnt. *)
LEMMA OthersBurnt ==
    ASSUME NEW h, IsHost(h), NEW s \in Accounts, s = h.runtime.scAddress,
           Carriers(h.output) = {},
           DOMAIN h.metering.gasUsedByAccounts \subseteq DOMAIN h.output.accounts,
           NEW l, IsBook(l), NEW k, IsBook(k),
           \A a \in Accounts \ {s} :
               l.burnt[a] = k.burnt[a] + GasUsedBy(h.metering, a)
    PROVE  /\ getGasUsedByAllOtherAccounts(h) \in Nat
           /\ getGasUsedByAllOtherAccounts(h) + l.burnt[s] + TotalBurnt(k)
                 = TotalBurnt(l) + k.burnt[s]
<1> DEFINE D == DOMAIN h.output.accounts
           T(a) == getGasTransferredByAccount(h.output.accounts[a])
           O(a) == IF a # s THEN GasUsedBy(h.metering, a) ELSE 0
           v == [a \in D |-> O(a) + T(a)]
           w == [a \in Accounts |-> O(a)]
           u == [a \in Accounts |-> k.burnt[a] + w[a]]
<1>1. IsOutput(h.output) /\ IsMetering(h.metering)
  BY DEF IsHost, IdleHost
<1>2. IsFiniteSet(Accounts) /\ D \in SUBSET Accounts /\ IsFiniteSet(D)
  BY <1>1, AccountsFinite DEF IsOutput
<1>3. \A a \in D : T(a) = 0
  <2> SUFFICES ASSUME NEW a \in D PROVE T(a) = 0
    OBVIOUS
  <2>1. h.output.accounts[a] \in AccountType
    BY <1>1 DEF IsOutput
  <2>2. ~GasSent(h.output.accounts[a].outputTransfers)
    BY DEF Carriers
  <2> QED
    BY <2>1, <2>2, NoGasTransferred
<1>4. \A a : O(a) \in Nat
  BY <1>1, UsedIsNat
<1>5. \A a \in Accounts \ D : O(a) = 0
  BY DEF GasUsedBy
<1>6. getGasUsedByAllOtherAccounts(h) = SumFunctionOnSet(v, DOMAIN v)
  BY DEF getGasUsedByAllOtherAccounts, SumFunction
<1>7. \A a \in Accounts : /\ k.burnt[a] \in Nat /\ l.burnt[a] \in Nat
                          /\ a # s => l.burnt[a] = k.burnt[a] + O(a)
  BY BooksAreLedgers
<1>8. O(s) = 0
  OBVIOUS
<1> HIDE DEF T, O
<1>9. DOMAIN v = D /\ \A a \in D : w[a] \in Int /\ v[a] = w[a]
  BY <1>2, <1>3, <1>4
<1>10. \A a \in Accounts : w[a] \in Int
  BY <1>4
<1>11. \A a \in Accounts \ D : w[a] = 0
  BY <1>5
<1>12. \A a \in Accounts : k.burnt[a] \in Int /\ w[a] \in Int /\ u[a] = k.burnt[a] + w[a]
  BY <1>4, <1>7
<1>13. \A a \in Accounts : u[a] \in Int
  BY <1>4, <1>7
<1>14. \A a \in Accounts \ {s} : l.burnt[a] = u[a]
  BY <1>7
<1>15. u[s] = k.burnt[s]
  BY <1>7, <1>8
<1> HIDE DEF v, w, u, D
<1>16. SumFunctionOnSet(v, D) = SumFunctionOnSet(w, D)
  BY <1>2, <1>9, SumSame
<1>17. SumFunctionOnSet(w, Accounts) = SumFunctionOnSet(w, D)
  BY <1>2, <1>10, <1>11, SumZeros
<1>18. PICK b, c : b = k.burnt /\ c = l.burnt
  OBVIOUS
<1>19. /\ SumFunctionOnSet(b, Accounts) \in Int /\ SumFunctionOnSet(w, Accounts) \in Int
       /\ SumFunctionOnSet(u, Accounts)
             = SumFunctionOnSet(b, Accounts) + SumFunctionOnSet(w, Accounts)
  BY <1>2, <1>12, <1>18, SumAdded
<1>20. SumFunctionOnSet(c, Accounts) = SumFunctionOnSet(u, Accounts) + c[s] - u[s]
  <2>1. \A a \in Accounts : c[a] \in Int
    BY <1>7, <1>18
  <2>2. \A a \in Accounts \ {s} : c[a] = u[a]
    BY <1>14, <1>18
  <2> QED
    BY <1>2, <1>13, <2>1, <2>2, SumDiffers
<1>21. /\ TotalBurnt(k) = SumFunctionOnSet(b, Accounts)
       /\ TotalBurnt(l) = SumFunctionOnSet(c, Accounts)
  BY <1>18, BooksAreLedgers
<1>22. getGasUsedByAllOtherAccounts(h) = SumFunctionOnSet(w, Accounts)
  BY <1>6, <1>9, <1>16, <1>17
<1>23. getGasUsedByAllOtherAccounts(h) \in Nat
  BY <1>1, OthersGasIsNat
<1>24. c[s] \in Nat /\ u[s] \in Nat /\ c[s] = l.burnt[s] /\ u[s] = k.burnt[s]
  BY <1>7, <1>15, <1>18
<1>25. PICK i, j, p, q, r : /\ i = SumFunctionOnSet(b, Accounts)
                           /\ j = SumFunctionOnSet(w, Accounts)
                           /\ p = SumFunctionOnSet(c, Accounts) /\ q = c[s] /\ r = u[s]
  OBVIOUS
<1>26. i \in Int /\ j \in Int /\ q \in Nat /\ r \in Nat /\ p = i + j + q - r
  BY <1>19, <1>20, <1>24, <1>25
<1>27. j + q + i = p + r
  BY <1>26
<1> QED
  BY <1>21, <1>22, <1>23, <1>24, <1>25, <1>27

\* The VMOutput o of an execution of s that ended with the host h.
Final(o, h, s) ==
    /\ IsHost(o.host) /\ SameBut(o.host, h, {"output", "metering"})
    /\ SameMetering(o.host, h)
    /\ Carriers(o.host.output) \subseteq Carriers(h.output)
    /\ \A a : a # s => GasUsedBy(o.host.metering, a) = GasUsedBy(h.metering, a)
    /\ o.err = "Ok" =>
          /\ o.gasRemaining = GasLeft(h)
          /\ DOMAIN o.host.metering.gasUsedByAccounts \subseteq DOMAIN o.host.output.accounts
          /\ \A a \in DOMAIN o.host.output.accounts :
                o.host.output.accounts[a].gasUsed = GasUsedBy(o.host.metering, a)
          /\ getGasUsedByAllOtherAccounts(o.host) \in Nat
          /\ s \notin Carriers(h.output) =>
                /\ GasUsedBy(o.host.metering, s) =
                      SubUint64(GasSpentByContract(h), getGasUsedByAllOtherAccounts(o.host))
                /\ GasUsedBy(o.host.metering, s) + getGasUsedByAllOtherAccounts(o.host)
                      + GasLeft(h) = h.metering.initialGasProvided

LEMMA FailureUpdate ==
    ASSUME NEW h, IsHost(h)
    PROVE  /\ IsHost(UpdateGasStateOnFailure(h))
           /\ SameBut(UpdateGasStateOnFailure(h), h, {"output"})
           /\ Carriers(UpdateGasStateOnFailure(h).output) \subseteq Carriers(h.output)
<1>1. PICK s, o : s = h.runtime.scAddress /\ o = h.output
  OBVIOUS
<1>2. s \in Accounts /\ IsOutput(o) /\ h.metering.initialGasProvided \in Nat
  BY <1>1 DEF IsHost, IdleHost, RuntimeType, IsMetering
<1>3. PICK account, charged : /\ account = GetOutputAccount(o, s)
          /\ charged = [account EXCEPT !.gasUsed = @ + h.metering.initialGasProvided]
  OBVIOUS
<1>4. account \in AccountType
  BY <1>2, <1>3, GotAccount
<1>5. charged \in AccountType /\ charged.outputTransfers = account.outputTransfers
  BY <1>2, <1>3, <1>4 DEF AccountType
<1>6. PICK p : p = SetOutputAccount(o, s, charged)
  OBVIOUS
<1>7. Carriers(p) \subseteq Carriers(o)
  BY <1>2, <1>3, <1>5, <1>6, SameTransfersSet
<1>8. UpdateGasStateOnFailure(h) = WithOutput(h, p)
  BY <1>1, <1>3, <1>6 DEF UpdateGasStateOnFailure, WithOutput
<1>9. SameBut(WithOutput(h, p), h, {"output"}) /\ WithOutput(h, p).output = p
  BY DEF SameBut, WithOutput, HostFields, IsHost, IdleHost
<1>10. IsHost(UpdateGasStateOnFailure(h))
  BY FailureUpdateFails DEF Fails, KeptHere, Kept
<1> QED
  BY <1>1, <1>7, <1>8, <1>9, <1>10

LEMMA FinalOutput ==
    ASSUME NEW h, IsHost(h), NEW s, s = h.runtime.scAddress
    PROVE  Final(GetVMOutput(h), h, s)
<1>1. PICK p : p = [h.output EXCEPT !.gasRemaining = GasLeft(h)]
  OBVIOUS
<1>2. IsOutput(h.output) /\ GasLeft(h) \in Nat
  BY GasIsNat DEF IsHost, IdleHost
<1>3. DOMAIN p = OutputFields /\ p.accounts = h.output.accounts /\ p.gasRemaining = GasLeft(h)
  BY <1>1, <1>2 DEF IsOutput, OutputFields
<1>4. Carries(p, h.output)
  BY <1>2, <1>3, SameAccountsCarry
<1>5. PICK h1 : h1 = WithOutput(h, p)
  OBVIOUS
<1>6. SameBut(h1, h, {"output"}) /\ h1.output = p /\ IsHost(h1)
  BY <1>4, <1>5, OutputReplaced DEF KeptHere, Kept
<1>7. /\ h1.runtime = h.runtime /\ h1.metering = h.metering /\ h1.points = h.points
      /\ h1.instance = h.instance
  BY <1>6 DEF SameBut, HostFields
<1>8. Carriers(h1.output) = Carriers(h.output)
  BY <1>3, <1>6 DEF Carriers
<1>9. PICK h2 : h2 = updateSCGasUsed(h1)
  OBVIOUS
<1>10. GasUpdated(h2, h1, s)
  BY <1>6, <1>7, <1>9, GasUpdate
<1>11. PICK h3 : h3 = setGasUsedToOutputAccounts(h2)
  OBVIOUS
<1>12. GasSetFrom(h3, h2)
  BY <1>10, <1>11, GasSet DEF GasUpdated
<1>13. GetVMOutput(h) = CheckedVMOutput(h3)
  BY <1>1, <1>5, <1>9, <1>11 DEF GetVMOutput, WithOutput
<1>14. /\ h3.metering = h2.metering /\ h3.runtime = h.runtime /\ h2.runtime = h.runtime
       /\ SameBut(h3, h, {"output", "metering"})
  BY <1>6, <1>10, <1>12 DEF GasUpdated, GasSetFrom, SameBut, HostFields
<1>15. SameMetering(h3, h)
  BY <1>7, <1>10, <1>14 DEF SameMetering, GasUpdated
<1>16. IsHost(h3) /\ Carriers(h3.output) \subseteq Carriers(h.output)
  BY <1>8, <1>10, <1>12 DEF GasUpdated, GasSetFrom
<1>17. \A a : a # s => GasUsedBy(h3.metering, a) = GasUsedBy(h.metering, a)
  BY <1>7, <1>10, <1>14 DEF GasUpdated
<1>18. /\ s \in DOMAIN h3.output.accounts
       /\ \A a \in DOMAIN h3.output.accounts :
             h3.output.accounts[a].gasUsed = GasUsedBy(h3.metering, a)
  BY <1>10, <1>12, <1>14 DEF GasUpdated, GasSetFrom
<1>19. h3.output.gasRemaining = GasLeft(h)
  BY <1>3, <1>6, <1>10, <1>12 DEF GasUpdated, GasSetFrom
<1>20. /\ getGasUsedByAllOtherAccounts(h3) \in Nat
       /\ getCurrentTotalUsedGas(h3)
             = getGasUsedByAllOtherAccounts(h3) + GasUsedBy(h3.metering, s)
  BY <1>14, <1>16, <1>18, TotalAndOthers
<1>21. getGasUsedByAllOtherAccounts(h3) = getGasUsedByAllOtherAccounts(h2)
  BY <1>12, <1>14, OthersSame DEF GasSetFrom
<1>22. GasSpentByContract(h1) = GasSpentByContract(h)
  BY <1>7 DEF GasSpentByContract, GetPointsUsed
<1>23. s \notin Carriers(h.output) => GasUsedBy(h3.metering, s) =
           SubUint64(GasSpentByContract(h), getGasUsedByAllOtherAccounts(h3))
  BY <1>8, <1>10, <1>14, <1>21, <1>22 DEF GasUpdated
<1>24. ASSUME NEW o, o.host = h3 \/ o.host = UpdateGasStateOnFailure(h3)
       PROVE  /\ IsHost(o.host) /\ SameBut(o.host, h, {"output", "metering"})
              /\ SameMetering(o.host, h)
              /\ Carriers(o.host.output) \subseteq Carriers(h.output)
              /\ \A a : a # s => GasUsedBy(o.host.metering, a) = GasUsedBy(h.metering, a)
  <2>1. CASE o.host = h3
    BY <1>14, <1>15, <1>16, <1>17, <2>1
  <2>2. CASE o.host = UpdateGasStateOnFailure(h3)
    <3>1. PICK g : g = UpdateGasStateOnFailure(h3)
      OBVIOUS
    <3>2. IsHost(g) /\ SameBut(g, h3, {"output"}) /\ Carriers(g.output) \subseteq Carriers(h3.output)
      BY <1>16, <3>1, FailureUpdate
    <3>3. g.metering = h3.metering /\ SameBut(g, h, {"output", "metering"})
      BY <1>14, <3>2 DEF SameBut, HostFields
    <3> QED
      BY <1>15, <1>16, <1>17, <2>2, <3>1, <3>2, <3>3 DEF SameMetering
  <2> QED
    BY <1>24, <2>1, <2>2
<1>25. PICK o : o = CheckedVMOutput(h3)
  OBVIOUS
<1>26. /\ o.host = h3 \/ o.host = UpdateGasStateOnFailure(h3)
       /\ o.err = "Ok" =>
             /\ o.host = h3 /\ o.gasRemaining = h3.output.gasRemaining
             /\ DOMAIN h3.metering.gasUsedByAccounts \subseteq DOMAIN h3.output.accounts
             /\ checkGas(h3)
  BY <1>25 DEF CheckedVMOutput, CreateVMOutputInCaseOfError
<1>27. ASSUME o.err = "Ok", s \notin Carriers(h.output)
       PROVE  GasUsedBy(h3.metering, s) + getGasUsedByAllOtherAccounts(h3)
                  + GasLeft(h) = h.metering.initialGasProvided
  <2>1. getCurrentTotalUsedGas(h3) + GasLeft(h) = h.metering.initialGasProvided
    BY <1>15, <1>19, <1>26, <1>27 DEF checkGas, SameMetering
  <2>2. GasUsedBy(h3.metering, s) \in Nat
    BY <1>16, UsedIsNat DEF IsHost, IdleHost
  <2> QED
    BY <1>2, <1>20, <2>1, <2>2
<1>28. Final(o, h, s)
  <2>1. /\ IsHost(o.host) /\ SameBut(o.host, h, {"output", "metering"})
        /\ SameMetering(o.host, h)
        /\ Carriers(o.host.output) \subseteq Carriers(h.output)
        /\ \A a : a # s => GasUsedBy(o.host.metering, a) = GasUsedBy(h.metering, a)
    BY <1>24, <1>26
  <2> QED
    BY <1>18, <1>19, <1>20, <1>23, <1>26, <1>27, <2>1 DEF Final
<1> QED
  BY <1>13, <1>25, <1>28

(* An execution of s, since the ledger k, that ends well. *)
LEMMA LevelEnded ==
    ASSUME NEW h, IsHost(h), NEW s \in Contracts, s = h.runtime.scAddress,
           NEW k, IsBook(k), NEW l, IsBook(l), NEW gas \in Nat,
           Accounted(l, k, h.metering, GetPointsUsed(h), s, 0), Sends(l, h.output),
           Provided(h.metering, gas), NEW o, o = GetVMOutput(h), o.err = "Ok"
    PROVE  /\ o.gasRemaining = GasLeft(h) /\ GasLeft(h) <= gas
           /\ Sound(l) => /\ GetPointsUsed(h) <= h.metering.gasForExecution
                          /\ Spent(l) + GasLeft(h) = Spent(k) + gas
           /\ Inside(l) => \A a \in Accounts :
                  l.burnt[a] = k.burnt[a] + GasUsedBy(o.host.metering, a)
<1>1. Final(o, h, s)
  BY FinalOutput
<1>2. s \in Accounts /\ IsMetering(h.metering)
  BY AccountsFinite DEF IsHost, IdleHost
<1>3. PICK cost, limit, p, others, used, left :
          /\ cost = h.metering.initialCost /\ limit = h.metering.gasForExecution
          /\ p = GetPointsUsed(h) /\ others = getGasUsedByAllOtherAccounts(o.host)
          /\ used = GasUsedBy(o.host.metering, s) /\ left = GasLeft(h)
  OBVIOUS
<1>4. /\ cost \in Nat /\ limit \in Nat /\ p \in Nat /\ left \in Nat
      /\ cost + limit = gas /\ h.metering.initialGasProvided = gas
      /\ left = SubUint64(limit, p) /\ others \in Nat
      /\ GasSpentByContract(h) = cost + p
  BY <1>1, <1>2, <1>3, GasIsNat DEF IsMetering, Provided, GasLeft, Final, GasSpentByContract
<1>5. left <= gas
  BY <1>4 DEF SubUint64
<1>6. s \notin Carriers(h.output) =>
          /\ used = SubUint64(cost + p, others) /\ used + others + left = gas
  BY <1>1, <1>3, <1>4 DEF Final
<1>7. ASSUME Sound(l)
      PROVE  p <= limit /\ Spent(l) + left = Spent(k) + gas
  <2>1. s \notin Carriers(h.output)
    BY <1>7 DEF Sends
  <2>2. p <= limit
    BY <1>4, <1>6, <2>1 DEF SubUint64
  <2>3. Spent(l) + 0 = Spent(k) + cost + p /\ Spent(l) \in Nat /\ Spent(k) \in Nat
    BY <1>3, <1>7, BooksAreLedgers DEF Accounted
  <2> QED
    BY <1>4, <2>2, <2>3 DEF SubUint64
<1>8. ASSUME Inside(l), NEW a \in Accounts
      PROVE  l.burnt[a] = k.burnt[a] + GasUsedBy(o.host.metering, a)
  <2>1. Sound(l) /\ Inside(k) /\ Carriers(h.output) = {}
    BY <1>8, SoundBefore DEF Accounted, Sends
  <2>2. /\ IsHost(o.host) /\ Carriers(o.host.output) = {}
        /\ DOMAIN o.host.metering.gasUsedByAccounts \subseteq DOMAIN o.host.output.accounts
        /\ \A x : x # s => GasUsedBy(o.host.metering, x) = GasUsedBy(h.metering, x)
    BY <1>1, <2>1 DEF Final
  <2>3. o.host.runtime.scAddress = s
    BY <1>1 DEF Final, SameBut, HostFields
  <2>4. \A x \in Accounts \ {s} : l.burnt[x] = k.burnt[x] + GasUsedBy(o.host.metering, x)
    BY <1>8, <2>2 DEF Accounted
  <2>5. CASE a # s
    BY <2>4, <2>5
  <2>6. CASE a = s
    <3>1. PICK g : g = o.host
      OBVIOUS
    <3>2. IsHost(g) /\ Carriers(g.output) = {} /\ s = g.runtime.scAddress
      BY <2>2, <2>3, <3>1
    <3>3. DOMAIN g.metering.gasUsedByAccounts \subseteq DOMAIN g.output.accounts
      BY <2>2, <3>1
    <3>4. \A x \in Accounts \ {s} : l.burnt[x] = k.burnt[x] + GasUsedBy(g.metering, x)
      BY <2>4, <3>1
    <3>5. others + l.burnt[s] + TotalBurnt(k) = TotalBurnt(l) + k.burnt[s]
      <4>1. IsHost(g) /\ s = g.runtime.scAddress /\ s \in Accounts
        BY <1>2, <3>2
      <4>2. Carriers(g.output) = {}
        BY <3>2
      <4>3. getGasUsedByAllOtherAccounts(g) + l.burnt[s] + TotalBurnt(k)
                = TotalBurnt(l) + k.burnt[s]
        BY <4>1, <4>2, <3>3, <3>4, OthersBurnt
      <4> QED
        BY <1>3, <3>1, <4>3
    <3>6. Spent(l) + 0 = Spent(k) + cost + p
      BY <1>3, <2>1 DEF Accounted
    <3>7. l.forwarded = 0 /\ k.forwarded = 0
      BY <1>8, <2>1 DEF Inside
    <3>8. TotalBurnt(l) \in Nat /\ TotalBurnt(k) \in Nat /\ l.burnt[s] \in Nat /\ k.burnt[s] \in Nat
      BY <1>2, BooksAreLedgers
    <3>9. TotalBurnt(l) = TotalBurnt(k) + cost + p
      BY <1>4, <3>6, <3>7, <3>8 DEF Spent
    <3>10. k.burnt[s] <= l.burnt[s]
      BY <1>2 DEF Accounted, Grows
    <3>11. used = SubUint64(cost + p, others)
      BY <1>6, <2>1
    <3>12. l.burnt[s] = k.burnt[s] + used
      BY <1>4, <3>5, <3>8, <3>9, <3>10, <3>11 DEF SubUint64
    <3> QED
      BY <1>3, <2>6, <3>12
  <2> QED
    BY <2>5, <2>6
<1>9. o.gasRemaining = GasLeft(h)
  BY <1>1 DEF Final
<1> QED
  BY <1>3, <1>5, <1>7, <1>8, <1>9

-----------------------------------------------------------------------------
(* The gas that the callers have left.                                      *)

WaitingGas(h, fs, i) ==
    SubUint64(h.meteringStack[i].gasForExecution, h.points[i]) + LockOf(fs[i + 1])
Waiting(h, fs) == SumFunction([i \in 1 .. Len(fs) - 1 |-> WaitingGas(h, fs, i)])

\* The gas that can still be spent from the host h that runs, or ended, as x.
Available(h, x, fs) ==
    (IF x \in {"running", "Ok"} THEN GasLeft(h) ELSE 0) + Waiting(h, fs)

LEMMA LevelSizes ==
    ASSUME NEW h, NEW fs, NEW v, Level(h, fs, v)
    PROVE  /\ Len(fs) \in Nat \ {0} /\ Len(fs) - 1 \in Nat
           /\ IsStack(h.meteringStack, Len(fs) - 1)
           /\ IsStack(h.instanceStack, Len(fs) - 1)
           /\ IsHost(h)
  BY DEF Level, IsCallStack, StackSizes

LEMMA WaitingIsNat ==
    ASSUME NEW h, NEW fs, NEW v, Level(h, fs, v)
    PROVE  /\ \A i \in 1 .. Len(fs) - 1 :
                 /\ WaitingGas(h, fs, i) \in Nat /\ h.instanceStack[i] = i
                 /\ h.points[i] \in Nat
                 /\ h.meteringStack[i].gasForExecution \in Nat
                 /\ LockOf(fs[i + 1]) \in Nat /\ fs[i + 1].input.gas \in Nat
           /\ Waiting(h, fs) \in Nat
<1>1. Len(fs) - 1 \in Nat /\ IsHost(h) /\ h.points \in PointsType
  BY LevelSizes DEF IsHost, IdleHost
<1>2. ASSUME NEW i \in 1 .. Len(fs) - 1
      PROVE  /\ WaitingGas(h, fs, i) \in Nat /\ h.instanceStack[i] = i
             /\ h.points[i] \in Nat
             /\ h.meteringStack[i].gasForExecution \in Nat
             /\ LockOf(fs[i + 1]) \in Nat /\ fs[i + 1].input.gas \in Nat
  <2>1. i + 1 \in 2 .. Len(fs) /\ i + 1 \in 1 .. Len(fs) /\ i = (i + 1) - 1
    BY <1>1, LevelSizes
  <2>2. Saved(h, fs[i + 1].before, i) /\ IsFrame(fs[i + 1], i + 1, v)
    BY <2>1 DEF Level, IsCallStack
  <2>3. /\ h.instanceStack[i] = i /\ i <= MaxInstances
        /\ h.meteringStack[i].gasForExecution \in Nat
    BY <2>2 DEF Saved, IsMetering
  <2>4. h.points[i] \in Nat
    BY <1>1, <2>3, ContextsAssumption DEF PointsType
  <2>5. LockOf(fs[i + 1]) \in Nat /\ fs[i + 1].input.gas \in Nat
    BY <2>2 DEF LockOf, IsFrame, RuntimeType, IsInput
  <2>6. SubUint64(h.meteringStack[i].gasForExecution, h.points[i]) \in Nat
    BY <2>3, <2>4, SubtractionIsNat
  <2>7. WaitingGas(h, fs, i) \in Nat
    BY <2>5, <2>6 DEF WaitingGas
  <2> QED
    BY <2>3, <2>4, <2>5, <2>7
<1>3. PICK w, S : w = [i \in 1 .. Len(fs) - 1 |-> WaitingGas(h, fs, i)] /\ S = 1 .. Len(fs) - 1
  OBVIOUS
<1>4. \A i \in S : w[i] \in Nat
  BY <1>2, <1>3
<1>5. IsFiniteSet(S) /\ DOMAIN w = S
  BY <1>1, <1>3, FS_Interval
<1>6. SumFunctionOnSet(w, S) \in Nat
  BY <1>4, <1>5, SumOfPart
<1> QED
  BY <1>2, <1>3, <1>5, <1>6 DEF Waiting, SumFunction

(* AvailableGas, with the instances of the callers. *)
LEMMA AvailableIs ==
    ASSUME VMInv, exit # "idle"
    PROVE  AvailableGas = Available(host, exit, frames)
<1>1. PICK v : Level(host, frames, v)
  BY DEF VMInv
<1>2. \A i \in 1 .. Len(frames) - 1 : host.instanceStack[i] = i
  BY <1>1, WaitingIsNat
<1>3. [i \in 1 .. Len(frames) - 1 |->
          SubUint64(host.meteringStack[i].gasForExecution,
                    host.points[host.instanceStack[i]])
          + (IF frames[i + 1].kind = "asyncDest"
             THEN frames[i + 1].before.runtime.gasLocked ELSE 0)]
       = [i \in 1 .. Len(frames) - 1 |-> WaitingGas(host, frames, i)]
  BY <1>2 DEF WaitingGas, LockOf
<1> QED
  BY <1>3 DEF AvailableGas, Available, Waiting

\* The callers below the top of fs are the same.
SameCallers(g, h, fs) ==
    /\ g.meteringStack = h.meteringStack
    /\ \A i \in 1 .. Len(fs) - 1 : g.points[i] = h.points[i]

LEMMA CallersStay ==
    ASSUME NEW fs, NEW h, NEW x, x \notin Early, Callers(h, x, fs), NEW g,
           SameCallers(g, h, fs), NEW y, y \notin Early
    PROVE  Callers(g, y, fs) /\ Waiting(g, fs) = Waiting(h, fs)
<1>1. \A i \in 1 .. Len(fs) - 1 :
          /\ Waits(fs[i + 1], fs[i].ledger, fs[i].input.gas, h.meteringStack[i],
                   h.points[i], fs[i + 1].input.gas)
          /\ g.meteringStack[i] = h.meteringStack[i] /\ g.points[i] = h.points[i]
  BY DEF Callers, SameCallers, Paid, Early
<1>2. Callers(g, y, fs)
  BY <1>1 DEF Callers, Paid, Early
<1>3. [i \in 1 .. Len(fs) - 1 |-> WaitingGas(g, fs, i)]
          = [i \in 1 .. Len(fs) - 1 |-> WaitingGas(h, fs, i)]
  BY <1>1 DEF WaitingGas
<1> QED
  BY <1>2, <1>3 DEF Waiting

(* One caller more. *)
LEMMA WaitingPushed ==
    ASSUME NEW c, NEW fs, NEW v, Level(c, fs, v), NEW p, NEW gs, NEW w, Level(p, gs, w),
           Len(gs) = Len(fs) + 1, \A i \in 1 .. Len(fs) : gs[i] = fs[i],
           \A i \in 1 .. Len(fs) - 1 : /\ p.meteringStack[i] = c.meteringStack[i]
                                       /\ p.points[i] = c.points[i]
    PROVE  Waiting(p, gs) = Waiting(c, fs) + WaitingGas(p, gs, Len(fs))
<1>1. PICK n : n = Len(fs)
  OBVIOUS
<1>2. n \in Nat \ {0} /\ n - 1 \in Nat /\ Len(gs) - 1 = n
  BY <1>1, LevelSizes
<1>3. PICK a, b, S : /\ a = [i \in 1 .. Len(fs) - 1 |-> WaitingGas(c, fs, i)]
                     /\ b = [i \in 1 .. Len(gs) - 1 |-> WaitingGas(p, gs, i)]
                     /\ S = 1 .. n - 1
  OBVIOUS
<1>4. n \notin S /\ S \cup {n} = 1 .. n
  BY <1>2, <1>3
<1>10. IsFiniteSet(S)
  BY <1>2, <1>3, FS_Interval
<1>11. \A i \in 1 .. Len(fs) - 1 : WaitingGas(c, fs, i) \in Nat
  BY WaitingIsNat
<1>12. \A i \in 1 .. Len(gs) - 1 : WaitingGas(p, gs, i) \in Nat
  BY WaitingIsNat
<1>5. \A i \in S : a[i] \in Int
  BY <1>1, <1>3, <1>11
<1>6. \A i \in S \cup {n} : b[i] \in Int
  BY <1>2, <1>3, <1>4, <1>12
<1>7. \A i \in S \ {n} : b[i] = a[i]
  <2> SUFFICES ASSUME NEW i \in S PROVE b[i] = a[i]
    OBVIOUS
  <2>1. i \in 1 .. Len(fs) - 1 /\ i \in 1 .. Len(gs) - 1 /\ i + 1 \in 1 .. Len(fs)
    BY <1>1, <1>2, <1>3
  <2>2. gs[i + 1] = fs[i + 1]
    BY <2>1
  <2> QED
    BY <1>3, <2>1, <2>2 DEF WaitingGas
<1>13. n \notin S
  BY <1>4
<1>8. SumFunctionOnSet(b, S \cup {n}) = SumFunctionOnSet(a, S) + b[n]
  <2>1. PICK T : T = S \cup {n}
    OBVIOUS
  <2>2. n \in T /\ T \ {n} = S
    BY <1>13, <2>1
  <2>3. IsFiniteSet(T)
    <3>1. T = 1 .. n /\ n \in Int
      BY <1>2, <1>4, <2>1
    <3>2. IsFiniteSet(1 .. n)
      BY <3>1, FS_Interval
    <3> QED
      BY <3>1, <3>2
  <2>4. \A i \in T : b[i] \in Int
    BY <1>6, <2>1
  <2>5. /\ SumFunctionOnSet(b, T \ {n}) \in Int
        /\ SumFunctionOnSet(b, T) = b[n] + SumFunctionOnSet(b, T \ {n})
    BY <2>2, <2>3, <2>4, SumRemove
  <2>6. \A i \in S : a[i] \in Int /\ b[i] = a[i]
    BY <1>5, <1>7, <1>13
  <2>7. SumFunctionOnSet(b, S) = SumFunctionOnSet(a, S)
    BY <1>10, <2>6, SumSame
  <2>8. b[n] \in Int
    BY <2>2, <2>4
  <2>9. SumFunctionOnSet(b, T \ {n}) = SumFunctionOnSet(b, S)
    BY <2>2
  <2>10. SumFunctionOnSet(b, T) = SumFunctionOnSet(a, S) + b[n]
    BY <2>5, <2>7, <2>8, <2>9
  <2> QED
    BY <2>1, <2>10
<1>9. DOMAIN a = S /\ DOMAIN b = S \cup {n} /\ b[n] = WaitingGas(p, gs, n)
  BY <1>1, <1>2, <1>3, <1>4
<1> QED
  BY <1>1, <1>3, <1>8, <1>9 DEF Waiting, SumFunction

-----------------------------------------------------------------------------
(* In the middle of a step: the execution on top of fs stands at the host c *)
(* with the ledger l, and lock of its points are locked.                    *)

Stands(c, fs, l, lock) ==
    /\ IsBook(l) /\ fs[1].ledger = EmptyLedger
    /\ Callers(c, "running", fs)
    /\ Open(c, fs, l, lock)

\* The step has come to the host h, that runs or ended as x, with the ledger
\* l and at most gas to spend.
Reached(h, x, fs, l, gas) ==
    /\ x # "idle" /\ IsBook(l) /\ GasGood(h, x, fs, l)
    /\ Available(h, x, fs) <= gas

\* g is c with used more points used.
UsesMore(g, c, fs, used) ==
    /\ IsHost(g) /\ SameCallers(g, c, fs)
    /\ g.metering = c.metering /\ g.instance = c.instance
    /\ g.runtime.scAddress = c.runtime.scAddress
    /\ GetPointsUsed(g) = GetPointsUsed(c) + used

LEMMA EmptyBook ==
    IsBook(EmptyLedger) /\ Spent(EmptyLedger) = 0 /\ Inside(EmptyLedger)
<1>1. PICK w : w = [a \in Accounts |-> 0]
  OBVIOUS
<1>2. EmptyLedger.burnt = w /\ IsBook(EmptyLedger) /\ Inside(EmptyLedger)
  BY <1>1 DEF EmptyLedger, IsBook, Inside, Sound
<1>3. \A a \in Accounts : w[a] \in Int
  BY <1>1
<1>4. \A a \in Accounts \ {} : w[a] = 0
  BY <1>1
<1>5. SumFunctionOnSet(w, Accounts) = SumFunctionOnSet(w, {})
  BY <1>3, <1>4, AccountsFinite, SumZeros
<1>6. TotalBurnt(EmptyLedger) = 0
  BY <1>1, <1>2, <1>5, SumEmpty DEF TotalBurnt, SumFunction
<1> QED
  BY <1>2, <1>6 DEF Spent, Inside

LEMMA BookOfFrame ==
    ASSUME NEW h, NEW x, NEW fs, Len(fs) \in Nat \ {0}, Callers(h, x, fs),
           fs[1].ledger = EmptyLedger
    PROVE  IsBook(fs[Len(fs)].ledger)
<1>1. CASE Len(fs) = 1
  BY <1>1, EmptyBook
<1>2. CASE Len(fs) # 1
  <2>1. PICK n : n = Len(fs)
    OBVIOUS
  <2>2. n - 1 \in 1 .. n - 1 /\ (n - 1) + 1 = n
    BY <1>2, <2>1
  <2> QED
    BY <2>1, <2>2 DEF Callers, Waits
<1> QED
  BY <1>1, <1>2

LEMMA Moved ==
    ASSUME NEW c, IsHost(c), NEW fs, Len(fs) \in Nat \ {0}, NEW l, NEW lock \in Nat,
           Stands(c, fs, l, lock),
           NEW used \in Int, NEW g, UsesMore(g, c, fs, used),
           NEW k, IsBook(k), Grows(k, l), NEW rest \in Nat,
           \A a \in Accounts \ {c.runtime.scAddress} : k.burnt[a] = l.burnt[a],
           Sound(k) => Spent(k) + rest = Spent(l) + lock + used,
           Sends(k, g.output)
    PROVE  Stands(g, fs, k, rest) /\ Waiting(g, fs) = Waiting(c, fs)
<1>1. PICK s, m, j, p, q : /\ s = c.runtime.scAddress /\ m = c.metering
                           /\ j = fs[Len(fs)].ledger
                           /\ p = GetPointsUsed(c) /\ q = GetPointsUsed(g)
  OBVIOUS
<1>2. /\ IsBook(l) /\ IsBook(j) /\ Accounted(l, j, m, p, s, lock)
      /\ g.metering = m /\ g.runtime.scAddress = s /\ q = p + used
  BY <1>1, BookOfFrame DEF Stands, Open, UsesMore
<1>3. p \in Nat /\ q \in Nat /\ m.initialCost \in Nat
  BY <1>1, GasIsNat DEF UsesMore, IsHost, IdleHost, IsMetering
<1>4. Grows(k, j) /\ Grows(l, j)
  BY <1>2, GrowsTransitive DEF Accounted
<1>5. ASSUME Sound(k) PROVE Spent(k) + rest = Spent(j) + m.initialCost + q
  <2>1. Spent(l) + lock = Spent(j) + m.initialCost + p
    BY <1>2, <1>5, SoundBefore DEF Accounted
  <2>2. Spent(k) \in Nat /\ Spent(l) \in Nat /\ Spent(j) \in Nat
    BY <1>2, BooksAreLedgers
  <2>3. Spent(k) + rest = Spent(l) + lock + used
    BY <1>5
  <2> QED
    BY <1>2, <1>3, <2>1, <2>2, <2>3
<1>6. ASSUME Inside(k), NEW a \in Accounts \ {s}
      PROVE  k.burnt[a] = j.burnt[a] + GasUsedBy(m, a)
  <2>1. Inside(l)
    BY <1>2, <1>6, SoundBefore
  <2> QED
    BY <1>1, <1>2, <1>6, <2>1 DEF Accounted
<1>7. Accounted(k, j, m, q, s, rest)
  BY <1>4, <1>5, <1>6 DEF Accounted
<1>8. Open(g, fs, k, rest)
  BY <1>1, <1>2, <1>7 DEF Open, Stands, UsesMore
<1>9. Callers(g, "running", fs) /\ Waiting(g, fs) = Waiting(c, fs)
  <2>1. Callers(c, "running", fs) /\ SameCallers(g, c, fs) /\ "running" \notin Early
    BY DEF Stands, UsesMore, Early
  <2> QED
    BY <2>1, CallersStay
<1> QED
  BY <1>8, <1>9 DEF Stands

(* The ways a step goes on or stops. *)
LEMMA ReachedStanding ==
    ASSUME NEW c, NEW fs, NEW l, Stands(c, fs, l, 0), NEW x \in {"running", "Ok"},
           x = "running" => c.runtime.gasLocked = 0,
           NEW gas, GasLeft(c) + Waiting(c, fs) <= gas
    PROVE  Reached(c, x, fs, l, gas)
<1>1. SameCallers(c, c, fs)
  BY DEF SameCallers
<1>2. Callers(c, x, fs)
  BY <1>1, CallersStay DEF Stands, Early
<1> QED
  BY <1>2 DEF Reached, GasGood, Available, Stands

LEMMA ReachedFailure ==
    ASSUME NEW c, NEW fs, NEW l, NEW lock, Stands(c, fs, l, lock),
           NEW g, SameCallers(g, c, fs), NEW x, x \notin Early \cup {"running", "Ok", "idle"},
           Waiting(c, fs) \in Nat, NEW k, IsBook(k),
           NEW gas, Waiting(c, fs) <= gas
    PROVE  Reached(g, x, fs, k, gas)
<1>2. Callers(g, x, fs) /\ Waiting(g, fs) = Waiting(c, fs)
  BY CallersStay DEF Stands, Early
<1>3. Available(g, x, fs) = Waiting(c, fs)
  BY <1>2 DEF Available
<1> QED
  BY <1>2, <1>3 DEF Reached, GasGood, Stands

-----------------------------------------------------------------------------
(* The operations of the contexts, between the beginning of a step and its  *)
(* end.                                                                     *)

\* The execution stands at c, and all that can be spent is at most gas.
Ready(c, fs, v, l, lock, gas) ==
    /\ IsHost(c) /\ Active(c, fs, v) /\ Stands(c, fs, l, lock)
    /\ lock \in Nat /\ gas \in Nat
    /\ GasLeft(c) + lock + Waiting(c, fs) <= gas

LEMMA ReadyFacts ==
    ASSUME NEW c, NEW fs, NEW v, NEW l, NEW lock, NEW gas, Ready(c, fs, v, l, lock, gas)
    PROVE  /\ IsHost(c) /\ Level(c, fs, v) /\ Len(fs) \in Nat \ {0} /\ IsBook(l)
           /\ c.instance = Len(fs) /\ c.instance \in 1 .. MaxInstances
           /\ c.runtime.scAddress \in Contracts /\ c.runtime.scAddress \in Accounts
           /\ GetPointsUsed(c) \in Nat /\ GasLeft(c) \in Nat /\ Waiting(c, fs) \in Nat
           /\ c.metering.gasForExecution \in Nat
           /\ GasLeft(c) = SubUint64(c.metering.gasForExecution, GetPointsUsed(c))
           /\ Sends(l, c.output)
<1>1. IsHost(c) /\ Level(c, fs, v) /\ Stands(c, fs, l, lock) /\ c.instance = Len(fs)
  BY DEF Ready, Active
<1>2. Len(fs) \in Nat \ {0} /\ Waiting(c, fs) \in Nat
  BY <1>1, LevelSizes, WaitingIsNat
<1>3. c.instance \in 1 .. MaxInstances
  BY <1>1, <1>2, ContextsAssumption DEF IsHost, IdleHost
<1>4. c.runtime.scAddress \in Contracts /\ c.runtime.scAddress \in Accounts
  BY <1>1, AccountsFinite DEF Stands, Open
<1>5. c.metering.gasForExecution \in Nat
  BY <1>1 DEF IsHost, IdleHost, IsMetering
<1> QED
  BY <1>1, <1>2, <1>3, <1>4, <1>5, GasIsNat DEF GasLeft, Stands, Open

LEMMA GasUses ==
    ASSUME NEW c, IsHost(c), NEW fs, Len(fs) \in Nat \ {0}, c.instance = Len(fs),
           NEW gas \in Nat
    PROVE  /\ UsesMore(UseGas(c, gas), c, fs, gas) /\ UseGas(c, gas).output = c.output
           /\ SameBut(UseGas(c, gas), c, {"points"})
           /\ UseGas(c, gas).runtime = c.runtime
           /\ gas <= GetPointsUsed(c) =>
                 /\ UsesMore(RestoreGas(c, gas), c, fs, -gas)
                 /\ RestoreGas(c, gas).output = c.output
                 /\ SameBut(RestoreGas(c, gas), c, {"points"})
                 /\ RestoreGas(c, gas).runtime = c.runtime
<1>1. PICK n, p : n = Len(fs) /\ p = GetPointsUsed(c)
  OBVIOUS
<1>2. /\ n \in 1 .. MaxInstances /\ c.instance = n /\ c.points \in PointsType
      /\ p = c.points[n] /\ p \in Nat
  <2>1. c.instance = n /\ n # 0 /\ p \in Nat
    BY <1>1, GasIsNat
  <2>2. n \in 0 .. MaxInstances /\ c.points \in PointsType /\ MaxInstances \in Nat
    BY <1>1, ContextsAssumption DEF IsHost, IdleHost
  <2>3. p = c.points[n]
    BY <1>1, <2>1 DEF GetPointsUsed
  <2> QED
    BY <2>1, <2>2, <2>3
<1>3. ASSUME NEW q \in Nat, NEW used \in Int, q = p + used, NEW g, g = SetPointsUsed(c, q)
      PROVE  UsesMore(g, c, fs, used) /\ SameBut(g, c, {"points"})
  <2>1. SameBut(g, c, {"points"}) /\ g.points \in PointsType
    BY <1>3, PointsSet DEF OnlyPoints
  <2>2. g.points = [c.points EXCEPT ![n] = q]
    BY <1>2, <1>3 DEF SetPointsUsed, IsHost, IdleHost, HostFields
  <2>3. g.points[n] = q /\ \A i \in 1 .. n - 1 : g.points[i] = c.points[i]
    BY <1>2, <2>2, ContextsAssumption DEF PointsType
  <2>4. /\ g.meteringStack = c.meteringStack /\ g.metering = c.metering
        /\ g.instance = n /\ g.runtime = c.runtime
    BY <1>2, <2>1 DEF SameBut, HostFields
  <2>5. IsHost(g)
    BY <2>1, PointsKeep DEF OnlyPoints, KeptHere, Kept
  <2>6. GetPointsUsed(g) = p + used
    BY <1>2, <1>3, <2>3, <2>4 DEF GetPointsUsed
  <2> QED
    BY <1>1, <1>2, <2>1, <2>3, <2>4, <2>5, <2>6 DEF UsesMore, SameCallers
<1>4. /\ UsesMore(UseGas(c, gas), c, fs, gas) /\ SameBut(UseGas(c, gas), c, {"points"})
  <2>1. PICK q : q = GetPointsUsed(c) + gas
    OBVIOUS
  <2>2. UseGas(c, gas) = SetPointsUsed(c, q)
    BY <2>1 DEF UseGas
  <2>4. GetPointsUsed(c) \in Nat /\ p = GetPointsUsed(c)
    BY <1>1, <1>2
  <2>3. q \in Nat /\ q = p + gas /\ gas \in Int
    BY <2>1, <2>4
  <2> QED
    BY <1>3, <2>2, <2>3
<1>5. ASSUME gas <= p
      PROVE  /\ UsesMore(RestoreGas(c, gas), c, fs, -gas)
             /\ SameBut(RestoreGas(c, gas), c, {"points"})
  <2>1. PICK q : q = SubUint64(GetPointsUsed(c), gas)
    OBVIOUS
  <2>2. RestoreGas(c, gas) = SetPointsUsed(c, q)
    BY <1>1, <1>5, <2>1 DEF RestoreGas
  <2>4. GetPointsUsed(c) \in Nat /\ p = GetPointsUsed(c)
    BY <1>1, <1>2
  <2>3. q \in Nat /\ q = p + (-gas) /\ -gas \in Int
    BY <1>5, <2>1, <2>4 DEF SubUint64
  <2> QED
    BY <1>3, <2>2, <2>3
<1> QED
  BY <1>1, <1>4, <1>5 DEF SameBut, HostFields

\* What a step may change besides points, not the points themselves.
Outer == {"output", "bigInt", "world", "snapshots"}

LEMMA OuterUses ==
    ASSUME NEW c, NEW g, IsHost(g), SameBut(g, c, Outer), NEW fs, IsHost(c)
    PROVE  /\ UsesMore(g, c, fs, 0) /\ g.runtime = c.runtime /\ GasLeft(g) = GasLeft(c)
<1>1. /\ g.meteringStack = c.meteringStack /\ g.metering = c.metering
      /\ g.instance = c.instance /\ g.runtime = c.runtime /\ g.points = c.points
  BY DEF SameBut, HostFields, Outer
<1>2. GetPointsUsed(g) = GetPointsUsed(c) /\ GetPointsUsed(c) \in Nat
  BY <1>1, GasIsNat DEF GetPointsUsed
<1> QED
  BY <1>1, <1>2 DEF UsesMore, SameCallers, GasLeft

LEMMA UsesTransitive ==
    ASSUME NEW fs, NEW c, IsHost(c), NEW g, NEW a \in Int, UsesMore(g, c, fs, a),
           NEW f, NEW b \in Int, UsesMore(f, g, fs, b)
    PROVE  UsesMore(f, c, fs, a + b)
<1>1. GetPointsUsed(c) \in Nat
  BY GasIsNat
<1>2. GetPointsUsed(f) = GetPointsUsed(c) + (a + b)
  BY <1>1 DEF UsesMore
<1> QED
  BY <1>2 DEF UsesMore, SameCallers

LEMMA GasLeftMoved ==
    ASSUME NEW c, IsHost(c), NEW fs, NEW g, NEW used \in Int, UsesMore(g, c, fs, used)
    PROVE  /\ GasLeft(g) \in Nat /\ GasLeft(c) \in Nat
           /\ used >= 0 => GasLeft(g) <= GasLeft(c)
           /\ used >= 0 /\ used <= GasLeft(c) => GasLeft(g) + used = GasLeft(c)
           /\ used <= 0 => GasLeft(g) + used <= GasLeft(c)
           /\ used <= 0 /\ GetPointsUsed(c) <= c.metering.gasForExecution =>
                 GasLeft(g) + used = GasLeft(c)
           /\ used >= 0 /\ used >= GasLeft(c) => GasLeft(g) = 0
<1>1. PICK limit, p, q : /\ limit = c.metering.gasForExecution /\ p = GetPointsUsed(c)
                         /\ q = GetPointsUsed(g)
  OBVIOUS
<1>2. /\ limit \in Nat /\ p \in Nat /\ q \in Nat /\ q = p + used
      /\ GasLeft(c) = SubUint64(limit, p) /\ GasLeft(g) = SubUint64(limit, q)
  BY <1>1, GasIsNat DEF UsesMore, IsHost, IdleHost, IsMetering, GasLeft
<1> QED
  BY <1>1, <1>2 DEF SubUint64

(* The execution stands elsewhere, with the ledger k. *)
LEMMA ReadyMoves ==
    ASSUME NEW c, NEW fs, NEW v, NEW l, NEW lock, NEW gas, Ready(c, fs, v, l, lock, gas),
           NEW g, KeptHere(g, c), NEW used \in Int, UsesMore(g, c, fs, used),
           NEW k, IsBook(k), Grows(k, l), NEW rest \in Nat,
           \A a \in Accounts \ {c.runtime.scAddress} : k.burnt[a] = l.burnt[a],
           Sound(k) => Spent(k) + rest = Spent(l) + lock + used,
           Sends(k, g.output), GasLeft(g) + rest <= GasLeft(c) + lock
    PROVE  Ready(g, fs, v, k, rest, gas)
<1>1. /\ IsHost(c) /\ Len(fs) \in Nat \ {0} /\ Waiting(c, fs) \in Nat /\ GasLeft(c) \in Nat
  BY ReadyFacts
<1>2. /\ Active(c, fs, v) /\ Stands(c, fs, l, lock) /\ lock \in Nat /\ gas \in Nat
      /\ GasLeft(c) + lock + Waiting(c, fs) <= gas
  BY DEF Ready
<1>3. Stands(g, fs, k, rest) /\ Waiting(g, fs) = Waiting(c, fs)
  BY <1>1, <1>2, Moved
<1>4. IsHost(g) /\ Active(g, fs, v) /\ GasLeft(g) \in Nat
  BY <1>2, KeptActive, GasIsNat DEF KeptHere, Kept
<1>5. GasLeft(g) + rest + Waiting(g, fs) <= gas
  BY <1>1, <1>2, <1>3, <1>4
<1> QED
  BY <1>2, <1>3, <1>4, <1>5 DEF Ready

(* Gas that the contract burns. *)
LEMMA ReadyBurns ==
    ASSUME NEW c, NEW fs, NEW v, NEW l, NEW lock, NEW gas, Ready(c, fs, v, l, lock, gas),
           NEW g, KeptHere(g, c), NEW used \in Nat, UsesMore(g, c, fs, used),
           Carriers(g.output) \subseteq Carriers(c.output),
           NEW s, s = c.runtime.scAddress, NEW k, k = Burn(l, s, used)
    PROVE  Ready(g, fs, v, k, lock, gas)
<1>1. IsBook(l) /\ s \in Accounts /\ IsHost(c) /\ Sends(l, c.output)
  BY ReadyFacts
<1>2. BurntBy(k, l, s, used)
  BY <1>1, Burning
<1>3. /\ IsBook(k) /\ Grows(k, l) /\ Spent(k) = Spent(l) + used
      /\ \A a \in Accounts \ {s} : k.burnt[a] = l.burnt[a]
  BY <1>2 DEF BurntBy
<1>4. Sound(k) => Spent(k) + lock = Spent(l) + lock + used
  <2>1. Spent(l) \in Nat /\ lock \in Nat
    BY <1>1, BooksAreLedgers DEF Ready
  <2> QED
    BY <1>3, <2>1
<1>5. Sends(k, g.output)
  BY <1>1, <1>3, SoundBefore DEF Sends
<1>6. lock \in Nat /\ GasLeft(g) + lock <= GasLeft(c) + lock
  <2>1. lock \in Nat
    BY DEF Ready
  <2> QED
    BY <1>1, <2>1, GasLeftMoved
<1> QED
  BY <1>3, <1>4, <1>5, <1>6, ReadyMoves

(* Changes that send no gas. *)
LEMMA ReadyChanges ==
    ASSUME NEW c, NEW fs, NEW v, NEW l, NEW lock, NEW gas, Ready(c, fs, v, l, lock, gas),
           NEW g, KeptHere(g, c), SameBut(g, c, Outer),
           Carriers(g.output) \subseteq Carriers(c.output)
    PROVE  Ready(g, fs, v, l, lock, gas) /\ g.runtime = c.runtime
<1>1. IsHost(c) /\ IsHost(g) /\ Sends(l, c.output) /\ IsBook(l) /\ lock \in Nat
  BY ReadyFacts DEF KeptHere, Kept, Ready
<1>2. UsesMore(g, c, fs, 0) /\ g.runtime = c.runtime /\ GasLeft(g) = GasLeft(c)
  BY <1>1, OuterUses
<1>3. Grows(l, l) /\ Spent(l) \in Nat
  <2>1. \A a \in Accounts : l.burnt[a] \in Nat
    BY <1>1, BooksAreLedgers
  <2> QED
    BY <1>1, <2>1, BooksAreLedgers DEF Grows, IsBook
<1>4. Sends(l, g.output)
  BY <1>1 DEF Sends
<1>5. GasLeft(g) + lock <= GasLeft(c) + lock
  BY <1>1, <1>2, GasIsNat
<1>6. Sound(l) => Spent(l) + lock = Spent(l) + lock + 0
  BY <1>1, <1>3
<1> QED
  BY <1>1, <1>2, <1>3, <1>4, <1>5, <1>6, ReadyMoves

(* Gas that is sent to another account, and charged. *)
LEMMA ReadyForwards ==
    ASSUME NEW c, NEW fs, NEW v, NEW l, NEW lock, NEW gas, Ready(c, fs, v, l, lock, gas),
           NEW g, KeptHere(g, c), NEW used \in Nat, UsesMore(g, c, fs, used),
           NEW dest, dest \notin Contracts,
           Carriers(g.output) \subseteq Carriers(c.output)
                                 \cup (IF used + lock = 0 THEN {} ELSE {dest}),
           NEW k, k = [l EXCEPT !.forwarded = @ + (used + lock)]
    PROVE  Ready(g, fs, v, k, 0, gas)
<1>1. IsBook(l) /\ IsHost(c) /\ Sends(l, c.output) /\ lock \in Nat
  BY ReadyFacts DEF Ready
<1>2. ForwardedFrom(k, l, used + lock)
  BY <1>1, Forwarding
<1>3. /\ IsBook(k) /\ Grows(k, l) /\ Spent(k) = Spent(l) + (used + lock)
      /\ k.burnt = l.burnt /\ k.forwarded = l.forwarded + (used + lock)
  BY <1>2 DEF ForwardedFrom
<1>4. Sound(k) => Spent(k) + 0 = Spent(l) + lock + used
  <2>1. Spent(l) \in Nat
    BY <1>1, BooksAreLedgers
  <2> QED
    BY <1>1, <1>3, <2>1
<1>5. Inside(k) => used + lock = 0 /\ Inside(l)
  BY <1>1, <1>3, SoundBefore DEF Inside, IsBook
<1>6. Sends(k, g.output)
  BY <1>1, <1>3, <1>5, SoundBefore DEF Sends
<1>7. GasLeft(g) + 0 <= GasLeft(c) + lock
  BY <1>1, GasLeftMoved
<1>8. \A a \in Accounts \ {c.runtime.scAddress} : k.burnt[a] = l.burnt[a]
  BY <1>3
<1>9. IsBook(k) /\ Grows(k, l) /\ 0 \in Nat /\ used \in Int
  BY <1>3
<1> QED
  BY <1>4, <1>6, <1>7, <1>8, <1>9, ReadyMoves

(* Gas that is sent to another account, and charged to nobody. *)
LEMMA ReadySendsUnfunded ==
    ASSUME NEW c, NEW fs, NEW v, NEW l, NEW gas, Ready(c, fs, v, l, 0, gas),
           NEW g, KeptHere(g, c), SameBut(g, c, Outer), NEW sent \in Nat, NEW dest,
           Carriers(g.output) \subseteq Carriers(c.output)
                                 \cup (IF sent = 0 THEN {} ELSE {dest}),
           NEW k, k = [l EXCEPT !.unfunded = @ + sent]
    PROVE  Ready(g, fs, v, k, 0, gas) /\ g.runtime = c.runtime
<1>1. IsHost(c) /\ IsHost(g) /\ Sends(l, c.output) /\ IsBook(l)
  BY ReadyFacts DEF KeptHere, Kept
<1>2. UsesMore(g, c, fs, 0) /\ g.runtime = c.runtime /\ GasLeft(g) = GasLeft(c)
  BY <1>1, OuterUses
<1>3. SameGas(k, l) /\ (Sound(k) => sent = 0 /\ Sound(l))
  BY <1>1, UnfundedGas
<1>4. /\ IsBook(k) /\ Grows(k, l) /\ Spent(k) = Spent(l) /\ k.burnt = l.burnt
      /\ Spent(l) \in Nat
  BY <1>1, <1>3, BooksAreLedgers DEF SameGas
<1>5. Sends(k, g.output)
  BY <1>1, <1>3, <1>4, SoundBefore DEF Sends, Inside
<1>6. GasLeft(g) + 0 <= GasLeft(c) + 0
  BY <1>1, <1>2, GasIsNat
<1>7. Sound(k) => Spent(k) + 0 = Spent(l) + 0 + 0
  BY <1>4
<1>8. \A a \in Accounts \ {c.runtime.scAddress} : k.burnt[a] = l.burnt[a]
  BY <1>4
<1>9. IsBook(k) /\ Grows(k, l) /\ 0 \in Nat /\ 0 \in Int
  BY <1>4
<1> QED
  BY <1>2, <1>5, <1>6, <1>7, <1>8, <1>9, ReadyMoves

LEMMA ReadyEnds ==
    ASSUME NEW c, NEW fs, NEW v, NEW l, NEW gas, Ready(c, fs, v, l, 0, gas),
           NEW x \in {"running", "Ok"}, x = "running" => c.runtime.gasLocked = 0
    PROVE  Reached(c, x, fs, l, gas)
<1>1. GasLeft(c) \in Nat /\ Waiting(c, fs) \in Nat
  BY ReadyFacts
<1>2. Stands(c, fs, l, 0) /\ GasLeft(c) + Waiting(c, fs) <= gas
  BY <1>1 DEF Ready
<1> QED
  BY <1>2, ReachedStanding

LEMMA ReadyFails ==
    ASSUME NEW c, NEW fs, NEW v, NEW l, NEW lock, NEW gas, Ready(c, fs, v, l, lock, gas),
           NEW g, SameCallers(g, c, fs),
           NEW x, x \notin Early \cup {"running", "Ok", "idle"}, NEW k, IsBook(k)
    PROVE  Reached(g, x, fs, k, gas)
<1>1. GasLeft(c) \in Nat /\ Waiting(c, fs) \in Nat
  BY ReadyFacts
<1>2. Stands(c, fs, l, lock) /\ Waiting(c, fs) <= gas
  BY <1>1 DEF Ready
<1> QED
  BY <1>1, <1>2, ReachedFailure

LEMMA SameCallersTransitive ==
    ASSUME NEW fs, NEW c, NEW g, SameCallers(g, c, fs), NEW f, SameCallers(f, g, fs)
    PROVE  SameCallers(f, c, fs)
  BY DEF SameCallers

LEMMA FaultCallers ==
    ASSUME NEW c, IsHost(c), NEW fs, Len(fs) \in Nat \ {0}, c.instance = Len(fs)
    PROVE  SameCallers(FailExecution(c), c, fs)
<1>1. PICK g : g = UseGas(c, GasLeft(c))
  OBVIOUS
<1>2. GasLeft(c) \in Nat
  BY GasIsNat
<1>3. SameCallers(g, c, fs) /\ IsHost(g)
  BY <1>1, <1>2, GasUses DEF UsesMore
<1>4. FailExecution(c) = [g EXCEPT !.output.returnCode = "ExecutionFailed"]
  BY <1>1 DEF FailExecution
<1>5. /\ FailExecution(c).meteringStack = g.meteringStack
      /\ FailExecution(c).points = g.points
  BY <1>3, <1>4 DEF IsHost, IdleHost, HostFields
<1> QED
  BY <1>3, <1>5 DEF SameCallers

LEMMA ReadyFaults ==
    ASSUME NEW c, NEW fs, NEW v, NEW l, NEW lock, NEW gas, Ready(c, fs, v, l, lock, gas),
           NEW k, IsBook(k)
    PROVE  Reached(FailExecution(c), "ErrExecutionFailed", fs, k, gas)
<1>1. IsHost(c) /\ Len(fs) \in Nat \ {0} /\ c.instance = Len(fs)
  BY ReadyFacts
<1>2. SameCallers(FailExecution(c), c, fs)
  BY <1>1, FaultCallers
<1>3. "ErrExecutionFailed" \notin Early \cup {"running", "Ok", "idle"}
  BY DEF Early
<1> QED
  BY <1>2, <1>3, ReadyFails

-----------------------------------------------------------------------------
(* The steps of the running contract.                                       *)

\* What is left to spend now; the step arrives where no more can be spent.
GasNow == Available(host, exit, frames)
Arrives == Reached(host', exit', frames', ledger', GasNow)

LEMMA ReadyNow ==
    ASSUME VMInv, GasInv, exit = "running"
    PROVE  /\ Ready(host, frames, frames[1].input.value, ledger, 0, GasNow)
           /\ host.runtime.gasLocked = 0
<1>1. PICK v : v = frames[1].input.value
  OBVIOUS
<1>2. Active(host, frames, v) /\ Level(host, frames, v) /\ IsHost(host)
  BY <1>1 DEF VMInv, Active, Level
<1>3. GasGood(host, "running", frames, ledger) /\ IsBook(ledger)
  BY DEF GasInv
<1>4. Stands(host, frames, ledger, 0) /\ host.runtime.gasLocked = 0
  BY <1>3 DEF Stands, GasGood
<1>5. GasLeft(host) \in Nat /\ Waiting(host, frames) \in Nat
  BY <1>2, GasIsNat, WaitingIsNat
<1>6. GasNow = GasLeft(host) + Waiting(host, frames)
  BY DEF GasNow, Available
<1>7. GasNow \in Nat /\ GasLeft(host) + 0 + Waiting(host, frames) <= GasNow
  BY <1>5, <1>6
<1> QED
  BY <1>1, <1>2, <1>4, <1>7 DEF Ready

LEMMA ReadyCharged ==
    ASSUME VMInv, GasInv, exit = "running", NEW gas \in Nat, NEW c, NEW fs, NEW v, NEW l,
           Charged(c, fs, v, l, gas)
    PROVE  /\ Ready(c, fs, v, l, 0, GasNow) /\ c.runtime.gasLocked = 0
           /\ c.runtime.scAddress = self
<1>1. PICK h : h = host
  OBVIOUS
<1>2. /\ Ready(h, fs, v, ledger, 0, GasNow) /\ h.runtime.gasLocked = 0
  BY <1>1, ReadyNow DEF Charged
<1>3. c = UseGas(h, gas) /\ l = Burn(ledger, h.runtime.scAddress, gas)
  BY <1>1 DEF Charged, self
<1>4. IsHost(h) /\ Len(fs) \in Nat \ {0} /\ h.instance = Len(fs)
  BY <1>2, ReadyFacts
<1>5. UsesMore(c, h, fs, gas) /\ c.output = h.output /\ c.runtime = h.runtime
  BY <1>3, <1>4, GasUses
<1>6. KeptHere(c, h)
  BY <1>3, <1>4, GasUseKeeps
<1>7. Ready(c, fs, v, l, 0, GasNow)
  BY <1>2, <1>3, <1>5, <1>6, ReadyBurns
<1> QED
  BY <1>1, <1>2, <1>5, <1>7 DEF self

LEMMA OpcodeSpends ==
    ASSUME VMInv, GasInv, Opcode PROVE Arrives
<1>1. exit = "running"
  BY DEF Opcode, Running
<1>2. PICK c, fs, v, l : Charged(c, fs, v, l, 1)
  BY <1>1, ChargedOnce, StepsAreNat
<1>3. Ready(c, fs, v, l, 0, GasNow) /\ c.runtime.gasLocked = 0
  BY <1>1, <1>2, ReadyCharged, StepsAreNat
<1>4. host' = c /\ ledger' = l /\ exit' = "running" /\ frames' = fs
  BY <1>2 DEF Opcode, Continue, Charged
<1>5. Reached(c, "running", fs, l, GasNow)
  BY <1>3, ReadyEnds
<1> QED
  BY <1>4, <1>5 DEF Arrives

LEMMA ContractStopsSpending ==
    ASSUME VMInv, GasInv, OutOfGas \/ Return PROVE Arrives
<1>1. exit = "running" /\ UNCHANGED <<host, frames, ledger>>
  BY DEF OutOfGas, Return
<1>2. PICK h, fs, v, l, x : /\ h = host /\ fs = frames /\ v = frames[1].input.value
                            /\ l = ledger /\ x = exit'
  OBVIOUS
<1>3. Ready(h, fs, v, l, 0, GasNow)
  BY <1>1, <1>2, ReadyNow
<1>4. CASE x = "Ok"
  <2>1. Reached(h, x, fs, l, GasNow)
    BY <1>3, <1>4, ReadyEnds
  <2> QED
    BY <1>1, <1>2, <2>1 DEF Arrives
<1>5. CASE x = "ErrNotEnoughGas"
  <2>1. SameCallers(h, h, fs) /\ IsBook(l)
    BY <1>3, ReadyFacts DEF SameCallers
  <2>2. x \notin Early \cup {"running", "Ok", "idle"}
    BY <1>5 DEF Early
  <2>3. Reached(h, x, fs, l, GasNow)
    BY <1>3, <2>1, <2>2, ReadyFails
  <2> QED
    BY <1>1, <1>2, <2>3 DEF Arrives
<1> QED
  BY <1>2, <1>4, <1>5 DEF OutOfGas, Return

LEMMA SignalErrorSpends ==
    ASSUME VMInv, GasInv, SignalError PROVE Arrives
<1>1. exit = "running"
  BY DEF SignalError, Running
<1>2. PICK c, fs, v, l : Charged(c, fs, v, l, ApiCost)
  BY <1>1, ChargedOnce, StepsAreNat
<1>3. Ready(c, fs, v, l, 0, GasNow)
  BY <1>1, <1>2, ReadyCharged, StepsAreNat
<1>4. PICK g : g = [c EXCEPT !.output.returnCode = "UserError"]
  OBVIOUS
<1>5. host' = g /\ ledger' = l /\ exit' = "ErrSignalError" /\ frames' = fs
  BY <1>2, <1>4 DEF SignalError, Charged
<1>6. SameCallers(g, c, fs) /\ IsBook(l)
  BY <1>3, <1>4, ReadyFacts DEF SameCallers, IsHost, IdleHost, HostFields
<1>7. "ErrSignalError" \notin Early \cup {"running", "Ok", "idle"}
  BY DEF Early
<1>8. Reached(g, "ErrSignalError", fs, l, GasNow)
  BY <1>3, <1>6, <1>7, ReadyFails
<1> QED
  BY <1>5, <1>8 DEF Arrives

LEMMA StorageSends ==
    ASSUME NEW c, IsHost(c), NEW value \in StorageValues
    PROVE  /\ SameBut(SetStorage(c, value), c, Outer)
           /\ Carriers(SetStorage(c, value).output) \subseteq Carriers(c.output)
<1>1. PICK a, o : a = c.storageAddress /\ o = c.output
  OBVIOUS
<1>2. a \in Accounts /\ IsOutput(o)
  BY <1>1 DEF IsHost, IdleHost
<1>3. PICK account, stored : /\ account = GetOutputAccount(o, a)
                             /\ stored = [account EXCEPT !.storage = value]
  OBVIOUS
<1>4. account \in AccountType
  BY <1>2, <1>3, GotAccount
<1>5. stored \in AccountType /\ stored.outputTransfers = account.outputTransfers
  BY <1>3, <1>4 DEF AccountType
<1>6. PICK p : p = SetOutputAccount(o, a, stored)
  OBVIOUS
<1>7. Carriers(p) \subseteq Carriers(o)
  BY <1>2, <1>3, <1>5, <1>6, SameTransfersSet
<1>8. SetStorage(c, value) = WithOutput(c, p)
  BY <1>1, <1>3, <1>6 DEF SetStorage, WithOutput
<1>9. SameBut(WithOutput(c, p), c, Outer) /\ WithOutput(c, p).output = p
  BY DEF SameBut, WithOutput, HostFields, IsHost, IdleHost, Outer
<1> QED
  BY <1>1, <1>7, <1>8, <1>9

LEMMA StorageStoreSpends ==
    ASSUME VMInv, GasInv, NEW value \in StorageValues, StorageStore(value) PROVE Arrives
<1>1. exit = "running"
  BY DEF StorageStore, Running
<1>2. PICK c, fs, v, l : Charged(c, fs, v, l, ApiCost)
  BY <1>1, ChargedOnce, StepsAreNat
<1>3. Ready(c, fs, v, l, 0, GasNow) /\ c.runtime.gasLocked = 0 /\ IsHost(c)
  BY <1>1, <1>2, ReadyCharged, StepsAreNat DEF Charged
<1>4. PICK g : g = SetStorage(c, value)
  OBVIOUS
<1>5. host' = g /\ ledger' = l /\ exit' = "running" /\ frames' = fs
  BY <1>2, <1>4 DEF StorageStore, Continue, Charged
<1>6. KeptHere(g, c) /\ SameBut(g, c, Outer) /\ Carriers(g.output) \subseteq Carriers(c.output)
  BY <1>3, <1>4, StoringKeeps, StorageSends
<1>7. Ready(g, fs, v, l, 0, GasNow) /\ g.runtime.gasLocked = 0
  BY <1>3, <1>6, ReadyChanges
<1>8. Reached(g, "running", fs, l, GasNow)
  BY <1>7, ReadyEnds
<1> QED
  BY <1>5, <1>8 DEF Arrives

LEMMA BigIntNewSpends ==
    ASSUME VMInv, GasInv, BigIntNew PROVE Arrives
<1>1. exit = "running"
  BY DEF BigIntNew, Running
<1>2. PICK c, fs, v, l : Charged(c, fs, v, l, ApiCost)
  BY <1>1, ChargedOnce, StepsAreNat
<1>3. Ready(c, fs, v, l, 0, GasNow) /\ c.runtime.gasLocked = 0 /\ IsHost(c)
  BY <1>1, <1>2, ReadyCharged, StepsAreNat DEF Charged
<1>4. PICK g : g = [c EXCEPT !.bigInt = @ + 1]
  OBVIOUS
<1>5. host' = g /\ ledger' = l /\ exit' = "running" /\ frames' = fs
  BY <1>2, <1>4 DEF BigIntNew, Continue, Charged
<1>6. SameBut(g, c, Outer) /\ SameBut(g, c, Inner) /\ g.bigInt = c.bigInt + 1
      /\ g.output = c.output /\ g.points = c.points /\ g.metering = c.metering
      /\ g.world = c.world /\ g.runtime = c.runtime
  BY <1>3, <1>4 DEF SameBut, HostFields, IsHost, IdleHost, Outer, Inner
<1>7. c.bigInt \in 0 .. MaxBigInts /\ c.bigInt < MaxBigInts
  <2>1. host.bigInt < MaxBigInts /\ c = UseGas(host, ApiCost) /\ IsHost(host)
    BY <1>1, <1>2 DEF BigIntNew, Charged, VMInv, Level
  <2>2. c.bigInt = host.bigInt
    BY <2>1, StepsAreNat, GasUsed DEF OnlyPoints, SameBut, HostFields
  <2> QED
    BY <1>3, <2>1, <2>2 DEF IsHost, IdleHost
<1>8. g.bigInt \in 0 .. MaxBigInts
  BY <1>6, <1>7, HostAssumption
<1>9. KeptHere(g, c)
  BY <1>3, <1>6, <1>8, InnerKeeps, SameCarries DEF IsHost, IdleHost
<1>10. Ready(g, fs, v, l, 0, GasNow) /\ g.runtime.gasLocked = 0
  BY <1>3, <1>6, <1>9, ReadyChanges
<1>11. Reached(g, "running", fs, l, GasNow)
  BY <1>10, ReadyEnds
<1> QED
  BY <1>5, <1>11 DEF Arrives

-----------------------------------------------------------------------------
(* Entering an execution.                                                   *)

\* The contexts p, pushed from the host c for the execution of input, are new.
Fresh(p, c, input) ==
    /\ p.points = c.points
    /\ p.metering = NewMetering(input.gas) /\ p.runtime = NewRuntime(input)
    /\ Carriers(p.output) \subseteq Carriers(c.output)

LEMMA NoBuiltinFresh ==
    ASSUME NEW h, IsHost(h), NEW input
    PROVE  Fresh(PushNoBuiltin(h, input), h, input)
<1>1. PICK h1 : h1 = OutputPushState(BigIntPushState(h))
  OBVIOUS
<1>2. DOMAIN h = HostFields /\ IsOutput(h.output)
  BY DEF IsHost, IdleHost
<1>3. SameBut(h1, h, {"outputStack", "bigIntStack"})
  BY <1>1, <1>2 DEF OutputPushState, BigIntPushState, SameBut, HostFields
<1>4. PICK h2 : h2 = MeteringPushState(RuntimePushState(h1))
  OBVIOUS
<1>5. SameBut(h2, h1, {"meteringStack", "runtimeStack", "instanceStack"})
  BY <1>3, <1>4 DEF MeteringPushState, RuntimePushState, SameBut, HostFields
<1>6. PICK h3 : h3 = StoragePushState(h2)
  OBVIOUS
<1>7. SameBut(h3, h2, {"storageStack"})
  BY <1>5, <1>6 DEF StoragePushState, SameBut, HostFields
<1>8. PICK p : p = PushNoBuiltin(h, input)
  OBVIOUS
<1>9. p = [h3 EXCEPT !.bigInt = 0, !.output = CensorVMOutput(@),
                     !.runtime = NewRuntime(input), !.metering = NewMetering(input.gas),
                     !.storageAddress = input.recipient]
  BY <1>1, <1>4, <1>6, <1>8 DEF PushNoBuiltin
<1>10. /\ p.output = CensorVMOutput(h3.output) /\ p.points = h3.points
       /\ p.runtime = NewRuntime(input) /\ p.metering = NewMetering(input.gas)
  BY <1>7, <1>9 DEF SameBut, HostFields
<1>11. h3.output = h.output /\ h3.points = h.points
  BY <1>3, <1>5, <1>7 DEF SameBut, HostFields
<1>12. p.output.accounts = h.output.accounts
  BY <1>2, <1>10, <1>11, CensoredCarries
<1>13. Carriers(p.output) = Carriers(h.output)
  BY <1>12 DEF Carriers
<1> QED
  BY <1>8, <1>10, <1>11, <1>13 DEF Fresh

LEMMA DestFresh ==
    ASSUME NEW h, IsHost(h), NEW input
    PROVE  Fresh(PushDestContexts(h, input), h, input)
<1>1. PICK g : g = BlockchainPushState(h)
  OBVIOUS
<1>2. IsHost(g) /\ SameBut(g, h, {"snapshots"})
  BY <1>1, SnapshotTaken
<1>3. g.points = h.points /\ g.output = h.output
  BY <1>2 DEF SameBut, HostFields
<1>4. Fresh(PushNoBuiltin(g, input), g, input)
  BY <1>2, NoBuiltinFresh
<1> QED
  BY <1>1, <1>3, <1>4 DEF Fresh, PushDestContexts

LEMMA SameFresh ==
    ASSUME NEW h, IsHost(h), NEW input
    PROVE  Fresh(PushSameContexts(h, input), h, input)
<1>1. PICK h1 : h1 = OutputPushState(BigIntPushState(BlockchainPushState(h)))
  OBVIOUS
<1>2. DOMAIN h = HostFields
  BY DEF IsHost, IdleHost
<1>3. SameBut(h1, h, {"outputStack", "bigIntStack", "snapshots"})
  BY <1>1, <1>2 DEF OutputPushState, BigIntPushState, BlockchainPushState, SameBut, HostFields
<1>4. PICK h2 : h2 = MeteringPushState(RuntimePushState(h1))
  OBVIOUS
<1>5. SameBut(h2, h1, {"meteringStack", "runtimeStack", "instanceStack"})
  BY <1>3, <1>4 DEF MeteringPushState, RuntimePushState, SameBut, HostFields
<1>6. PICK p : p = PushSameContexts(h, input)
  OBVIOUS
<1>7. p = [h2 EXCEPT !.runtime = NewRuntime(input), !.metering = NewMetering(input.gas)]
  BY <1>1, <1>4, <1>6 DEF PushSameContexts
<1>8. /\ p.output = h2.output /\ p.points = h2.points
      /\ p.runtime = NewRuntime(input) /\ p.metering = NewMetering(input.gas)
  BY <1>5, <1>7 DEF SameBut, HostFields
<1>9. h2.output = h.output /\ h2.points = h.points
  BY <1>3, <1>5 DEF SameBut, HostFields
<1> QED
  BY <1>6, <1>8, <1>9 DEF Fresh

Failures == {"ErrContractNotFound", "ErrNotEnoughGas", "ErrMaxInstancesReached"}

\* The metering state of an execution that has paid for its code.
Metered(m, k, cost, gas) ==
    /\ m.initialGasProvided = k.initialGasProvided /\ m.initialCost = cost
    /\ m.gasForExecution = gas - cost /\ m.gasUsedByAccounts = k.gasUsedByAccounts

\* How PrepareInstance started from h, with n callers.
Prepared(r, h, n, input) ==
    /\ r.host.meteringStack = h.meteringStack /\ r.host.output = h.output
    /\ r.host.runtime = h.runtime
    /\ \A i \in 1 .. n : r.host.points[i] = h.points[i]
    /\ r.exit \in {"running", "Ok"} \cup Failures
    /\ r.exit \in {"running", "Ok"} =>
          /\ input.recipient \in Contracts /\ CodeCost[input.recipient] <= input.gas
          /\ r.host.instance = n + 1 /\ r.host.points[n + 1] = 0
          /\ Metered(r.host.metering, h.metering, CodeCost[input.recipient], input.gas)

LEMMA InstanceFresh ==
    ASSUME NEW h, IsHost(h), NEW n \in Nat, IsStack(h.instanceStack, n),
           NEW g, g = StartWasmerInstance(h)
    PROVE  /\ SameBut(g, h, {"instance", "points"})
           /\ \A i \in 1 .. n : g.points[i] = h.points[i]
           /\ g.instance # 0 => g.instance = n + 1 /\ g.points[n + 1] = 0
<1>1. Len(h.instanceStack) = n
  BY StackLen
<1>2. DOMAIN h = HostFields /\ h.points \in PointsType
  BY DEF IsHost, IdleHost
<1>4. CASE n >= MaxInstances
  <2>1. g = [h EXCEPT !.instance = 0]
    BY <1>1, <1>4 DEF StartWasmerInstance
  <2> QED
    BY <1>2, <2>1 DEF SameBut, HostFields
<1>5. CASE ~(n >= MaxInstances)
  <2>1. g = [h EXCEPT !.instance = n + 1, !.points[n + 1] = 0]
    BY <1>1, <1>5 DEF StartWasmerInstance
  <2>2. /\ SameBut(g, h, {"instance", "points"}) /\ g.instance = n + 1
        /\ g.points = [h.points EXCEPT ![n + 1] = 0]
    BY <1>2, <2>1 DEF SameBut, HostFields
  <2>3. n + 1 \in 1 .. MaxInstances /\ \A i \in 1 .. n : i \in 1 .. MaxInstances /\ i # n + 1
    BY <1>5, ContextsAssumption
  <2>4. g.points[n + 1] = 0 /\ \A i \in 1 .. n : g.points[i] = h.points[i]
    BY <1>2, <2>2, <2>3 DEF PointsType
  <2> QED
    BY <2>2, <2>4
<1> QED
  BY <1>4, <1>5

LEMMA InitialGasPaid ==
    ASSUME NEW h, IsHost(h), NEW input, NEW cost, cost = CodeCost[input.recipient],
           NEW g, g = DeductInitialGas(h, input)
    PROVE  SameBut(g, h, {"metering"}) /\ Metered(g.metering, h.metering, cost, input.gas)
<1>1. PICK m : m = [h.metering EXCEPT !.initialCost = cost,
                                      !.gasForExecution = input.gas - cost]
  OBVIOUS
<1>2. IsMetering(h.metering) /\ DOMAIN h = HostFields
  BY DEF IsHost, IdleHost
<1>3. g = [h EXCEPT !.metering = m]
  BY <1>1, <1>2 DEF DeductInitialGas, HostFields
<1>4. SameBut(g, h, {"metering"}) /\ g.metering = m
  BY <1>2, <1>3 DEF SameBut, HostFields
<1>5. Metered(m, h.metering, cost, input.gas)
  BY <1>1, <1>2 DEF Metered, IsMetering, MeteringFields
<1> QED
  BY <1>4, <1>5

LEMMA InstanceReady ==
    ASSUME NEW h, IsHost(h), NEW n \in Nat, IsStack(h.instanceStack, n),
           NEW input, IsInput(input)
    PROVE  Prepared(PrepareInstance(h, input), h, n, input)
<1>1. PICK r, cost : r = PrepareInstance(h, input) /\ cost = CodeCost[input.recipient]
  OBVIOUS
<1>3. CASE input.recipient \notin Contracts
  <2>1. r.host = h /\ r.exit = "ErrContractNotFound"
    BY <1>1, <1>3 DEF PrepareInstance
  <2> QED
    BY <1>1, <2>1 DEF Prepared, Failures
<1>4. CASE input.recipient \in Contracts /\ cost > input.gas
  <2>1. r.host = h /\ r.exit = "ErrNotEnoughGas"
    BY <1>1, <1>4 DEF PrepareInstance
  <2> QED
    BY <1>1, <2>1 DEF Prepared, Failures
<1>5. CASE input.recipient \in Contracts /\ ~(cost > input.gas)
  <2>1. PICK h0 : h0 = DeductInitialGas(h, input)
    OBVIOUS
  <2>2. /\ IsHost(h0) /\ h0.instanceStack = h.instanceStack
        /\ SameBut(h0, h, {"metering"}) /\ Metered(h0.metering, h.metering, cost, input.gas)
    BY <1>1, <1>5, <2>1, InitialGasDeducted, InitialGasPaid DEF KeptHere, Kept
  <2>3. PICK h1 : h1 = StartWasmerInstance(h0)
    OBVIOUS
  <2>4. /\ SameBut(h1, h0, {"instance", "points"})
        /\ \A i \in 1 .. n : h1.points[i] = h0.points[i]
        /\ h1.instance # 0 => h1.instance = n + 1 /\ h1.points[n + 1] = 0
    BY <2>2, <2>3, InstanceFresh
  <2>5. /\ h1.metering = h0.metering /\ h1.meteringStack = h.meteringStack
        /\ h1.output = h.output /\ h1.runtime = h.runtime /\ h0.points = h.points
    BY <2>2, <2>4 DEF SameBut, HostFields
  <2>6. /\ r.host = h1 /\ r.exit \in {"running", "Ok", "ErrMaxInstancesReached"}
        /\ r.exit \in {"running", "Ok"} => h1.instance # 0
    BY <1>1, <1>5, <2>1, <2>3 DEF PrepareInstance
  <2>7. cost \in Nat /\ input.gas \in Nat
    BY <1>1, <1>5, AccountsFinite DEF IsInput
  <2>8. cost <= input.gas
    BY <1>5, <2>7
  <2>9. /\ \A i \in 1 .. n : h1.points[i] = h.points[i]
        /\ Metered(h1.metering, h.metering, cost, input.gas)
    BY <2>2, <2>4, <2>5
  <2> QED
    BY <1>1, <1>5, <2>4, <2>5, <2>6, <2>8, <2>9 DEF Prepared, Failures
<1> QED
  BY <1>3, <1>4, <1>5

\* How the execution of input started from p, called at level n.
Begins(r, p, n, input) ==
    /\ r.host.meteringStack = p.meteringStack /\ r.host.runtime = p.runtime
    /\ Carriers(r.host.output) \subseteq Carriers(p.output)
    /\ \A i \in 1 .. n - 1 : r.host.points[i] = p.points[i]
    /\ r.host.points[n] = p.points[n] + (IF r.exit \in Early THEN 0 ELSE input.gas)
    /\ r.exit \in {"running", "Ok"} \cup Failures \cup Early
    /\ r.exit \in {"running", "Ok"} =>
          /\ input.recipient \in Contracts /\ CodeCost[input.recipient] <= input.gas
          /\ r.host.instance = n + 1 /\ r.host.points[n + 1] = 0
          /\ Metered(r.host.metering, p.metering, CodeCost[input.recipient], input.gas)

LEMMA ExecutionBegins ==
    ASSUME NEW p, IsHost(p), NEW n \in Nat \ {0}, IsStack(p.instanceStack, n),
           p.instance = n, NEW input, IsInput(input)
    PROVE  Begins(execute(p, input), p, n, input)
<1>1. PICK r : r = execute(p, input)
  OBVIOUS
<1>2. GetPointsUsed(p) = p.points[n] /\ p.points[n] \in Nat
  <2>1. GetPointsUsed(p) = p.points[n]
    BY DEF GetPointsUsed
  <2> QED
    BY <2>1, GasIsNat
<1>3. CASE input.init
  <2>1. r.host = p /\ r.exit = "ErrInitFuncCalledInRun"
    BY <1>1, <1>3 DEF execute
  <2>2. r.exit \in Early /\ r.exit \notin {"running", "Ok"}
    BY <2>1 DEF Early
  <2> QED
    BY <1>1, <1>2, <2>1, <2>2 DEF Begins
<1>4. CASE ~input.init
  <2>1. PICK h, gas, fs : h = UseGas(p, gas) /\ gas = input.gas /\ fs = [i \in 1 .. n |-> i]
    OBVIOUS
  <2>2. gas \in Nat /\ Len(fs) = n
    BY <2>1 DEF IsInput
  <2>3. UsesMore(h, p, fs, gas) /\ h.output = p.output /\ SameBut(h, p, {"points"})
    BY <2>1, <2>2, GasUses
  <2>4. /\ IsHost(h) /\ h.instanceStack = p.instanceStack /\ h.instance = n
        /\ h.metering = p.metering /\ h.runtime = p.runtime
        /\ h.meteringStack = p.meteringStack
    BY <2>3 DEF UsesMore, SameBut, HostFields
  <2>5. /\ h.points[n] = p.points[n] + gas
        /\ \A i \in 1 .. n - 1 : h.points[i] = p.points[i]
    BY <1>2, <2>2, <2>3, <2>4 DEF UsesMore, SameCallers, GetPointsUsed
  <2>6. r = PrepareInstance(h, input)
    BY <1>1, <1>4, <2>1 DEF execute
  <2>7. Prepared(r, h, n, input)
    BY <2>4, <2>6, InstanceReady
  <2>8. r.exit \notin Early /\ r.exit \in {"running", "Ok"} \cup Failures
    BY <2>7 DEF Prepared, Failures, Early
  <2>9. /\ \A i \in 1 .. n - 1 : r.host.points[i] = p.points[i]
        /\ r.host.points[n] = p.points[n] + gas
    BY <2>5, <2>7 DEF Prepared
  <2> QED
    BY <1>1, <2>1, <2>3, <2>4, <2>7, <2>8, <2>9 DEF Prepared, Begins
<1> QED
  BY <1>3, <1>4

LEMMA ValueSends ==
    ASSUME NEW h, IsHost(h), NEW dest \in Accounts, NEW sender \in Accounts, NEW value \in Nat
    PROVE  /\ SameBut(TransferValueOnly(h, dest, sender, value), h, {"output"})
           /\ IsOutput(TransferValueOnly(h, dest, sender, value).output)
           /\ Carriers(TransferValueOnly(h, dest, sender, value).output)
                 \subseteq Carriers(h.output)
<1>1. PICK o, p : o = AddBalance(h.output, sender, -value) /\ p = AddBalance(o, dest, value)
  OBVIOUS
<1>2. IsOutput(h.output) /\ value \in Int /\ -value \in Int
  BY DEF IsHost, IdleHost
<1>3. IsOutput(o) /\ Carriers(o) \subseteq Carriers(h.output)
  BY <1>1, <1>2, CarriersOfBalance
<1>4. IsOutput(p) /\ Carriers(p) \subseteq Carriers(o)
  BY <1>1, <1>2, <1>3, CarriersOfBalance
<1>5. TransferValueOnly(h, dest, sender, value) = WithOutput(h, p)
  BY <1>1 DEF TransferValueOnly, WithOutput
<1>6. SameBut(WithOutput(h, p), h, {"output"}) /\ WithOutput(h, p).output = p
  BY DEF SameBut, WithOutput, HostFields, IsHost, IdleHost
<1> QED
  BY <1>3, <1>4, <1>5, <1>6

LEMMA TransferBegins ==
    ASSUME NEW p, IsHost(p), NEW n \in Nat \ {0}, IsStack(p.instanceStack, n),
           p.instance = n, NEW input, IsInput(input)
    PROVE  Begins(TransferAndExecute(p, input), p, n, input)
<1>1. PICK r, can : /\ r = TransferAndExecute(p, input)
                    /\ can = CanTransferValue(p, input.recipient, input.caller, input.value, FALSE)
  OBVIOUS
<1>2. CASE can
  <2>1. PICK g : g = TransferValueOnly(p, input.recipient, input.caller, input.value)
    OBVIOUS
  <2>2. SameBut(g, p, {"output"}) /\ Carriers(g.output) \subseteq Carriers(p.output)
    BY <2>1, ValueSends DEF IsInput
  <2>3. IsHost(g)
    <3>1. GetBalance(p, input.caller) >= input.value
      BY <1>1, <1>2 DEF CanTransferValue
    <3> QED
      BY <2>1, <3>1, ValueTransferKeeps DEF IsInput, KeptHere, Kept
  <2>4. /\ g.instanceStack = p.instanceStack /\ g.instance = n /\ g.points = p.points
        /\ g.metering = p.metering /\ g.meteringStack = p.meteringStack
        /\ g.runtime = p.runtime
    BY <2>2 DEF SameBut, HostFields
  <2>5. r = execute(g, input)
    BY <1>1, <1>2, <2>1 DEF TransferAndExecute
  <2>6. Begins(r, g, n, input)
    BY <2>3, <2>4, <2>5, ExecutionBegins
  <2> QED
    BY <1>1, <2>2, <2>4, <2>6 DEF Begins
<1>3. CASE ~can
  <2>1. r.host = p /\ r.exit = "ErrTransferInsufficientFunds"
    BY <1>1, <1>3 DEF TransferAndExecute
  <2>2. r.exit \in Early /\ r.exit \notin {"running", "Ok"}
    BY <2>1 DEF Early
  <2>3. p.points[n] \in Nat
    <3>1. GetPointsUsed(p) = p.points[n]
      BY DEF GetPointsUsed
    <3> QED
      BY <3>1, GasIsNat
  <2> QED
    BY <1>1, <2>1, <2>2, <2>3 DEF Begins
<1> QED
  BY <1>2, <1>3

(* The frame of the execution that is entered, and the host it is entered   *)
(* with.                                                                    *)
IsPush(gs, fs, f, n) ==
    /\ n = Len(fs) /\ n \in Nat \ {0} /\ Len(gs) = n + 1
    /\ \A i \in 1 .. n : gs[i] = fs[i]
    /\ gs[n + 1] = f

SameBelow(h, c, n) ==
    \A i \in 1 .. n - 1 : h.meteringStack[i] = c.meteringStack[i] /\ h.points[i] = c.points[i]

LEMMA EnteredCallers ==
    ASSUME NEW c, NEW fs, NEW n, NEW l, NEW lock,
           Stands(c, fs, l, lock), NEW f, NEW gs, IsPush(gs, fs, f, n),
           NEW h, SameBelow(h, c, n), NEW x, Waits(f, fs[n].ledger, fs[n].input.gas, h.meteringStack[n], h.points[n],
                        Paid(f, x))
    PROVE  Callers(h, x, gs) /\ gs[1].ledger = EmptyLedger
<1>3. /\ n = Len(fs) /\ n \in Nat \ {0} /\ Len(gs) = n + 1 /\ gs[n + 1] = f
  BY DEF IsPush
<1>4. \A i \in 1 .. n : gs[i] = fs[i]
  BY DEF IsPush
<1>5. \A i \in 1 .. n - 1 : h.meteringStack[i] = c.meteringStack[i] /\ h.points[i] = c.points[i]
  BY DEF SameBelow
<1>1. ASSUME NEW i \in 1 .. n
      PROVE  Waits(gs[i + 1], gs[i].ledger, gs[i].input.gas, h.meteringStack[i], h.points[i],
                   Paid(gs[i + 1], IF i + 1 = Len(gs) THEN x ELSE "running"))
  <2>1. CASE i = n
    <3>1. i \in 1 .. n
      BY <1>1
    <3>2. gs[i] = fs[n] /\ gs[i + 1] = f /\ i + 1 = Len(gs)
      BY <1>3, <1>4, <2>1, <3>1
    <3> QED
      BY <2>1, <3>2
  <2>2. CASE i # n
    <3>1. i \in 1 .. n - 1 /\ i + 1 \in 1 .. n /\ i + 1 # Len(gs)
      BY <1>1, <1>3, <2>2
    <3>2. gs[i] = fs[i] /\ gs[i + 1] = fs[i + 1]
      BY <1>1, <1>4, <3>1
    <3>3. Waits(fs[i + 1], fs[i].ledger, fs[i].input.gas, c.meteringStack[i], c.points[i],
                Paid(fs[i + 1], "running"))
      <4>1. (IF i + 1 = Len(fs) THEN "running" ELSE "running") = "running"
        OBVIOUS
      <4> QED
        BY <1>3, <3>1, <4>1 DEF Stands, Callers
    <3> QED
      BY <1>5, <3>1, <3>2, <3>3
  <2> QED
    BY <2>1, <2>2
<1>2. Len(gs) - 1 = n /\ 1 \in 1 .. n
  BY <1>3
<1> QED
  BY <1>1, <1>2, <1>4 DEF Callers, Stands

LEMMA EnterReached ==
    ASSUME NEW c, NEW fs, NEW v, NEW l, NEW lock, NEW gas, Ready(c, fs, v, l, lock, gas),
           fs[1].input.value = v, NEW kind, kind # "top", NEW input, IsInput(input),
           input.gas <= GasLeft(c),
           kind = "asyncDest" => input.recipient \in Contracts,
           kind = "esdt" => c.world # 0,
           lock = IF kind = "asyncDest" THEN c.runtime.gasLocked ELSE 0,
           kind = "asyncDest" => /\ GetPointsUsed(c) <= c.metering.gasForExecution
                                 /\ lock <= GetPointsUsed(c),
           kind \notin {"asyncDest", "callback"} => c.runtime.gasLocked = 0,
           NEW p, PushedFrom(p, c, kind, input), Fresh(p, c, input),
           EnterFrom(fs, c, l, kind, input, TransferAndExecute(p, input))
    PROVE  Reached(host', exit', frames', ledger', gas)
<1>1. PICK r, f, gs, n : /\ r = TransferAndExecute(p, input) /\ f = Frame(kind, input, c, l)
                         /\ gs = Append(fs, f) /\ n = Len(fs)
  OBVIOUS
<1>2. PICK g, x, k : g = r.host /\ x = r.exit /\ k = ledger'
  OBVIOUS
<1>3. /\ host' = g /\ exit' = x /\ frames' = gs
      /\ k = IF x \in {"running", "Ok"}
             THEN Burn(l, input.recipient, CodeCost[input.recipient]) ELSE l
  BY <1>1, <1>2 DEF EnterFrom
<1>4. /\ IsHost(c) /\ Level(c, fs, v) /\ n \in Nat \ {0} /\ IsBook(l) /\ c.instance = n
      /\ GetPointsUsed(c) \in Nat /\ GasLeft(c) \in Nat /\ Waiting(c, fs) \in Nat
      /\ c.metering.gasForExecution \in Nat /\ input.gas \in Nat
      /\ GasLeft(c) = SubUint64(c.metering.gasForExecution, GetPointsUsed(c))
      /\ Sends(l, c.output)
  BY <1>1, ReadyFacts DEF IsInput
<1>5. /\ Active(c, fs, v) /\ IsLedger(l) /\ Stands(c, fs, l, lock) /\ lock \in Nat
      /\ gas \in Nat /\ GasLeft(c) + lock + Waiting(c, fs) <= gas
  BY <1>4, BooksAreLedgers DEF Ready
<1>6. IsFrame(f, n + 1, v) /\ IsCallStack(fs, v)
  BY <1>1, <1>4, <1>5, FrameMade DEF Level
<1>7. /\ Len(gs) = n + 1 /\ \A i \in 1 .. n : gs[i] = fs[i]
      /\ gs[n + 1] = f
  BY <1>1, <1>6, PushedCallStack
<1>8. Level(g, gs, v)
  <2>1. Good(host', exit', frames', v)
    BY <1>5, Entered
  <2> QED
    BY <1>3, <2>1 DEF Good
<1>9. /\ p.instance = n /\ IsHost(p) /\ IsStack(p.instanceStack, n)
      /\ p.meteringStack[n] = c.metering
      /\ \A i \in 1 .. n - 1 : p.meteringStack[i] = c.meteringStack[i]
  <2>1. PICK d : d = StorageDepth(fs, n)
    OBVIOUS
  <2>2. StackSizes(c, n - 1, d) /\ d \in Nat /\ n - 1 \in Nat
    BY <1>1, <1>4, <2>1, StorageDepths DEF Level
  <2>3. StacksPushed(p, c, n - 1)
    BY <2>2, PushedStacks
  <2>4. (n - 1) + 1 = n
    BY <1>4
  <2> QED
    BY <1>4, <2>3, <2>4 DEF StacksPushed, PushOf, PushedFrom
<1>10. Begins(r, p, n, input)
  BY <1>1, <1>4, <1>9, TransferBegins
<1>11. /\ p.points = c.points /\ p.metering = NewMetering(input.gas)
       /\ p.runtime = NewRuntime(input) /\ Carriers(p.output) \subseteq Carriers(c.output)
  BY DEF Fresh
<1>12. GetPointsUsed(c) = c.points[n]
  BY <1>4 DEF GetPointsUsed
<1>13. /\ g.meteringStack[n] = c.metering /\ g.points[n] = c.points[n] + Paid(f, x)
       /\ \A i \in 1 .. n - 1 : /\ g.meteringStack[i] = c.meteringStack[i]
                                /\ g.points[i] = c.points[i]
  <2>1. f.input = input
    BY <1>1 DEF Frame
  <2> QED
    BY <1>2, <1>9, <1>10, <1>11, <2>1 DEF Begins, Paid
<1>14. /\ f.kind = kind /\ f.input = input /\ f.ledger = l
       /\ f.before.points = c.points[n] /\ f.before.runtime = c.runtime
       /\ f.before.output = c.output /\ LockOf(f) = lock
  BY <1>1, <1>12 DEF Frame, LockOf
<1>15. Waits(f, fs[n].ledger, fs[n].input.gas, g.meteringStack[n], g.points[n], Paid(f, x))
  <2>1. /\ Accounted(l, fs[n].ledger, c.metering, c.points[n], c.runtime.scAddress, lock)
        /\ Provided(c.metering, fs[n].input.gas)
    BY <1>1, <1>5, <1>12 DEF Stands, Open
  <2>2. input.gas <= SubUint64(c.metering.gasForExecution, c.points[n])
    BY <1>4, <1>12
  <2>3. kind = "asyncDest" => /\ c.points[n] <= c.metering.gasForExecution
                              /\ c.runtime.gasLocked <= c.points[n]
    BY <1>12
  <2>4. f.before.points \in Nat
    BY <1>4, <1>12, <1>14
  <2> QED
    BY <1>4, <1>13, <1>14, <2>1, <2>2, <2>3, <2>4 DEF Waits
<1>16. Callers(g, x, gs) /\ gs[1].ledger = EmptyLedger
  <2>1. IsPush(gs, fs, f, n)
    BY <1>1, <1>4, <1>7 DEF IsPush
  <2>2. SameBelow(g, c, n)
    BY <1>13 DEF SameBelow
  <2> QED
    BY <1>5, <1>15, <2>1, <2>2, EnteredCallers
<1>17. Waiting(g, gs) = Waiting(c, fs) + WaitingGas(g, gs, n)
  <2>1. Level(c, fs, v) /\ Level(g, gs, v) /\ n = Len(fs)
    BY <1>1, <1>4, <1>8
  <2>2. \A i \in 1 .. Len(fs) : gs[i] = fs[i]
    BY <1>1, <1>7
  <2>3. Len(gs) = Len(fs) + 1
    BY <1>1, <1>7
  <2>4. \A i \in 1 .. Len(fs) - 1 : /\ g.meteringStack[i] = c.meteringStack[i]
                                    /\ g.points[i] = c.points[i]
    BY <1>1, <1>13
  <2>5. Waiting(g, gs) = Waiting(c, fs) + WaitingGas(g, gs, Len(fs))
    BY <2>1, <2>2, <2>3, <2>4, WaitingPushed
  <2> QED
    BY <2>1, <2>5
<1>18. PICK q, limit, paid : /\ q = GetPointsUsed(c) /\ limit = c.metering.gasForExecution
                             /\ paid = Paid(f, x)
  OBVIOUS
<1>19. /\ q \in Nat /\ limit \in Nat /\ WaitingGas(g, gs, n) = SubUint64(limit, q + paid) + lock
       /\ paid \in {0, input.gas} /\ GasLeft(c) = SubUint64(limit, q)
  BY <1>4, <1>7, <1>12, <1>13, <1>14, <1>18 DEF WaitingGas, Paid
<1>20. CASE x \in {"running", "Ok"}
  <2>1. PICK s, cost, m : s = input.recipient /\ cost = CodeCost[s] /\ m = g.metering
    OBVIOUS
  <2>2. /\ s \in Contracts /\ s \in Accounts /\ cost \in Nat /\ cost <= input.gas
        /\ g.instance = n + 1 /\ g.points[n + 1] = 0
        /\ Metered(m, p.metering, cost, input.gas)
    BY <1>2, <1>10, <1>20, <2>1, AccountsFinite DEF Begins
  <2>3. /\ m.initialGasProvided = input.gas /\ m.initialCost = cost
        /\ m.gasForExecution = input.gas - cost /\ m.gasUsedByAccounts = << >>
    BY <1>11, <2>2 DEF Metered, NewMetering
  <2>4. \A a : GasUsedBy(m, a) = 0
    BY <2>3, EmptyFrames DEF GasUsedBy
  <2>5. GetPointsUsed(g) = 0 /\ GasLeft(g) = input.gas - cost
    BY <1>4, <2>1, <2>2, <2>3 DEF GetPointsUsed, GasLeft, SubUint64
  <2>6. /\ g.runtime.scAddress = s /\ g.runtime.gasLocked = 0
        /\ Carriers(g.output) \subseteq Carriers(c.output)
    BY <1>2, <1>10, <1>11, <2>1 DEF Begins, NewRuntime
  <2>7. BurntBy(k, l, s, cost)
    BY <1>3, <1>4, <1>20, <2>1, <2>2, Burning
  <2>8. /\ IsBook(k) /\ Grows(k, l) /\ Spent(k) = Spent(l) + cost
        /\ \A a \in Accounts \ {s} : k.burnt[a] = l.burnt[a]
    BY <2>7 DEF BurntBy
  <2>9. Accounted(k, l, m, 0, s, 0)
    <3>1. Spent(l) \in Nat /\ \A a \in Accounts : l.burnt[a] \in Nat
      BY <1>4, BooksAreLedgers
    <3>2. Spent(k) + 0 = Spent(l) + m.initialCost + 0
      BY <2>2, <2>3, <2>8, <3>1
    <3>3. \A a \in Accounts \ {s} : k.burnt[a] = l.burnt[a] + GasUsedBy(m, a)
      BY <2>4, <2>8, <3>1
    <3> QED
      BY <2>8, <3>2, <3>3 DEF Accounted
  <2>10. Sends(k, g.output)
    BY <1>4, <2>6, <2>8, SoundBefore DEF Sends
  <2>11. Provided(m, input.gas)
    BY <1>4, <2>2, <2>3 DEF Provided
  <2>12. gs[Len(gs)].ledger = l /\ gs[Len(gs)].input.gas = input.gas
    BY <1>7, <1>14
  <2>13. Open(g, gs, k, 0)
    BY <1>7, <2>1, <2>2, <2>5, <2>6, <2>9, <2>10, <2>11, <2>12 DEF Open
  <2>14. GasGood(g, x, gs, k)
    BY <1>16, <2>6, <2>13 DEF GasGood
  <2>15. Available(g, x, gs) = GasLeft(g) + Waiting(g, gs) /\ paid = input.gas
    BY <1>14, <1>18, <1>20 DEF Available, Paid, Early
  <2>16. Available(g, x, gs) <= gas
    <3>1. PICK i, w, left, old : /\ i = input.gas /\ w = Waiting(c, fs) /\ left = GasLeft(g)
                                 /\ old = GasLeft(c)
      OBVIOUS
    <3>2. /\ i \in Nat /\ w \in Nat /\ left \in Nat /\ left <= i /\ old \in Nat /\ i <= old
          /\ lock \in Nat /\ old = SubUint64(limit, q) /\ old + lock + w <= gas
          /\ q \in Nat /\ limit \in Nat /\ gas \in Nat
      BY <1>4, <1>5, <1>19, <2>2, <2>5, <3>1
    <3>3. Available(g, x, gs) = left + (w + (SubUint64(limit, q + i) + lock))
      BY <1>17, <1>19, <2>15, <3>1
    <3>4. SubUint64(limit, q + i) = old - i
      BY <3>2 DEF SubUint64
    <3> QED
      BY <3>2, <3>3, <3>4
  <2> QED
    BY <1>2, <1>3, <1>20, <2>8, <2>14, <2>16 DEF Reached
<1>21. CASE x \notin {"running", "Ok"}
  <2>1. k = l /\ x # "idle"
    BY <1>2, <1>3, <1>10, <1>21 DEF Begins, Failures, Early
  <2>2. GasGood(g, x, gs, k)
    BY <1>16, <1>21 DEF GasGood
  <2>3. Available(g, x, gs) = 0 + Waiting(g, gs)
    BY <1>21 DEF Available
  <2>4. Available(g, x, gs) <= gas
    BY <1>4, <1>5, <1>17, <1>19, <2>3 DEF SubUint64
  <2> QED
    BY <1>2, <1>3, <1>4, <2>1, <2>2, <2>4 DEF Reached
<1> QED
  BY <1>20, <1>21

(* A step into an execution on another context. *)
LEMMA EnterDestReached ==
    ASSUME NEW c, NEW fs, NEW v, NEW l, NEW gas, Ready(c, fs, v, l, 0, gas),
           fs[1].input.value = v, frames = fs,
           NEW kind, kind \notin {"top", "same", "asyncDest"}, NEW input, IsInput(input),
           input.gas <= GasLeft(c), kind = "esdt" => c.world # 0,
           kind # "callback" => c.runtime.gasLocked = 0,
           EnterDest(c, l, kind, input)
    PROVE  Reached(host', exit', frames', ledger', gas)
<1>1. PICK p : p = PushDestContexts(c, input)
  OBVIOUS
<1>2. IsHost(c) /\ Active(c, fs, v)
  BY DEF Ready
<1>3. PushedFrom(p, c, kind, input) /\ Fresh(p, c, input)
  BY <1>1, <1>2, DestPushed, DestFresh
<1>4. EnterFrom(fs, c, l, kind, input, TransferAndExecute(p, input))
  BY <1>1 DEF EnterDest, Enter, EnterFrom
<1> QED
  BY <1>3, <1>4, EnterReached

LEMMA FaultReached ==
    ASSUME NEW c, NEW fs, NEW v, NEW l, NEW lock, NEW gas, Ready(c, fs, v, l, lock, gas),
           frames = fs, NEW k, IsBook(k), Fault(c, k)
    PROVE  Reached(host', exit', frames', ledger', gas)
<1>1. /\ host' = FailExecution(c) /\ exit' = "ErrExecutionFailed" /\ ledger' = k
      /\ frames' = fs
  BY DEF Fault
<1>2. Reached(FailExecution(c), "ErrExecutionFailed", fs, k, gas)
  BY ReadyFaults
<1> QED
  BY <1>1, <1>2

LEMMA ContinueReached ==
    ASSUME NEW c, NEW fs, NEW v, NEW l, NEW gas, Ready(c, fs, v, l, 0, gas),
           frames = fs, c.runtime.gasLocked = 0, Continue(c, l)
    PROVE  Reached(host', exit', frames', ledger', gas)
<1>1. host' = c /\ exit' = "running" /\ ledger' = l /\ frames' = fs
  BY DEF Continue
<1>2. Reached(c, "running", fs, l, gas)
  BY ReadyEnds
<1> QED
  BY <1>1, <1>2

LEMMA BoundedGas ==
    ASSUME NEW c, IsHost(c), NEW limit \in Nat
    PROVE  BoundGasLimit(c, limit) \in Nat /\ BoundGasLimit(c, limit) <= GasLeft(c)
<1>1. GasLeft(c) \in Nat
  BY GasIsNat
<1> QED
  BY <1>1 DEF BoundGasLimit

LEMMA ExecuteOnDestContextSpends ==
    ASSUME VMInv, GasInv, NEW dest \in Accounts, NEW gasLimit \in GasLimits,
           NEW value \in CallValues, NEW init,
           ExecuteOnDestContext(dest, gasLimit, value, init)
    PROVE  Arrives
<1>1. PICK c, fs, v, l : Charged(c, fs, v, l, ApiCost) /\ exit = "running"
  BY ChargedOnce, StepsAreNat DEF ExecuteOnDestContext, Running
<1>2. PICK a, b, input : /\ a = self /\ b = BoundGasLimit(c, gasLimit)
                         /\ input = Input(a, dest, value, b, "DirectCall", init)
  OBVIOUS
<1>3. Ready(c, fs, v, l, 0, GasNow) /\ c.runtime.gasLocked = 0
  BY <1>1, ReadyCharged, StepsAreNat
<1>4. /\ IsHost(c) /\ fs[1].input.value = v /\ frames = fs /\ a \in Accounts
      /\ gasLimit \in Nat /\ value \in Nat /\ "DirectCall" \in KnownCallTypes /\ IsBook(l)
  BY <1>1, <1>2, <1>3, StepsAreNat, ReadyFacts DEF Charged, KnownCallTypes
<1>5. b \in Nat /\ b <= GasLeft(c)
  BY <1>2, <1>4, BoundedGas
<1>6. IsInput(input) /\ input.gas = b
  BY <1>2, <1>4, <1>5, InputMade DEF Input
<1>7. CASE AreInSameShard(self, dest)
  <2>1. EnterDest(c, l, "dest", input)
    BY <1>1, <1>2, <1>7 DEF ExecuteOnDestContext, Charged
  <2> QED
    BY <1>3, <1>4, <1>5, <1>6, <2>1, EnterDestReached DEF Arrives
<1>8. CASE ~AreInSameShard(self, dest)
  <2>1. Fault(c, l)
    BY <1>1, <1>8 DEF ExecuteOnDestContext, Charged
  <2> QED
    BY <1>3, <1>4, <2>1, FaultReached DEF Arrives
<1> QED
  BY <1>7, <1>8

LEMMA ExecuteOnSameContextSpends ==
    ASSUME VMInv, GasInv, NEW dest \in Accounts, NEW gasLimit \in GasLimits,
           NEW value \in CallValues, ExecuteOnSameContext(dest, gasLimit, value)
    PROVE  Arrives
<1>1. PICK c, fs, v, l : Charged(c, fs, v, l, ApiCost) /\ exit = "running"
  BY ChargedOnce, StepsAreNat DEF ExecuteOnSameContext, Running
<1>2. PICK a, b, input : /\ a = self /\ b = BoundGasLimit(c, gasLimit)
                         /\ input = Input(a, dest, value, b, "DirectCall", FALSE)
  OBVIOUS
<1>3. Ready(c, fs, v, l, 0, GasNow) /\ c.runtime.gasLocked = 0
  BY <1>1, ReadyCharged, StepsAreNat
<1>4. /\ IsHost(c) /\ fs[1].input.value = v /\ frames = fs /\ a \in Accounts
      /\ gasLimit \in Nat /\ value \in Nat /\ "DirectCall" \in KnownCallTypes /\ IsBook(l)
      /\ Active(c, fs, v)
  BY <1>1, <1>2, <1>3, StepsAreNat, ReadyFacts DEF Charged, KnownCallTypes
<1>5. b \in Nat /\ b <= GasLeft(c)
  BY <1>2, <1>4, BoundedGas
<1>6. IsInput(input) /\ input.gas = b
  BY <1>2, <1>4, <1>5, InputMade DEF Input
<1>7. CASE AreInSameShard(self, dest)
  <2>1. PICK p : p = PushSameContexts(c, input)
    OBVIOUS
  <2>2. PushedFrom(p, c, "same", input) /\ Fresh(p, c, input)
    BY <1>4, <1>6, <2>1, SamePushed, SameFresh
  <2>3. EnterFrom(fs, c, l, "same", input, TransferAndExecute(p, input))
    BY <1>1, <1>2, <1>7, <2>1 DEF ExecuteOnSameContext, Enter, EnterFrom, Charged
  <2> QED
    BY <1>3, <1>4, <1>5, <1>6, <2>2, <2>3, EnterReached DEF Arrives
<1>8. CASE ~AreInSameShard(self, dest)
  <2>1. Fault(c, l)
    BY <1>1, <1>8 DEF ExecuteOnSameContext, Charged
  <2> QED
    BY <1>3, <1>4, <2>1, FaultReached DEF Arrives
<1> QED
  BY <1>7, <1>8

LEMMA TransferSends ==
    ASSUME NEW h, IsHost(h), NEW dest \in Accounts, NEW sender \in Accounts, NEW value \in Nat,
           NEW gasLimit \in Nat, NEW gasLocked \in Nat,
           NEW g, g = Transfer(h, dest, sender, gasLimit, gasLocked, value)
    PROVE  /\ SameBut(g, h, Outer)
           /\ Carriers(g.output) \subseteq Carriers(h.output)
                 \cup (IF gasLimit + gasLocked = 0 THEN {} ELSE {dest})
<1>1. PICK t : t = TransferValueOnly(h, dest, sender, value)
  OBVIOUS
<1>2. /\ SameBut(t, h, {"output"}) /\ IsOutput(t.output)
      /\ Carriers(t.output) \subseteq Carriers(h.output)
  BY <1>1, ValueSends
<1>3. PICK o : o = WithOutputTransfer(t.output, dest, gasLimit, gasLocked)
  OBVIOUS
<1>4. Carriers(o) \subseteq Carriers(t.output)
          \cup (IF gasLimit + gasLocked = 0 THEN {} ELSE {dest})
  BY <1>2, <1>3, CarriersOfTransfer
<1>5. g = [t EXCEPT !.output = o]
  BY <1>1, <1>3 DEF Transfer, AddOutputTransfer
<1>6. g.output = o /\ SameBut(g, t, {"output"})
  BY <1>2, <1>5 DEF SameBut, HostFields
<1>7. SameBut(g, h, Outer)
  BY <1>2, <1>6 DEF SameBut, Outer
<1> QED
  BY <1>2, <1>4, <1>6, <1>7

LEMMA OutputTransferSends ==
    ASSUME NEW h, IsHost(h), NEW dest \in Accounts,
           NEW gasLimit \in Nat, NEW gasLocked \in Nat,
           NEW g, g = AddOutputTransfer(h, dest, gasLimit, gasLocked)
    PROVE  /\ SameBut(g, h, Outer)
           /\ Carriers(g.output) \subseteq Carriers(h.output)
                 \cup (IF gasLimit + gasLocked = 0 THEN {} ELSE {dest})
<1>1. IsOutput(h.output) /\ DOMAIN h = HostFields
  BY DEF IsHost, IdleHost
<1>2. PICK o : o = WithOutputTransfer(h.output, dest, gasLimit, gasLocked)
  OBVIOUS
<1>3. Carriers(o) \subseteq Carriers(h.output)
          \cup (IF gasLimit + gasLocked = 0 THEN {} ELSE {dest})
  BY <1>1, <1>2, CarriersOfTransfer
<1>4. g = [h EXCEPT !.output = o]
  BY <1>2 DEF AddOutputTransfer
<1>5. g.output = o /\ SameBut(g, h, Outer)
  BY <1>1, <1>4 DEF SameBut, HostFields, Outer
<1> QED
  BY <1>3, <1>5

LEMMA TransferValueExecuteSpends ==
    ASSUME VMInv, GasInv, NEW dest \in Accounts, NEW gasLimit \in GasLimits,
           NEW value \in CallValues, NEW function,
           TransferValueExecute(dest, gasLimit, value, function)
    PROVE  Arrives
<1>1. PICK c, fs, v, l : Charged(c, fs, v, l, 2 * ApiCost) /\ exit = "running"
  BY ChargedOnce, StepsAreNat DEF TransferValueExecute, Running
<1>2. PICK a, b, input : /\ a = self /\ b = BoundGasLimit(c, gasLimit)
                         /\ input = Input(a, dest, value, b, "DirectCall", FALSE)
  OBVIOUS
<1>3. Ready(c, fs, v, l, 0, GasNow) /\ c.runtime.gasLocked = 0
  BY <1>1, ReadyCharged, StepsAreNat
<1>4. /\ IsHost(c) /\ fs[1].input.value = v /\ frames = fs /\ a \in Accounts
      /\ gasLimit \in Nat /\ value \in Nat /\ "DirectCall" \in KnownCallTypes /\ IsBook(l)
      /\ 0 \in Nat
  BY <1>1, <1>2, <1>3, StepsAreNat, ReadyFacts DEF Charged, KnownCallTypes
<1>5. b \in Nat /\ b <= GasLeft(c)
  BY <1>2, <1>4, BoundedGas
<1>6. IsInput(input) /\ input.gas = b
  BY <1>2, <1>4, <1>5, InputMade DEF Input
<1>7. CASE function /\ AreInSameShard(self, dest) /\ IsSmartContract(dest)
  <2>1. EnterDest(c, l, "transfer", input)
    BY <1>1, <1>2, <1>7 DEF TransferValueExecute, Charged
  <2> QED
    BY <1>3, <1>4, <1>5, <1>6, <2>1, EnterDestReached DEF Arrives
<1>8. CASE /\ ~(function /\ AreInSameShard(self, dest) /\ IsSmartContract(dest))
           /\ CanTransferValue(c, dest, a, value, gasLimit > 0)
  <2>1. PICK g, m : /\ g = Transfer(c, dest, a, gasLimit, 0, value)
                    /\ m = [l EXCEPT !.unfunded = @ + gasLimit]
    OBVIOUS
  <2>2. Continue(g, m)
    BY <1>1, <1>2, <1>8, <2>1 DEF TransferValueExecute, Charged
  <2>3. KeptHere(g, c)
    BY <1>4, <1>8, <2>1, TransferKeeps DEF CanTransferValue
  <2>4. /\ SameBut(g, c, Outer)
        /\ Carriers(g.output) \subseteq Carriers(c.output)
              \cup (IF gasLimit + 0 = 0 THEN {} ELSE {dest})
    BY <1>4, <2>1, TransferSends
  <2>5. Carriers(g.output) \subseteq Carriers(c.output)
              \cup (IF gasLimit = 0 THEN {} ELSE {dest})
    BY <1>4, <2>4
  <2>6. Ready(g, fs, v, m, 0, GasNow) /\ g.runtime = c.runtime
    BY <1>3, <1>4, <2>1, <2>3, <2>4, <2>5, ReadySendsUnfunded
  <2> QED
    BY <1>3, <1>4, <2>2, <2>6, ContinueReached DEF Arrives
<1>9. CASE /\ ~(function /\ AreInSameShard(self, dest) /\ IsSmartContract(dest))
           /\ ~CanTransferValue(c, dest, a, value, gasLimit > 0)
  <2>1. Fault(c, l)
    BY <1>1, <1>2, <1>9 DEF TransferValueExecute, Charged
  <2> QED
    BY <1>3, <1>4, <2>1, FaultReached DEF Arrives
<1> QED
  BY <1>7, <1>8, <1>9

LEMMA ReadyUses ==
    ASSUME NEW c, NEW fs, NEW v, NEW l, NEW lock, NEW gas, Ready(c, fs, v, l, lock, gas),
           NEW used \in Nat, NEW g, g = UseGas(c, used),
           NEW s, s = c.runtime.scAddress, NEW k, k = Burn(l, s, used)
    PROVE  /\ Ready(g, fs, v, k, lock, gas) /\ g.runtime = c.runtime /\ KeptHere(g, c)
           /\ UsesMore(g, c, fs, used) /\ g.output = c.output
<1>1. IsHost(c) /\ Len(fs) \in Nat \ {0} /\ c.instance = Len(fs)
  BY ReadyFacts
<1>2. UsesMore(g, c, fs, used) /\ g.output = c.output /\ g.runtime = c.runtime
  BY <1>1, GasUses
<1>3. KeptHere(g, c)
  BY <1>1, GasUseKeeps
<1> QED
  BY <1>2, <1>3, ReadyBurns

\* The token is moved, its cost is burnt.
LEMMA ReadyMovesToken ==
    ASSUME NEW c, NEW fs, NEW v, NEW l, NEW gas, Ready(c, fs, v, l, 0, gas),
           NEW moved, moved = ExecuteESDTTransfer(c), moved.err = "Ok",
           NEW s, s = c.runtime.scAddress, NEW k, k = Burn(l, s, EsdtCost)
    PROVE  /\ Ready(moved.host, fs, v, k, 0, gas) /\ moved.host.runtime = c.runtime
           /\ moved.host.world # 0
<1>1. PICK u : u = UseGas(c, EsdtCost)
  OBVIOUS
<1>2. Ready(u, fs, v, k, 0, gas) /\ u.runtime = c.runtime /\ KeptHere(u, c)
  BY <1>1, StepsAreNat, ReadyUses
<1>3. PICK g : g = [u EXCEPT !.world = @ + 1]
  OBVIOUS
<1>4. IsHost(u)
  BY <1>2 DEF KeptHere, Kept
<1>5. KeptHere(g, u) /\ g.world # 0
  BY <1>3, <1>4, TokenMoved
<1>6. SameBut(g, u, Outer) /\ g.output = u.output
  BY <1>3, <1>4 DEF SameBut, Outer, HostFields, IsHost, IdleHost
<1>7. Ready(g, fs, v, k, 0, gas) /\ g.runtime = u.runtime
  BY <1>2, <1>5, <1>6, ReadyChanges
<1>8. moved.host = g
  BY <1>1, <1>3 DEF ExecuteESDTTransfer
<1> QED
  BY <1>2, <1>5, <1>7, <1>8

LEMMA TransferESDTExecuteSpends ==
    ASSUME VMInv, GasInv, NEW dest \in Accounts, NEW gasLimit \in GasLimits, NEW function,
           TransferESDTExecute(dest, gasLimit, function)
    PROVE  Arrives
<1>1. PICK c, fs, v, l : Charged(c, fs, v, l, ApiCost) /\ exit = "running"
  BY ChargedOnce, StepsAreNat DEF TransferESDTExecute, Running
<1>2. PICK a, moved, provided, isExecution :
          /\ a = self /\ moved = ExecuteESDTTransfer(c)
          /\ provided = BoundGasLimit(c, gasLimit)
          /\ isExecution = (function /\ IsSmartContract(dest))
  OBVIOUS
<1>3. PICK h, m, remaining : /\ h = moved.host /\ m = Burn(l, a, EsdtCost)
                             /\ remaining = provided - EsdtCost
  OBVIOUS
<1>4. Ready(c, fs, v, l, 0, GasNow) /\ c.runtime.gasLocked = 0 /\ c.runtime.scAddress = a
  BY <1>1, <1>2, ReadyCharged, StepsAreNat
<1>5. /\ IsHost(c) /\ fs[1].input.value = v /\ frames = fs /\ a \in Accounts
      /\ gasLimit \in Nat /\ "DirectCall" \in KnownCallTypes /\ IsBook(l)
      /\ 0 \in Nat /\ EsdtCost \in Nat /\ a \in Contracts
  BY <1>1, <1>2, <1>4, StepsAreNat, ReadyFacts DEF Charged, KnownCallTypes
<1>6. provided \in Nat
  BY <1>2, <1>5, BoundedGas
<1>7. IF moved.err # "Ok" THEN Fault(c, l)
      ELSE IF isExecution /\ (EsdtCost > provided \/ remaining > GasLeft(h))
      THEN Fault(h, m)
      ELSE IF ~isExecution THEN Continue(AddOutputTransfer(h, dest, 0, 0), m)
      ELSE IF AreInSameShard(self, dest)
      THEN EnterDest(AddOutputTransfer(h, dest, 0, 0), m, "esdt",
                     Input(a, dest, 0, remaining, "DirectCall", FALSE))
      ELSE Continue(ForwardGas(h, dest, remaining),
                    [m EXCEPT !.forwarded = @ + remaining])
  BY <1>1, <1>2, <1>3 DEF TransferESDTExecute, Charged
<1>8. CASE moved.err # "Ok"
  <2>1. Fault(c, l)
    BY <1>7, <1>8
  <2> QED
    BY <1>4, <1>5, <2>1, FaultReached DEF Arrives
<1>9. CASE moved.err = "Ok"
  <2>1. Ready(h, fs, v, m, 0, GasNow) /\ h.runtime = c.runtime /\ h.world # 0
    BY <1>2, <1>3, <1>4, <1>9, ReadyMovesToken
  <2>2. IsHost(h) /\ IsBook(m) /\ GasLeft(h) \in Nat
    BY <2>1, ReadyFacts
  <2>3. CASE isExecution /\ (EsdtCost > provided \/ remaining > GasLeft(h))
    <3>1. Fault(h, m)
      BY <1>7, <1>9, <2>3
    <3> QED
      BY <1>5, <2>1, <2>2, <3>1, FaultReached DEF Arrives
  <2>4. PICK g : g = AddOutputTransfer(h, dest, 0, 0)
    OBVIOUS
  <2>5. KeptHere(g, h) /\ SameBut(g, h, Outer) /\ Carriers(g.output) \subseteq Carriers(h.output)
    <3>1. Carriers(g.output) \subseteq Carriers(h.output) \cup (IF 0 + 0 = 0 THEN {} ELSE {dest})
      BY <1>5, <2>2, <2>4, OutputTransferSends
    <3> QED
      BY <1>5, <2>2, <2>4, <3>1, OutputTransferSends, OutputTransferKeeps
  <2>6. Ready(g, fs, v, m, 0, GasNow) /\ g.runtime = h.runtime
    BY <2>1, <2>5, ReadyChanges
  <2>7. CASE ~isExecution
    <3>1. Continue(g, m)
      BY <1>7, <1>9, <2>4, <2>7
    <3> QED
      BY <1>4, <1>5, <2>1, <2>6, <3>1, ContinueReached DEF Arrives
  <2>8. ASSUME isExecution, ~(EsdtCost > provided \/ remaining > GasLeft(h))
        PROVE  Arrives
    <3>1. remaining \in Nat /\ remaining <= GasLeft(h)
      BY <1>3, <1>5, <1>6, <2>2, <2>8
    <3>2. CASE AreInSameShard(self, dest)
      <4>1. PICK input : input = Input(a, dest, 0, remaining, "DirectCall", FALSE)
        OBVIOUS
      <4>2. IsInput(input) /\ input.gas = remaining
        BY <1>5, <3>1, <4>1, InputMade DEF Input
      <4>3. EnterDest(g, m, "esdt", input)
        BY <1>7, <1>9, <2>4, <2>8, <3>2, <4>1
      <4>4. g.world = h.world
        <5>1. DOMAIN h = HostFields
          BY <2>2 DEF IsHost, IdleHost
        <5> QED
          BY <2>4, <5>1 DEF AddOutputTransfer, HostFields
      <4>5. GasLeft(g) = GasLeft(h)
        BY <2>2, <2>5, OuterUses DEF KeptHere, Kept
      <4>6. g.world # 0 /\ g.runtime.gasLocked = 0 /\ input.gas <= GasLeft(g)
        BY <1>4, <2>1, <2>6, <3>1, <4>2, <4>4, <4>5
      <4> QED
        BY <1>5, <2>6, <4>2, <4>3, <4>6, EnterDestReached DEF Arrives
    <3>3. CASE ~AreInSameShard(self, dest)
      <4>1. PICK u : u = UseGas(h, remaining)
        OBVIOUS
      <4>2. PICK w, k : /\ w = AddOutputTransfer(u, dest, remaining, 0)
                        /\ k = [m EXCEPT !.forwarded = @ + remaining]
        OBVIOUS
      <4>3. Continue(w, k)
        BY <1>7, <1>9, <2>8, <3>3, <4>1, <4>2 DEF ForwardGas
      <4>4. Len(fs) \in Nat \ {0} /\ h.instance = Len(fs)
        BY <2>1, ReadyFacts
      <4>5. /\ KeptHere(u, h) /\ UsesMore(u, h, fs, remaining) /\ u.output = h.output
            /\ u.runtime = h.runtime
        BY <2>2, <3>1, <4>1, <4>4, GasUseKeeps, GasUses
      <4>6. IsHost(u)
        BY <4>5 DEF KeptHere, Kept
      <4>7. /\ KeptHere(w, u) /\ SameBut(w, u, Outer)
            /\ Carriers(w.output) \subseteq Carriers(u.output)
                  \cup (IF remaining + 0 = 0 THEN {} ELSE {dest})
        BY <1>5, <3>1, <4>2, <4>6, OutputTransferKeeps, OutputTransferSends
      <4>8. KeptHere(w, h)
        BY <4>5, <4>7, KeptTransitive
      <4>9. UsesMore(w, u, fs, 0) /\ w.runtime = u.runtime
        BY <4>6, <4>7, OuterUses DEF KeptHere, Kept
      <4>10. UsesMore(w, h, fs, remaining)
        <5>1. UsesMore(w, h, fs, remaining + 0)
          BY <2>2, <3>1, <4>5, <4>9, UsesTransitive
        <5>2. remaining + 0 = remaining
          BY <3>1
        <5> QED
          BY <5>1, <5>2
      <4>11. dest \notin Contracts
        BY <1>2, <1>5, <3>3, ContextsAssumption DEF AreInSameShard
      <4>12. k = [m EXCEPT !.forwarded = @ + (remaining + 0)]
        <5>1. remaining + 0 = remaining
          BY <3>1
        <5> QED
          BY <4>2, <5>1
      <4>13. Carriers(w.output) \subseteq Carriers(h.output)
                  \cup (IF remaining + 0 = 0 THEN {} ELSE {dest})
        BY <4>5, <4>7
      <4>14. Ready(w, fs, v, k, 0, GasNow)
        BY <2>1, <3>1, <4>8, <4>10, <4>11, <4>12, <4>13, ReadyForwards
      <4> QED
        BY <1>4, <1>5, <2>1, <4>3, <4>5, <4>9, <4>14, ContinueReached DEF Arrives
    <3> QED
      BY <3>2, <3>3
  <2> QED
    BY <2>3, <2>7, <2>8
<1> QED
  BY <1>8, <1>9

-----------------------------------------------------------------------------
(* Built-in functions.                                                      *)

LEMMA PassedOn ==
    ASSUME NEW r \in Accounts, NEW rest \in Nat, NEW locked \in Nat,
           NEW o, o = WithOutputTransfer(newVMOutput, r, rest, locked)
    PROVE  /\ ZeroOutput(o) /\ o.gasRemaining = 0 /\ r \in DOMAIN o.accounts
           /\ Len(o.accounts[r].outputTransfers) = 1
           /\ o.accounts[r].outputTransfers[1].gasLimit = rest
           /\ Carriers(o) \subseteq (IF rest + locked = 0 THEN {} ELSE {r})
<1>1. ZeroOutput(newVMOutput) /\ newVMOutput.gasRemaining = 0 /\ IsOutput(newVMOutput)
  BY NewOutputs DEF ZeroOutput, newVMOutput
<1>2. ZeroOutput(o) /\ o.gasRemaining = 0
  BY <1>1, ZeroTransfer
<1>3. PICK t : t = [gasLimit |-> rest, gasLocked |-> locked]
  OBVIOUS
<1>4. PICK account : account = [NewVMOutputAccount EXCEPT !.outputTransfers = Append(@, t)]
  OBVIOUS
<1>5. /\ t \in Transfers /\ << >> \in Seq(Transfers) /\ t.gasLimit = rest
      /\ NewVMOutputAccount.outputTransfers = << >>
  BY <1>3, EmptySeq DEF Transfers, NewVMOutputAccount
<1>6. /\ Append(<< >>, t) \in Seq(Transfers) /\ Len(Append(<< >>, t)) = 1
      /\ Append(<< >>, t)[1] = t
  <2>1. /\ Len(Append(<< >>, t)) = Len(<< >>) + 1 /\ Append(<< >>, t) \in Seq(Transfers)
        /\ Append(<< >>, t)[Len(<< >>) + 1] = t
    BY <1>5, AppendProperties
  <2> QED
    BY <2>1, EmptySeq
<1>7. account \in AccountType /\ account.outputTransfers = Append(<< >>, t)
  BY <1>4, <1>5, <1>6, NewOutputs DEF AccountType
<1>8. o = SetOutputAccount(newVMOutput, r, account)
  <2>1. GetOutputAccount(newVMOutput, r) = NewVMOutputAccount
    BY NewOutputs DEF GetOutputAccount
  <2> QED
    BY <1>3, <1>4, <2>1 DEF WithOutputTransfer
<1>9. AccountSet(o, newVMOutput, r, account)
  BY <1>7, <1>8, NewOutputs, SetAccount
<1>10. /\ r \in DOMAIN o.accounts /\ Len(o.accounts[r].outputTransfers) = 1
       /\ o.accounts[r].outputTransfers[1] = t
  BY <1>6, <1>7, <1>9 DEF AccountSet
<1>11. Carriers(o) \subseteq (IF rest + locked = 0 THEN {} ELSE {r})
  BY <1>1, NothingSent, CarriersOfTransfer
<1> QED
  BY <1>2, <1>5, <1>10, <1>11

\* How the function processed the call: what its output says of gas.
Processed(p, input, rest, locked) ==
    /\ ZeroOutput(p.output)
    /\ \/ /\ input.recipient \in DOMAIN p.output.accounts /\ p.output.gasRemaining = 0
          /\ Len(p.output.accounts[input.recipient].outputTransfers) = 1
          /\ p.output.accounts[input.recipient].outputTransfers[1].gasLimit = rest
          /\ input.recipient \in Remote \cup Contracts
          /\ Carriers(p.output) \subseteq (IF rest + locked = 0 THEN {} ELSE {input.recipient})
       \/ /\ p.output.accounts = << >> /\ p.output.gasRemaining = rest
          /\ input.recipient \notin Remote

LEMMA FunctionProcessed ==
    ASSUME NEW h, IsHost(h), NEW input, IsInput(input), NEW andCall, NEW p,
           p = ProcessBuiltInFunction(h, input, andCall), p.err = "Ok",
           NEW rest, rest = input.gas - EsdtCost, NEW locked,
           locked = IF input.callType = "AsynchronousCall" THEN h.runtime.gasLocked ELSE 0
    PROVE  /\ Processed(p, input, rest, locked) /\ rest \in Nat /\ locked \in Nat
<1>1. PICK r : r = input.recipient
  OBVIOUS
<1>2. /\ input.gas \in Nat /\ EsdtCost \in Nat /\ h.runtime.gasLocked \in Nat
      /\ r \in Accounts /\ locked \in Nat
  BY <1>1, StepsAreNat DEF IsInput, IsHost, RuntimeType
<1>3. ~(input.gas < EsdtCost)
  BY DEF ProcessBuiltInFunction
<1>4. rest \in Nat
  BY <1>2, <1>3
<1>5. ZeroOutput(newVMOutput)
  BY NewOutputs DEF ZeroOutput
<1>6. CASE input.recipient \in Remote \/ (andCall /\ input.recipient \in Contracts)
  <2>1. PICK o : o = WithOutputTransfer(newVMOutput, r, rest, locked)
    OBVIOUS
  <2>2. p.output = o
    BY <1>1, <1>3, <1>6, <2>1 DEF ProcessBuiltInFunction
  <2>3. /\ ZeroOutput(o) /\ o.gasRemaining = 0 /\ r \in DOMAIN o.accounts
        /\ Len(o.accounts[r].outputTransfers) = 1
        /\ o.accounts[r].outputTransfers[1].gasLimit = rest
        /\ Carriers(o) \subseteq (IF rest + locked = 0 THEN {} ELSE {r})
    BY <1>2, <1>4, <2>1, PassedOn
  <2> QED
    BY <1>1, <1>2, <1>4, <1>6, <2>2, <2>3 DEF Processed
<1>7. CASE ~(input.recipient \in Remote \/ (andCall /\ input.recipient \in Contracts))
  <2>1. p.output = [newVMOutput EXCEPT !.gasRemaining = rest]
    BY <1>3, <1>7 DEF ProcessBuiltInFunction
  <2>2. /\ DOMAIN p.output = OutputFields /\ p.output.accounts = newVMOutput.accounts
        /\ p.output.gasRemaining = rest /\ newVMOutput.accounts = << >>
    BY <2>1 DEF newVMOutput, OutputFields
  <2>3. ZeroOutput(p.output)
    BY <1>4, <1>5, <2>2 DEF ZeroOutput, IsOutput
  <2> QED
    BY <1>2, <1>4, <1>7, <2>2, <2>3 DEF Processed
<1> QED
  BY <1>6, <1>7

LEMMA CarriersDropped ==
    ASSUME NEW o, NEW p, DOMAIN p.accounts = DOMAIN o.accounts,
           \A a \in DOMAIN o.accounts : p.accounts[a].outputTransfers = << >>
    PROVE  Carriers(p) = {}
  BY NothingSent DEF Carriers

LEMMA NoCarriers ==
    ASSUME NEW o, o.accounts = << >> PROVE Carriers(o) = {}
  BY EmptyFrames DEF Carriers

\* The gas of a call of a built-in function, b, on the host h.
Tracks(g, h, used) == SameBut(g, UseGas(h, used), Outer)
BuiltInGas(b, h, input, rest, locked) ==
    /\ b.err # "Ok" => b.host = UseGas(h, input.gas) /\ b.after = << >>
    /\ b.err = "Ok" => rest \in Nat /\ locked \in Nat
    /\ b.after # << >> =>
          b.after[1].gas = rest /\ b.after[1].caller = input.caller
    /\ b.after = << >> /\ b.err = "Ok" /\ input.recipient \notin Remote =>
          b.output.gasRemaining = rest
    /\ b.err = "Ok" /\ input.recipient \notin Remote =>
          /\ Tracks(b.host, h, EsdtCost)
          /\ Carriers(b.host.output) \subseteq Carriers(h.output)
    /\ b.err = "Ok" /\ input.recipient \in Remote =>
          /\ b.after = << >> /\ Tracks(b.host, h, input.gas)
          /\ Carriers(b.host.output) \subseteq Carriers(h.output)
                \cup (IF rest + locked = 0 THEN {} ELSE {input.recipient})

\* The accounts of o without their output transfers.
Emptied(o) == [a \in DOMAIN o.accounts |-> [o.accounts[a] EXCEPT !.outputTransfers = << >>]]

(* What is kept of the output, and the gas tracked for it. *)
KeptOf(o, after, accounts) == IF after = << >> THEN o ELSE WithAccounts(o, accounts)
KeptGas(kept, after, t, h, input, rest, locked) ==
    /\ after # << >> => after[1].gas = rest /\ after[1].caller = input.caller
    /\ input.recipient \in Remote =>
          /\ after = << >> /\ t = UseGas(h, input.gas)
          /\ Carriers(kept) \subseteq
                (IF rest + locked = 0 THEN {} ELSE {input.recipient})
    /\ input.recipient \notin Remote =>
          /\ t = UseGas(h, EsdtCost) /\ Carriers(kept) = {}
          /\ after = << >> => kept.gasRemaining = rest
    /\ ZeroOutput(kept)

LEMMA OutputKept ==
    ASSUME NEW h, NEW input, IsInput(input), input.caller \in Contracts, NEW p, NEW rest \in Nat,
           rest = input.gas - EsdtCost, NEW locked \in Nat, Processed(p, input, rest, locked),
           NEW after, after = isSCExecutionAfterBuiltInFunc(input, p.output),
           NEW accounts, accounts = Emptied(p.output),
           NEW kept, kept = KeptOf(p.output, after, accounts),
           NEW t, t = TrackGasUsedByBuiltinFunction(h, input, kept, after)
    PROVE  KeptGas(kept, after, t, h, input, rest, locked)
<1>0. kept = IF after = << >> THEN p.output ELSE WithAccounts(p.output, accounts)
  BY DEF KeptOf
<1>1. PICK r, ts, o : r = input.recipient /\ o = p.output /\ ts = o.accounts[r].outputTransfers
  OBVIOUS
<1>2. PICK cond : cond = (/\ AreInSameShard(input.caller, r) /\ IsSmartContract(r)
                         /\ r \in DOMAIN o.accounts /\ Len(ts) = 1)
  OBVIOUS
<1>3. PICK next : next = Input(input.caller, r, 0, ts[1].gasLimit, input.callType, FALSE)
  OBVIOUS
<1>4. after = IF cond THEN << next >> ELSE << >>
  BY <1>1, <1>2, <1>3 DEF isSCExecutionAfterBuiltInFunc
<1>5. << next >> # << >> /\ << next >>[1] = next /\ next.gas = ts[1].gasLimit
      /\ next.caller = input.caller
  BY <1>3 DEF Input
<1>6. /\ input.caller \notin Remote /\ input.gas \in Nat /\ EsdtCost \in Nat /\ ZeroOutput(o)
      /\ IsOutput(o)
  BY <1>1, ContextsAssumption, StepsAreNat DEF IsInput, Processed, ZeroOutput
<1>7. PICK used : used = SubUint64(input.gas, kept.gasRemaining)
  OBVIOUS
<1>8. t = UseGas(h, IF after = << >> THEN used ELSE SubUint64(used, after[1].gas))
  BY <1>7 DEF TrackGasUsedByBuiltinFunction
<1>9. ASSUME r \in DOMAIN o.accounts, o.gasRemaining = 0, Len(ts) = 1, ts[1].gasLimit = rest,
             r \in Contracts
      PROVE  /\ after # << >> /\ after[1].gas = rest /\ after[1].caller = input.caller
             /\ t = UseGas(h, EsdtCost) /\ Carriers(kept) = {} /\ ZeroOutput(kept)
             /\ r \notin Remote
  <2>1. cond /\ r \notin Remote
    BY <1>2, <1>6, <1>9, ContextsAssumption DEF AreInSameShard, IsSmartContract
  <2>2. after # << >> /\ after[1].gas = rest /\ after[1].caller = input.caller
    BY <1>4, <1>5, <1>9, <2>1
  <2>3. /\ kept.accounts = accounts /\ DOMAIN kept = OutputFields
        /\ kept.gasRemaining = o.gasRemaining
    BY <1>0, <1>1, <1>6, <2>2 DEF WithAccounts, IsOutput, OutputFields
  <2>4. used = input.gas
    BY <1>6, <1>7, <1>9, <2>3 DEF SubUint64
  <2>5. SubUint64(used, rest) = EsdtCost
    BY <1>6, <2>4 DEF SubUint64
  <2>6. ASSUME NEW a \in DOMAIN o.accounts
        PROVE  /\ accounts[a] \in AccountType /\ accounts[a].balanceDelta = 0
               /\ accounts[a].outputTransfers = << >>
    <3>1. PICK x : x = o.accounts[a]
      OBVIOUS
    <3>2. x \in AccountType /\ x.balanceDelta = 0 /\ << >> \in Seq(Transfers)
      BY <1>6, <2>6, <3>1, EmptySeq DEF ZeroOutput, IsOutput
    <3>3. accounts[a] = [x EXCEPT !.outputTransfers = << >>]
      BY <1>1, <2>6, <3>1 DEF Emptied
    <3> QED
      BY <3>2, <3>3 DEF AccountType
  <2>7. DOMAIN accounts = DOMAIN o.accounts
    BY <1>1 DEF Emptied
  <2>8. ZeroOutput(kept)
    BY <1>6, <2>3, <2>6, <2>7 DEF ZeroOutput, IsOutput
  <2>9. Carriers(kept) = {}
    <3>1. DOMAIN kept.accounts = DOMAIN o.accounts
      BY <2>3, <2>7
    <3>2. \A a \in DOMAIN o.accounts : kept.accounts[a].outputTransfers = << >>
      BY <2>3, <2>6
    <3> QED
      BY <3>1, <3>2, CarriersDropped
  <2> QED
    BY <1>8, <2>1, <2>2, <2>5, <2>8, <2>9
<1>10. ASSUME r \in Remote, o.gasRemaining = 0
       PROVE  after = << >> /\ t = UseGas(h, input.gas) /\ kept = o
  <2>1. ~cond
    BY <1>2, <1>6, <1>10 DEF AreInSameShard
  <2>2. after = << >> /\ kept = o
    BY <1>0, <1>1, <1>4, <2>1
  <2>3. used = input.gas
    BY <1>6, <1>7, <1>10, <2>2 DEF SubUint64
  <2> QED
    BY <1>8, <2>2, <2>3
<1>11. ASSUME o.accounts = << >>, o.gasRemaining = rest
       PROVE  after = << >> /\ t = UseGas(h, EsdtCost) /\ kept = o /\ Carriers(kept) = {}
  <2>1. ~cond
    BY <1>2, <1>11, EmptyFrames
  <2>2. after = << >> /\ kept = o
    BY <1>0, <1>1, <1>4, <2>1
  <2>3. used = EsdtCost
    BY <1>6, <1>7, <1>11, <2>2 DEF SubUint64
  <2>4. Carriers(o) = {}
    BY <1>11, NoCarriers
  <2> QED
    BY <1>8, <2>2, <2>3, <2>4
<1>12. CASE /\ r \in DOMAIN o.accounts /\ o.gasRemaining = 0 /\ Len(ts) = 1
            /\ ts[1].gasLimit = rest /\ r \in Remote \cup Contracts
            /\ Carriers(o) \subseteq (IF rest + locked = 0 THEN {} ELSE {r})
  BY <1>1, <1>6, <1>9, <1>10, <1>12 DEF KeptGas
<1>13. CASE o.accounts = << >> /\ o.gasRemaining = rest /\ r \notin Remote
  BY <1>1, <1>6, <1>11, <1>13 DEF KeptGas
<1> QED
  BY <1>1, <1>12, <1>13 DEF Processed

LEMMA SameTwice ==
    ASSUME NEW F, NEW f, NEW g, NEW h, SameBut(f, g, F), SameBut(g, h, F) PROVE SameBut(f, h, F)
  BY DEF SameBut

LEMMA BuiltInSpends ==
    ASSUME NEW h, IsHost(h), NEW input, IsInput(input), input.caller \in Contracts, NEW andCall,
           NEW rest, rest = input.gas - EsdtCost, NEW locked,
           locked = IF input.callType = "AsynchronousCall" THEN h.runtime.gasLocked ELSE 0,
           NEW b, b = handleBuiltinFunctionCall(h, input, andCall)
    PROVE  BuiltInGas(b, h, input, rest, locked)
<1>1. PICK p, after : /\ p = ProcessBuiltInFunction(h, input, andCall)
                      /\ after = isSCExecutionAfterBuiltInFunc(input, p.output)
  OBVIOUS
<1>2. PICK c : c = callBuiltinFunction(h, input, andCall)
  OBVIOUS
<1>4. CASE p.err # "Ok"
  <2>1. c = [err |-> p.err, after |-> << >>, host |-> UseGas(h, input.gas)]
    BY <1>1, <1>2, <1>4 DEF callBuiltinFunction
  <2>2. b = c
    BY <1>2, <1>4, <2>1 DEF handleBuiltinFunctionCall
  <2>3. b.err # "Ok" /\ b.host = UseGas(h, input.gas) /\ b.after = << >>
    BY <1>4, <2>1, <2>2
  <2> QED
    BY <2>3 DEF BuiltInGas
<1>5. CASE p.err = "Ok"
  <2>1. Processed(p, input, rest, locked) /\ rest \in Nat /\ locked \in Nat
    BY <1>1, <1>5, FunctionProcessed
  <2>2. PICK accounts : accounts = Emptied(p.output)
    OBVIOUS
  <2>3. PICK kept : kept = KeptOf(p.output, after, accounts)
    OBVIOUS
  <2>4. PICK t : t = TrackGasUsedByBuiltinFunction(h, input, kept, after)
    OBVIOUS
  <2>17. KeptGas(kept, after, t, h, input, rest, locked)
    BY <1>1, <2>1, <2>2, <2>3, <2>4, OutputKept
  <2>5. /\ after # << >> => after[1].gas = rest /\ after[1].caller = input.caller
        /\ input.recipient \in Remote =>
              /\ after = << >> /\ t = UseGas(h, input.gas)
              /\ Carriers(kept) \subseteq (IF rest + locked = 0 THEN {} ELSE {input.recipient})
        /\ input.recipient \notin Remote =>
              /\ t = UseGas(h, EsdtCost) /\ Carriers(kept) = {}
              /\ after = << >> => kept.gasRemaining = rest
        /\ ZeroOutput(kept)
    BY <2>17 DEF KeptGas
  <2>6. PICK o : o = addESDTTransferToVMOutputSCIntraShardCall(input, kept)
    OBVIOUS
  <2>7. /\ ZeroOutput(o) /\ o.gasRemaining = kept.gasRemaining
        /\ Carriers(o) \subseteq Carriers(kept)
    <3>1. PICK r, q : r = input.recipient /\ q = WithOutputTransfer(kept, r, 0, 0)
      OBVIOUS
    <3>2. r \in Accounts /\ 0 \in Nat /\ IsOutput(kept)
      BY <2>5, <3>1 DEF IsInput, ZeroOutput
    <3>3. ZeroOutput(q) /\ q.gasRemaining = kept.gasRemaining
      BY <2>5, <3>1, <3>2, ZeroTransfer
    <3>4. Carriers(q) \subseteq Carriers(kept) \cup (IF 0 + 0 = 0 THEN {} ELSE {r})
      BY <3>1, <3>2, CarriersOfTransfer
    <3>5. o \in {q, kept}
      BY <2>6, <3>1 DEF addESDTTransferToVMOutputSCIntraShardCall
    <3> QED
      BY <2>5, <3>3, <3>4, <3>5
  <2>8. IsHost(t) /\ t.output = h.output
    <3>1. PICK used : t = UseGas(h, used) /\ used \in Nat
      BY <2>5, StepsAreNat DEF IsInput
    <3>2. OnlyPoints(t, h) /\ KeptHere(t, h)
      BY <3>1, GasUsed, GasUseKeeps
    <3> QED
      BY <3>2 DEF OnlyPoints, SameBut, HostFields, KeptHere, Kept
  <2>9. PICK w : w = [t EXCEPT !.world = @ + 1]
    OBVIOUS
  <2>10. IsHost(w) /\ SameBut(w, t, Outer) /\ w.output = h.output
    <3>1. KeptHere(w, t)
      BY <2>8, <2>9, TokenMoved
    <3> QED
      BY <2>8, <2>9, <3>1 DEF KeptHere, Kept, SameBut, HostFields, IsHost, IdleHost, Outer
  <2>11. PICK g : g = AddToActiveState(w, o)
    OBVIOUS
  <2>12. /\ SameBut(g, w, {"output"})
         /\ Carriers(g.output) \subseteq Carriers(w.output) \cup Carriers(o)
    BY <2>7, <2>10, <2>11, CarriersOfActiveState
  <2>13. SameBut(g, t, Outer)
    <3>1. SameBut(g, w, Outer)
      BY <2>12 DEF SameBut, Outer
    <3> QED
      BY <2>10, <3>1, SameTwice
  <2>14. c = [err |-> "Ok", after |-> after, host |-> w, output |-> o]
    BY <1>1, <1>2, <1>5, <2>2, <2>3, <2>4, <2>6, <2>9
       DEF callBuiltinFunction, WithAccounts, Emptied, KeptOf
  <2>15. b.err = "Ok" /\ b.after = after /\ b.host = g /\ b.output = o
    BY <1>2, <2>11, <2>14 DEF handleBuiltinFunctionCall
  <2>16. Carriers(g.output) \subseteq Carriers(h.output) \cup Carriers(kept)
    BY <2>7, <2>10, <2>12
  <2> QED
    BY <2>1, <2>5, <2>7, <2>13, <2>15, <2>16 DEF BuiltInGas, Tracks
<1> QED
  BY <1>4, <1>5

LEMMA TrackedUses ==
    ASSUME NEW h, IsHost(h), NEW fs, Len(fs) \in Nat \ {0}, h.instance = Len(fs),
           NEW s, s = BlockchainPushState(h), NEW used \in Nat, NEW g, IsHost(g),
           Tracks(g, s, used)
    PROVE  UsesMore(g, h, fs, used) /\ g.runtime = h.runtime
<1>1. IsHost(s) /\ SameBut(s, h, {"snapshots"})
  BY SnapshotTaken
<1>2. SameBut(s, h, Outer)
  BY <1>1 DEF SameBut, Outer
<1>3. UsesMore(s, h, fs, 0) /\ s.runtime = h.runtime
  BY <1>1, <1>2, OuterUses
<1>4. PICK u : u = UseGas(s, used)
  OBVIOUS
<1>5. UsesMore(u, s, fs, used) /\ u.runtime = s.runtime
  <2>1. s.instance = Len(fs)
    BY <1>3 DEF UsesMore
  <2> QED
    BY <1>1, <1>4, <2>1, GasUses
<1>6. IsHost(u)
  BY <1>5 DEF UsesMore
<1>7. SameBut(g, u, Outer)
  BY <1>4 DEF Tracks
<1>8. UsesMore(g, u, fs, 0) /\ g.runtime = u.runtime
  BY <1>6, <1>7, OuterUses
<1>9. UsesMore(u, h, fs, 0 + used)
  BY <1>3, <1>5, UsesTransitive
<1>10. 0 + used = used /\ used + 0 = used /\ 0 \in Int /\ used \in Int
  OBVIOUS
<1>11. UsesMore(u, h, fs, used)
  BY <1>9, <1>10
<1>12. UsesMore(g, h, fs, used + 0)
  BY <1>8, <1>10, <1>11, UsesTransitive
<1> QED
  BY <1>3, <1>5, <1>8, <1>10, <1>12

LEMMA OuterUsesMore ==
    ASSUME NEW h, IsHost(h), NEW fs, NEW used \in Int, NEW g, UsesMore(g, h, fs, used),
           NEW c, IsHost(c), SameBut(c, g, Outer)
    PROVE  UsesMore(c, h, fs, used) /\ c.runtime = g.runtime
<1>1. IsHost(g)
  BY DEF UsesMore
<1>2. UsesMore(c, g, fs, 0) /\ c.runtime = g.runtime
  BY <1>1, OuterUses
<1>3. UsesMore(c, h, fs, used + 0) /\ used + 0 = used
  BY <1>2, UsesTransitive
<1> QED
  BY <1>2, <1>3

\* The built-in function was called, on a snapshot of h.
Called(b, h, input, andCall, rest, locked) ==
    /\ IsInput(input) /\ input.caller \in Contracts
    /\ rest = input.gas - EsdtCost
    /\ locked = IF input.callType = "AsynchronousCall" THEN h.runtime.gasLocked ELSE 0
    /\ BuiltInDone(b, BlockchainPushState(h), input, andCall)
    /\ BuiltInGas(b, BlockchainPushState(h), input, rest, locked)

LEMMA CalledOnSnapshot ==
    ASSUME NEW h, IsHost(h), NEW input, IsInput(input), input.caller \in Contracts, NEW andCall,
           NEW b, b = handleBuiltinFunctionCall(BlockchainPushState(h), input, andCall)
    PROVE  \E rest, locked : Called(b, h, input, andCall, rest, locked)
<1>1. PICK s, rest, locked : /\ s = BlockchainPushState(h) /\ rest = input.gas - EsdtCost
          /\ locked = IF input.callType = "AsynchronousCall" THEN h.runtime.gasLocked ELSE 0
  OBVIOUS
<1>2. IsHost(s) /\ s.runtime = h.runtime
  BY <1>1, SnapshotTaken DEF SameBut, HostFields
<1>3. locked = IF input.callType = "AsynchronousCall" THEN s.runtime.gasLocked ELSE 0
  BY <1>1, <1>2
<1>4. BuiltInDone(b, s, input, andCall)
  BY <1>1, <1>2, BuiltInCalled
<1>5. BuiltInGas(b, s, input, rest, locked)
  BY <1>1, <1>2, <1>3, BuiltInSpends
<1>6. Called(b, h, input, andCall, rest, locked)
  BY <1>1, <1>4, <1>5 DEF Called
<1> QED
  BY <1>6

\* The snapshot is gone: the host is d, and the function used the gas used.
LEMMA BuiltInPopped ==
    ASSUME NEW h, NEW fs, NEW v, NEW l, NEW lock, NEW gas, Ready(h, fs, v, l, lock, gas),
           NEW input, NEW andCall, NEW b, NEW rest, NEW locked,
           Called(b, h, input, andCall, rest, locked), NEW used \in Nat,
           Tracks(b.host, BlockchainPushState(h), used),
           NEW d, d \in {BlockchainPopDiscard(b.host), FailedBuiltin(b)}
    PROVE  /\ KeptHere(d, h) /\ UsesMore(d, h, fs, used) /\ d.runtime = h.runtime
           /\ Carriers(d.output) \subseteq Carriers(b.host.output)
<1>1. IsHost(h) /\ Active(h, fs, v) /\ Len(fs) \in Nat \ {0} /\ h.instance = Len(fs)
  BY ReadyFacts DEF Ready
<1>2. PICK k, s : k = b.host /\ s = BlockchainPushState(h)
  OBVIOUS
<1>3. KeptHere(k, s)
  BY <1>2 DEF Called, BuiltInDone
<1>4. IsHost(k) /\ DOMAIN k = HostFields
  BY <1>3 DEF KeptHere, Kept, IsHost, IdleHost
<1>5. UsesMore(k, h, fs, used) /\ k.runtime = h.runtime
  BY <1>1, <1>2, <1>4, TrackedUses
<1>6. PICK e, f, g : /\ e = BlockchainPopDiscard(k) /\ f = BlockchainPopSetActiveState(k)
                     /\ g = UpdateGasStateOnFailure(f)
  OBVIOUS
<1>7. KeptHere(e, h) /\ KeptHere(g, h)
  BY <1>1, <1>2, <1>3, <1>6, ActiveSnapshots, SnapshotPopped
<1>8. SameBut(e, k, Outer) /\ e.output = k.output
  BY <1>4, <1>6 DEF BlockchainPopDiscard, SameBut, HostFields, Outer
<1>9. SameBut(f, k, {"world", "snapshots"}) /\ f.output = k.output
  BY <1>4, <1>6 DEF BlockchainPopSetActiveState, SameBut, HostFields
<1>10. IsHost(f)
  <2>1. Top(k.snapshots) = h.world /\ h.world \in Nat
    <3>1. h.world \in Nat
      BY <1>1 DEF IsHost, IdleHost
    <3>2. k.snapshots = Append(h.snapshots, h.world)
      BY <1>1, <1>2, <1>3, SnapshotTaken DEF KeptHere, Kept, SameStacks
    <3> QED
      BY <1>1, <3>1, <3>2, ActiveSnapshots, PushThenPop
  <2>2. f.world = Top(k.snapshots)
    BY <1>4, <1>6 DEF BlockchainPopSetActiveState, HostFields
  <2>3. f.snapshots = Pop(k.snapshots)
    BY <1>4, <1>6 DEF BlockchainPopSetActiveState, HostFields
  <2>4. /\ f.output = k.output /\ f.metering = k.metering /\ f.runtime = k.runtime
        /\ f.instance = k.instance /\ f.points = k.points /\ f.bigInt = k.bigInt
        /\ f.storageAddress = k.storageAddress /\ DOMAIN f = HostFields
    BY <1>9 DEF SameBut, HostFields
  <2> QED
    BY <1>4, <2>1, <2>2, <2>4 DEF IsHost, IdleHost
<1>11. SameBut(g, f, {"output"}) /\ Carriers(g.output) \subseteq Carriers(f.output)
  BY <1>6, <1>10, FailureUpdate
<1>12. SameBut(g, k, Outer) /\ Carriers(g.output) \subseteq Carriers(k.output)
  <2>1. SameBut(g, f, Outer) /\ SameBut(f, k, Outer)
    BY <1>9, <1>11 DEF SameBut, Outer
  <2> QED
    BY <1>9, <1>11, <2>1, SameTwice
<1>13. IsHost(e) /\ IsHost(g)
  BY <1>7 DEF KeptHere, Kept
<1>14. UsesMore(e, h, fs, used) /\ e.runtime = k.runtime
  BY <1>1, <1>5, <1>8, <1>13, OuterUsesMore
<1>15. UsesMore(g, h, fs, used) /\ g.runtime = k.runtime
  BY <1>1, <1>5, <1>12, <1>13, OuterUsesMore
<1>16. d \in {e, g}
  BY <1>2, <1>6 DEF FailedBuiltin
<1> QED
  BY <1>2, <1>5, <1>7, <1>8, <1>12, <1>14, <1>15, <1>16

\* A function that fails uses up the gas of the call.
LEMMA FailedTracks ==
    ASSUME NEW h, IsHost(h), NEW input, NEW andCall, NEW b, NEW rest, NEW locked,
           Called(b, h, input, andCall, rest, locked), b.err # "Ok"
    PROVE  /\ Tracks(b.host, BlockchainPushState(h), input.gas)
           /\ Carriers(b.host.output) = Carriers(h.output) /\ b.after = << >>
           /\ b.err = "ErrNotEnoughGas"
<1>1. PICK s, g : s = BlockchainPushState(h) /\ g = UseGas(s, input.gas)
  OBVIOUS
<1>2. b.host = g /\ b.after = << >> /\ b.err = "ErrNotEnoughGas" /\ input.gas \in Nat
  BY <1>1 DEF Called, BuiltInGas, BuiltInDone, IsInput
<1>3. IsHost(s) /\ s.output = h.output
  BY <1>1, SnapshotTaken DEF SameBut, HostFields
<1>4. OnlyPoints(g, s)
  BY <1>1, <1>2, <1>3, GasUsed
<1>5. SameBut(g, g, Outer) /\ g.output = s.output
  BY <1>4 DEF OnlyPoints, SameBut, HostFields
<1> QED
  BY <1>1, <1>2, <1>3, <1>5 DEF Tracks

LEMMA TakenFrom ==
    ASSUME NEW limit \in Nat, NEW p \in Nat, NEW e \in Nat, NEW i \in Nat, e <= i,
           i <= SubUint64(limit, p)
    PROVE  /\ i - e <= SubUint64(limit, p + e) /\ (p <= limit => p + e <= limit)
           /\ SubUint64(limit, p + e) = SubUint64(limit, p) - e
  BY DEF SubUint64

(* The step into the contract that is called after the function. *)
LEMMA AfterBuiltInReached ==
    ASSUME NEW h, NEW fs, NEW v, NEW l, NEW lock, NEW gas, Ready(h, fs, v, l, lock, gas),
           fs[1].input.value = v, NEW kind, kind \notin {"top", "same", "esdt"},
           NEW input, NEW andCall, NEW b, NEW rest, NEW locked,
           Called(b, h, input, andCall, rest, locked), b.after # << >>,
           input.gas <= GasLeft(h),
           lock = IF kind = "asyncDest" THEN h.runtime.gasLocked ELSE 0,
           kind = "asyncDest" => /\ GetPointsUsed(h) <= h.metering.gasForExecution
                                 /\ lock <= GetPointsUsed(h),
           kind \notin {"asyncDest", "callback"} => h.runtime.gasLocked = 0,
           NEW a, a = h.runtime.scAddress, NEW m, m = Burn(l, a, EsdtCost),
           EnterAfterBuiltin(fs, h, b, m, kind)
    PROVE  Reached(host', exit', frames', ledger', gas)
<1>1. PICK k, next, s : k = b.host /\ next = b.after[1] /\ s = BlockchainPushState(h)
  OBVIOUS
<1>2. /\ KeptHere(k, s) /\ IsInput(next) /\ next.recipient \in Contracts
      /\ b.err = "Ok" /\ next.gas = rest /\ input.recipient \notin Remote
      /\ input.gas \in Nat /\ rest = input.gas - EsdtCost /\ rest \in Nat
  BY <1>1, ContextsAssumption DEF Called, BuiltInDone, BuiltInGas, IsInput
<1>3. IsHost(h) /\ h.world \in Nat /\ Len(fs) \in Nat \ {0} /\ h.instance = Len(fs)
  BY ReadyFacts DEF IsHost, IdleHost
<1>4. IsHost(k) /\ DOMAIN k = HostFields /\ k.snapshots = Append(h.snapshots, h.world)
  BY <1>1, <1>2, <1>3, SnapshotTaken DEF KeptHere, Kept, SameStacks, IsHost, IdleHost
<1>5. PICK c : c = [k EXCEPT !.world = h.world, !.snapshots = h.snapshots]
  OBVIOUS
<1>6. PICK d : d = [k EXCEPT !.world = h.world]
  OBVIOUS
<1>7. /\ SameBut(c, k, {"world", "snapshots"}) /\ c.world = h.world
      /\ c.snapshots = h.snapshots /\ SameBut(k, c, {"world", "snapshots"})
  BY <1>4, <1>5 DEF SameBut, HostFields
<1>8. SameBut(d, c, {"snapshots"})
  BY <1>4, <1>5, <1>6 DEF SameBut, HostFields
<1>9. KeptHere(c, h)
  BY <1>1, <1>2, <1>3, <1>7, SnapshotGone
<1>10. IsHost(c)
  BY <1>9 DEF KeptHere, Kept
<1>11. PICK p : p = PushNoBuiltin(k, next)
  OBVIOUS
<1>12. PushedFrom(p, c, kind, next)
  BY <1>2, <1>4, <1>7, <1>10, <1>11, NoBuiltinPushed
<1>13. Frame(kind, next, d, m) = Frame(kind, next, c, m)
  <2>1. /\ d.output = c.output /\ d.bigInt = c.bigInt /\ d.world = c.world
        /\ d.storageAddress = c.storageAddress /\ d.runtime = c.runtime
        /\ d.metering = c.metering /\ d.instance = c.instance /\ d.points = c.points
    BY <1>8 DEF SameBut, HostFields
  <2> QED
    BY <2>1 DEF Frame, GetPointsUsed
<1>14. EnterFrom(fs, d, m, kind, next, TransferAndExecute(p, next))
  BY <1>1, <1>6, <1>11 DEF EnterAfterBuiltin
<1>15. EnterFrom(fs, c, m, kind, next, TransferAndExecute(p, next))
  BY <1>13, <1>14 DEF EnterFrom
<1>16. c.points = k.points /\ c.output = k.output /\ SameBut(c, k, Outer)
  BY <1>7 DEF SameBut, HostFields, Outer
<1>17. Fresh(p, c, next)
  <2>1. Fresh(p, k, next)
    BY <1>4, <1>11, NoBuiltinFresh
  <2> QED
    BY <1>16, <2>1 DEF Fresh
<1>18. Tracks(k, s, EsdtCost) /\ Carriers(k.output) \subseteq Carriers(h.output)
  <2>1. s.output = h.output
    BY <1>1, <1>3, SnapshotTaken DEF SameBut, HostFields
  <2> QED
    BY <1>1, <1>2, <2>1 DEF Called, BuiltInGas
<1>19. UsesMore(k, h, fs, EsdtCost) /\ k.runtime = h.runtime
  BY <1>1, <1>3, <1>4, <1>18, StepsAreNat, TrackedUses
<1>20. UsesMore(c, h, fs, EsdtCost) /\ c.runtime = h.runtime
  BY <1>3, <1>10, <1>16, <1>19, StepsAreNat, OuterUsesMore
<1>21. Ready(c, fs, v, m, lock, gas)
  BY <1>9, <1>16, <1>18, <1>20, StepsAreNat, ReadyBurns
<1>22. PICK p0, q, limit, left, old :
          /\ p0 = GetPointsUsed(h) /\ q = GetPointsUsed(c) /\ limit = h.metering.gasForExecution
          /\ left = GasLeft(c) /\ old = GasLeft(h)
  OBVIOUS
<1>23. /\ p0 \in Nat /\ limit \in Nat /\ q = p0 + EsdtCost /\ old = SubUint64(limit, p0)
       /\ c.metering = h.metering /\ EsdtCost \in Nat /\ left = SubUint64(limit, q)
       /\ EsdtCost <= input.gas /\ input.gas <= old
  <2>1. p0 \in Nat /\ limit \in Nat /\ old = SubUint64(limit, p0)
    BY <1>22, ReadyFacts
  <2>2. q = p0 + EsdtCost /\ c.metering = h.metering
    BY <1>20, <1>22 DEF UsesMore
  <2>3. left = SubUint64(limit, q)
    BY <1>22, <2>2 DEF GasLeft
  <2>4. EsdtCost <= input.gas
    BY <1>2, StepsAreNat
  <2> QED
    BY <1>22, <2>1, <2>2, <2>3, <2>4, StepsAreNat
<1>24. next.gas <= GasLeft(c)
  <2>1. input.gas - EsdtCost <= SubUint64(limit, p0 + EsdtCost)
    BY <1>2, <1>23, TakenFrom
  <2> QED
    BY <1>2, <1>22, <1>23, <2>1
<1>25. lock = IF kind = "asyncDest" THEN c.runtime.gasLocked ELSE 0
  BY <1>20
<1>26. kind = "asyncDest" => /\ GetPointsUsed(c) <= c.metering.gasForExecution
                             /\ lock <= GetPointsUsed(c)
  <2>1. lock \in Nat
    BY DEF Ready
  <2> QED
    <3>1. p0 <= limit => p0 + EsdtCost <= limit
      BY <1>2, <1>23, TakenFrom
    <3>2. kind = "asyncDest" => p0 <= limit /\ lock <= p0
      BY <1>22
    <3>3. c.metering.gasForExecution = limit /\ GetPointsUsed(c) = p0 + EsdtCost
      BY <1>22, <1>23
    <3> QED
      BY <1>23, <2>1, <3>1, <3>2, <3>3
<1>27. kind \notin {"asyncDest", "callback"} => c.runtime.gasLocked = 0
  BY <1>20
<1> QED
  BY <1>2, <1>12, <1>15, <1>17, <1>21, <1>24, <1>25, <1>26, <1>27, EnterReached

LEMMA ExecuteBuiltinFunctionSpends ==
    ASSUME VMInv, GasInv, NEW dest \in Accounts, NEW gasLimit \in GasLimits, NEW andCall,
           ExecuteBuiltinFunction(dest, gasLimit, andCall)
    PROVE  Arrives
<1>1. PICK c, fs, v, l : Charged(c, fs, v, l, ApiCost) /\ exit = "running"
  BY ChargedOnce, StepsAreNat DEF ExecuteBuiltinFunction, Running
<1>2. PICK a, i, input : /\ a = self /\ i = BoundGasLimit(c, gasLimit)
                         /\ input = Input(a, dest, 0, i, "DirectCall", FALSE)
  OBVIOUS
<1>3. Ready(c, fs, v, l, 0, GasNow) /\ c.runtime.gasLocked = 0 /\ c.runtime.scAddress = a
  BY <1>1, <1>2, ReadyCharged, StepsAreNat
<1>4. /\ IsHost(c) /\ fs[1].input.value = v /\ frames = fs /\ a \in Accounts /\ a \in Contracts
      /\ gasLimit \in Nat /\ 0 \in Nat /\ "DirectCall" \in KnownCallTypes /\ IsBook(l)
      /\ EsdtCost \in Nat
  BY <1>1, <1>2, <1>3, StepsAreNat, ReadyFacts DEF Charged, KnownCallTypes
<1>5. i \in Nat /\ i <= GasLeft(c)
  BY <1>2, <1>4, BoundedGas
<1>6. IsInput(input) /\ input.gas = i /\ input.caller = a /\ input.recipient = dest
  BY <1>2, <1>4, <1>5, InputMade DEF Input
<1>7. PICK s, b : /\ s = BlockchainPushState(c)
                  /\ b = handleBuiltinFunctionCall(s, input, andCall)
  OBVIOUS
<1>8. PICK rest, locked : Called(b, c, input, andCall, rest, locked)
  BY <1>4, <1>6, <1>7, CalledOnSnapshot
<1>9. PICK paid : paid = Burn(l, a, IF b.err = "Ok" THEN EsdtCost ELSE input.gas)
  OBVIOUS
<1>10. IF ~AreInSameShard(a, dest) THEN Fault(c, l)
       ELSE IF b.after # << >> THEN EnterAfterBuiltin(fs, c, b, paid, "dest")
       ELSE IF b.err = "Ok" THEN Continue(BlockchainPopDiscard(b.host), paid)
       ELSE Fault(FailedBuiltin(b), paid)
  BY <1>1, <1>2, <1>7, <1>9 DEF ExecuteBuiltinFunction, Charged
<1>11. CASE ~AreInSameShard(a, dest)
  <2>1. Fault(c, l)
    BY <1>10, <1>11
  <2> QED
    BY <1>3, <1>4, <2>1, FaultReached DEF Arrives
<1>12. CASE AreInSameShard(a, dest) /\ b.after # << >>
  <2>1. b.err = "Ok"
    BY <1>8, <1>12 DEF Called, BuiltInDone
  <2>2. PICK m : m = Burn(l, a, EsdtCost)
    OBVIOUS
  <2>3. EnterAfterBuiltin(fs, c, b, m, "dest")
    BY <1>9, <1>10, <1>12, <2>1, <2>2
  <2> QED
    BY <1>3, <1>4, <1>5, <1>6, <1>8, <1>12, <2>2, <2>3, AfterBuiltInReached DEF Arrives
<1>13. CASE AreInSameShard(a, dest) /\ b.after = << >> /\ b.err = "Ok"
  <2>1. PICK g, m : g = BlockchainPopDiscard(b.host) /\ m = Burn(l, a, EsdtCost)
    OBVIOUS
  <2>2. Continue(g, m)
    BY <1>9, <1>10, <1>13, <2>1
  <2>3. dest \notin Remote
    BY <1>4, <1>13, ContextsAssumption DEF AreInSameShard
  <2>4. s.output = c.output
    BY <1>4, <1>7, SnapshotTaken DEF SameBut, HostFields
  <2>5. Tracks(b.host, s, EsdtCost) /\ Carriers(b.host.output) \subseteq Carriers(c.output)
    BY <1>6, <1>7, <1>8, <1>13, <2>3, <2>4 DEF Called, BuiltInGas
  <2>6. /\ KeptHere(g, c) /\ UsesMore(g, c, fs, EsdtCost) /\ g.runtime = c.runtime
        /\ Carriers(g.output) \subseteq Carriers(b.host.output)
    BY <1>3, <1>4, <1>7, <1>8, <2>1, <2>5, BuiltInPopped
  <2>7. Ready(g, fs, v, m, 0, GasNow)
    BY <1>3, <1>4, <2>1, <2>5, <2>6, ReadyBurns
  <2> QED
    BY <1>3, <1>4, <2>2, <2>6, <2>7, ContinueReached DEF Arrives
<1>14. CASE AreInSameShard(a, dest) /\ b.after = << >> /\ b.err # "Ok"
  <2>1. PICK g, m : g = FailedBuiltin(b) /\ m = Burn(l, a, i)
    OBVIOUS
  <2>2. Fault(g, m)
    BY <1>6, <1>9, <1>10, <1>14, <2>1
  <2>3. Tracks(b.host, s, i) /\ Carriers(b.host.output) = Carriers(c.output)
    BY <1>4, <1>6, <1>7, <1>8, <1>14, FailedTracks
  <2>4. /\ KeptHere(g, c) /\ UsesMore(g, c, fs, i)
        /\ Carriers(g.output) \subseteq Carriers(b.host.output)
    BY <1>3, <1>5, <1>7, <1>8, <2>1, <2>3, BuiltInPopped
  <2>5. Ready(g, fs, v, m, 0, GasNow)
    BY <1>3, <1>5, <2>1, <2>3, <2>4, ReadyBurns
  <2>6. IsBook(m)
    BY <2>5, ReadyFacts
  <2> QED
    BY <1>4, <2>2, <2>5, <2>6, FaultReached DEF Arrives
<1> QED
  BY <1>11, <1>12, <1>13, <1>14

-----------------------------------------------------------------------------
(* Asynchronous calls: locked gas is given back, or lost.                   *)

LEMMA ReadyRestores ==
    ASSUME NEW h, NEW fs, NEW v, NEW l, NEW lock, NEW gas, Ready(h, fs, v, l, lock, gas),
           lock <= GetPointsUsed(h), GetPointsUsed(h) <= h.metering.gasForExecution,
           NEW g, g = RestoreGas(h, lock)
    PROVE  /\ Ready(g, fs, v, l, 0, gas) /\ GasLeft(g) = GasLeft(h) + lock
           /\ g.runtime = h.runtime /\ g.output = h.output
<1>1. /\ IsHost(h) /\ Len(fs) \in Nat \ {0} /\ h.instance = Len(fs) /\ IsBook(l)
      /\ Sends(l, h.output) /\ lock \in Nat /\ -lock \in Int /\ GasLeft(h) \in Nat
  BY ReadyFacts DEF Ready
<1>2. UsesMore(g, h, fs, -lock) /\ g.output = h.output /\ g.runtime = h.runtime
  BY <1>1, GasUses
<1>3. KeptHere(g, h)
  BY <1>1, GasUseKeeps
<1>4. GasLeft(g) = GasLeft(h) + lock
  <2>1. PICK used : used = -lock
    OBVIOUS
  <2>2. GasLeft(g) + used = GasLeft(h) /\ GasLeft(g) \in Nat
    BY <1>1, <1>2, <2>1, GasLeftMoved
  <2> QED
    BY <1>1, <2>1, <2>2
<1>5. Grows(l, l) /\ Spent(l) \in Nat
  <2>1. \A a \in Accounts : l.burnt[a] \in Nat
    BY <1>1, BooksAreLedgers
  <2> QED
    BY <1>1, <2>1, BooksAreLedgers DEF Grows, IsBook
<1>6. PICK used : used = -lock
  OBVIOUS
<1>7. /\ used \in Int /\ UsesMore(g, h, fs, used) /\ Spent(l) + 0 = Spent(l) + lock + used
      /\ GasLeft(g) + 0 <= GasLeft(h) + lock
  BY <1>1, <1>2, <1>4, <1>5, <1>6
<1>8. Sends(l, g.output)
  BY <1>1, <1>2
<1>9. Sound(l) => Spent(l) + 0 = Spent(l) + lock + used
  BY <1>7
<1>10. \A a \in Accounts \ {h.runtime.scAddress} : l.burnt[a] = l.burnt[a]
  OBVIOUS
<1>11. Ready(g, fs, v, l, 0, gas)
  BY <1>1, <1>3, <1>5, <1>7, <1>8, <1>9, <1>10, ReadyMoves
<1> QED
  BY <1>2, <1>4, <1>11

LEMMA ReadyLoses ==
    ASSUME NEW h, NEW fs, NEW v, NEW l, NEW lock, NEW gas, Ready(h, fs, v, l, lock, gas),
           NEW g, g = UpdateGasStateOnFailure(h),
           NEW a, a = h.runtime.scAddress, NEW m, m = Burn(l, a, lock)
    PROVE  Ready(g, fs, v, m, 0, gas)
<1>1. /\ IsHost(h) /\ IsBook(l) /\ a \in Accounts /\ lock \in Nat /\ Sends(l, h.output)
      /\ GasLeft(h) \in Nat
  BY ReadyFacts DEF Ready
<1>2. KeptHere(g, h)
  BY <1>1, FailureUpdateFails DEF Fails
<1>3. /\ IsHost(g) /\ SameBut(g, h, {"output"}) /\ Carriers(g.output) \subseteq Carriers(h.output)
  BY <1>1, FailureUpdate
<1>4. SameBut(g, h, Outer)
  BY <1>3 DEF SameBut, Outer
<1>5. UsesMore(g, h, fs, 0) /\ GasLeft(g) = GasLeft(h)
  BY <1>1, <1>3, <1>4, OuterUses
<1>6. BurntBy(m, l, a, lock)
  BY <1>1, Burning
<1>7. /\ IsBook(m) /\ Grows(m, l) /\ Spent(m) = Spent(l) + lock /\ Spent(l) \in Nat
  BY <1>1, <1>6, BooksAreLedgers DEF BurntBy
<1>8. \A x \in Accounts \ {h.runtime.scAddress} : m.burnt[x] = l.burnt[x]
  BY <1>6 DEF BurntBy
<1>9. Sends(m, g.output)
  BY <1>1, <1>3, <1>7, SoundBefore DEF Sends
<1>10. Sound(m) => Spent(m) + 0 = Spent(l) + lock + 0
  BY <1>1, <1>7
<1>11. GasLeft(g) + 0 <= GasLeft(h) + lock /\ 0 \in Nat /\ 0 \in Int
  BY <1>1, <1>5
<1> QED
  BY <1>2, <1>5, <1>7, <1>8, <1>9, <1>10, <1>11, ReadyMoves

(* The callback of the contract whose host is h. *)
LEMMA CallbackReached ==
    ASSUME NEW h, NEW fs, NEW v, NEW l, NEW lock, NEW gas, Ready(h, fs, v, l, lock, gas),
           fs[1].input.value = v, lock = h.runtime.gasLocked,
           lock <= GetPointsUsed(h), GetPointsUsed(h) <= h.metering.gasForExecution,
           NEW initiator \in Accounts, NEW gasLimit \in Nat, gasLimit <= GasLeft(h) + lock,
           NEW returnsToken, returnsToken => initiator \in Contracts,
           executeSyncCallbackCall(fs, h, l, initiator, gasLimit, returnsToken)
    PROVE  Reached(host', exit', frames', ledger', gas)
<1>1. PICK caller : caller = h.runtime.scAddress
  OBVIOUS
<1>2. /\ IsHost(h) /\ caller \in Accounts /\ caller \in Contracts /\ AsyncCallStep \in Nat
      /\ lock \in Nat /\ GasLeft(h) \in Nat
  BY <1>1, StepsAreNat, ReadyFacts DEF Ready
<1>3. CASE gasLimit <= AsyncCallStep
  <2>1. PICK g, m : g = UpdateGasStateOnFailure(h) /\ m = Burn(l, caller, lock)
    OBVIOUS
  <2>2. host' = g /\ ledger' = m /\ frames' = fs /\ exit' = "Ok"
    BY <1>1, <1>3, <2>1 DEF executeSyncCallbackCall
  <2>3. Ready(g, fs, v, m, 0, gas)
    BY <1>1, <2>1, ReadyLoses
  <2>4. Reached(g, "Ok", fs, m, gas)
    BY <2>3, ReadyEnds
  <2> QED
    BY <2>2, <2>4
<1>4. CASE ~(gasLimit <= AsyncCallStep)
  <2>1. PICK i, input : /\ i = gasLimit - AsyncCallStep
                        /\ input = Input(initiator, caller, 0, i, "AsynchronousCallBack", FALSE)
    OBVIOUS
  <2>2. i \in Nat /\ i <= GasLeft(h) + lock
    BY <1>2, <1>4, <2>1
  <2>3. /\ IsInput(input) /\ input.recipient = caller /\ input.caller = initiator
        /\ input.gas = i
    <3>1. 0 \in Nat /\ "AsynchronousCallBack" \in KnownCallTypes
      BY DEF KnownCallTypes
    <3> QED
      BY <1>2, <2>1, <2>2, <3>1, InputMade DEF Input
  <2>4. PICK h1 : h1 = RestoreGas(h, lock)
    OBVIOUS
  <2>5. /\ Ready(h1, fs, v, l, 0, gas) /\ GasLeft(h1) = GasLeft(h) + lock
        /\ h1.runtime = h.runtime
    BY <2>4, ReadyRestores
  <2>6. IsHost(h1) /\ input.gas <= GasLeft(h1) /\ Active(h1, fs, v)
    BY <2>2, <2>3, <2>5, ReadyFacts DEF Ready
  <2>7. PICK s, b : s = BlockchainPushState(h1) /\ b = handleBuiltinFunctionCall(s, input, TRUE)
    OBVIOUS
  <2>8. IF ~returnsToken
        THEN EnterFrom(fs, h1, l, "callback", input,
                       TransferAndExecute(PushDestContexts(h1, input), input))
        ELSE IF b.err # "Ok"
        THEN /\ host' = FailedBuiltin(b) /\ ledger' = Burn(l, caller, input.gas)
             /\ exit' = "Ok" /\ frames' = fs
        ELSE EnterAfterBuiltin(fs, h1, b, Burn(l, caller, EsdtCost), "callback")
    BY <1>1, <1>4, <2>1, <2>4, <2>7
       DEF executeSyncCallbackCall, createCallbackContractCallInput
  <2>9. CASE ~returnsToken
    <3>1. PICK p : p = PushDestContexts(h1, input)
      OBVIOUS
    <3>2. PushedFrom(p, h1, "callback", input) /\ Fresh(p, h1, input)
      BY <2>3, <2>6, <3>1, DestPushed, DestFresh
    <3>3. EnterFrom(fs, h1, l, "callback", input, TransferAndExecute(p, input))
      BY <2>8, <2>9, <3>1
    <3> QED
      BY <2>3, <2>5, <2>6, <3>2, <3>3, EnterReached
  <2>10. ASSUME returnsToken
         PROVE  \E rest, locked : Called(b, h1, input, TRUE, rest, locked)
    <3>1. input.caller \in Contracts
      BY <2>3, <2>10
    <3> QED
      BY <2>3, <2>6, <2>7, <3>1, CalledOnSnapshot
  <2>11. CASE returnsToken /\ b.err # "Ok"
    <3>1. PICK g, m : g = FailedBuiltin(b) /\ m = Burn(l, caller, i)
      OBVIOUS
    <3>2. host' = g /\ ledger' = m /\ frames' = fs /\ exit' = "Ok"
      BY <2>3, <2>8, <2>11, <3>1
    <3>3. PICK rest, locked : Called(b, h1, input, TRUE, rest, locked)
      BY <2>10, <2>11
    <3>4. Tracks(b.host, s, i) /\ Carriers(b.host.output) = Carriers(h1.output)
      <4>1. IsHost(h1) /\ b.err # "Ok"
        BY <2>6, <2>11
      <4>2. /\ Tracks(b.host, BlockchainPushState(h1), input.gas)
            /\ Carriers(b.host.output) = Carriers(h1.output)
        BY <4>1, <3>3, FailedTracks
      <4> QED
        BY <2>3, <2>7, <4>2
    <3>5. /\ KeptHere(g, h1) /\ UsesMore(g, h1, fs, i)
          /\ Carriers(g.output) \subseteq Carriers(b.host.output)
      BY <2>2, <2>5, <2>7, <3>1, <3>3, <3>4, BuiltInPopped
    <3>6. Ready(g, fs, v, m, 0, gas)
      BY <1>1, <2>2, <2>5, <3>1, <3>4, <3>5, ReadyBurns
    <3>7. Reached(g, "Ok", fs, m, gas)
      BY <3>6, ReadyEnds
    <3> QED
      BY <3>2, <3>7
  <2>12. CASE returnsToken /\ b.err = "Ok"
    <3>1. PICK m : m = Burn(l, caller, EsdtCost)
      OBVIOUS
    <3>2. PICK rest, locked : Called(b, h1, input, TRUE, rest, locked)
      BY <2>10, <2>12
    <3>3. b.after # << >>
      BY <1>2, <2>3, <2>12, <3>2 DEF Called, BuiltInDone
    <3>4. EnterAfterBuiltin(fs, h1, b, m, "callback")
      BY <2>8, <2>12, <3>1
    <3>5. caller = h1.runtime.scAddress
      BY <1>1, <2>5
    <3> QED
      BY <2>5, <2>6, <3>1, <3>2, <3>3, <3>4, <3>5, AfterBuiltInReached
  <2> QED
    BY <2>9, <2>11, <2>12
<1> QED
  BY <1>3, <1>4

-----------------------------------------------------------------------------
(* The asynchronous call.                                                   *)

\* The contract c, asked to call, has used the step and locked the gas.
LEMMA AskedGas ==
    ASSUME NEW c, IsHost(c), NEW fs, Len(fs) \in Nat \ {0}, c.instance = Len(fs),
           c.runtime.gasLocked = 0, self \in Contracts,
           NEW asked, asked = ExecuteAsyncCall(c), NEW h, h = asked.host
    PROVE  /\ SameCallers(h, c, fs)
           /\ asked.err = "Ok" =>
                 /\ h.runtime.gasLocked \in Nat /\ h.output = c.output
                 /\ UsesMore(h, c, fs, AsyncCallStep + h.runtime.gasLocked)
                 /\ GasLeft(h) + h.runtime.gasLocked <= GasLeft(c)
                 /\ h.runtime.gasLocked <= GetPointsUsed(h)
                 /\ GetPointsUsed(h) <= h.metering.gasForExecution
<1>1. PICK lock, step, cost : /\ lock = ComputeGasLockedForAsync /\ cost = AsyncCallStep
                              /\ step = UseGasBounded(c, cost)
  OBVIOUS
<1>2. lock \in Nat /\ cost \in Nat /\ GasLeft(c) \in Nat /\ GetPointsUsed(c) \in Nat
  <2>1. lock \in Nat
    BY <1>1, StepsAreNat, ContextsAssumption DEF ComputeGasLockedForAsync
  <2> QED
    BY <1>1, <2>1, StepsAreNat, GasIsNat
<1>3. SameCallers(c, c, fs)
  BY DEF SameCallers
<1>4. IsHost(h)
  BY AskedAsync DEF KeptHere, Kept
<1>5. PICK s : s = UseGas(c, cost)
  OBVIOUS
<1>6. IF GasLeft(c) <= cost THEN step.host = c /\ step.err = "ErrNotEnoughGas"
      ELSE step.host = s /\ step.err = "Ok"
  BY <1>1, <1>5 DEF UseGasBounded
<1>7. /\ UsesMore(s, c, fs, cost) /\ s.output = c.output /\ s.runtime = c.runtime
      /\ s.metering = c.metering
  BY <1>2, <1>5, GasUses DEF UsesMore
<1>8. IsHost(s) /\ SameCallers(s, c, fs) /\ s.instance = Len(fs)
  BY <1>7 DEF UsesMore
<1>9. CASE GasLeft(c) <= cost
  <2>1. step.host = c /\ step.err = "ErrNotEnoughGas"
    BY <1>6, <1>9
  <2>2. h = c /\ asked.err = "ErrNotEnoughGas"
    BY <1>1, <2>1 DEF ExecuteAsyncCall
  <2> QED
    BY <1>3, <2>2
<1>10. ASSUME ~(GasLeft(c) <= cost)
       PROVE  /\ step.host = s /\ step.err = "Ok" /\ GasLeft(s) \in Nat
              /\ GasLeft(s) <= GasLeft(c)
              /\ GetPointsUsed(s) \in Nat /\ GetPointsUsed(s) <= s.metering.gasForExecution
              /\ s.metering.gasForExecution \in Nat
              /\ GasLeft(s) = s.metering.gasForExecution - GetPointsUsed(s)
  <2>1. step.host = s /\ step.err = "Ok"
    BY <1>6, <1>10
  <2>2. PICK limit, p, q : /\ limit = c.metering.gasForExecution /\ p = GetPointsUsed(c)
                           /\ q = GetPointsUsed(s)
    OBVIOUS
  <2>3. limit \in Nat
    BY <2>2 DEF IsHost, IdleHost, IsMetering
  <2>4. p \in Nat /\ q = p + cost
    BY <1>2, <1>7, <2>2 DEF UsesMore
  <2>5. cost < SubUint64(limit, p)
    BY <1>2, <1>10, <2>2 DEF GasLeft
  <2>6. q \in Nat /\ q <= limit /\ SubUint64(limit, q) = limit - q /\ limit - q \in Nat
        /\ limit - q <= SubUint64(limit, p)
    BY <1>2, <2>3, <2>4, <2>5 DEF SubUint64
  <2>7. GasLeft(s) = limit - q /\ GasLeft(c) = SubUint64(limit, p)
    BY <1>7, <2>2, <2>6 DEF GasLeft
  <2> QED
    BY <1>7, <2>1, <2>2, <2>3, <2>6, <2>7
<1>11. CASE ~(GasLeft(c) <= cost) /\ self \notin WithCallback
  <2>1. h = s /\ asked.err = "Ok"
    BY <1>1, <1>10, <1>11 DEF ExecuteAsyncCall
  <2>2. cost + 0 = cost /\ GasLeft(s) + 0 = GasLeft(s)
    BY <1>2, <1>10, <1>11
  <2> QED
    BY <1>1, <1>7, <1>8, <1>10, <1>11, <2>1, <2>2
<1>12. PICK locked, u : locked = UseGasBounded(s, lock) /\ u = UseGas(s, lock)
  OBVIOUS
<1>13. CASE ~(GasLeft(c) <= cost) /\ self \in WithCallback /\ GasLeft(s) <= lock
  <2>1. locked = [host |-> s, err |-> "ErrNotEnoughGas"]
    BY <1>12, <1>13 DEF UseGasBounded
  <2>2. locked.err # "Ok" /\ locked.host = s /\ step.host = s /\ step.err = "Ok"
    BY <1>10, <1>13, <2>1
  <2>3. asked = locked
    BY <1>1, <1>12, <1>13, <2>2 DEF ExecuteAsyncCall
  <2> QED
    BY <1>8, <2>2, <2>3
<1>14. CASE ~(GasLeft(c) <= cost) /\ self \in WithCallback /\ ~(GasLeft(s) <= lock)
  <2>1. locked = [host |-> u, err |-> "Ok"]
    BY <1>12, <1>14 DEF UseGasBounded
  <2>2. asked = [locked EXCEPT !.host.runtime.gasLocked = lock]
    <3>1. locked.err = "Ok" /\ step.host = s /\ step.err = "Ok"
      BY <1>10, <1>14, <2>1
    <3> QED
      BY <1>1, <1>12, <1>14, <3>1 DEF ExecuteAsyncCall
  <2>3. h = [u EXCEPT !.runtime.gasLocked = lock] /\ asked.err = "Ok"
    BY <2>1, <2>2
  <2>4. /\ UsesMore(u, s, fs, lock) /\ u.output = s.output /\ u.runtime = s.runtime
    BY <1>2, <1>8, <1>12, GasUses
  <2>5. IsHost(u) /\ DOMAIN u = HostFields /\ u.runtime \in RuntimeType
    BY <2>4 DEF UsesMore, IsHost, IdleHost
  <2>6. SameBut(h, u, {"runtime"}) /\ h.runtime = [u.runtime EXCEPT !.gasLocked = lock]
    BY <2>3, <2>5 DEF SameBut, HostFields
  <2>7. h.runtime.scAddress = u.runtime.scAddress /\ h.runtime.gasLocked = lock
    BY <2>5, <2>6 DEF RuntimeType
  <2>8. /\ h.output = u.output /\ h.metering = u.metering /\ h.points = u.points
        /\ h.meteringStack = u.meteringStack /\ h.instance = u.instance
    BY <2>6 DEF SameBut, HostFields
  <2>9. UsesMore(h, s, fs, lock)
    BY <1>4, <2>4, <2>7, <2>8 DEF UsesMore, SameCallers, GetPointsUsed
  <2>10. UsesMore(h, c, fs, cost + lock)
    <3>1. cost \in Int /\ lock \in Int
      BY <1>2
    <3>2. UsesMore(s, c, fs, cost)
      BY <1>7
    <3> QED
      BY <2>9, <3>1, <3>2, UsesTransitive
  <2>11. GasLeft(h) \in Nat /\ GasLeft(h) + lock = GasLeft(s)
    BY <1>2, <1>8, <1>10, <1>14, <2>9, GasLeftMoved
  <2>12. GetPointsUsed(h) = GetPointsUsed(s) + lock /\ h.metering = s.metering
    BY <2>9 DEF UsesMore
  <2>13. /\ lock <= GetPointsUsed(h) /\ GetPointsUsed(h) <= h.metering.gasForExecution
         /\ GasLeft(h) + lock <= GasLeft(c)
    BY <1>2, <1>10, <1>14, <2>11, <2>12
  <2>14. SameCallers(h, c, fs)
    BY <2>10 DEF UsesMore
  <2>15. h.output = c.output
    BY <1>7, <2>4, <2>8
  <2> QED
    BY <1>1, <1>2, <2>7, <2>10, <2>13, <2>14, <2>15
<1> QED
  BY <1>9, <1>11, <1>13, <1>14

\* The host h has asked for an asynchronous call, the ledger is l.
Asking(h, fs, v, l, gas) ==
    /\ Ready(h, fs, v, l, h.runtime.gasLocked, gas)
    /\ h.runtime.gasLocked <= GetPointsUsed(h)
    /\ GetPointsUsed(h) <= h.metering.gasForExecution
    /\ h.runtime.scAddress = self /\ frames = fs /\ fs[1].input.value = v

LEMMA SentToShard ==
    ASSUME NEW h, NEW fs, NEW v, NEW l, NEW gas, Asking(h, fs, v, l, gas),
           NEW dest \in Accounts, dest \notin Contracts, NEW value \in Nat,
           sendAsyncCallToDestination(h, l, dest, value)
    PROVE  Reached(host', exit', frames', ledger', gas)
<1>1. PICK a, left, locked : /\ a = self /\ left = GasLeft(h)
                             /\ locked = h.runtime.gasLocked
  OBVIOUS
<1>2. /\ Ready(h, fs, v, l, locked, gas) /\ frames = fs /\ IsHost(h) /\ IsBook(l)
      /\ a \in Accounts /\ left \in Nat /\ locked \in Nat /\ h.instance = Len(fs)
      /\ Len(fs) \in Nat \ {0}
  BY <1>1, ReadyFacts DEF Asking, Ready
<1>3. CASE CanTransferValue(h, dest, a, value, left > 0)
  <2>1. PICK t, g, m : /\ t = Transfer(h, dest, a, left, locked, value)
                       /\ g = UseGas(t, left)
                       /\ m = [l EXCEPT !.forwarded = @ + (left + locked)]
    OBVIOUS
  <2>2. l.forwarded \in Nat
    BY <1>2 DEF IsBook
  <2>3. (l.forwarded + left) + locked = l.forwarded + (left + locked)
    BY <1>2, <2>2
  <2>4. host' = g /\ ledger' = m /\ frames' = fs /\ exit' = "Ok"
    BY <1>1, <1>2, <1>3, <2>1, <2>3 DEF sendAsyncCallToDestination
  <2>5. KeptHere(t, h)
    BY <1>2, <1>3, <2>1, TransferKeeps DEF CanTransferValue
  <2>6. /\ SameBut(t, h, Outer)
        /\ Carriers(t.output) \subseteq Carriers(h.output)
              \cup (IF left + locked = 0 THEN {} ELSE {dest})
    BY <1>2, <2>1, TransferSends
  <2>7. IsHost(t) /\ t.instance = h.instance
    BY <2>5, <2>6 DEF KeptHere, Kept, SameBut, HostFields, Outer
  <2>8. UsesMore(g, t, fs, left) /\ g.output = t.output
    BY <1>2, <2>1, <2>7, GasUses
  <2>9. UsesMore(t, h, fs, 0)
    BY <1>2, <2>6, <2>7, OuterUses
  <2>10. UsesMore(g, h, fs, left)
    <3>1. UsesMore(g, h, fs, 0 + left)
      BY <1>2, <2>8, <2>9, UsesTransitive
    <3>2. 0 + left = left
      BY <1>2
    <3> QED
      BY <3>1, <3>2
  <2>11. KeptHere(g, h)
    BY <1>2, <2>1, <2>5, <2>7, GasUseKeeps, KeptTransitive
  <2>12. Ready(g, fs, v, m, 0, gas)
    BY <1>2, <2>1, <2>6, <2>8, <2>10, <2>11, ReadyForwards
  <2>13. Reached(g, "Ok", fs, m, gas)
    BY <2>12, ReadyEnds
  <2> QED
    BY <2>4, <2>13
<1>4. CASE ~CanTransferValue(h, dest, a, value, left > 0)
  <2>1. Fault(h, l)
    BY <1>1, <1>4 DEF sendAsyncCallToDestination
  <2> QED
    BY <1>2, <2>1, FaultReached
<1> QED
  BY <1>3, <1>4

\* The built-in function that the contract h asks for, called on a snapshot.
AskedFor(b, h, input, andCall, rest, locked) ==
    /\ Called(b, h, input, andCall, rest, locked)
    /\ locked = h.runtime.gasLocked /\ input.gas = GasLeft(h)

LEMMA CrossShardReached ==
    ASSUME NEW h, NEW fs, NEW v, NEW l, NEW gas, Asking(h, fs, v, l, gas),
           NEW input, NEW andCall, NEW b, NEW rest, NEW locked,
           AskedFor(b, h, input, andCall, rest, locked), input.recipient \in Remote,
           NEW a, a = self, NEW paid,
           paid = Burn(l, a, IF b.err = "Ok" THEN EsdtCost ELSE input.gas),
           IF b.err = "Ok"
           THEN EndCall(BlockchainPopDiscard(b.host),
                        [paid EXCEPT !.forwarded = @ + input.gas - EsdtCost + locked], "Ok")
           ELSE EndCall(FailedBuiltin(b), paid, b.err)
    PROVE  Reached(host', exit', frames', ledger', gas)
<1>1. PICK left, dest, s : /\ left = GasLeft(h) /\ dest = input.recipient
                           /\ s = BlockchainPushState(h)
  OBVIOUS
<1>2. /\ Ready(h, fs, v, l, locked, gas) /\ frames = fs /\ IsHost(h) /\ IsBook(l)
      /\ a \in Accounts /\ a = h.runtime.scAddress /\ left \in Nat /\ locked \in Nat
      /\ Sends(l, h.output)
  BY <1>1, ReadyFacts DEF Asking, AskedFor, Ready
<1>3. /\ Called(b, h, input, andCall, rest, locked) /\ input.gas = left
      /\ EsdtCost \in Nat /\ rest = left - EsdtCost
  BY <1>1, StepsAreNat DEF AskedFor, Called
<1>4. s.output = h.output
  BY <1>1, <1>2, SnapshotTaken DEF SameBut, HostFields
<1>5. dest \notin Contracts
  BY <1>1, ContextsAssumption
<1>6. CASE b.err = "Ok"
  <2>1. PICK d, p, m : /\ d = BlockchainPopDiscard(b.host) /\ p = Burn(l, a, EsdtCost)
                       /\ m = [p EXCEPT !.forwarded = @ + (rest + locked)]
    OBVIOUS
  <2>2. BurntBy(p, l, a, EsdtCost)
    BY <1>2, <1>3, <2>1, Burning
  <2>3. IsBook(p) /\ p.forwarded \in Nat
    BY <2>2 DEF BurntBy, IsBook
  <2>4. /\ rest \in Nat /\ Tracks(b.host, s, left)
        /\ Carriers(b.host.output) \subseteq Carriers(h.output)
              \cup (IF rest + locked = 0 THEN {} ELSE {dest})
    BY <1>1, <1>3, <1>4, <1>6 DEF Called, BuiltInGas
  <2>5. p.forwarded + left - EsdtCost + locked = p.forwarded + (rest + locked)
    BY <1>2, <1>3, <2>3, <2>4
  <2>6. paid = p
    BY <1>6, <2>1
  <2>7. host' = d /\ ledger' = m /\ frames' = fs /\ exit' = "Ok"
    <3>1. EndCall(d, [p EXCEPT !.forwarded = @ + left - EsdtCost + locked], "Ok")
      BY <1>3, <1>6, <2>1, <2>6
    <3>2. [p EXCEPT !.forwarded = @ + left - EsdtCost + locked] = m
      BY <2>1, <2>5
    <3> QED
      BY <1>2, <3>1, <3>2 DEF EndCall
  <2>8. /\ KeptHere(d, h) /\ UsesMore(d, h, fs, left) /\ d.runtime = h.runtime
        /\ Carriers(d.output) \subseteq Carriers(b.host.output)
    BY <1>1, <1>2, <1>3, <2>1, <2>4, BuiltInPopped
  <2>9. rest + locked \in Nat /\ ForwardedFrom(m, p, rest + locked)
    <3>1. PICK z : z = rest + locked
      OBVIOUS
    <3>2. z \in Nat /\ m = [p EXCEPT !.forwarded = @ + z]
      <4>1. z \in Nat
        BY <1>2, <2>4, <3>1
      <4>2. m = [p EXCEPT !.forwarded = @ + z]
        BY <2>1, <3>1, Zenon
      <4> QED
        BY <4>1, <4>2
    <3>3. ForwardedFrom(m, p, z)
      BY <2>3, <3>2, Forwarding
    <3> QED
      BY <3>1, <3>2, <3>3
  <2>10. /\ IsBook(m) /\ Grows(m, p) /\ Spent(m) = Spent(p) + (rest + locked)
         /\ m.burnt = p.burnt /\ m.forwarded = p.forwarded + (rest + locked)
    BY <2>9 DEF ForwardedFrom
  <2>11. /\ Grows(p, l) /\ Spent(p) = Spent(l) + EsdtCost
         /\ \A x \in Accounts \ {a} : p.burnt[x] = l.burnt[x]
    BY <2>2 DEF BurntBy
  <2>12. Grows(m, l)
    BY <1>2, <2>3, <2>10, <2>11, GrowsTransitive
  <2>13. Sound(m) => Spent(m) + 0 = Spent(l) + locked + left
    <3>1. Spent(l) \in Nat
      BY <1>2, BooksAreLedgers
    <3> QED
      BY <1>2, <1>3, <2>4, <2>10, <2>11, <3>1
  <2>14. Inside(m) => rest + locked = 0
    BY <2>3, <2>9, <2>10 DEF Inside
  <2>15. Sends(m, d.output)
    <3>1. (Sound(m) => Sound(l)) /\ (Inside(m) => Inside(l))
      BY <1>2, <2>10, <2>12, SoundBefore
    <3> QED
      BY <1>2, <1>5, <2>4, <2>8, <2>14, <3>1 DEF Sends
  <2>16. GasLeft(d) + 0 <= GasLeft(h) + locked
    BY <1>1, <1>2, <2>8, GasLeftMoved
  <2>17. \A x \in Accounts \ {h.runtime.scAddress} : m.burnt[x] = l.burnt[x]
    BY <1>2, <2>10, <2>11
  <2>18. Ready(d, fs, v, m, 0, gas)
    <3>1. left \in Int /\ 0 \in Nat /\ IsBook(m) /\ KeptHere(d, h) /\ UsesMore(d, h, fs, left)
      BY <1>2, <2>8, <2>10
    <3> QED
      BY <1>2, <2>12, <2>13, <2>15, <2>16, <2>17, <3>1, ReadyMoves
  <2>19. Reached(d, "Ok", fs, m, gas)
    BY <2>18, ReadyEnds
  <2> QED
    BY <2>7, <2>19
<1>7. CASE b.err # "Ok"
  <2>1. PICK e, x, p : e = FailedBuiltin(b) /\ x = "ErrNotEnoughGas" /\ p = Burn(l, a, left)
    OBVIOUS
  <2>2. Tracks(b.host, s, left) /\ b.err = x
    <3>1. Tracks(b.host, BlockchainPushState(h), input.gas) /\ b.err = "ErrNotEnoughGas"
      BY <1>2, <1>3, <1>7, FailedTracks
    <3> QED
      BY <1>1, <1>3, <2>1, <3>1
  <2>3. host' = e /\ ledger' = p /\ frames' = fs /\ exit' = x
    BY <1>2, <1>3, <1>7, <2>1, <2>2 DEF EndCall
  <2>4. UsesMore(e, h, fs, left)
    BY <1>1, <1>2, <1>3, <2>1, <2>2, BuiltInPopped
  <2>5. SameCallers(e, h, fs)
    BY <2>4 DEF UsesMore
  <2>6. IsBook(p)
    BY <1>2, <2>1, Burning DEF BurntBy
  <2>7. x \notin Early \cup {"running", "Ok", "idle"}
    BY <2>1 DEF Early
  <2>8. Reached(e, x, fs, p, gas)
    BY <1>2, <2>5, <2>6, <2>7, ReadyFails
  <2> QED
    BY <2>3, <2>8
<1> QED
  BY <1>6, <1>7

LEMMA IntraShardReached ==
    ASSUME NEW h, NEW fs, NEW v, NEW l, NEW gas, Asking(h, fs, v, l, gas),
           NEW input, NEW andCall, NEW b, NEW rest, NEW locked,
           AskedFor(b, h, input, andCall, rest, locked),
           NEW dest \in Accounts, dest = input.recipient, dest \notin Remote,
           NEW a, a = self, NEW paid,
           paid = Burn(l, a, IF b.err = "Ok" THEN EsdtCost ELSE input.gas),
           IF b.after # << >> THEN EnterAfterBuiltin(fs, h, b, paid, "asyncDest")
           ELSE IF b.err = "Ok"
           THEN executeSyncCallbackCall(fs, BlockchainPopDiscard(b.host), paid, dest,
                                        b.output.gasRemaining + locked, FALSE)
           ELSE executeSyncCallbackCall(fs, FailedBuiltin(b), paid, dest, locked, FALSE)
    PROVE  Reached(host', exit', frames', ledger', gas)
<1>1. PICK left, s, limit, p : /\ left = GasLeft(h) /\ s = BlockchainPushState(h)
                               /\ limit = h.metering.gasForExecution /\ p = GetPointsUsed(h)
  OBVIOUS
<1>2. /\ Ready(h, fs, v, l, locked, gas) /\ IsHost(h) /\ IsBook(l)
      /\ a \in Accounts /\ a = h.runtime.scAddress /\ left \in Nat /\ locked \in Nat
      /\ fs[1].input.value = v
  BY <1>1, ReadyFacts DEF Asking, AskedFor, Ready
<1>3. /\ p \in Nat /\ limit \in Nat /\ left = SubUint64(limit, p) /\ locked <= p /\ p <= limit
  BY <1>1, <1>2, ReadyFacts DEF Asking, AskedFor
<1>4. /\ Called(b, h, input, andCall, rest, locked) /\ input.gas = left
      /\ EsdtCost \in Nat /\ rest = left - EsdtCost /\ locked = h.runtime.gasLocked
  BY <1>1, StepsAreNat DEF AskedFor, Called
<1>5. s.output = h.output
  BY <1>1, <1>2, SnapshotTaken DEF SameBut, HostFields
<1>6. CASE b.after # << >>
  <2>1. b.err = "Ok"
    BY <1>4, <1>6 DEF Called, BuiltInDone
  <2>2. PICK m : m = Burn(l, a, EsdtCost)
    OBVIOUS
  <2>3. EnterAfterBuiltin(fs, h, b, m, "asyncDest")
    BY <1>6, <2>1, <2>2
  <2>4. input.gas <= GasLeft(h)
    BY <1>1, <1>2, <1>4
  <2>5. GetPointsUsed(h) <= h.metering.gasForExecution /\ locked <= GetPointsUsed(h)
    BY <1>1, <1>3
  <2> QED
    BY <1>2, <1>4, <1>6, <2>2, <2>3, <2>4, <2>5, AfterBuiltInReached
<1>7. ASSUME NEW d, d \in {BlockchainPopDiscard(b.host), FailedBuiltin(b)},
             NEW used \in Nat, used <= left, Tracks(b.host, s, used),
             Carriers(b.host.output) \subseteq Carriers(h.output),
             NEW m, m = Burn(l, a, used), NEW gasLimit \in Nat,
             gasLimit <= left - used + locked,
             executeSyncCallbackCall(fs, d, m, dest, gasLimit, FALSE)
      PROVE  Reached(host', exit', frames', ledger', gas)
  <2>1. /\ KeptHere(d, h) /\ UsesMore(d, h, fs, used) /\ d.runtime = h.runtime
        /\ Carriers(d.output) \subseteq Carriers(b.host.output)
    <3>1. Tracks(b.host, BlockchainPushState(h), used) /\ used \in Nat
      BY <1>1, <1>7
    <3>2. d \in {BlockchainPopDiscard(b.host), FailedBuiltin(b)}
      BY <1>7
    <3>3. Ready(h, fs, v, l, locked, gas) /\ Called(b, h, input, andCall, rest, locked)
      BY <1>2, <1>4
    <3> QED
      BY ONLY <3>1, <3>2, <3>3, BuiltInPopped
  <2>2. Carriers(d.output) \subseteq Carriers(h.output)
    BY <1>7, <2>1
  <2>3. Ready(d, fs, v, m, locked, gas)
    BY <1>2, <1>7, <2>1, <2>2, ReadyBurns
  <2>4. GetPointsUsed(d) = p + used /\ d.metering.gasForExecution = limit
    BY <1>1, <2>1 DEF UsesMore
  <2>5. GasLeft(d) = SubUint64(limit, p + used)
    BY <2>4 DEF GasLeft
  <2>6. p + used <= limit /\ GasLeft(d) = left - used /\ locked <= p + used
    BY <1>2, <1>3, <1>7, <2>5, TakenFrom
  <2>7. /\ locked <= GetPointsUsed(d) /\ GetPointsUsed(d) <= d.metering.gasForExecution
        /\ gasLimit <= GasLeft(d) + locked
    BY <1>7, <2>4, <2>6
  <2>8. locked = d.runtime.gasLocked
    BY <1>4, <2>1
  <2> QED
    BY <1>2, <1>7, <2>3, <2>7, <2>8, CallbackReached
<1>8. CASE b.after = << >> /\ b.err = "Ok"
  <2>1. PICK d, m, r : /\ d = BlockchainPopDiscard(b.host) /\ m = Burn(l, a, EsdtCost)
                       /\ r = rest + locked
    OBVIOUS
  <2>2. /\ rest \in Nat /\ Tracks(b.host, s, EsdtCost) /\ b.output.gasRemaining = rest
        /\ Carriers(b.host.output) \subseteq Carriers(h.output)
    BY <1>1, <1>4, <1>5, <1>8 DEF Called, BuiltInGas
  <2>3. executeSyncCallbackCall(fs, d, m, dest, r, FALSE)
    BY <1>8, <2>1, <2>2
  <2>4. r \in Nat /\ EsdtCost <= left /\ r <= left - EsdtCost + locked
    BY <1>2, <1>4, <2>1, <2>2
  <2>5. d \in {BlockchainPopDiscard(b.host), FailedBuiltin(b)} /\ EsdtCost \in Nat
    BY <1>4, <2>1
  <2> QED
    BY <1>7, <2>1, <2>2, <2>3, <2>4, <2>5
<1>9. CASE b.after = << >> /\ b.err # "Ok"
  <2>1. PICK d, m : d = FailedBuiltin(b) /\ m = Burn(l, a, left)
    OBVIOUS
  <2>2. Tracks(b.host, s, left) /\ Carriers(b.host.output) \subseteq Carriers(h.output)
    <3>1. /\ Tracks(b.host, BlockchainPushState(h), input.gas)
          /\ Carriers(b.host.output) = Carriers(h.output)
      BY <1>2, <1>4, <1>9, FailedTracks
    <3> QED
      BY <1>1, <1>4, <3>1
  <2>3. executeSyncCallbackCall(fs, d, m, dest, locked, FALSE)
    BY <1>4, <1>9, <2>1
  <2>4. left <= left /\ locked <= left - left + locked
    BY <1>2
  <2> QED
    BY <1>2, <1>7, <2>1, <2>2, <2>3, <2>4
<1> QED
  BY <1>6, <1>8, <1>9

LEMMA BreakpointReached ==
    ASSUME NEW h, NEW fs, NEW v, NEW l, NEW gas, Asking(h, fs, v, l, gas), self \in Contracts,
           NEW dest \in Accounts, NEW value \in Nat, NEW andCall, NEW mode,
           mode \in {"AsyncUnknown", "SyncCall", "ESDTTransferOnCallBack",
                     "AsyncBuiltinFuncCrossShard", "AsyncBuiltinFuncIntraShard"},
           mode = "SyncCall" => dest \in Contracts,
           mode = "AsyncUnknown" => dest \notin Contracts,
           mode = "AsyncBuiltinFuncCrossShard" => dest \in Remote,
           mode = "AsyncBuiltinFuncIntraShard" => dest \notin Remote,
           handleAsyncCallBreakpoint(h, l, mode, dest, value, andCall)
    PROVE  Reached(host', exit', frames', ledger', gas)
<1>1. PICK a, left, locked : /\ a = self /\ left = GasLeft(h)
                             /\ locked = h.runtime.gasLocked
  OBVIOUS
<1>2. /\ Ready(h, fs, v, l, locked, gas) /\ frames = fs /\ IsHost(h)
      /\ a \in Accounts /\ a \in Contracts /\ left \in Nat /\ locked \in Nat
      /\ "AsynchronousCall" \in KnownCallTypes /\ fs[1].input.value = v
  BY <1>1, ReadyFacts DEF Asking, Ready, KnownCallTypes
<1>3. locked <= GetPointsUsed(h) /\ GetPointsUsed(h) <= h.metering.gasForExecution
  BY <1>1 DEF Asking
<1>4. PICK input : input = Input(a, dest, value, left, "AsynchronousCall", FALSE)
  OBVIOUS
<1>5. input = createDestinationContractCallInput(h, dest, value)
  BY <1>1, <1>4 DEF createDestinationContractCallInput
<1>6. IsInput(input)
  BY <1>2, <1>4, InputMade
<1>7. /\ input.caller = a /\ input.recipient = dest /\ input.gas = left
      /\ input.callType = "AsynchronousCall"
  BY <1>4 DEF Input
<1>8. PICK b : b = handleBuiltinFunctionCall(BlockchainPushState(h), input, andCall)
  OBVIOUS
<1>9. PICK rest : AskedFor(b, h, input, andCall, rest, locked)
  <2>1. input.caller \in Contracts
    BY <1>2, <1>7
  <2>2. PICK rest, other : Called(b, h, input, andCall, rest, other)
    BY <1>2, <1>6, <1>8, <2>1, CalledOnSnapshot
  <2>3. other = locked
    BY <1>1, <1>7, <2>2 DEF Called
  <2> QED
    BY <1>1, <1>7, <2>2, <2>3 DEF AskedFor
<1>10. PICK paid : paid = Burn(l, a, IF b.err = "Ok" THEN EsdtCost ELSE input.gas)
  OBVIOUS
<1>11. CASE mode = "AsyncUnknown"
  <2>1. sendAsyncCallToDestination(h, l, dest, value)
    BY <1>11 DEF handleAsyncCallBreakpoint
  <2> QED
    BY <1>11, <2>1, SentToShard
<1>12. CASE mode = "SyncCall"
  <2>1. PICK p : p = PushDestContexts(h, input)
    OBVIOUS
  <2>2. PushedFrom(p, h, "asyncDest", input) /\ Fresh(p, h, input)
    BY <1>2, <1>6, <2>1, DestPushed, DestFresh
  <2>3. EnterFrom(fs, h, l, "asyncDest", input, TransferAndExecute(p, input))
    BY <1>2, <1>5, <1>12, <2>1
       DEF handleAsyncCallBreakpoint, executeSyncDestinationCall, EnterDest, Enter
  <2>4. input.gas <= GasLeft(h) /\ input.recipient \in Contracts
    BY <1>1, <1>2, <1>7, <1>12
  <2> QED
    BY <1>1, <1>2, <1>3, <1>6, <2>2, <2>3, <2>4, EnterReached
<1>13. CASE mode = "ESDTTransferOnCallBack"
  <2>1. PICK u : u = RestoreGas(h, locked)
    OBVIOUS
  <2>2. Ready(u, fs, v, l, 0, gas) /\ u.output = h.output
    BY <1>2, <1>3, <2>1, ReadyRestores
  <2>3. IsHost(u) /\ IsOutput(u.output) /\ DOMAIN u = HostFields
    BY <2>2 DEF Ready, IsHost, IdleHost
  <2>4. PICK o : o = [u.output EXCEPT !.returnsToken = TRUE]
    OBVIOUS
  <2>5. DOMAIN o = OutputFields /\ o.accounts = u.output.accounts /\ o.gasRemaining \in Nat
    BY <2>3, <2>4 DEF IsOutput, OutputFields
  <2>6. Carries(o, u.output)
    BY <2>3, <2>5, SameAccountsCarry
  <2>7. PICK g : g = WithOutput(u, o)
    OBVIOUS
  <2>8. KeptHere(g, u) /\ SameBut(g, u, {"output"}) /\ g.output = o
    BY <2>3, <2>6, <2>7, OutputReplaced
  <2>9. Carriers(g.output) \subseteq Carriers(u.output) /\ SameBut(g, u, Outer)
    BY <2>5, <2>8 DEF Carriers, SameBut, Outer
  <2>10. Ready(g, fs, v, l, 0, gas)
    BY <2>2, <2>8, <2>9, ReadyChanges
  <2>11. host' = g /\ ledger' = l /\ frames' = fs /\ exit' = "Ok"
    <3>1. EndCall([u EXCEPT !.output.returnsToken = TRUE], l, "Ok")
      BY <1>1, <1>13, <2>1 DEF handleAsyncCallBreakpoint
    <3>2. [u EXCEPT !.output.returnsToken = TRUE] = g
      BY <2>3, <2>4, <2>7 DEF WithOutput, HostFields
    <3> QED
      BY <1>2, <3>1, <3>2 DEF EndCall
  <2>12. Reached(g, "Ok", fs, l, gas)
    BY <2>10, ReadyEnds
  <2> QED
    BY <2>11, <2>12
<1>14. CASE mode = "AsyncBuiltinFuncCrossShard"
  <2>1. IF b.err = "Ok"
        THEN EndCall(BlockchainPopDiscard(b.host),
                     [paid EXCEPT !.forwarded = @ + input.gas - EsdtCost + locked], "Ok")
        ELSE EndCall(FailedBuiltin(b), paid, b.err)
    BY <1>1, <1>5, <1>8, <1>10, <1>14 DEF handleAsyncCallBreakpoint
  <2>2. input.recipient \in Remote
    BY <1>7, <1>14
  <2> QED
    BY <1>1, <1>9, <1>10, <2>1, <2>2, CrossShardReached
<1>15. CASE mode = "AsyncBuiltinFuncIntraShard"
  <2>1. IF b.after # << >> THEN EnterAfterBuiltin(fs, h, b, paid, "asyncDest")
        ELSE IF b.err = "Ok"
        THEN executeSyncCallbackCall(fs, BlockchainPopDiscard(b.host), paid, dest,
                                     b.output.gasRemaining + locked, FALSE)
        ELSE executeSyncCallbackCall(fs, FailedBuiltin(b), paid, dest, locked, FALSE)
    BY <1>1, <1>2, <1>5, <1>8, <1>10, <1>15 DEF handleAsyncCallBreakpoint
  <2>2. dest = input.recipient /\ dest \notin Remote
    BY <1>7, <1>15
  <2> QED
    BY <1>1, <1>9, <1>10, <2>1, <2>2, IntraShardReached
<1> QED
  BY <1>11, <1>12, <1>13, <1>14, <1>15

LEMMA AsyncCallSpends ==
    ASSUME VMInv, GasInv, NEW dest \in Accounts, NEW value \in Nat, NEW builtIn, NEW andCall,
           AsyncCall(dest, value, builtIn, andCall)
    PROVE  Arrives
<1>1. PICK g : g = host
  OBVIOUS
<1>2. PICK c, fs, v, k : Charged(c, fs, v, k, AsyncCallStep) /\ exit = "running"
  BY ChargedOnce, StepsAreNat DEF AsyncCall, Running
<1>3. PICK asked, h, l, mode, step :
          /\ asked = ExecuteAsyncCall(c) /\ h = asked.host /\ step = AsyncCallStep
          /\ l = Burn(ledger, self, 2 * step)
          /\ mode = determineAsyncCallExecutionMode(dest, builtIn, andCall)
  OBVIOUS
<1>4. /\ Ready(g, fs, v, ledger, 0, GasNow) /\ g.runtime.gasLocked = 0
      /\ frames = fs /\ fs[1].input.value = v /\ self \in Contracts /\ self \in Accounts
      /\ c.runtime = g.runtime /\ self = g.runtime.scAddress
      /\ c = UseGas(g, step)
  BY <1>1, <1>2, <1>3, ReadyNow DEF Charged
<1>5. step \in Nat /\ 2 * step \in Nat
  BY <1>3, StepsAreNat
<1>6. /\ IsHost(g) /\ IsBook(ledger) /\ Len(fs) \in Nat \ {0} /\ g.instance = Len(fs)
      /\ Sends(ledger, g.output) /\ GasLeft(g) \in Nat
  BY <1>4, ReadyFacts
<1>7. UsesMore(c, g, fs, step) /\ c.output = g.output
  BY <1>4, <1>5, <1>6, GasUses
<1>8. IsHost(c) /\ c.instance = Len(fs) /\ SameCallers(c, g, fs) /\ c.runtime.gasLocked = 0
  BY <1>4, <1>6, <1>7 DEF UsesMore
<1>9. PICK locked : locked = h.runtime.gasLocked
  OBVIOUS
<1>10. /\ SameCallers(h, c, fs)
       /\ asked.err = "Ok" =>
             /\ locked \in Nat /\ h.output = c.output
             /\ UsesMore(h, c, fs, step + locked)
             /\ GasLeft(h) + locked <= GasLeft(c)
             /\ locked <= GetPointsUsed(h)
             /\ GetPointsUsed(h) <= h.metering.gasForExecution
  BY <1>3, <1>4, <1>6, <1>8, <1>9, AskedGas
<1>11. KeptHere(h, c) /\ asked.err \in {"Ok", "ErrNotEnoughGas"} /\ KeptHere(c, g)
  BY <1>3, <1>4, <1>5, <1>6, <1>8, AskedAsync, GasUseKeeps
<1>12. KeptHere(h, g)
  BY <1>11, KeptTransitive
<1>13. IF asked.err # "Ok" THEN EndCall(h, ledger, asked.err)
       ELSE handleAsyncCallBreakpoint(h, l, mode, dest, value, andCall)
  BY <1>1, <1>3, <1>4 DEF AsyncCall
<1>14. CASE asked.err # "Ok"
  <2>1. PICK x, m : x = "ErrNotEnoughGas" /\ m = ledger
    OBVIOUS
  <2>2. host' = h /\ ledger' = m /\ frames' = fs /\ exit' = x
    BY <1>4, <1>11, <1>13, <1>14, <2>1 DEF EndCall
  <2>3. x \notin Early \cup {"running", "Ok", "idle"}
    BY <2>1 DEF Early
  <2>4. SameCallers(h, g, fs)
    BY <1>8, <1>10, SameCallersTransitive
  <2>5. Reached(h, x, fs, m, GasNow)
    BY <1>4, <1>6, <2>1, <2>3, <2>4, ReadyFails
  <2> QED
    BY <2>2, <2>5 DEF Arrives
<1>15. CASE asked.err = "Ok"
  <2>1. handleAsyncCallBreakpoint(h, l, mode, dest, value, andCall)
    BY <1>13, <1>15
  <2>2. PICK used : used = 2 * step + locked
    OBVIOUS
  <2>3. locked \in Nat /\ used \in Int /\ GasLeft(h) \in Nat
    BY <1>5, <1>10, <1>11, <1>15, <2>2, GasIsNat DEF KeptHere, Kept
  <2>4. UsesMore(h, g, fs, used)
    <3>1. PICK rest : rest = step + locked
      OBVIOUS
    <3>2. rest \in Int /\ step \in Int /\ UsesMore(h, c, fs, rest) /\ step + rest = used
      BY <1>5, <1>10, <1>15, <2>2, <2>3, <3>1
    <3>3. UsesMore(h, g, fs, step + rest)
      BY <1>6, <1>7, <3>2, UsesTransitive
    <3> QED
      BY <3>2, <3>3
  <2>5. BurntBy(l, ledger, self, 2 * step)
    <3>1. PICK twice : twice = 2 * step
      OBVIOUS
    <3> QED
      BY <1>3, <1>4, <1>5, <1>6, <3>1, Burning
  <2>6. /\ IsBook(l) /\ Grows(l, ledger) /\ Spent(l) = Spent(ledger) + 2 * step
        /\ \A x \in Accounts \ {g.runtime.scAddress} : l.burnt[x] = ledger.burnt[x]
    BY <1>4, <2>5 DEF BurntBy
  <2>7. Sound(l) => Spent(l) + locked = Spent(ledger) + 0 + used
    <3>1. Spent(ledger) \in Nat
      BY <1>6, BooksAreLedgers
    <3> QED
      BY <1>5, <2>2, <2>3, <2>6, <3>1
  <2>8. Sends(l, h.output)
    BY <1>6, <1>7, <1>10, <1>15, <2>6, SoundBefore DEF Sends
  <2>9. GasLeft(h) + locked <= GasLeft(g) + 0
    <3>1. GasLeft(c) <= GasLeft(g) /\ GasLeft(c) \in Nat
      BY <1>5, <1>6, <1>7, GasLeftMoved
    <3> QED
      BY <1>6, <1>10, <1>15, <2>3, <3>1
  <2>10. Ready(h, fs, v, l, locked, GasNow)
    <3>1. IsBook(l) /\ Grows(l, ledger)
      BY <2>6
    <3>2. \A x \in Accounts \ {g.runtime.scAddress} : l.burnt[x] = ledger.burnt[x]
      BY <2>6
    <3> QED
      BY <1>4, <1>12, <2>3, <2>4, <2>7, <2>8, <2>9, <3>1, <3>2, ReadyMoves
  <2>11. h.runtime.scAddress = self
    BY <1>4, <2>4 DEF UsesMore
  <2>12. Asking(h, fs, v, l, GasNow)
    BY <1>4, <1>9, <1>10, <1>15, <2>10, <2>11 DEF Asking
  <2>13. /\ mode \in {"AsyncUnknown", "SyncCall", "ESDTTransferOnCallBack",
                      "AsyncBuiltinFuncCrossShard", "AsyncBuiltinFuncIntraShard"}
         /\ mode = "SyncCall" => dest \in Contracts
         /\ mode = "AsyncUnknown" => dest \notin Contracts
         /\ mode = "AsyncBuiltinFuncCrossShard" => dest \in Remote
         /\ mode = "AsyncBuiltinFuncIntraShard" => dest \notin Remote
    BY <1>3, <1>4, ContextsAssumption DEF determineAsyncCallExecutionMode, AreInSameShard
  <2> QED
    BY <1>4, <2>1, <2>12, <2>13, BreakpointReached DEF Arrives
<1> QED
  BY <1>11, <1>14, <1>15

-----------------------------------------------------------------------------
(* The host of the caller, when the execution it waits for ends.            *)

SameLimits(m, p) ==
    /\ m.initialGasProvided = p.initialGasProvided /\ m.initialCost = p.initialCost
    /\ m.gasForExecution = p.gasForExecution

\* The gas used in c is added to that of p.
Merged(m, p, c) ==
    /\ SameLimits(m, p)
    /\ \A a : GasUsedBy(m, a) = GasUsedBy(c, a) + GasUsedBy(p, a)

LEMMA MergedGas ==
    ASSUME NEW p, IsMetering(p), NEW c, IsMetering(c),
           NEW m, m = [p EXCEPT !.gasUsedByAccounts =
                          addToGasUsedByAccounts(c, p.gasUsedByAccounts)]
    PROVE  Merged(m, p, c)
<1>1. PICK u, s : u = p.gasUsedByAccounts /\ s = addToGasUsedByAccounts(c, u)
  OBVIOUS
<1>2. SameLimits(m, p) /\ m.gasUsedByAccounts = s
  BY <1>1 DEF SameLimits, IsMetering, MeteringFields
<1>3. /\ DOMAIN s = DOMAIN c.gasUsedByAccounts \cup DOMAIN u
      /\ \A a \in DOMAIN s : s[a] = GasUsedBy(c, a) + (IF a \in DOMAIN u THEN u[a] ELSE 0)
  BY <1>1 DEF addToGasUsedByAccounts
<1>4. ASSUME NEW a PROVE GasUsedBy(m, a) = GasUsedBy(c, a) + GasUsedBy(p, a)
  <2>1. GasUsedBy(p, a) = IF a \in DOMAIN u THEN u[a] ELSE 0
    BY <1>1 DEF GasUsedBy
  <2>2. GasUsedBy(m, a) = IF a \in DOMAIN s THEN s[a] ELSE 0
    BY <1>2 DEF GasUsedBy
  <2>3. CASE a \in DOMAIN s
    BY <1>3, <2>1, <2>2, <2>3
  <2>4. CASE a \notin DOMAIN s
    <3>1. GasUsedBy(c, a) = 0 /\ GasUsedBy(p, a) = 0 /\ GasUsedBy(m, a) = 0
      BY <1>3, <2>1, <2>2, <2>4 DEF GasUsedBy
    <3> QED
      BY <3>1
  <2> QED
    BY <2>3, <2>4
<1> QED
  BY <1>2, <1>4 DEF Merged

\* g has the points of h but for gas that is given back to the instance n.
Refunded(g, h, n, gas) ==
    /\ g.points[n] = h.points[n] - gas
    /\ \A i \in 1 .. n - 1 : g.points[i] = h.points[i]

LEMMA GasRefunded ==
    ASSUME NEW t, DOMAIN t = HostFields, t.points \in PointsType,
           NEW n \in 1 .. MaxInstances, t.instance = n, NEW gas \in Nat, gas <= t.points[n],
           NEW u, u = RestoreGas(t, gas)
    PROVE  SameBut(u, t, {"points"}) /\ Refunded(u, t, n, gas)
<1>1. MaxInstances \in Nat /\ n \in Nat \ {0} /\ t.points[n] \in Nat
  BY ContextsAssumption DEF PointsType
<1>2. PICK p : p = t.points[n] - gas
  OBVIOUS
<1>3. GetPointsUsed(t) = t.points[n] /\ SubUint64(t.points[n], gas) = p
  BY <1>1, <1>2 DEF GetPointsUsed, SubUint64
<1>4. u = [t EXCEPT !.points[n] = p]
  BY <1>3 DEF RestoreGas, SetPointsUsed
<1>5. SameBut(u, t, {"points"}) /\ u.points = [t.points EXCEPT ![n] = p]
  BY <1>4 DEF SameBut, HostFields
<1>6. u.points[n] = p /\ \A i \in 1 .. n - 1 : u.points[i] = t.points[i]
  BY <1>1, <1>5, ContextsAssumption DEF PointsType
<1> QED
  BY <1>2, <1>5, <1>6 DEF Refunded

\* The caller goes on with the host g, on the frames below those of h.
Resumes(g, h, fs, v, gas) ==
    /\ Active(g, Pop(fs), v)
    /\ g.runtime = fs[Len(fs)].before.runtime /\ g.meteringStack = Pop(h.meteringStack)
    /\ Refunded(g, h, Len(fs) - 1, gas)

\* What it finds of the metering and output states.
Rejoins(g, h, b) ==
    /\ Merged(g.metering, Top(h.meteringStack), h.metering)
    /\ Carriers(g.output) \subseteq Carriers(b.output) \cup Carriers(h.output)
Recovers(g, h, b) ==
    g.metering = Top(h.meteringStack) /\ Carriers(g.output) = Carriers(b.output)

LEMMA DestPoints ==
    ASSUME NEW h, NEW fs, NEW v, Level(h, fs, v), Len(fs) > 1,
           NEW t, PoppedContexts(t, h), NEW gas \in Nat, gas <= h.points[Len(fs) - 1],
           NEW u, u = RestoreGas(t, gas),
           NEW g, SameBut(g, u, {"world", "snapshots"})
    PROVE  /\ g.runtime = fs[Len(fs)].before.runtime /\ g.meteringStack = Pop(h.meteringStack)
           /\ Refunded(g, h, Len(fs) - 1, gas)
           /\ g.metering = t.metering /\ g.output = t.output
<1>1. PICK n : n = Len(fs) - 1
  OBVIOUS
<1>2. /\ n \in Nat \ {0} /\ n <= MaxInstances /\ Top(h.instanceStack) = n
      /\ Top(h.runtimeStack) = fs[Len(fs)].before.runtime
  BY <1>1, SavedOnTop
<1>3. h.points \in PointsType
  BY DEF Level, IsHost, IdleHost
<1>4. /\ DOMAIN t = HostFields /\ t.points = h.points /\ t.instance = n
      /\ t.runtime = fs[Len(fs)].before.runtime /\ t.meteringStack = Pop(h.meteringStack)
  BY <1>2 DEF PoppedContexts
<1>5. n \in 1 .. MaxInstances /\ t.points \in PointsType /\ gas <= t.points[n]
  BY <1>1, <1>2, <1>3, <1>4, ContextsAssumption
<1>6. SameBut(u, t, {"points"}) /\ Refunded(u, t, n, gas)
  BY <1>4, <1>5, GasRefunded
<1>7. /\ u.runtime = t.runtime /\ u.meteringStack = t.meteringStack
      /\ u.metering = t.metering /\ u.output = t.output
  BY <1>6 DEF SameBut, HostFields
<1>8. /\ g.runtime = u.runtime /\ g.meteringStack = u.meteringStack /\ g.points = u.points
      /\ g.metering = u.metering /\ g.output = u.output
  BY DEF SameBut, HostFields
<1> QED
  BY <1>1, <1>4, <1>6, <1>7, <1>8 DEF Refunded

(* An execution on another context ends with the VMOutput o. *)
LEMMA DestResumes ==
    ASSUME NEW o, NEW h, h = o.host, NEW gas \in Nat, gas = o.gasRemaining,
           NEW fs, NEW v, Level(h, fs, v), Len(fs) > 1, fs[Len(fs)].kind # "same",
           NEW b, b = fs[Len(fs)].before, gas <= h.points[Len(fs) - 1],
           NEW g, g = finishExecuteOnDestContext(o)
    PROVE  /\ Resumes(g, h, fs, v, gas)
           /\ o.err = "Ok" => Rejoins(g, h, b)
           /\ o.err # "Ok" => Recovers(g, h, b)
<1>1. Active(g, Pop(fs), v)
  BY DestFinished
<1>2. PICK left : left = Top(h.outputStack)
  OBVIOUS
<1>3. /\ IsOutput(left) /\ IsOutput(h.output) /\ IsMetering(h.metering)
      /\ Effects(left) = Effects(b.output) /\ DOMAIN h = HostFields
  BY <1>2, SavedOutput
<1>4. Carriers(left) = Carriers(b.output)
  BY <1>3, SameEffectsCarry
<1>5. IsMetering(Top(h.meteringStack))
  BY SavedOnTop
<1>6. PICK a : a = PopDestContexts(h)
  OBVIOUS
<1>7. DOMAIN a = HostFields
  BY <1>3, <1>6, DestPopped DEF SameBut
<1>8. CASE o.err = "Ok"
  <2>1. PICK prev, m : prev = Top(a.meteringStack) /\ m = MeteringPopMergeActiveState(a)
    OBVIOUS
  <2>2. /\ SameBut(m, a, {"metering", "meteringStack"})
        /\ m.meteringStack = Pop(a.meteringStack)
        /\ m.metering = [prev EXCEPT !.gasUsedByAccounts =
                            addToGasUsedByAccounts(a.metering, prev.gasUsedByAccounts)]
    BY <1>7, <2>1 DEF MeteringPopMergeActiveState, SameBut, HostFields
  <2>3. PICK p : p = OutputPopMergeActiveState(m)
    OBVIOUS
  <2>4. /\ SameBut(p, m, {"output", "outputStack"}) /\ p.outputStack = Pop(m.outputStack)
        /\ p.output = mergeVMOutputs(newVMOutput,
                          mergeVMOutputs(Top(m.outputStack), m.output))
    <3>1. DOMAIN m = HostFields
      BY <2>2 DEF SameBut
    <3> QED
      BY <2>3, <3>1 DEF OutputPopMergeActiveState, SameBut, HostFields
  <2>5. PICK t : t = RuntimePopSetActiveState(p)
    OBVIOUS
  <2>6. /\ PoppedContexts(t, h) /\ t.output = p.output /\ t.metering = m.metering
        /\ m.output = h.output /\ a.metering = h.metering
        /\ a.meteringStack = h.meteringStack /\ m.outputStack = h.outputStack
    BY <1>3, <1>6, <2>2, <2>4, <2>5, ContextsPopped
  <2>7. PICK u : u = RestoreGas(t, gas)
    OBVIOUS
  <2>8. g = BlockchainPopDiscard(u)
    BY <1>6, <1>8, <2>1, <2>3, <2>5, <2>7 DEF finishExecuteOnDestContext
  <2>9. DOMAIN u = HostFields
    <3>1. DOMAIN t = HostFields
      BY <2>6 DEF PoppedContexts
    <3> QED
      BY <2>7, <3>1 DEF RestoreGas, SetPointsUsed, HostFields
  <2>10. SameBut(g, u, {"world", "snapshots"})
    BY <2>8, <2>9 DEF BlockchainPopDiscard, SameBut, HostFields
  <2>11. /\ g.runtime = b.runtime /\ g.meteringStack = Pop(h.meteringStack)
         /\ Refunded(g, h, Len(fs) - 1, gas)
         /\ g.metering = t.metering /\ g.output = t.output
    BY <2>6, <2>7, <2>10, DestPoints
  <2>12. Merged(g.metering, Top(h.meteringStack), h.metering)
    <3>1. IsMetering(prev) /\ IsMetering(a.metering) /\ g.metering = m.metering
      BY <1>3, <1>5, <2>1, <2>6, <2>11
    <3>2. Merged(g.metering, prev, a.metering)
      BY <2>2, <3>1, MergedGas
    <3> QED
      BY <2>1, <2>6, <3>2
  <2>13. Carriers(g.output) \subseteq Carriers(b.output) \cup Carriers(h.output)
    <3>1. PICK q : q = mergeVMOutputs(left, h.output)
      OBVIOUS
    <3>2. IsOutput(q) /\ Carriers(q) \subseteq Carriers(left) \cup Carriers(h.output)
      BY <1>3, <3>1, MergedOutputs, CarriersOfMerge DEF MergeOf
    <3>3. g.output = mergeVMOutputs(newVMOutput, q)
      BY <1>2, <2>4, <2>6, <2>11, <3>1
    <3>4. Carriers(g.output) = Carriers(q)
      BY <3>2, <3>3, MergedIntoNew, SameEffectsCarry
    <3> QED
      BY <1>4, <3>2, <3>4
  <2> QED
    BY <1>1, <1>8, <2>11, <2>12, <2>13 DEF Resumes, Rejoins
<1>9. CASE o.err # "Ok"
  <2>1. PICK m : m = MeteringPopSetActiveState(a)
    OBVIOUS
  <2>2. /\ SameBut(m, a, {"metering", "meteringStack"})
        /\ m.meteringStack = Pop(a.meteringStack)
        /\ m.metering = Top(a.meteringStack)
    BY <1>7, <2>1 DEF MeteringPopSetActiveState, SameBut, HostFields
  <2>3. PICK p : p = OutputPopSetActiveState(m)
    OBVIOUS
  <2>4. /\ SameBut(p, m, {"output", "outputStack"}) /\ p.outputStack = Pop(m.outputStack)
        /\ p.output = Top(m.outputStack)
    <3>1. DOMAIN m = HostFields
      BY <2>2 DEF SameBut
    <3> QED
      BY <2>3, <3>1 DEF OutputPopSetActiveState, SameBut, HostFields
  <2>5. PICK t : t = RuntimePopSetActiveState(p)
    OBVIOUS
  <2>6. /\ PoppedContexts(t, h) /\ t.output = p.output /\ t.metering = m.metering
        /\ a.meteringStack = h.meteringStack /\ m.outputStack = h.outputStack
    BY <1>3, <1>6, <2>2, <2>4, <2>5, ContextsPopped
  <2>7. PICK u : u = RestoreGas(t, gas)
    OBVIOUS
  <2>8. g = BlockchainPopSetActiveState(u)
    BY <1>6, <1>9, <2>1, <2>3, <2>5, <2>7 DEF finishExecuteOnDestContext
  <2>9. DOMAIN u = HostFields
    <3>1. DOMAIN t = HostFields
      BY <2>6 DEF PoppedContexts
    <3> QED
      BY <2>7, <3>1 DEF RestoreGas, SetPointsUsed, HostFields
  <2>10. SameBut(g, u, {"world", "snapshots"})
    BY <2>8, <2>9 DEF BlockchainPopSetActiveState, SameBut, HostFields
  <2>11. /\ g.runtime = b.runtime /\ g.meteringStack = Pop(h.meteringStack)
         /\ Refunded(g, h, Len(fs) - 1, gas)
         /\ g.metering = t.metering /\ g.output = t.output
    BY <2>6, <2>7, <2>10, DestPoints
  <2>12. g.output = left /\ g.metering = Top(h.meteringStack)
    BY <1>2, <2>2, <2>4, <2>6, <2>11
  <2> QED
    BY <1>1, <1>4, <1>9, <2>11, <2>12 DEF Resumes, Recovers
<1> QED
  BY <1>8, <1>9

(* An execution on the same context that returned an error, and one that    *)
(* did not.                                                                 *)
LEMMA SameFailedResumes ==
    ASSUME NEW h, NEW fs, NEW v, Level(h, fs, v), Len(fs) > 1, fs[Len(fs)].kind = "same",
           NEW b, b = fs[Len(fs)].before, NEW g, g = FailedSameContext(h)
    PROVE  Resumes(g, h, fs, v, 0) /\ Recovers(g, h, b)
<1>1. Active(g, Pop(fs), v) /\ Restored(g, b)
  BY SameFailed
<1>2. DOMAIN h = HostFields /\ h.points \in PointsType
  BY DEF Level, IsHost, IdleHost
<1>3. PICK m : m = MeteringPopSetActiveState(BigIntPopSetActiveState(h))
  OBVIOUS
<1>4. /\ SameBut(m, h, {"bigInt", "bigIntStack", "metering", "meteringStack"})
      /\ m.metering = Top(h.meteringStack) /\ m.meteringStack = Pop(h.meteringStack)
  BY <1>2, <1>3 DEF MeteringPopSetActiveState, BigIntPopSetActiveState, SameBut, HostFields
<1>5. g = BlockchainPopSetActiveState(RuntimePopSetActiveState(OutputPopSetActiveState(m)))
  BY <1>3 DEF FailedSameContext
<1>6. SameBut(g, m, {"world", "snapshots", "runtime", "runtimeStack", "instance",
                     "instanceStack", "output", "outputStack"})
  BY <1>4, <1>5 DEF BlockchainPopSetActiveState, RuntimePopSetActiveState,
                    OutputPopSetActiveState, SameBut, HostFields
<1>7. /\ g.metering = m.metering /\ g.meteringStack = m.meteringStack
      /\ g.points = m.points /\ m.points = h.points
  BY <1>4, <1>6 DEF SameBut, HostFields
<1>8. PICK n : n = Len(fs) - 1
  OBVIOUS
<1>9. n \in Nat \ {0} /\ n <= MaxInstances
  BY <1>8, SavedOnTop
<1>10. h.points[n] \in Nat
  BY <1>2, <1>9, ContextsAssumption DEF PointsType
<1>11. Refunded(g, h, n, 0)
  BY <1>7, <1>10 DEF Refunded
<1>12. Carriers(g.output) = Carriers(b.output) /\ g.runtime = b.runtime
  BY <1>1, SameEffectsCarry DEF Restored
<1> QED
  BY <1>1, <1>4, <1>7, <1>8, <1>11, <1>12 DEF Resumes, Recovers

LEMMA SameResumes ==
    ASSUME NEW o, NEW h, h = o.host, NEW gas \in Nat, gas = o.gasRemaining,
           NEW fs, NEW v, Level(h, fs, v), Len(fs) > 1, fs[Len(fs)].kind = "same",
           NEW b, b = fs[Len(fs)].before, gas <= h.points[Len(fs) - 1],
           NEW g, g = finishExecuteOnSameContext(o)
    PROVE  Resumes(g, h, fs, v, gas) /\ Rejoins(g, h, b)
<1>1. Active(g, Pop(fs), v)
  BY SameFinished
<1>2. DOMAIN h = HostFields /\ h.points \in PointsType /\ IsMetering(h.metering)
  BY DEF Level, IsHost, IdleHost
<1>3. PICK n : n = Len(fs) - 1
  OBVIOUS
<1>4. /\ n \in Nat \ {0} /\ n <= MaxInstances /\ Top(h.instanceStack) = n
      /\ Top(h.runtimeStack) = b.runtime /\ IsMetering(Top(h.meteringStack))
  BY <1>3, SavedOnTop
<1>5. PICK prev, m : prev = Top(h.meteringStack) /\ m = MeteringPopMergeActiveState(h)
  OBVIOUS
<1>6. /\ SameBut(m, h, {"metering", "meteringStack"})
      /\ m.meteringStack = Pop(h.meteringStack)
      /\ m.metering = [prev EXCEPT !.gasUsedByAccounts =
                          addToGasUsedByAccounts(h.metering, prev.gasUsedByAccounts)]
  BY <1>2, <1>5 DEF MeteringPopMergeActiveState, SameBut, HostFields
<1>7. Merged(m.metering, prev, h.metering)
  <2>1. PICK k : k = m.metering
    OBVIOUS
  <2>2. Merged(k, prev, h.metering)
    BY <1>2, <1>4, <1>5, <1>6, <2>1, MergedGas
  <2> QED
    BY <2>1, <2>2
<1>8. PICK t : t = RuntimePopSetActiveState(BlockchainPopDiscard(BigIntPopDiscard(
                       OutputPopDiscard(m))))
  OBVIOUS
<1>9. /\ SameBut(t, m, {"snapshots", "runtime", "runtimeStack", "instance",
                        "instanceStack", "bigIntStack", "outputStack"})
      /\ t.runtime = Top(m.runtimeStack) /\ t.instance = Top(m.instanceStack)
  BY <1>6, <1>8 DEF BlockchainPopDiscard, RuntimePopSetActiveState, BigIntPopDiscard,
                    OutputPopDiscard, SameBut, HostFields
<1>10. /\ m.runtimeStack = h.runtimeStack /\ m.instanceStack = h.instanceStack
       /\ m.points = h.points /\ m.output = h.output
  BY <1>6 DEF SameBut, HostFields
<1>11. /\ t.points = m.points /\ t.metering = m.metering /\ t.output = m.output
       /\ t.meteringStack = m.meteringStack /\ DOMAIN t = HostFields
  BY <1>9 DEF SameBut, HostFields
<1>12. g = RestoreGas(t, gas)
  BY <1>5, <1>8 DEF finishExecuteOnSameContext
<1>13. /\ n \in 1 .. MaxInstances /\ t.points \in PointsType /\ gas <= t.points[n]
       /\ t.instance = n
  BY <1>2, <1>3, <1>4, <1>9, <1>10, <1>11, ContextsAssumption
<1>14. SameBut(g, t, {"points"}) /\ Refunded(g, t, n, gas)
  BY <1>11, <1>12, <1>13, GasRefunded
<1>15. /\ g.runtime = t.runtime /\ g.meteringStack = t.meteringStack
       /\ g.metering = t.metering /\ g.output = t.output
  BY <1>14 DEF SameBut, HostFields
<1>16. Refunded(g, h, n, gas)
  BY <1>10, <1>11, <1>14 DEF Refunded
<1>17. /\ g.runtime = b.runtime /\ g.meteringStack = Pop(h.meteringStack)
       /\ g.output = h.output
  BY <1>4, <1>6, <1>9, <1>10, <1>11, <1>15
<1>18. Resumes(g, h, fs, v, gas)
  BY <1>1, <1>3, <1>16, <1>17 DEF Resumes
<1>19. Rejoins(g, h, b)
  BY <1>5, <1>7, <1>11, <1>15, <1>17 DEF Rejoins
<1> QED
  BY <1>18, <1>19

\* What an execution that ended as x leaves to its caller.
LeftBy(h, x) == IF x \in {"running", "Ok"} THEN GasLeft(h) ELSE 0

\* Giving back gas adds no more than that to the gas left.
LEMMA GivenBack ==
    ASSUME NEW limit \in Nat, NEW q \in Nat, NEW gas \in Nat, gas <= q
    PROVE  /\ q - gas \in Nat
           /\ SubUint64(limit, q - gas) <= SubUint64(limit, q) + gas
           /\ SubUint64(limit, q - gas) \in Nat /\ SubUint64(limit, q) \in Nat
  BY DEF SubUint64

(* The caller has its budget back. *)
LEMMA ResumedReady ==
    ASSUME NEW h, NEW x, NEW fs, NEW v, Level(h, fs, v), Len(fs) > 1,
           Callers(h, x, fs), fs[1].ledger = EmptyLedger,
           NEW f, f = fs[Len(fs)], NEW n, n = Len(fs) - 1,
           NEW k, SameCallers(k, h, fs), NEW gas \in Nat, gas <= h.points[n],
           gas <= LeftBy(h, x), LeftBy(h, x) \in Nat,
           NEW g, Resumes(g, k, fs, v, gas), SameLimits(g.metering, h.meteringStack[n]),
           NEW l, IsBook(l), Sends(l, g.output),
           Accounted(l, fs[n].ledger, g.metering, h.points[n] - gas,
                     f.before.runtime.scAddress, LockOf(f))
    PROVE  /\ Ready(g, Pop(fs), v, l, LockOf(f), Available(h, x, fs))
           /\ Pop(fs)[1].input.value = fs[1].input.value
           /\ g.runtime = f.before.runtime
<1>1. PICK es, a, lock : /\ es = Pop(fs) /\ a = f.before.runtime.scAddress /\ lock = LockOf(f)
  OBVIOUS
<1>2. IsCallStack(fs, v) /\ Len(fs) \in Nat \ {0} /\ IsHost(h)
  BY DEF Level, IsCallStack
<1>3. n \in Nat \ {0} /\ Len(fs) = n + 1 /\ n <= MaxInstances /\ n \in 1 .. n
  <2>1. n \in Nat \ {0} /\ n <= MaxInstances
    BY SavedOnTop
  <2> QED
    BY <1>2, <2>1
<1>4. Len(es) = n /\ IsStack(h.meteringStack, n)
  BY <1>1, <1>2, <1>3, PoppedCallStack, LevelSizes
<1>5. \A i \in 1 .. n : es[i] = fs[i]
  BY <1>1, <1>2, <1>3, PoppedCallStack
<1>6. k.meteringStack = h.meteringStack /\ \A i \in 1 .. n : k.points[i] = h.points[i]
  BY <1>3 DEF SameCallers
<1>7. /\ Active(g, es, v) /\ g.runtime = f.before.runtime
      /\ g.meteringStack = Pop(h.meteringStack) /\ Refunded(g, k, n, gas)
  BY <1>1, <1>6 DEF Resumes
<1>8. /\ IsHost(g) /\ Level(g, es, v) /\ g.instance = n /\ a \in Contracts
      /\ g.runtime.scAddress = a
  BY <1>1, <1>4, <1>7 DEF Active, Level
<1>9. /\ \A i \in 1 .. n - 1 : g.points[i] = h.points[i]
      /\ g.points[n] = h.points[n] - gas
  BY <1>3, <1>6, <1>7 DEF Refunded
<1>10. \A i \in 1 .. n - 1 : g.meteringStack[i] = h.meteringStack[i]
  BY <1>3, <1>4, <1>7, StackPop DEF PopOf
<1>11. /\ h.points[n] \in Nat /\ h.meteringStack[n].gasForExecution \in Nat /\ lock \in Nat
  <2>1. n \in 1 .. Len(fs) - 1 /\ fs[n + 1] = f
    BY <1>3
  <2> QED
    BY <1>1, <2>1, WaitingIsNat
<1>12. GetPointsUsed(g) = h.points[n] - gas
  BY <1>3, <1>8, <1>9 DEF GetPointsUsed
<1>13. Waits(f, fs[n].ledger, fs[n].input.gas, h.meteringStack[n], h.points[n], Paid(f, x))
  BY <1>3 DEF Callers
<1>14. Callers(g, "running", es)
  <2> SUFFICES ASSUME NEW i \in 1 .. Len(es) - 1
               PROVE  Waits(es[i + 1], es[i].ledger, es[i].input.gas, g.meteringStack[i],
                            g.points[i], Paid(es[i + 1], IF i + 1 = Len(es) THEN "running"
                                                                            ELSE "running"))
    BY DEF Callers
  <2>1. /\ i \in 1 .. n - 1 /\ i \in 1 .. Len(fs) - 1 /\ i \in 1 .. n /\ i + 1 \in 1 .. n
        /\ i + 1 # Len(fs)
    BY <1>3, <1>4
  <2>2. Waits(fs[i + 1], fs[i].ledger, fs[i].input.gas, h.meteringStack[i],
              h.points[i], Paid(fs[i + 1], "running"))
    BY <2>1 DEF Callers
  <2> QED
    BY <1>5, <1>9, <1>10, <2>1, <2>2
<1>15. /\ es[1].ledger = EmptyLedger /\ es[1] = fs[1] /\ es[n] = fs[n]
  BY <1>3, <1>5
<1>16. Provided(g.metering, es[n].input.gas)
  BY <1>13, <1>15 DEF Waits, Provided, SameLimits
<1>17. Stands(g, es, l, lock)
  BY <1>1, <1>4, <1>8, <1>12, <1>14, <1>15, <1>16 DEF Stands, Open
<1>18. GasLeft(g) + lock + Waiting(g, es) <= Available(h, x, fs)
  <2>1. Waiting(h, fs) = Waiting(g, es) + WaitingGas(h, fs, n)
    <3>1. Len(fs) = Len(es) + 1 /\ \A i \in 1 .. Len(es) : fs[i] = es[i]
      BY <1>3, <1>4, <1>5
    <3>2. \A i \in 1 .. Len(es) - 1 : /\ h.meteringStack[i] = g.meteringStack[i]
                                      /\ h.points[i] = g.points[i]
      BY <1>4, <1>9, <1>10
    <3>3. Waiting(h, fs) = Waiting(g, es) + WaitingGas(h, fs, Len(es))
      BY <1>8, <3>1, <3>2, WaitingPushed
    <3> QED
      BY <1>4, <3>3
  <2>2. PICK q, limit, w, left : /\ q = h.points[n] /\ limit = h.meteringStack[n].gasForExecution
                                 /\ w = Waiting(g, es) /\ left = LeftBy(h, x)
    OBVIOUS
  <2>3. WaitingGas(h, fs, n) = SubUint64(limit, q) + lock
    BY <1>1, <1>3, <2>2 DEF WaitingGas
  <2>4. GasLeft(g) = SubUint64(limit, q - gas)
    BY <1>12, <2>2 DEF GasLeft, SameLimits
  <2>5. /\ SubUint64(limit, q - gas) <= SubUint64(limit, q) + gas
        /\ SubUint64(limit, q - gas) \in Nat /\ SubUint64(limit, q) \in Nat
    BY <1>11, <2>2, GivenBack
  <2>6. w \in Nat /\ gas <= left /\ left \in Nat
    BY <1>8, <2>2, WaitingIsNat
  <2>7. Available(h, x, fs) = left + (w + (SubUint64(limit, q) + lock))
    BY <2>1, <2>2, <2>3 DEF Available, LeftBy
  <2> QED
    BY <1>11, <2>2, <2>4, <2>5, <2>6, <2>7
<1>19. Available(h, x, fs) \in Nat
  <2>1. Waiting(h, fs) \in Nat
    BY WaitingIsNat
  <2> QED
    BY <2>1 DEF Available, LeftBy
<1> QED
  BY <1>1, <1>7, <1>8, <1>11, <1>15, <1>17, <1>18, <1>19 DEF Ready

(* The ledger of the caller, when the execution it paid for failed.         *)
LEMMA CallerCharged ==
    ASSUME NEW f, NEW k, IsBook(k), NEW gas, NEW m, IsMetering(m), NEW q, NEW paid \in Nat,
           Waits(f, k, gas, m, q, paid), LockOf(f) \in Nat,
           NEW a \in Accounts, a = f.before.runtime.scAddress,
           NEW l, l = Burn(f.ledger, a, paid), NEW o, Carriers(o) = Carriers(f.before.output)
    PROVE  /\ IsBook(l) /\ Sends(l, o) /\ Accounted(l, k, m, q, a, LockOf(f))
<1>1. PICK j, p, lock, cost : /\ j = f.ledger /\ p = f.before.points /\ lock = LockOf(f)
                              /\ cost = m.initialCost
  OBVIOUS
<1>2. /\ IsBook(j) /\ p \in Nat /\ Accounted(j, k, m, p, a, lock) /\ q = p + paid
      /\ Sends(j, f.before.output)
  BY <1>1 DEF Waits
<1>3. BurntBy(l, j, a, paid)
  BY <1>1, <1>2, Burning
<1>4. /\ IsBook(l) /\ Grows(l, j) /\ Spent(l) = Spent(j) + paid
      /\ \A x \in Accounts \ {a} : l.burnt[x] = j.burnt[x]
  BY <1>3 DEF BurntBy
<1>5. (Sound(l) => Sound(j)) /\ (Inside(l) => Inside(j))
  BY <1>2, <1>4, SoundBefore
<1>6. Sends(l, o)
  BY <1>2, <1>5 DEF Sends
<1>7. Grows(l, k)
  BY <1>2, <1>4, GrowsTransitive DEF Accounted
<1>8. Sound(l) => Spent(l) + lock = Spent(k) + cost + q
  <2>1. /\ Spent(j) \in Nat /\ Spent(k) \in Nat /\ cost \in Nat /\ lock \in Nat
    BY <1>1, <1>2, BooksAreLedgers DEF IsMetering
  <2>2. Sound(l) => Spent(j) + lock = Spent(k) + cost + p
    BY <1>1, <1>2, <1>5 DEF Accounted
  <2> QED
    BY <1>2, <1>4, <2>1, <2>2
<1>9. Inside(l) => \A x \in Accounts \ {a} : l.burnt[x] = k.burnt[x] + GasUsedBy(m, x)
  BY <1>2, <1>4, <1>5 DEF Accounted
<1> QED
  BY <1>1, <1>4, <1>6, <1>7, <1>8, <1>9 DEF Accounted

(* The execution spent, since the ledger j of its frame, all of gas that it *)
(* did not leave; c says who used it.                                       *)
Settled(l, j, c, gas, left) ==
    /\ IsBook(l) /\ Grows(l, j)
    /\ Sound(l) => Spent(l) + left = Spent(j) + gas
    /\ Inside(l) => \A a \in Accounts : l.burnt[a] = j.burnt[a] + GasUsedBy(c, a)

LEMMA CallerMerged ==
    ASSUME NEW f, NEW k, IsBook(k), NEW gas, NEW m, IsMetering(m), NEW q, NEW paid \in Nat,
           Waits(f, k, gas, m, q, paid), LockOf(f) \in Nat,
           NEW a \in Accounts, a = f.before.runtime.scAddress, NEW left \in Nat,
           NEW c, IsMetering(c), NEW l, Settled(l, f.ledger, c, paid, left),
           NEW m1, Merged(m1, m, c)
    PROVE  Accounted(l, k, m1, q - left, a, LockOf(f))
<1>1. PICK j, p, lock, cost : /\ j = f.ledger /\ p = f.before.points /\ lock = LockOf(f)
                              /\ cost = m.initialCost
  OBVIOUS
<1>2. /\ IsBook(j) /\ p \in Nat /\ Accounted(j, k, m, p, a, lock) /\ q = p + paid
  BY <1>1 DEF Waits
<1>3. IsBook(l) /\ Grows(l, j) /\ (Sound(l) => Spent(l) + left = Spent(j) + paid)
  BY <1>1 DEF Settled
<1>4. (Sound(l) => Sound(j)) /\ (Inside(l) => Inside(j))
  BY <1>2, <1>3, SoundBefore
<1>5. Grows(l, k)
  BY <1>2, <1>3, GrowsTransitive DEF Accounted
<1>6. Sound(l) => Spent(l) + lock = Spent(k) + cost + (q - left)
  <2>1. /\ Spent(j) \in Nat /\ Spent(k) \in Nat /\ Spent(l) \in Nat /\ cost \in Nat
        /\ lock \in Nat
    BY <1>1, <1>2, <1>3, BooksAreLedgers DEF IsMetering
  <2>2. Sound(l) => Spent(j) + lock = Spent(k) + cost + p
    BY <1>1, <1>2, <1>4 DEF Accounted
  <2> QED
    BY <1>2, <1>3, <2>1, <2>2
<1>7. ASSUME Inside(l), NEW x \in Accounts \ {a}
      PROVE  l.burnt[x] = k.burnt[x] + GasUsedBy(m1, x)
  <2>1. l.burnt[x] = j.burnt[x] + GasUsedBy(c, x)
    BY <1>1, <1>7 DEF Settled
  <2>2. j.burnt[x] = k.burnt[x] + GasUsedBy(m, x)
    BY <1>2, <1>4, <1>7 DEF Accounted
  <2>3. GasUsedBy(m1, x) = GasUsedBy(c, x) + GasUsedBy(m, x)
    BY DEF Merged
  <2>4. k.burnt[x] \in Nat /\ GasUsedBy(c, x) \in Nat /\ GasUsedBy(m, x) \in Nat
    BY <1>7, BooksAreLedgers, UsedIsNat
  <2> QED
    BY <2>1, <2>2, <2>3, <2>4
<1>8. m1.initialCost = cost
  BY <1>1 DEF Merged, SameLimits
<1> QED
  BY <1>1, <1>5, <1>6, <1>7, <1>8 DEF Accounted

(* What GasInv says of an execution that ends.                              *)

\* The gas that is given back, of what was paid.
Returned(h, x, q, paid, gas) ==
    /\ gas \in Nat /\ paid \in Nat /\ gas <= paid /\ gas <= q
    /\ gas <= LeftBy(h, x) /\ LeftBy(h, x) \in Nat

\* The host k of the VMOutput has what the callers of h see.
Reports(k, h, fs) ==
    /\ IsHost(k) /\ IsMetering(k.metering) /\ SameCallers(k, h, fs)
    /\ Carriers(k.output) \subseteq Carriers(h.output)

LEMMA OutputReports ==
    ASSUME NEW h, IsHost(h), NEW fs, NEW x, NEW o,
           o = IF x = "Ok" THEN GetVMOutput(h) ELSE CreateVMOutputInCaseOfError(h, x)
    PROVE  /\ Reports(o.host, h, fs)
           /\ o.err # "Ok" => o.gasRemaining = 0
           /\ o.err = "Ok" => x = "Ok" /\ o = GetVMOutput(h)
<1>1. CASE x = "Ok"
  <2>1. PICK s : s = h.runtime.scAddress
    OBVIOUS
  <2>2. Final(o, h, s)
    BY <1>1, <2>1, FinalOutput
  <2>3. o.host.meteringStack = h.meteringStack /\ o.host.points = h.points
    BY <2>2 DEF Final, SameBut, HostFields
  <2>4. Reports(o.host, h, fs)
    BY <2>2, <2>3 DEF Final, Reports, SameCallers, IsHost, IdleHost
  <2>5. o.err # "Ok" => o.gasRemaining = 0
    BY <1>1 DEF GetVMOutput, CheckedVMOutput, CreateVMOutputInCaseOfError
  <2> QED
    BY <1>1, <2>4, <2>5
<1>2. CASE x # "Ok"
  <2>1. PICK g : g = UpdateGasStateOnFailure(h)
    OBVIOUS
  <2>2. o.host = g /\ o.err = x /\ o.gasRemaining = 0
    BY <1>2, <2>1 DEF CreateVMOutputInCaseOfError
  <2>3. IsHost(g) /\ SameBut(g, h, {"output"}) /\ Carriers(g.output) \subseteq Carriers(h.output)
    BY <2>1, FailureUpdate
  <2>4. g.meteringStack = h.meteringStack /\ g.points = h.points
    BY <2>3 DEF SameBut, HostFields
  <2>5. Reports(g, h, fs)
    BY <2>3, <2>4 DEF Reports, SameCallers, IsHost, IdleHost
  <2> QED
    BY <1>2, <2>2, <2>5
<1> QED
  BY <1>1, <1>2

-----------------------------------------------------------------------------
(* The steps that end a nested execution.                                   *)

\* The execution that ends as x, and the caller that waits for it in frame f.
ChildEnds(h, x, fs, v, o, f, n, k, m, q, paid) ==
    /\ Level(h, fs, v) /\ Len(fs) > 1 /\ f = fs[Len(fs)] /\ n = Len(fs) - 1
    /\ Callers(h, x, fs) /\ fs[1].ledger = EmptyLedger
    /\ n \in Nat \ {0} /\ n + 1 = Len(fs)
    /\ k = fs[n].ledger /\ IsBook(k)
    /\ m = h.meteringStack[n] /\ IsMetering(m)
    /\ q = h.points[n] /\ q \in Nat
    /\ Waits(f, k, fs[n].input.gas, m, q, paid) /\ LockOf(f) \in Nat
    /\ f.before.runtime.scAddress \in Accounts
    /\ paid = Paid(f, x)
    /\ Reports(o.host, h, fs) /\ Level(o.host, fs, v)
    /\ Top(o.host.meteringStack) = m /\ o.host.points[n] = q
    /\ Returned(h, x, q, paid, o.gasRemaining)
    /\ o.err # "Ok" => o.gasRemaining = 0

\* What a successful execution leaves in the ledger.
ChildSettles(h, x, o, f, paid) ==
    /\ x = "Ok" /\ Sends(ledger, h.output)
    /\ Settled(ledger, f.ledger, o.host.metering, paid, o.gasRemaining)

LEMMA CallersBook ==
    ASSUME NEW h, NEW x, NEW fs, Callers(h, x, fs), fs[1].ledger = EmptyLedger,
           NEW n \in Nat \ {0}, n + 1 = Len(fs)
    PROVE  IsBook(fs[n].ledger)
<1>1. CASE n = 1
  BY <1>1, EmptyBook
<1>2. CASE n # 1
  <2>1. n - 1 \in 1 .. Len(fs) - 1 /\ (n - 1) + 1 = n
    BY <1>2
  <2> QED
    BY <2>1 DEF Callers, Waits
<1> QED
  BY <1>1, <1>2

LEMMA ChildEnding ==
    ASSUME VMInv, GasInv, exit # "running",
           NEW h, NEW fs, NEW v, NEW b, NEW o, Ending(h, fs, v, b, o)
    PROVE  \E f, n, k, m, q, paid :
               /\ ChildEnds(h, exit, fs, v, o, f, n, k, m, q, paid)
               /\ o.err = "Ok" => ChildSettles(h, exit, o, f, paid)
<1>1. PICK x, f, n : x = exit /\ f = fs[Len(fs)] /\ n = Len(fs) - 1
  OBVIOUS
<1>2. PICK k, m, q, paid : /\ k = fs[n].ledger /\ m = h.meteringStack[n]
                           /\ q = h.points[n] /\ paid = Paid(f, x)
  OBVIOUS
<1>3. /\ Level(h, fs, v) /\ Level(o.host, fs, v) /\ Len(fs) > 1 /\ Len(fs) \in Nat
      /\ h = host /\ fs = frames /\ IsFrame(f, Len(fs), v) /\ b = f.before
      /\ o = ChildOutput
  BY <1>1 DEF Ending
<1>4. n \in Nat \ {0} /\ n + 1 = Len(fs) /\ n \in 1 .. Len(fs) - 1 /\ n + 1 \in 2 .. Len(fs)
  BY <1>1, <1>3
<1>5. x # "idle"
  <2>1. Len(<< >>) = 0
    BY EmptyStack, StackLen
  <2>2. ASSUME x = "idle" PROVE FALSE
    <3>1. fs = << >>
      BY <1>1, <1>3, <2>2 DEF VMInv
    <3>2. PICK i : i = Len(fs)
      OBVIOUS
    <3>3. i > 1 /\ i = 0
      BY <1>3, <2>1, <3>1, <3>2
    <3> QED
      BY <3>3
  <2> QED
    BY <2>2
<1>6. GasGood(h, x, fs, ledger) /\ IsBook(ledger)
  BY <1>1, <1>3, <1>5 DEF GasInv
<1>7. Callers(h, x, fs) /\ fs[1].ledger = EmptyLedger
  BY <1>6 DEF GasGood
<1>8. IsBook(k)
  BY <1>2, <1>4, <1>7, CallersBook
<1>9. Waits(f, k, fs[n].input.gas, m, q, paid)
  <2>1. Waits(fs[n + 1], fs[n].ledger, fs[n].input.gas, h.meteringStack[n], h.points[n],
              Paid(fs[n + 1], x))
    BY <1>4, <1>7 DEF Callers
  <2> QED
    BY <1>1, <1>2, <1>4, <2>1
<1>10. q \in Nat /\ LockOf(f) \in Nat /\ f.input.gas \in Nat
  BY <1>1, <1>2, <1>3, <1>4, WaitingIsNat
<1>11. IsMetering(m) /\ Top(h.meteringStack) = m
  <2>1. Saved(h, fs[n + 1].before, (n + 1) - 1) /\ (n + 1) - 1 = n
    BY <1>3, <1>4 DEF Level
  <2>2. IsStack(h.meteringStack, n)
    BY <1>1, <1>3, LevelSizes
  <2> QED
    BY <1>2, <1>4, <2>1, <2>2, StackPop DEF Saved
<1>12. f.before.runtime.scAddress \in Accounts
  BY <1>3 DEF IsFrame, Accounts
<1>13. IsHost(h)
  BY <1>3 DEF Level
<1>14. /\ Reports(o.host, h, fs)
       /\ o.err # "Ok" => o.gasRemaining = 0
       /\ o.err = "Ok" => x = "Ok" /\ o = GetVMOutput(h)
  <2>1. o = IF x = "Ok" THEN GetVMOutput(h) ELSE CreateVMOutputInCaseOfError(h, x)
    BY <1>1, <1>3 DEF ChildOutput
  <2> QED
    BY <1>13, <2>1, OutputReports
<1>15. Top(o.host.meteringStack) = m /\ o.host.points[n] = q
  BY <1>2, <1>4, <1>11, <1>14 DEF Reports, SameCallers
<1>16. paid \in Nat /\ (x = "Ok" => paid = f.input.gas)
  BY <1>2, <1>10 DEF Paid, Early
<1>17. q = f.before.points + paid /\ f.before.points \in Nat
  BY <1>9 DEF Waits
<1>18. LeftBy(h, x) \in Nat
  <2>1. CASE x = "Ok"
    BY <1>13, <2>1, GasIsNat DEF LeftBy
  <2>2. CASE x # "Ok"
    BY <1>1, <2>2 DEF LeftBy
  <2> QED
    BY <2>1, <2>2
<1>19. ASSUME o.err = "Ok"
       PROVE  o.gasRemaining = GasLeft(h) /\ GasLeft(h) <= paid /\ ChildSettles(h, x, o, f, paid)
  <2>1. x = "Ok" /\ o = GetVMOutput(h)
    BY <1>14, <1>19
  <2>2. Open(h, fs, ledger, 0)
    BY <1>6, <2>1 DEF GasGood
  <2>3. PICK s : s = h.runtime.scAddress
    OBVIOUS
  <2>4. /\ s \in Contracts
        /\ Accounted(ledger, f.ledger, h.metering, GetPointsUsed(h), s, 0)
        /\ Sends(ledger, h.output) /\ Provided(h.metering, paid)
    BY <1>1, <1>16, <2>1, <2>2, <2>3 DEF Open
  <2>5. IsBook(f.ledger) /\ IsBook(ledger) /\ Grows(ledger, f.ledger)
    BY <1>6, <1>9, <2>4 DEF Waits, Accounted
  <2>6. /\ o.gasRemaining = GasLeft(h) /\ GasLeft(h) <= paid
        /\ Sound(ledger) => Spent(ledger) + GasLeft(h) = Spent(f.ledger) + paid
        /\ Inside(ledger) => \A a \in Accounts :
               ledger.burnt[a] = f.ledger.burnt[a] + GasUsedBy(o.host.metering, a)
    BY <1>13, <1>16, <1>19, <2>1, <2>3, <2>4, <2>5, LevelEnded
  <2> QED
    BY <2>1, <2>4, <2>5, <2>6 DEF ChildSettles, Settled
<1>20. Returned(h, x, q, paid, o.gasRemaining)
  <2>1. CASE o.err = "Ok"
    <3>1. o.gasRemaining = GasLeft(h) /\ GasLeft(h) <= paid /\ x = "Ok"
      BY <1>19, <2>1 DEF ChildSettles
    <3>2. LeftBy(h, x) = GasLeft(h)
      BY <3>1 DEF LeftBy
    <3> QED
      BY <1>16, <1>17, <1>18, <3>1, <3>2 DEF Returned
  <2>2. CASE o.err # "Ok"
    BY <1>10, <1>14, <1>16, <1>18, <2>2 DEF Returned
  <2> QED
    BY <2>1, <2>2
<1>21. ChildEnds(h, x, fs, v, o, f, n, k, m, q, paid)
  BY <1>1, <1>2, <1>3, <1>4, <1>7, <1>8, <1>9, <1>10, <1>11, <1>12, <1>14, <1>15, <1>20
     DEF ChildEnds
<1> QED
  BY <1>1, <1>19, <1>21

\* The caller goes on with the host g and the ledger l.
GoesOn(g, fs, v, l, f, gas, q, left, m) ==
    /\ Ready(g, Pop(fs), v, l, LockOf(f), gas)
    /\ Pop(fs)[1].input.value = fs[1].input.value
    /\ g.runtime = f.before.runtime
    /\ GetPointsUsed(g) = q - left /\ SameLimits(g.metering, m)

\* The caller of a failed execution pays all the gas that it gave to it.
LEMMA ChargedGoesOn ==
    ASSUME NEW h, NEW x, NEW fs, NEW v, NEW o, NEW f, NEW n, NEW k, NEW m, NEW q, NEW paid,
           ChildEnds(h, x, fs, v, o, f, n, k, m, q, paid),
           NEW c, SameCallers(c, h, fs), NEW b, b = f.before,
           NEW g, Resumes(g, c, fs, v, 0), Recovers(g, c, b), Top(c.meteringStack) = m,
           NEW l, l = Burn(f.ledger, b.runtime.scAddress, paid)
    PROVE  GoesOn(g, fs, v, l, f, Available(h, x, fs), q, 0, m) /\ IsBook(l)
<1>1. PICK a, lock, gas : a = b.runtime.scAddress /\ lock = LockOf(f) /\ gas = fs[n].input.gas
  OBVIOUS
<1>2. /\ Level(h, fs, v) /\ Len(fs) > 1 /\ f = fs[Len(fs)] /\ n = Len(fs) - 1
      /\ Callers(h, x, fs) /\ fs[1].ledger = EmptyLedger /\ n \in Nat \ {0}
      /\ k = fs[n].ledger /\ IsBook(k) /\ m = h.meteringStack[n] /\ IsMetering(m)
      /\ q = h.points[n] /\ q \in Nat /\ Waits(f, k, gas, m, q, paid)
      /\ lock \in Nat /\ a \in Accounts
  BY <1>1 DEF ChildEnds
<1>3. paid \in Nat /\ LeftBy(h, x) \in Nat
  BY DEF ChildEnds, Returned
<1>4. g.metering = m /\ Carriers(g.output) = Carriers(b.output)
  BY DEF Recovers
<1>5. IsBook(l) /\ Sends(l, g.output) /\ Accounted(l, k, m, q, a, lock)
  BY <1>1, <1>2, <1>3, <1>4, CallerCharged
<1>6. q - 0 = q /\ 0 \in Nat /\ 0 <= q /\ 0 <= LeftBy(h, x)
  BY <1>2, <1>3
<1>7. SameLimits(g.metering, m)
  BY <1>4 DEF SameLimits
<1>8. Accounted(l, fs[n].ledger, g.metering, h.points[n] - 0, f.before.runtime.scAddress,
                LockOf(f))
  <2>1. h.points[n] - 0 = q
    BY <1>2, <1>6
  <2> QED
    BY <1>1, <1>2, <1>4, <1>5, <2>1
<1>9. /\ Ready(g, Pop(fs), v, l, LockOf(f), Available(h, x, fs))
      /\ Pop(fs)[1].input.value = fs[1].input.value
      /\ g.runtime = f.before.runtime
  BY <1>2, <1>3, <1>5, <1>6, <1>7, <1>8, ResumedReady
<1>10. GetPointsUsed(g) = q - 0
  <2>1. g.instance = n /\ n \in Nat
    <3>1. g.instance = Len(Pop(fs)) /\ IsCallStack(fs, v) /\ Len(fs) = n + 1
      BY <1>2, <1>9 DEF Ready, Active, Level, IsCallStack
    <3> QED
      BY <1>2, <3>1, PoppedCallStack
  <2>2. g.points[n] = c.points[n] - 0 /\ c.points[n] = q
    BY <1>2 DEF Resumes, Refunded, SameCallers
  <2> QED
    BY <1>2, <2>1, <2>2 DEF GetPointsUsed
<1> QED
  BY <1>5, <1>7, <1>9, <1>10 DEF GoesOn

\* The caller of a successful execution gets back the gas that remained.
LEMMA MergedGoesOn ==
    ASSUME NEW h, NEW x, NEW fs, NEW v, NEW o, NEW f, NEW n, NEW k, NEW m, NEW q, NEW paid,
           ChildEnds(h, x, fs, v, o, f, n, k, m, q, paid), NEW left, left = o.gasRemaining,
           NEW c, c = o.host, NEW b, b = f.before,
           NEW g, Resumes(g, c, fs, v, left), Rejoins(g, c, b),
           NEW l, Settled(l, f.ledger, c.metering, paid, left), Sends(l, h.output)
    PROVE  GoesOn(g, fs, v, l, f, Available(h, x, fs), q, left, m) /\ IsBook(l)
<1>1. PICK a, lock, gas : a = b.runtime.scAddress /\ lock = LockOf(f) /\ gas = fs[n].input.gas
  OBVIOUS
<1>2. /\ Level(h, fs, v) /\ Len(fs) > 1 /\ f = fs[Len(fs)] /\ n = Len(fs) - 1
      /\ Callers(h, x, fs) /\ fs[1].ledger = EmptyLedger /\ n \in Nat \ {0}
      /\ k = fs[n].ledger /\ IsBook(k) /\ m = h.meteringStack[n] /\ IsMetering(m)
      /\ q = h.points[n] /\ q \in Nat /\ Waits(f, k, gas, m, q, paid)
      /\ lock \in Nat /\ a \in Accounts /\ Top(c.meteringStack) = m
  BY <1>1 DEF ChildEnds
<1>3. /\ paid \in Nat /\ LeftBy(h, x) \in Nat /\ left \in Nat /\ left <= q
      /\ left <= LeftBy(h, x)
  BY DEF ChildEnds, Returned
<1>4. IsMetering(c.metering) /\ SameCallers(c, h, fs) /\ Carriers(c.output) \subseteq Carriers(h.output)
  BY DEF ChildEnds, Reports
<1>5. Merged(g.metering, m, c.metering) /\ SameLimits(g.metering, m)
  BY <1>2 DEF Rejoins, Merged
<1>6. Accounted(l, k, g.metering, q - left, a, lock)
  BY <1>1, <1>2, <1>3, <1>4, <1>5, CallerMerged
<1>7. IsBook(l) /\ Grows(l, f.ledger)
  BY DEF Settled
<1>8. Sends(l, g.output)
  <2>1. IsBook(f.ledger) /\ Sends(f.ledger, b.output)
    BY <1>2 DEF Waits
  <2>2. /\ Sound(l) => Sound(f.ledger)
        /\ Inside(l) => Inside(f.ledger)
    BY <1>7, <2>1, SoundBefore
  <2>3. Carriers(g.output) \subseteq Carriers(b.output) \cup Carriers(h.output)
    BY <1>4 DEF Rejoins
  <2> QED
    BY <2>1, <2>2, <2>3 DEF Sends
<1>9. Accounted(l, fs[n].ledger, g.metering, h.points[n] - left, f.before.runtime.scAddress,
                LockOf(f))
  BY <1>1, <1>2, <1>6
<1>10. /\ Ready(g, Pop(fs), v, l, LockOf(f), Available(h, x, fs))
       /\ Pop(fs)[1].input.value = fs[1].input.value
       /\ g.runtime = f.before.runtime
  <2>1. left <= h.points[n] /\ SameLimits(g.metering, h.meteringStack[n])
    BY <1>2, <1>3, <1>5
  <2>2. SameCallers(c, h, fs) /\ IsBook(l)
    BY <1>4, <1>7
  <2>3. /\ Level(h, fs, v) /\ Len(fs) > 1 /\ f = fs[Len(fs)] /\ n = Len(fs) - 1
        /\ Callers(h, x, fs) /\ fs[1].ledger = EmptyLedger
    BY <1>2
  <2> QED
    BY <1>3, <1>8, <1>9, <2>1, <2>2, <2>3, ResumedReady
<1>11. GetPointsUsed(g) = q - left
  <2>1. g.instance = n /\ n \in Nat
    <3>1. g.instance = Len(Pop(fs)) /\ IsCallStack(fs, v) /\ Len(fs) = n + 1
      BY <1>2, <1>10 DEF Ready, Active, Level, IsCallStack
    <3> QED
      BY <1>2, <3>1, PoppedCallStack
  <2>2. g.points[n] = c.points[n] - left /\ c.points[n] = q
    BY <1>2, <1>4 DEF Resumes, Refunded, SameCallers
  <2> QED
    BY <1>2, <2>1, <2>2 DEF GetPointsUsed
<1> QED
  BY <1>5, <1>7, <1>10, <1>11 DEF GoesOn

\* executeOnDestContext has ended.
LEMMA DestGoesOn ==
    ASSUME NEW h, NEW x, NEW fs, NEW v, NEW o, NEW f, NEW n, NEW k, NEW m, NEW q, NEW paid,
           ChildEnds(h, x, fs, v, o, f, n, k, m, q, paid), f.kind # "same",
           o.err = "Ok" => ChildSettles(h, x, o, f, paid),
           NEW g, g = finishExecuteOnDestContext(o),
           NEW l, l = IF o.err = "Ok" THEN ledger
                      ELSE Burn(f.ledger, f.before.runtime.scAddress, paid)
    PROVE  GoesOn(g, fs, v, l, f, Available(h, x, fs), q, o.gasRemaining, m) /\ IsBook(l)
<1>1. PICK c, b, left : c = o.host /\ b = f.before /\ left = o.gasRemaining
  OBVIOUS
<1>2. /\ Level(c, fs, v) /\ Len(fs) > 1 /\ f = fs[Len(fs)] /\ n = Len(fs) - 1
      /\ c.points[n] = q /\ SameCallers(c, h, fs) /\ Top(c.meteringStack) = m
      /\ left \in Nat /\ left <= q /\ (o.err # "Ok" => left = 0)
  BY <1>1 DEF ChildEnds, Returned, Reports
<1>3. left <= c.points[Len(fs) - 1]
  BY <1>2
<1>4. /\ Resumes(g, c, fs, v, left)
      /\ o.err = "Ok" => Rejoins(g, c, b)
      /\ o.err # "Ok" => Recovers(g, c, b)
  BY <1>1, <1>2, <1>3, DestResumes
<1>5. CASE o.err = "Ok"
  <2>1. l = ledger /\ Sends(l, h.output) /\ Settled(l, f.ledger, c.metering, paid, left)
    BY <1>1, <1>5 DEF ChildSettles
  <2> QED
    BY <1>1, <1>4, <1>5, <2>1, MergedGoesOn
<1>6. CASE o.err # "Ok"
  <2>1. left = 0 /\ l = Burn(f.ledger, b.runtime.scAddress, paid)
    BY <1>1, <1>2, <1>6
  <2> QED
    BY <1>1, <1>2, <1>4, <1>6, <2>1, ChargedGoesOn
<1> QED
  BY <1>5, <1>6

\* What the calls of frame f have in common.
CallerOf(g, fs, v, l, f, gas, left) ==
    /\ Ready(g, Pop(fs), v, l, LockOf(f), gas) /\ IsBook(l)
    /\ Pop(fs)[1].input.value = v /\ g.runtime = f.before.runtime
    /\ left \in Nat /\ f = top
    /\ f.kind \notin {"asyncDest", "callback"} => g.runtime.gasLocked = 0
    /\ f.kind = "asyncDest" =>
          /\ LockOf(f) = g.runtime.gasLocked
          /\ g.runtime.gasLocked <= GetPointsUsed(g)
          /\ GetPointsUsed(g) <= g.metering.gasForExecution
          /\ left <= GasLeft(g)

LEMMA GoesOnAsCaller ==
    ASSUME NEW h, NEW fs, NEW v, NEW b, NEW o, Ending(h, fs, v, b, o),
           NEW x, NEW f, NEW n, NEW k, NEW m, NEW q, NEW paid,
           ChildEnds(h, x, fs, v, o, f, n, k, m, q, paid), NEW gas, NEW left,
           left \in Nat, left <= paid, NEW g, NEW l, IsBook(l),
           GoesOn(g, fs, v, l, f, gas, q, left, m)
    PROVE  CallerOf(g, fs, v, l, f, gas, left)
<1>1. /\ Waits(f, k, fs[n].input.gas, m, q, paid) /\ IsMetering(m) /\ paid = Paid(f, x)
      /\ f = fs[Len(fs)] /\ paid \in Nat /\ f.input.gas \in Nat
  BY DEF ChildEnds, Returned, Ending, IsFrame, IsInput
<1>2. /\ Ready(g, Pop(fs), v, l, LockOf(f), gas) /\ Pop(fs)[1].input.value = v
      /\ g.runtime = f.before.runtime /\ f = top
  BY <1>1 DEF GoesOn, Ending
<1>3. f.kind \notin {"asyncDest", "callback"} => g.runtime.gasLocked = 0
  BY <1>1, <1>2 DEF Waits
<1>4. ASSUME f.kind = "asyncDest"
      PROVE  /\ LockOf(f) = g.runtime.gasLocked
             /\ g.runtime.gasLocked <= GetPointsUsed(g)
             /\ GetPointsUsed(g) <= g.metering.gasForExecution
             /\ left <= GasLeft(g)
  <2>1. PICK limit, p, lock, u : /\ limit = m.gasForExecution /\ p = f.before.points
                                 /\ lock = f.before.runtime.gasLocked
                                 /\ u = GetPointsUsed(g)
    OBVIOUS
  <2>2. /\ p \in Nat /\ p <= limit /\ lock <= p /\ q = p + paid
        /\ f.input.gas <= SubUint64(limit, p)
    BY <1>1, <1>4, <2>1 DEF Waits
  <2>3. limit \in Nat
    BY <1>1, <2>1 DEF IsMetering
  <2>4. paid <= f.input.gas
    BY <1>1 DEF Paid
  <2>5. SubUint64(limit, p) = limit - p
    BY <2>2, <2>3 DEF SubUint64
  <2>6. u = q - left /\ g.metering.gasForExecution = limit
    BY <2>1 DEF GoesOn, SameLimits
  <2>7. lock \in Nat
    <3>1. LockOf(f) \in Nat /\ LockOf(f) = lock
      BY <1>4, <2>1 DEF ChildEnds, LockOf
    <3> QED
      BY <3>1
  <2>8. u \in Nat /\ lock <= u /\ u <= limit /\ left <= limit - u
    <3>1. PICK y : y = f.input.gas
      OBVIOUS
    <3>2. y \in Nat /\ paid <= y /\ y <= limit - p
      BY <1>1, <2>2, <2>4, <2>5, <3>1
    <3>3. p + paid <= limit
      BY <1>1, <2>2, <2>3, <3>2
    <3>4. u = (p + paid) - left
      BY <2>2, <2>6
    <3> QED
      BY <1>1, <2>2, <2>3, <2>7, <3>3, <3>4
  <2>9. GasLeft(g) = limit - u
    BY <2>1, <2>3, <2>6, <2>8 DEF GasLeft, SubUint64
  <2>10. LockOf(f) = lock /\ g.runtime.gasLocked = lock
    BY <1>2, <1>4, <2>1 DEF LockOf
  <2>11. left <= GasLeft(g)
    BY <2>8, <2>9
  <2> QED
    BY <2>1, <2>6, <2>8, <2>10, <2>11
<1> QED
  BY <1>2, <1>3, <1>4 DEF CallerOf

LEMMA ChargedAs ==
    ASSUME NEW f, f = top
    PROVE  ChargeCaller = Burn(f.ledger, f.before.runtime.scAddress, Paid(f, exit))
  BY DEF ChargeCaller, Paid, Early

LEMMA DestCallEnds ==
    ASSUME VMInv, GasInv, exit # "running",
           NEW h, NEW fs, NEW v, NEW b, NEW o, Ending(h, fs, v, b, o), top.kind # "same",
           NEW g, g = finishExecuteOnDestContext(o)
    PROVE  \E l, f : /\ l = ChildLedger(o)
                     /\ CallerOf(g, fs, v, l, f, GasNow, o.gasRemaining)
<1>1. PICK x : x = exit
  OBVIOUS
<1>2. PICK f, n, k, m, q, paid :
          /\ ChildEnds(h, x, fs, v, o, f, n, k, m, q, paid)
          /\ o.err = "Ok" => ChildSettles(h, x, o, f, paid)
  BY <1>1, ChildEnding
<1>3. PICK l, gas, left : l = ChildLedger(o) /\ gas = GasNow /\ left = o.gasRemaining
  OBVIOUS
<1>4. f = top /\ paid = Paid(f, x) /\ left \in Nat /\ left <= paid
  BY <1>2, <1>3 DEF ChildEnds, Ending, Returned
<1>5. l = IF o.err = "Ok" THEN ledger ELSE Burn(f.ledger, f.before.runtime.scAddress, paid)
  BY <1>1, <1>3, <1>4, ChargedAs DEF ChildLedger
<1>6. gas = Available(h, x, fs)
  BY <1>1, <1>3 DEF GasNow, Ending
<1>7. GoesOn(g, fs, v, l, f, gas, q, left, m) /\ IsBook(l)
  BY <1>2, <1>3, <1>4, <1>5, <1>6, DestGoesOn
<1>8. CallerOf(g, fs, v, l, f, gas, left)
  BY <1>2, <1>4, <1>7, GoesOnAsCaller
<1> QED
  BY <1>3, <1>8

\* The caller runs on, or its own EEI call faults.
LEMMA CallerRuns ==
    ASSUME NEW fs, NEW v, NEW f, NEW g, NEW l, NEW left,
           CallerOf(g, fs, v, l, f, GasNow, left), f.kind \notin {"asyncDest", "callback"},
           host' = g, ledger' = l, exit' = "running", frames' = Pop(fs)
    PROVE  Arrives
<1>1. PICK x, es, gas : x = "running" /\ es = Pop(fs) /\ gas = GasNow
  OBVIOUS
<1>2. Ready(g, es, v, l, 0, gas) /\ g.runtime.gasLocked = 0
  BY <1>1 DEF CallerOf, LockOf
<1>3. x \in {"running", "Ok"}
  BY <1>1
<1>4. Reached(g, x, es, l, gas)
  BY <1>2, <1>3, ReadyEnds
<1> QED
  BY <1>1, <1>4 DEF Arrives

LEMMA CallerFaults ==
    ASSUME NEW fs, NEW v, NEW f, NEW g, NEW l, NEW left,
           CallerOf(g, fs, v, l, f, GasNow, left),
           host' = FailExecution(g), ledger' = l, exit' = "ErrExecutionFailed",
           frames' = Pop(fs)
    PROVE  Arrives
<1>1. PICK es, gas, lock, e : es = Pop(fs) /\ gas = GasNow /\ lock = LockOf(f) /\ e = FailExecution(g)
  OBVIOUS
<1>2. Ready(g, es, v, l, lock, gas) /\ IsBook(l)
  BY <1>1 DEF CallerOf
<1>3. Reached(e, "ErrExecutionFailed", es, l, gas)
  BY <1>1, <1>2, ReadyFaults
<1> QED
  BY <1>1, <1>3 DEF Arrives

LEMMA FinishDestCallSpends ==
    ASSUME VMInv, GasInv, FinishDestCall PROVE Arrives
<1>1. PICK h, fs, v, b, o : Ending(h, fs, v, b, o)
  BY EndingNow DEF FinishDestCall, Ended
<1>2. top.kind = "dest" /\ ReturnFromDest(o) /\ exit # "running"
  BY <1>1 DEF FinishDestCall, Ended, Ending
<1>3. PICK g : g = finishExecuteOnDestContext(o)
  OBVIOUS
<1>4. PICK l, f : /\ l = ChildLedger(o)
                  /\ CallerOf(g, fs, v, l, f, GasNow, o.gasRemaining)
  BY <1>1, <1>2, <1>3, DestCallEnds
<1>5. f.kind = "dest"
  BY <1>2, <1>4 DEF CallerOf
<1>6. CASE o.err = "Ok"
  <2>1. host' = g /\ ledger' = l /\ exit' = "running" /\ frames' = Pop(fs)
    BY <1>1, <1>2, <1>3, <1>4, <1>6 DEF ReturnFromDest, BackToCaller, Ending, ChildLedger
  <2> QED
    BY <1>4, <1>5, <2>1, CallerRuns
<1>7. CASE o.err # "Ok"
  <2>1. /\ host' = FailExecution(g) /\ ledger' = l /\ exit' = "ErrExecutionFailed"
        /\ frames' = Pop(fs)
    BY <1>1, <1>2, <1>3, <1>4, <1>7 DEF ReturnFromDest, BackToFault, Ending, ChildLedger
  <2> QED
    BY <1>4, <2>1, CallerFaults
<1> QED
  BY <1>6, <1>7

LEMMA FinishTransferExecuteSpends ==
    ASSUME VMInv, GasInv, FinishTransferExecute PROVE Arrives
<1>1. PICK h, fs, v, b, o : Ending(h, fs, v, b, o)
  BY EndingNow DEF FinishTransferExecute, Ended
<1>2. top.kind = "transfer" /\ ReturnFromTransfer(o) /\ exit # "running"
  BY <1>1 DEF FinishTransferExecute, Ended, Ending
<1>3. PICK g : g = finishExecuteOnDestContext(o)
  OBVIOUS
<1>4. PICK l, f : /\ l = ChildLedger(o)
                  /\ CallerOf(g, fs, v, l, f, GasNow, o.gasRemaining)
  BY <1>1, <1>2, <1>3, DestCallEnds
<1>5. f.kind = "transfer"
  BY <1>2, <1>4 DEF CallerOf
<1>6. host' = g /\ ledger' = l /\ exit' = "running" /\ frames' = Pop(fs)
  BY <1>1, <1>2, <1>3, <1>4 DEF ReturnFromTransfer, BackToCaller, Ending
<1> QED
  BY <1>4, <1>5, <1>6, CallerRuns

LEMMA FinishCallbackSpends ==
    ASSUME VMInv, GasInv, FinishCallback PROVE Arrives
<1>1. PICK h, fs, v, b, o : Ending(h, fs, v, b, o)
  BY EndingNow DEF FinishCallback, Ended
<1>2. top.kind = "callback" /\ processCallbackVMOutput(o) /\ exit # "running"
  BY <1>1 DEF FinishCallback, Ended, Ending
<1>3. PICK g : g = finishExecuteOnDestContext(o)
  OBVIOUS
<1>4. PICK l, f : /\ l = ChildLedger(o)
                  /\ CallerOf(g, fs, v, l, f, GasNow, o.gasRemaining)
  BY <1>1, <1>2, <1>3, DestCallEnds
<1>5. PICK x, es, gas : x = "Ok" /\ es = Pop(fs) /\ gas = GasNow
  OBVIOUS
<1>6. host' = g /\ ledger' = l /\ exit' = x /\ frames' = es
  BY <1>1, <1>2, <1>3, <1>4, <1>5 DEF processCallbackVMOutput, Ending
<1>7. Ready(g, es, v, l, 0, gas)
  BY <1>2, <1>4, <1>5 DEF CallerOf, LockOf
<1>8. x \in {"running", "Ok"} /\ x # "running"
  BY <1>5
<1>9. Reached(g, x, es, l, gas)
  BY <1>7, <1>8, ReadyEnds
<1> QED
  BY <1>5, <1>6, <1>9 DEF Arrives

LEMMA FinishESDTExecuteSpends ==
    ASSUME VMInv, GasInv, FinishESDTExecute PROVE Arrives
<1>1. PICK h, fs, v, b, o : Ending(h, fs, v, b, o)
  BY EndingNow DEF FinishESDTExecute, Ended
<1>2. top.kind = "esdt" /\ ReturnFromESDT(o) /\ exit # "running"
  BY <1>1 DEF FinishESDTExecute, Ended, Ending
<1>3. PICK g : g = finishExecuteOnDestContext(o)
  OBVIOUS
<1>4. PICK l, f : /\ l = ChildLedger(o)
                  /\ CallerOf(g, fs, v, l, f, GasNow, o.gasRemaining)
  BY <1>1, <1>2, <1>3, DestCallEnds
<1>5. f.kind = "esdt"
  BY <1>2, <1>4 DEF CallerOf
<1>6. CASE o.err = "Ok"
  <2>1. host' = g /\ ledger' = l /\ exit' = "running" /\ frames' = Pop(fs)
    BY <1>1, <1>2, <1>3, <1>4, <1>6 DEF ReturnFromESDT, BackToCaller, Ending, ChildLedger
  <2> QED
    BY <1>4, <1>5, <2>1, CallerRuns
<1>7. CASE o.err # "Ok"
  <2>1. top.before = b /\ b.world \in Nat \ {0}
    BY <1>1, <1>2 DEF Ending, IsFrame
  <2>2. PICK w : w = b.world - 1
    OBVIOUS
  <2>3. PICK e : e = WithWorld(g, w)
    OBVIOUS
  <2>4. /\ host' = e /\ ledger' = l /\ exit' = "running" /\ frames' = Pop(fs) /\ w \in Nat
    BY <1>1, <1>2, <1>3, <1>4, <1>7, <2>1, <2>2, <2>3
       DEF ReturnFromESDT, BackToCaller, Ending, WithWorld, ChildLedger
  <2>5. PICK es, gas, x : es = Pop(fs) /\ gas = GasNow /\ x = "running"
    OBVIOUS
  <2>6. Ready(g, es, v, l, 0, gas) /\ g.runtime.gasLocked = 0
    BY <1>4, <1>5, <2>5 DEF CallerOf, LockOf
  <2>7. IsHost(g)
    BY <2>6 DEF Ready
  <2>8. SameBut(e, g, {"world"}) /\ e.world = w
    BY <2>3, <2>7 DEF WithWorld, SameBut, HostFields, IsHost, IdleHost
  <2>9. /\ SameBut(e, g, Inner) /\ SameBut(e, g, Outer) /\ e.output = g.output
        /\ e.points = g.points /\ e.metering = g.metering /\ e.bigInt = g.bigInt
        /\ e.runtime = g.runtime
    BY <2>8 DEF SameBut, Inner, Outer, HostFields
  <2>10. KeptHere(e, g)
    <3>1. Carries(e.output, g.output)
      BY <2>7, <2>9, SameCarries DEF IsHost, IdleHost
    <3> QED
      BY <2>4, <2>7, <2>8, <2>9, <3>1, InnerKeeps DEF IsHost, IdleHost
  <2>11. Ready(e, es, v, l, 0, gas) /\ e.runtime.gasLocked = 0
    BY <2>6, <2>9, <2>10, ReadyChanges
  <2>12. x \in {"running", "Ok"}
    BY <2>5
  <2>13. Reached(e, x, es, l, gas)
    BY <2>11, <2>12, ReadyEnds
  <2> QED
    BY <2>4, <2>5, <2>13 DEF Arrives
<1> QED
  BY <1>6, <1>7

LEMMA FinishSameContextSpends ==
    ASSUME VMInv, GasInv, FinishSameContext PROVE Arrives
<1>1. PICK h, fs, v, b, o : Ending(h, fs, v, b, o)
  BY EndingNow DEF FinishSameContext, Ended
<1>2. top.kind = "same" /\ exit # "running"
  BY <1>1 DEF FinishSameContext, Ended
<1>3. PICK x : x = exit
  OBVIOUS
<1>4. PICK f, n, k, m, q, paid :
          /\ ChildEnds(h, x, fs, v, o, f, n, k, m, q, paid)
          /\ o.err = "Ok" => ChildSettles(h, x, o, f, paid)
  BY <1>1, <1>2, <1>3, ChildEnding
<1>5. PICK gas, left, c : gas = GasNow /\ left = o.gasRemaining /\ c = o.host
  OBVIOUS
<1>6. /\ f = top /\ f = fs[Len(fs)] /\ b = f.before /\ paid = Paid(f, x) /\ f.kind = "same"
      /\ left \in Nat /\ left <= paid /\ left <= q /\ paid \in Nat
      /\ Len(fs) > 1 /\ n = Len(fs) - 1 /\ c.points[n] = q
      /\ Level(h, fs, v) /\ Level(c, fs, v) /\ SameCallers(c, h, fs)
      /\ Top(c.meteringStack) = m
  BY <1>1, <1>2, <1>4, <1>5 DEF ChildEnds, Ending, Returned, Reports
<1>7. gas = Available(h, x, fs)
  BY <1>1, <1>3, <1>5 DEF GasNow, Ending
<1>8. CASE x = "Ok"
  <2>1. ReturnFromSame(o)
    BY <1>1, <1>3, <1>8 DEF FinishSameContext, Ending
  <2>2. PICK failed : failed = (o.err # "Ok")
    OBVIOUS
  <2>3. failed \in BOOLEAN
    BY <2>2
  <2>4. PICK g, l : /\ g = finishExecuteOnSameContext(o)
                    /\ l = [ledger EXCEPT !.unchecked = @ \/ failed]
    OBVIOUS
  <2>5. /\ host' = g /\ ledger' = l /\ exit' = "running" /\ frames' = Pop(fs)
    BY <1>1, <2>1, <2>2, <2>4 DEF ReturnFromSame, BackToCaller, Ending
  <2>6. left <= c.points[Len(fs) - 1]
    BY <1>6
  <2>7. Resumes(g, c, fs, v, left) /\ Rejoins(g, c, b)
    BY <1>5, <1>6, <2>4, <2>6, SameResumes
  <2>8. GasGood(h, x, fs, ledger) /\ IsBook(ledger)
    BY <1>1, <1>3, <1>8 DEF GasInv, Ending
  <2>9. Open(h, fs, ledger, 0)
    BY <1>8, <2>8 DEF GasGood
  <2>10. Grows(ledger, f.ledger) /\ Sends(ledger, h.output)
    BY <1>6, <2>9 DEF Open, Accounted
  <2>11. SameGas(l, ledger) /\ (Sound(l) => ~failed /\ Sound(ledger))
    BY <2>3, <2>4, <2>8, UncheckedGas
  <2>12. IsBook(f.ledger) /\ IsBook(l) /\ Grows(l, ledger)
    BY <1>4, <2>11 DEF ChildEnds, Waits, SameGas
  <2>13. Grows(l, f.ledger)
    BY <2>8, <2>10, <2>12, GrowsTransitive
  <2>14. Settled(l, f.ledger, c.metering, paid, left)
    <3>1. ASSUME Sound(l) PROVE Settled(ledger, f.ledger, c.metering, paid, left)
      BY <1>4, <1>5, <2>2, <2>11, <3>1 DEF ChildSettles
    <3>2. /\ Spent(l) = Spent(ledger) /\ l.burnt = ledger.burnt
          /\ l.forwarded = ledger.forwarded
      BY <2>11 DEF SameGas
    <3>3. Inside(l) => Sound(l) /\ Inside(ledger)
      BY <2>11, <3>2 DEF Inside
    <3>4. Sound(l) => Spent(l) + left = Spent(f.ledger) + paid
      BY <2>11, <3>1, <3>2 DEF Settled
    <3>5. Inside(l) => \A a \in Accounts : l.burnt[a] = f.ledger.burnt[a] + GasUsedBy(c.metering, a)
      BY <3>1, <3>2, <3>3 DEF Settled
    <3> QED
      BY <2>12, <2>13, <3>4, <3>5 DEF Settled
  <2>15. Sends(l, h.output)
    BY <2>10, <2>11 DEF Sends, Inside, SameGas
  <2>16. GoesOn(g, fs, v, l, f, gas, q, left, m)
    BY <1>4, <1>5, <1>6, <1>7, <2>7, <2>14, <2>15, MergedGoesOn
  <2>17. CallerOf(g, fs, v, l, f, gas, left)
    BY <1>1, <1>4, <1>6, <2>12, <2>16, GoesOnAsCaller
  <2>18. f.kind \notin {"asyncDest", "callback"}
    BY <1>6
  <2> QED
    BY <1>5, <2>5, <2>17, <2>18, CallerRuns
<1>9. CASE x # "Ok"
  <2>1. PICK g, l : g = FailedSameContext(h) /\ l = ChargeCaller
    OBVIOUS
  <2>2. /\ host' = FailExecution(g) /\ ledger' = l /\ exit' = "ErrExecutionFailed"
        /\ frames' = Pop(fs)
    BY <1>1, <1>3, <1>9, <2>1 DEF FinishSameContext, Ending, BackToFault
  <2>3. Resumes(g, h, fs, v, 0) /\ Recovers(g, h, b)
    BY <1>6, <2>1, SameFailedResumes
  <2>4. SameCallers(h, h, fs) /\ Top(h.meteringStack) = m
    BY <1>6 DEF SameCallers
  <2>5. l = Burn(f.ledger, b.runtime.scAddress, paid)
    BY <1>3, <1>6, <2>1, ChargedAs
  <2>6. GoesOn(g, fs, v, l, f, gas, q, 0, m) /\ IsBook(l)
    BY <1>4, <1>6, <1>7, <2>3, <2>4, <2>5, ChargedGoesOn
  <2>7. 0 \in Nat /\ 0 <= paid
    BY <1>6
  <2>8. CallerOf(g, fs, v, l, f, gas, 0)
    BY <1>1, <1>4, <2>6, <2>7, GoesOnAsCaller
  <2> QED
    BY <1>5, <2>2, <2>8, CallerFaults
<1> QED
  BY <1>8, <1>9

LEMMA FinishAsyncDestinationSpends ==
    ASSUME VMInv, GasInv, FinishAsyncDestination PROVE Arrives
<1>1. PICK h, fs, v, b, o : Ending(h, fs, v, b, o)
  BY EndingNow DEF FinishAsyncDestination, Ended
<1>2. top.kind = "asyncDest" /\ CallBackAfter(o) /\ exit # "running"
  BY <1>1 DEF FinishAsyncDestination, Ended, Ending
<1>3. PICK g : g = finishExecuteOnDestContext(o)
  OBVIOUS
<1>4. PICK l, f : /\ l = ChildLedger(o)
                  /\ CallerOf(g, fs, v, l, f, GasNow, o.gasRemaining)
  BY <1>1, <1>2, <1>3, DestCallEnds
<1>5. PICK es, gas, lock, initiator, left, limit, returns :
          /\ es = Pop(fs) /\ gas = GasNow /\ lock = g.runtime.gasLocked
          /\ initiator = top.input.recipient /\ left = o.gasRemaining
          /\ limit = o.gasRemaining + g.runtime.gasLocked
          /\ returns = (o.err = "Ok" /\ o.host.output.returnsToken)
  OBVIOUS
<1>6. executeSyncCallbackCall(es, g, l, initiator, limit, returns)
  BY <1>1, <1>2, <1>3, <1>4, <1>5 DEF CallBackAfter, ReturnFromAsyncDestination, Ending
<1>7. /\ Ready(g, es, v, l, lock, gas) /\ es[1].input.value = v
      /\ lock <= GetPointsUsed(g) /\ GetPointsUsed(g) <= g.metering.gasForExecution
      /\ left \in Nat /\ left <= GasLeft(g)
  BY <1>2, <1>4, <1>5 DEF CallerOf
<1>8. initiator \in Contracts /\ initiator \in Accounts
  BY <1>1, <1>2, <1>5 DEF Ending, IsFrame, Accounts
<1>9. limit = left + lock /\ lock \in Nat /\ GasLeft(g) \in Nat
  BY <1>5, <1>7, ReadyFacts DEF Ready
<1>10. limit \in Nat /\ limit <= GasLeft(g) + lock
  BY <1>7, <1>9
<1>11. Reached(host', exit', frames', ledger', gas)
  BY <1>5, <1>6, <1>7, <1>8, <1>10, CallbackReached
<1> QED
  BY <1>5, <1>11 DEF Arrives

-----------------------------------------------------------------------------
(* Transactions.                                                            *)

\* During a transaction the invariant is what its steps reach.
LEMMA ReachedKeeps ==
    ASSUME NEW gas, Reached(host', exit', frames', ledger', gas)
    PROVE  GasInv'
<1>1. exit' # "idle" /\ IsBook(ledger') /\ GasGood(host', exit', frames', ledger')
  BY DEF Reached
<1> QED
  BY <1>1 DEF GasInv, GasConserved, GasAttributed

\* An execution that has only paid for its code.
LEMMA CodePaid ==
    ASSUME NEW l, IsBook(l), NEW s \in Accounts, NEW cost \in Nat, NEW gas \in Nat,
           cost <= gas, NEW k, k = Burn(l, s, cost),
           NEW m, Metered(m, NewMetering(gas), cost, gas)
    PROVE  IsBook(k) /\ Accounted(k, l, m, 0, s, 0) /\ Provided(m, gas)
<1>1. /\ m.initialGasProvided = gas /\ m.initialCost = cost
      /\ m.gasForExecution = gas - cost /\ m.gasUsedByAccounts = << >>
  BY DEF Metered, NewMetering
<1>2. \A a : GasUsedBy(m, a) = 0
  BY <1>1, EmptyFrames DEF GasUsedBy
<1>3. BurntBy(k, l, s, cost)
  BY Burning
<1>4. /\ IsBook(k) /\ Grows(k, l) /\ Spent(k) = Spent(l) + cost
      /\ \A a \in Accounts \ {s} : k.burnt[a] = l.burnt[a]
  BY <1>3 DEF BurntBy
<1>5. Spent(l) \in Nat /\ Spent(k) \in Nat /\ \A a \in Accounts : l.burnt[a] \in Nat
  BY <1>4, BooksAreLedgers
<1>6. Spent(k) + 0 = Spent(l) + m.initialCost + 0
  BY <1>1, <1>4, <1>5
<1>7. \A a \in Accounts \ {s} : k.burnt[a] = l.burnt[a] + GasUsedBy(m, a)
  BY <1>2, <1>4, <1>5
<1>8. cost + (gas - cost) = gas
  OBVIOUS
<1>9. Provided(m, gas)
  BY <1>1, <1>8 DEF Provided
<1> QED
  BY <1>4, <1>6, <1>7, <1>9 DEF Accounted

LEMMA BeganWith ==
    ASSUME NEW g, NEW input, NEW h, h = BeginOf(g, input), IsInput(input)
    PROVE  /\ h.runtime = NewRuntime(input) /\ h.metering = NewMetering(input.gas)
           /\ Carriers(h.output) = {}
<1>1. PICK e : e = InitState(g)
  OBVIOUS
<1>2. DOMAIN e = HostFields /\ e.output = newVMOutput
  BY <1>1 DEF InitState, EmptyHost, HostFields
<1>3. PICK o : o = AddBalance(e.output, input.recipient, input.value)
  OBVIOUS
<1>4. h = [e EXCEPT !.runtime = NewRuntime(input), !.metering = NewMetering(input.gas),
                    !.output = o, !.storageAddress = input.recipient]
  BY <1>1, <1>2, <1>3 DEF BeginOf, HostFields
<1>5. /\ h.runtime = NewRuntime(input) /\ h.metering = NewMetering(input.gas)
      /\ h.output = o
  BY <1>2, <1>4 DEF HostFields
<1>6. input.recipient \in Accounts /\ input.value \in Int
  BY DEF IsInput
<1>7. Carriers(o) \subseteq Carriers(newVMOutput)
  BY <1>2, <1>3, <1>6, CarriersOfBalance, NewOutputs
<1> QED
  BY <1>5, <1>7, NothingSent

LEMMA TransactionReached ==
    ASSUME VMInv, NEW input \in TxInputs, doRunSmartContractCall(input)
    PROVE  GasInv'
<1>1. exit = "idle"
  BY DEF doRunSmartContractCall
<1>2. IdleHost(host) /\ StackSizes(host, 0, 0) /\ IsInput(input)
  BY <1>1, TransactionInput DEF VMInv
<1>3. PICK h : h = BeginOf(host, input)
  OBVIOUS
<1>4. Begun(h, input)
  BY <1>2, <1>3, TransactionBegun
<1>5. PICK f, r, g, x : /\ f = Frame("top", input, h, EmptyLedger)
                        /\ r = PrepareInstance(h, input) /\ g = r.host /\ x = r.exit
  OBVIOUS
<1>6. PICK fs, k, y : fs = << f >> /\ k = ledger' /\ y = exit'
  OBVIOUS
<1>7. Len(fs) = 1 /\ fs[1] = f
  BY <1>2, <1>4, <1>5, <1>6, TopLevel
<1>8. /\ host' = g /\ frames' = fs
      /\ y = IF x \in {"running", "Ok"} /\ input.init THEN "ErrInitFuncCalledInRun" ELSE x
      /\ k = IF x \in {"running", "Ok"}
             THEN Burn(EmptyLedger, input.recipient, CodeCost[input.recipient])
             ELSE EmptyLedger
  BY <1>3, <1>5, <1>6 DEF doRunSmartContractCall, BeginOf
<1>9. IsHost(h) /\ IsStack(h.instanceStack, 0) /\ 0 \in Nat
  BY <1>4 DEF Begun, StackSizes
<1>10. Prepared(r, h, 0, input)
  BY <1>2, <1>5, <1>9, InstanceReady
<1>11. /\ h.runtime = NewRuntime(input) /\ h.metering = NewMetering(input.gas)
       /\ Carriers(h.output) = {}
  BY <1>2, <1>3, BeganWith
<1>12. f.ledger = EmptyLedger /\ f.input = input /\ input.gas \in Nat
  BY <1>2, <1>5 DEF Frame, IsInput
<1>13. Callers(g, y, fs) /\ fs[1].ledger = EmptyLedger
  BY <1>7, <1>12 DEF Callers
<1>14. y # "idle"
  BY <1>5, <1>8, <1>10 DEF Prepared, Failures
<1>15. CASE x \in {"running", "Ok"}
  <2>1. PICK s, cost, m : s = input.recipient /\ cost = CodeCost[s] /\ m = g.metering
    OBVIOUS
  <2>2. /\ s \in Contracts /\ s \in Accounts /\ cost \in Nat /\ cost <= input.gas
        /\ g.instance = 0 + 1 /\ g.points[0 + 1] = 0
        /\ Metered(m, NewMetering(input.gas), cost, input.gas)
    BY <1>5, <1>10, <1>11, <1>15, <2>1, AccountsFinite DEF Prepared
  <2>3. k = Burn(EmptyLedger, s, cost)
    BY <1>8, <1>15, <2>1
  <2>4. IsBook(k) /\ Accounted(k, EmptyLedger, m, 0, s, 0) /\ Provided(m, input.gas)
    BY <1>12, <2>2, <2>3, CodePaid, EmptyBook
  <2>5. /\ g.runtime.scAddress = s /\ g.runtime.gasLocked = 0 /\ Carriers(g.output) = {}
    BY <1>5, <1>10, <1>11, <2>1 DEF Prepared, NewRuntime
  <2>6. GetPointsUsed(g) = 0 /\ g.instance = Len(fs)
    BY <1>7, <2>2 DEF GetPointsUsed
  <2>7. Sends(k, g.output)
    BY <2>5 DEF Sends
  <2>8. Open(g, fs, k, 0)
    BY <1>7, <1>12, <2>1, <2>2, <2>4, <2>5, <2>6, <2>7 DEF Open
  <2>9. GasGood(g, y, fs, k)
    BY <1>13, <2>5, <2>8 DEF GasGood
  <2> QED
    BY <1>6, <1>8, <1>14, <2>4, <2>9 DEF GasInv, GasConserved, GasAttributed
<1>16. CASE x \notin {"running", "Ok"}
  <2>1. y = x /\ k = EmptyLedger
    BY <1>8, <1>16
  <2>2. GasGood(g, y, fs, k)
    BY <1>13, <1>16, <2>1 DEF GasGood
  <2>3. IsBook(k)
    BY <2>1, EmptyBook
  <2> QED
    BY <1>6, <1>8, <1>14, <2>2, <2>3 DEF GasInv, GasConserved, GasAttributed
<1> QED
  BY <1>15, <1>16

\* The transaction ends with the VMOutput o and the ledger l.
Settles(o, l, gas) ==
    /\ IsBook(l)
    /\ o.err = "Ok" =>
          /\ Sound(l) => Spent(l) + o.gasRemaining = gas
          /\ Inside(l) => \A a \in Accounts :
                l.burnt[a] = (IF a \in DOMAIN o.host.output.accounts
                              THEN o.host.output.accounts[a].gasUsed ELSE 0)

LEMMA SettledResult ==
    ASSUME NEW o, NEW l, NEW gas, Settles(o, l, gas), EndTransaction(o, l),
           gas = frames[1].input.gas, gas \in Nat, o.gasRemaining \in Nat
    PROVE  GasInv'
<1>1. /\ ledger' = l /\ exit' = "idle"
      /\ result' = [err |-> o.err, gasRemaining |-> o.gasRemaining,
                    accounts |-> IF o.err = "Ok" THEN o.host.output.accounts ELSE << >>,
                    input |-> frames[1].input]
  BY DEF EndTransaction
<1>2. PICK r : r = result'
  OBVIOUS
<1>3. /\ r.err = o.err /\ r.gasRemaining = o.gasRemaining /\ r.input.gas = gas
      /\ o.err = "Ok" => r.accounts = o.host.output.accounts
  BY <1>1, <1>2
<1>4. IsBook(l) /\ TotalBurnt(l) \in Nat /\ l.forwarded \in Nat /\ l.unfunded \in Nat
  BY BooksAreLedgers DEF Settles, IsBook
<1>5. ASSUME o.err = "Ok", ~l.unchecked, l.unfunded = 0
      PROVE  TotalBurnt(l) + l.forwarded + o.gasRemaining = gas
  <2>1. Spent(l) + o.gasRemaining = gas
    BY <1>5 DEF Settles, Sound
  <2> QED
    BY <1>4, <2>1 DEF Spent
<1>6. GasConserved'
  BY <1>1, <1>2, <1>3, <1>5 DEF GasConserved
<1>7. ASSUME o.err = "Ok", ~l.unchecked, l.forwarded + l.unfunded = 0
      PROVE  \A a \in Accounts : l.burnt[a] = (IF a \in DOMAIN r.accounts
                                               THEN r.accounts[a].gasUsed ELSE 0)
  <2>1. l.forwarded = 0 /\ l.unfunded = 0
    BY <1>4, <1>7
  <2>2. Inside(l)
    BY <1>7, <2>1 DEF Inside, Sound
  <2> QED
    BY <1>3, <1>7, <2>2 DEF Settles
<1>8. GasAttributed'
  BY <1>1, <1>2, <1>3, <1>7 DEF GasAttributed
<1> QED
  BY <1>1, <1>4, <1>6, <1>8 DEF GasInv

\* The output accounts of a transaction that kept its gas in the shard.
LEMMA OutputAttributed ==
    ASSUME NEW g, IsHost(g), NEW s \in Contracts, s = g.runtime.scAddress,
           NEW l, IsBook(l), NEW gas \in Nat,
           Accounted(l, EmptyLedger, g.metering, GetPointsUsed(g), s, 0),
           Carriers(g.output) = {}, Provided(g.metering, gas), Inside(l),
           NEW o, o = GetVMOutput(g), o.err = "Ok"
    PROVE  \A a \in Accounts :
               l.burnt[a] = (IF a \in DOMAIN o.host.output.accounts
                             THEN o.host.output.accounts[a].gasUsed ELSE 0)
<1>1. Sends(l, g.output)
  BY DEF Sends
<1>2. \A a \in Accounts : l.burnt[a] = EmptyLedger.burnt[a] + GasUsedBy(o.host.metering, a)
  BY <1>1, EmptyBook, LevelEnded
<1>3. Final(o, g, s)
  BY FinalOutput
<1>4. IsMetering(o.host.metering)
  BY <1>3 DEF Final, IsHost, IdleHost
<1>5. \A a : GasUsedBy(o.host.metering, a) \in Nat
  BY <1>4, UsedIsNat
<1>6. \A a \in Accounts : EmptyLedger.burnt[a] = 0
  BY DEF EmptyLedger
<1>7. \A a \in Accounts : l.burnt[a] = GasUsedBy(o.host.metering, a)
  BY <1>2, <1>5, <1>6
<1>8. /\ DOMAIN o.host.metering.gasUsedByAccounts \subseteq DOMAIN o.host.output.accounts
      /\ \A a \in DOMAIN o.host.output.accounts :
            o.host.output.accounts[a].gasUsed = GasUsedBy(o.host.metering, a)
  BY <1>3 DEF Final
<1>9. \A a \in Accounts : a \notin DOMAIN o.host.output.accounts =>
          GasUsedBy(o.host.metering, a) = 0
  BY <1>8 DEF GasUsedBy
<1> QED
  BY <1>7, <1>8, <1>9

\* sendCallbackToCurrentCaller forwards all the gas that is left.
LEMMA CallbackForwards ==
    ASSUME NEW h, IsHost(h), NEW n \in Nat \ {0}, h.instance = n,
           NEW left, left = GasLeft(h),
           NEW g, g = sendCallbackToCurrentCaller(h), IsHost(g)
    PROVE  /\ g.metering = h.metering /\ g.runtime.scAddress = h.runtime.scAddress
           /\ GetPointsUsed(g) = GetPointsUsed(h) + left
           /\ GasLeft(g) = 0
           /\ left = 0 => Carriers(g.output) \subseteq Carriers(h.output)
<1>1. PICK dest, s, value, none, t : /\ dest = h.runtime.caller /\ s = h.runtime.scAddress
                                     /\ value = h.runtime.callValue /\ none = 0
                                     /\ t = Transfer(h, dest, s, left, none, value)
  OBVIOUS
<1>2. /\ dest \in Accounts /\ s \in Accounts /\ value \in Nat /\ left \in Nat /\ none \in Nat
      /\ GetPointsUsed(h) \in Nat
  BY <1>1, GasIsNat DEF IsHost, RuntimeType
<1>3. g = UseGas(t, left)
  BY <1>1 DEF sendCallbackToCurrentCaller
<1>4. /\ SameBut(t, h, Outer)
      /\ Carriers(t.output) \subseteq Carriers(h.output)
            \cup (IF left + none = 0 THEN {} ELSE {dest})
  <2>1. /\ dest \in Accounts /\ s \in Accounts /\ value \in Nat /\ left \in Nat
        /\ none \in Nat
    BY <1>2
  <2>2. t = Transfer(h, dest, s, left, none, value)
    BY <1>1
  <2> QED
    BY ONLY IsHost(h), <2>1, <2>2, TransferSends
<1>5. /\ t.metering = h.metering /\ t.runtime = h.runtime /\ t.instance = h.instance
      /\ t.points = h.points /\ DOMAIN t = HostFields /\ t.points \in PointsType
  BY <1>4 DEF SameBut, Outer, HostFields, IsHost, IdleHost
<1>6. n \in 1 .. MaxInstances
  BY DEF IsHost, IdleHost
<1>7. GetPointsUsed(t) = GetPointsUsed(h)
  BY <1>5 DEF GetPointsUsed
<1>8. /\ g.metering = t.metering /\ g.runtime = t.runtime /\ g.output = t.output
      /\ g.instance = n /\ g.points = [t.points EXCEPT ![n] = GetPointsUsed(t) + left]
  BY <1>3, <1>5, <1>6 DEF UseGas, SetPointsUsed, HostFields
<1>9. g.points[n] = GetPointsUsed(h) + left
  BY <1>5, <1>6, <1>7, <1>8 DEF PointsType
<1>10. GetPointsUsed(g) = GetPointsUsed(h) + left
  BY <1>8, <1>9 DEF GetPointsUsed
<1>11. GasLeft(g) = 0
  <2>1. PICK limit, p : limit = h.metering.gasForExecution /\ p = GetPointsUsed(h)
    OBVIOUS
  <2>2. limit \in Nat /\ p \in Nat /\ left = SubUint64(limit, p)
    BY <1>2, <2>1 DEF GasLeft, IsHost, IdleHost, IsMetering
  <2>3. GasLeft(g) = SubUint64(limit, p + left)
    BY <1>5, <1>8, <1>10, <2>1 DEF GasLeft
  <2> QED
    BY <2>2, <2>3 DEF SubUint64
<1> QED
  BY <1>1, <1>2, <1>4, <1>5, <1>8, <1>10, <1>11

LEMMA FinishTransactionSettles ==
    ASSUME VMInv, GasInv, FinishTransaction PROVE GasInv'
<1>1. PICK h, err, l, fs, x : /\ h = host /\ err = CallError(host) /\ l = ledger
                              /\ fs = frames /\ x = exit
  OBVIOUS
<1>2. Len(fs) = 1 /\ x # "idle" /\ callSCMethod(err)
  BY <1>1 DEF FinishTransaction
<1>3. PICK gas, v : gas = fs[1].input.gas /\ v = fs[1].input.value
  OBVIOUS
<1>4. Level(h, fs, v)
  BY <1>1, <1>2, <1>3 DEF VMInv
<1>5. IsHost(h) /\ IsCallStack(fs, v)
  BY <1>4 DEF Level
<1>6. gas \in Nat
  <2>1. IsFrame(fs[1], 1, v)
    BY <1>2, <1>5 DEF IsCallStack
  <2> QED
    BY <1>3, <2>1 DEF IsFrame, IsInput
<1>7. IsBook(l) /\ GasGood(h, x, fs, l)
  BY <1>1, <1>2 DEF GasInv
<1>8. CASE err # "Ok"
  <2>1. PICK o : o = CreateVMOutputInCaseOfError(h, err)
    OBVIOUS
  <2>2. EndTransaction(o, l)
    BY <1>1, <1>2, <1>8, <2>1 DEF callSCMethod
  <2>3. o.err = err /\ o.gasRemaining = 0
    BY <2>1 DEF CreateVMOutputInCaseOfError
  <2>4. Settles(o, l, gas)
    BY <1>7, <1>8, <2>3 DEF Settles
  <2> QED
    BY <1>1, <1>3, <1>6, <2>2, <2>3, <2>4, SettledResult
<1>9. CASE err = "Ok"
  <2>1. x = "Ok" /\ ~(GetPointsUsed(h) > h.metering.gasForExecution)
    BY <1>1, <1>9 DEF CallError
  <2>2. Open(h, fs, l, 0) /\ fs[1].ledger = EmptyLedger
    BY <1>7, <2>1 DEF GasGood
  <2>3. PICK s, m, p, limit, left : /\ s = h.runtime.scAddress /\ m = h.metering
                                    /\ p = GetPointsUsed(h) /\ limit = m.gasForExecution
                                    /\ left = GasLeft(h)
    OBVIOUS
  <2>4. /\ h.instance = 1 /\ s \in Contracts /\ Accounted(l, EmptyLedger, m, p, s, 0)
        /\ Sends(l, h.output) /\ Provided(m, gas)
    BY <1>2, <1>3, <2>2, <2>3 DEF Open
  <2>5. /\ p \in Nat /\ left \in Nat /\ limit \in Nat /\ m.initialCost \in Nat
        /\ left = SubUint64(limit, p)
    BY <1>5, <2>3, GasIsNat DEF GasLeft, IsHost, IdleHost, IsMetering
  <2>6. p <= limit
    BY <2>1, <2>3, <2>5
  <2>7. left = limit - p
    BY <2>5, <2>6 DEF SubUint64
  <2>8. Spent(l) \in Nat
    BY <1>7, BooksAreLedgers
  <2>9. Sound(l) => Spent(l) + left = gas
    <3>1. m.initialCost + limit = gas
      BY <2>3, <2>4 DEF Provided
    <3>2. Sound(l) => Spent(l) + 0 = 0 + m.initialCost + p
      BY <2>4, EmptyBook DEF Accounted
    <3> QED
      BY <1>6, <2>5, <2>7, <2>8, <3>1, <3>2
  <2>10. CASE ~SendsCallback(h)
    <3>1. PICK o : o = GetVMOutput(h)
      OBVIOUS
    <3>2. EndTransaction(o, l)
      BY <1>1, <1>2, <1>9, <2>10, <3>1 DEF callSCMethod
    <3>3. o.gasRemaining \in Nat
      BY <1>5, <3>1, SuccessOutput DEF VMOutputOf
    <3>4. o.err = "Ok" => o.gasRemaining = left
      BY <1>5, <2>3, <3>1, FinalOutput DEF Final
    <3>5. ASSUME o.err = "Ok", Inside(l)
          PROVE  \A a \in Accounts :
                    l.burnt[a] = (IF a \in DOMAIN o.host.output.accounts
                                  THEN o.host.output.accounts[a].gasUsed ELSE 0)
      <4>1. Carriers(h.output) = {}
        BY <2>4, <3>5 DEF Sends
      <4> QED
        BY <1>5, <1>6, <1>7, <2>3, <2>4, <3>1, <3>5, <4>1, OutputAttributed
    <3>6. Settles(o, l, gas)
      BY <1>7, <2>9, <3>4, <3>5 DEF Settles
    <3> QED
      BY <1>1, <1>3, <1>6, <3>2, <3>3, <3>6, SettledResult
  <2>11. CASE SendsCallback(h)
    <3>1. CanTransferValue(h, h.runtime.caller, h.runtime.scAddress,
                           h.runtime.callValue, FALSE)
      BY <1>1, <1>9, <2>11 DEF CallError
    <3>2. PICK g, k : /\ g = sendCallbackToCurrentCaller(h)
                      /\ k = [l EXCEPT !.forwarded = @ + left]
      OBVIOUS
    <3>3. IsHost(g)
      BY <1>5, <3>1, <3>2, CallbackSent DEF KeptHere, Kept
    <3>4. PICK o : o = GetVMOutput(g)
      OBVIOUS
    <3>5. EndTransaction(o, k)
      BY <1>1, <1>2, <1>9, <2>3, <2>11, <3>2, <3>4 DEF callSCMethod
    <3>6. o.gasRemaining \in Nat
      BY <3>3, <3>4, SuccessOutput DEF VMOutputOf
    <3>7. /\ g.metering = m /\ g.runtime.scAddress = s /\ GetPointsUsed(g) = p + left
          /\ GasLeft(g) = 0 /\ (left = 0 => Carriers(g.output) \subseteq Carriers(h.output))
      <4>1. 1 \in Nat \ {0}
        OBVIOUS
      <4> QED
        BY <1>5, <2>3, <2>4, <3>2, <3>3, <4>1, CallbackForwards
    <3>8. o.err = "Ok" => o.gasRemaining = 0
      BY <3>3, <3>4, <3>7, FinalOutput DEF Final
    <3>9. ForwardedFrom(k, l, left)
      BY <1>7, <2>5, <3>2, Forwarding
    <3>10. /\ IsBook(k) /\ Spent(k) = Spent(l) + left /\ k.burnt = l.burnt /\ Grows(k, l)
           /\ k.forwarded = l.forwarded + left /\ k.unfunded = l.unfunded
           /\ k.unchecked = l.unchecked
      BY <3>9 DEF ForwardedFrom
    <3>11. Sound(k) => Sound(l)
      BY <3>10 DEF Sound
    <3>12. Sound(k) => Spent(k) + 0 = gas
      BY <1>6, <2>9, <3>10, <3>11
    <3>13. ASSUME o.err = "Ok", Inside(k)
           PROVE  \A a \in Accounts :
                     k.burnt[a] = (IF a \in DOMAIN o.host.output.accounts
                                   THEN o.host.output.accounts[a].gasUsed ELSE 0)
      <4>1. left = 0 /\ l.forwarded = 0
        BY <1>7, <2>5, <3>10, <3>13 DEF Inside, IsBook
      <4>2. Inside(l)
        BY <3>11, <3>13, <4>1 DEF Inside
      <4>3. Carriers(g.output) = {}
        BY <2>4, <3>7, <4>1, <4>2 DEF Sends
      <4>4. GetPointsUsed(g) = p /\ Spent(k) = Spent(l)
        BY <2>5, <2>8, <3>7, <3>10, <4>1
      <4>5. Grows(k, EmptyLedger)
        BY <1>7, <2>4, <3>10, EmptyBook, GrowsTransitive DEF Accounted
      <4>6. Accounted(k, EmptyLedger, m, p, s, 0)
        <5>1. Sound(l) /\ Spent(l) + 0 = Spent(EmptyLedger) + m.initialCost + p
          BY <2>4, <4>2 DEF Accounted, Inside
        <5>2. \A a \in Accounts \ {s} : k.burnt[a] = EmptyLedger.burnt[a] + GasUsedBy(m, a)
          BY <2>4, <3>10, <4>2 DEF Accounted
        <5> QED
          BY <4>4, <4>5, <5>1, <5>2 DEF Accounted
      <4>7. s \in Contracts /\ Provided(m, gas)
        BY <2>4
      <4> QED
        BY <1>6, <3>3, <3>4, <3>7, <3>10, <3>13, <4>3, <4>4, <4>6, <4>7, OutputAttributed
    <3>14. Settles(o, k, gas)
      BY <3>8, <3>10, <3>12, <3>13 DEF Settles
    <3> QED
      BY <1>1, <1>3, <1>6, <3>5, <3>6, <3>14, SettledResult
  <2> QED
    BY <2>10, <2>11
<1> QED
  BY <1>8, <1>9

-----------------------------------------------------------------------------
(* The invariant of the specification.                                      *)

LEMMA InitialGas == Init => GasInv
  BY EmptyBook DEF Init, GasInv, GasConserved, GasAttributed

LEMMA EEICallSpends ==
    ASSUME VMInv, GasInv, EEICall PROVE Arrives
<1>1. ASSUME NEW value \in StorageValues, StorageStore(value) PROVE Arrives
  BY <1>1, StorageStoreSpends
<1>2. ASSUME BigIntNew PROVE Arrives
  BY <1>2, BigIntNewSpends
<1>3. ASSUME SignalError PROVE Arrives
  BY <1>3, SignalErrorSpends
<1>4. ASSUME NEW dest \in Accounts, NEW g \in GasLimits, NEW v \in CallValues,
             NEW init \in BOOLEAN, ExecuteOnDestContext(dest, g, v, init)
      PROVE  Arrives
  BY <1>4, ExecuteOnDestContextSpends
<1>5. ASSUME NEW dest \in Accounts, NEW g \in GasLimits, NEW v \in CallValues,
             ExecuteOnSameContext(dest, g, v)
      PROVE  Arrives
  BY <1>5, ExecuteOnSameContextSpends
<1>6. ASSUME NEW dest \in Accounts, NEW g \in GasLimits, NEW v \in CallValues,
             NEW function \in BOOLEAN, TransferValueExecute(dest, g, v, function)
      PROVE  Arrives
  BY <1>6, TransferValueExecuteSpends
<1>7. ASSUME NEW dest \in Accounts, NEW g \in GasLimits, NEW function \in BOOLEAN,
             TransferESDTExecute(dest, g, function)
      PROVE  Arrives
  BY <1>7, TransferESDTExecuteSpends
<1>8. ASSUME NEW dest \in Accounts, NEW g \in GasLimits, NEW andCall \in BOOLEAN,
             ExecuteBuiltinFunction(dest, g, andCall)
      PROVE  Arrives
  BY <1>8, ExecuteBuiltinFunctionSpends
<1>9. ASSUME NEW dest \in Accounts, NEW v \in Nat, NEW builtIn, NEW andCall,
             AsyncCall(dest, v, builtIn, andCall)
      PROVE  Arrives
  BY <1>9, AsyncCallSpends
<1>10. CallValues \subseteq Nat /\ 0 \in Nat
  BY HostAssumption
<1> QED
  BY <1>1, <1>2, <1>3, <1>4, <1>5, <1>6, <1>7, <1>8, <1>9, <1>10 DEF EEICall

\* A step of an execution spends gas that was there; the others begin or end
\* a transaction, or change nothing.
LEMMA StepSpends ==
    ASSUME VMInv, GasInv, Next
    PROVE  \/ Arrives
           \/ GasInv' /\ exit = "idle"
           \/ GasInv' /\ exit' = "idle"
<1>1. CASE Opcode
  BY <1>1, OpcodeSpends
<1>2. CASE OutOfGas \/ Return
  BY <1>2, ContractStopsSpending
<1>3. CASE EEICall
  BY <1>3, EEICallSpends
<1>4. CASE FinishDestCall
  BY <1>4, FinishDestCallSpends
<1>5. CASE FinishTransferExecute
  BY <1>5, FinishTransferExecuteSpends
<1>6. CASE FinishESDTExecute
  BY <1>6, FinishESDTExecuteSpends
<1>7. CASE FinishSameContext
  BY <1>7, FinishSameContextSpends
<1>8. CASE FinishAsyncDestination
  BY <1>8, FinishAsyncDestinationSpends
<1>9. CASE FinishCallback
  BY <1>9, FinishCallbackSpends
<1>10. CASE FinishTransaction
  <2>1. exit' = "idle"
    BY <1>10 DEF FinishTransaction, callSCMethod, EndTransaction
  <2> QED
    BY <1>10, <2>1, FinishTransactionSettles
<1>11. ASSUME NEW input \in TxInputs, doRunSmartContractCall(input)
       PROVE  GasInv' /\ exit = "idle"
  <2>1. exit = "idle"
    BY <1>11 DEF doRunSmartContractCall
  <2> QED
    BY <1>11, <2>1, TransactionReached
<1>12. CASE NoMoreTransactions
  BY <1>12 DEF NoMoreTransactions, vars, GasInv, GasConserved, GasAttributed
<1> QED
  BY <1>1, <1>2, <1>3, <1>4, <1>5, <1>6, <1>7, <1>8, <1>9, <1>10, <1>11, <1>12
     DEF Next, Execution, Finish

LEMMA GasStep ==
    ASSUME VMInv, GasInv, [Next]_vars PROVE GasInv'
<1>1. ASSUME vars' = vars PROVE GasInv'
  BY <1>1 DEF vars, GasInv, GasConserved, GasAttributed
<1>2. Arrives => GasInv'
  <2>1. PICK gas : gas = GasNow
    OBVIOUS
  <2> QED
    BY <2>1, ReachedKeeps DEF Arrives
<1> QED
  BY <1>1, <1>2, StepSpends

(* At every step of any transaction, and for every execution in progress,   *)
(* the points used, the gas locked, the gas of the calls in progress and the *)
(* gas used by accounts agree with what the ledger says was burnt, forwarded *)
(* and sent unfunded.                                                       *)
THEOREM GasInvariant == Spec => []GasInv
<1>1. VMInv /\ GasInv /\ [Next]_vars => GasInv'
  BY GasStep
<1> QED
  BY <1>1, InitialGas, VMInvariant, PTL DEF Spec

(* Gas is conserved, whatever contracts there are, however deep they call    *)
(* each other, whatever fails, locks gas or calls back: when a transaction   *)
(* that sent no uncharged gas succeeds, the gas burnt by code, the gas       *)
(* forwarded to other shards and the gas that remains are the gas provided   *)
(* (GetVMOutput, checkGas and RestoreGas of the metering context).          *)
THEOREM GasIsConserved == Spec => []GasConserved
<1>1. GasInv => GasConserved
  BY DEF GasInv
<1> QED
  BY <1>1, GasInvariant, PTL

(* When no gas leaves the shard, GasUsed of every output account is the gas  *)
(* burnt by the code of that account, although contracts call each other     *)
(* recursively, share metering frames and merge them when they return        *)
(* (updateSCGasUsed, addToGasUsedByAccounts, setGasUsedToOutputAccounts).   *)
THEOREM GasIsAttributed == Spec => []GasAttributed
<1>1. GasInv => GasAttributed
  BY DEF GasInv
<1> QED
  BY <1>1, GasInvariant, PTL

LEMMA AvailableNow ==
    VMInv /\ exit # "idle" => AvailableGas = Available(host, exit, frames)
  BY AvailableIs

LEMMA AvailableNext ==
    (VMInv /\ exit # "idle" => AvailableGas = Available(host, exit, frames))'
  BY AvailableNow, PTL

(* No step of an execution mints gas: no call, callback, failure or          *)
(* restoration of gas increases what the running contract, its suspended     *)
(* callers and their locked callbacks can still spend.                      *)
THEOREM GasIsNeverMinted == Spec => GasNeverMinted
<1>1. ASSUME VMInv, GasInv, Next, exit # "idle", exit' # "idle"
      PROVE  AvailableGas' <= AvailableGas
  <2>1. Arrives
    BY <1>1, StepSpends
  <2>2. VMInv'
    BY <1>1, StepHolds
  <2>3. AvailableGas = GasNow
    BY <1>1, AvailableIs DEF GasNow
  <2>4. AvailableGas' = Available(host', exit', frames')
    BY <1>1, <2>2, AvailableNext
  <2> QED
    BY <2>1, <2>3, <2>4 DEF Arrives, Reached
<1>2. VMInv /\ GasInv /\ [Next]_vars
          => [exit # "idle" /\ exit' # "idle" => AvailableGas' <= AvailableGas]_vars
  BY <1>1
<1> QED
  BY <1>2, VMInvariant, GasInvariant, PTL DEF Spec, GasNeverMinted

=============================================================================
