--------------------------- MODULE PromisesProofs ---------------------------
(***************************************************************************)
(* The invariants of AsyncPromises, for any number of contexts and calls,  *)
(* any amounts of gas and any schedule of answers.                         *)
(*                                                                         *)
(* The gas needs what the two folds over the calls compute: the sum of     *)
(* what was asked for, which is exact unless its error is set, and the sum *)
(* of the limits, which is that sum and the shares.  The calls need to     *)
(* know when the record of the pending ones is all of them, and why a call *)
(* of this shard that stayed pending is never sent: it took all the gas.   *)
(***************************************************************************)
EXTENDS AsyncPromises, SumProofs

Call == [ctx : Identifiers, dest : Local \cup Remote, provided : ProvidedGas,
         limit : Nat, status : {"Pending", "Resolved"}]

GhostType == [txGas : Nat, spent : Nat, forwarded : Nat,
              ran : SUBSET Nat, answered : SUBSET Nat, refused : SUBSET Nat]

PromisesTypes ==
    /\ phase \in {"code", "locals", "pending", "idle", "failed"}
    /\ entry \in Entries
    /\ calls \in Seq(Call)
    /\ gas \in Nat
    /\ calledBack \in Nat
    /\ ghost \in GhostType

Waiting == PendingOf(calls)

\* Before the pending calls are sent, nothing of the transaction has left
\* the shard, and nothing has been answered.
Nowhere ==
    /\ record = {} /\ inflight = {} /\ plain = {}
    /\ calledBack = 0
    /\ ghost.forwarded = 0 /\ ghost.answered = {} /\ ghost.refused = {}
    /\ gas + ghost.spent = ghost.txGas

\* A call was executed if and only if its callback has been run; one of this
\* shard that was executed and is pending has taken all the gas.
Executed ==
    /\ \A i \in Ids : calls[i].status = "Resolved" => i \in ghost.ran
    /\ todo \subseteq SyncCalls(Ids)
    /\ \A i \in SyncCalls(Ids) \ todo : i \in Waiting => gas = 0

\* The record is all that was pending or nothing, and it stays while a call
\* is unanswered; a callback can only have called another shard and left the
\* record if there are two calls in it.
Recorded ==
    /\ \A i \in Ids : calls[i].status = "Resolved" => i \in ghost.ran
    /\ record \in {{}, Waiting}
    /\ inflight \subseteq record
    /\ Waiting \subseteq inflight \cup ghost.answered \cup ghost.refused
    /\ plain # {} => \A i \in record : record # {i}
    /\ calledBack <= 1
    /\ calledBack = 1 => record = {} /\ Waiting \subseteq ghost.answered
    /\ gas + ghost.spent + ghost.forwarded <= ghost.txGas

PromisesInv ==
    /\ PromisesTypes
    /\ phase # "idle" => record = {} /\ inflight = {} /\ plain = {} /\ calledBack = 0
    /\ phase = "code" => Nowhere /\ todo = {} /\ Waiting = Ids
    /\ phase = "locals" => Nowhere /\ Executed
    /\ phase = "pending" => Nowhere /\ Executed /\ todo = {}
    /\ phase = "idle" => Recorded

-----------------------------------------------------------------------------
(* The gas of the calls.                                                    *)

Asked == [i \in Ids |-> Provided(i)]

LEMMA CallsTyped ==
    ASSUME PromisesTypes
    PROVE  /\ IsFiniteSet(Ids) /\ Ids \subseteq Nat \ {0}
           /\ \A i \in Ids : calls[i] \in Call /\ Provided(i) \in 0 .. GasModulus - 1
<1>1. Ids = 1 .. Len(calls) /\ Len(calls) \in Nat
  BY DEF PromisesTypes, Ids
<1>2. \A i \in Ids : calls[i] \in Call
  BY <1>1 DEF PromisesTypes
<1>3. \A i \in Ids : Provided(i) \in ProvidedGas
  BY <1>2 DEF Provided, Call
<1>4. IsFiniteSet(Ids)
  <2>1. 1 \in Int /\ Len(calls) \in Int
    BY <1>1
  <2> QED
    BY <1>1, <2>1, FS_Interval
<1>5. Ids \subseteq Nat \ {0}
  BY <1>1
<1>6. \A i \in Ids : Provided(i) \in 0 .. GasModulus - 1
  BY <1>3, PromisesAssumption
<1> QED
  BY <1>2, <1>4, <1>5, <1>6

(* A sum of two words is exact unless AddUint64WithErr reports an error. *)
LEMMA AddExact ==
    ASSUME NEW m \in Nat \ {0}, NEW a \in 0 .. m - 1, NEW b \in 0 .. m - 1
    PROVE  LET s == AddUint64WithErr(m, a, b)
           IN  s.res \in 0 .. m - 1 /\ s.err \in BOOLEAN /\ (~s.err => s.res = a + b)
<1> DEFINE r == (a + b) % m
           q == (a + b) \div m
<1>0. a + b \in Nat /\ a + b < 2 * m
  OBVIOUS
<1>1. r \in 0 .. m - 1
  BY <1>0
<1>2. r = a + b \/ r = a + b - m
  <2>1. q \in Int /\ a + b = m * q + r
    BY <1>0
  <2>2. q < 2 /\ q >= 0
    BY <1>0, <1>1, <2>1
  <2>3. q = 0 \/ q = 1
    BY <2>1, <2>2
  <2> QED
    BY <1>1, <2>1, <2>3
<1>3. r >= a => r = a + b
  BY <1>1, <1>2
<1> QED
  BY <1>1, <1>3 DEF AddUint64WithErr, WrapUnsigned

Amounts == [res : 0 .. GasModulus - 1, err : BOOLEAN]

Totalled(i, acc) ==
    LET s == AddUint64WithErr(GasModulus, acc.res, Provided(i))
    IN  [res |-> s.res, err |-> acc.err \/ s.err]

LEMMA TotalledType ==
    ASSUME PromisesTypes, NEW i \in Ids, NEW acc \in Amounts
    PROVE  /\ Totalled(i, acc) \in Amounts
           /\ ~Totalled(i, acc).err =>
                ~acc.err /\ Totalled(i, acc).res = acc.res + Provided(i)
<1>1. acc.res \in 0 .. GasModulus - 1 /\ acc.err \in BOOLEAN
  BY DEF Amounts
<1>2. Provided(i) \in 0 .. GasModulus - 1 /\ GasModulus \in Nat \ {0}
  BY CallsTyped, PromisesAssumption
<1> DEFINE s == AddUint64WithErr(GasModulus, acc.res, Provided(i))
<1>3. s.res \in 0 .. GasModulus - 1 /\ s.err \in BOOLEAN
      /\ (~s.err => s.res = acc.res + Provided(i))
  BY <1>1, <1>2, AddExact
<1> HIDE DEF s
<1>4. Totalled(i, acc) = [res |-> s.res, err |-> acc.err \/ s.err]
  BY DEF Totalled, s
<1> QED
  BY <1>1, <1>3, <1>4 DEF Amounts

(* GasNeeded is the value of a function that adds along the subsets. *)
LEMMA NeededFolds ==
    ASSUME PromisesTypes, NEW I \in SUBSET Ids
    PROVE  \E g \in [SUBSET I -> Amounts] :
              /\ GasNeeded(I) = g[I]
              /\ g[{}] = [res |-> 0, err |-> FALSE]
              /\ \A s \in SUBSET I : s # {} => g[s] = Totalled(First(s), g[Rest(s)])
<1> DEFINE op == [p \in I \X Amounts |-> Totalled(p[1], p[2])]
           base == [res |-> 0, err |-> FALSE]
<1>1. IsFiniteSet(I)
  BY CallsTyped, FS_Subset
<1>2. op \in [I \X Amounts -> Amounts]
  BY TotalledType
<1>3. base \in Amounts
  BY PromisesAssumption DEF Amounts
<1> HIDE DEF op, base
<1>4. PICK g : IsFold(g, op, base, I, Amounts)
  BY <1>1, <1>2, <1>3, FoldExists, Zenon
<1>5. g \in [SUBSET I -> Amounts] /\ g[{}] = base
  BY <1>4 DEF IsFold, FoldEquation
<1>6. \A s \in SUBSET I : s # {} => First(s) \in I /\ Rest(s) \in SUBSET I
  BY <1>1, FS_Subset, RestSmaller
<1>7. ASSUME NEW s \in SUBSET I, s # {} PROVE g[s] = Totalled(First(s), g[Rest(s)])
  <2>1. g[s] = op[First(s), g[Rest(s)]]
    BY <1>4, <1>7 DEF IsFold, FoldEquation
  <2> QED
    BY <1>5, <1>6, <1>7, <2>1 DEF op
<1> DEFINE Equation(f) == f = [s \in SUBSET I |-> IF s = {} THEN base
                                 ELSE Totalled(CHOOSE x \in s : TRUE,
                                               f[s \ {CHOOSE x \in s : TRUE}])]
           iter == CHOOSE f : Equation(f)
<1>8. Equation(g)
  BY <1>5, <1>7 DEF First, Rest
<1>9. Equation(iter)
  BY <1>8
<1>10. GasNeeded(I) = iter[I]
  BY DEF GasNeeded, FoldSet, MapThenFoldSet, Totalled, base
<1> HIDE DEF iter
<1>11. /\ iter[{}] = base
       /\ \A s \in SUBSET I : s # {} => iter[s] = Totalled(First(s), iter[Rest(s)])
  BY <1>9 DEF First, Rest
<1>12. g[{}] = iter[{}]
  BY <1>5, <1>11
<1>13. \A s \in SUBSET I : s # {} /\ g[Rest(s)] = iter[Rest(s)] => g[s] = iter[s]
  BY <1>7, <1>11
<1>14. \A s \in SUBSET I : g[s] = iter[s]
  BY <1>1, <1>12, <1>13, SameOnSubsets
<1>15. GasNeeded(I) = g[I]
  BY <1>10, <1>14
<1> QED
  BY <1>5, <1>7, <1>15 DEF base

(* Unless its error is set, it is the sum of what was asked for. *)
LEMMA NeededIsSum ==
    ASSUME PromisesTypes, NEW I \in SUBSET Ids
    PROVE  /\ GasNeeded(I) \in Amounts
           /\ ~GasNeeded(I).err => GasNeeded(I).res = SumFunctionOnSet(Asked, I)
<1>1. PICK g \in [SUBSET I -> Amounts] :
              /\ GasNeeded(I) = g[I]
              /\ g[{}] = [res |-> 0, err |-> FALSE]
              /\ \A s \in SUBSET I : s # {} => g[s] = Totalled(First(s), g[Rest(s)])
  BY NeededFolds
<1>2. IsFiniteSet(I) /\ \A i \in I : Asked[i] = Provided(i) /\ Asked[i] \in Int
  BY CallsTyped, FS_Subset DEF Asked
<1>3. PICK f : /\ IsSum(f, Asked, I)
               /\ \A T \in SUBSET I : SumFunctionOnSet(Asked, T) = f[T]
  BY <1>2, SumsAreOneFunction
<1> DEFINE Exact(s) == ~g[s].err => g[s].res = f[s]
           P == {s \in SUBSET I : Exact(s)}
<1>4. Exact({})
  BY <1>1, <1>3 DEF IsSum
<1>5. ASSUME NEW s \in SUBSET I, s # {}, \A x \in s : s \ {x} \in P
      PROVE  Exact(s)
  <2>1. First(s) \in s
    BY <1>5 DEF First
  <2>2. First(s) \in I /\ First(s) \in Ids /\ Rest(s) \in SUBSET I
    BY <2>1 DEF Rest
  <2>3. Exact(Rest(s))
    BY <1>5, <2>1 DEF Rest
  <2>4. g[s] = Totalled(First(s), g[Rest(s)]) /\ g[Rest(s)] \in Amounts
    BY <1>1, <1>5, <2>2
  <2>5. ~g[s].err => ~g[Rest(s)].err /\ g[s].res = g[Rest(s)].res + Provided(First(s))
    BY <2>2, <2>4, TotalledType
  <2>6. f[s] = Asked[First(s)] + f[Rest(s)] /\ f[Rest(s)] \in Int
    BY <1>3, <1>5, <2>2 DEF IsSum
  <2>7. Asked[First(s)] = Provided(First(s)) /\ Asked[First(s)] \in Int
    BY <1>2, <2>2
  <2> QED
    BY <2>3, <2>5, <2>6, <2>7
<1> HIDE DEF Exact
<1>6. {} \in P
  BY <1>4
<1>7. \A s \in SUBSET I : s # {} /\ (\A x \in s : s \ {x} \in P) => s \in P
  BY <1>5
<1> HIDE DEF P
<1>8. \A s \in SUBSET I : s \in P
  BY <1>2, <1>6, <1>7, SubsetInduction
<1>9. Exact(I)
  BY <1>8 DEF P
<1>10. GasNeeded(I) \in Amounts
  BY <1>1
<1> QED
  BY <1>1, <1>3, <1>9, <1>10 DEF Exact

(* Without gas no call gets any: setupAsyncCallsGas fails. *)
LEMMA NothingToShare ==
    ASSUME PromisesTypes, NEW I \in SUBSET Ids, I # {}
    PROVE  SetupFails(I, 0)
<1>1. GasNeeded(I).res \in Nat /\ (~GasNeeded(I).err => GasNeeded(I).res = SumFunctionOnSet(Asked, I))
  BY NeededIsSum, PromisesAssumption DEF Amounts
<1>2. CASE ZeroGas(I) # {}
  BY <1>1, <1>2 DEF SetupFails
<1>3. CASE ZeroGas(I) = {} /\ ~GasNeeded(I).err
  <2>1. IsFiniteSet(I) /\ \A i \in I : Asked[i] = Provided(i) /\ Asked[i] \in Nat
    BY CallsTyped, FS_Subset DEF Asked
  <2>2. PICK i \in I : TRUE
    OBVIOUS
  <2>3. Asked[i] \in Nat /\ Asked[i] # 0
    BY <1>3, <2>1 DEF ZeroGas
  <2>4. \A j \in I : Asked[j] \in Int
    BY <2>1
  <2>5. SumFunctionOnSet(Asked, I) = Asked[i] + SumFunctionOnSet(Asked, I \ {i})
    BY <2>1, <2>4, SumRemove
  <2>6. SumFunctionOnSet(Asked, I \ {i}) \in Nat
    <3>1. I \ {i} \in SUBSET I
      OBVIOUS
    <3> QED
      BY <2>1, <3>1, SumOfPart
  <2> QED
    BY <1>1, <1>3, <2>3, <2>5, <2>6 DEF SetupFails
<1> QED
  BY <1>2, <1>3 DEF SetupFails

(* The limits that setupAsyncCallsGas gives add up to no more than there is. *)
Limits(cs, I) == [i \in I |-> cs[i].limit]

LEMMA Division ==
    ASSUME NEW n \in Nat, NEW d \in Nat \ {0}
    PROVE  n \div d \in Nat /\ (n \div d) * d <= n
  BY SMT

LEMMA Shared ==
    ASSUME PromisesTypes, NEW I \in SUBSET Ids, NEW left \in Nat, ~SetupFails(I, left)
    PROVE  LET cs == setupAsyncCallsGas(I, left)
           IN  /\ \A i \in I : cs[i].limit \in Nat
               /\ SumFunctionOnSet(Limits(cs, I), I) <= left
<1> DEFINE cs == setupAsyncCallsGas(I, left)
           w == Limits(cs, I)
           needed == GasNeeded(I).res
           share == GasShare(I, left)
           Z == ZeroGas(I)
<1>1. needed \in Nat /\ needed = SumFunctionOnSet(Asked, I) /\ needed <= left
  BY NeededIsSum, PromisesAssumption DEF Amounts, SetupFails
<1>2. IsFiniteSet(I) /\ \A i \in I : Asked[i] = Provided(i) /\ Asked[i] \in Nat
  BY CallsTyped, FS_Subset DEF Asked
<1>3. Z \subseteq I /\ IsFiniteSet(Z) /\ Cardinality(Z) \in Nat /\ (Z # {} => Cardinality(Z) # 0)
  BY <1>2, FS_Subset, FS_CardinalityType, FS_EmptySet DEF ZeroGas
<1>4. Z # {} => share \in Nat /\ share * Cardinality(Z) <= left - needed
  <2>1. Z # {} => left - needed \in Nat /\ Cardinality(Z) \in Nat \ {0}
    BY <1>1, <1>3
  <2> QED
    BY <2>1, Division DEF GasShare
<1>5. ASSUME NEW i \in I
      PROVE  /\ i \notin Z => w[i] = Asked[i] /\ Asked[i] \in Nat
             /\ i \in Z => w[i] = share /\ Asked[i] = 0
  <2>1. cs[i] = [calls[i] EXCEPT !.limit = IF Provided(i) # 0 THEN Provided(i) ELSE share]
    BY DEF setupAsyncCallsGas
  <2>2. calls[i] \in Call
    BY CallsTyped
  <2>3. cs[i].limit = IF Provided(i) # 0 THEN Provided(i) ELSE share
    BY <2>1, <2>2 DEF Call
  <2>4. w[i] = cs[i].limit
    BY DEF Limits
  <2> QED
    BY <1>2, <2>3, <2>4 DEF ZeroGas
<1>6. \A i \in I : w[i] = cs[i].limit
  BY DEF Limits
<1> HIDE DEF cs, w, needed, share, Z
<1>7. \A i \in I : w[i] \in Nat
  BY <1>4, <1>5
<1>8. PICK f : IsSum(f, Asked, I) /\ \A T \in SUBSET I : SumFunctionOnSet(Asked, T) = f[T]
  <2>1. \A i \in I : Asked[i] \in Int
    BY <1>2
  <2> QED
    BY <1>2, <2>1, SumsAreOneFunction
<1>9. PICK g : IsSum(g, w, I) /\ \A T \in SUBSET I : SumFunctionOnSet(w, T) = g[T]
  <2>1. \A i \in I : w[i] \in Int
    BY <1>7
  <2> QED
    BY <1>2, <2>1, SumsAreOneFunction
<1>10. PICK part \in Nat : /\ part * Cardinality(Z) <= left - needed
                           /\ \A i \in Z : w[i] = part
  <2>1. CASE Z = {}
    <3>1. 0 * Cardinality(Z) = 0 /\ 0 \in Nat /\ 0 <= left - needed
      BY <1>1, <1>3
    <3> QED
      BY <2>1, <3>1
  <2>2. CASE Z # {}
    BY <1>3, <1>4, <1>5, <2>2
  <2> QED
    BY <2>1, <2>2
<1> DEFINE Adds(s) == g[s] = f[s] + part * Cardinality(s \cap Z)
           P == {s \in SUBSET I : Adds(s)}
<1>11. Adds({})
  <2>1. Cardinality({}) = 0 /\ {} \cap Z = {}
    BY FS_EmptySet
  <2>2. f[{}] = 0 /\ g[{}] = 0
    BY <1>8, <1>9 DEF IsSum
  <2>3. part * 0 = 0
    BY <1>10
  <2> QED
    BY <2>1, <2>2, <2>3
<1>12. ASSUME NEW s \in SUBSET I, s # {}, \A x \in s : s \ {x} \in P
       PROVE  Adds(s)
  <2> DEFINE x == First(s)
             t == s \ {x}
             n == Cardinality(t \cap Z)
  <2>1. x \in s /\ x \in I /\ t \in SUBSET I /\ t = Rest(s)
    BY <1>12 DEF First, Rest
  <2>2. f[s] = Asked[x] + f[t] /\ g[s] = w[x] + g[t]
    BY <1>8, <1>9, <1>12, <2>1 DEF IsSum
  <2>3. Adds(t)
    BY <1>12, <2>1
  <2>4. f[t] \in Int /\ g[t] \in Int /\ Asked[x] \in Nat
    BY <1>2, <1>8, <1>9, <2>1 DEF IsSum
  <2>5. IsFiniteSet(t \cap Z) /\ n \in Nat
    BY <1>3, FS_Subset, FS_CardinalityType
  <2>6. g[t] = f[t] + part * n
    BY <2>3
  <2> HIDE DEF n
  <2>7. CASE x \notin Z
    <3>1. s \cap Z = t \cap Z
      BY <2>7
    <3>2. w[x] = Asked[x]
      BY <1>5, <2>1, <2>7
    <3>3. Cardinality(s \cap Z) = n
      BY <3>1 DEF n
    <3>4. part * n \in Int
      BY <1>10, <2>5
    <3> HIDE DEF x, t
    <3>5. w[x] + (f[t] + part * n) = (Asked[x] + f[t]) + part * n
      BY <2>4, <3>2, <3>4
    <3> QED
      BY <2>2, <2>6, <3>3, <3>5
  <2>8. CASE x \in Z
    <3>1. s \cap Z = (t \cap Z) \cup {x} /\ x \notin t \cap Z
      BY <2>1, <2>8
    <3>2. w[x] = part /\ Asked[x] = 0
      BY <1>5, <1>10, <2>1, <2>8
    <3>3. Cardinality(s \cap Z) = n + 1
      BY <2>5, <3>1, FS_AddElement DEF n
    <3>4. part * (n + 1) = part * n + part /\ part * n \in Int
      BY <1>10, <2>5
    <3> HIDE DEF x, t
    <3>5. part + (f[t] + part * n) = (0 + f[t]) + (part * n + part)
      BY <1>10, <2>4, <3>4
    <3> QED
      BY <2>2, <2>6, <3>2, <3>3, <3>4, <3>5
  <2> QED
    BY <2>7, <2>8
<1> HIDE DEF Adds
<1>13. {} \in P
  BY <1>11
<1>14. \A s \in SUBSET I : s # {} /\ (\A x \in s : s \ {x} \in P) => s \in P
  BY <1>12
<1> HIDE DEF P
<1>15. \A s \in SUBSET I : s \in P
  BY <1>2, <1>13, <1>14, SubsetInduction
<1>16. g[I] = f[I] + part * Cardinality(I \cap Z)
  BY <1>15 DEF P, Adds
<1>17. I \cap Z = Z
  BY <1>3
<1>18. part * Cardinality(Z) \in Nat
  BY <1>3, <1>10
<1>19. g[I] <= left
  <2>1. f[I] = needed
    BY <1>1, <1>8
  <2>2. g[I] = needed + part * Cardinality(Z)
    BY <1>16, <1>17, <2>1
  <2> HIDE DEF P
  <2> QED
    BY <1>1, <1>10, <1>18, <2>2
<1>20. SumFunctionOnSet(w, I) <= left
  BY <1>9, <1>19
<1>21. \A i \in I : cs[i].limit \in Nat
  BY <1>6, <1>7
<1> QED
  BY <1>20, <1>21 DEF w, cs

(* So do those of the calls that are sent. *)
LEMMA SentLimits ==
    ASSUME PromisesTypes, NEW I \in SUBSET Ids, NEW O \in SUBSET I,
           NEW left \in Nat, ~SetupFails(I, left)
    PROVE  LET sum == SumLimits(setupAsyncCallsGas(I, left), O)
           IN  sum \in Nat /\ sum <= left
<1> DEFINE cs == setupAsyncCallsGas(I, left)
           w == Limits(cs, I)
           v == [i \in O |-> cs[i].limit]
<1>1. /\ \A i \in I : cs[i].limit \in Nat
      /\ SumFunctionOnSet(w, I) <= left
  BY Shared
<1>2. IsFiniteSet(I) /\ IsFiniteSet(O)
  BY CallsTyped, FS_Subset
<1> HIDE DEF cs
<1>3. \A i \in I : w[i] = cs[i].limit /\ w[i] \in Nat
  BY <1>1 DEF Limits
<1>4. \A i \in O : v[i] = w[i] /\ w[i] \in Int
  BY <1>3
<1>5. SumLimits(cs, O) = SumFunctionOnSet(v, O)
  BY DEF SumLimits, SumFunction
<1> HIDE DEF v, w
<1>6. SumFunctionOnSet(v, O) = SumFunctionOnSet(w, O)
  BY <1>2, <1>4, SumSame
<1>7. SumFunctionOnSet(w, O) \in Nat /\ SumFunctionOnSet(w, I) \in Nat
      /\ SumFunctionOnSet(w, O) <= SumFunctionOnSet(w, I)
  BY <1>2, <1>3, SumOfPart
<1>8. SumLimits(cs, O) \in Nat /\ SumLimits(cs, O) <= left
  BY <1>1, <1>5, <1>6, <1>7
<1> QED
  BY <1>8 DEF cs

(* The calls with new limits are the same calls. *)
LEMMA SetupTypes ==
    ASSUME PromisesTypes, NEW I \in SUBSET Ids, NEW left \in Nat, ~SetupFails(I, left)
    PROVE  LET cs == setupAsyncCallsGas(I, left)
           IN  /\ cs \in Seq(Call) /\ DOMAIN cs = Ids
               /\ \A i \in Ids : /\ cs[i].status = calls[i].status
                                 /\ cs[i].dest = calls[i].dest
                                 /\ cs[i].ctx = calls[i].ctx
<1> DEFINE cs == setupAsyncCallsGas(I, left)
<1>1. \A i \in I : cs[i].limit \in Nat
  BY Shared
<1>2. \A i \in Ids : calls[i] \in Call
  BY CallsTyped
<1>3. Ids = 1 .. Len(calls) /\ Len(calls) \in Nat
  BY DEF PromisesTypes, Ids
<1>4. DOMAIN cs = Ids
  BY DEF setupAsyncCallsGas
<1>5. ASSUME NEW i \in Ids
      PROVE  /\ cs[i] \in Call
             /\ cs[i].status = calls[i].status
             /\ cs[i].dest = calls[i].dest
             /\ cs[i].ctx = calls[i].ctx
  <2>1. CASE i \notin I
    <3>1. cs[i] = calls[i]
      BY <2>1 DEF setupAsyncCallsGas
    <3> QED
      BY <1>2, <3>1
  <2>2. CASE i \in I
    <3>1. PICK l : cs[i] = [calls[i] EXCEPT !.limit = l]
      BY <2>2 DEF setupAsyncCallsGas
    <3>2. cs[i].limit \in Nat
      BY <1>1, <2>2
    <3> HIDE DEF cs
    <3> QED
      BY <1>2, <3>1, <3>2 DEF Call
  <2> QED
    BY <2>1, <2>2
<1>6. cs = [i \in 1 .. Len(calls) |-> cs[i]]
  BY <1>3 DEF setupAsyncCallsGas
<1> HIDE DEF cs
<1>7. cs \in Seq(Call)
  BY <1>3, <1>5, <1>6
<1> QED
  BY <1>4, <1>5, <1>7 DEF cs

-----------------------------------------------------------------------------
(* The inductive invariant.                                                 *)

LEMMA PromisesInitially == Init => PromisesInv
<1> SUFFICES ASSUME Init PROVE PromisesInv
  OBVIOUS
<1>1. gas \in Nat
  BY PromisesAssumption DEF Init
<1>2. calls \in Seq(Call) /\ Ids = {}
  BY DEF Init, Ids
<1>3. PromisesTypes
  BY <1>1, <1>2 DEF Init, PromisesTypes, GhostType
<1>4. Nowhere /\ todo = {} /\ Waiting = Ids
  BY <1>1, <1>2 DEF Init, Nowhere, Waiting, PendingOf, Ids
<1> QED
  BY <1>3, <1>4 DEF Init, PromisesInv

(* A transaction that fails leaves nothing behind. *)
LEMMA FailKeeps ==
    ASSUME PromisesInv, phase \in {"code", "locals", "pending"}, Fail
    PROVE  PromisesInv'
<1>1. PromisesTypes /\ Nowhere
  BY DEF PromisesInv
<1>2. ghost' \in GhostType
  <2>1. ghost \in GhostType /\ ghost.spent + gas \in Nat
    BY <1>1 DEF PromisesTypes, GhostType
  <2>2. ghost' = [ghost EXCEPT !.spent = ghost.spent + gas, !.ran = {}]
    BY DEF Fail
  <2> QED
    BY <2>1, <2>2 DEF GhostType
<1>3. calls' \in Seq(Call)
  BY DEF Fail
<1>4. PromisesTypes'
  BY <1>1, <1>2, <1>3 DEF Fail, PromisesTypes
<1> QED
  BY <1>1, <1>4 DEF Fail, PromisesInv, Nowhere

LEMMA CreateKeeps ==
    ASSUME PromisesInv, NEW c \in Identifiers, NEW d \in Local \cup Remote,
           NEW p \in ProvidedGas, CreateAsyncCall(c, d, p)
    PROVE  PromisesInv'
<1> DEFINE call == [ctx |-> c, dest |-> d, provided |-> p, limit |-> 0, status |-> "Pending"]
<1>1. PromisesTypes /\ Nowhere /\ todo = {} /\ Waiting = Ids
  BY DEF PromisesInv, CreateAsyncCall
<1>2. call \in Call /\ call.status = "Pending"
  BY DEF Call
<1>3. calls' = Append(calls, call)
  BY DEF CreateAsyncCall
<1> HIDE DEF call
<1>4. calls' \in Seq(Call) /\ Len(calls') = Len(calls) + 1 /\ Len(calls) \in Nat
  BY <1>1, <1>2, <1>3 DEF PromisesTypes
<1>5. \A i \in DOMAIN calls' : calls'[i] = IF i = Len(calls) + 1 THEN call ELSE calls[i]
  BY <1>1, <1>3, <1>4 DEF PromisesTypes
<1>6. \A i \in DOMAIN calls' : i # Len(calls) + 1 => i \in DOMAIN calls
  BY <1>1, <1>4 DEF PromisesTypes
<1>7. (Waiting = Ids)'
  BY <1>1, <1>2, <1>5, <1>6 DEF Waiting, PendingOf, Ids
<1>8. PromisesTypes'
  BY <1>1, <1>4 DEF CreateAsyncCall, PromisesTypes
<1>9. Nowhere' /\ todo' = {}
  BY <1>1 DEF CreateAsyncCall, Nowhere
<1> QED
  BY <1>7, <1>8, <1>9 DEF CreateAsyncCall, PromisesInv, Nowhere

LEMMA EndOfCodeKeeps ==
    ASSUME PromisesInv, EndOfCode
    PROVE  PromisesInv'
<1>1. PromisesTypes /\ Nowhere /\ todo = {} /\ Waiting = Ids /\ phase = "code"
  BY DEF PromisesInv, EndOfCode
<1>2. Nowhere'
  BY <1>1 DEF EndOfCode, Nowhere
<1>3. CASE Ids = {}
  <2>1. phase' = "pending" /\ calls' = calls /\ todo' = {}
    BY <1>1, <1>3 DEF EndOfCode
  <2>2. Ids' = {}
    BY <1>3, <2>1 DEF Ids
  <2>3. PromisesTypes'
    BY <1>1, <2>1 DEF EndOfCode, PromisesTypes
  <2>4. Executed'
    BY <2>1, <2>2 DEF Executed, SyncCalls
  <2> QED
    BY <1>2, <2>1, <2>3, <2>4 DEF PromisesInv, Nowhere
<1>4. CASE Ids # {}
  <2>1. /\ ~SetupFails(Ids, gas) /\ calls' = setupAsyncCallsGas(Ids, gas)
        /\ phase' = "locals" /\ todo' = SyncCalls(Ids)
    BY <1>4 DEF EndOfCode
  <2>2. /\ calls' \in Seq(Call) /\ DOMAIN calls' = Ids
        /\ \A i \in Ids : /\ calls'[i].status = calls[i].status
                          /\ calls'[i].dest = calls[i].dest
    <3>1. gas \in Nat /\ Ids \in SUBSET Ids
      BY <1>1 DEF PromisesTypes
    <3> QED
      BY <1>1, <2>1, <3>1, SetupTypes
  <2>3. \A i \in Ids : calls[i].status = "Pending"
    BY <1>1 DEF Waiting, PendingOf
  <2>4. Executed'
    <3>1. Ids' = Ids
      BY <2>2 DEF Ids
    <3>2. \A i \in Ids : calls'[i].status # "Resolved"
      BY <2>2, <2>3
    <3>3. SyncCalls(Ids)' = SyncCalls(Ids)
      BY <2>2, <3>1 DEF SyncCalls
    <3> QED
      BY <2>1, <3>1, <3>2, <3>3 DEF Executed
  <2>5. PromisesTypes'
    BY <1>1, <2>1, <2>2 DEF EndOfCode, PromisesTypes
  <2> QED
    BY <1>2, <2>1, <2>4, <2>5 DEF PromisesInv, Nowhere
<1> QED
  BY <1>3, <1>4

LEMMA ProcessKeeps ==
    ASSUME PromisesInv, NEW i \in todo, NEW u \in Uses, NEW v \in Uses,
           NEW ok \in BOOLEAN, ProcessAsyncCall(i, u, v, ok)
    PROVE  PromisesInv'
<1> DEFINE end == CallbackGasLeft(gas - u, v, ok)
<1>1. PromisesTypes /\ Nowhere /\ Executed /\ phase = "locals"
  BY DEF PromisesInv, ProcessAsyncCall, Advance
<1>2. u \in Nat /\ v \in Nat /\ AsyncCallStep \in Nat \ {0} /\ gas \in Nat
  BY <1>1, PromisesAssumption DEF PromisesTypes
<1>3. end \in Nat /\ end <= gas /\ gas # 0
  BY <1>2 DEF ProcessAsyncCall, CallbackGasLeft
<1>4. /\ calls' = [calls EXCEPT ![i].status = "Resolved"]
      /\ gas' = end
      /\ ghost' = [ghost EXCEPT !.spent = @ + (gas - end), !.ran = @ \cup {i}]
      /\ todo' = todo \ {i}
      /\ UNCHANGED <<phase, entry, record, inflight, plain, calledBack>>
  BY DEF ProcessAsyncCall, Advance
<1> HIDE DEF end
<1>5. i \in Ids /\ Ids = 1 .. Len(calls) /\ Ids \subseteq Nat
  BY <1>1 DEF Executed, SyncCalls, PromisesTypes, Ids
<1>6. \A j \in Ids : calls[j] \in Call
  BY <1>1, CallsTyped
<1>7. [calls[i] EXCEPT !.status = "Resolved"] \in Call
  BY <1>5, <1>6 DEF Call
<1>8. calls' \in Seq(Call) /\ Ids' = Ids
  BY <1>1, <1>4, <1>5, <1>6, <1>7 DEF PromisesTypes, Ids
<1>9. \A j \in Ids : /\ calls'[j].dest = calls[j].dest
                     /\ calls'[j].status = IF j = i THEN "Resolved" ELSE calls[j].status
  BY <1>1, <1>4, <1>5, <1>6 DEF PromisesTypes, Call, Ids
<1>10. /\ ghost'.txGas = ghost.txGas /\ ghost'.spent = ghost.spent + (gas - end)
       /\ ghost'.forwarded = ghost.forwarded /\ ghost'.answered = ghost.answered
       /\ ghost'.refused = ghost.refused /\ ghost'.ran = ghost.ran \cup {i}
       /\ ghost' \in GhostType
  <2>1. ghost \in GhostType /\ ghost.spent + (gas - end) \in Nat /\ ghost.ran \cup {i} \in SUBSET Nat
    BY <1>1, <1>2, <1>3, <1>5 DEF PromisesTypes, GhostType
  <2>2. ghost' = [ghost EXCEPT !.spent = ghost.spent + (gas - end), !.ran = ghost.ran \cup {i}]
    BY <1>4
  <2> QED
    BY <2>1, <2>2 DEF GhostType
<1>11. PromisesTypes'
  BY <1>1, <1>3, <1>4, <1>8, <1>10 DEF PromisesTypes
<1>12. Nowhere'
  <2>1. ghost.spent \in Nat /\ ghost.txGas \in Nat /\ gas + ghost.spent = ghost.txGas
    BY <1>1 DEF PromisesTypes, GhostType, Nowhere
  <2>2. gas' + ghost'.spent = ghost'.txGas
    BY <1>2, <1>3, <1>4, <1>10, <2>1
  <2> QED
    BY <1>1, <1>4, <1>10, <2>2 DEF Nowhere
<1>13. Executed'
  <2>1. SyncCalls(Ids)' = SyncCalls(Ids)
    BY <1>8, <1>9 DEF SyncCalls
  <2>2. \A j \in Ids' : calls'[j].status = "Resolved" => j \in ghost'.ran
    BY <1>1, <1>8, <1>9, <1>10 DEF Executed
  <2>3. todo' \subseteq SyncCalls(Ids)
    BY <1>1, <1>4 DEF Executed
  <2>4. ASSUME NEW j \in SyncCalls(Ids) \ todo' PROVE j \notin Waiting'
    <3>1. j \in Ids
      BY DEF SyncCalls
    <3>2. j # i => j \notin Waiting
      BY <1>1, <1>3, <1>4, <2>4 DEF Executed
    <3> QED
      BY <1>8, <1>9, <3>1, <3>2 DEF Waiting, PendingOf, Ids
  <2> QED
    BY <2>1, <2>2, <2>3, <2>4 DEF Executed
<1> QED
  BY <1>1, <1>4, <1>11, <1>12, <1>13 DEF PromisesInv, Nowhere

LEMMA LeftPendingKeeps ==
    ASSUME PromisesInv, NEW i \in todo, ProcessAsyncCallLeftPending(i)
    PROVE  PromisesInv'
<1>1. PromisesTypes /\ Nowhere /\ Executed /\ phase = "locals"
  BY DEF PromisesInv, ProcessAsyncCallLeftPending, Advance
<1>2. /\ gas' = 0 /\ todo' = todo \ {i}
      /\ ghost' = [ghost EXCEPT !.spent = @ + gas]
      /\ UNCHANGED <<phase, entry, calls, record, inflight, plain, calledBack>>
  BY DEF ProcessAsyncCallLeftPending, Advance
<1>3. /\ ghost'.txGas = ghost.txGas /\ ghost'.spent = ghost.spent + gas
      /\ ghost'.forwarded = ghost.forwarded /\ ghost'.answered = ghost.answered
      /\ ghost'.refused = ghost.refused /\ ghost'.ran = ghost.ran
      /\ ghost' \in GhostType
  BY <1>1, <1>2 DEF PromisesTypes, GhostType
<1>4. PromisesTypes'
  BY <1>1, <1>2, <1>3 DEF PromisesTypes
<1>5. Nowhere'
  <2>1. ghost.spent \in Nat /\ gas \in Nat /\ gas + ghost.spent = ghost.txGas
    BY <1>1 DEF PromisesTypes, GhostType, Nowhere
  <2>2. gas' + ghost'.spent = ghost'.txGas
    BY <1>2, <1>3, <2>1
  <2> QED
    BY <1>1, <1>2, <1>3, <2>2 DEF Nowhere
<1>6. Executed'
  BY <1>1, <1>2, <1>3 DEF Executed, SyncCalls, Ids
<1> QED
  BY <1>1, <1>2, <1>4, <1>5, <1>6 DEF PromisesInv, Nowhere

LEMMA EndOfLoopKeeps ==
    ASSUME PromisesInv, EndOfLoop
    PROVE  PromisesInv'
<1>1. PromisesTypes /\ Nowhere /\ Executed /\ phase = "locals"
  BY DEF PromisesInv, EndOfLoop
<1>2. PromisesTypes'
  BY <1>1 DEF PromisesTypes, EndOfLoop
<1>3. Nowhere' /\ Executed' /\ todo' = {}
  BY <1>1 DEF EndOfLoop, Nowhere, Executed, Ids, Waiting, PendingOf, SyncCalls
<1> QED
  BY <1>2, <1>3 DEF PromisesInv, EndOfLoop, Nowhere

(* When the pending calls are sent, none of them is of this shard: one that  *)
(* stayed pending has taken the gas, and without gas nothing is sent.        *)
LEMMA AllSent ==
    ASSUME PromisesInv, SendPending
    PROVE  SyncCalls(Waiting) = {}
<1> DEFINE left == GasAfterSave(Waiting)
<1>1. PromisesTypes /\ Executed /\ todo = {} /\ Waiting # {} /\ ~SetupFails(Waiting, left)
  BY DEF PromisesInv, SendPending, getPendingAsyncCalls, Waiting
<1>2. SUFFICES ASSUME SyncCalls(Waiting) # {} PROVE FALSE
  OBVIOUS
<1>3. Waiting \subseteq Ids
  BY DEF Waiting, PendingOf, Ids
<1>4. PICK i \in SyncCalls(Waiting) : TRUE
  BY <1>2
<1>5. i \in SyncCalls(Ids) \ todo /\ i \in Waiting
  BY <1>1, <1>3 DEF SyncCalls
<1>6. gas = 0
  BY <1>1, <1>5 DEF Executed
<1>7. StoreCost * Cardinality(Waiting) \in Nat
  BY <1>1, <1>3, CallsTyped, FS_Subset, FS_CardinalityType, PromisesAssumption
<1>8. left = 0
  BY <1>6, <1>7 DEF GasAfterSave, UseGas, SubUint64
<1> QED
  BY <1>1, <1>3, <1>8, NothingToShare

LEMMA SendPendingKeeps ==
    ASSUME PromisesInv, SendPending
    PROVE  PromisesInv'
<1> DEFINE left == GasAfterSave(Waiting)
           sum == SumLimits(calls', Waiting)
<1>1. PromisesTypes /\ Nowhere /\ Executed /\ todo = {}
  BY DEF PromisesInv, SendPending
<1>2. Waiting \ SyncCalls(Waiting) = Waiting
  BY AllSent
<1>3. /\ Waiting # {} /\ ~SetupFails(Waiting, left)
      /\ calls' = setupAsyncCallsGas(Waiting, left)
      /\ record' = Waiting /\ inflight' = Waiting
      /\ gas' = 0
      /\ ghost' = [ghost EXCEPT !.spent = @ + (gas - left), !.forwarded = @ + sum]
      /\ phase' = "idle"
      /\ UNCHANGED <<entry, todo, open, plain, calledBack>>
  BY <1>2 DEF SendPending, getPendingAsyncCalls, Waiting
<1>4. Waiting \subseteq Ids
  BY DEF Waiting, PendingOf, Ids
<1>5. left \in Nat /\ left <= gas /\ gas \in Nat
  <2>1. StoreCost * Cardinality(Waiting) \in Nat
    BY <1>1, <1>4, CallsTyped, FS_Subset, FS_CardinalityType, PromisesAssumption
  <2> QED
    BY <1>1, <2>1 DEF PromisesTypes, GasAfterSave, UseGas, SubUint64
<1> HIDE DEF left
<1>6. sum \in Nat /\ sum <= left
  <2>1. Waiting \in SUBSET Waiting
    OBVIOUS
  <2> QED
    BY <1>1, <1>3, <1>4, <1>5, <2>1, SentLimits
<1>7. /\ calls' \in Seq(Call) /\ Ids' = Ids
      /\ \A i \in Ids : calls'[i].status = calls[i].status
  BY <1>1, <1>3, <1>4, <1>5, SetupTypes DEF Ids
<1> HIDE DEF sum
<1>8. Waiting' = Waiting
  BY <1>7 DEF Waiting, PendingOf, Ids
<1>9. /\ ghost'.txGas = ghost.txGas /\ ghost'.spent = ghost.spent + (gas - left)
      /\ ghost'.forwarded = ghost.forwarded + sum /\ ghost'.answered = ghost.answered
      /\ ghost'.refused = ghost.refused /\ ghost'.ran = ghost.ran
      /\ ghost' \in GhostType
  <2>1. ghost \in GhostType /\ ghost.spent + (gas - left) \in Nat /\ ghost.forwarded + sum \in Nat
    BY <1>1, <1>5, <1>6 DEF PromisesTypes, GhostType
  <2>2. ghost' = [ghost EXCEPT !.spent = ghost.spent + (gas - left),
                               !.forwarded = ghost.forwarded + sum]
    BY <1>3
  <2> QED
    BY <2>1, <2>2 DEF GhostType
<1>10. PromisesTypes'
  BY <1>1, <1>3, <1>7, <1>9 DEF PromisesTypes
<1>11. gas' + ghost'.spent + ghost'.forwarded <= ghost'.txGas
  <2>1. ghost.spent \in Nat /\ ghost.forwarded = 0 /\ gas + ghost.spent = ghost.txGas
    BY <1>1 DEF Nowhere, PromisesTypes, GhostType
  <2> QED
    BY <1>3, <1>5, <1>6, <1>9, <2>1
<1>12. \A i \in Ids' : calls'[i].status = "Resolved" => i \in ghost'.ran
  BY <1>1, <1>7, <1>9 DEF Executed
<1>13. Recorded'
  BY <1>1, <1>3, <1>8, <1>11, <1>12 DEF Recorded, Nowhere
<1> QED
  BY <1>3, <1>10, <1>13 DEF PromisesInv

LEMMA NothingPendingKeeps ==
    ASSUME PromisesInv, NothingPending
    PROVE  PromisesInv'
<1> DEFINE answers == entry.callType = "AsynchronousCall"
<1>1. PromisesTypes /\ Nowhere /\ Executed /\ Waiting = {}
  BY DEF PromisesInv, NothingPending, getPendingAsyncCalls, Waiting
<1>2. /\ phase' = "idle"
      /\ calledBack' = IF answers THEN calledBack + 1 ELSE calledBack
      /\ ghost' = IF answers THEN [ghost EXCEPT !.forwarded = @ + gas] ELSE ghost
      /\ gas' = IF answers THEN 0 ELSE gas
      /\ UNCHANGED <<entry, calls, todo, open, record, inflight, plain>>
  BY DEF NothingPending
<1> HIDE DEF answers
<1>3. /\ ghost'.txGas = ghost.txGas /\ ghost'.spent = ghost.spent
      /\ ghost'.forwarded = (IF answers THEN gas ELSE 0)
      /\ ghost'.answered = ghost.answered
      /\ ghost'.refused = ghost.refused /\ ghost'.ran = ghost.ran
      /\ ghost' \in GhostType
  BY <1>1, <1>2 DEF PromisesTypes, Nowhere, GhostType
<1>4. PromisesTypes'
  BY <1>1, <1>2, <1>3 DEF PromisesTypes
<1>5. gas' + ghost'.spent + ghost'.forwarded <= ghost'.txGas
  <2>1. gas \in Nat /\ ghost.spent \in Nat /\ gas + ghost.spent = ghost.txGas
    BY <1>1 DEF Nowhere, PromisesTypes, GhostType
  <2> QED
    BY <1>2, <1>3, <2>1
<1>6. Waiting' = {} /\ \A i \in Ids' : calls'[i].status = "Resolved" => i \in ghost'.ran
  BY <1>1, <1>2, <1>3 DEF Executed, Waiting, Ids
<1>7. calledBack' <= 1
  BY <1>1, <1>2 DEF Nowhere
<1>8. Recorded'
  BY <1>1, <1>2, <1>5, <1>6, <1>7 DEF Recorded, Nowhere
<1> QED
  BY <1>2, <1>4, <1>8 DEF PromisesInv

(* What an answer leaves alone. *)
LEMMA AnswerFrame ==
    ASSUME PromisesInv, phase = "idle", NEW ran \in SUBSET Nat,
           NEW answered \in SUBSET Nat, NEW refused \in SUBSET Nat,
           ghost.ran \subseteq ran, ghost.answered \subseteq answered,
           ghost.refused \subseteq refused,
           ghost' = [ghost EXCEPT !.ran = ran, !.answered = answered, !.refused = refused],
           calledBack' \in Nat, UNCHANGED <<phase, entry, calls, gas>>
    PROVE  /\ PromisesTypes' /\ Waiting' = Waiting
           /\ ghost'.answered = answered /\ ghost'.refused = refused
           /\ gas' + ghost'.spent + ghost'.forwarded <= ghost'.txGas
           /\ \A i \in Ids' : calls'[i].status = "Resolved" => i \in ghost'.ran
<1>1. PromisesTypes /\ Recorded
  BY DEF PromisesInv
<1>2. ghost' \in GhostType /\ ghost'.ran = ran
      /\ ghost'.answered = answered /\ ghost'.refused = refused
      /\ ghost'.spent = ghost.spent /\ ghost'.forwarded = ghost.forwarded
      /\ ghost'.txGas = ghost.txGas
  BY <1>1 DEF PromisesTypes, GhostType
<1>3. PromisesTypes'
  BY <1>1, <1>2 DEF PromisesTypes
<1>4. Waiting' = Waiting /\ Ids' = Ids
  BY DEF Waiting, Ids
<1> QED
  BY <1>1, <1>2, <1>3, <1>4 DEF Recorded

(* The record is as it was, or its only call is answered and it goes. *)
LEMMA AnswerKeeps ==
    ASSUME PromisesInv, NEW d \in Remote, NEW i \in Ids \cup {0}, NEW m \in Ids \cup {0},
           NEW p \in AnswerGas, NEW u \in Uses, Answer(d, i, m, p, u)
    PROVE  PromisesInv'
<1> DEFINE ran == ghost.ran \cup ({m} \ {0})
           answered == ghost.answered \cup ({i} \ {0})
<1>1. PromisesTypes /\ Recorded /\ phase = "idle"
  BY DEF PromisesInv, Answer, Received
<1>2. ran \in SUBSET Nat /\ answered \in SUBSET Nat /\ ghost.refused \in SUBSET Nat
      /\ calledBack \in Nat
  BY <1>1, CallsTyped DEF PromisesTypes, GhostType
<1>3. ghost' = [ghost EXCEPT !.ran = ran, !.answered = answered, !.refused = ghost.refused]
  BY <1>1 DEF Answer, PromisesTypes, GhostType
<1>4. calledBack' \in Nat /\ UNCHANGED <<phase, entry, calls, gas>>
  BY <1>2 DEF Answer, Received
<1> HIDE DEF ran, answered
<1>5. /\ PromisesTypes' /\ Waiting' = Waiting
      /\ ghost'.answered = answered /\ ghost'.refused = ghost.refused
      /\ gas' + ghost'.spent + ghost'.forwarded <= ghost'.txGas
      /\ \A j \in Ids' : calls'[j].status = "Resolved" => j \in ghost'.ran
  <2>1. ghost.ran \subseteq ran /\ ghost.answered \subseteq answered
        /\ ghost.refused \subseteq ghost.refused
    BY DEF ran, answered
  <2> QED
    BY <1>1, <1>2, <1>3, <1>4, <2>1, AnswerFrame
<1>6. /\ \/ i \in inflight /\ inflight' = inflight \ {i} /\ plain' = plain
         \/ i = 0 /\ inflight' = inflight /\ plain # {} /\ plain' \subseteq plain
      /\ 0 \notin inflight
  <2>1. 0 \notin inflight
    BY <1>1, CallsTyped DEF Recorded, Waiting, PendingOf, Ids
  <2> QED
    BY <2>1 DEF Answer, Received
<1>7. Waiting \subseteq inflight' \cup answered \cup ghost.refused
  BY <1>1, <1>6 DEF Recorded, answered
<1>8. CASE record = {} \/ StillWaiting(m)
  <2>1. record' = record /\ calledBack' = calledBack
    BY <1>8 DEF Answer
  <2>2. ghost.answered \subseteq answered
    BY DEF answered
  <2>3. Recorded'
    BY <1>1, <1>5, <1>6, <1>7, <2>1, <2>2 DEF Recorded
  <2> QED
    BY <1>1, <1>4, <1>5, <2>3 DEF PromisesInv
<1>9. CASE record # {} /\ ~StillWaiting(m)
  <2>1. record' = {} /\ calledBack' = calledBack + 1
    BY <1>9 DEF Answer
  <2>2. record = Waiting /\ record \subseteq {m}
    BY <1>1, <1>9 DEF Recorded, StillWaiting, Remaining
  <2>3. record = {m}
    BY <1>9, <2>2
  <2>4. plain = {}
    BY <1>1, <2>3 DEF Recorded
  <2>5. i \in inflight /\ inflight' = inflight \ {i} /\ plain' = {}
    BY <1>6, <2>4
  <2>6. i = m /\ inflight' = {} /\ i # 0
    BY <1>1, <1>6, <2>3, <2>5 DEF Recorded
  <2>7. m \in answered
    BY <2>6 DEF answered
  <2>8. calledBack = 0
    BY <1>1, <1>2, <1>9 DEF Recorded
  <2>9. Recorded'
    BY <1>5, <2>1, <2>2, <2>5, <2>6, <2>7, <2>8 DEF Recorded
  <2> QED
    BY <1>1, <1>4, <1>5, <2>9 DEF PromisesInv
<1> QED
  BY <1>8, <1>9

LEMMA AnswerAndCallKeeps ==
    ASSUME PromisesInv, NEW d \in Remote, NEW i \in Ids, NEW m \in Ids,
           NEW e \in Remote, AnswerAndCall(d, i, m, e)
    PROVE  PromisesInv'
<1> DEFINE ran == ghost.ran \cup {m}
           answered == ghost.answered \cup {i}
<1>1. PromisesTypes /\ Recorded /\ phase = "idle"
  BY DEF PromisesInv, AnswerAndCall
<1>2. ran \in SUBSET Nat /\ answered \in SUBSET Nat /\ ghost.refused \in SUBSET Nat
      /\ calledBack \in Nat
  BY <1>1, CallsTyped DEF PromisesTypes, GhostType
<1>3. ghost' = [ghost EXCEPT !.ran = ran, !.answered = answered, !.refused = ghost.refused]
  BY <1>1 DEF AnswerAndCall, PromisesTypes, GhostType
<1>4. /\ calledBack' \in Nat /\ UNCHANGED <<phase, entry, calls, gas>>
      /\ i \in inflight /\ inflight' = inflight \ {i} /\ m \in record
  BY <1>2 DEF AnswerAndCall, Matches
<1> HIDE DEF ran, answered
<1>5. /\ PromisesTypes' /\ Waiting' = Waiting
      /\ ghost'.answered = answered /\ ghost'.refused = ghost.refused
      /\ gas' + ghost'.spent + ghost'.forwarded <= ghost'.txGas
      /\ \A j \in Ids' : calls'[j].status = "Resolved" => j \in ghost'.ran
  <2>1. ghost.ran \subseteq ran /\ ghost.answered \subseteq answered
        /\ ghost.refused \subseteq ghost.refused
    BY DEF ran, answered
  <2> QED
    BY <1>1, <1>2, <1>3, <1>4, <2>1, AnswerFrame
<1>6. Waiting \subseteq inflight' \cup answered \cup ghost.refused
      /\ i \in answered /\ ghost.answered \subseteq answered
  BY <1>1, <1>4 DEF Recorded, answered
<1>7. CASE StillWaiting(m)
  <2>1. record' = record /\ calledBack' = calledBack
    BY <1>7 DEF AnswerAndCall
  <2>2. \A j \in record : record # {j}
    BY <1>4, <1>7 DEF StillWaiting, Remaining, ContextEmptied
  <2>3. Recorded'
    BY <1>1, <1>4, <1>5, <1>6, <2>1, <2>2 DEF Recorded
  <2> QED
    BY <1>1, <1>4, <1>5, <2>3 DEF PromisesInv
<1>8. CASE ~StillWaiting(m)
  <2>1. record' = {} /\ calledBack' = calledBack + 1
    BY <1>8 DEF AnswerAndCall
  <2>2. record = {m} /\ record = Waiting
    BY <1>1, <1>4, <1>8 DEF Recorded, StillWaiting, Remaining
  <2>3. i = m /\ inflight' = {}
    BY <1>1, <1>4, <2>2 DEF Recorded
  <2>4. calledBack = 0
    BY <1>1, <1>2, <2>2 DEF Recorded
  <2>5. Recorded'
    BY <1>5, <1>6, <2>1, <2>2, <2>3, <2>4 DEF Recorded
  <2> QED
    BY <1>1, <1>4, <1>5, <2>5 DEF PromisesInv
<1> QED
  BY <1>7, <1>8

LEMMA AnswerFailsKeeps ==
    ASSUME PromisesInv, NEW d \in Remote, NEW i \in Ids \cup {0}, AnswerFails(d, i)
    PROVE  PromisesInv'
<1> DEFINE refused == ghost.refused \cup ({i} \ {0})
<1>1. PromisesTypes /\ Recorded /\ phase = "idle"
  BY DEF PromisesInv, AnswerFails, Received
<1>2. ghost.ran \in SUBSET Nat /\ ghost.answered \in SUBSET Nat /\ refused \in SUBSET Nat
      /\ calledBack \in Nat
  BY <1>1, CallsTyped DEF PromisesTypes, GhostType
<1>3. ghost' = [ghost EXCEPT !.ran = ghost.ran, !.answered = ghost.answered, !.refused = refused]
  BY <1>1 DEF AnswerFails, PromisesTypes, GhostType
<1>4. UNCHANGED <<phase, entry, calls, gas, record, calledBack>>
  BY DEF AnswerFails, Received
<1>5. ghost.refused \subseteq refused /\ (i # 0 => i \in refused)
  OBVIOUS
<1> HIDE DEF refused
<1>6. /\ PromisesTypes' /\ Waiting' = Waiting
      /\ ghost'.answered = ghost.answered /\ ghost'.refused = refused
      /\ gas' + ghost'.spent + ghost'.forwarded <= ghost'.txGas
      /\ \A j \in Ids' : calls'[j].status = "Resolved" => j \in ghost'.ran
  <2>1. ghost.ran \subseteq ghost.ran /\ ghost.answered \subseteq ghost.answered
    OBVIOUS
  <2>2. calledBack' \in Nat
    BY <1>2, <1>4
  <2> QED
    BY <1>1, <1>2, <1>3, <1>4, <1>5, <2>1, <2>2, AnswerFrame
<1>7. \/ i \in inflight /\ inflight' = inflight \ {i} /\ plain' = plain
      \/ i = 0 /\ inflight' = inflight /\ plain' \subseteq plain
  BY DEF AnswerFails, Received
<1>8. 0 \notin inflight
  BY <1>1, CallsTyped DEF Recorded, Waiting, PendingOf, Ids
<1>9. Waiting \subseteq inflight' \cup ghost.answered \cup refused
  BY <1>1, <1>5, <1>7, <1>8 DEF Recorded
<1>10. plain # {} \/ plain' = {}
  BY <1>7
<1>11. Recorded'
  BY <1>1, <1>4, <1>6, <1>7, <1>9, <1>10 DEF Recorded
<1> QED
  BY <1>1, <1>4, <1>6, <1>11 DEF PromisesInv

LEMMA PromisesStep ==
    ASSUME PromisesInv, [Next]_vars
    PROVE  PromisesInv'
<1>1. ASSUME NEW c \in Identifiers, NEW d \in Local \cup Remote, NEW p \in ProvidedGas,
             CreateAsyncCall(c, d, p)
      PROVE  PromisesInv'
  BY <1>1, CreateKeeps
<1>2. ASSUME NEW c \in Identifiers, SetCallbackOfUnknownContext(c) PROVE PromisesInv'
  BY <1>2, FailKeeps DEF SetCallbackOfUnknownContext
<1>3. CASE EndOfCode
  BY <1>3, EndOfCodeKeeps
<1>4. CASE EndOfCodeWithoutGas
  BY <1>4, FailKeeps DEF EndOfCodeWithoutGas
<1>5. ASSUME NEW i \in todo, NEW u \in Uses, NEW v \in Uses, NEW ok \in BOOLEAN,
             ProcessAsyncCall(i, u, v, ok)
      PROVE  PromisesInv'
  BY <1>5, ProcessKeeps
<1>6. ASSUME NEW i \in todo, ProcessAsyncCallLeftPending(i) PROVE PromisesInv'
  BY <1>6, LeftPendingKeeps
<1>7. ASSUME NEW i \in todo, ProcessAsyncCallFails(i) PROVE PromisesInv'
  BY <1>7, FailKeeps DEF ProcessAsyncCallFails
<1>8. CASE EndOfLoop
  BY <1>8, EndOfLoopKeeps
<1>9. CASE SendPending
  BY <1>9, SendPendingKeeps
<1>10. CASE SendPendingFails
  BY <1>10, FailKeeps DEF SendPendingFails
<1>11. CASE NothingPending
  BY <1>11, NothingPendingKeeps
<1>12. ASSUME NEW d \in Remote, NEW i \in Ids \cup {0}, NEW m \in Ids \cup {0},
              NEW g \in AnswerGas, NEW u \in Uses, Answer(d, i, m, g, u)
       PROVE  PromisesInv'
  BY <1>12, AnswerKeeps
<1>13. ASSUME NEW d \in Remote, NEW i \in Ids, NEW m \in Ids, NEW e \in Remote,
              AnswerAndCall(d, i, m, e)
       PROVE  PromisesInv'
  BY <1>13, AnswerAndCallKeeps
<1>14. ASSUME NEW d \in Remote, NEW i \in Ids \cup {0}, AnswerFails(d, i)
       PROVE  PromisesInv'
  BY <1>14, AnswerFailsKeeps
<1>15. CASE UNCHANGED vars
  BY <1>15 DEF vars, PromisesInv, PromisesTypes, Nowhere, Executed, Recorded, Waiting,
               PendingOf, Ids, SyncCalls
<1> QED
  BY <1>1, <1>2, <1>3, <1>4, <1>5, <1>6, <1>7, <1>8, <1>9, <1>10, <1>11, <1>12, <1>13,
     <1>14, <1>15 DEF Next

(* The inductive invariant holds in every reachable state. *)
LEMMA PromisesInvariant == PromisesSpec => []PromisesInv
<1>1. PromisesInv /\ [Next]_vars => PromisesInv'
  BY PromisesStep
<1> QED
  BY <1>1, PromisesInitially, PTL DEF PromisesSpec

-----------------------------------------------------------------------------
(* setupAsyncCallsGas never shares out more than there is: whatever gas the  *)
(* contract asks for its calls, the limits of the calls that are sent and    *)
(* the gas of the callback, with what was spent, stay within the gas of the  *)
(* transaction.                                                              *)
THEOREM GasSharedOut == PromisesSpec => []GasForwarded
<1>1. PromisesInv => GasForwarded
  <2> SUFFICES ASSUME PromisesInv, phase # "failed"
               PROVE  gas + ghost.spent + ghost.forwarded <= ghost.txGas
    BY DEF GasForwarded
  <2>1. CASE phase = "idle"
    BY <2>1 DEF PromisesInv, Recorded
  <2>2. CASE phase # "idle"
    <3>1. Nowhere /\ PromisesTypes
      BY <2>2 DEF PromisesInv, PromisesTypes
    <3> QED
      BY <3>1 DEF Nowhere, PromisesTypes, GhostType
  <2> QED
    BY <2>1, <2>2
<1> QED
  BY <1>1, PromisesInvariant, PTL

(* processAsyncInfo forgets no call, however many there are: each one has    *)
(* been executed and called back, or was sent and is in the record until it  *)
(* is answered.                                                              *)
THEOREM NoCallForgotten == PromisesSpec => []NoneForgotten
<1>1. PromisesInv => NoneForgotten
  <2> SUFFICES ASSUME PromisesInv, phase = "idle", NEW i \in Ids
               PROVE  IF calls[i].status = "Resolved"
                      THEN i \in ghost.ran /\ i \notin record
                      ELSE /\ i \in inflight \cup ghost.answered \cup ghost.refused
                           /\ i \in inflight => i \in record
    BY DEF NoneForgotten
  <2>1. Recorded /\ PromisesTypes
    BY DEF PromisesInv
  <2>2. calls[i].status \in {"Pending", "Resolved"}
    BY <2>1, CallsTyped DEF Call
  <2>3. i \in Waiting <=> calls[i].status = "Pending"
    BY DEF Waiting, PendingOf, Ids
  <2> QED
    BY <2>1, <2>2, <2>3 DEF Recorded
<1> QED
  BY <1>1, PromisesInvariant, PTL

(* processCallbackStack calls the caller back once at most, and only when    *)
(* the calls of every context are resolved.                                  *)
THEOREM CalledBackOnce == PromisesSpec => []CallerCalledWhenResolved
<1>1. PromisesInv => CallerCalledWhenResolved
  <2> SUFFICES ASSUME PromisesInv PROVE CallerCalledWhenResolved
    OBVIOUS
  <2>1. CASE phase # "idle"
    BY <2>1 DEF PromisesInv, CallerCalledWhenResolved
  <2>2. CASE phase = "idle"
    <3>1. Recorded /\ PromisesTypes
      BY <2>2 DEF PromisesInv
    <3>2. \A i \in Ids : calls[i].status = "Resolved" \/ i \in Waiting
      BY <3>1, CallsTyped DEF Waiting, PendingOf, Ids, Call
    <3> QED
      BY <3>1, <3>2 DEF Recorded, CallerCalledWhenResolved
  <2> QED
    BY <2>1, <2>2
<1> QED
  BY <1>1, PromisesInvariant, PTL
=============================================================================
