------------------------------ MODULE SumProofs ------------------------------
(***************************************************************************)
(* What FoldSet computes, for the folds of this project: a fold over a      *)
(* finite set is the value of a function on its subsets that satisfies the  *)
(* equation of the fold, and there is one such function.  Induction is over *)
(* the cardinality of the subsets, as the absence of a smallest             *)
(* counterexample.                                                          *)
(***************************************************************************)
EXTENDS Integers, FiniteSets, FiniteSetsExt, FiniteSetTheorems,
        WellFoundedInduction, TLAPS

\* An element of a set that is not empty: the one FoldSet takes first.
First(s) == CHOOSE x \in s : TRUE
Rest(s) == s \ {First(s)}

\* The function g folds op from base, on the subsets of S, with values in V.
FoldEquation(g, op, base, s) ==
    g[s] = IF s = {} THEN base ELSE op[First(s), g[Rest(s)]]
IsFold(g, op, base, S, V) ==
    /\ g \in [SUBSET S -> V]
    /\ \A s \in SUBSET S : FoldEquation(g, op, base, s)

(* A set of naturals that has 0 and, with a number, the next one has all. *)
LEMMA AllNaturals ==
    ASSUME NEW K \in SUBSET Nat, 0 \in K, \A k \in K : k + 1 \in K
    PROVE  K = Nat
<1> SUFFICES ASSUME Nat \ K # {} PROVE FALSE
  OBVIOUS
<1>1. PICK k \in Nat \ K : \A j \in Nat \ K : <<j, k>> \notin OpToRel(<, Nat)
  <2>1. Nat \ K \subseteq Nat
    OBVIOUS
  <2> QED
    BY <2>1, NatLessThanWellFounded, WFMin
<1>2. k # 0 /\ k - 1 \in Nat
  OBVIOUS
<1>3. k - 1 \notin K
  <2>1. (k - 1) + 1 = k
    OBVIOUS
  <2> QED
    BY <2>1
<1>4. <<k - 1, k>> \in OpToRel(<, Nat)
  BY <1>2 DEF OpToRel
<1> QED
  BY <1>1, <1>2, <1>3, <1>4

(* The rest of a finite set is smaller. *)
LEMMA RestSmaller ==
    ASSUME NEW S, IsFiniteSet(S), S # {}
    PROVE  /\ First(S) \in S /\ Rest(S) \subseteq S /\ IsFiniteSet(Rest(S))
           /\ Cardinality(S) \in Nat /\ Cardinality(Rest(S)) \in Nat
           /\ Cardinality(Rest(S)) = Cardinality(S) - 1
<1>1. First(S) \in S
  BY DEF First
<1>2. /\ IsFiniteSet(Rest(S))
      /\ Cardinality(Rest(S)) = Cardinality(S) - 1
  BY <1>1, FS_RemoveElement DEF Rest
<1> QED
  BY <1>1, <1>2, FS_CardinalityType DEF Rest

(* There is a function that folds. *)
LEMMA FoldExists ==
    ASSUME NEW S, IsFiniteSet(S), NEW V, NEW base \in V, NEW op \in [S \X V -> V]
    PROVE  \E g : IsFold(g, op, base, S, V)
<1> DEFINE Upto(g, k) == \A s \in SUBSET S :
                             Cardinality(s) <= k => FoldEquation(g, op, base, s)
           K == {k \in Nat : \E g \in [SUBSET S -> V] : Upto(g, k)}
           Next(g) == [s \in SUBSET S |-> IF s = {} THEN base
                                          ELSE op[First(s), g[Rest(s)]]]
<1>0. \A s \in SUBSET S : IsFiniteSet(s) /\ Cardinality(s) \in Nat
  BY FS_Subset, FS_CardinalityType
<1>1. 0 \in K
  <2> DEFINE g == [s \in SUBSET S |-> base]
  <2>1. g \in [SUBSET S -> V]
    OBVIOUS
  <2>2. \A s \in SUBSET S : Cardinality(s) <= 0 => s = {}
    BY <1>0, FS_EmptySet
  <2>3. Upto(g, 0)
    BY <2>2 DEF FoldEquation
  <2> QED
    BY <2>1, <2>3
<1>2. ASSUME NEW k \in K PROVE k + 1 \in K
  <2>1. PICK g \in [SUBSET S -> V] : Upto(g, k)
    OBVIOUS
  <2>2. \A s \in SUBSET S : s # {} => First(s) \in S /\ Rest(s) \in SUBSET S
    BY <1>0, RestSmaller
  <2>3. Next(g) \in [SUBSET S -> V]
    BY <2>2
  <2>4. \A s \in SUBSET S : Cardinality(s) <= k => Next(g)[s] = g[s]
    BY <2>1 DEF FoldEquation
  <2>5. ASSUME NEW s \in SUBSET S, Cardinality(s) <= k + 1
        PROVE  FoldEquation(Next(g), op, base, s)
    <3>1. CASE s = {}
      BY <3>1 DEF FoldEquation
    <3>2. CASE s # {}
      <4>1. Rest(s) \in SUBSET S /\ Cardinality(Rest(s)) <= k
        BY <1>0, <2>5, <3>2, RestSmaller
      <4>2. Next(g)[Rest(s)] = g[Rest(s)]
        BY <2>4, <4>1
      <4>3. Next(g)[s] = op[First(s), g[Rest(s)]]
        BY <3>2
      <4> QED
        BY <3>2, <4>2, <4>3 DEF FoldEquation
    <3> QED
      BY <3>1, <3>2
  <2>6. Upto(Next(g), k + 1)
    BY <2>5
  <2> HIDE DEF Next
  <2>7. \E f \in [SUBSET S -> V] : Upto(f, k + 1)
    BY <2>3, <2>6
  <2> QED
    BY <2>7
<1>3. K = Nat
  BY <1>1, <1>2, AllNaturals
<1>4. Cardinality(S) \in K
  BY <1>0, <1>3
<1>5. PICK g \in [SUBSET S -> V] : Upto(g, Cardinality(S))
  BY <1>4
<1>6. \A s \in SUBSET S : Cardinality(s) <= Cardinality(S)
  BY FS_Subset
<1> QED
  BY <1>5, <1>6 DEF IsFold

(* Induction over the subsets of a finite set. *)
LEMMA SubsetInduction ==
    ASSUME NEW S, IsFiniteSet(S), NEW P, {} \in P,
           \A s \in SUBSET S : s # {} /\ (\A x \in s : s \ {x} \in P) => s \in P
    PROVE  \A s \in SUBSET S : s \in P
<1> DEFINE K == {k \in Nat : \A s \in SUBSET S : Cardinality(s) <= k => s \in P}
<1>0. \A s \in SUBSET S : IsFiniteSet(s) /\ Cardinality(s) \in Nat
  BY FS_Subset, FS_CardinalityType
<1>1. 0 \in K
  <2>1. \A s \in SUBSET S : Cardinality(s) <= 0 => s = {}
    BY <1>0, FS_EmptySet
  <2> QED
    BY <2>1
<1>2. ASSUME NEW k \in K PROVE k + 1 \in K
  <2>1. ASSUME NEW s \in SUBSET S, Cardinality(s) <= k + 1, s # {}
        PROVE  s \in P
    <3>1. \A x \in s : s \ {x} \in SUBSET S /\ Cardinality(s \ {x}) <= k
      BY <1>0, <2>1, FS_RemoveElement
    <3>2. \A x \in s : s \ {x} \in P
      BY <1>2, <3>1
    <3> QED
      BY <2>1, <3>2
  <2>2. \A s \in SUBSET S : Cardinality(s) <= k + 1 => s \in P
    BY <2>1
  <2>3. k + 1 \in Nat
    BY <1>2
  <2> QED
    BY <2>2, <2>3
<1>3. K = Nat
  BY <1>1, <1>2, AllNaturals
<1> QED
  BY <1>0, <1>3

(* Two functions are the same on the subsets of a finite set if they are on  *)
(* a subset whenever they are on its rest.                                   *)
LEMMA SameOnSubsets ==
    ASSUME NEW S, IsFiniteSet(S), NEW g, NEW h, g[{}] = h[{}],
           \A s \in SUBSET S : s # {} /\ g[Rest(s)] = h[Rest(s)] => g[s] = h[s]
    PROVE  \A s \in SUBSET S : g[s] = h[s]
<1> DEFINE P == {s \in SUBSET S : g[s] = h[s]}
<1>1. \A s \in SUBSET S : s # {} => First(s) \in s
  BY DEF First
<1>2. \A s \in SUBSET S : s # {} /\ (\A x \in s : s \ {x} \in P) => s \in P
  BY <1>1 DEF Rest
<1>3. {} \in P
  OBVIOUS
<1> HIDE DEF P
<1>4. \A s \in SUBSET S : s \in P
  BY <1>2, <1>3, SubsetInduction
<1> QED
  BY <1>4 DEF P

-----------------------------------------------------------------------------
(* Sums of integers.                                                        *)

Adding(w, S) == [p \in S \X Int |-> w[p[1]] + p[2]]

(* The sums over the subsets of S: a function that adds. *)
IsSum(g, w, S) ==
    /\ g \in [SUBSET S -> Int] /\ g[{}] = 0
    /\ \A s \in SUBSET S : s # {} => g[s] = w[First(s)] + g[Rest(s)]

LEMMA SumExists ==
    ASSUME NEW S, IsFiniteSet(S), NEW w, \A i \in S : w[i] \in Int
    PROVE  \E g : IsSum(g, w, S)
<1>1. Adding(w, S) \in [S \X Int -> Int] /\ 0 \in Int
  BY DEF Adding
<1>2. PICK g : IsFold(g, Adding(w, S), 0, S, Int)
  BY <1>1, FoldExists, Zenon
<1>3. \A s \in SUBSET S : s # {} => First(s) \in S /\ Rest(s) \in SUBSET S
  BY FS_Subset, RestSmaller
<1>4. g \in [SUBSET S -> Int]
  BY <1>2 DEF IsFold
<1>5. ASSUME NEW s \in SUBSET S, s # {}
      PROVE  g[s] = w[First(s)] + g[Rest(s)]
  <2>1. g[s] = Adding(w, S)[First(s), g[Rest(s)]]
    BY <1>2, <1>5 DEF IsFold, FoldEquation
  <2> QED
    BY <1>3, <1>4, <1>5, <2>1 DEF Adding
<1>6. g[{}] = 0
  BY <1>2 DEF IsFold, FoldEquation
<1> QED
  BY <1>4, <1>5, <1>6 DEF IsSum

(* SumFunctionOnSet is the value of that function. *)
LEMMA SumOnWhole ==
    ASSUME NEW S, IsFiniteSet(S), NEW w, NEW f, IsSum(f, w, S)
    PROVE  SumFunctionOnSet(w, S) = f[S]
<1> DEFINE Equation(g) == g = [s \in SUBSET S |-> IF s = {} THEN 0
                                 ELSE w[CHOOSE x \in s : TRUE]
                                      + g[s \ {CHOOSE x \in s : TRUE}]]
           iter == CHOOSE g : Equation(g)
<1>1. Equation(f)
  BY DEF IsSum, First, Rest
<1>2. Equation(iter)
  BY <1>1
<1>3. SumFunctionOnSet(w, S) = iter[S]
  BY DEF SumFunctionOnSet, FoldFunctionOnSet, MapThenFoldSet
<1> HIDE DEF iter
<1>4. /\ iter[{}] = 0
      /\ \A s \in SUBSET S : s # {} => iter[s] = w[First(s)] + iter[Rest(s)]
  BY <1>2 DEF First, Rest
<1>5. f[{}] = iter[{}]
  BY <1>4 DEF IsSum
<1>6. \A s \in SUBSET S : s # {} /\ f[Rest(s)] = iter[Rest(s)] => f[s] = iter[s]
  BY <1>4 DEF IsSum
<1>7. \A s \in SUBSET S : f[s] = iter[s]
  BY <1>5, <1>6, SameOnSubsets
<1> QED
  BY <1>3, <1>7

(* Sums over subsets are values of one function. *)
LEMMA SumsAreOneFunction ==
    ASSUME NEW S, IsFiniteSet(S), NEW w, \A i \in S : w[i] \in Int
    PROVE  \E g : /\ IsSum(g, w, S)
                  /\ \A T \in SUBSET S : SumFunctionOnSet(w, T) = g[T]
<1>1. PICK g : IsSum(g, w, S)
  BY SumExists
<1>2. ASSUME NEW T \in SUBSET S PROVE SumFunctionOnSet(w, T) = g[T]
  <2>1. IsFiniteSet(T) /\ \A i \in T : w[i] \in Int
    BY FS_Subset
  <2>2. PICK f : IsSum(f, w, T)
    BY <2>1, SumExists
  <2>3. SumFunctionOnSet(w, T) = f[T]
    BY <2>1, <2>2, SumOnWhole
  <2>4. f[{}] = g[{}]
    BY <1>1, <2>2 DEF IsSum
  <2>5. \A s \in SUBSET T : s # {} /\ f[Rest(s)] = g[Rest(s)] => f[s] = g[s]
    BY <1>1, <2>2 DEF IsSum
  <2>6. \A s \in SUBSET T : f[s] = g[s]
    BY <2>1, <2>4, <2>5, SameOnSubsets
  <2> QED
    BY <2>3, <2>6
<1> QED
  BY <1>1, <1>2

(* It does not matter which element is added first. *)
LEMMA SumAnyOrder ==
    ASSUME NEW S, IsFiniteSet(S), NEW w, \A i \in S : w[i] \in Int,
           NEW g, IsSum(g, w, S)
    PROVE  \A s \in SUBSET S : \A x \in s : g[s] = w[x] + g[s \ {x}]
<1> DEFINE Holds(s) == \A x \in s : g[s] = w[x] + g[s \ {x}]
           P == {s \in SUBSET S : Holds(s)}
<1>1. ASSUME NEW s \in SUBSET S, s # {}, \A x \in s : s \ {x} \in P, NEW x \in s
      PROVE  g[s] = w[x] + g[s \ {x}]
  <2> DEFINE c == First(s)
  <2>1. c \in s /\ g[s] = w[c] + g[s \ {c}]
    BY <1>1 DEF IsSum, First, Rest
  <2>2. CASE x = c
    BY <2>1, <2>2
  <2>3. CASE x # c
    <3> DEFINE G == g[(s \ {x}) \ {c}]
    <3>1. x \in s \ {c} /\ c \in s \ {x}
      BY <2>1, <2>3
    <3>2. g[s \ {c}] = w[x] + g[(s \ {c}) \ {x}]
      BY <1>1, <2>1, <3>1
    <3>3. g[s \ {x}] = w[c] + G
      BY <1>1, <3>1
    <3>4. (s \ {c}) \ {x} = (s \ {x}) \ {c} /\ (s \ {x}) \ {c} \in SUBSET S
      OBVIOUS
    <3>5. w[x] \in Int /\ w[c] \in Int /\ G \in Int
      BY <2>1, <3>4 DEF IsSum
    <3>6. g[s] = w[c] + (w[x] + G)
      BY <2>1, <3>2, <3>4
    <3> HIDE DEF c, G
    <3>7. w[c] + (w[x] + G) = w[x] + (w[c] + G)
      BY <3>5
    <3> QED
      BY <3>3, <3>6, <3>7
  <2> QED
    BY <2>2, <2>3
<1>2. \A s \in SUBSET S : s # {} /\ (\A x \in s : s \ {x} \in P) => Holds(s)
  BY <1>1
<1>3. {} \in P
  OBVIOUS
<1> HIDE DEF Holds
<1>4. \A s \in SUBSET S : s # {} /\ (\A x \in s : s \ {x} \in P) => s \in P
  BY <1>2
<1> HIDE DEF P
<1>5. \A s \in SUBSET S : s \in P
  BY <1>3, <1>4, SubsetInduction
<1> QED
  BY <1>5 DEF P, Holds

-----------------------------------------------------------------------------
(* What the sums of a project need to know.                                 *)

(* A sum without its set, and with one element taken away. *)
LEMMA SumEmpty == \A w : SumFunctionOnSet(w, {}) = 0
<1> TAKE w
<1>1. IsFiniteSet({}) /\ \A i \in {} : w[i] \in Int
  BY FS_EmptySet
<1>2. PICK g : IsSum(g, w, {}) /\ \A T \in SUBSET {} : SumFunctionOnSet(w, T) = g[T]
  BY <1>1, SumsAreOneFunction
<1> QED
  BY <1>2 DEF IsSum

LEMMA SumRemove ==
    ASSUME NEW S, IsFiniteSet(S), NEW w, \A i \in S : w[i] \in Int, NEW x \in S
    PROVE  /\ SumFunctionOnSet(w, S) \in Int /\ SumFunctionOnSet(w, S \ {x}) \in Int
           /\ SumFunctionOnSet(w, S) = w[x] + SumFunctionOnSet(w, S \ {x})
<1>1. PICK g : IsSum(g, w, S) /\ \A T \in SUBSET S : SumFunctionOnSet(w, T) = g[T]
  BY SumsAreOneFunction
<1>2. g[S] = w[x] + g[S \ {x}]
  BY <1>1, SumAnyOrder
<1>3. S \in SUBSET S /\ S \ {x} \in SUBSET S
  OBVIOUS
<1> QED
  BY <1>1, <1>2, <1>3 DEF IsSum

(* A part of a sum of naturals does not exceed it. *)
LEMMA SumOfPart ==
    ASSUME NEW S, IsFiniteSet(S), NEW w, \A i \in S : w[i] \in Nat, NEW T \in SUBSET S
    PROVE  /\ SumFunctionOnSet(w, T) \in Nat /\ SumFunctionOnSet(w, S) \in Nat
           /\ SumFunctionOnSet(w, T) <= SumFunctionOnSet(w, S)
<1>1. PICK g : IsSum(g, w, S) /\ \A U \in SUBSET S : SumFunctionOnSet(w, U) = g[U]
  BY SumsAreOneFunction
<1> DEFINE P == {s \in SUBSET S : g[s] \in Nat /\ \A U \in SUBSET s : g[U] \in Nat /\ g[U] <= g[s]}
<1>2. {} \in P
  <2>1. g[{}] = 0 /\ \A U \in SUBSET {} : U = {}
    BY <1>1 DEF IsSum
  <2>2. \A U \in SUBSET {} : g[U] = 0
    BY <2>1
  <2> QED
    BY <2>1, <2>2
<1>3. ASSUME NEW s \in SUBSET S, s # {}, \A x \in s : s \ {x} \in P
      PROVE  s \in P
  <2>1. \A x \in s : g[s] = w[x] + g[s \ {x}] /\ w[x] \in Nat /\ g[s \ {x}] \in Nat
    BY <1>1, <1>3, SumAnyOrder
  <2>2. g[s] \in Nat
    <3>1. PICK x \in s : TRUE
      BY <1>3
    <3>2. g[s] = w[x] + g[s \ {x}] /\ w[x] \in Nat /\ g[s \ {x}] \in Nat
      BY <2>1, <3>1
    <3> QED
      BY <3>2
  <2>3. ASSUME NEW U \in SUBSET s, U # s PROVE g[U] \in Nat /\ g[U] <= g[s]
    <3>1. PICK x \in s : x \notin U
      BY <2>3
    <3>2. U \in SUBSET (s \ {x})
      BY <3>1
    <3>3. g[U] \in Nat /\ g[U] <= g[s \ {x}]
      BY <1>3, <3>2
    <3> QED
      BY <2>1, <2>2, <3>3
  <2> QED
    BY <2>2, <2>3
<1> HIDE DEF P
<1>4. \A s \in SUBSET S : s \in P
  BY <1>2, <1>3, SubsetInduction
<1>5. S \in P
  BY <1>4
<1> QED
  BY <1>1, <1>5 DEF P

(* A sum is about the values on its set. *)
LEMMA SumSame ==
    ASSUME NEW S, IsFiniteSet(S), NEW v, NEW w, \A i \in S : w[i] \in Int /\ v[i] = w[i]
    PROVE  SumFunctionOnSet(v, S) = SumFunctionOnSet(w, S)
<1>1. PICK g : IsSum(g, w, S)
  BY SumExists
<1>2. \A s \in SUBSET S : s # {} => First(s) \in S
  BY DEF First
<1>3. IsSum(g, v, S)
  BY <1>1, <1>2 DEF IsSum
<1> QED
  BY <1>1, <1>3, SumOnWhole

(* The sum of sums. *)
LEMMA SumAdded ==
    ASSUME NEW S, IsFiniteSet(S), NEW u, NEW v, NEW w,
           \A i \in S : u[i] \in Int /\ v[i] \in Int /\ w[i] = u[i] + v[i]
    PROVE  /\ SumFunctionOnSet(u, S) \in Int /\ SumFunctionOnSet(v, S) \in Int
           /\ SumFunctionOnSet(w, S) = SumFunctionOnSet(u, S) + SumFunctionOnSet(v, S)
<1>1. PICK f : IsSum(f, u, S)
  BY SumExists
<1>2. PICK g : IsSum(g, v, S)
  BY SumExists
<1> DEFINE h == [s \in SUBSET S |-> f[s] + g[s]]
<1>3. \A s \in SUBSET S : s # {} => First(s) \in S /\ Rest(s) \in SUBSET S
  BY DEF First, Rest
<1>4. \A s \in SUBSET S : f[s] \in Int /\ g[s] \in Int
  BY <1>1, <1>2 DEF IsSum
<1>5. h \in [SUBSET S -> Int] /\ h[{}] = 0
  BY <1>1, <1>2, <1>4 DEF IsSum
<1>6. ASSUME NEW s \in SUBSET S, s # {} PROVE h[s] = w[First(s)] + h[Rest(s)]
  <2>1. /\ f[s] = u[First(s)] + f[Rest(s)] /\ g[s] = v[First(s)] + g[Rest(s)]
        /\ First(s) \in S /\ Rest(s) \in SUBSET S
    BY <1>1, <1>2, <1>3, <1>6 DEF IsSum
  <2>2. f[Rest(s)] \in Int /\ g[Rest(s)] \in Int
    BY <1>4, <2>1
  <2> QED
    BY <2>1, <2>2
<1>7. IsSum(h, w, S)
  BY <1>5, <1>6 DEF IsSum
<1>8. /\ SumFunctionOnSet(u, S) = f[S] /\ SumFunctionOnSet(v, S) = g[S]
      /\ SumFunctionOnSet(w, S) = h[S]
  BY <1>1, <1>2, <1>7, SumOnWhole
<1> QED
  BY <1>4, <1>8

(* Elements that are 0 do not change a sum. *)
LEMMA SumZeros ==
    ASSUME NEW S, IsFiniteSet(S), NEW w, \A i \in S : w[i] \in Int,
           NEW T \in SUBSET S, \A i \in S \ T : w[i] = 0
    PROVE  SumFunctionOnSet(w, S) = SumFunctionOnSet(w, T)
<1>1. PICK g : IsSum(g, w, S) /\ \A U \in SUBSET S : SumFunctionOnSet(w, U) = g[U]
  BY SumsAreOneFunction
<1>a. ASSUME NEW u \in SUBSET S, NEW y \in u PROVE g[u] = w[y] + g[u \ {y}]
  BY <1>1, SumAnyOrder
<1> DEFINE P == {s \in SUBSET (S \ T) : g[T \cup s] = g[T]}
<1>2. {} \in P
  <2>1. T \cup {} = T
    OBVIOUS
  <2> QED
    BY <2>1
<1>3. ASSUME NEW s \in SUBSET (S \ T), s # {}, \A x \in s : s \ {x} \in P
      PROVE  s \in P
  <2>1. PICK x \in s : TRUE
    BY <1>3
  <2>2. /\ T \cup s \in SUBSET S /\ x \in T \cup s /\ w[x] = 0
        /\ (T \cup s) \ {x} = T \cup (s \ {x})
        /\ T \cup (s \ {x}) \in SUBSET S
    <3>1. x \in S \ T
      BY <2>1
    <3>2. T \cup s \in SUBSET S /\ x \in T \cup s
      BY <2>1
    <3>3. (T \cup s) \ {x} = T \cup (s \ {x})
      BY <3>1
    <3> QED
      BY <3>1, <3>2, <3>3
  <2>3. g[T \cup s] = w[x] + g[(T \cup s) \ {x}]
    <3> HIDE DEF P
    <3> QED
      BY <1>a, <2>2
  <2>4. g[T \cup (s \ {x})] = g[T]
    <3>1. s \ {x} \in P
      BY <1>3, <2>1
    <3> QED
      BY <3>1
  <2>5. g[T] \in Int
    BY <1>1 DEF IsSum
  <2>6. g[T \cup s] = g[T]
    <3> HIDE DEF P
    <3> QED
      BY <2>2, <2>3, <2>4, <2>5
  <2> QED
    BY <2>6
<1> HIDE DEF P
<1>4. IsFiniteSet(S \ T)
  BY FS_Subset
<1>5. \A s \in SUBSET (S \ T) : s \in P
  <2>1. \A s \in SUBSET (S \ T) : s # {} /\ (\A x \in s : s \ {x} \in P) => s \in P
    BY <1>3
  <2> QED
    BY <1>2, <1>4, <2>1, SubsetInduction
<1>6. S \ T \in P
  BY <1>5
<1>7. g[T \cup (S \ T)] = g[T]
  BY <1>6 DEF P
<1>8. T \cup (S \ T) = S
  OBVIOUS
<1> QED
  BY <1>1, <1>7, <1>8

(* A sum of which one element changes, or is added. *)
LEMMA SumChange ==
    ASSUME NEW S, IsFiniteSet(S), NEW v, NEW w, NEW x,
           \A i \in S : v[i] \in Int, \A i \in S \cup {x} : w[i] \in Int,
           \A i \in S \ {x} : w[i] = v[i]
    PROVE  /\ SumFunctionOnSet(v, S) \in Int
           /\ x \in S => SumFunctionOnSet(w, S \cup {x})
                            = SumFunctionOnSet(v, S) + w[x] - v[x]
           /\ x \notin S => SumFunctionOnSet(w, S \cup {x})
                               = SumFunctionOnSet(v, S) + w[x]
<1>1. IsFiniteSet(S \cup {x}) /\ IsFiniteSet(S \ {x})
  BY FS_AddElement, FS_RemoveElement, FS_Subset
<1>2. (S \cup {x}) \ {x} = S \ {x}
  OBVIOUS
<1>3. /\ SumFunctionOnSet(w, S \ {x}) \in Int
      /\ SumFunctionOnSet(w, S \cup {x}) = w[x] + SumFunctionOnSet(w, S \ {x})
  <2>1. x \in S \cup {x}
    OBVIOUS
  <2>2. /\ SumFunctionOnSet(w, (S \cup {x}) \ {x}) \in Int
        /\ SumFunctionOnSet(w, S \cup {x}) = w[x] + SumFunctionOnSet(w, (S \cup {x}) \ {x})
    BY <1>1, <2>1, SumRemove
  <2> QED
    BY <1>2, <2>2
<1>4. SumFunctionOnSet(w, S \ {x}) = SumFunctionOnSet(v, S \ {x})
  <2>1. \A i \in S \ {x} : v[i] \in Int /\ w[i] = v[i]
    OBVIOUS
  <2> QED
    BY <1>1, <2>1, SumSame
<1>5. CASE x \in S
  <2>1. SumFunctionOnSet(v, S) = v[x] + SumFunctionOnSet(v, S \ {x})
    BY <1>5, SumRemove
  <2>2. v[x] \in Int /\ w[x] \in Int /\ x \in S \cup {x}
    BY <1>5
  <2> QED
    BY <1>3, <1>4, <1>5, <2>1, <2>2
<1>6. CASE x \notin S
  <2>1. S \ {x} = S /\ w[x] \in Int
    BY <1>6
  <2>2. /\ SumFunctionOnSet(v, S) \in Int
        /\ SumFunctionOnSet(w, S \cup {x}) = w[x] + SumFunctionOnSet(v, S)
    BY <1>3, <1>4, <2>1
  <2> QED
    BY <1>6, <2>1, <2>2
<1> QED
  BY <1>5, <1>6

(* The elements but one are the same. *)
LEMMA SumDiffers ==
    ASSUME NEW S, IsFiniteSet(S), NEW v, NEW w, NEW x \in S,
           \A i \in S : v[i] \in Int, \A i \in S : w[i] \in Int,
           \A i \in S \ {x} : w[i] = v[i]
    PROVE  /\ SumFunctionOnSet(v, S) \in Int
           /\ SumFunctionOnSet(w, S) = SumFunctionOnSet(v, S) + w[x] - v[x]
<1>1. S \cup {x} = S
  OBVIOUS
<1>2. \A i \in S \cup {x} : w[i] \in Int
  BY <1>1
<1>3. SumFunctionOnSet(w, S \cup {x}) = SumFunctionOnSet(v, S) + w[x] - v[x]
  BY <1>2, SumChange
<1>4. SumFunctionOnSet(v, S) \in Int
  BY <1>2, SumChange
<1> QED
  BY <1>1, <1>3, <1>4

=============================================================================
