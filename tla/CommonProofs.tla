---------------------------- MODULE CommonProofs ----------------------------
(***************************************************************************)
(* What the proofs about several modules rest on: least elements and the   *)
(* induction that follows from them, division, folds over finite sets and  *)
(* sums, and the first posting from a bound on.                            *)
(***************************************************************************)
EXTENDS Postings, SequencesExt, FiniteSetTheorems, WellFoundedInduction, TLAPS

-----------------------------------------------------------------------------
(* Least elements, and through them induction.                               *)

(* Every set of naturals that is not empty has a least element.  A property  *)
(* of all naturals is proved by it: the least counterexample is looked at.   *)
LEMMA LeastNatural ==
  ASSUME NEW S \in SUBSET Nat, S # {}
  PROVE  \E n \in S : \A m \in S : n <= m
<1> DEFINE R == OpToRel(<, Nat)
<1>1. IsWellFoundedOn(R, Nat)
  BY NatLessThanWellFounded
<1>2. \A m, j \in Nat : m < j => <<m, j>> \in R
  BY DEF OpToRel
<1> HIDE DEF R
<1>3. PICK n \in S : \A m \in S : ~(<<m, n>> \in R)
  BY <1>1, WFMin, Zenon
<1>4. ASSUME NEW m \in S  PROVE n <= m
  <2>1. ~(m < n)
    BY <1>2, <1>3
  <2> QED  BY <2>1
<1> QED  BY <1>4

(* A bounded set of integers that is not empty has a greatest element.       *)
Bounded(S, bound) == bound \in Int /\ \A x \in S : x \in Int /\ x <= bound

LEMMA GreatestInteger ==
  ASSUME NEW S, S # {}, NEW bound, Bounded(S, bound)
  PROVE  \E g \in S : \A x \in S : x <= g
<1> USE DEF Bounded
<1> DEFINE D == {bound - x : x \in S}
<1>1. D \in SUBSET Nat /\ D # {}
  <2>1. \A x \in S : bound - x \in Nat
    OBVIOUS
  <2> QED  BY <2>1
<1>2. PICK n \in D : \A m \in D : n <= m
  BY <1>1, LeastNatural
<1>3. PICK g \in S : n = bound - g
  BY <1>2
<1>4. \A x \in S : bound - g <= bound - x
  BY <1>2, <1>3
<1> QED  BY <1>3, <1>4

(* The same two facts as principles of induction: a set of naturals, or of   *)
(* subsets of a finite set, that is closed under the step has them all.      *)
LEMMA NaturalInduction ==
  ASSUME NEW Good, 0 \in Good, \A n \in Nat : n \in Good => n + 1 \in Good
  PROVE  Nat \subseteq Good
<1> SUFFICES ASSUME Nat \ Good # {} PROVE FALSE
  OBVIOUS
<1>1. PICK n \in Nat \ Good : \A m \in Nat \ Good : n <= m
  BY LeastNatural
<1>2. n - 1 \in Nat /\ n - 1 \in Good
  BY <1>1
<1> QED  BY <1>1, <1>2

(* What holds at lo, and at n + 1 if at n, holds from lo on.                 *)
LEMMA InductionFrom ==
  ASSUME NEW lo \in Int, NEW hi \in Int, NEW Good, lo \in Good,
         \A n \in lo .. hi - 1 : n \in Good => n + 1 \in Good
  PROVE  \A n \in lo .. hi : n \in Good
<1> SUFFICES ASSUME NEW n \in lo .. hi, n \notin Good  PROVE FALSE
  OBVIOUS
<1> DEFINE Bad == {k \in Nat : lo + k <= hi /\ lo + k \notin Good}
<1>1. n - lo \in Bad
  <2>1. n - lo \in Nat /\ lo + (n - lo) = n
    OBVIOUS
  <2> QED  BY <2>1
<1>2. PICK k \in Bad : \A m \in Bad : k <= m
  <2>1. Bad \in SUBSET Nat /\ Bad # {}
    BY <1>1
  <2> HIDE DEF Bad
  <2> QED  BY <2>1, LeastNatural
<1>3. k # 0
  BY <1>2
<1>4. k - 1 \in Nat /\ k - 1 \notin Bad
  BY <1>2, <1>3
<1>5. lo + (k - 1) \in lo .. hi - 1 /\ lo + (k - 1) \in Good
  BY <1>2, <1>3, <1>4
<1>6. lo + (k - 1) + 1 \in Good
  BY <1>5
<1>7. lo + (k - 1) + 1 = lo + k
  BY <1>2
<1> QED  BY <1>2, <1>6, <1>7

LEMMA SmallerSubset ==
  ASSUME NEW S, IsFiniteSet(S), NEW s \in SUBSET S, NEW x \in s
  PROVE  /\ IsFiniteSet(s) /\ Cardinality(s) \in Nat
         /\ s \ {x} \in SUBSET S
         /\ Cardinality(s \ {x}) = Cardinality(s) - 1
  BY FS_Subset, FS_RemoveElement, FS_CardinalityType

Inductive(Good, S) ==
  \A s \in SUBSET S : (\A x \in s : s \ {x} \in Good) => s \in Good

LEMMA SubsetInduction ==
  ASSUME NEW S, IsFiniteSet(S), NEW Good, Inductive(Good, S)
  PROVE  SUBSET S \subseteq Good
<1> DEFINE Bad == (SUBSET S) \ Good
           Sizes == {Cardinality(s) : s \in Bad}
<1> SUFFICES ASSUME Bad # {} PROVE FALSE
  OBVIOUS
<1>1. Sizes \in SUBSET Nat /\ Sizes # {}
  BY FS_CardinalityType, FS_Subset
<1>2. PICK n \in Sizes : \A m \in Sizes : n <= m
  BY <1>1, LeastNatural
<1>3. PICK s \in Bad : n = Cardinality(s)
  BY <1>2
<1>4. ASSUME NEW x \in s  PROVE s \ {x} \in Good
  <2>1. /\ s \ {x} \in SUBSET S
        /\ Cardinality(s) \in Nat
        /\ Cardinality(s \ {x}) = Cardinality(s) - 1
    BY SmallerSubset
  <2>2. s \ {x} \in Bad => Cardinality(s \ {x}) \in Sizes
    OBVIOUS
  <2> HIDE DEF Sizes
  <2> QED  BY <1>2, <1>3, <2>1, <2>2
<1> QED  BY <1>4 DEF Inductive

-----------------------------------------------------------------------------
(* Division.                                                                 *)

LEMMA DivMod ==
  ASSUME NEW a \in Int, NEW b \in Nat \ {0}
  PROVE  /\ a \div b \in Int /\ a % b \in 0 .. b - 1
         /\ a = b * (a \div b) + (a % b)
         /\ a \in Nat => a \div b \in Nat
  OBVIOUS

LEMMA DivModUnique ==
  ASSUME NEW q \in Nat, NEW r \in Nat, NEW b \in Nat \ {0}, r < b
  PROVE  (b * q + r) \div b = q /\ (b * q + r) % b = r
  OBVIOUS

-----------------------------------------------------------------------------
(* Folds.  The community modules fold a set through a function defined by    *)
(* recursion on its subsets; that such a function exists, and that its value *)
(* does not depend on which element is taken first, is shown for a step that *)
(* is a function and commutes.                                               *)

Pick(s) == CHOOSE x \in s : TRUE

FoldsTo(F, S, V, base, step) ==
  /\ F \in [SUBSET S -> V]
  /\ F = [s \in SUBSET S |-> IF s = {} THEN base ELSE step[<<Pick(s), F[s \ {Pick(s)}]>>]]

Commutes(step, S, V) ==
  /\ step \in [S \X V -> V]
  /\ \A x, y \in S : \A v \in V : step[<<x, step[<<y, v>>]>>] = step[<<y, step[<<x, v>>]>>]

(* Whichever element is taken first.                                         *)
TakesAny(F, S, step) == \A s \in SUBSET S : \A x \in s : F[s] = step[<<x, F[s \ {x}]>>]

LEMMA FoldExists ==
  ASSUME NEW S, IsFiniteSet(S), NEW V, NEW base \in V, NEW step \in [S \X V -> V]
  PROVE  \E F : FoldsTo(F, S, V, base, step)
<1> DEFINE Upto(n) == {s \in SUBSET S : Cardinality(s) <= n}
           Val(g, s) == IF s = {} THEN base ELSE step[<<Pick(s), g[s \ {Pick(s)}]>>]
           Has(n) == \E g \in [Upto(n) -> V] : \A s \in Upto(n) : g[s] = Val(g, s)
           Good == {n \in Nat : Has(n)}
<1>1. 0 \in Good
  <2> DEFINE g == [s \in Upto(0) |-> base]
  <2>1. \A s \in Upto(0) : s = {}
    BY FS_EmptySet, FS_Subset, FS_CardinalityType
  <2>2. g \in [Upto(0) -> V] /\ \A s \in Upto(0) : g[s] = Val(g, s)
    BY <2>1
  <2> QED  BY <2>2
<1>2. ASSUME NEW n \in Nat, n \in Good  PROVE n + 1 \in Good
  <2>1. PICK g \in [Upto(n) -> V] : \A s \in Upto(n) : g[s] = Val(g, s)
    BY <1>2
  <2> DEFINE h == [s \in Upto(n + 1) |-> Val(g, s)]
  <2>2. ASSUME NEW s \in Upto(n + 1), s # {}
        PROVE  Pick(s) \in s /\ s \ {Pick(s)} \in Upto(n)
    <3>1. Pick(s) \in s
      BY <2>2 DEF Pick
    <3> QED  BY <3>1, SmallerSubset
  <2>3. \A s \in Upto(n) : s \in Upto(n + 1) /\ h[s] = g[s]
    <3>1. \A s \in SUBSET S : Cardinality(s) \in Nat
      BY FS_Subset, FS_CardinalityType
    <3> QED  BY <2>1, <3>1
  <2>4. ASSUME NEW s \in Upto(n + 1)  PROVE Val(g, s) \in V /\ Val(g, s) = Val(h, s)
    BY <2>1, <2>2, <2>3
  <2>5. h \in [Upto(n + 1) -> V] /\ \A s \in Upto(n + 1) : h[s] = Val(h, s)
    BY <2>4
  <2>6. Has(n + 1)
    <3> HIDE DEF h, Upto, Val
    <3> QED  BY <2>5
  <2> HIDE DEF Has
  <2> QED  BY <2>6
<1>3. Nat \subseteq Good
  <2> HIDE DEF Good
  <2> QED  BY <1>1, <1>2, NaturalInduction
<1>4. Cardinality(S) \in Nat /\ Upto(Cardinality(S)) = SUBSET S
  BY FS_Subset, FS_CardinalityType
<1>5. Has(Cardinality(S))
  <2> HIDE DEF Has
  <2> QED  BY <1>3, <1>4
<1>6. PICK F \in [SUBSET S -> V] : \A s \in SUBSET S : F[s] = Val(F, s)
  BY <1>4, <1>5
<1> QED  BY <1>6 DEF FoldsTo

(* Any element may be taken first.                                           *)
LEMMA FoldCommutes ==
  ASSUME NEW S, IsFiniteSet(S), NEW V, NEW base \in V, NEW step, Commutes(step, S, V),
         NEW F, FoldsTo(F, S, V, base, step)
  PROVE  TakesAny(F, S, step)
<1> USE DEF Commutes, FoldsTo, TakesAny
<1> DEFINE Good == {s \in SUBSET S : \A x \in s : F[s] = step[<<x, F[s \ {x}]>>]}
<1>1. ASSUME NEW s \in SUBSET S, \A x \in s : s \ {x} \in Good, NEW x \in s
      PROVE  F[s] = step[<<x, F[s \ {x}]>>]
  <2> DEFINE y == Pick(s)
  <2>1. y \in s /\ F[s] = step[<<y, F[s \ {y}]>>]
    BY DEF Pick
  <2>2. CASE x = y
    BY <2>1, <2>2
  <2>3. CASE x # y
    <3> DEFINE r == (s \ {y}) \ {x}
    <3>1. F[s \ {y}] = step[<<x, F[r]>>]
      BY <1>1, <2>1, <2>3
    <3>2. F[s \ {x}] = step[<<y, F[r]>>]
      <4>1. r = (s \ {x}) \ {y}
        OBVIOUS
      <4> HIDE DEF r
      <4> QED  BY <1>1, <2>1, <2>3, <4>1
    <3>3. F[r] \in V /\ x \in S /\ y \in S
      BY <2>1
    <3>4. step[<<y, step[<<x, F[r]>>]>>] = step[<<x, step[<<y, F[r]>>]>>]
      <4> HIDE DEF y, r
      <4>1. \A v \in V : step[<<y, step[<<x, v>>]>>] = step[<<x, step[<<y, v>>]>>]
        BY <3>3, Zenon
      <4> QED  BY <3>3, <4>1, Zenon
    <3> HIDE DEF y, r
    <3> QED  BY <2>1, <3>1, <3>2, <3>4
  <2> QED  BY <2>2, <2>3
<1>2. SUBSET S \subseteq Good
  <2>1. Inductive(Good, S)
    BY <1>1 DEF Inductive
  <2> HIDE DEF Good
  <2> QED  BY <2>1, SubsetInduction
<1> QED  BY <1>2

-----------------------------------------------------------------------------
(* Sums.                                                                     *)

SumBody(f, T, g) ==
  [s \in SUBSET T |-> IF s = {} THEN 0 ELSE f[Pick(s)] + g[s \ {Pick(s)}]]

SumsTo(F, f, S) == F \in [SUBSET S -> Nat] /\ F = SumBody(f, S, F)

LEMMA SumIsChosen ==
  ASSUME NEW f, NEW T
  PROVE  SumFunctionOnSet(f, T) = (CHOOSE g : g = SumBody(f, T, g))[T]
  BY Zenon DEF SumFunctionOnSet, FoldFunctionOnSet, MapThenFoldSet, SumBody, Pick

(* Whatever satisfies the recursion on the subsets of S is the sum there.    *)
LEMMA SumValue ==
  ASSUME NEW S, IsFiniteSet(S), NEW f, NEW F, SumsTo(F, f, S), NEW T \in SUBSET S
  PROVE  SumFunctionOnSet(f, T) = F[T]
<1> USE DEF SumsTo
<1> DEFINE R == [s \in SUBSET T |-> F[s]]
           Iter == CHOOSE g : g = SumBody(f, T, g)
           Good == {s \in SUBSET T : Iter[s] = F[s]}
<1>1. ASSUME NEW s \in SUBSET S, s # {}
      PROVE  Pick(s) \in s /\ F[s] = f[Pick(s)] + F[s \ {Pick(s)}]
  BY <1>1 DEF SumBody, Pick
<1>2. F[{}] = 0
  BY DEF SumBody
<1>3. R = SumBody(f, T, R)
  BY <1>1, <1>2 DEF SumBody
<1>4. Iter = SumBody(f, T, Iter)
  <2> HIDE DEF R
  <2> QED  BY <1>3, Zenon
<1> HIDE DEF Iter
<1>5. ASSUME NEW s \in SUBSET T, \A x \in s : s \ {x} \in Good  PROVE s \in Good
  <2>1. CASE s = {}
    BY <1>2, <1>4, <2>1 DEF SumBody
  <2>2. CASE s # {}
    <3>1. Pick(s) \in s /\ F[s] = f[Pick(s)] + F[s \ {Pick(s)}]
      BY <1>1, <2>2
    <3>2. Iter[s] = f[Pick(s)] + Iter[s \ {Pick(s)}]
      BY <1>4, <2>2 DEF SumBody
    <3> QED  BY <1>5, <3>1, <3>2
  <2> QED  BY <2>1, <2>2
<1>6. T \in Good
  <2>1. IsFiniteSet(T)
    BY FS_Subset
  <2>2. Inductive(Good, T)
    BY <1>5 DEF Inductive
  <2> HIDE DEF Good
  <2>3. SUBSET T \subseteq Good
    BY <2>1, <2>2, SubsetInduction
  <2> QED  BY <2>3
<1>7. SumFunctionOnSet(f, T) = Iter[T]
  BY SumIsChosen DEF Iter
<1> QED  BY <1>6, <1>7

(* The sum over a set is a natural number, 0 over the empty set, and any     *)
(* element may be taken off it.                                              *)
LEMMA SumFacts ==
  ASSUME NEW S, IsFiniteSet(S), NEW f, \A x \in S : f[x] \in Nat
  PROVE  /\ SumFunctionOnSet(f, {}) = 0
         /\ \A s \in SUBSET S : SumFunctionOnSet(f, s) \in Nat
         /\ \A s \in SUBSET S : \A x \in s :
              SumFunctionOnSet(f, s) = f[x] + SumFunctionOnSet(f, s \ {x})
<1>1. PICK step : /\ step \in [S \X Nat -> Nat]
                  /\ \A x \in S : \A v \in Nat : step[<<x, v>>] = f[x] + v
  <2> DEFINE add == [p \in S \X Nat |-> f[p[1]] + p[2]]
  <2>1. add \in [S \X Nat -> Nat]
    OBVIOUS
  <2>2. \A x \in S : \A v \in Nat : add[<<x, v>>] = f[x] + v
    OBVIOUS
  <2> HIDE DEF add
  <2> QED  BY <2>1, <2>2
<1>3. Commutes(step, S, Nat)
  <2> SUFFICES ASSUME NEW x \in S, NEW y \in S, NEW v \in Nat
               PROVE  step[<<x, step[<<y, v>>]>>] = step[<<y, step[<<x, v>>]>>]
    BY <1>1 DEF Commutes
  <2>1. f[x] \in Nat /\ f[y] \in Nat /\ f[x] + v \in Nat /\ f[y] + v \in Nat
    OBVIOUS
  <2> QED  BY <1>1, <2>1
<1>4. PICK F : FoldsTo(F, S, Nat, 0, step)
  BY <1>1, FoldExists
<1>5. \A s \in SUBSET S : \A x \in s : F[s] = step[<<x, F[s \ {x}]>>]
  <2>1. PICK zero \in Nat : zero = 0
    OBVIOUS
  <2>2. FoldsTo(F, S, Nat, zero, step)
    BY <1>4, <2>1
  <2>3. TakesAny(F, S, step)
    BY <1>3, <2>2, FoldCommutes
  <2> QED  BY <2>3 DEF TakesAny
<1>6. \A s \in SUBSET S : \A x \in s : F[s] = f[x] + F[s \ {x}]
  BY <1>1, <1>4, <1>5 DEF FoldsTo
<1>7. F[{}] = 0
  BY <1>4 DEF FoldsTo
<1>8. SumsTo(F, f, S)
  <2>1. \A s \in SUBSET S : s # {} => Pick(s) \in s
    BY DEF Pick
  <2>2. \A s \in SUBSET S : F[s] = IF s = {} THEN 0 ELSE f[Pick(s)] + F[s \ {Pick(s)}]
    BY <1>6, <1>7, <2>1
  <2> QED  BY <1>4, <2>2 DEF SumBody, SumsTo, FoldsTo
<1>9. \A s \in SUBSET S : SumFunctionOnSet(f, s) = F[s]
  BY <1>8, SumValue
<1>10. SumFunctionOnSet(f, {}) = 0
  BY <1>7, <1>9
<1>11. \A s \in SUBSET S : SumFunctionOnSet(f, s) \in Nat
  <2>1. \A s \in SUBSET S : F[s] \in Nat
    BY <1>4 DEF FoldsTo
  <2> QED  BY <1>9, <2>1
<1>12. ASSUME NEW s \in SUBSET S, NEW x \in s
       PROVE  SumFunctionOnSet(f, s) = f[x] + SumFunctionOnSet(f, s \ {x})
  BY <1>6, <1>9
<1> QED  BY <1>10, <1>11, <1>12

(* The sum over two sets apart is that of the two sums.                      *)
LEMMA SumOfUnion ==
  ASSUME NEW S, IsFiniteSet(S), NEW f, \A x \in S : f[x] \in Nat,
         NEW A \in SUBSET S, NEW B \in SUBSET S, A \cap B = {}
  PROVE  SumFunctionOnSet(f, A \cup B) = SumFunctionOnSet(f, A) + SumFunctionOnSet(f, B)
<1> DEFINE Sum(s) == SumFunctionOnSet(f, s)
           Good == {b \in SUBSET B : Sum(A \cup b) = Sum(A) + Sum(b)}
<1>1. /\ Sum({}) = 0
      /\ \A s \in SUBSET S : Sum(s) \in Nat
      /\ \A s \in SUBSET S : \A x \in s : Sum(s) = f[x] + Sum(s \ {x})
  BY SumFacts
<1> HIDE DEF Sum
<1>2. ASSUME NEW b \in SUBSET B, \A x \in b : b \ {x} \in Good  PROVE b \in Good
  <2>1. CASE b = {}
    BY <1>1, <2>1
  <2>2. CASE b # {}
    <3>1. PICK x \in b : TRUE
      BY <2>2
    <3>2. (A \cup b) \ {x} = A \cup (b \ {x}) /\ A \cup b \in SUBSET S /\ x \in A \cup b
      OBVIOUS
    <3>3. Sum(A \cup b) = f[x] + Sum(A \cup (b \ {x})) /\ Sum(b) = f[x] + Sum(b \ {x})
      BY <1>1, <3>2
    <3>4. Sum(A \cup (b \ {x})) = Sum(A) + Sum(b \ {x})
      BY <1>2
    <3>5. f[x] \in Nat /\ Sum(A) \in Nat /\ Sum(b \ {x}) \in Nat
      BY <1>1
    <3> QED  BY <3>3, <3>4, <3>5
  <2> QED  BY <2>1, <2>2
<1>3. SUBSET B \subseteq Good
  <2>1. IsFiniteSet(B)
    BY FS_Subset
  <2>2. Inductive(Good, B)
    BY <1>2 DEF Inductive
  <2> HIDE DEF Good
  <2> QED  BY <2>1, <2>2, SubsetInduction
<1> QED  BY <1>3 DEF Sum

(* A sum is at most another if what it adds up is matched, one for one, by   *)
(* what the other adds up and by no less.                                    *)
Matched(f, A, g, B, h) ==
  /\ \A x \in A : f[x] # 0 => h[x] \in B /\ f[x] <= g[h[x]]
  /\ \A x, y \in A : f[x] # 0 /\ f[y] # 0 /\ h[x] = h[y] => x = y

LEMMA SumBound ==
  ASSUME NEW A, IsFiniteSet(A), NEW B, IsFiniteSet(B),
         NEW f, \A x \in A : f[x] \in Nat, NEW g, \A y \in B : g[y] \in Nat,
         NEW h, Matched(f, A, g, B, h)
  PROVE  SumFunctionOnSet(f, A) <= SumFunctionOnSet(g, B)
<1> DEFINE F(s) == SumFunctionOnSet(f, s)
           G(s) == SumFunctionOnSet(g, s)
           Image(s) == {h[x] : x \in {y \in s : f[y] # 0}}
           Good == {s \in SUBSET A : F(s) <= G(Image(s))}
<1>1. /\ F({}) = 0
      /\ \A s \in SUBSET A : F(s) \in Nat
      /\ \A s \in SUBSET A : \A x \in s : F(s) = f[x] + F(s \ {x})
  BY SumFacts
<1>2. /\ G({}) = 0
      /\ \A s \in SUBSET B : G(s) \in Nat
      /\ \A s \in SUBSET B : \A x \in s : G(s) = g[x] + G(s \ {x})
  BY SumFacts
<1>3. \A s \in SUBSET A : Image(s) \in SUBSET B
  BY DEF Matched
<1> HIDE DEF F, G
<1>4. ASSUME NEW s \in SUBSET A, \A x \in s : s \ {x} \in Good  PROVE s \in Good
  <2>1. CASE s = {}
    BY <1>1, <1>2, <2>1
  <2>2. CASE s # {}
    <3>1. PICK x \in s : TRUE
      BY <2>2
    <3>2. F(s) = f[x] + F(s \ {x}) /\ F(s \ {x}) <= G(Image(s \ {x}))
      BY <1>1, <1>4
    <3>3. F(s \ {x}) \in Nat /\ G(Image(s)) \in Nat /\ G(Image(s \ {x})) \in Nat
      <4>1. s \ {x} \in SUBSET A
        OBVIOUS
      <4> HIDE DEF Image
      <4> QED  BY <1>1, <1>2, <1>3, <4>1
    <3>4. CASE f[x] = 0
      <4>1. Image(s) = Image(s \ {x})
        BY <3>4
      <4> HIDE DEF Image
      <4> QED  BY <3>2, <3>3, <3>4, <4>1
    <3>5. CASE f[x] # 0
      <4>1. h[x] \in Image(s) /\ f[x] <= g[h[x]] /\ h[x] \in B
        BY <3>5 DEF Matched
      <4>2. Image(s) \ {h[x]} = Image(s \ {x})
        BY <3>5 DEF Matched
      <4>3. G(Image(s)) = g[h[x]] + G(Image(s \ {x}))
        <5> HIDE DEF Image
        <5> QED  BY <1>2, <1>3, <4>1, <4>2
      <4>4. f[x] \in Nat /\ g[h[x]] \in Nat
        BY <4>1
      <4> HIDE DEF Image
      <4>5. F(s) <= G(Image(s))
        BY <3>2, <3>3, <4>1, <4>3, <4>4
      <4> QED  BY <4>5
    <3> QED  BY <3>4, <3>5
  <2> QED  BY <2>1, <2>2
<1>5. F(A) <= G(Image(A))
  <2>1. Inductive(Good, A)
    BY <1>4 DEF Inductive
  <2> HIDE DEF Good
  <2>2. A \in Good
    BY <2>1, SubsetInduction
  <2> QED  BY <2>2 DEF Good
<1>6. G(Image(A)) <= G(B)
  <2> DEFINE I == Image(A)
             R == B \ I
  <2>1. I \in SUBSET B /\ R \in SUBSET B /\ I \cap R = {} /\ I \cup R = B
    BY <1>3
  <2> HIDE DEF I, R
  <2>2. G(B) = G(I) + G(R)
    BY <2>1, SumOfUnion DEF G
  <2>3. G(I) \in Nat /\ G(R) \in Nat
    BY <1>2, <2>1
  <2>4. G(I) <= G(B)
    BY <2>2, <2>3
  <2> QED  BY <2>4 DEF I
<1>7. F(A) \in Nat /\ G(Image(A)) \in Nat /\ G(B) \in Nat
  <2> HIDE DEF Image
  <2> QED  BY <1>1, <1>2, <1>3
<1>8. F(A) <= G(B)
  <2> HIDE DEF Image
  <2> QED  BY <1>5, <1>6, <1>7
<1> QED  BY <1>8 DEF F, G

-----------------------------------------------------------------------------
(* The first posting from a bound on.                                        *)

IsFirstGeq(d, postings, num_docs, lower_bound) ==
  /\ d \in postings \cup {num_docs}
  /\ d >= lower_bound \/ d = num_docs
  /\ \A e \in postings : e >= lower_bound => d <= e

(* There is one, and only one.                                               *)
LEMMA FirstGeqFacts ==
  ASSUME NEW num_docs \in Nat, NEW postings \in SUBSET (0 .. num_docs - 1),
         NEW lower_bound \in Int
  PROVE  /\ IsFirstGeq(FirstGeq(postings, num_docs, lower_bound),
                       postings, num_docs, lower_bound)
         /\ \A d : IsFirstGeq(d, postings, num_docs, lower_bound)
                     => d = FirstGeq(postings, num_docs, lower_bound)
<1> DEFINE Is(d) == IsFirstGeq(d, postings, num_docs, lower_bound)
           From == {e \in postings : e >= lower_bound}
<1>1. \E d \in postings \cup {num_docs} : Is(d)
  <2>1. CASE From = {}
    BY <2>1 DEF IsFirstGeq
  <2>2. CASE From # {}
    <3>1. From \in SUBSET Nat
      <4>1. \A e \in postings : e \in Nat
        OBVIOUS
      <4> QED  BY <4>1
    <3>2. PICK d \in From : \A e \in From : d <= e
      BY <2>2, <3>1, LeastNatural
    <3> QED  BY <3>2 DEF IsFirstGeq
  <2> QED  BY <2>1, <2>2
<1>2. ASSUME NEW c, NEW d, Is(c), Is(d)  PROVE c = d
  <2>1. c \in Int /\ d \in Int /\ \A e \in postings : e \in Int /\ e < num_docs
    BY <1>2 DEF IsFirstGeq
  <2>2. c <= d /\ d <= c
    BY <1>2, <2>1 DEF IsFirstGeq
  <2> QED  BY <2>1, <2>2
<1>3. Is(FirstGeq(postings, num_docs, lower_bound))
  BY <1>1, Zenon DEF FirstGeq, IsFirstGeq
<1> QED  BY <1>2, <1>3

-----------------------------------------------------------------------------
(* A list of n documents below num_docs as a set of postings.                *)

IsList(ds, n, num_docs) ==
  /\ num_docs \in Nat /\ n \in Nat /\ DOMAIN ds = 1 .. n
  /\ \A i \in 1 .. n : ds[i] \in Nat /\ ds[i] < num_docs
  /\ \A i \in 1 .. n, j \in 1 .. n : i < j => ds[i] < ds[j]

(* The first q of them are below lb.                                         *)
FirstAreBelow(ds, n, lb, q) == q \in 0 .. n /\ \A i \in 1 .. n : i <= q <=> ds[i] < lb

LEMMA MembersOf ==
  ASSUME NEW ds, NEW n, NEW num_docs, IsList(ds, n, num_docs)
  PROVE  /\ \A i \in 1 .. n : ds[i] \in ToSet(ds)
         /\ \A d \in ToSet(ds) : \E i \in 1 .. n : d = ds[i]
BY DEF IsList, ToSet

LEMMA FirstGeqOfList ==
  ASSUME NEW ds, NEW n, NEW num_docs, IsList(ds, n, num_docs),
         NEW lb \in Int, NEW q, FirstAreBelow(ds, n, lb, q)
  PROVE  FirstGeq(ToSet(ds), num_docs, lb) = IF q < n THEN ds[q + 1] ELSE num_docs
<1> PICK S : S = ToSet(ds)
  OBVIOUS
<1>1. /\ num_docs \in Nat /\ n \in Nat /\ q \in 0 .. n
      /\ \A i \in 1 .. n : ds[i] \in Nat /\ ds[i] < num_docs /\ ds[i] \in S
      /\ \A i \in 1 .. n, j \in 1 .. n : i < j => ds[i] < ds[j]
      /\ \A i \in 1 .. n : i <= q <=> ds[i] < lb
      /\ \A d \in S : \E i \in 1 .. n : d = ds[i]
  BY MembersOf DEF IsList, FirstAreBelow
<1>2. S \in SUBSET (0 .. num_docs - 1)
  BY <1>1
<1>3. CASE q < n
  <2>1. q + 1 \in 1 .. n /\ ~(q + 1 <= q)
    BY <1>1, <1>3
  <2>2. ds[q + 1] \in S /\ ds[q + 1] \in Nat /\ ds[q + 1] >= lb
    BY <1>1, <2>1
  <2>3. ASSUME NEW d \in S, d >= lb  PROVE ds[q + 1] <= d
    <3>1. PICK i \in 1 .. n : d = ds[i]
      BY <1>1
    <3>2. ~(i <= q) /\ d \in Nat
      BY <1>1, <2>3, <3>1
    <3>3. i = q + 1 \/ q + 1 < i
      BY <1>1, <3>2
    <3> QED  BY <1>1, <2>1, <2>2, <3>1, <3>2, <3>3
  <2>4. IsFirstGeq(ds[q + 1], S, num_docs, lb)
    BY <2>2, <2>3 DEF IsFirstGeq
  <2> QED  BY <1>1, <1>2, <1>3, <2>4, FirstGeqFacts
<1>4. CASE ~(q < n)
  <2>1. ASSUME NEW d \in S  PROVE ~(d >= lb)
    <3>1. PICK i \in 1 .. n : d = ds[i]
      BY <1>1
    <3>2. i <= q
      BY <1>1, <1>4
    <3> QED  BY <1>1, <3>1, <3>2
  <2>2. IsFirstGeq(num_docs, S, num_docs, lb)
    BY <2>1 DEF IsFirstGeq
  <2> QED  BY <1>1, <1>2, <1>4, <2>2, FirstGeqFacts
<1> QED  BY <1>3, <1>4

(* The rank of a document is the number of those before it.                  *)
LEMMA RankOfList ==
  ASSUME NEW ds, NEW n, NEW num_docs, IsList(ds, n, num_docs),
         NEW lb \in Int, NEW q, FirstAreBelow(ds, n, lb, q)
  PROVE  Rank(ToSet(ds), lb) = q
<1> DEFINE S == {d \in ToSet(ds) : d < lb}
           f == [i \in 1 .. q |-> ds[i]]
<1>1. /\ n \in Nat /\ q \in 0 .. n
      /\ \A i \in 1 .. n : ds[i] \in Nat /\ ds[i] \in ToSet(ds)
      /\ \A i \in 1 .. n, j \in 1 .. n : i < j => ds[i] < ds[j]
      /\ \A i \in 1 .. n : i <= q <=> ds[i] < lb
      /\ \A d \in ToSet(ds) : \E i \in 1 .. n : d = ds[i]
  BY MembersOf DEF IsList, FirstAreBelow
<1>2. ASSUME NEW i \in 1 .. q  PROVE i \in 1 .. n /\ ds[i] \in S
  <2>1. i \in 1 .. n /\ i <= q
    BY <1>1
  <2> QED  BY <1>1, <2>1
<1>3. ASSUME NEW i \in 1 .. q, NEW j \in 1 .. q, ds[i] = ds[j]  PROVE i = j
  <2>1. i \in 1 .. n /\ j \in 1 .. n
    BY <1>2
  <2>2. ds[i] \in Nat /\ ds[j] \in Nat /\ ~(i < j) /\ ~(j < i)
    BY <1>1, <1>3, <2>1
  <2> QED  BY <2>1, <2>2
<1>4. ASSUME NEW d \in S  PROVE \E i \in 1 .. q : ds[i] = d
  <2>1. PICK i \in 1 .. n : d = ds[i]
    BY <1>1
  <2>2. i <= q
    BY <1>1, <2>1
  <2> QED  BY <1>1, <2>1, <2>2
<1> HIDE DEF S
<1>5. f \in Bijection(1 .. q, S)
  BY <1>2, <1>3, <1>4 DEF Bijection, Injection, Surjection, IsInjective
<1>6. IsFiniteSet(1 .. q) /\ Cardinality(1 .. q) = q
  <2>1. 1 \in Int /\ q \in Int /\ (IF 1 > q THEN 0 ELSE q - 1 + 1) = q
    BY <1>1
  <2> QED  BY <2>1, FS_Interval
<1>7. Cardinality(S) = q
  <2> HIDE DEF f
  <2>1. ExistsBijection(1 .. q, S)
    BY <1>5 DEF ExistsBijection
  <2> QED  BY <1>6, <2>1, FS_Bijection
<1> QED  BY <1>7, Zenon DEF Rank, S
=============================================================================
