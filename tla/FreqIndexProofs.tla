-------------------------- MODULE FreqIndexProofs ---------------------------
(***************************************************************************)
(* Proofs about FreqIndexEnumerator, for every list in every index of ds2i *)
(* and every way to cut its documents and its frequencies: whatever        *)
(* methods were called, the enumerator answers as the cursor over the      *)
(* postings does, and freq() is that of its document.  The lists of        *)
(* opt_vbyte, whose blocks the proofs leave out, are only model-checked.   *)
(***************************************************************************)
EXTENDS FreqIndexEnumerator, SequenceProofs

-----------------------------------------------------------------------------
(* The sums of positive numbers.                                             *)

LEMMA UptoFinite ==
  ASSUME NEW n \in Nat
  PROVE  IsFiniteSet(0 .. n - 1) /\ IsFiniteSet(1 .. n)
<1>1. 0 \in Int /\ 1 \in Int /\ n \in Int /\ n - 1 \in Int
  OBVIOUS
<1> QED  BY <1>1, FS_Interval

LEMMA SumsStep ==
  ASSUME NEW g, NEW n \in Nat \ {0}, \A i \in 0 .. n - 1 : g[i] \in Nat \ {0}
  PROVE  /\ \A i \in 0 .. n - 1 : Sums(g, n)[i] \in Nat
         /\ Sums(g, n)[0] = g[0]
         /\ \A i \in 0 .. n - 1 : i + 1 < n => Sums(g, n)[i + 1] = Sums(g, n)[i] + g[i + 1]
         /\ Climbs(Sums(g, n), n)
<1> DEFINE F(s) == SumFunctionOnSet(g, s)
           S == 0 .. n - 1
<1>1. IsFiniteSet(S) /\ \A x \in S : g[x] \in Nat
  BY UptoFinite
<1>2. \A i, j \in 0 .. n - 1 : i .. j \in SUBSET S
  OBVIOUS
<1> HIDE DEF S
<1>3. /\ F({}) = 0
      /\ \A s \in SUBSET S : F(s) \in Nat
      /\ \A s \in SUBSET S : \A x \in s : F(s) = g[x] + F(s \ {x})
  BY <1>1, SumFacts
<1>4. ASSUME NEW A \in SUBSET S, NEW B \in SUBSET S, A \cap B = {}
      PROVE  F(A \cup B) = F(A) + F(B)
  BY <1>1, <1>4, SumOfUnion
<1> PICK sums : sums = Sums(g, n)
  OBVIOUS
<1>5. \A i \in 0 .. n - 1 : sums[i] = F(0 .. i)
  BY DEF Sums
<1> HIDE DEF F
<1>6. \A i \in 0 .. n - 1 : 0 .. i \in SUBSET S /\ i .. i \in SUBSET S
  <2>1. 0 \in 0 .. n - 1
    OBVIOUS
  <2> QED  BY <1>2, <2>1, Zenon
<1>7. \A i \in 0 .. n - 1 : sums[i] \in Nat
  BY <1>3, <1>5, <1>6
<1>8. \A i \in 0 .. n - 1 : F(i .. i) = g[i]
  <2> TAKE i \in 0 .. n - 1
  <2> PICK I : I = i .. i
    OBVIOUS
  <2>1. I \in SUBSET S /\ i \in I /\ I \ {i} = {} /\ g[i] \in Nat
    BY <1>6
  <2>2. F(I) = g[i] + F(I \ {i})
    BY <1>3, <2>1, Zenon
  <2> QED  BY <1>3, <2>1, <2>2
<1>9. sums[0] = g[0]
  BY <1>5, <1>8
<1>10. ASSUME NEW i \in 0 .. n - 1, i + 1 < n  PROVE sums[i + 1] = sums[i] + g[i + 1]
  <2>1. i + 1 \in 0 .. n - 1
    BY <1>10
  <2>2. (0 .. i) \cap (i + 1 .. i + 1) = {} /\ (0 .. i) \cup (i + 1 .. i + 1) = 0 .. i + 1
    OBVIOUS
  <2>3. F(0 .. i + 1) = F(0 .. i) + F(i + 1 .. i + 1)
    BY <1>4, <1>6, <2>1, <2>2, Zenon
  <2> QED  BY <1>5, <1>8, <2>1, <2>3, Zenon
<1>11. ASSUME NEW i \in 0 .. n - 1, NEW j \in 0 .. n - 1, i < j  PROVE sums[i] < sums[j]
  <2> PICK rest : rest = i + 1 .. j - 1
    OBVIOUS
  <2> PICK more : more = i + 1 .. j
    OBVIOUS
  <2> PICK upto : upto = 0 .. i
    OBVIOUS
  <2>1. /\ upto \cap more = {} /\ upto \cup more = 0 .. j /\ j \in more /\ more \ {j} = rest
    BY <1>11
  <2>2. upto \in SUBSET S /\ more \in SUBSET S /\ rest \in SUBSET S
    <3>1. i + 1 \in 0 .. n - 1
      BY <1>11
    <3>2. more \in SUBSET S /\ upto \in SUBSET S
      BY <1>2, <1>6, <3>1, Zenon
    <3> QED  BY <2>1, <3>2
  <2>3. F(0 .. j) = F(upto) + F(more)
    BY <1>4, <2>1, <2>2, Zenon
  <2>4. F(more) = g[j] + F(rest)
    <3>1. F(more) = g[j] + F(more \ {j})
      BY <1>3, <2>1, <2>2, Zenon
    <3> QED  BY <2>1, <3>1, Zenon
  <2>5. F(rest) \in Nat /\ F(upto) \in Nat /\ g[j] \in Nat \ {0}
    BY <1>3, <2>2
  <2>6. sums[j] = sums[i] + F(more) /\ sums[i] = F(upto)
    BY <1>5, <2>3, Zenon
  <2> QED  BY <2>4, <2>5, <2>6
<1>12. Climbs(sums, n)
  BY <1>7, <1>11 DEF Climbs
<1> QED  BY <1>7, <1>9, <1>10, <1>12

(* The last is the sum of them all, wherever they are counted from.          *)
LEMMA LastSum ==
  ASSUME NEW f, NEW n \in Nat \ {0}, \A i \in 1 .. n : f[i] \in Nat \ {0},
         NEW g, \A i \in 0 .. n - 1 : g[i] = f[i + 1]
  PROVE  Sums(g, n)[n - 1] = SumFunctionOnSet(f, 1 .. n)
<1> DEFINE F(s) == SumFunctionOnSet(f, s)
           S == 1 .. n
           Good == {i \in 0 .. n - 1 : Sums(g, n)[i] = F(1 .. i + 1)}
<1>1. IsFiniteSet(S) /\ \A x \in S : f[x] \in Nat
  BY UptoFinite
<1>2. \A i \in 0 .. n - 1 : i + 1 \in S /\ 1 .. i + 1 \in SUBSET S
  OBVIOUS
<1>3. \A i \in 0 .. n - 1 : g[i] = f[i + 1] /\ g[i] \in Nat \ {0}
  OBVIOUS
<1> HIDE DEF S
<1>4. /\ F({}) = 0
      /\ \A s \in SUBSET S : F(s) \in Nat
      /\ \A s \in SUBSET S : \A x \in s : F(s) = f[x] + F(s \ {x})
  BY <1>1, SumFacts
<1> PICK sums : sums = Sums(g, n)
  OBVIOUS
<1>5. /\ sums[0] = g[0] /\ \A i \in 0 .. n - 1 : sums[i] \in Nat
      /\ \A i \in 0 .. n - 1 : i + 1 < n => sums[i + 1] = sums[i] + g[i + 1]
  BY <1>3, SumsStep
<1> HIDE DEF F
<1>6. ASSUME NEW i \in 0 .. n - 1  PROVE F(1 .. i + 1) = f[i + 1] + F(1 .. i)
  <2>1. i + 1 \in 1 .. i + 1 /\ (1 .. i + 1) \ {i + 1} = 1 .. i
    OBVIOUS
  <2>2. F(1 .. i + 1) = f[i + 1] + F((1 .. i + 1) \ {i + 1})
    BY <1>2, <1>4, <2>1, Zenon
  <2> QED  BY <2>1, <2>2, Zenon
<1>7. 0 \in Good
  <2>1. 0 \in 0 .. n - 1 /\ 1 .. 0 = {} /\ f[0 + 1] \in Nat
    BY <1>1, <1>2
  <2>2. F(1 .. 0 + 1) = f[0 + 1] + F({})
    BY <1>6, <2>1, Zenon
  <2>3. F(1 .. 0 + 1) = f[0 + 1] + 0
    BY <1>4, <2>2, Zenon
  <2>4. f[0 + 1] + 0 = sums[0]
    BY <1>3, <1>5, <2>1
  <2> QED  BY <2>1, <2>3, <2>4, Zenon
<1>8. ASSUME NEW i \in 0 .. (n - 1) - 1, i \in Good  PROVE i + 1 \in Good
  <2>1. i \in 0 .. n - 1 /\ i + 1 \in 0 .. n - 1 /\ i + 1 < n
    OBVIOUS
  <2>2. sums[i + 1] = F(1 .. i + 1) + f[(i + 1) + 1]
    BY <1>3, <1>5, <1>8, <2>1
  <2>3. F(1 .. (i + 1) + 1) = f[(i + 1) + 1] + F(1 .. i + 1)
    BY <1>6, <2>1, Zenon
  <2>4. f[(i + 1) + 1] \in Nat /\ F(1 .. i + 1) \in Nat
    BY <1>1, <1>2, <1>4, <2>1
  <2> PICK a \in Nat, b \in Nat : a = f[(i + 1) + 1] /\ b = F(1 .. i + 1)
    BY <2>4
  <2>5. sums[i + 1] = b + a /\ F(1 .. (i + 1) + 1) = a + b /\ a + b = b + a
    BY <2>2, <2>3, Zenon, SMT
  <2>6. sums[i + 1] = F(1 .. (i + 1) + 1)
    BY <2>5, Zenon
  <2> QED  BY <2>1, <2>6, Zenon
<1>9. 0 \in Int /\ n - 1 \in Int /\ n - 1 \in 0 .. n - 1 /\ (n - 1) + 1 = n
  OBVIOUS
<1> HIDE DEF Good
<1>10. n - 1 \in Good
  BY <1>7, <1>8, <1>9, InductionFrom
<1> QED  BY <1>9, <1>10 DEF F, Good

-----------------------------------------------------------------------------
(* What is given.                                                            *)

OccurrencesOf(in) == SumFunctionOnSet(in.freqs, DOMAIN in.freqs)

SumsOf(in) == Sums(FromZero(in.freqs), Len(in.docs))

LEMMA GivenDocs ==
  ASSUME NEW in \in Inputs
  PROVE  /\ in.kind \in Kinds /\ Len(in.docs) \in Nat \ {0}
         /\ Universe \in Nat /\ Universe <= IntLimit
         /\ IsList(in.docs, Len(in.docs), Universe)
         /\ \A i \in 0 .. Len(in.docs) - 1 : FromZero(in.docs)[i] = in.docs[i + 1]
         /\ HoldableBits(FromZero(in.docs), Universe, Len(in.docs))
<1>1. /\ Universe \in Nat /\ Universe <= IntLimit
      /\ in.kind \in Kinds /\ in.docs \in Seq(0 .. Universe - 1) /\ in.docs # <<>>
      /\ \A i \in 1 .. Len(in.docs) - 1 : in.docs[i] < in.docs[i + 1]
  BY InputAssumption, PartitionAssumption DEF InputAssumption, PartitionAssumption
<1> PICK v : v = in.docs
  OBVIOUS
<1> PICK n \in Nat \ {0} : n = Len(v)
  BY <1>1
<1>2. DOMAIN v = 1 .. n /\ \A i \in 1 .. n : v[i] \in Nat /\ v[i] < Universe
  BY <1>1
<1>3. \A i \in 1 .. n, j \in 1 .. n : i < j => v[i] < v[j]
  <2>1. \A i \in 1 .. n - 1 : v[i] < v[i + 1]
    BY <1>1
  <2>2. \A i \in 1 .. n : v[i] \in Nat
    BY <1>2
  <2> QED  BY <2>1, <2>2, StepsClimb
<1>4. IsList(v, n, Universe)
  BY <1>1, <1>2, <1>3 DEF IsList
<1> PICK f : f = FromZero(in.docs)
  OBVIOUS
<1>5. \A i \in 0 .. n - 1 : f[i] = v[i + 1]
  BY DEF FromZero
<1>6. \A i \in 0 .. n - 1 : i + 1 \in 1 .. n
  OBVIOUS
<1>7. \A i \in 0 .. n - 1 : f[i] \in Nat /\ f[i] < Universe
  BY <1>2, <1>5, <1>6
<1>8. ASSUME NEW i \in 0 .. n - 1, NEW j \in 0 .. n - 1, i < j  PROVE f[i] < f[j]
  <2>1. i + 1 \in 1 .. n /\ j + 1 \in 1 .. n /\ i + 1 < j + 1
    BY <1>8
  <2>2. v[i + 1] < v[j + 1]
    BY <1>3, <2>1
  <2> QED  BY <1>5, <2>2
<1>9. Climbs(f, n)
  BY <1>7, <1>8 DEF Climbs
<1>10. Rises(f, n)
  <2>1. ASSUME NEW i \in 0 .. n - 1, NEW j \in 0 .. n - 1, i <= j  PROVE f[i] <= f[j]
    <3>1. i = j \/ i < j
      BY <2>1
    <3>2. f[i] \in Nat /\ f[j] \in Nat
      BY <1>7
    <3> QED  BY <1>8, <3>1, <3>2
  <2> QED  BY <1>7, <2>1 DEF Rises
<1>11. HoldableBits(f, Universe, n)
  BY <1>1, <1>7, <1>9, <1>10 DEF HoldableBits, Holdable
<1> QED  BY <1>1, <1>4, <1>5, <1>11

LEMMA ClimbsHold ==
  ASSUME NEW f, NEW n \in Nat \ {0}, Climbs(f, n)
  PROVE  HoldableBits(f, f[n - 1] + 1, n)
<1>1. /\ \A i \in 0 .. n - 1 : f[i] \in Nat
      /\ \A i \in 0 .. n - 1, j \in 0 .. n - 1 : i < j => f[i] < f[j]
  BY DEF Climbs
<1>2. ASSUME NEW i \in 0 .. n - 1, NEW j \in 0 .. n - 1, i <= j  PROVE f[i] <= f[j]
  <2>1. i = j \/ i < j
    BY <1>2
  <2>2. f[i] \in Nat /\ f[j] \in Nat
    BY <1>1
  <2> QED  BY <1>1, <2>1, <2>2
<1>3. n - 1 \in 0 .. n - 1 /\ f[n - 1] \in Nat
  BY <1>1
<1>4. \A i \in 0 .. n - 1 : f[i] < f[n - 1] + 1
  <2> TAKE i \in 0 .. n - 1
  <2>1. f[i] <= f[n - 1] /\ f[i] \in Nat
    BY <1>1, <1>2, <1>3
  <2> QED  BY <1>3, <2>1
<1>5. Rises(f, n)
  BY <1>1, <1>2 DEF Rises
<1>6. f[n - 1] + 1 \in Nat
  BY <1>3
<1> QED  BY <1>4, <1>5, <1>6 DEF HoldableBits, Holdable

LEMMA GivenFreqs ==
  ASSUME NEW in \in Inputs
  PROVE  /\ OccurrencesOf(in) \in Nat \ {0} /\ OccurrencesOf(in) + 1 <= IntLimit
         /\ Len(in.docs) <= OccurrencesOf(in)
         /\ HoldableBits(SumsOf(in), OccurrencesOf(in) + 1, Len(in.docs))
         /\ SumsOf(in)[0] = in.freqs[1]
         /\ \A i \in 1 .. Len(in.docs) - 1 :
              SumsOf(in)[i] - SumsOf(in)[i - 1] = in.freqs[i + 1]
<1>1. /\ in.freqs \in Seq(Nat \ {0}) /\ Len(in.freqs) = Len(in.docs)
      /\ OccurrencesOf(in) < IntLimit /\ IntLimit \in Nat
  BY InputAssumption, PartitionAssumption DEF InputAssumption, PartitionAssumption, OccurrencesOf
<1>2. PICK v : v = in.freqs
  OBVIOUS
<1>3. PICK n \in Nat \ {0} : n = Len(in.docs)
  BY GivenDocs
<1>4. DOMAIN v = 1 .. n /\ \A i \in 1 .. n : v[i] \in Nat \ {0}
  BY <1>1, <1>2, <1>3
<1>5. PICK g : g = FromZero(in.freqs)
  OBVIOUS
<1>6. \A i \in 0 .. n - 1 : g[i] = v[i + 1]
  BY <1>1, <1>2, <1>3, <1>5 DEF FromZero
<1>7. \A i \in 0 .. n - 1 : i + 1 \in 1 .. n
  OBVIOUS
<1>8. \A i \in 0 .. n - 1 : g[i] \in Nat \ {0}
  BY <1>4, <1>6, <1>7
<1>9. PICK sums : sums = Sums(g, n)
  OBVIOUS
<1>10. /\ \A i \in 0 .. n - 1 : sums[i] \in Nat
       /\ sums[0] = g[0]
       /\ \A i \in 0 .. n - 1 : i + 1 < n => sums[i + 1] = sums[i] + g[i + 1]
       /\ Climbs(sums, n)
  BY <1>8, <1>9, SumsStep
<1>11. sums[n - 1] = OccurrencesOf(in)
  <2>1. \A i \in 1 .. n : v[i] \in Nat \ {0}
    BY <1>4
  <2>2. Sums(g, n)[n - 1] = SumFunctionOnSet(v, 1 .. n)
    BY <1>6, <2>1, LastSum
  <2> QED  BY <1>4, <1>2, <1>9, <2>2, Zenon DEF OccurrencesOf
<1>12. 0 \in 0 .. n - 1 /\ n - 1 \in 0 .. n - 1 /\ n - 1 \in Nat
  OBVIOUS
<1>13. sums[0] \in Nat \ {0} /\ sums[0] = v[1]
  <2>1. 0 + 1 = 1
    OBVIOUS
  <2> QED  BY <1>6, <1>8, <1>10, <1>12, <2>1
<1>14. n <= sums[n - 1] /\ sums[n - 1] \in Nat \ {0}
  <2>1. sums[n - 1] - sums[0] >= (n - 1) - 0
    BY <1>10, <1>12, ClimbsApart
  <2>2. sums[n - 1] \in Nat
    BY <1>10, <1>12
  <2> QED  BY <1>13, <2>1, <2>2
<1>15. HoldableBits(sums, OccurrencesOf(in) + 1, n)
  <2>1. Climbs(sums, n)
    BY <1>10
  <2>2. HoldableBits(sums, sums[n - 1] + 1, n)
    BY <2>1, ClimbsHold
  <2> QED  BY <1>11, <2>2, Zenon
<1>16. ASSUME NEW i \in 1 .. n - 1  PROVE sums[i] - sums[i - 1] = v[i + 1]
  <2>1. i \in 0 .. n - 1 /\ i - 1 \in 0 .. n - 1 /\ (i - 1) + 1 < n /\ (i - 1) + 1 = i
    OBVIOUS
  <2>2. sums[i] = sums[i - 1] + g[i] /\ g[i] = v[i + 1]
    BY <1>6, <1>10, <2>1
  <2>3. sums[i - 1] \in Nat /\ g[i] \in Nat
    BY <1>8, <1>10, <2>1
  <2> QED  BY <2>2, <2>3
<1>17. sums = SumsOf(in)
  BY <1>3, <1>5, <1>9, Zenon DEF SumsOf
<1>18. OccurrencesOf(in) + 1 <= IntLimit
  BY <1>1, <1>11, <1>14
<1> QED  BY <1>11, <1>13, <1>14, <1>15, <1>16, <1>17, <1>18, <1>2, <1>3

(* The bits that the length is stored in hold it.                            *)
LEMMA LengthIsStored ==
  ASSUME NEW occurrences \in Nat \ {0}, NEW n \in Nat \ {0}, n <= occurrences
  PROVE  StoredLength(n, occurrences) = n
<1>1. CASE occurrences > 1
  <2>1. /\ (occurrences + 1) - 1 = occurrences /\ occurrences + 1 > 1
        /\ occurrences \in Nat \ {0}
    BY <1>1
  <2> PICK l \in Nat : l = Msb(occurrences) /\ occurrences < Pow2[l + 1]
    BY MsbFacts
  <2>2. CeilLog2(occurrences + 1) = l + 1
    BY <2>1, Zenon DEF CeilLog2
  <2>3. Pow2[l + 1] \in Nat \ {0}
    BY Pow2Facts
  <2>4. n % Pow2[l + 1] = n
    <3> PICK m \in Nat \ {0} : m = Pow2[l + 1]
      BY <2>3
    <3>1. n < m
      OBVIOUS
    <3> QED  BY <3>1
  <2> QED  BY <1>1, <2>2, <2>4, Zenon DEF StoredLength
<1>2. CASE ~(occurrences > 1)
  <2>1. n = 1
    BY <1>2
  <2> QED  BY <1>2, <2>1, Zenon DEF StoredLength
<1> QED  BY <1>1, <1>2

-----------------------------------------------------------------------------
(* What is written, and opened again.                                        *)

LEMMA LayoutHeader ==
  ASSUME NEW uniform, NEW parts, NEW vals, NEW universe, NEW n, NEW ends,
         NEW w, w = Layout(uniform, parts, vals, universe, n, ends)
  PROVE  /\ w = [y \in DOMAIN w |-> w[y]] /\ {"universe", "n"} \subseteq DOMAIN w
         /\ w.universe = universe /\ w.n = n
<1> PICK k : k = Len(ends)
  OBVIOUS
<1>1. CASE k = 1
  <2> PICK base, delta :
         w = [uniform |-> uniform, universe |-> universe, n |-> n, partitions |-> k,
              parts |-> parts, base |-> base, delta |-> delta]
    BY <1>1, Zenon DEF Layout
  <2> QED  OBVIOUS
<1>2. CASE k # 1
  <2> PICK sizes, upper_bounds :
         w = [uniform |-> uniform, universe |-> universe, n |-> n, partitions |-> k,
              parts |-> parts, sizes |-> sizes, upper_bounds |-> upper_bounds]
    BY <1>2, Zenon DEF Layout
  <2> QED  OBVIOUS
<1> QED  BY <1>1, <1>2

(* w is stored as vals were written, and opened as it was.                   *)
BaseStored(w, strict, vals, universe, n, ends) ==
  /\ BaseRight(w, vals, universe, n, ends)
  /\ ~strict => NotStrict(w, ends)
  /\ OpenBase(w, universe, n) = w

LEMMA PartitionedStored ==
  ASSUME NEW vals, NEW universe, NEW n, HoldableBits(vals, universe, n),
         NEW ends, Cuts(ends, n), NEW strict \in BOOLEAN,
         NEW uniform \in BOOLEAN, uniform => ends = UniformEnds(n),
         NEW w, w = PartitionedWrite(uniform, strict, vals, universe, n, ends)
  PROVE  BaseStored(w, strict, vals, universe, n, ends)
<1>1. PartitionedRight(w, vals, universe, n, ends)
  BY PartitionedWritten
<1>2. \A p \in 0 .. Len(ends) - 1 : w.parts[p].strict = strict
  BY PartitionedStrict
<1> PICK parts : w = Layout(uniform, parts, vals, universe, n, ends)
  BY Zenon DEF PartitionedWrite
<1>3. IsPartitioned(w)
  BY LayoutIsPartitioned, Zenon
<1>4. OpenBase(w, universe, n) = w
  <2>1. [w EXCEPT !.universe = universe, !.n = n] = w
    <3>1. /\ w = [y \in DOMAIN w |-> w[y]] /\ {"universe", "n"} \subseteq DOMAIN w
          /\ w.universe = universe /\ w.n = n
      BY LayoutHeader
    <3> QED  BY <3>1, SameHeader
  <2> QED  BY <1>3, <2>1, Zenon DEF OpenBase
<1>5. BaseRight(w, vals, universe, n, ends)
  BY <1>1, <1>3, Zenon DEF BaseRight
<1>6. ~strict => NotStrict(w, ends)
  BY <1>2, <1>3, Zenon DEF NotStrict
<1> QED  BY <1>4, <1>5, <1>6 DEF BaseStored

LEMMA IndexedStored ==
  ASSUME NEW vals, NEW universe, NEW n, HoldableBits(vals, universe, n),
         NEW strict \in BOOLEAN, NEW w, w = IndexedWrite(strict, vals, universe, n)
  PROVE  BaseStored(w, strict, vals, universe, n, <<>>)
<1>1. IndexedRight(w, vals, universe, n)
  BY IndexedWritesRight
<1>2. ~IsPartitioned(w) /\ w.strict = strict
  BY IndexedIsSingle
<1>3. Open(w, universe, n) = w
  BY OpenWritten
<1>4. OpenBase(w, universe, n) = w
  BY <1>2, <1>3, Zenon DEF OpenBase
<1>5. BaseRight(w, vals, universe, n, <<>>)
  BY <1>1, <1>2, Zenon DEF BaseRight
<1>6. ~strict => NotStrict(w, <<>>)
  BY <1>2, Zenon DEF NotStrict
<1> QED  BY <1>4, <1>5, <1>6 DEF BaseStored

LEMMA BaseWritesRight ==
  ASSUME NEW kind \in Kinds, kind # "opt_vbyte",
         NEW vals, NEW universe, NEW n, HoldableBits(vals, universe, n),
         NEW strict \in BOOLEAN, NEW w \in BaseWrite(kind, strict, vals, universe, n)
  PROVE  \E ends : BaseStored(w, strict, vals, universe, n, ends)
<1>1. n \in Nat \ {0}
  BY DEF HoldableBits, Holdable
<1>2. CASE kind = "ef"
  <2>1. w = IndexedWrite(strict, vals, universe, n)
    BY <1>2 DEF BaseWrite
  <2> QED  BY <2>1, IndexedStored
<1>3. CASE kind = "pef_uniform"
  <2>1. BaseWrite(kind, strict, vals, universe, n)
          = {PartitionedWrite(TRUE, strict, vals, universe, n, UniformEnds(n))}
    BY <1>3 DEF BaseWrite
  <2>2. w = PartitionedWrite(TRUE, strict, vals, universe, n, UniformEnds(n))
    BY <2>1
  <2>3. Cuts(UniformEnds(n), n)
    BY <1>1, UniformCut
  <2> QED  BY <2>2, <2>3, PartitionedStored
<1>4. CASE kind = "pef_opt"
  <2>1. BaseWrite(kind, strict, vals, universe, n)
          = {PartitionedWrite(FALSE, strict, vals, universe, n, ends) : ends \in Partitions(n)}
    BY <1>4 DEF BaseWrite
  <2>2. PICK ends \in Partitions(n) :
          w = PartitionedWrite(FALSE, strict, vals, universe, n, ends)
    BY <2>1
  <2>3. Cuts(ends, n)
    BY <1>1, PartitionsCut
  <2> QED  BY <2>2, <2>3, PartitionedStored
<1> QED  BY <1>2, <1>3, <1>4 DEF Kinds

(* l is stored as the list was given.                                        *)
ListRight(in, l, dends, fends) ==
  /\ BaseRight(l.docs, FromZero(in.docs), Universe, Len(in.docs), dends)
  /\ NotStrict(l.docs, dends)
  /\ BaseRight(l.freqs, SumsOf(in), OccurrencesOf(in) + 1, Len(in.docs), fends)

LEMMA WritesAsGiven ==
  ASSUME input \in Inputs, input.kind # "opt_vbyte", list \in Stored
  PROVE  \E dends, fends : ListRight(input, list, dends, fends)
<1> PICK n, kind, occurrences, vals, sums :
       /\ n = N /\ kind = input.kind /\ occurrences = Occurrences
       /\ vals = FromZero(input.docs) /\ sums = Sums(FromZero(input.freqs), N)
  OBVIOUS
<1>1. /\ kind \in Kinds /\ n \in Nat \ {0} /\ occurrences \in Nat \ {0} /\ n <= occurrences
      /\ HoldableBits(vals, Universe, n) /\ HoldableBits(sums, occurrences + 1, n)
  BY GivenDocs, GivenFreqs DEF N, Occurrences, OccurrencesOf, SumsOf
<1>2. StoredLength(N, Occurrences) = n
  BY <1>1, LengthIsStored
<1>3. PICK d \in BaseWrite(kind, FALSE, vals, Universe, n),
           f \in BaseWrite(kind, TRUE, sums, occurrences + 1, n) :
        list = [docs |-> OpenBase(d, Universe, n), freqs |-> OpenBase(f, occurrences + 1, n)]
  <2> PICK docs, freqs :
         /\ docs = BaseWrite(kind, FALSE, vals, Universe, n)
         /\ freqs = BaseWrite(kind, TRUE, sums, occurrences + 1, n)
    OBVIOUS
  <2>1. Stored = {[docs |-> OpenBase(w.docs, Universe, n),
                   freqs |-> OpenBase(w.freqs, occurrences + 1, n)] :
                    w \in {w \in [docs : docs, freqs : freqs] : NotBothCut(w.docs, w.freqs)}}
    BY <1>2, Zenon DEF Stored
  <2>2. PICK w \in [docs : docs, freqs : freqs] :
          list = [docs |-> OpenBase(w.docs, Universe, n),
                  freqs |-> OpenBase(w.freqs, occurrences + 1, n)]
    BY <2>1
  <2>3. w.docs \in docs /\ w.freqs \in freqs
    OBVIOUS
  <2> QED  BY <2>2, <2>3, Zenon
<1>4. PICK dends : BaseStored(d, FALSE, vals, Universe, n, dends)
  BY <1>1, BaseWritesRight
<1>5. PICK fends : BaseStored(f, TRUE, sums, occurrences + 1, n, fends)
  BY <1>1, BaseWritesRight
<1>6. list.docs = d /\ list.freqs = f
  BY <1>3, <1>4, <1>5 DEF BaseStored
<1>7. /\ BaseRight(list.docs, vals, Universe, n, dends) /\ NotStrict(list.docs, dends)
      /\ BaseRight(list.freqs, sums, occurrences + 1, n, fends)
  BY <1>4, <1>5, <1>6, Zenon DEF BaseStored
<1>8. ListRight(input, list, dends, fends)
  BY <1>7, Zenon DEF ListRight, N, Occurrences, OccurrencesOf, SumsOf
<1> QED  BY <1>8

-----------------------------------------------------------------------------
(* The enumerators.                                                          *)

DocidAt(in, p) == IF p < Len(in.docs) THEN in.docs[p + 1] ELSE Universe

(* The enumerator of the documents is at p, that of the frequencies at q,    *)
(* and it remembers the sum there, unless it was never moved.                *)
DocsAt(in, l, dends, docs, p) ==
  BaseAt(l.docs, FromZero(in.docs), Universe, Len(in.docs), dends, docs, p)

FreqsAt(in, l, fends, freqs, q) ==
  /\ BaseAt(l.freqs, SumsOf(in), OccurrencesOf(in) + 1, Len(in.docs), fends, freqs.base, q)
  /\ freqs.position = q
  /\ q < Len(in.docs) => freqs.cur = SumsOf(in)[q]

HasFreqs(in, l, fends, en) ==
  /\ {"pos", "docid", "docs", "freqs"} \subseteq DOMAIN en
  /\ \E q : FreqsAt(in, l, fends, en.freqs, q)

ReadsAt(in, l, dends, fends, en, p) ==
  /\ HasFreqs(in, l, fends, en)
  /\ DocsAt(in, l, dends, en.docs, p)
  /\ en.pos = p /\ en.docid = DocidAt(in, p)

LEMMA DocsPlace ==
  ASSUME input \in Inputs, NEW dends, NEW fends, ListRight(input, list, dends, fends),
         NEW docs, NEW p, DocsAt(input, list, dends, docs, p)
  PROVE  p \in 0 .. N /\ docs.position = p /\ BaseValue(list.docs, docs) = DocidAt(input, p)
<1> PICK n, vals : n = Len(input.docs) /\ vals = FromZero(input.docs)
  OBVIOUS
<1>1. n \in Nat \ {0} /\ \A i \in 0 .. n - 1 : vals[i] = input.docs[i + 1]
  BY GivenDocs
<1>2. /\ BaseRight(list.docs, vals, Universe, n, dends) /\ NotStrict(list.docs, dends)
      /\ BaseAt(list.docs, vals, Universe, n, dends, docs, p)
  BY Zenon DEF ListRight, DocsAt
<1>3. /\ p \in 0 .. n /\ docs.position = p
      /\ p < n => BaseValue(list.docs, docs) = vals[p]
      /\ p = n /\ NotStrict(list.docs, dends) => BaseValue(list.docs, docs) = Universe
  BY <1>2, BasePlace
<1>4. CASE p < n
  <2>1. p \in 0 .. n - 1
    BY <1>1, <1>3, <1>4
  <2> QED  BY <1>1, <1>3, <1>4, <2>1 DEF DocidAt, N
<1>5. CASE ~(p < n)
  <2>1. p = n
    BY <1>1, <1>3, <1>5
  <2> QED  BY <1>2, <1>3, <1>5, <2>1 DEF DocidAt, N
<1> QED  BY <1>4, <1>5

LEMMA AtDocsReads ==
  ASSUME input \in Inputs, NEW dends, NEW fends, ListRight(input, list, dends, fends),
         NEW en, HasFreqs(input, list, fends, en),
         NEW docs, NEW p, DocsAt(input, list, dends, docs, p)
  PROVE  ReadsAt(input, list, dends, fends, AtDocs(en, docs), p)
<1> PICK d : d = BaseValue(list.docs, docs)
  OBVIOUS
<1>1. p \in 0 .. N /\ docs.position = p /\ d = DocidAt(input, p)
  BY DocsPlace
<1> PICK after : after = [en EXCEPT !.pos = docs.position, !.docid = d, !.docs = docs]
  OBVIOUS
<1>2. after = AtDocs(en, docs)
  BY Zenon DEF AtDocs
<1>3. {"pos", "docid", "docs", "freqs"} \subseteq DOMAIN en
  BY DEF HasFreqs
<1>4. /\ {"pos", "docid", "docs", "freqs"} \subseteq DOMAIN after
      /\ after.pos = docs.position /\ after.docid = d /\ after.docs = docs
      /\ after.freqs = en.freqs
  BY <1>3
<1>5. HasFreqs(input, list, fends, after)
  BY <1>4, Zenon DEF HasFreqs
<1>6. ReadsAt(input, list, dends, fends, after, p)
  BY <1>1, <1>4, <1>5, Zenon DEF ReadsAt
<1> QED  BY <1>2, <1>6

LEMMA MoveReads ==
  ASSUME input \in Inputs, NEW dends, NEW fends, ListRight(input, list, dends, fends),
         NEW en, HasFreqs(input, list, fends, en),
         NEW p, DocsAt(input, list, dends, en.docs, p), NEW position, position \in 0 .. N
  PROVE  ReadsAt(input, list, dends, fends, EnumeratorMove(en, position), position)
<1>1. DocsAt(input, list, dends, BaseMove(list.docs, en.docs, position), position)
  <2> PICK n, vals : n = Len(input.docs) /\ vals = FromZero(input.docs)
    OBVIOUS
  <2>1. /\ BaseRight(list.docs, vals, Universe, n, dends)
        /\ BaseAt(list.docs, vals, Universe, n, dends, en.docs, p)
    BY Zenon DEF ListRight, DocsAt
  <2>2. position \in 0 .. n
    BY DEF N
  <2>3. BaseAt(list.docs, vals, Universe, n, dends, BaseMove(list.docs, en.docs, position),
               position)
    BY <2>1, <2>2, BaseMoveAt
  <2> QED  BY <2>3, Zenon DEF DocsAt
<1> QED  BY <1>1, AtDocsReads DEF EnumeratorMove

LEMMA NextReads ==
  ASSUME input \in Inputs, NEW dends, NEW fends, ListRight(input, list, dends, fends),
         NEW en, NEW p, ReadsAt(input, list, dends, fends, en, p), p < N
  PROVE  ReadsAt(input, list, dends, fends, EnumeratorNext(en), p + 1)
<1>1. DocsAt(input, list, dends, BaseNext(list.docs, en.docs), p + 1)
  <2> PICK n, vals : n = Len(input.docs) /\ vals = FromZero(input.docs)
    OBVIOUS
  <2>1. /\ BaseRight(list.docs, vals, Universe, n, dends)
        /\ BaseAt(list.docs, vals, Universe, n, dends, en.docs, p)
    BY Zenon DEF ListRight, ReadsAt, DocsAt
  <2>2. p < n
    BY DEF N
  <2>3. BaseAt(list.docs, vals, Universe, n, dends, BaseNext(list.docs, en.docs), p + 1)
    BY <2>1, <2>2, BaseNextAt
  <2> QED  BY <2>3, Zenon DEF DocsAt
<1>2. HasFreqs(input, list, fends, en)
  BY DEF ReadsAt
<1> QED  BY <1>1, <1>2, AtDocsReads DEF EnumeratorNext

LEMMA NextGeqReads ==
  ASSUME input \in Inputs, NEW dends, NEW fends, ListRight(input, list, dends, fends),
         NEW en, NEW p, ReadsAt(input, list, dends, fends, en, p),
         NEW bound \in Nat, bound <= Universe,
         NEW q, FirstAtLeast(FromZero(input.docs), N, bound, q)
  PROVE  ReadsAt(input, list, dends, fends, EnumeratorNextGeq(en, bound), q)
<1>1. DocsAt(input, list, dends, BaseNextGeq(list.docs, en.docs, bound), q)
  <2> PICK n, vals : n = Len(input.docs) /\ vals = FromZero(input.docs)
    OBVIOUS
  <2>1. /\ BaseRight(list.docs, vals, Universe, n, dends) /\ NotStrict(list.docs, dends)
        /\ BaseAt(list.docs, vals, Universe, n, dends, en.docs, p)
    BY Zenon DEF ListRight, ReadsAt, DocsAt
  <2>2. FirstAtLeast(vals, n, bound, q)
    BY DEF N
  <2>3. BaseAt(list.docs, vals, Universe, n, dends, BaseNextGeq(list.docs, en.docs, bound), q)
    BY <2>1, <2>2, BaseNextGeqAt
  <2> QED  BY <2>3, Zenon DEF DocsAt
<1>2. HasFreqs(input, list, fends, en)
  BY DEF ReadsAt
<1> QED  BY <1>1, <1>2, AtDocsReads DEF EnumeratorNextGeq

(* positive_sequence: the number at p is the sum there less the one before.  *)
LEMMA PositiveAtFreqs ==
  ASSUME input \in Inputs, NEW dends, NEW fends, ListRight(input, list, dends, fends),
         NEW base, NEW p, p \in 0 .. N - 1, NEW prev,
         BaseAt(list.freqs, SumsOf(input), OccurrencesOf(input) + 1, N, fends, base, p)
  PROVE  /\ FreqsAt(input, list, fends, PositiveAt(list.freqs, p, base, prev), p)
         /\ PositiveAt(list.freqs, p, base, prev).value = SumsOf(input)[p] - prev
<1> PICK n, sums, universe :
       n = Len(input.docs) /\ sums = SumsOf(input) /\ universe = OccurrencesOf(input) + 1
  OBVIOUS
<1>1. n \in Nat \ {0} /\ p < n
  BY GivenDocs DEF N
<1>2. /\ BaseRight(list.freqs, sums, universe, n, fends)
      /\ BaseAt(list.freqs, sums, universe, n, fends, base, p)
  BY Zenon DEF ListRight, N
<1>3. BaseValue(list.freqs, base) = sums[p]
  BY <1>1, <1>2, BasePlace
<1> PICK after : after = PositiveAt(list.freqs, p, base, prev)
  OBVIOUS
<1>4. after = [position |-> p, cur |-> sums[p], base |-> base, value |-> sums[p] - prev]
  BY <1>3, Zenon DEF PositiveAt
<1>5. after.position = p /\ after.cur = sums[p] /\ after.base = base /\ after.value = sums[p] - prev
  BY <1>4
<1>6. FreqsAt(input, list, fends, after, p)
  BY <1>2, <1>5, Zenon DEF FreqsAt
<1> QED  BY <1>5, <1>6

LEMMA PositiveMoveAt ==
  ASSUME input \in Inputs, NEW dends, NEW fends, ListRight(input, list, dends, fends),
         NEW freqs, NEW q, FreqsAt(input, list, fends, freqs, q), NEW p, p \in 0 .. N - 1
  PROVE  /\ FreqsAt(input, list, fends, PositiveMove(list.freqs, freqs, p), p)
         /\ PositiveMove(list.freqs, freqs, p).value = input.freqs[p + 1]
<1> PICK sums, universe, s :
       /\ sums = SumsOf(input) /\ universe = OccurrencesOf(input) + 1 /\ s = list.freqs
  OBVIOUS
<1>1. /\ N \in Nat \ {0} /\ p \in Nat /\ p < N
      /\ sums[0] = input.freqs[1]
      /\ \A i \in 1 .. N - 1 : sums[i] - sums[i - 1] = input.freqs[i + 1]
      /\ \A i \in 0 .. N - 1 : sums[i] \in Nat
  BY GivenDocs, GivenFreqs DEF N, HoldableBits, Climbs
<1>2. /\ BaseRight(s, sums, universe, N, fends)
      /\ BaseAt(s, sums, universe, N, fends, freqs.base, q)
      /\ freqs.position = q
      /\ q < N => freqs.cur = sums[q]
  BY Zenon DEF ListRight, FreqsAt, N
<1>3. q \in 0 .. N
  BY <1>2, BasePlace
<1>4. CASE p = 0
  <2>1. p # freqs.position + 1
    BY <1>2, <1>3, <1>4
  <2>2. PositiveMove(s, freqs, p) = PositiveAt(s, 0, BaseMove(s, freqs.base, 0), 0)
    BY <1>4, <2>1, Zenon DEF PositiveMove, PositiveMoveToFirst
  <2>3. 0 \in 0 .. N /\ 0 \in 0 .. N - 1 /\ sums[0] - 0 = sums[0] /\ 0 + 1 = 1
    BY <1>1
  <2>4. BaseAt(s, sums, universe, N, fends, BaseMove(s, freqs.base, 0), 0)
    BY <1>2, <2>3, BaseMoveAt
  <2>5. /\ FreqsAt(input, list, fends, PositiveAt(s, 0, BaseMove(s, freqs.base, 0), 0), 0)
        /\ PositiveAt(s, 0, BaseMove(s, freqs.base, 0), 0).value = sums[0] - 0
    BY <2>3, <2>4, PositiveAtFreqs
  <2> QED  BY <1>1, <1>4, <2>2, <2>3, <2>5, Zenon
<1>5. ASSUME p # 0,
             NEW from, BaseAt(s, sums, universe, N, fends, from, p - 1),
             NEW prev, prev = sums[p - 1],
             PositiveMove(s, freqs, p) = PositiveAt(s, p, BaseNext(s, from), prev)
      PROVE  /\ FreqsAt(input, list, fends, PositiveMove(s, freqs, p), p)
             /\ PositiveMove(s, freqs, p).value = input.freqs[p + 1]
  <2>1. p \in 1 .. N - 1 /\ p - 1 < N /\ (p - 1) + 1 = p
    BY <1>1, <1>5
  <2>2. BaseAt(s, sums, universe, N, fends, BaseNext(s, from), (p - 1) + 1)
    BY <1>2, <1>5, <2>1, BaseNextAt
  <2>3. BaseAt(s, sums, universe, N, fends, BaseNext(s, from), p)
    BY <2>1, <2>2, Zenon
  <2>4. /\ FreqsAt(input, list, fends, PositiveAt(s, p, BaseNext(s, from), prev), p)
        /\ PositiveAt(s, p, BaseNext(s, from), prev).value = sums[p] - prev
    BY <2>3, PositiveAtFreqs
  <2>5. sums[p] - prev = input.freqs[p + 1]
    BY <1>1, <1>5, <2>1
  <2> QED  BY <1>5, <2>4, <2>5, Zenon
<1>6. CASE p # 0 /\ p = freqs.position + 1
  <2>1. q = p - 1 /\ q < N
    BY <1>1, <1>2, <1>3, <1>6
  <2>2. PositiveMove(s, freqs, p) = PositiveAt(s, p, BaseNext(s, freqs.base), freqs.cur)
    BY <1>6, Zenon DEF PositiveMove, PositiveMoveOn
  <2>3. BaseAt(s, sums, universe, N, fends, freqs.base, p - 1) /\ freqs.cur = sums[p - 1]
    BY <1>2, <2>1, Zenon
  <2> QED  BY <1>5, <1>6, <2>2, <2>3, Zenon
<1>7. CASE p # 0 /\ p # freqs.position + 1
  <2> PICK from : from = BaseMove(s, freqs.base, p - 1)
    OBVIOUS
  <2>1. PositiveMove(s, freqs, p) = PositiveAt(s, p, BaseNext(s, from), BaseValue(s, from))
    BY <1>7, Zenon DEF PositiveMove, PositiveMoveOn
  <2>2. p - 1 \in 0 .. N /\ p - 1 < N
    BY <1>1, <1>7
  <2>3. BaseAt(s, sums, universe, N, fends, from, p - 1)
    BY <1>2, <2>2, BaseMoveAt
  <2>4. BaseValue(s, from) = sums[p - 1]
    BY <1>2, <2>2, <2>3, BasePlace
  <2> QED  BY <1>5, <1>7, <2>1, <2>3, <2>4, Zenon
<1> QED  BY <1>4, <1>6, <1>7

LEMMA FreqReads ==
  ASSUME input \in Inputs, NEW dends, NEW fends, ListRight(input, list, dends, fends),
         NEW en, NEW p, ReadsAt(input, list, dends, fends, en, p), p < N
  PROVE  /\ ReadsAt(input, list, dends, fends, EnumeratorFreq(en), p)
         /\ EnumeratorFreq(en).freqs.value = input.freqs[p + 1]
<1>1. /\ {"pos", "docid", "docs", "freqs"} \subseteq DOMAIN en
      /\ DocsAt(input, list, dends, en.docs, p) /\ en.pos = p /\ en.docid = DocidAt(input, p)
  BY DEF ReadsAt, HasFreqs
<1>2. PICK q : FreqsAt(input, list, fends, en.freqs, q)
  BY DEF ReadsAt, HasFreqs
<1>3. p \in 0 .. N - 1
  <2>1. p \in 0 .. N /\ N \in Nat
    BY <1>1, DocsPlace, GivenDocs DEF N
  <2> QED  BY <2>1
<1> PICK freqs : freqs = PositiveMove(list.freqs, en.freqs, p)
  OBVIOUS
<1>4. FreqsAt(input, list, fends, freqs, p) /\ freqs.value = input.freqs[p + 1]
  BY <1>2, <1>3, PositiveMoveAt
<1> PICK after : after = [en EXCEPT !.freqs = freqs]
  OBVIOUS
<1>5. after = EnumeratorFreq(en)
  BY <1>1, Zenon DEF EnumeratorFreq
<1>6. /\ {"pos", "docid", "docs", "freqs"} \subseteq DOMAIN after
      /\ after.pos = en.pos /\ after.docid = en.docid /\ after.docs = en.docs
      /\ after.freqs = freqs
  BY <1>1
<1>7. HasFreqs(input, list, fends, after)
  BY <1>4, <1>6, Zenon DEF HasFreqs
<1>8. ReadsAt(input, list, dends, fends, after, p)
  BY <1>1, <1>6, <1>7, Zenon DEF ReadsAt
<1> QED  BY <1>4, <1>5, <1>6, <1>8

(* A new one is after the last value of either sequence, and brought to the  *)
(* first document.                                                           *)
LEMMA NewReads ==
  ASSUME input \in Inputs, NEW dends, NEW fends, ListRight(input, list, dends, fends)
  PROVE  ReadsAt(input, list, dends, fends, NewEnumerator, 0)
<1> PICK n, vals, sums, universe :
       /\ n = Len(input.docs) /\ vals = FromZero(input.docs)
       /\ sums = SumsOf(input) /\ universe = OccurrencesOf(input) + 1
  OBVIOUS
<1>1. n \in Nat \ {0} /\ Universe <= IntLimit /\ universe <= IntLimit
  BY GivenDocs, GivenFreqs
<1>2. /\ BaseRight(list.docs, vals, Universe, n, dends)
      /\ BaseRight(list.freqs, sums, universe, n, fends)
  BY Zenon DEF ListRight
<1> PICK docs, freqs : docs = BaseNew(list.docs) /\ freqs = PositiveNew(list.freqs)
  OBVIOUS
<1>3. DocsAt(input, list, dends, docs, n)
  <2>1. BaseAt(list.docs, vals, Universe, n, dends, docs, n)
    BY <1>1, <1>2, BaseNewAt
  <2> QED  BY <2>1, Zenon DEF DocsAt
<1>4. FreqsAt(input, list, fends, freqs, n)
  <2>1. BaseAt(list.freqs, sums, universe, n, fends, BaseNew(list.freqs), n)
    BY <1>1, <1>2, BaseNewAt
  <2>2. BaseSize(list.freqs) = n
    <3>1. CASE IsPartitioned(list.freqs)
      <4>1. PartitionedRight(list.freqs, sums, universe, n, fends)
        BY <1>2, <3>1, Zenon DEF BaseRight
      <4>2. list.freqs.n = n
        BY <4>1, Zenon DEF PartitionedRight
      <4> QED  BY <3>1, <4>2, Zenon DEF BaseSize
    <3>2. CASE ~IsPartitioned(list.freqs)
      <4>1. IndexedRight(list.freqs, sums, universe, n)
        BY <1>2, <3>2, Zenon DEF BaseRight
      <4>2. list.freqs.bits.n = n
        BY <4>1, Zenon DEF IndexedRight, EFParts, RBParts
      <4> QED  BY <3>2, <4>2, Zenon DEF BaseSize
    <3> QED  BY <3>1, <3>2
  <2>3. freqs = [position |-> n, cur |-> 0, base |-> BaseNew(list.freqs), value |-> 0]
    BY <2>2, Zenon DEF PositiveNew
  <2>4. freqs.position = n /\ freqs.base = BaseNew(list.freqs) /\ ~(n < n)
    BY <1>1, <2>3
  <2> QED  BY <2>1, <2>4, Zenon DEF FreqsAt
<1> PICK en : en = [pos |-> 0, docid |-> 0, docs |-> docs, freqs |-> freqs]
  OBVIOUS
<1>5. /\ {"pos", "docid", "docs", "freqs"} \subseteq DOMAIN en
      /\ en.docs = docs /\ en.freqs = freqs
  OBVIOUS
<1>6. HasFreqs(input, list, fends, en) /\ DocsAt(input, list, dends, en.docs, n)
  BY <1>3, <1>4, <1>5, Zenon DEF HasFreqs
<1>7. NewEnumerator = EnumeratorMove(en, 0)
  BY Zenon DEF NewEnumerator
<1>8. 0 \in 0 .. N
  BY <1>1 DEF N
<1> QED  BY <1>6, <1>7, <1>8, MoveReads

-----------------------------------------------------------------------------
(* Positions and documents.                                                  *)

LEMMA BelowFromZero ==
  ASSUME NEW in \in Inputs, NEW bound, NEW q,
         FirstAtLeast(FromZero(in.docs), Len(in.docs), bound, q)
  PROVE  FirstAreBelow(in.docs, Len(in.docs), bound, q)
<1> PICK n, ds, f : n = Len(in.docs) /\ ds = in.docs /\ f = FromZero(in.docs)
  OBVIOUS
<1>1. n \in Nat /\ \A i \in 0 .. n - 1 : f[i] = ds[i + 1]
  BY GivenDocs
<1>2. q \in 0 .. n /\ \A i \in 0 .. n - 1 : i < q <=> f[i] < bound
  BY Zenon DEF FirstAtLeast
<1>3. ASSUME NEW i \in 1 .. n  PROVE i <= q <=> ds[i] < bound
  <2>1. i - 1 \in 0 .. n - 1 /\ (i - 1) + 1 = i
    BY <1>1
  <2>2. i - 1 < q <=> i <= q
    BY <1>1, <1>2
  <2>3. i - 1 < q <=> f[i - 1] < bound
    BY <1>2, <2>1
  <2>4. f[i - 1] = ds[i]
    BY <1>1, <2>1
  <2> QED  BY <2>2, <2>3, <2>4
<1> QED  BY <1>2, <1>3 DEF FirstAreBelow

(* p documents come before the one at p, and p + 1 before what follows it.   *)
LEMMA BelowDocid ==
  ASSUME NEW in \in Inputs, NEW p, p \in 0 .. Len(in.docs)
  PROVE  /\ DocidAt(in, p) \in Nat /\ DocidAt(in, p) <= Universe
         /\ p < Len(in.docs) <=> DocidAt(in, p) # Universe
         /\ p < Len(in.docs) => DocidAt(in, p) = in.docs[p + 1] /\ DocidAt(in, p) < Universe
         /\ FirstAreBelow(in.docs, Len(in.docs), DocidAt(in, p), p)
         /\ p < Len(in.docs) =>
              FirstAreBelow(in.docs, Len(in.docs), DocidAt(in, p) + 1, p + 1)
         /\ FirstAreBelow(in.docs, Len(in.docs), 0, 0)
<1> PICK n, ds, d : n = Len(in.docs) /\ ds = in.docs /\ d = DocidAt(in, p)
  OBVIOUS
<1>1. /\ n \in Nat \ {0} /\ Universe \in Nat
      /\ \A i \in 1 .. n : ds[i] \in Nat /\ ds[i] < Universe
      /\ \A i \in 1 .. n, j \in 1 .. n : i < j => ds[i] < ds[j]
  BY GivenDocs DEF IsList
<1>2. p < n => p + 1 \in 1 .. n
  BY <1>1
<1>3. p < n => d = ds[p + 1] /\ d \in Nat /\ d < Universe
  BY <1>1, <1>2 DEF DocidAt
<1>4. ~(p < n) => d = Universe /\ p = n
  BY <1>1 DEF DocidAt
<1>5. d \in Nat /\ d <= Universe /\ (p < n <=> d # Universe)
  BY <1>1, <1>3, <1>4
<1>6. ASSUME NEW i \in 1 .. n
      PROVE  /\ i <= p <=> ds[i] < d
             /\ p < n => (i <= p + 1 <=> ds[i] < d + 1)
             /\ ~(i <= 0) /\ ~(ds[i] < 0)
  <2>1. ds[i] \in Nat /\ ds[i] < Universe /\ p \in Nat
    BY <1>1
  <2>2. CASE p < n
    <3>1. p + 1 \in 1 .. n /\ d = ds[p + 1] /\ d \in Nat
      BY <1>2, <1>3, <2>2
    <3>2. \/ i < p + 1 /\ ds[i] < d
          \/ i = p + 1 /\ ds[i] = d
          \/ p + 1 < i /\ d < ds[i]
      BY <1>1, <2>1, <3>1
    <3> QED  BY <2>1, <3>1, <3>2
  <2>3. CASE ~(p < n)
    BY <1>1, <1>4, <2>1, <2>3
  <2> QED  BY <2>2, <2>3
<1>7. 0 \in 0 .. n /\ (p < n => p + 1 \in 0 .. n)
  BY <1>1
<1>8. /\ FirstAreBelow(ds, n, d, p) /\ FirstAreBelow(ds, n, 0, 0)
      /\ p < n => FirstAreBelow(ds, n, d + 1, p + 1)
  BY <1>6, <1>7 DEF FirstAreBelow
<1> QED  BY <1>3, <1>5, <1>8

LEMMA FirstGeqIs ==
  ASSUME NEW in \in Inputs, NEW bound \in Int, NEW q,
         FirstAreBelow(in.docs, Len(in.docs), bound, q)
  PROVE  FirstGeq(ToSet(in.docs), Universe, bound) = DocidAt(in, q)
<1>1. IsList(in.docs, Len(in.docs), Universe)
  BY GivenDocs
<1> QED  BY <1>1, FirstGeqOfList DEF DocidAt

LEMMA RankIs ==
  ASSUME NEW in \in Inputs, NEW p, p \in 0 .. Len(in.docs)
  PROVE  Rank(ToSet(in.docs), DocidAt(in, p)) = p
<1> PICK d : d = DocidAt(in, p)
  OBVIOUS
<1>1. IsList(in.docs, Len(in.docs), Universe)
  BY GivenDocs
<1>2. d \in Int /\ FirstAreBelow(in.docs, Len(in.docs), d, p)
  BY BelowDocid
<1> QED  BY <1>1, <1>2, RankOfList

-----------------------------------------------------------------------------
(* The invariant.                                                            *)

Ds2i == input.kind # "opt_vbyte"

(* The enumerator is at one position of the documents and at one, mostly     *)
(* another, of the frequencies.                                              *)
IsRead(in, l, en) ==
  \E dends, fends :
    ListRight(in, l, dends, fends) /\ \E p : ReadsAt(in, l, dends, fends, en, p)

Inv == input \in Inputs /\ (Ds2i => IsRead(input, list, e))

(* A step that leaves the enumerator at docid d.                             *)
Moves(d) == IsRead(input, list, e') /\ e'.docid = d /\ UNCHANGED <<input, list>>

LEMMA ReadsMoves ==
  ASSUME NEW dends, NEW fends, ListRight(input, list, dends, fends),
         NEW en, NEW p, ReadsAt(input, list, dends, fends, en, p),
         e' = en, UNCHANGED <<input, list>>
  PROVE  Moves(DocidAt(input, p))
<1>1. ReadsAt(input, list, dends, fends, e', p)
  BY Zenon
<1>2. IsRead(input, list, e')
  BY <1>1, Zenon DEF IsRead
<1>3. e'.docid = DocidAt(input, p)
  BY <1>1, Zenon DEF ReadsAt
<1> QED  BY <1>2, <1>3, Zenon DEF Moves

LEMMA InitReads == Init => Inv
<1> SUFFICES ASSUME Init, Ds2i  PROVE IsRead(input, list, e)
  BY DEF Inv, Init
<1>1. input \in Inputs /\ list \in Stored /\ e = NewEnumerator
  BY DEF Init
<1>2. PICK dends, fends : ListRight(input, list, dends, fends)
  BY <1>1, WritesAsGiven DEF Ds2i
<1>3. ReadsAt(input, list, dends, fends, e, 0)
  BY <1>1, <1>2, NewReads
<1> QED  BY <1>2, <1>3, Zenon DEF IsRead

-----------------------------------------------------------------------------
(* What the calls answer.                                                    *)

LEMMA ResetMoves ==
  ASSUME Inv, Ds2i, Reset
  PROVE  Moves(FirstGeq(ToSet(input.docs), Universe, 0))
<1>1. /\ input \in Inputs /\ N \in Nat \ {0}
      /\ e' = EnumeratorMove(e, 0) /\ UNCHANGED <<input, list>>
  BY GivenDocs DEF Inv, Reset, Call, N
<1>2. PICK dends, fends, p :
        ListRight(input, list, dends, fends) /\ ReadsAt(input, list, dends, fends, e, p)
  BY Zenon DEF Inv, IsRead
<1>3. HasFreqs(input, list, fends, e) /\ DocsAt(input, list, dends, e.docs, p) /\ 0 \in 0 .. N
  BY <1>1, <1>2 DEF ReadsAt
<1>4. ReadsAt(input, list, dends, fends, EnumeratorMove(e, 0), 0)
  BY <1>1, <1>2, <1>3, MoveReads
<1>5. Moves(DocidAt(input, 0))
  BY <1>1, <1>2, <1>4, ReadsMoves
<1>6. FirstAreBelow(input.docs, Len(input.docs), 0, 0)
  BY <1>1, <1>3, BelowDocid DEF N
<1>7. 0 \in Int
  OBVIOUS
<1>8. FirstGeq(ToSet(input.docs), Universe, 0) = DocidAt(input, 0)
  BY <1>1, <1>6, <1>7, FirstGeqIs
<1> QED  BY <1>5, <1>8, Zenon

(* Where the enumerator is.                                                  *)
LEMMA ReadsPlace ==
  ASSUME input \in Inputs, NEW dends, NEW fends, ListRight(input, list, dends, fends),
         NEW en, NEW p, ReadsAt(input, list, dends, fends, en, p)
  PROVE  /\ p \in 0 .. Len(input.docs) /\ en.pos = p
         /\ en.docid = DocidAt(input, p) /\ en.docid \in Nat /\ en.docid <= Universe
         /\ en.docid # Universe <=> p < N
<1>1. p \in 0 .. N
  BY DocsPlace DEF ReadsAt
<1>2. en.docid = DocidAt(input, p) /\ en.pos = p
  BY DEF ReadsAt
<1> QED  BY <1>1, <1>2, BelowDocid DEF N

LEMMA NextMoves ==
  ASSUME Inv, Ds2i, Next
  PROVE  /\ e.docid < Universe
         /\ Moves(FirstGeq(ToSet(input.docs), Universe, e.docid + 1))
<1>1. /\ input \in Inputs /\ N \in Nat \ {0} /\ Universe \in Nat
      /\ e' = EnumeratorNext(e) /\ UNCHANGED <<input, list>> /\ e.docid # Universe
  BY GivenDocs DEF Inv, Next, Call, N, AtEnd
<1>2. PICK dends, fends, p :
        ListRight(input, list, dends, fends) /\ ReadsAt(input, list, dends, fends, e, p)
  BY Zenon DEF Inv, IsRead
<1>3. /\ p \in 0 .. Len(input.docs) /\ e.docid = DocidAt(input, p) /\ e.docid \in Nat
      /\ e.docid <= Universe /\ p < N
  BY <1>1, <1>2, ReadsPlace
<1>4. ReadsAt(input, list, dends, fends, EnumeratorNext(e), p + 1)
  BY <1>1, <1>2, <1>3, NextReads
<1>5. Moves(DocidAt(input, p + 1))
  BY <1>1, <1>2, <1>4, ReadsMoves
<1>6. FirstAreBelow(input.docs, Len(input.docs), e.docid + 1, p + 1)
  BY <1>1, <1>3, BelowDocid DEF N
<1>7. e.docid + 1 \in Int /\ e.docid < Universe
  BY <1>1, <1>3
<1>8. FirstGeq(ToSet(input.docs), Universe, e.docid + 1) = DocidAt(input, p + 1)
  BY <1>1, <1>6, <1>7, FirstGeqIs
<1> QED  BY <1>5, <1>7, <1>8, Zenon

LEMMA SeekMoves ==
  ASSUME Inv, Ds2i, NEW bound \in 0 .. Universe,
         e' = EnumeratorNextGeq(e, bound), UNCHANGED <<input, list>>
  PROVE  Moves(FirstGeq(ToSet(input.docs), Universe, bound))
<1>1. /\ input \in Inputs /\ N \in Nat \ {0} /\ Universe \in Nat
      /\ Rises(FromZero(input.docs), N)
  BY GivenDocs DEF Inv, N, HoldableBits, Holdable
<1>2. PICK dends, fends, p :
        ListRight(input, list, dends, fends) /\ ReadsAt(input, list, dends, fends, e, p)
  BY Zenon DEF Inv, IsRead
<1>3. bound \in Nat /\ bound \in Int /\ bound <= Universe
  BY <1>1
<1>4. PICK q : FirstAtLeast(FromZero(input.docs), N, bound, q)
  BY <1>1, <1>3, FirstAtLeastExists
<1>5. ReadsAt(input, list, dends, fends, EnumeratorNextGeq(e, bound), q)
  BY <1>1, <1>2, <1>3, <1>4, NextGeqReads
<1>6. Moves(DocidAt(input, q))
  BY <1>2, <1>5, ReadsMoves
<1>7. FirstAreBelow(input.docs, Len(input.docs), bound, q)
  BY <1>1, <1>4, BelowFromZero DEF N
<1>8. FirstGeq(ToSet(input.docs), Universe, bound) = DocidAt(input, q)
  BY <1>1, <1>3, <1>7, FirstGeqIs
<1> QED  BY <1>6, <1>8, Zenon

LEMMA SeekOwn ==
  ASSUME Inv, Ds2i
  PROVE  /\ FirstGeq(ToSet(input.docs), Universe, e.docid) = e.docid
         /\ e.docid \in Nat /\ e.docid <= Universe
<1>1. input \in Inputs
  BY DEF Inv
<1>2. PICK dends, fends, p :
        ListRight(input, list, dends, fends) /\ ReadsAt(input, list, dends, fends, e, p)
  BY Zenon DEF Inv, IsRead
<1>3. /\ p \in 0 .. Len(input.docs) /\ e.docid = DocidAt(input, p)
      /\ e.docid \in Nat /\ e.docid <= Universe
  BY <1>1, <1>2, ReadsPlace
<1>4. FirstAreBelow(input.docs, Len(input.docs), e.docid, p) /\ e.docid \in Int
  BY <1>1, <1>3, BelowDocid
<1> QED  BY <1>1, <1>3, <1>4, FirstGeqIs

LEMMA MoveMoves ==
  ASSUME Inv, Ds2i, NEW position \in 0 .. N - 1, Move(position)
  PROVE  /\ position \in 0 .. Universe
         /\ \E d \in ToSet(input.docs) : Rank(ToSet(input.docs), d) = position /\ Moves(d)
<1>1. /\ input \in Inputs /\ N \in Nat \ {0} /\ Universe \in Nat
      /\ e' = EnumeratorMove(e, position) /\ UNCHANGED <<input, list>>
      /\ HoldableBits(FromZero(input.docs), Universe, N)
      /\ IsList(input.docs, N, Universe)
  BY GivenDocs DEF Inv, Move, Call, N
<1>2. PICK dends, fends, p :
        ListRight(input, list, dends, fends) /\ ReadsAt(input, list, dends, fends, e, p)
  BY Zenon DEF Inv, IsRead
<1>3. /\ HasFreqs(input, list, fends, e) /\ DocsAt(input, list, dends, e.docs, p)
      /\ position \in 0 .. N /\ position < N /\ position + 1 \in 1 .. N
  BY <1>1, <1>2 DEF ReadsAt
<1>4. ReadsAt(input, list, dends, fends, EnumeratorMove(e, position), position)
  BY <1>1, <1>2, <1>3, MoveReads
<1>5. Moves(DocidAt(input, position))
  BY <1>1, <1>2, <1>4, ReadsMoves
<1>6. Rank(ToSet(input.docs), DocidAt(input, position)) = position
  BY <1>1, <1>3, RankIs DEF N
<1>7. DocidAt(input, position) \in ToSet(input.docs)
  <2>1. DocidAt(input, position) = input.docs[position + 1]
    BY <1>3 DEF DocidAt, N
  <2> QED  BY <1>1, <1>3, <2>1, MembersOf
<1>8. position \in 0 .. Universe
  <2>1. N <= Universe
    BY <1>1, BitsFacts
  <2> QED  BY <1>1, <2>1
<1> QED  BY <1>5, <1>6, <1>7, <1>8

LEMMA FreqMoves ==
  ASSUME Inv, Ds2i, Freq
  PROVE  Moves(e.docid)
<1>1. /\ input \in Inputs
      /\ e' = EnumeratorFreq(e) /\ UNCHANGED <<input, list>> /\ e.docid # Universe
  BY DEF Inv, Freq, Call, AtEnd
<1>2. PICK dends, fends, p :
        ListRight(input, list, dends, fends) /\ ReadsAt(input, list, dends, fends, e, p)
  BY Zenon DEF Inv, IsRead
<1>3. e.docid = DocidAt(input, p) /\ p < N
  BY <1>1, <1>2, ReadsPlace
<1>4. ReadsAt(input, list, dends, fends, EnumeratorFreq(e), p)
  BY <1>1, <1>2, <1>3, FreqReads
<1>5. Moves(DocidAt(input, p))
  BY <1>1, <1>2, <1>4, ReadsMoves
<1> QED  BY <1>3, <1>5, Zenon

-----------------------------------------------------------------------------
(* The invariant is inductive, and a step of it one of the cursor.           *)

LEMMA MovesKeepInv ==
  ASSUME Inv, NEW d, Ds2i => Moves(d), UNCHANGED <<input, list>>
  PROVE  Inv'
<1>1. input' = input /\ list' = list
  OBVIOUS
<1>2. ASSUME Ds2i'  PROVE IsRead(input', list', e')
  <2>1. Ds2i
    BY <1>1, <1>2 DEF Ds2i
  <2>2. IsRead(input, list, e')
    BY <2>1 DEF Moves
  <2> QED  BY <1>1, <2>2, Zenon
<1> QED  BY <1>1, <1>2 DEF Inv

LEMMA StepReads == Inv /\ [Step]_vars => Inv'
<1> SUFFICES ASSUME Inv, [Step]_vars  PROVE Inv'
  OBVIOUS
<1>1. CASE UNCHANGED vars
  <2>1. input' = input /\ list' = list /\ e' = e
    BY <1>1 DEF vars
  <2> QED  BY <2>1, Zenon DEF Inv, Ds2i
<1>2. CASE Step
  <2>1. UNCHANGED <<input, list>>
    BY <1>2 DEF Step, Reset, Next, Freq, NextGeq, NextGeqNonForward, Move, Call
  <2>2. CASE Reset
    BY <2>1, <2>2, ResetMoves, MovesKeepInv
  <2>3. CASE Next
    BY <2>1, <2>3, NextMoves, MovesKeepInv
  <2>4. CASE Freq
    BY <2>1, <2>4, FreqMoves, MovesKeepInv
  <2>5. ASSUME NEW bound \in e.docid .. Universe, NextGeq(bound)  PROVE Inv'
    <3>1. e' = EnumeratorNextGeq(e, bound)
      BY <2>5 DEF NextGeq, Call
    <3>2. ASSUME Ds2i  PROVE Moves(FirstGeq(ToSet(input.docs), Universe, bound))
      <4>1. bound \in 0 .. Universe
        BY <3>2, SeekOwn
      <4> QED  BY <2>1, <3>1, <3>2, <4>1, SeekMoves
    <3> QED  BY <2>1, <3>2, MovesKeepInv
  <2>6. ASSUME NEW bound \in SeekBounds, NextGeqNonForward(bound)  PROVE Inv'
    <3>1. e' = EnumeratorNextGeq(e, bound)
      BY <2>6 DEF NextGeqNonForward, Call
    <3>2. ASSUME Ds2i  PROVE Moves(FirstGeq(ToSet(input.docs), Universe, bound))
      <4>1. bound \in 0 .. Universe
        BY <3>2 DEF Ds2i, SeekBounds
      <4> QED  BY <2>1, <3>1, <3>2, <4>1, SeekMoves
    <3> QED  BY <2>1, <3>2, MovesKeepInv
  <2>7. ASSUME NEW position \in 0 .. N - 1, Move(position)  PROVE Inv'
    <3>1. CASE Ds2i
      <4>1. PICK d : Moves(d)
        BY <2>7, <3>1, MoveMoves
      <4> QED  BY <2>1, <4>1, MovesKeepInv
    <3>2. CASE ~Ds2i
      BY <2>1, <3>2, MovesKeepInv
    <3> QED  BY <3>1, <3>2
  <2> QED  BY <1>2, <2>2, <2>3, <2>4, <2>5, <2>6, <2>7 DEF Step
<1> QED  BY <1>1, <1>2

LEMMA InvFreqOfDocid == Inv => (Ds2i => FreqOfDocid)
<1> SUFFICES ASSUME Inv, Ds2i
             PROVE  /\ e.pos = Rank(ToSet(input.docs), e.docid)
                    /\ ~AtEnd => EnumeratorFreq(e).freqs.value = input.freqs[e.pos + 1]
  BY DEF FreqOfDocid
<1>1. input \in Inputs
  BY DEF Inv
<1>2. PICK dends, fends, p :
        ListRight(input, list, dends, fends) /\ ReadsAt(input, list, dends, fends, e, p)
  BY Zenon DEF Inv, IsRead
<1>3. /\ p \in 0 .. Len(input.docs) /\ e.pos = p /\ e.docid = DocidAt(input, p)
      /\ e.docid # Universe <=> p < N
  BY <1>1, <1>2, ReadsPlace
<1>4. Rank(ToSet(input.docs), DocidAt(input, p)) = p
  BY <1>1, <1>3, RankIs
<1>5. ASSUME ~AtEnd  PROVE EnumeratorFreq(e).freqs.value = input.freqs[p + 1]
  <2>1. p < N
    BY <1>3, <1>5 DEF AtEnd
  <2> QED  BY <1>1, <1>2, <2>1, FreqReads
<1> QED  BY <1>3, <1>4, <1>5, Zenon

LEMMA SameOperators ==
  /\ \A lb : Cursor!FirstFrom(lb) = FirstGeq(ToSet(input.docs), Universe, lb)
  /\ \A d : Cursor!Rank(ToSet(input.docs), d) = Rank(ToSet(input.docs), d)
<1>1. \A lb : Cursor!FirstFrom(lb) = FirstGeq(ToSet(input.docs), Universe, lb)
  BY Zenon DEF Cursor!FirstFrom, Cursor!FirstGeq, FirstGeq
<1>2. \A d : Cursor!Rank(ToSet(input.docs), d) = Rank(ToSet(input.docs), d)
  BY Zenon DEF Cursor!Rank, Rank, Cursor!Cardinality, Cardinality
<1> QED  BY <1>1, <1>2

LEMMA MovesAnswer ==
  ASSUME NEW op, NEW arg, NEW d, Moves(d), call' = <<op, arg>>
  PROVE  Cursor!Answer(op, arg, d)
<1>1. input' = input /\ e'.docid = d
  BY DEF Moves
<1> QED  BY <1>1, Zenon DEF Cursor!Answer

LEMMA InitIsCursorInit == Init /\ Ds2i => Cursor!CursorInit
<1> SUFFICES ASSUME Init, Ds2i  PROVE Cursor!CursorInit
  OBVIOUS
<1>1. input \in Inputs /\ list \in Stored /\ e = NewEnumerator /\ call = <<"reset", 0>>
  BY DEF Init
<1>2. PICK dends, fends : ListRight(input, list, dends, fends)
  BY <1>1, WritesAsGiven DEF Ds2i
<1>3. ReadsAt(input, list, dends, fends, e, 0)
  BY <1>1, <1>2, NewReads
<1>4. 0 \in 0 .. Len(input.docs) /\ e.docid = DocidAt(input, 0)
  BY <1>1, <1>2, <1>3, ReadsPlace
<1>5. FirstAreBelow(input.docs, Len(input.docs), 0, 0) /\ 0 \in Int
  BY <1>1, <1>4, BelowDocid
<1>6. e.docid = FirstGeq(ToSet(input.docs), Universe, 0)
  BY <1>1, <1>4, <1>5, FirstGeqIs
<1> QED  BY <1>1, <1>6, SameOperators, Zenon DEF Cursor!CursorInit

LEMMA StepsAreCursorSteps ==
  Inv /\ Ds2i /\ [Step]_vars => [Cursor!CursorStep]_(Cursor!cursorVars)
<1> SUFFICES ASSUME Inv, Ds2i, [Step]_vars
             PROVE  Cursor!CursorStep \/ UNCHANGED Cursor!cursorVars
  OBVIOUS
<1>1. CASE UNCHANGED vars
  BY <1>1, Zenon DEF vars, Cursor!cursorVars
<1>2. CASE Reset
  <2>1. call' = <<"reset", 0>>
    BY <1>2 DEF Reset, Call
  <2>2. Moves(Cursor!FirstFrom(0))
    BY <1>2, ResetMoves, SameOperators, Zenon
  <2> QED  BY <2>1, <2>2, MovesAnswer, Zenon DEF Cursor!CursorReset, Cursor!CursorStep
<1>3. CASE Next
  <2>1. call' = <<"next", 0>>
    BY <1>3 DEF Next, Call
  <2>2. Moves(Cursor!FirstFrom(e.docid + 1)) /\ e.docid < Universe
    BY <1>3, NextMoves, SameOperators, Zenon
  <2> QED  BY <2>1, <2>2, MovesAnswer, Zenon DEF Cursor!CursorNext, Cursor!CursorStep
<1>4. CASE Freq
  <2>1. call' = <<"freq", 0>>
    BY <1>4 DEF Freq, Call
  <2>2. Moves(e.docid)
    BY <1>4, FreqMoves
  <2> QED  BY <2>1, <2>2, MovesAnswer, Zenon DEF Cursor!CursorFreq, Cursor!CursorStep
<1>5. ASSUME NEW bound \in e.docid .. Universe, NextGeq(bound)  PROVE Cursor!CursorStep
  <2>1. /\ call' = <<"next_geq", bound>> /\ e' = EnumeratorNextGeq(e, bound)
        /\ UNCHANGED <<input, list>>
    BY <1>5 DEF NextGeq, Call
  <2>2. e.docid \in Nat /\ FirstGeq(ToSet(input.docs), Universe, e.docid) = e.docid
    BY SeekOwn
  <2>3. bound \in 0 .. Universe /\ (~(bound > e.docid) => bound = e.docid)
    BY <2>2
  <2>4. Moves(Cursor!FirstFrom(bound))
    BY <2>1, <2>3, SeekMoves, SameOperators, Zenon
  <2>5. ~(bound > e.docid) => Cursor!FirstFrom(bound) = e.docid
    BY <2>2, <2>3, SameOperators, Zenon
  <2>6. Moves(IF bound > e.docid THEN Cursor!FirstFrom(bound) ELSE e.docid)
    BY <2>4, <2>5, Zenon
  <2> QED  BY <2>1, <2>3, <2>6, MovesAnswer, Zenon DEF Cursor!CursorNextGeq, Cursor!CursorStep
<1>6. ASSUME NEW bound \in SeekBounds, NextGeqNonForward(bound)  PROVE Cursor!CursorStep
  <2>1. /\ call' = <<"next_geq_non_forward", bound>> /\ e' = EnumeratorNextGeq(e, bound)
        /\ UNCHANGED <<input, list>>
    BY <1>6 DEF NextGeqNonForward, Call
  <2>2. bound \in 0 .. Universe
    BY DEF Ds2i, SeekBounds
  <2>3. Moves(Cursor!FirstFrom(bound))
    BY <2>1, <2>2, SeekMoves, SameOperators, Zenon
  <2> QED  BY <2>1, <2>2, <2>3, MovesAnswer, Zenon DEF Cursor!CursorSeek, Cursor!CursorStep
<1>7. ASSUME NEW position \in 0 .. N - 1, Move(position)  PROVE Cursor!CursorStep
  <2>1. call' = <<"move", position>>
    BY <1>7 DEF Move, Call
  <2>2. position \in 0 .. Universe
    BY <1>7, MoveMoves
  <2>3. PICK d \in ToSet(input.docs) : Rank(ToSet(input.docs), d) = position /\ Moves(d)
    BY <1>7, MoveMoves
  <2>4. Cursor!Answer("move", position, d)
    BY <2>1, <2>3, MovesAnswer
  <2>5. Cursor!CursorMove(position)
    BY <2>3, <2>4, SameOperators, Zenon DEF Cursor!CursorMove
  <2> QED  BY <2>2, <2>5, Zenon DEF Cursor!CursorStep
<1> QED  BY <1>1, <1>2, <1>3, <1>4, <1>5, <1>6, <1>7 DEF Step

LEMMA KindStays == Ds2i /\ [Step]_vars => Ds2i'
<1> SUFFICES ASSUME Ds2i, [Step]_vars  PROVE Ds2i'
  OBVIOUS
<1>1. input' = input
  BY DEF vars, Step, Reset, Next, Freq, NextGeq, NextGeqNonForward, Move, Call
<1> QED  BY <1>1 DEF Ds2i

-----------------------------------------------------------------------------
(* The theorems.                                                             *)

(* A list in an index of ds2i is read as it was given, whatever methods of   *)
(* the document_enumerator were called in whatever order.                    *)
THEOREM ListIsRead == Spec => []Inv
<1> QED  BY InitReads, StepReads, PTL DEF Spec

(* In the three indexes of ds2i position(), docid() and freq() belong        *)
(* together, however both sequences are cut and wherever freq() was called.  *)
THEOREM FreqBelongsToDocid == Spec => [](input.kind # "opt_vbyte" => FreqOfDocid)
<1>1. Inv => (input.kind # "opt_vbyte" => FreqOfDocid)
  BY InvFreqOfDocid DEF Ds2i
<1> QED  BY <1>1, ListIsRead, PTL

(* The document_enumerator of the three indexes of ds2i implements the       *)
(* cursor of PostingCursor: queries do not see which index they run on.      *)
THEOREM ListIsACursor == Spec /\ input.kind # "opt_vbyte" => ImplementsCursor
<1>1. Init /\ input.kind # "opt_vbyte" => Inv /\ Ds2i /\ Cursor!CursorInit
  BY InitReads, InitIsCursorInit DEF Ds2i
<1>2. Inv /\ Ds2i /\ [Step]_vars => Inv' /\ Ds2i' /\ [Cursor!CursorStep]_(Cursor!cursorVars)
  BY StepReads, KindStays, StepsAreCursorSteps
<1> QED  BY <1>1, <1>2, PTL DEF Spec, ImplementsCursor, Cursor!CursorSpec
=============================================================================
