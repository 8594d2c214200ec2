--------------------------- MODULE SequenceProofs ---------------------------
(***************************************************************************)
(* Proofs about the encodings of a sequence, for every sequence of values, *)
(* every universe and every sampling of the pointers: what the enumerators *)
(* of compact_elias_fano, compact_ranked_bitvector, indexed_sequence and   *)
(* the partitioned sequences read is what was written, however they got    *)
(* there.                                                                  *)
(***************************************************************************)
EXTENDS PartitionedSequence, CommonProofs

-----------------------------------------------------------------------------
(* Powers of two.  The function is defined by recursion: that there is one   *)
(* is shown by those that go up to n, of which there is one for every n.     *)

Doubles(g, n) ==
  /\ g \in [0 .. n -> Nat \ {0}]
  /\ g[0] = 1
  /\ \A k \in 1 .. n : g[k] = 2 * g[k - 1]

LEMMA DoublesExists ==
  ASSUME NEW n \in Nat
  PROVE  \E g : Doubles(g, n)
<1> DEFINE Good == {m \in Nat : \E g : Doubles(g, m)}
<1>1. 0 \in Good
  <2>1. Doubles([k \in 0 .. 0 |-> 1], 0)
    BY DEF Doubles
  <2> QED  BY <2>1
<1>2. ASSUME NEW m \in 0 .. n - 1, m \in Good  PROVE m + 1 \in Good
  <2>1. PICK g : Doubles(g, m)
    BY <1>2
  <2> DEFINE f == [k \in 0 .. m + 1 |-> IF k = m + 1 THEN 2 * g[m] ELSE g[k]]
  <2>2. g[m] \in Nat \ {0}
    BY <2>1 DEF Doubles
  <2>3. f \in [0 .. m + 1 -> Nat \ {0}]
    BY <2>1, <2>2 DEF Doubles
  <2>4. f[0] = 1
    BY <2>1 DEF Doubles
  <2>5. ASSUME NEW k \in 1 .. m + 1  PROVE f[k] = 2 * f[k - 1]
    <3>1. CASE k = m + 1
      BY <3>1
    <3>2. CASE k # m + 1
      <4>1. k \in 1 .. m /\ k - 1 \in 0 .. m
        BY <3>2
      <4>2. f[k] = g[k] /\ f[k - 1] = g[k - 1]
        BY <4>1
      <4> QED  BY <2>1, <4>1, <4>2 DEF Doubles
    <3> QED  BY <3>1, <3>2
  <2> HIDE DEF f
  <2>6. Doubles(f, m + 1)
    BY <2>3, <2>4, <2>5 DEF Doubles
  <2> QED  BY <2>6
<1> HIDE DEF Good
<1>3. 0 \in Int /\ n \in Int
  OBVIOUS
<1>4. \A m \in 0 .. n : m \in Good
  BY <1>1, <1>2, <1>3, InductionFrom
<1>5. n \in Good
  BY <1>4
<1> QED  BY <1>5 DEF Good

LEMMA DoublesUnique ==
  ASSUME NEW n \in Nat, NEW m \in Nat, NEW f, NEW g, Doubles(f, n), Doubles(g, m), n <= m
  PROVE  \A k \in 0 .. n : f[k] = g[k]
<1> DEFINE Good == {k \in 0 .. n : f[k] = g[k]}
<1>1. 0 \in Good
  BY DEF Doubles
<1>2. ASSUME NEW k \in 0 .. n - 1, k \in Good  PROVE k + 1 \in Good
  <2>1. k + 1 \in 1 .. n /\ k + 1 \in 1 .. m /\ k + 1 \in 0 .. n /\ (k + 1) - 1 = k
    OBVIOUS
  <2>2. f[k + 1] = 2 * f[k] /\ g[k + 1] = 2 * g[k]
    BY <2>1 DEF Doubles
  <2>3. f[k] = g[k]
    BY <1>2
  <2> QED  BY <2>1, <2>2, <2>3
<1>3. \A k \in 0 .. n : k \in Good
  <2> HIDE DEF Good
  <2>1. 0 \in Int /\ n \in Int
    OBVIOUS
  <2> QED  BY <1>1, <1>2, <2>1, InductionFrom
<1> QED  BY <1>3

LEMMA Pow2Equation ==
  Pow2 = [k \in Nat |-> IF k = 0 THEN 1 ELSE 2 * Pow2[k - 1]]
<1> DEFINE upTo(n) == CHOOSE g : Doubles(g, n)
           G == [k \in Nat |-> upTo(k)[k]]
<1>1. \A n \in Nat : Doubles(upTo(n), n)
  BY DoublesExists, Zenon
<1> HIDE DEF upTo
<1>2. ASSUME NEW k \in Nat  PROVE G[k] = IF k = 0 THEN 1 ELSE 2 * G[k - 1]
  <2>1. CASE k = 0
    BY <1>1, <2>1 DEF Doubles
  <2>2. CASE k # 0
    <3>1. k - 1 \in Nat /\ k \in 1 .. k /\ k - 1 <= k /\ k - 1 \in 0 .. k - 1
      BY <2>2
    <3>2. upTo(k)[k] = 2 * upTo(k)[k - 1]
      BY <1>1, <3>1 DEF Doubles
    <3>3. Doubles(upTo(k), k) /\ Doubles(upTo(k - 1), k - 1)
      BY <1>1, <3>1
    <3>4. upTo(k - 1)[k - 1] = upTo(k)[k - 1]
      BY <3>1, <3>3, DoublesUnique
    <3>5. G[k] = upTo(k)[k] /\ G[k - 1] = upTo(k - 1)[k - 1]
      BY <3>1
    <3> QED  BY <2>2, <3>2, <3>4, <3>5
  <2> QED  BY <2>1, <2>2
<1>3. G = [k \in Nat |-> IF k = 0 THEN 1 ELSE 2 * G[k - 1]]
  <2>1. G = [k \in Nat |-> G[k]]
    OBVIOUS
  <2> HIDE DEF G
  <2> QED  BY <1>2, <2>1
<1>4. \E g : g = [k \in Nat |-> IF k = 0 THEN 1 ELSE 2 * g[k - 1]]
  <2> HIDE DEF G
  <2> QED  BY <1>3, Zenon
<1> QED  BY <1>4, Zenon DEF Pow2

LEMMA Pow2Facts ==
  /\ Pow2[0] = 1
  /\ \A k \in Nat : Pow2[k + 1] = 2 * Pow2[k] /\ Pow2[k] \in Nat \ {0}
<1>1. ASSUME NEW k \in Nat  PROVE Pow2[k] = IF k = 0 THEN 1 ELSE 2 * Pow2[k - 1]
  <2> DEFINE rest(j) == IF j = 0 THEN 1 ELSE 2 * Pow2[j - 1]
  <2>1. Pow2 = [j \in Nat |-> rest(j)]
    BY Pow2Equation, Zenon
  <2> HIDE DEF rest
  <2>2. Pow2[k] = rest(k)
    BY <2>1
  <2> QED  BY <2>2 DEF rest
<1>2. Pow2[0] = 1
  BY <1>1
<1>3. ASSUME NEW k \in Nat  PROVE Pow2[k + 1] = 2 * Pow2[k]
  <2>1. k + 1 \in Nat /\ k + 1 # 0 /\ (k + 1) - 1 = k
    OBVIOUS
  <2> QED  BY <1>1, <2>1
<1>4. ASSUME NEW n \in Nat  PROVE Pow2[n] \in Nat \ {0}
  <2> DEFINE Good == {k \in Nat : Pow2[k] \in Nat \ {0}}
  <2>1. 0 \in Good
    BY <1>2
  <2>2. \A k \in 0 .. n - 1 : k \in Good => k + 1 \in Good
    BY <1>3
  <2>3. 0 \in Int /\ n \in Int /\ n \in 0 .. n
    OBVIOUS
  <2> HIDE DEF Good
  <2>4. n \in Good
    BY <2>1, <2>2, <2>3, InductionFrom
  <2> QED  BY <2>4 DEF Good
<1> QED  BY <1>2, <1>3, <1>4

(* The most significant bit is there.                                        *)
LEMMA MsbFacts ==
  ASSUME NEW x \in Nat \ {0}
  PROVE  Msb(x) \in Nat /\ Pow2[Msb(x)] <= x /\ x < Pow2[Msb(x) + 1]
<1> DEFINE S == {l \in Nat : x < Pow2[l + 1]}
<1>1. ASSUME NEW n \in Nat  PROVE n < Pow2[n]
  <2> DEFINE Good == {k \in Nat : k < Pow2[k]}
  <2>1. 0 \in Good
    BY Pow2Facts
  <2>2. \A k \in 0 .. n - 1 : k \in Good => k + 1 \in Good
    BY Pow2Facts
  <2>3. 0 \in Int /\ n \in Int /\ n \in 0 .. n
    OBVIOUS
  <2> HIDE DEF Good
  <2>4. n \in Good
    BY <2>1, <2>2, <2>3, InductionFrom
  <2> QED  BY <2>4 DEF Good
<1>2. x \in S
  <2>1. x + 1 \in Nat /\ x + 1 < Pow2[x + 1] /\ Pow2[x + 1] \in Nat
    BY <1>1, Pow2Facts
  <2> QED  BY <2>1
<1>3. PICK l \in S : \A m \in S : l <= m
  <2>1. S \in SUBSET Nat /\ S # {}
    BY <1>2
  <2> HIDE DEF S
  <2> QED  BY <2>1, LeastNatural
<1>4. l \in 0 .. x
  BY <1>2, <1>3
<1>5. Pow2[l] <= x
  <2>1. CASE l = 0
    BY <2>1, Pow2Facts
  <2>2. CASE l # 0
    <3>1. l - 1 \in Nat /\ (l - 1) + 1 = l /\ l - 1 \notin S
      BY <1>3, <2>2
    <3>2. Pow2[l] \in Nat
      BY <3>1, Pow2Facts
    <3> QED  BY <3>1, <3>2
  <2> QED  BY <2>1, <2>2
<1>6. x < Pow2[l + 1]
  BY <1>3
<1>7. Msb(x) \in 0 .. x /\ Pow2[Msb(x)] <= x /\ x < Pow2[Msb(x) + 1]
  BY <1>4, <1>5, <1>6, Zenon DEF Msb
<1> QED  BY <1>7
-----------------------------------------------------------------------------
(* Shifts.                                                                   *)

LEMMA TimesGrows ==
  ASSUME NEW b \in Nat \ {0}, NEW q \in Int, NEW r \in Int, q < r
  PROVE  b * q + b <= b * r
<1>1. q + 1 <= r /\ b * (q + 1) = b * q + b
  OBVIOUS
<1>2. r - (q + 1) \in Nat /\ b * r = b * (q + 1) + b * (r - (q + 1))
  BY <1>1
<1>3. b * (r - (q + 1)) >= 0
  BY <1>2
<1> QED  BY <1>1, <1>2, <1>3

LEMMA DivGrows ==
  ASSUME NEW a \in Int, NEW c \in Int, NEW b \in Nat \ {0}, a <= c
  PROVE  a \div b <= c \div b
<1> PICK q \in Int : q = a \div b
  OBVIOUS
<1> PICK r \in Int : r = c \div b
  OBVIOUS
<1> PICK qm \in 0 .. b - 1 : a = b * q + qm
  BY DivMod
<1> PICK rm \in 0 .. b - 1 : c = b * r + rm
  BY DivMod
<1> SUFFICES ASSUME r < q  PROVE FALSE
  OBVIOUS
<1>1. b * r + b <= b * q
  BY TimesGrows
<1> PICK bq \in Int : bq = b * q
  OBVIOUS
<1> PICK br \in Int : br = b * r
  OBVIOUS
<1> QED  BY <1>1

(* x >> k drops the last k bits.                                             *)
LEMMA ShrFacts ==
  ASSUME NEW x \in Nat, NEW k \in Nat
  PROVE  /\ Shr(x, k) \in Nat
         /\ Shr(x, k) * Pow2[k] \in Nat
         /\ Shr(x, k) * Pow2[k] <= x
         /\ x < Shr(x, k) * Pow2[k] + Pow2[k]
         /\ x = Shr(x, k) * Pow2[k] + (x % Pow2[k])
<1> PICK P \in Nat \ {0} : P = Pow2[k]
  BY Pow2Facts
<1>0. /\ x \div P \in Nat /\ x % P \in 0 .. P - 1
      /\ x = P * (x \div P) + (x % P)
  <2>1. x \in Int
    OBVIOUS
  <2> QED  BY <2>1, DivMod
<1> PICK q \in Nat : q = x \div P
  BY <1>0
<1> PICK m \in 0 .. P - 1 : m = x % P
  BY <1>0
<1>1. x = P * q + m
  BY <1>0
<1>2. Shr(x, k) = q
  BY DEF Shr
<1>3. x % Pow2[k] = m
  OBVIOUS
<1>4. PICK qP \in Nat : qP = q * P /\ qP = P * q
  OBVIOUS
<1>5. x = qP + m
  BY <1>1, <1>4
<1>6. Shr(x, k) * Pow2[k] = qP
  BY <1>2, <1>4, Zenon
<1>7. qP <= x /\ x < qP + P
  BY <1>5
<1> QED  BY <1>2, <1>3, <1>5, <1>6, <1>7, Zenon

LEMMA ShrGrows ==
  ASSUME NEW x \in Nat, NEW y \in Nat, NEW k \in Nat, x <= y
  PROVE  Shr(x, k) <= Shr(y, k)
<1> PICK P \in Nat \ {0} : P = Pow2[k]
  BY Pow2Facts
<1> QED  BY DivGrows DEF Shr

-----------------------------------------------------------------------------
(* Sequences that climb, and their values as a set.                          *)

(* f[0], ..., f[n - 1] are naturals in increasing order.                     *)
Climbs(f, n) ==
  /\ n \in Nat
  /\ \A i \in 0 .. n - 1 : f[i] \in Nat
  /\ \A i \in 0 .. n - 1, j \in 0 .. n - 1 : i < j => f[i] < f[j]

(* The same, though one may equal the next.                                  *)
Rises(f, n) ==
  /\ n \in Nat
  /\ \A i \in 0 .. n - 1 : f[i] \in Nat
  /\ \A i \in 0 .. n - 1, j \in 0 .. n - 1 : i <= j => f[i] <= f[j]

(* q of them are below x.                                                    *)
FirstAtLeast(f, n, x, q) ==
  /\ q \in 0 .. n
  /\ \A i \in 0 .. n - 1 : i < q <=> f[i] < x

From(f, a, n) == {f[j] : j \in a .. n - 1}

LEMMA ClimbsRises ==
  ASSUME NEW f, NEW n, Climbs(f, n)
  PROVE  Rises(f, n)
<1> SUFFICES ASSUME NEW i \in 0 .. n - 1, NEW j \in 0 .. n - 1, i <= j  PROVE f[i] <= f[j]
  BY DEF Climbs, Rises
<1>1. n \in Nat /\ f[i] \in Nat /\ f[j] \in Nat
  BY DEF Climbs
<1>2. i = j \/ i < j
  BY <1>1
<1> QED  BY <1>1, <1>2 DEF Climbs

LEMMA FirstAtLeastExists ==
  ASSUME NEW f, NEW n, NEW x \in Int, Rises(f, n)
  PROVE  \E q : FirstAtLeast(f, n, x, q)
<1> DEFINE S == {q \in Nat : q = n \/ (q < n /\ f[q] >= x)}
<1>1. n \in Nat /\ n \in S
  BY DEF Rises
<1>2. PICK q \in S : \A m \in S : q <= m
  <2>1. S \in SUBSET Nat /\ S # {}
    BY <1>1
  <2> HIDE DEF S
  <2> QED  BY <2>1, LeastNatural
<1>3. q \in 0 .. n
  BY <1>1, <1>2
<1>4. ASSUME NEW i \in 0 .. n - 1  PROVE i < q <=> f[i] < x
  <2>1. f[i] \in Nat /\ i \in Nat /\ i < n
    BY <1>1 DEF Rises
  <2>2. CASE i < q
    <3>1. i \notin S
      BY <1>2, <2>1, <2>2
    <3> QED  BY <2>1, <2>2, <3>1
  <2>3. CASE ~(i < q)
    <3>1. q \in 0 .. n - 1 /\ q <= i
      BY <1>1, <1>3, <2>1, <2>3
    <3>2. f[q] >= x /\ f[q] <= f[i] /\ f[q] \in Nat
      BY <1>2, <3>1 DEF Rises
    <3> QED  BY <2>1, <2>3, <3>2
  <2> QED  BY <2>2, <2>3
<1>5. FirstAtLeast(f, n, x, q)
  BY <1>3, <1>4 DEF FirstAtLeast
<1> QED  BY <1>5

LEMMA FirstGeqUnique ==
  ASSUME NEW f, NEW n \in Nat, NEW x, NEW q, NEW r, FirstAtLeast(f, n, x, q), FirstAtLeast(f, n, x, r)
  PROVE  q = r
<1> SUFFICES ASSUME q # r  PROVE FALSE
  OBVIOUS
<1>1. q \in 0 .. n /\ r \in 0 .. n
  BY DEF FirstAtLeast
<1>2. CASE q < r
  <2>1. q \in 0 .. n - 1
    BY <1>1, <1>2
  <2> QED  BY <1>1, <1>2, <2>1 DEF FirstAtLeast
<1>3. CASE r < q
  <2>1. r \in 0 .. n - 1
    BY <1>1, <1>3
  <2> QED  BY <1>1, <1>3, <2>1 DEF FirstAtLeast
<1> QED  BY <1>1, <1>2, <1>3

LEMMA FirstGeqGrows ==
  ASSUME NEW f, NEW n, Rises(f, n), NEW x \in Int, NEW y \in Int, x <= y,
         NEW q, NEW r, FirstAtLeast(f, n, x, q), FirstAtLeast(f, n, y, r)
  PROVE  q <= r
<1> SUFFICES ASSUME r < q  PROVE FALSE
  BY DEF FirstAtLeast, Rises
<1>1. n \in Nat /\ q \in 0 .. n /\ r \in 0 .. n /\ r \in 0 .. n - 1
  BY DEF FirstAtLeast, Rises
<1>2. f[r] < x /\ ~(f[r] < y) /\ f[r] \in Nat
  BY <1>1 DEF FirstAtLeast, Rises
<1> QED  BY <1>2

(* The first value from its own on is itself.                                *)
LEMMA FirstGeqOwn ==
  ASSUME NEW f, NEW n, NEW k, k \in 0 .. n - 1, Climbs(f, n)
  PROVE  FirstAtLeast(f, n, f[k], k)
<1>1. n \in Nat /\ k \in 0 .. n
  BY DEF Climbs
<1>2. ASSUME NEW i \in 0 .. n - 1  PROVE i < k <=> f[i] < f[k]
  <2>1. f[i] \in Nat /\ f[k] \in Nat
    BY DEF Climbs
  <2>2. i < k => f[i] < f[k]
    BY DEF Climbs
  <2>3. k < i => f[k] < f[i]
    BY DEF Climbs
  <2>4. i = k \/ i < k \/ k < i
    BY <1>1
  <2> QED  BY <2>1, <2>2, <2>3, <2>4
<1> QED  BY <1>1, <1>2 DEF FirstAtLeast

(* The values from a to b are as many as their indices.                      *)
LEMMA FromCounts ==
  ASSUME NEW f, NEW n, Climbs(f, n), NEW a \in Nat, NEW b \in Nat, a <= b, b <= n
  PROVE  IsFiniteSet(From(f, a, b)) /\ Cardinality(From(f, a, b)) = b - a
<1> DEFINE g == [i \in a .. b - 1 |-> f[i]]
<1>1. ASSUME NEW i \in a .. b - 1  PROVE i \in 0 .. n - 1 /\ f[i] \in Nat
  BY DEF Climbs
<1>2. ASSUME NEW i \in a .. b - 1, NEW j \in a .. b - 1, f[i] = f[j]  PROVE i = j
  <2> SUFFICES ASSUME i # j  PROVE FALSE
    OBVIOUS
  <2>1. i < j \/ j < i
    OBVIOUS
  <2>2. f[i] < f[j] \/ f[j] < f[i]
    BY <1>1, <2>1 DEF Climbs
  <2> QED  BY <1>1, <1>2, <2>2
<1>3. g \in Bijection(a .. b - 1, From(f, a, b))
  <2>1. \A y \in From(f, a, b) : \E i \in a .. b - 1 : f[i] = y
    BY DEF From
  <2>2. \A i \in a .. b - 1 : f[i] \in From(f, a, b)
    BY DEF From
  <2> QED  BY <1>2, <2>1, <2>2 DEF Bijection, Injection, Surjection, IsInjective
<1>4. IsFiniteSet(a .. b - 1) /\ Cardinality(a .. b - 1) = b - a
  <2>1. a \in Int /\ b - 1 \in Int
    OBVIOUS
  <2>2. (IF a > b - 1 THEN 0 ELSE (b - 1) - a + 1) = b - a
    OBVIOUS
  <2> QED  BY <2>1, <2>2, FS_Interval
<1> HIDE DEF g
<1>5. ExistsBijection(a .. b - 1, From(f, a, b))
  BY <1>3 DEF ExistsBijection
<1> QED  BY <1>4, <1>5, FS_Bijection

LEMMA NthOfFrom ==
  ASSUME NEW f, NEW n, Climbs(f, n), NEW a \in Nat, NEW k \in Nat, a + k < n
  PROVE  Nth(From(f, a, n), k) = f[a + k]
<1> DEFINE S == From(f, a, n)
           below(x) == {y \in S : y < x}
<1>1. ASSUME NEW i \in a .. n - 1  PROVE f[i] \in S /\ Cardinality(below(f[i])) = i - a
  <2>1. n \in Nat /\ i \in 0 .. n - 1 /\ f[i] \in Nat
    BY DEF Climbs
  <2>2. f[i] \in S
    BY DEF From
  <2>3. ASSUME NEW y \in below(f[i])  PROVE y \in From(f, a, i)
    <3>1. PICK j \in a .. n - 1 : y = f[j]
      BY DEF From
    <3>2. j \in 0 .. n - 1 /\ f[j] \in Nat /\ f[j] < f[i]
      BY <3>1 DEF Climbs
    <3>3. j < i
      <4> SUFFICES ASSUME ~(j < i)  PROVE FALSE
        OBVIOUS
      <4>1. f[i] <= f[j]
        BY <2>1, <3>2, ClimbsRises DEF Rises
      <4> QED  BY <2>1, <3>2, <4>1
    <3>4. j \in a .. i - 1
      BY <2>1, <3>3
    <3> QED  BY <3>1, <3>4 DEF From
  <2>4. ASSUME NEW y \in From(f, a, i)  PROVE y \in below(f[i])
    <3>1. PICK j \in a .. i - 1 : y = f[j]
      BY DEF From
    <3>2. j \in a .. n - 1 /\ j \in 0 .. n - 1 /\ j < i
      BY <2>1
    <3>3. f[j] < f[i]
      BY <2>1, <3>2 DEF Climbs
    <3> QED  BY <3>1, <3>2, <3>3 DEF From
  <2>5. below(f[i]) = From(f, a, i)
    BY <2>3, <2>4
  <2>6. i \in Nat /\ a <= i /\ i <= n
    BY <2>1
  <2> QED  BY <2>2, <2>5, <2>6, FromCounts
<1>2. n \in Nat /\ a + k \in a .. n - 1
  BY DEF Climbs
<1>3. f[a + k] \in S /\ Cardinality(below(f[a + k])) = k
  BY <1>1, <1>2
<1>4. ASSUME NEW x \in S, Cardinality(below(x)) = k  PROVE x = f[a + k]
  <2>1. PICK i \in a .. n - 1 : x = f[i]
    BY DEF From
  <2>2. i - a = k
    BY <1>1, <1>4, <2>1
  <2>3. i = a + k
    BY <2>2
  <2> QED  BY <2>1, <2>3
<1> HIDE DEF S
<1>5. Nth(S, k) \in S /\ Cardinality(below(Nth(S, k))) = k
  BY <1>3, Zenon DEF Nth
<1> QED  BY <1>4, <1>5 DEF S
-----------------------------------------------------------------------------
(* The unary enumerator over the ones f[0], ..., f[n - 1].                   *)

(* It has just returned the i-th one.                                        *)
AtOne(f, i) == [pos |-> f[i], used |-> TRUE]

(* The ones it has not read are those from the a-th on.                      *)
Before(f, n, he, a) == a \in 0 .. n /\ Unread(From(f, 0, n), he) = From(f, a, n)

LEMMA BeforeFirstGeq ==
  ASSUME NEW f, NEW n, Climbs(f, n), NEW pos \in Nat, NEW a, FirstAtLeast(f, n, pos, a)
  PROVE  Before(f, n, EnumeratorAt(pos), a)
<1> DEFINE U == {p \in From(f, 0, n) : p >= pos}
<1>1. a \in 0 .. n /\ n \in Nat
  BY DEF FirstAtLeast, Climbs
<1>2. \A p \in From(f, 0, n) : p \in Nat
  BY DEF From, Climbs
<1>3. Unread(From(f, 0, n), EnumeratorAt(pos)) = U
  <2>1. EnumeratorAt(pos).pos = pos /\ ~EnumeratorAt(pos).used
    BY DEF EnumeratorAt
  <2> QED  BY <1>2, <2>1 DEF Unread
<1>4. ASSUME NEW p \in U  PROVE p \in From(f, a, n)
  <2>1. PICK j \in 0 .. n - 1 : p = f[j]
    BY DEF From
  <2>2. f[j] \in Nat /\ ~(f[j] < pos)
    BY <2>1 DEF Climbs
  <2>3. ~(j < a)
    BY <2>2 DEF FirstAtLeast
  <2>4. j \in a .. n - 1
    BY <1>1, <2>3
  <2> QED  BY <2>1, <2>4 DEF From
<1>5. ASSUME NEW p \in From(f, a, n)  PROVE p \in U
  <2>1. PICK j \in a .. n - 1 : p = f[j]
    BY DEF From
  <2>2. j \in 0 .. n - 1 /\ ~(j < a)
    BY <1>1
  <2>3. f[j] \in Nat /\ ~(f[j] < pos)
    BY <2>2 DEF FirstAtLeast, Climbs
  <2>4. f[j] \in From(f, 0, n)
    BY <2>2 DEF From
  <2> QED  BY <2>1, <2>3, <2>4
<1>6. U = From(f, a, n)
  <2> HIDE DEF U
  <2> QED  BY <1>4, <1>5
<1> QED  BY <1>1, <1>3, <1>6 DEF Before

LEMMA BeforeNext ==
  ASSUME NEW f, NEW n, Climbs(f, n), NEW i, i \in 0 .. n - 1
  PROVE  Before(f, n, AtOne(f, i), i + 1)
<1> DEFINE U == {p \in From(f, 0, n) : p > f[i]}
<1>1. n \in Nat /\ i + 1 \in 0 .. n /\ f[i] \in Nat
  BY DEF Climbs
<1>2. \A p \in From(f, 0, n) : p \in Nat
  BY DEF From, Climbs
<1>3. Unread(From(f, 0, n), AtOne(f, i)) = U
  <2>1. AtOne(f, i).pos = f[i] /\ AtOne(f, i).used
    BY DEF AtOne
  <2> QED  BY <1>1, <1>2, <2>1 DEF Unread
<1>4. ASSUME NEW p \in U  PROVE p \in From(f, i + 1, n)
  <2>1. PICK j \in 0 .. n - 1 : p = f[j]
    BY DEF From
  <2>2. f[j] \in Nat /\ f[i] < f[j]
    BY <2>1 DEF Climbs
  <2>3. ~(j <= i)
    <3> SUFFICES ASSUME j <= i  PROVE FALSE
      OBVIOUS
    <3>1. f[j] <= f[i]
      BY ClimbsRises DEF Rises
    <3> QED  BY <1>1, <2>2, <3>1
  <2>4. j \in i + 1 .. n - 1
    BY <1>1, <2>3
  <2> QED  BY <2>1, <2>4 DEF From
<1>5. ASSUME NEW p \in From(f, i + 1, n)  PROVE p \in U
  <2>1. PICK j \in i + 1 .. n - 1 : p = f[j]
    BY DEF From
  <2>2. j \in 0 .. n - 1 /\ i < j
    BY <1>1
  <2>3. f[i] < f[j]
    BY <2>2 DEF Climbs
  <2>4. f[j] \in From(f, 0, n)
    BY <2>2 DEF From
  <2> QED  BY <2>1, <2>3, <2>4
<1>6. U = From(f, i + 1, n)
  <2> HIDE DEF U
  <2> QED  BY <1>4, <1>5
<1> QED  BY <1>1, <1>3, <1>6 DEF Before

LEMMA AheadReads ==
  ASSUME NEW f, NEW n, Climbs(f, n), NEW he, NEW a, Before(f, n, he, a),
         NEW k \in Nat \ {0}, a + k <= n
  PROVE  Ahead(From(f, 0, n), he, k) = AtOne(f, a + (k - 1))
<1>1. a \in Nat /\ n \in Nat /\ k - 1 \in Nat /\ a + (k - 1) < n /\ k # 0
  BY DEF Before, Climbs
<1>2. Nth(From(f, a, n), k - 1) = f[a + (k - 1)]
  BY <1>1, NthOfFrom
<1>3. Unread(From(f, 0, n), he) = From(f, a, n)
  BY DEF Before
<1> QED  BY <1>1, <1>2, <1>3 DEF Ahead, AtOne

LEMMA SkipOnesStops ==
  ASSUME NEW f, NEW n, Climbs(f, n), NEW he, NEW a, Before(f, n, he, a),
         NEW k \in Nat, a + k < n
  PROVE  Before(f, n, SkipOnes(From(f, 0, n), he, k), a + k)
<1>1. a \in Nat /\ n \in Nat /\ a + k \in 0 .. n - 1
  BY DEF Before, Climbs
<1>2. SkipOnes(From(f, 0, n), he, k) = EnumeratorAt(f[a + k])
  <2>1. Nth(From(f, a, n), k) = f[a + k]
    BY <1>1, NthOfFrom
  <2>2. Unread(From(f, 0, n), he) = From(f, a, n)
    BY DEF Before
  <2> QED  BY <2>1, <2>2 DEF SkipOnes
<1>3. FirstAtLeast(f, n, f[a + k], a + k)
  BY <1>1, FirstGeqOwn
<1>4. f[a + k] \in Nat
  BY <1>1 DEF Climbs
<1> QED  BY <1>2, <1>3, <1>4, BeforeFirstGeq

LEMMA PredecessorReads ==
  ASSUME NEW f, NEW n, Climbs(f, n), NEW i, i \in 0 .. n - 1, NEW pos \in Int,
         f[i] <= pos, i + 1 < n => pos < f[i + 1]
  PROVE  Predecessor(From(f, 0, n), pos) = f[i]
<1> DEFINE S == From(f, 0, n)
           isLast(p) == p <= pos /\ \A q \in S : q <= pos => q <= p
<1>1. n \in Nat /\ f[i] \in S /\ f[i] \in Nat
  BY DEF From, Climbs
<1>2. ASSUME NEW q \in S, q <= pos  PROVE q <= f[i]
  <2>1. PICK j \in 0 .. n - 1 : q = f[j]
    BY DEF From
  <2>2. f[j] \in Nat
    BY DEF Climbs
  <2>3. ~(i < j)
    <3> SUFFICES ASSUME i < j  PROVE FALSE
      OBVIOUS
    <3>1. i + 1 < n /\ i + 1 \in 0 .. n - 1 /\ i + 1 <= j
      BY <1>1
    <3>2. f[i + 1] <= f[j] /\ f[i + 1] \in Nat
      BY <3>1, ClimbsRises DEF Rises
    <3> QED  BY <1>2, <2>1, <2>2, <3>1, <3>2
  <2>4. j <= i
    BY <1>1, <2>3
  <2> QED  BY <2>1, <2>4, ClimbsRises DEF Rises
<1>3. isLast(f[i])
  BY <1>2
<1>4. ASSUME NEW p \in S, isLast(p)  PROVE p = f[i]
  <2>1. p \in Nat
    BY DEF From, Climbs
  <2>2. p <= f[i] /\ f[i] <= p
    BY <1>1, <1>2, <1>4
  <2> QED  BY <1>1, <2>1, <2>2
<1>5. Predecessor(S, pos) = CHOOSE p \in S : isLast(p)
  BY Zenon DEF Predecessor
<1> HIDE DEF S, isLast
<1>6. Predecessor(S, pos) \in S /\ isLast(Predecessor(S, pos))
  BY <1>1, <1>3, <1>5, Zenon
<1> QED  BY <1>4, <1>6 DEF S

-----------------------------------------------------------------------------
(* How move() reaches a one, in both encodings: from the one before, or from *)
(* the pointer to the last sampled one.                                      *)

(* The k-th pointer leads before the sampled one, or to the beginning.       *)
PointersRight(f, n, pointers1, log1) ==
  /\ log1 \in Nat
  /\ \A k \in Nat : k * Pow2[log1] < n =>
       Before(f, n, EnumeratorAt(pointers1[k]), k * Pow2[log1])

SlowHe(ones, pointers1, log1, e, position) ==
  LET skip == position - e.position
      ptr == Shr(position, log1)
  IN IF skip > 0 /\ Shr(skip, log1) = 0
     THEN SkipOnes(ones, e.he, skip - 1)
     ELSE SkipOnes(ones, EnumeratorAt(pointers1[ptr]), position - ptr * Pow2[log1])

(* What an enumerator at position p of n is: past the end, what it reads     *)
(* from is anything.                                                         *)
Reading(f, n, e, p) ==
  /\ p \in 0 .. n
  /\ e.position = p
  /\ p < n => e.he = AtOne(f, p)

LEMMA SlowHeReaches ==
  ASSUME NEW f, NEW n, Climbs(f, n), NEW pointers1, NEW log1, PointersRight(f, n, pointers1, log1),
         NEW e, NEW p, Reading(f, n, e, p), NEW position, position \in 0 .. n - 1
  PROVE  Ahead(From(f, 0, n), SlowHe(From(f, 0, n), pointers1, log1, e, position), 1)
           = AtOne(f, position)
<1> DEFINE he == SlowHe(From(f, 0, n), pointers1, log1, e, position)
           skip == position - p
           ptr == Shr(position, log1)
<1>1. n \in Nat /\ p \in 0 .. n /\ e.position = p /\ log1 \in Nat /\ position \in Nat
  BY DEF Climbs, Reading, PointersRight
<1>2. Before(f, n, he, position)
  <2>1. CASE skip > 0 /\ Shr(skip, log1) = 0
    <3>1. he = SkipOnes(From(f, 0, n), e.he, skip - 1)
      BY <1>1, <2>1 DEF SlowHe
    <3>2. p \in 0 .. n - 1 /\ skip - 1 \in Nat /\ (p + 1) + (skip - 1) = position /\ position < n
      BY <1>1, <2>1
    <3>3. Before(f, n, e.he, p + 1)
      BY <1>1, <3>2, BeforeNext DEF Reading
    <3> HIDE DEF skip, he
    <3> QED  BY <3>1, <3>2, <3>3, SkipOnesStops
  <2>2. CASE ~(skip > 0 /\ Shr(skip, log1) = 0)
    <3>1. he = SkipOnes(From(f, 0, n), EnumeratorAt(pointers1[ptr]), position - ptr * Pow2[log1])
      BY <1>1, <2>2, Zenon DEF SlowHe
    <3>2. ptr \in Nat /\ ptr * Pow2[log1] \in Nat /\ ptr * Pow2[log1] <= position
      BY <1>1, ShrFacts
    <3> PICK first \in Nat : first = ptr * Pow2[log1]
      BY <3>2
    <3>3. first < n /\ first <= position /\ position - first \in Nat
          /\ first + (position - first) = position /\ position < n
      BY <1>1, <3>2
    <3>4. Before(f, n, EnumeratorAt(pointers1[ptr]), first)
      <4> HIDE DEF ptr
      <4> QED  BY <3>2, <3>3 DEF PointersRight
    <3> HIDE DEF ptr, he
    <3>5. Before(f, n, SkipOnes(From(f, 0, n), EnumeratorAt(pointers1[ptr]), position - first),
                 first + (position - first))
      BY <3>3, <3>4, SkipOnesStops
    <3> QED  BY <3>1, <3>3, <3>5
  <2> QED  BY <2>1, <2>2
<1> HIDE DEF he
<1>3. 1 \in Nat \ {0} /\ position + 1 <= n /\ position + (1 - 1) = position
  BY <1>1
<1>4. Ahead(From(f, 0, n), he, 1) = AtOne(f, position + (1 - 1))
  BY <1>2, <1>3, AheadReads
<1> QED  BY <1>3, <1>4 DEF he
-----------------------------------------------------------------------------
(* The high bits of compact_elias_fano.                                      *)

(* h[i] is the high part of the i-th value, f[i] the place of its one in the *)
(* vector, which has m zeros.                                                *)
Unary(h, f, n, m) ==
  /\ Rises(h, n)
  /\ m \in Nat
  /\ \A i \in 0 .. n - 1 : h[i] < m - 1 /\ f[i] = h[i] + i + 1

LEMMA UnaryClimbs ==
  ASSUME NEW h, NEW f, NEW n, NEW m, Unary(h, f, n, m)
  PROVE  Climbs(f, n)
<1>1. n \in Nat /\ \A i \in 0 .. n - 1 : h[i] \in Nat /\ f[i] = h[i] + i + 1
  BY DEF Unary, Rises
<1>2. ASSUME NEW i \in 0 .. n - 1, NEW j \in 0 .. n - 1, i < j  PROVE f[i] < f[j]
  <2>1. h[i] <= h[j]
    BY <1>2 DEF Unary, Rises
  <2> QED  BY <1>1, <1>2, <2>1
<1>3. \A i \in 0 .. n - 1 : f[i] \in Nat
  BY <1>1
<1> QED  BY <1>1, <1>2, <1>3 DEF Climbs

(* Zero z is after the ones of the values whose high part is below z.        *)
LEMMA ZeroBetween ==
  ASSUME NEW h, NEW f, NEW n, NEW m, Unary(h, f, n, m), NEW z \in Int, NEW q,
         FirstAtLeast(h, n, z, q)
  PROVE  /\ \A i \in 0 .. n - 1 : (i < q => f[i] < z + q) /\ (~(i < q) => f[i] > z + q)
         /\ FirstAtLeast(f, n, z + q, q)
         /\ z + q \notin From(f, 0, n)
<1>1. n \in Nat /\ q \in 0 .. n /\ \A i \in 0 .. n - 1 : h[i] \in Nat /\ f[i] = h[i] + i + 1
  BY DEF Unary, Rises, FirstAtLeast
<1>2. ASSUME NEW i \in 0 .. n - 1
      PROVE  (i < q => f[i] < z + q) /\ (~(i < q) => f[i] > z + q)
  <2>1. i < q <=> h[i] < z
    BY DEF FirstAtLeast
  <2> QED  BY <1>1, <2>1
<1>3. \A i \in 0 .. n - 1 : f[i] \in Nat
  BY <1>1
<1>4. FirstAtLeast(f, n, z + q, q)
  <2>1. ASSUME NEW i \in 0 .. n - 1  PROVE i < q <=> f[i] < z + q
    BY <1>1, <1>2, <1>3
  <2> QED  BY <1>1, <2>1 DEF FirstAtLeast
<1>5. z + q \notin From(f, 0, n)
  <2> SUFFICES ASSUME NEW i \in 0 .. n - 1, f[i] = z + q  PROVE FALSE
    BY DEF From
  <2> QED  BY <1>1, <1>2, <1>3
<1> QED  BY <1>2, <1>4, <1>5

(* Every position that is not a one is such a zero.                          *)
LEMMA ZeroThere ==
  ASSUME NEW h, NEW f, NEW n, NEW m, Unary(h, f, n, m), NEW p \in Nat, p < n + m,
         p \notin From(f, 0, n), NEW j, FirstAtLeast(f, n, p, j)
  PROVE  FirstAtLeast(h, n, p - j, j) /\ p - j \in Nat /\ p - j < m
<1>1. /\ n \in Nat /\ m \in Nat /\ j \in 0 .. n
      /\ \A i \in 0 .. n - 1 : h[i] \in Nat /\ h[i] < m - 1 /\ f[i] = h[i] + i + 1
  BY DEF Unary, Rises, FirstAtLeast
<1>2. ASSUME NEW i \in 0 .. n - 1, i < j  PROVE h[i] < p - j
  <2>1. j - 1 \in 0 .. n - 1 /\ i <= j - 1
    BY <1>1, <1>2
  <2>2. h[i] <= h[j - 1]
    BY <2>1 DEF Unary, Rises
  <2>3. f[j - 1] < p
    BY <1>1, <2>1 DEF FirstAtLeast
  <2>4. f[j - 1] = h[j - 1] + (j - 1) + 1
    BY <1>1, <2>1
  <2>5. h[j - 1] \in Nat /\ h[i] \in Nat
    BY <1>1, <2>1
  <2> QED  BY <1>1, <2>2, <2>3, <2>4, <2>5
<1>3. ASSUME NEW i \in 0 .. n - 1, ~(i < j)  PROVE p - j <= h[i]
  <2>1. j \in 0 .. n - 1 /\ j <= i
    BY <1>1, <1>3
  <2>2. h[j] <= h[i]
    BY <2>1 DEF Unary, Rises
  <2>3. ~(f[j] < p)
    BY <1>1, <2>1 DEF FirstAtLeast
  <2>4. f[j] # p
    BY <2>1 DEF From
  <2>5. h[j] \in Nat /\ h[i] \in Nat /\ f[j] = h[j] + j + 1
    BY <1>1, <2>1
  <2> QED  BY <1>1, <2>2, <2>3, <2>4, <2>5
<1>4. FirstAtLeast(h, n, p - j, j)
  <2>1. ASSUME NEW i \in 0 .. n - 1  PROVE i < j <=> h[i] < p - j
    <3>1. h[i] \in Nat
      BY <1>1
    <3> QED  BY <1>1, <1>2, <1>3, <3>1
  <2> QED  BY <1>1, <2>1 DEF FirstAtLeast
<1>5. p - j \in Nat
  <2>1. CASE j = 0
    BY <2>1
  <2>2. CASE j # 0
    <3>1. j - 1 \in 0 .. n - 1 /\ j - 1 < j
      BY <1>1, <2>2
    <3>2. h[j - 1] < p - j /\ h[j - 1] \in Nat
      BY <1>1, <1>2, <3>1
    <3> QED  BY <1>1, <3>2
  <2> QED  BY <2>1, <2>2
<1>6. p - j < m
  <2>1. CASE j = n
    BY <1>1, <2>1
  <2>2. CASE j # n
    <3>1. j \in 0 .. n - 1 /\ ~(j < j)
      BY <1>1, <2>2
    <3>2. p - j <= h[j] /\ h[j] \in Nat /\ h[j] < m - 1
      BY <1>1, <1>3, <3>1
    <3> QED  BY <1>1, <3>2
  <2> QED  BY <2>1, <2>2
<1> QED  BY <1>4, <1>5, <1>6

(* Where the zeros are.                                                      *)
ZeroAt(h, n, z) == z + CHOOSE q : FirstAtLeast(h, n, z, q)

Zeros(h, n, m) == [z \in 0 .. m - 1 |-> ZeroAt(h, n, z)]

LEMMA ZeroAtIs ==
  ASSUME NEW h, NEW n, Rises(h, n), NEW z \in Int, NEW q, FirstAtLeast(h, n, z, q)
  PROVE  ZeroAt(h, n, z) = z + q
<1>1. FirstAtLeast(h, n, z, CHOOSE r : FirstAtLeast(h, n, z, r))
  BY Zenon
<1>2. n \in Nat
  BY DEF Rises
<1>3. (CHOOSE r : FirstAtLeast(h, n, z, r)) = q
  BY <1>1, <1>2, FirstGeqUnique
<1> QED  BY <1>3 DEF ZeroAt

LEMMA ZerosClimb ==
  ASSUME NEW h, NEW n, Rises(h, n), NEW m \in Nat
  PROVE  Climbs(Zeros(h, n, m), m)
<1>1. ASSUME NEW z \in 0 .. m - 1
      PROVE  /\ Zeros(h, n, m)[z] = ZeroAt(h, n, z)
             /\ \E q : FirstAtLeast(h, n, z, q) /\ ZeroAt(h, n, z) = z + q
  <2>1. Zeros(h, n, m)[z] = ZeroAt(h, n, z)
    BY DEF Zeros
  <2>2. PICK q : FirstAtLeast(h, n, z, q)
    BY FirstAtLeastExists
  <2> QED  BY <2>1, <2>2, ZeroAtIs
<1>2. ASSUME NEW z \in 0 .. m - 1  PROVE Zeros(h, n, m)[z] \in Nat
  <2>1. PICK q : FirstAtLeast(h, n, z, q) /\ ZeroAt(h, n, z) = z + q
    BY <1>1
  <2>2. q \in Nat
    BY <2>1 DEF FirstAtLeast, Rises
  <2> QED  BY <1>1, <2>1, <2>2
<1>3. ASSUME NEW y \in 0 .. m - 1, NEW z \in 0 .. m - 1, y < z
      PROVE  Zeros(h, n, m)[y] < Zeros(h, n, m)[z]
  <2>1. PICK q : FirstAtLeast(h, n, y, q) /\ ZeroAt(h, n, y) = y + q
    BY <1>1
  <2>2. PICK r : FirstAtLeast(h, n, z, r) /\ ZeroAt(h, n, z) = z + r
    BY <1>1
  <2>3. q \in Nat /\ r \in Nat
    BY <2>1, <2>2 DEF FirstAtLeast, Rises
  <2>4. y \in Int /\ z \in Int /\ y <= z
    BY <1>3
  <2>5. q <= r
    BY <2>1, <2>2, <2>4, FirstGeqGrows
  <2> QED  BY <1>1, <1>3, <2>1, <2>2, <2>3, <2>5
<1> QED  BY <1>2, <1>3 DEF Climbs
(* skip0(k) from zero z leads to zero z + k.                                 *)
LEMMA SkipFromZero ==
  ASSUME NEW h, NEW f, NEW n, NEW m, Unary(h, f, n, m),
         NEW z \in Nat, NEW q, FirstAtLeast(h, n, z, q),
         NEW k \in Nat, z + k < m, NEW r, FirstAtLeast(h, n, z + k, r)
  PROVE  SkipZeros(From(f, 0, n), EnumeratorAt(z + q), k, n + m) = EnumeratorAt((z + k) + r)
<1> DEFINE ones == From(f, 0, n)
           he == EnumeratorAt(z + q)
           g == Zeros(h, n, m)
<1>1. /\ n \in Nat /\ m \in Nat /\ q \in 0 .. n /\ r \in 0 .. n /\ Rises(h, n)
      /\ z + q \in Nat /\ z \in Int
  BY DEF Unary, Rises, FirstAtLeast
<1>1a. Climbs(f, n)
  BY UnaryClimbs
<1>2. Unread(ones, he) = From(f, q, n)
  <2>1. FirstAtLeast(f, n, z + q, q)
    BY <1>1, ZeroBetween
  <2>2. Before(f, n, he, q)
    BY <1>1, <1>1a, <2>1, BeforeFirstGeq
  <2> QED  BY <2>2 DEF Before
<1>3. ASSUME NEW p \in z + q .. (n + m) - 1, p \notin From(f, q, n)  PROVE p \in From(g, z, m)
  <2>1. p \notin ones
    <3> SUFFICES ASSUME NEW i \in 0 .. n - 1, f[i] = p  PROVE FALSE
      BY DEF From
    <3>1. CASE i < q
      <4>1. f[i] < z + q
        BY <1>1, <3>1, ZeroBetween
      <4> QED  BY <1>1, <4>1
    <3>2. CASE ~(i < q)
      <4>1. i \in q .. n - 1
        BY <1>1, <3>2
      <4> QED  BY <1>3, <4>1 DEF From
    <3> QED  BY <3>1, <3>2
  <2>2. p \in Nat /\ p < n + m /\ p \in Int
    BY <1>1
  <2>3. PICK j : FirstAtLeast(f, n, p, j)
    BY <1>1a, <2>2, ClimbsRises, FirstAtLeastExists
  <2>4. FirstAtLeast(h, n, p - j, j) /\ p - j \in Nat /\ p - j < m /\ j \in 0 .. n
    <3>1. j \in 0 .. n
      BY <2>3 DEF FirstAtLeast
    <3> QED  BY <2>1, <2>2, <2>3, <3>1, ZeroThere
  <2> PICK y \in Nat : y = p - j
    BY <2>4
  <2>5. p = y + j /\ y \in 0 .. m - 1
    BY <1>1, <2>2, <2>4
  <2>6. ~(y < z)
    <3> SUFFICES ASSUME y < z  PROVE FALSE
      OBVIOUS
    <3>1. y \in Int /\ y <= z
      OBVIOUS
    <3>2. j <= q
      BY <1>1, <2>4, <3>1, FirstGeqGrows
    <3> QED  BY <1>1, <2>4, <2>5, <3>2
  <2>7. g[y] = p
    <3>1. ZeroAt(h, n, y) = y + j
      BY <1>1, <2>4, ZeroAtIs
    <3> QED  BY <2>5, <3>1 DEF Zeros
  <2>8. y \in z .. m - 1
    BY <2>5, <2>6
  <2> QED  BY <2>7, <2>8 DEF From
<1>4. ASSUME NEW p \in From(g, z, m)  PROVE p \in z + q .. (n + m) - 1 /\ p \notin From(f, q, n)
  <2>1. PICK y \in z .. m - 1 : p = g[y]
    BY DEF From
  <2>2. y \in 0 .. m - 1 /\ y \in Int /\ z <= y
    BY <1>1
  <2>3. PICK j : FirstAtLeast(h, n, y, j)
    BY <1>1, <2>2, FirstAtLeastExists
  <2>4. p = y + j
    <3>1. ZeroAt(h, n, y) = y + j
      BY <1>1, <2>2, <2>3, ZeroAtIs
    <3> QED  BY <2>1, <2>2, <3>1 DEF Zeros
  <2>5. q <= j /\ j \in 0 .. n
    <3>1. j \in 0 .. n
      BY <2>3 DEF FirstAtLeast
    <3> QED  BY <1>1, <2>2, <2>3, <3>1, FirstGeqGrows
  <2>6. p \notin ones
    BY <2>2, <2>3, <2>4, ZeroBetween
  <2>7. p \notin From(f, q, n)
    <3>1. q .. n - 1 \subseteq 0 .. n - 1
      BY <1>1
    <3> QED  BY <2>6, <3>1 DEF From
  <2> QED  BY <1>1, <2>2, <2>4, <2>5, <2>7
<1>5. (z + q .. (n + m) - 1) \ Unread(ones, he) = From(g, z, m)
  <2> HIDE DEF g, he, ones
  <2> QED  BY <1>2, <1>3, <1>4
<1>6. Nth(From(g, z, m), k) = (z + k) + r
  <2>1. Climbs(g, m)
    BY <1>1, ZerosClimb
  <2>2. Nth(From(g, z, m), k) = g[z + k]
    <3> HIDE DEF g
    <3> QED  BY <2>1, NthOfFrom
  <2>3. z + k \in Int /\ z + k \in 0 .. m - 1
    BY <1>1
  <2>4. ZeroAt(h, n, z + k) = (z + k) + r
    BY <1>1, <2>3, ZeroAtIs
  <2> QED  BY <2>2, <2>3, <2>4 DEF Zeros
<1>7. (z + k) + r \notin ones
  <2>1. z + k \in Int
    OBVIOUS
  <2> QED  BY <2>1, ZeroBetween
<1>8. he.pos = z + q
  BY DEF EnumeratorAt
<1> HIDE DEF ones, he, g
<1>9. SkipZeros(ones, he, k, n + m) =
        [pos |-> (z + k) + r, used |-> (z + k) + r \in ones]
  BY <1>5, <1>6, <1>8, Zenon DEF SkipZeros
<1>10. ((z + k) + r \in ones) = FALSE
  BY <1>7
<1>11. SkipZeros(ones, he, k, n + m) = EnumeratorAt((z + k) + r)
  BY <1>9, <1>10, Zenon DEF EnumeratorAt
<1> QED  BY <1>11 DEF ones, he

(* From a one, skip0(0) stays on it, and skip0(k) leads to the k-th zero of  *)
(* those after its high part.                                                *)
OneAsZero(h, f, n, m, i) ==
  [z \in 0 .. m - 1 |-> IF z = h[i] THEN f[i] ELSE ZeroAt(h, n, z)]

LEMMA OneAsZeroClimbs ==
  ASSUME NEW h, NEW f, NEW n, NEW m, Unary(h, f, n, m), NEW i, i \in 0 .. n - 1
  PROVE  Climbs(OneAsZero(h, f, n, m, i), m)
<1> DEFINE g == OneAsZero(h, f, n, m, i)
<1>1. /\ n \in Nat /\ m \in Nat /\ Rises(h, n) /\ h[i] \in Nat /\ f[i] = h[i] + i + 1
  BY DEF Unary, Rises
<1>2. Climbs(Zeros(h, n, m), m)
  BY <1>1, ZerosClimb
<1>3. ASSUME NEW y \in 0 .. m - 1
      PROVE  /\ ZeroAt(h, n, y) \in Nat
             /\ g[y] = IF y = h[i] THEN f[i] ELSE ZeroAt(h, n, y)
             /\ y < h[i] => ZeroAt(h, n, y) < f[i]
             /\ h[i] < y => f[i] < ZeroAt(h, n, y)
  <2>1. g[y] = IF y = h[i] THEN f[i] ELSE ZeroAt(h, n, y)
    BY DEF OneAsZero
  <2>2. y \in Int
    OBVIOUS
  <2>3. PICK q : FirstAtLeast(h, n, y, q)
    BY <1>1, <2>2, FirstAtLeastExists
  <2>4. ZeroAt(h, n, y) = y + q /\ q \in 0 .. n
    <3>1. ZeroAt(h, n, y) = y + q
      BY <1>1, <2>2, <2>3, ZeroAtIs
    <3>2. q \in 0 .. n
      BY <2>3, Zenon DEF FirstAtLeast
    <3> QED  BY <3>1, <3>2
  <2>5. i < q <=> h[i] < y
    BY <2>3 DEF FirstAtLeast
  <2> HIDE DEF g
  <2> QED  BY <1>1, <2>1, <2>4, <2>5
<1>4. ASSUME NEW y \in 0 .. m - 1, NEW z \in 0 .. m - 1, y < z  PROVE g[y] < g[z]
  <2>1. ZeroAt(h, n, y) < ZeroAt(h, n, z)
    BY <1>2, <1>4 DEF Climbs, Zeros
  <2> HIDE DEF g
  <2>2. CASE y = h[i]
    <3>1. z # h[i] /\ h[i] < z
      BY <1>1, <1>4, <2>2
    <3> QED  BY <1>3, <2>2, <3>1
  <2>3. CASE z = h[i]
    <3>1. y # h[i] /\ y < h[i]
      BY <1>1, <1>4, <2>3
    <3> QED  BY <1>3, <2>3, <3>1
  <2>4. CASE y # h[i] /\ z # h[i]
    BY <1>3, <2>1, <2>4
  <2> QED  BY <2>2, <2>3, <2>4
<1>5. ASSUME NEW y \in 0 .. m - 1  PROVE g[y] \in Nat
  <2>1. f[i] \in Nat
    BY <1>1
  <2> HIDE DEF g
  <2> QED  BY <1>3, <2>1
<1> HIDE DEF g
<1>6. Climbs(g, m)
  BY <1>1, <1>4, <1>5 DEF Climbs
<1> QED  BY <1>6 DEF g

LEMMA SkipFromOne ==
  ASSUME NEW h, NEW f, NEW n, NEW m, Unary(h, f, n, m), NEW i, i \in 0 .. n - 1,
         NEW k \in Nat, h[i] + k < m
  PROVE  SkipZeros(From(f, 0, n), AtOne(f, i), k, n + m) =
           LET pos == OneAsZero(h, f, n, m, i)[h[i] + k]
           IN [pos |-> pos, used |-> pos \in From(f, 0, n)]
<1> DEFINE ones == From(f, 0, n)
           he == AtOne(f, i)
           g == OneAsZero(h, f, n, m, i)
<1>1. /\ n \in Nat /\ m \in Nat /\ Rises(h, n) /\ h[i] \in Nat /\ f[i] = h[i] + i + 1
      /\ h[i] < m - 1
  BY DEF Unary, Rises
<1>1a. Climbs(f, n)
  BY UnaryClimbs
<1>2. Unread(ones, he) = From(f, i + 1, n)
  BY <1>1a, BeforeNext DEF Before
<1>3. ASSUME NEW p \in f[i] .. (n + m) - 1, p \notin From(f, i + 1, n)  PROVE p \in From(g, h[i], m)
  <2>1. CASE p \in ones
    <3>1. PICK j \in 0 .. n - 1 : p = f[j]
      BY <2>1 DEF From
    <3>2. j \notin i + 1 .. n - 1
      BY <1>3, <3>1 DEF From
    <3>3. j <= i
      BY <1>1, <3>2
    <3>4. ~(j < i)
      <4> SUFFICES ASSUME j < i  PROVE FALSE
        OBVIOUS
      <4>1. f[j] < f[i]
        BY <1>1a DEF Climbs
      <4> QED  BY <1>1, <3>1, <4>1
    <3>5. j = i
      BY <1>1, <3>3, <3>4
    <3>6. h[i] \in h[i] .. m - 1 /\ h[i] \in 0 .. m - 1
      BY <1>1
    <3>7. p = g[h[i]]
      BY <3>1, <3>5, <3>6 DEF OneAsZero
    <3> HIDE DEF g
    <3> QED  BY <3>6, <3>7 DEF From
  <2>2. CASE p \notin ones
    <3>1. p \in Nat /\ p < n + m /\ p \in Int
      BY <1>1
    <3>2. PICK j : FirstAtLeast(f, n, p, j)
      BY <1>1a, <3>1, ClimbsRises, FirstAtLeastExists
    <3>3. FirstAtLeast(h, n, p - j, j) /\ p - j \in Nat /\ p - j < m /\ j \in 0 .. n
      <4>1. j \in 0 .. n
        BY <3>2 DEF FirstAtLeast
      <4> QED  BY <2>2, <3>1, <3>2, <4>1, ZeroThere
    <3> PICK y \in Nat : y = p - j
      BY <3>3
    <3>4. p = y + j /\ y \in 0 .. m - 1 /\ y \in Int
      BY <1>1, <3>1, <3>3
    <3>5. f[i] # p
      BY <2>2 DEF From
    <3>6. f[i] < p
      BY <1>1, <3>5
    <3>7. h[i] < y
      <4>1. i < j
        BY <3>2, <3>6 DEF FirstAtLeast
      <4> QED  BY <3>3, <4>1 DEF FirstAtLeast
    <3>8. y # h[i] /\ y \in h[i] .. m - 1
      BY <1>1, <3>4, <3>7
    <3>9. g[y] = p
      <4>1. ZeroAt(h, n, y) = y + j
        BY <1>1, <3>3, <3>4, ZeroAtIs
      <4> QED  BY <3>4, <3>8, <4>1 DEF OneAsZero
    <3> HIDE DEF g
    <3> QED  BY <3>8, <3>9 DEF From
  <2> QED  BY <2>1, <2>2
<1>4. ASSUME NEW p \in From(g, h[i], m)
      PROVE  p \in f[i] .. (n + m) - 1 /\ p \notin From(f, i + 1, n)
  <2>1. PICK y \in h[i] .. m - 1 : p = g[y]
    BY DEF From
  <2>2. y \in 0 .. m - 1 /\ y \in Int /\ h[i] <= y
    BY <1>1
  <2>3. CASE y = h[i]
    <3>1. p = f[i]
      BY <2>1, <2>2, <2>3 DEF OneAsZero
    <3>2. p \notin From(f, i + 1, n)
      <4> SUFFICES ASSUME NEW j \in i + 1 .. n - 1, f[j] = f[i]  PROVE FALSE
        BY <3>1 DEF From
      <4>1. j \in 0 .. n - 1 /\ i < j
        BY <1>1
      <4>2. f[i] < f[j]
        BY <1>1a, <4>1 DEF Climbs
      <4> QED  BY <1>1, <4>2
    <3> QED  BY <1>1, <3>1, <3>2
  <2>4. CASE y # h[i]
    <3>1. PICK j : FirstAtLeast(h, n, y, j)
      BY <1>1, <2>2, FirstAtLeastExists
    <3>2. p = y + j
      <4>1. ZeroAt(h, n, y) = y + j
        BY <1>1, <2>2, <3>1, ZeroAtIs
      <4> QED  BY <2>1, <2>2, <2>4, <4>1 DEF OneAsZero
    <3>3. i < j /\ j \in 0 .. n
      <4>1. h[i] < y
        BY <1>1, <2>2, <2>4
      <4> QED  BY <3>1, <4>1 DEF FirstAtLeast
    <3>4. p \notin ones
      BY <2>2, <3>1, <3>2, ZeroBetween
    <3>5. p \notin From(f, i + 1, n)
      <4>1. i + 1 .. n - 1 \subseteq 0 .. n - 1
        BY <1>1
      <4> QED  BY <3>4, <4>1 DEF From
    <3> QED  BY <1>1, <2>2, <3>2, <3>3, <3>5
  <2> QED  BY <2>3, <2>4
<1>5. (f[i] .. (n + m) - 1) \ Unread(ones, he) = From(g, h[i], m)
  <2> HIDE DEF g, he, ones
  <2> QED  BY <1>2, <1>3, <1>4
<1>6. Nth(From(g, h[i], m), k) = g[h[i] + k]
  <2>1. Climbs(g, m)
    BY OneAsZeroClimbs
  <2> HIDE DEF g
  <2> QED  BY <1>1, <2>1, NthOfFrom
<1>7. he.pos = f[i]
  BY DEF AtOne
<1> HIDE DEF ones, he, g
<1>8. SkipZeros(ones, he, k, n + m) = [pos |-> g[h[i] + k], used |-> g[h[i] + k] \in ones]
  BY <1>5, <1>6, <1>7, Zenon DEF SkipZeros
<1> QED  BY <1>8, Zenon DEF ones, he, g
-----------------------------------------------------------------------------
(* What compact_elias_fano::write leaves.                                    *)

LEMMA ShrBounds ==
  ASSUME NEW x \in Nat, NEW k \in Nat, NEW j \in Nat, j * Pow2[k] <= x
  PROVE  j <= Shr(x, k)
<1> SUFFICES ASSUME Shr(x, k) < j  PROVE FALSE
  BY ShrFacts
<1> PICK P \in Nat \ {0} : P = Pow2[k]
  BY Pow2Facts
<1> PICK q \in Nat : q = Shr(x, k)
  BY ShrFacts
<1>1. x < q * P + P
  BY ShrFacts
<1>2. P * q + P <= P * j
  <2>1. q \in Int /\ j \in Int /\ q < j
    OBVIOUS
  <2> QED  BY <2>1, TimesGrows
<1>3. P * q = q * P /\ P * j = j * P /\ q * P \in Nat
  OBVIOUS
<1> PICK qP \in Nat : qP = q * P
  BY <1>3
<1>4. x < qP + P /\ qP + P <= x
  <2>1. qP + P <= j * P /\ j * P <= x
    BY <1>2, <1>3, Zenon
  <2>2. j * P \in Int
    OBVIOUS
  <2> QED  BY <1>1, <2>1, <2>2
<1> QED  BY <1>4

LEMMA ProductGrows ==
  ASSUME NEW k \in Nat, NEW x \in Nat
  PROVE  x * Pow2[k] \in Nat /\ (x # 0 => x * Pow2[k] >= 1 /\ x * Pow2[k] >= x)
<1> PICK P \in Nat \ {0} : P = Pow2[k]
  BY Pow2Facts
<1>1. x * P \in Nat
  OBVIOUS
<1>2. x # 0 => x * P >= x
  <2>1. x * P = x + x * (P - 1) /\ x * (P - 1) \in Nat
    OBVIOUS
  <2> QED  BY <2>1
<1> QED  BY <1>1, <1>2

LEMMA LowerBitsType ==
  ASSUME NEW universe \in Nat, NEW n \in Nat \ {0}
  PROVE  LowerBits(universe, n) \in Nat
<1>1. CASE universe > n
  <2> PICK q \in Nat : q = universe \div n
    BY DivMod
  <2>1. q # 0
    <3>1. universe = n * q + (universe % n) /\ universe % n \in 0 .. n - 1
      BY DivMod
    <3> QED  BY <1>1, <3>1
  <2>2. Msb(q) \in Nat
    BY <2>1, MsbFacts
  <2> QED  BY <1>1, <2>2 DEF LowerBits
<1>2. CASE ~(universe > n)
  BY <1>2 DEF LowerBits
<1> QED  BY <1>1, <1>2

(* A sequence that compact_elias_fano can hold, and one that holds it.       *)
Holdable(vals, universe, n) ==
  /\ universe \in Nat /\ n \in Nat \ {0}
  /\ Rises(vals, n)
  /\ \A i \in 0 .. n - 1 : vals[i] < universe

HighParts(vals, universe, n) == [i \in 0 .. n - 1 |-> Shr(vals[i], LowerBits(universe, n))]

HighOnes(vals, universe, n) ==
  [i \in 0 .. n - 1 |-> Shr(vals[i], LowerBits(universe, n)) + i + 1]

HighZeros(universe, n) == Shr(universe, LowerBits(universe, n)) + 2

LEMMA HighIsUnary ==
  ASSUME NEW vals, NEW universe, NEW n, Holdable(vals, universe, n)
  PROVE  /\ Unary(HighParts(vals, universe, n), HighOnes(vals, universe, n), n,
                  HighZeros(universe, n))
         /\ HigherBitsLength(universe, n) = n + HighZeros(universe, n)
<1> DEFINE h == HighParts(vals, universe, n)
           f == HighOnes(vals, universe, n)
<1>1. universe \in Nat /\ n \in Nat \ {0}
  BY DEF Holdable
<1> PICK l \in Nat : l = LowerBits(universe, n)
  BY <1>1, LowerBitsType
<1>2. Shr(universe, l) \in Nat
  BY <1>1, ShrFacts
<1>3. ASSUME NEW i \in 0 .. n - 1
      PROVE  /\ h[i] \in Nat /\ h[i] <= Shr(universe, l)
             /\ f[i] = h[i] + i + 1 /\ h[i] = Shr(vals[i], l)
  <2>1. h[i] = Shr(vals[i], l) /\ f[i] = Shr(vals[i], l) + i + 1
    BY DEF HighParts, HighOnes
  <2>2. vals[i] \in Nat /\ vals[i] < universe /\ vals[i] <= universe
    BY <1>1 DEF Holdable, Rises
  <2>3. Shr(vals[i], l) \in Nat /\ Shr(vals[i], l) <= Shr(universe, l)
    BY <1>1, <2>2, ShrFacts, ShrGrows
  <2> QED  BY <2>1, <2>3
<1>4. ASSUME NEW i \in 0 .. n - 1, NEW j \in 0 .. n - 1, i <= j  PROVE h[i] <= h[j]
  <2>1. vals[i] \in Nat /\ vals[j] \in Nat /\ vals[i] <= vals[j]
    BY <1>4 DEF Holdable, Rises
  <2> QED  BY <1>3, <2>1, ShrGrows
<1> HIDE DEF h, f
<1>5. Rises(h, n)
  BY <1>1, <1>3, <1>4 DEF Rises
<1>6. HighZeros(universe, n) = Shr(universe, l) + 2
  BY DEF HighZeros
<1>7. Unary(h, f, n, HighZeros(universe, n))
  BY <1>2, <1>3, <1>5, <1>6 DEF Unary
<1>8. HigherBitsLength(universe, n) = n + HighZeros(universe, n)
  BY <1>1, <1>2, <1>6 DEF HigherBitsLength
<1> QED  BY <1>7, <1>8 DEF h, f

(* The k-th pointer to a zero leads there.                                   *)
ZeroPointersRight(h, n, m, pointers0, log0) ==
  /\ log0 \in Nat
  /\ \A k \in Nat : k * Pow2[log0] < m => pointers0[k] = ZeroAt(h, n, k * Pow2[log0])

LEMMA PointerToZero ==
  ASSUME NEW h, NEW f, NEW n, NEW m, Unary(h, f, n, m),
         NEW log0 \in Nat, NEW k \in Nat, k * Pow2[log0] < m, k # 0
  PROVE  EFPointer0(f, n, n + m, log0, k) = ZeroAt(h, n, k * Pow2[log0])
<1> PICK z \in Nat : z = k * Pow2[log0]
  BY ProductGrows
<1>1. z >= 1 /\ z < m /\ z \in Int
  BY ProductGrows
<1>2. n \in Nat /\ m \in Nat /\ Rises(h, n)
  BY DEF Unary, Rises
<1>3. PICK q : FirstAtLeast(h, n, z, q)
  BY <1>1, <1>2, FirstAtLeastExists
<1>4. q \in 0 .. n
  BY <1>3 DEF FirstAtLeast
<1> DEFINE begin(i) == IF i = 0 THEN 1 ELSE f[i - 1] + 1
           end(i) == IF i = n THEN n + m ELSE f[i]
           inRun(i) == begin(i) - i <= k * Pow2[log0] /\ k * Pow2[log0] < end(i) - i
<1>5. ASSUME NEW i \in 0 .. n
      PROVE  inRun(i) <=> (i = 0 \/ h[i - 1] < z) /\ (i = n \/ z <= h[i])
  <2>1. begin(i) - i <= z <=> i = 0 \/ h[i - 1] < z
    <3>1. CASE i = 0
      BY <1>1, <3>1
    <3>2. CASE i # 0
      <4>1. i - 1 \in 0 .. n - 1
        BY <1>2, <3>2
      <4>2. h[i - 1] \in Nat /\ f[i - 1] = h[i - 1] + (i - 1) + 1
        BY <4>1 DEF Unary, Rises
      <4> QED  BY <3>2, <4>2
    <3> QED  BY <3>1, <3>2
  <2>2. z < end(i) - i <=> i = n \/ z <= h[i]
    <3>1. CASE i = n
      BY <1>1, <1>2, <3>1
    <3>2. CASE i # n
      <4>1. i \in 0 .. n - 1
        BY <1>2, <3>2
      <4>2. h[i] \in Nat /\ f[i] = h[i] + i + 1
        BY <4>1 DEF Unary, Rises
      <4> QED  BY <3>2, <4>2
    <3> QED  BY <3>1, <3>2
  <2>3. inRun(i) <=> begin(i) - i <= z /\ z < end(i) - i
    BY Zenon
  <2> QED  BY <2>1, <2>2, <2>3
<1>6. inRun(q)
  <2>1. q = 0 \/ h[q - 1] < z
    <3>1. CASE q # 0
      <4>1. q - 1 \in 0 .. n - 1 /\ q - 1 < q
        BY <1>2, <1>4, <3>1
      <4> QED  BY <1>3, <4>1 DEF FirstAtLeast
    <3> QED  BY <3>1
  <2>2. q = n \/ z <= h[q]
    <3>1. CASE q # n
      <4>1. q \in 0 .. n - 1 /\ ~(q < q)
        BY <1>2, <1>4, <3>1
      <4>2. h[q] \in Nat /\ ~(h[q] < z)
        BY <1>3, <4>1 DEF FirstAtLeast, Unary, Rises
      <4> QED  BY <4>2
    <3> QED  BY <3>1
  <2> QED  BY <1>4, <1>5, <2>1, <2>2
<1>7. ASSUME NEW i \in 0 .. n, inRun(i)  PROVE i = q
  <2>1. (i = 0 \/ h[i - 1] < z) /\ (i = n \/ z <= h[i])
    BY <1>5, <1>7
  <2>2. ~(i < q)
    <3> SUFFICES ASSUME i < q  PROVE FALSE
      OBVIOUS
    <3>1. i \in 0 .. n - 1 /\ i # n
      BY <1>2, <1>4
    <3>2. h[i] < z /\ h[i] \in Nat
      BY <1>3, <3>1 DEF FirstAtLeast, Unary, Rises
    <3> QED  BY <2>1, <3>1, <3>2
  <2>3. ~(q < i)
    <3> SUFFICES ASSUME q < i  PROVE FALSE
      OBVIOUS
    <3>1. i - 1 \in 0 .. n - 1 /\ ~(i - 1 < q) /\ i # 0
      BY <1>2, <1>4
    <3>2. ~(h[i - 1] < z)
      BY <1>3, <3>1 DEF FirstAtLeast
    <3> QED  BY <2>1, <3>1, <3>2
  <2> QED  BY <1>4, <2>2, <2>3
<1> DEFINE runs == {i \in 0 .. n : inRun(i)}
<1>8. EFPointer0(f, n, n + m, log0, k)
        = IF runs = {} THEN 0 ELSE k * Pow2[log0] + CHOOSE i \in runs : TRUE
  BY Zenon DEF EFPointer0
<1> HIDE DEF begin, end, inRun
<1>9. runs = {q}
  BY <1>4, <1>6, <1>7
<1> HIDE DEF runs
<1>10. (CHOOSE i \in runs : TRUE) = q /\ runs # {}
  BY <1>9
<1>11. ZeroAt(h, n, z) = z + q
  BY <1>1, <1>2, <1>3, ZeroAtIs
<1> QED  BY <1>8, <1>10, <1>11

EFParts(s, vals, universe, n) ==
  /\ s.universe = universe /\ s.n = n
  /\ s.ones = From(HighOnes(vals, universe, n), 0, n)
  /\ \A i \in 0 .. n - 1 : s.low[i] = vals[i] % Pow2[LowerBits(universe, n)]
  /\ PointersRight(HighOnes(vals, universe, n), n, s.pointers1, s.log1)
  /\ ZeroPointersRight(HighParts(vals, universe, n), n, HighZeros(universe, n),
                       s.pointers0, s.log0)

LEMMA WritesParts ==
  ASSUME NEW vals, NEW universe, NEW n, Holdable(vals, universe, n),
         NEW log0 \in Nat, NEW log1 \in Nat
  PROVE  EFParts(EFWrite(vals, universe, n, log0, log1), vals, universe, n)
<1> DEFINE l == LowerBits(universe, n)
           h == HighParts(vals, universe, n)
           f == HighOnes(vals, universe, n)
           m == HighZeros(universe, n)
           p0 == [k \in 0 .. Pointers0(universe, n, log0) |->
                    IF k = 0 THEN 0 ELSE EFPointer0(f, n, HigherBitsLength(universe, n), log0, k)]
           p1 == [k \in 0 .. Pointers1(n, log1) |->
                    IF k = 0 \/ k * Pow2[log1] >= n THEN 0 ELSE f[k * Pow2[log1]]]
           s == EFWrite(vals, universe, n, log0, log1)
<1>1. universe \in Nat /\ n \in Nat \ {0}
  BY DEF Holdable
<1>2. /\ s.universe = universe /\ s.n = n /\ s.log0 = log0 /\ s.log1 = log1
      /\ s.ones = {f[i] : i \in 0 .. n - 1}
      /\ s.low = [i \in 0 .. n - 1 |-> vals[i] % Pow2[l]]
      /\ s.pointers0 = p0 /\ s.pointers1 = p1
  BY Zenon DEF EFWrite, HighOnes
<1>3. Unary(h, f, n, m) /\ HigherBitsLength(universe, n) = n + m /\ m \in Nat /\ Rises(h, n)
  BY HighIsUnary DEF Unary
<1>4. Climbs(f, n)
  BY <1>3, UnaryClimbs
<1> HIDE DEF s, h, f, m, l
<1>5. s.ones = From(f, 0, n)
  BY <1>2 DEF From
<1>6. PointersRight(f, n, s.pointers1, s.log1)
  <2>1. ASSUME NEW k \in Nat, k * Pow2[log1] < n
        PROVE  Before(f, n, EnumeratorAt(p1[k]), k * Pow2[log1])
    <3>1. k * Pow2[log1] \in Nat
      BY ProductGrows
    <3> PICK a \in Nat : a = k * Pow2[log1]
      BY <3>1
    <3>2. a \in 0 .. n - 1 /\ a <= n
      BY <1>1, <2>1
    <3>3. k \in 0 .. Pointers1(n, log1)
      <4>1. n \in Nat /\ k * Pow2[log1] <= n
        BY <1>1, <3>2
      <4>2. k <= Shr(n, log1) /\ Shr(n, log1) \in Nat
        BY <4>1, ShrBounds, ShrFacts
      <4> QED  BY <4>2 DEF Pointers1
    <3>4. CASE k = 0
      <4>1. a = 0 /\ p1[k] = 0
        <5>1. Pow2[log1] \in Nat
          BY Pow2Facts
        <5> QED  BY <3>3, <3>4, <5>1
      <4>2. FirstAtLeast(f, n, 0, 0)
        <5>1. \A i \in 0 .. n - 1 : ~(i < 0) /\ ~(f[i] < 0)
          BY <1>4 DEF Climbs
        <5>2. 0 \in 0 .. n
          BY <1>1
        <5> QED  BY <5>1, <5>2 DEF FirstAtLeast
      <4>3. 0 \in Nat
        OBVIOUS
      <4>4. Before(f, n, EnumeratorAt(0), 0)
        BY <1>4, <4>2, <4>3, BeforeFirstGeq
      <4> QED  BY <4>1, <4>4
    <3>5. CASE k # 0
      <4>1. p1[k] = f[a]
        BY <1>1, <3>2, <3>3, <3>5
      <4>2. FirstAtLeast(f, n, f[a], a) /\ f[a] \in Nat
        BY <1>4, <3>2, FirstGeqOwn DEF Climbs
      <4>3. Before(f, n, EnumeratorAt(f[a]), a)
        BY <1>4, <4>2, BeforeFirstGeq
      <4> QED  BY <4>1, <4>3
    <3> QED  BY <3>4, <3>5
  <2> HIDE DEF p1
  <2> QED  BY <1>2, <2>1, Zenon DEF PointersRight
<1>7. ZeroPointersRight(h, n, m, s.pointers0, s.log0)
  <2>1. ASSUME NEW k \in Nat, k * Pow2[log0] < m
        PROVE  p0[k] = ZeroAt(h, n, k * Pow2[log0])
    <3>1. k * Pow2[log0] \in Nat
      BY ProductGrows
    <3>2. k \in 0 .. Pointers0(universe, n, log0)
      <4>1. HigherBitsLength(universe, n) - n = m
        BY <1>1, <1>3
      <4>2. k * Pow2[log0] <= m
        BY <1>3, <2>1, <3>1
      <4>3. k <= Shr(m, log0) /\ Shr(m, log0) \in Nat
        BY <1>3, <4>2, ShrBounds, ShrFacts
      <4> QED  BY <4>1, <4>3 DEF Pointers0
    <3>3. CASE k = 0
      <4>1. k * Pow2[log0] = 0
        BY <3>3, Pow2Facts
      <4>2. FirstAtLeast(h, n, 0, 0)
        <5>1. \A i \in 0 .. n - 1 : ~(i < 0) /\ ~(h[i] < 0)
          BY <1>3 DEF Rises
        <5>2. 0 \in 0 .. n
          BY <1>1
        <5> QED  BY <5>1, <5>2 DEF FirstAtLeast
      <4>3. 0 \in Int
        OBVIOUS
      <4>4. ZeroAt(h, n, 0) = 0 + 0
        BY <1>3, <4>2, <4>3, ZeroAtIs
      <4> QED  BY <3>2, <3>3, <4>1, <4>4
    <3>4. CASE k # 0
      <4>1. p0[k] = EFPointer0(f, n, n + m, log0, k)
        BY <1>3, <3>2, <3>4
      <4> QED  BY <1>3, <2>1, <3>4, <4>1, PointerToZero
    <3> QED  BY <3>3, <3>4
  <2> HIDE DEF p0
  <2> QED  BY <1>2, <2>1, Zenon DEF ZeroPointersRight
<1>8. \A i \in 0 .. n - 1 : s.low[i] = vals[i] % Pow2[l]
  BY <1>2
<1>9. s.universe = universe /\ s.n = n
  BY <1>2
<1> QED  BY <1>5, <1>6, <1>7, <1>8, <1>9, Zenon DEF EFParts, s, h, f, m, l
-----------------------------------------------------------------------------
(* The enumerator of compact_elias_fano.                                     *)

LEMMA NthOfInterval ==
  ASSUME NEW n \in Nat, NEW a \in Nat, a < n
  PROVE  Nth(a .. n - 1, 0) = a
<1> DEFINE id == [i \in 0 .. n - 1 |-> i]
<1>1. Climbs(id, n)
  BY DEF Climbs
<1>2. From(id, a, n) = a .. n - 1
  <2>1. \A j \in a .. n - 1 : id[j] = j
    OBVIOUS
  <2> HIDE DEF id
  <2> QED  BY <2>1 DEF From
<1>3. id[a + 0] = a
  OBVIOUS
<1>4. 0 \in Nat /\ a + 0 < n
  OBVIOUS
<1> HIDE DEF id
<1>5. Nth(From(id, a, n), 0) = id[a + 0]
  BY <1>1, <1>4, NthOfFrom
<1> QED  BY <1>2, <1>3, <1>5

(* e is at position p and has read the value there, or it is at the end.     *)
AtValue(f, vals, universe, n, e, p) ==
  /\ Reading(f, n, e, p)
  /\ e = [position |-> p, value |-> IF p < n THEN vals[p] ELSE universe, he |-> e.he]

EFAt(vals, universe, n, e, p) == AtValue(HighOnes(vals, universe, n), vals, universe, n, e, p)

LEMMA EFValueReads ==
  ASSUME NEW vals, NEW universe, NEW n, Holdable(vals, universe, n),
         NEW s, EFParts(s, vals, universe, n),
         NEW p, p \in 0 .. n - 1, NEW he, he.pos = HighOnes(vals, universe, n)[p]
  PROVE  EFValue(s, he, p) = vals[p]
<1>1. n \in Nat \ {0} /\ universe \in Nat /\ vals[p] \in Nat
  BY DEF Holdable, Rises
<1> PICK l \in Nat : l = LowerBits(universe, n)
  BY <1>1, LowerBitsType
<1>2. he.pos = Shr(vals[p], l) + p + 1
  BY DEF HighOnes
<1>3. Shr(vals[p], l) \in Nat /\ vals[p] = Shr(vals[p], l) * Pow2[l] + (vals[p] % Pow2[l])
  BY <1>1, ShrFacts
<1>4. (he.pos - p) - 1 = Shr(vals[p], l)
  BY <1>1, <1>2, <1>3
<1>5. s.universe = universe /\ s.n = n /\ s.low[p] = vals[p] % Pow2[l]
  BY DEF EFParts
<1>6. EFValue(s, he, p) = ((he.pos - p) - 1) * Pow2[l] + s.low[p]
  BY <1>5 DEF EFValue
<1> QED  BY <1>3, <1>4, <1>5, <1>6

LEMMA EFReadAt ==
  ASSUME NEW vals, NEW universe, NEW n, Holdable(vals, universe, n),
         NEW s, EFParts(s, vals, universe, n), NEW p, p \in 0 .. n - 1
  PROVE  EFAt(vals, universe, n, EFRead(s, p, AtOne(HighOnes(vals, universe, n), p)), p)
<1> DEFINE f == HighOnes(vals, universe, n)
           e == EFRead(s, p, AtOne(f, p))
<1>1. n \in Nat \ {0} /\ p \in 0 .. n /\ p < n
  BY DEF Holdable
<1>2. EFValue(s, AtOne(f, p), p) = vals[p]
  <2>1. AtOne(f, p).pos = f[p]
    BY DEF AtOne
  <2> QED  BY <2>1, EFValueReads
<1> HIDE DEF f
<1>3. e = [position |-> p, value |-> vals[p], he |-> AtOne(f, p)]
  BY <1>2 DEF EFRead
<1> HIDE DEF e
<1>4. e.position = p /\ e.he = AtOne(f, p)
  BY <1>3
<1>5. AtValue(f, vals, universe, n, e, p)
  BY <1>1, <1>3, <1>4 DEF AtValue, Reading
<1> QED  BY <1>5 DEF EFAt, e, f

LEMMA EndAt ==
  ASSUME NEW f, NEW vals, NEW universe, NEW n \in Nat, NEW he
  PROVE  AtValue(f, vals, universe, n, [position |-> n, value |-> universe, he |-> he], n)
<1>1. n \in 0 .. n /\ ~(n < n)
  OBVIOUS
<1> QED  BY <1>1 DEF AtValue, Reading

LEMMA EFNewAt ==
  ASSUME NEW vals, NEW universe, NEW n, Holdable(vals, universe, n),
         NEW s, EFParts(s, vals, universe, n)
  PROVE  EFAt(vals, universe, n, EFNew(s), n)
<1>1. n \in Nat
  BY DEF Holdable
<1>2. EFNew(s) = [position |-> n, value |-> universe, he |-> NoEnumerator]
  BY DEF EFNew, EFParts
<1> QED  BY <1>1, <1>2, EndAt DEF EFAt

LEMMA EFMoveAt ==
  ASSUME NEW vals, NEW universe, NEW n, Holdable(vals, universe, n),
         NEW s, EFParts(s, vals, universe, n),
         NEW e, NEW p, EFAt(vals, universe, n, e, p), NEW q, q \in 0 .. n
  PROVE  EFAt(vals, universe, n, EFMove(s, e, q), q)
<1> DEFINE f == HighOnes(vals, universe, n)
<1>1. n \in Nat \ {0} /\ p \in 0 .. n /\ e.position = p /\ Reading(f, n, e, p)
  BY DEF Holdable, EFAt, AtValue, Reading
<1>2. Climbs(f, n)
  BY HighIsUnary, UnaryClimbs
<1>3. s.ones = From(f, 0, n) /\ s.n = n /\ s.universe = universe
      /\ PointersRight(f, n, s.pointers1, s.log1)
  BY DEF EFParts
<1>4. CASE q - p = 0
  <2>1. q = p
    BY <1>1, <1>4
  <2>2. EFMove(s, e, q) = e
    BY <1>1, <1>4 DEF EFMove
  <2> QED  BY <2>1, <2>2
<1>5. CASE q - p # 0 /\ q = n
  <2>1. EFMove(s, e, q) = EFAtEnd(s, e)
    BY <1>1, <1>3, <1>5, Zenon DEF EFMove
  <2>2. e = [position |-> p, value |-> IF p < n THEN vals[p] ELSE universe, he |-> e.he]
    BY DEF EFAt, AtValue
  <2>3a. EFAtEnd(s, e) = [e EXCEPT !.position = n, !.value = universe]
    BY <1>3, Zenon DEF EFAtEnd
  <2>3. EFAtEnd(s, e) = [position |-> n, value |-> universe, he |-> e.he]
    BY <2>2, <2>3a
  <2>4. n \in Nat
    BY <1>1
  <2> QED  BY <1>5, <2>1, <2>3, <2>4, EndAt DEF EFAt
<1>6. CASE q - p # 0 /\ q # n
  <2>1. q \in 0 .. n - 1
    BY <1>1, <1>6
  <2>2. \E he : EFMove(s, e, q) = EFRead(s, q, he) /\ he = AtOne(f, q)
    <3>1. CASE q - p \in 1 .. LinearScanThreshold
      <4>1. EFMove(s, e, q) = EFRead(s, q, Ahead(s.ones, e.he, q - p))
        BY <1>1, <1>3, <1>6, <3>1, Zenon DEF EFMove
      <4>2. p \in 0 .. n - 1 /\ q - p \in Nat \ {0} /\ (p + 1) + (q - p) <= n + 1
        BY <1>1, <2>1, <3>1
      <4>3. e.he = AtOne(f, p) /\ Before(f, n, e.he, p + 1)
        BY <1>1, <1>2, <4>2, BeforeNext DEF Reading
      <4>4. (p + 1) + (q - p) <= n /\ (p + 1) + ((q - p) - 1) = q
        BY <1>1, <2>1
      <4> HIDE DEF f
      <4>5. Ahead(From(f, 0, n), e.he, q - p) = AtOne(f, (p + 1) + ((q - p) - 1))
        BY <1>2, <4>2, <4>3, <4>4, AheadReads
      <4> QED  BY <1>3, <4>1, <4>4, <4>5
    <3>2. CASE q - p \notin 1 .. LinearScanThreshold
      <4>1. EFMove(s, e, q) = EFSlowMove(s, e, q)
        BY <1>1, <1>3, <1>6, <3>2, Zenon DEF EFMove
      <4>2. EFSlowMove(s, e, q)
              = EFRead(s, q, Ahead(s.ones, SlowHe(s.ones, s.pointers1, s.log1, e, q), 1))
        BY Zenon DEF EFSlowMove, SlowHe
      <4> HIDE DEF f
      <4>3. Ahead(From(f, 0, n), SlowHe(From(f, 0, n), s.pointers1, s.log1, e, q), 1)
              = AtOne(f, q)
        BY <1>1, <1>2, <1>3, <2>1, SlowHeReaches
      <4> QED  BY <1>3, <4>1, <4>2, <4>3
    <3> QED  BY <3>1, <3>2
  <2> QED  BY <2>1, <2>2, EFReadAt
<1> QED  BY <1>4, <1>5, <1>6

LEMMA EFNextAt ==
  ASSUME NEW vals, NEW universe, NEW n, Holdable(vals, universe, n),
         NEW s, EFParts(s, vals, universe, n),
         NEW e, NEW p, EFAt(vals, universe, n, e, p), p < n
  PROVE  EFAt(vals, universe, n, EFNext(s, e), p + 1)
<1> DEFINE f == HighOnes(vals, universe, n)
<1>1. n \in Nat \ {0} /\ p \in 0 .. n /\ e.position = p /\ Reading(f, n, e, p)
  BY DEF Holdable, EFAt, AtValue, Reading
<1>2. Climbs(f, n)
  BY HighIsUnary, UnaryClimbs
<1>3. s.ones = From(f, 0, n) /\ s.n = n /\ s.universe = universe
  BY DEF EFParts
<1>4. CASE p + 1 < n
  <2>1. EFNext(s, e) = EFRead(s, p + 1, Ahead(s.ones, e.he, 1))
    BY <1>1, <1>3, <1>4 DEF EFNext
  <2>2. /\ p \in 0 .. n - 1 /\ p + 1 \in 0 .. n - 1 /\ 1 \in Nat \ {0}
        /\ (p + 1) + 1 <= n /\ (p + 1) + (1 - 1) = p + 1
    BY <1>1, <1>4
  <2>3. Before(f, n, e.he, p + 1)
    BY <1>1, <1>2, <2>2, BeforeNext DEF Reading
  <2>4. Ahead(From(f, 0, n), e.he, 1) = AtOne(f, (p + 1) + (1 - 1))
    <3> HIDE DEF f
    <3> QED  BY <1>2, <2>2, <2>3, AheadReads
  <2>5. EFNext(s, e) = EFRead(s, p + 1, AtOne(f, p + 1))
    BY <1>3, <2>1, <2>2, <2>4
  <2> QED  BY <2>2, <2>5, EFReadAt
<1>5. CASE ~(p + 1 < n)
  <2>1. p + 1 = n
    BY <1>1, <1>5
  <2>2. e = [position |-> p, value |-> IF p < n THEN vals[p] ELSE universe, he |-> e.he]
    BY DEF EFAt, AtValue
  <2>3. EFNext(s, e) = [e EXCEPT !.position = p + 1, !.value = universe]
    BY <1>1, <1>3, <1>5 DEF EFNext
  <2>4. EFNext(s, e) = [position |-> n, value |-> universe, he |-> e.he]
    BY <2>1, <2>2, <2>3
  <2>5. n \in Nat
    BY <1>1
  <2> QED  BY <2>1, <2>4, <2>5, EndAt DEF EFAt
<1> QED  BY <1>4, <1>5

LEMMA EFPrevIs ==
  ASSUME NEW vals, NEW universe, NEW n, Holdable(vals, universe, n),
         NEW s, EFParts(s, vals, universe, n),
         NEW e, NEW p, EFAt(vals, universe, n, e, p)
  PROVE  EFPrev(s, e) = IF p = 0 THEN 0 ELSE vals[p - 1]
<1> DEFINE f == HighOnes(vals, universe, n)
           h == HighParts(vals, universe, n)
           m == HighZeros(universe, n)
<1>1. n \in Nat \ {0} /\ p \in 0 .. n /\ e.position = p /\ Reading(f, n, e, p)
  BY DEF Holdable, EFAt, AtValue, Reading
<1>2. Unary(h, f, n, m) /\ HigherBitsLength(universe, n) = n + m /\ m \in Nat
  BY HighIsUnary DEF Unary
<1>3. Climbs(f, n)
  BY <1>2, UnaryClimbs
<1>4. s.ones = From(f, 0, n) /\ s.n = n /\ s.universe = universe
  BY DEF EFParts
<1>5. CASE p = 0
  BY <1>1, <1>5 DEF EFPrev
<1>6. CASE p # 0
  <2> DEFINE end == IF p < n THEN e.he.pos ELSE HigherBitsLength(universe, n)
             he == [pos |-> Predecessor(s.ones, end - 1)]
  <2>1. EFPrev(s, e) = EFValue(s, he, p - 1)
    BY <1>1, <1>4, <1>6, Zenon DEF EFPrev
  <2>2. p - 1 \in 0 .. n - 1 /\ f[p - 1] \in Nat
    BY <1>1, <1>3, <1>6 DEF Climbs
  <2>3. end - 1 \in Int /\ f[p - 1] <= end - 1 /\ ((p - 1) + 1 < n => end - 1 < f[(p - 1) + 1])
    <3>1. CASE p < n
      <4>1. p \in 0 .. n - 1 /\ p - 1 < p /\ (p - 1) + 1 = p
        BY <1>1, <3>1
      <4>2. f[p] \in Nat /\ f[p - 1] < f[p]
        BY <1>3, <2>2, <4>1 DEF Climbs
      <4>3. end = f[p]
        BY <1>1, <3>1 DEF Reading, AtOne
      <4> HIDE DEF end, f
      <4> QED  BY <2>2, <4>1, <4>2, <4>3
    <3>2. CASE ~(p < n)
      <4>1. p = n /\ (p - 1) + 1 = n
        BY <1>1, <3>2
      <4>2. end = n + m
        BY <1>2, <3>2
      <4>3. h[p - 1] < m - 1 /\ f[p - 1] = h[p - 1] + (p - 1) + 1 /\ h[p - 1] \in Nat
        BY <1>2, <2>2 DEF Unary, Rises
      <4> HIDE DEF end, f, h, m
      <4> QED  BY <1>1, <1>2, <2>2, <4>1, <4>2, <4>3
    <3> QED  BY <3>1, <3>2
  <2>4. Predecessor(s.ones, end - 1) = f[p - 1]
    <3> HIDE DEF end, f
    <3> QED  BY <1>3, <1>4, <2>2, <2>3, PredecessorReads
  <2>5. he.pos = f[p - 1]
    BY <2>4
  <2> HIDE DEF he
  <2>6. EFValue(s, he, p - 1) = vals[p - 1]
    BY <2>2, <2>5, EFValueReads
  <2> QED  BY <1>6, <2>1, <2>6
<1> QED  BY <1>5, <1>6
(* Reading on from the position first, which is not past the bound, leads to *)
(* the first value that is not below it.                                     *)
LEMMA EFScanAt ==
  ASSUME NEW vals, NEW universe, NEW n, Holdable(vals, universe, n),
         NEW s, EFParts(s, vals, universe, n),
         NEW he, NEW first, Before(HighOnes(vals, universe, n), n, he, first),
         NEW bound \in Nat, NEW q, FirstAtLeast(vals, n, bound, q), first <= q
  PROVE  EFAt(vals, universe, n, EFScan(s, he, first, bound), q)
<1> DEFINE f == HighOnes(vals, universe, n)
           after(p) == Ahead(s.ones, he, (p - first) + 1)
           candidates == {p \in first .. n - 1 : EFValue(s, after(p), p) >= bound}
           stop == IF candidates = {} THEN n ELSE Nth(candidates, 0)
<1>1. n \in Nat \ {0} /\ first \in 0 .. n /\ q \in 0 .. n
  BY DEF Holdable, Before, FirstAtLeast
<1>2. Climbs(f, n)
  BY HighIsUnary, UnaryClimbs
<1>3. s.ones = From(f, 0, n) /\ s.n = n /\ s.universe = universe
  BY DEF EFParts
<1>4. ASSUME NEW p \in first .. n - 1
      PROVE  /\ after(p) = AtOne(f, p) /\ EFValue(s, after(p), p) = vals[p]
             /\ p \in 0 .. n - 1
  <2>1. p \in 0 .. n - 1
    BY <1>1
  <2>2. /\ (p - first) + 1 \in Nat \ {0} /\ first + ((p - first) + 1) <= n
        /\ first + (((p - first) + 1) - 1) = p
    BY <1>1
  <2> HIDE DEF f
  <2>3. Ahead(From(f, 0, n), he, (p - first) + 1) = AtOne(f, first + (((p - first) + 1) - 1))
    BY <1>2, <2>2, AheadReads DEF f
  <2>4. after(p) = AtOne(f, p)
    BY <1>3, <2>2, <2>3
  <2>5. after(p).pos = f[p]
    BY <2>4 DEF AtOne
  <2> HIDE DEF after
  <2>6. EFValue(s, after(p), p) = vals[p]
    BY <2>1, <2>5, EFValueReads DEF f
  <2> QED  BY <2>1, <2>4, <2>6
<1>5. EFScan(s, he, first, bound) =
        IF stop = n
        THEN [position |-> n, value |-> universe, he |-> after(n - 1)]
        ELSE EFRead(s, stop, after(stop))
  <2>1. ~(first > n)
    BY <1>1
  <2>2. (IF first > s.n THEN first ELSE s.n) = n
    BY <1>3, <2>1
  <2> QED  BY <1>3, <2>2, Zenon DEF EFScan
<1>6. candidates = q .. n - 1
  <2> HIDE DEF after
  <2>1. ASSUME NEW p \in candidates  PROVE p \in q .. n - 1
    <3>1. p \in first .. n - 1 /\ vals[p] >= bound /\ p \in 0 .. n - 1
      BY <1>4, <2>1
    <3>2. vals[p] \in Nat
      BY <3>1 DEF Holdable, Rises
    <3>3. ~(p < q)
      BY <3>1, <3>2 DEF FirstAtLeast
    <3> QED  BY <1>1, <3>1, <3>3
  <2>2. ASSUME NEW p \in q .. n - 1  PROVE p \in candidates
    <3>1. p \in first .. n - 1 /\ p \in 0 .. n - 1 /\ ~(p < q)
      BY <1>1
    <3>2. vals[p] \in Nat /\ ~(vals[p] < bound)
      BY <3>1 DEF Holdable, Rises, FirstAtLeast
    <3> QED  BY <1>4, <3>1, <3>2
  <2> HIDE DEF candidates
  <2> QED  BY <2>1, <2>2
<1> HIDE DEF candidates, after, f
<1>7. CASE q = n
  <2>1. stop = n
    <3>1. q .. n - 1 = {}
      BY <1>1, <1>7
    <3> QED  BY <1>6, <3>1
  <2> HIDE DEF stop
  <2>2. n \in Nat
    BY <1>1
  <2> QED  BY <1>5, <1>7, <2>1, <2>2, EndAt DEF EFAt
<1>8. CASE q # n
  <2>1. q \in q .. n - 1 /\ q < n /\ q \in Nat /\ n \in Nat
    BY <1>1, <1>8
  <2>2. stop = q
    BY <1>6, <2>1, NthOfInterval
  <2>3. q \in first .. n - 1
    BY <1>1, <2>1
  <2> HIDE DEF stop
  <2>4. EFScan(s, he, first, bound) = EFRead(s, q, AtOne(f, q)) /\ q \in 0 .. n - 1
    BY <1>4, <1>5, <1>8, <2>2, <2>3
  <2> QED  BY <2>4, EFReadAt DEF f
<1> QED  BY <1>7, <1>8

(* The search for the zero that precedes the high part of the bound, from    *)
(* the current one or from a pointer, leads before no value that reaches it. *)
LEMMA EFZeroOfBoundIs ==
  ASSUME NEW vals, NEW universe, NEW n, Holdable(vals, universe, n),
         NEW s, EFParts(s, vals, universe, n),
         NEW e, NEW p, EFAt(vals, universe, n, e, p),
         NEW bound \in Nat, bound < universe, NEW q, FirstAtLeast(vals, n, bound, q)
  PROVE  \E first \in 0 .. q :
           /\ Before(HighOnes(vals, universe, n), n, EFZeroOfBound(s, e, bound), first)
           /\ EFZeroOfBound(s, e, bound).pos - High(s, bound) = first
<1> DEFINE f == HighOnes(vals, universe, n)
           h == HighParts(vals, universe, n)
           m == HighZeros(universe, n)
           he == EFZeroOfBound(s, e, bound)
           high == High(s, bound)
<1>1. n \in Nat \ {0} /\ n \in Nat /\ universe \in Nat /\ p \in 0 .. n /\ q \in 0 .. n
  BY DEF Holdable, EFAt, AtValue, Reading, FirstAtLeast
<1>2. /\ Unary(h, f, n, m) /\ HigherBitsLength(universe, n) = n + m /\ m \in Nat /\ Rises(h, n)
  BY HighIsUnary DEF Unary
<1>3. Climbs(f, n)
  BY <1>2, UnaryClimbs
<1>4. /\ s.ones = From(f, 0, n) /\ s.n = n /\ s.universe = universe
      /\ ZeroPointersRight(h, n, m, s.pointers0, s.log0)
  BY DEF EFParts
<1> PICK l \in Nat : l = LowerBits(universe, n)
  BY <1>1, LowerBitsType
<1>5. high = Shr(bound, l) /\ high \in Nat /\ high < m - 1
  <2>1. high = Shr(bound, l)
    BY <1>4 DEF High
  <2>2. bound <= universe
    BY <1>1
  <2>3. Shr(bound, l) \in Nat /\ Shr(bound, l) <= Shr(universe, l) /\ Shr(universe, l) \in Nat
    BY <1>1, <2>2, ShrFacts, ShrGrows
  <2>4. m = Shr(universe, l) + 2
    BY DEF HighZeros
  <2> QED  BY <2>1, <2>3, <2>4
<1>6. PICK r : FirstAtLeast(h, n, high, r)
  <2>1. high \in Int
    BY <1>5
  <2> QED  BY <1>2, <2>1, FirstAtLeastExists
<1>7. r \in 0 .. n /\ r <= q
  <2>1. r \in 0 .. n
    BY <1>6 DEF FirstAtLeast
  <2>2. ~(q < r)
    <3> SUFFICES ASSUME q < r  PROVE FALSE
      OBVIOUS
    <3>1. q \in 0 .. n - 1
      BY <1>1, <2>1
    <3>2. h[q] < high /\ h[q] = Shr(vals[q], l)
      BY <1>6, <3>1 DEF FirstAtLeast, HighParts
    <3>3. vals[q] \in Nat /\ ~(vals[q] < bound)
      BY <1>1, <3>1 DEF FirstAtLeast, Holdable, Rises
    <3>4. bound <= vals[q]
      BY <3>3
    <3>5. Shr(bound, l) <= Shr(vals[q], l) /\ Shr(vals[q], l) \in Nat
      BY <3>3, <3>4, ShrGrows, ShrFacts
    <3> QED  BY <1>5, <3>2, <3>5
  <2> QED  BY <1>1, <2>1, <2>2
(* The zero itself.                                                          *)
<1>8. ASSUME he = EnumeratorAt(high + r)
      PROVE  Before(f, n, he, r) /\ he.pos - high = r
  <2>1. FirstAtLeast(f, n, high + r, r) /\ high + r \in Nat
    <3>1. high \in Int
      BY <1>5
    <3>2. FirstAtLeast(f, n, high + r, r)
      BY <1>2, <1>6, <3>1, ZeroBetween
    <3> QED  BY <1>5, <1>7, <3>2
  <2> HIDE DEF he, high, f
  <2>2. Before(f, n, EnumeratorAt(high + r), r)
    BY <1>3, <2>1, BeforeFirstGeq
  <2>3. EnumeratorAt(high + r).pos - high = r
    <3>1. EnumeratorAt(high + r).pos = high + r
      BY DEF EnumeratorAt
    <3> QED  BY <1>5, <1>7, <3>1
  <2> QED  BY <1>8, <2>2, <2>3
<1> DEFINE diff == high - High(s, e.value)
           ptr == Shr(high, s.log0)
<1>9. CASE bound > e.value /\ Shr(diff, s.log0) = 0
  <2>1. p \in 0 .. n - 1 /\ p < n /\ e.value = vals[p] /\ e.he = AtOne(f, p)
    <3>1. e.value = IF p < n THEN vals[p] ELSE universe
      BY DEF EFAt, AtValue
    <3>2. p < n
      <4> SUFFICES ASSUME ~(p < n)  PROVE FALSE
        OBVIOUS
      <4> QED  BY <1>1, <1>9, <3>1
    <3> QED  BY <1>1, <3>1, <3>2 DEF EFAt, AtValue, Reading
  <2>2. vals[p] \in Nat /\ vals[p] < bound
    BY <1>9, <2>1 DEF Holdable, Rises
  <2>3. High(s, e.value) = h[p] /\ h[p] \in Nat /\ h[p] = Shr(vals[p], l)
    <3>1. h[p] = Shr(vals[p], l)
      BY <2>1 DEF HighParts
    <3>2. High(s, e.value) = Shr(vals[p], l)
      BY <1>4, <2>1 DEF High
    <3>3. Shr(vals[p], l) \in Nat
      BY <2>2, ShrFacts
    <3> QED  BY <3>1, <3>2, <3>3
  <2>4. h[p] <= high
    <3>1. vals[p] <= bound
      BY <2>2
    <3> QED  BY <1>5, <2>2, <2>3, <3>1, ShrGrows
  <2> PICK k \in Nat : k = diff
    BY <1>5, <2>3, <2>4
  <2>5. h[p] + k = high /\ h[p] + k < m
    BY <1>2, <1>5, <2>3
  <2> DEFINE pos == OneAsZero(h, f, n, m, p)[h[p] + k]
  <2>6. he = [pos |-> pos, used |-> pos \in From(f, 0, n)]
    <3>1. he = SkipZeros(From(f, 0, n), AtOne(f, p), k, n + m)
      BY <1>2, <1>4, <1>9, <2>1, Zenon DEF EFZeroOfBound
    <3> HIDE DEF f, h, m, he
    <3> QED  BY <1>2, <2>1, <2>5, <3>1, SkipFromOne
  <2>7. high \in 0 .. m - 1
    BY <1>2, <1>5
  <2>8. pos = IF high = h[p] THEN f[p] ELSE ZeroAt(h, n, high)
    <3> HIDE DEF f, h, m, high, diff
    <3> QED  BY <2>5, <2>7 DEF OneAsZero
  <2> HIDE DEF pos
  <2>9. CASE high = h[p]
    <3>1. pos = f[p] /\ f[p] \in From(f, 0, n)
      BY <2>1, <2>8, <2>9 DEF From
    <3>2. (pos \in From(f, 0, n)) = TRUE
      BY <3>1
    <3>3. he = AtOne(f, p)
      <4> HIDE DEF he, f
      <4> QED  BY <2>6, <3>1, <3>2, Zenon DEF AtOne
    <3>4. Before(f, n, he, p + 1)
      <4> HIDE DEF he, f
      <4> QED  BY <1>3, <2>1, <3>3, BeforeNext
    <3>5. he.pos - high = p + 1
      <4>1. f[p] = h[p] + p + 1
        BY <1>2, <2>1 DEF Unary
      <4>2. he.pos = f[p]
        BY <3>3 DEF AtOne
      <4> HIDE DEF f, h, high, he
      <4> QED  BY <1>1, <2>3, <2>9, <4>1, <4>2
    <3>6. p + 1 \in 0 .. q
      <4>1. p < q
        BY <2>1, <2>2 DEF FirstAtLeast
      <4> QED  BY <1>1, <4>1
    <3> QED  BY <3>4, <3>5, <3>6
  <2>10. CASE high # h[p]
    <3>1. pos = high + r
      <4>1. high \in Int
        BY <1>5
      <4> HIDE DEF h, high
      <4> QED  BY <1>2, <1>6, <2>8, <2>10, <4>1, ZeroAtIs
    <3>2. high + r \notin From(f, 0, n)
      <4>1. high \in Int
        BY <1>5
      <4> QED  BY <1>2, <1>6, <4>1, ZeroBetween
    <3>3. (pos \in From(f, 0, n)) = FALSE
      BY <3>1, <3>2
    <3>4. he = EnumeratorAt(high + r)
      <4> HIDE DEF he, high, f
      <4> QED  BY <2>6, <3>1, <3>3, Zenon DEF EnumeratorAt
    <3>5. r \in 0 .. q
      BY <1>1, <1>7
    <3> QED  BY <1>8, <3>4, <3>5
  <2> QED  BY <2>9, <2>10
<1>10. CASE ~(bound > e.value /\ Shr(diff, s.log0) = 0)
  <2>1. s.log0 \in Nat
    BY <1>4 DEF ZeroPointersRight
  <2>2. /\ ptr \in Nat /\ ptr * Pow2[s.log0] \in Nat /\ ptr * Pow2[s.log0] <= high
    BY <1>5, <2>1, ShrFacts
  <2> PICK z \in Nat : z = ptr * Pow2[s.log0]
    BY <2>2
  <2>3. z <= high /\ z < m /\ z \in Int
    BY <1>2, <1>5, <2>2
  <2>4. PICK t : FirstAtLeast(h, n, z, t)
    BY <1>2, <2>3, FirstAtLeastExists
  <2>5. s.pointers0[ptr] = z + t
    <3>1. s.pointers0[ptr] = ZeroAt(h, n, z)
      <4> HIDE DEF ptr, h, m
      <4> QED  BY <1>4, <2>2, <2>3 DEF ZeroPointersRight
    <3> QED  BY <1>2, <2>3, <2>4, <3>1, ZeroAtIs
  <2> PICK k \in Nat : k = high - z
    BY <1>5, <2>3
  <2>6. z + k = high /\ z + k < m
    BY <1>2, <1>5, <2>3
  <2>7. he = SkipZeros(From(f, 0, n), EnumeratorAt(z + t), k, n + m)
    BY <1>2, <1>4, <1>10, <2>5, Zenon DEF EFZeroOfBound
  <2>8. he = EnumeratorAt((z + k) + r)
    <3>1. FirstAtLeast(h, n, z + k, r)
      BY <1>6, <2>6
    <3> HIDE DEF f, h, m, he
    <3> QED  BY <1>2, <2>4, <2>6, <2>7, <3>1, SkipFromZero
  <2>9. r \in 0 .. q
    BY <1>1, <1>7
  <2> QED  BY <1>8, <2>6, <2>8, <2>9
<1> QED  BY <1>9, <1>10

(* next_geq, forward or back, is at the first value from the bound on, and   *)
(* stays where it is at the bound.                                           *)
LEMMA EFNextGeqAt ==
  ASSUME NEW vals, NEW universe, NEW n, Holdable(vals, universe, n),
         NEW s, EFParts(s, vals, universe, n),
         NEW e, NEW p, EFAt(vals, universe, n, e, p),
         NEW bound \in Nat, bound <= universe, NEW q, FirstAtLeast(vals, n, bound, q)
  PROVE  EFAt(vals, universe, n, EFNextGeq(s, e, bound), IF e.value = bound THEN p ELSE q)
<1> DEFINE f == HighOnes(vals, universe, n)
<1>1. n \in Nat \ {0} /\ n \in Nat /\ universe \in Nat /\ p \in 0 .. n /\ q \in 0 .. n
      /\ e.position = p
  BY DEF Holdable, EFAt, AtValue, Reading, FirstAtLeast
<1>2. Climbs(f, n)
  BY HighIsUnary, UnaryClimbs
<1>3. s.n = n /\ s.universe = universe
  BY DEF EFParts
<1>4. CASE bound = e.value
  <2>1. EFNextGeq(s, e, bound) = e
    BY <1>4 DEF EFNextGeq
  <2> QED  BY <1>4, <2>1
<1>5. CASE bound # e.value /\ bound > e.value
           /\ High(s, bound) - High(s, e.value) <= LinearScanThreshold
  <2>1. EFNextGeq(s, e, bound) = EFScan(s, e.he, p + 1, bound)
    BY <1>1, <1>5, Zenon DEF EFNextGeq
  <2>2. e.value = IF p < n THEN vals[p] ELSE universe
    BY DEF EFAt, AtValue
  <2>3. p < n
    <3> SUFFICES ASSUME ~(p < n)  PROVE FALSE
      OBVIOUS
    <3> QED  BY <1>1, <1>5, <2>2
  <2>4. p \in 0 .. n - 1 /\ vals[p] < bound
    BY <1>1, <1>5, <2>2, <2>3 DEF Holdable, Rises
  <2>5. p < q
    BY <2>4 DEF FirstAtLeast
  <2>6. p + 1 <= q
    BY <1>1, <2>5
  <2>7. Before(f, n, e.he, p + 1)
    <3>1. e.he = AtOne(f, p)
      BY <2>3 DEF EFAt, AtValue, Reading
    <3> QED  BY <1>2, <2>4, <3>1, BeforeNext
  <2>8. EFAt(vals, universe, n, EFScan(s, e.he, p + 1, bound), q)
    BY <2>6, <2>7, EFScanAt
  <2> QED  BY <1>5, <2>1, <2>8
<1>6. CASE bound # e.value
           /\ ~(bound > e.value /\ High(s, bound) - High(s, e.value) <= LinearScanThreshold)
  <2>1. EFNextGeq(s, e, bound) = EFSlowNextGeq(s, e, bound)
    BY <1>6, Zenon DEF EFNextGeq
  <2>2. CASE bound >= universe
    <3>1. EFSlowNextGeq(s, e, bound) = EFMove(s, e, n)
      BY <1>3, <2>2 DEF EFSlowNextGeq
    <3>2. q = n
      <4> SUFFICES ASSUME q # n  PROVE FALSE
        OBVIOUS
      <4>1. q \in 0 .. n - 1 /\ ~(q < q)
        BY <1>1
      <4>2. vals[q] < universe /\ vals[q] \in Nat /\ ~(vals[q] < bound)
        BY <4>1 DEF FirstAtLeast, Holdable, Rises
      <4> QED  BY <1>1, <2>2, <4>2
    <3>3. EFAt(vals, universe, n, EFMove(s, e, n), n)
      <4>1. n \in 0 .. n
        BY <1>1
      <4> QED  BY <4>1, EFMoveAt
    <3> QED  BY <1>6, <2>1, <3>1, <3>2, <3>3
  <2>3. CASE ~(bound >= universe)
    <3>1. bound < universe
      BY <1>1, <2>3
    <3>2. PICK first \in 0 .. q :
            /\ Before(f, n, EFZeroOfBound(s, e, bound), first)
            /\ EFZeroOfBound(s, e, bound).pos - High(s, bound) = first
      BY <3>1, EFZeroOfBoundIs
    <3>3. EFSlowNextGeq(s, e, bound) = EFScan(s, EFZeroOfBound(s, e, bound), first, bound)
      BY <1>3, <2>3, <3>2, Zenon DEF EFSlowNextGeq
    <3>4. first <= q
      BY <1>1
    <3>5. EFAt(vals, universe, n, EFScan(s, EFZeroOfBound(s, e, bound), first, bound), q)
      BY <3>2, <3>4, EFScanAt
    <3> QED  BY <1>6, <2>1, <3>3, <3>5
  <2> QED  BY <2>2, <2>3
<1> QED  BY <1>4, <1>5, <1>6
-----------------------------------------------------------------------------
(* What compact_ranked_bitvector::write leaves.                              *)

(* A sequence that it can hold.                                              *)
HoldableBits(vals, universe, n) == Holdable(vals, universe, n) /\ Climbs(vals, n)

(* The k-th sample is the number of ones before its place.                   *)
SamplesRight(vals, universe, n, samples, log_rank) ==
  /\ log_rank \in Nat
  /\ \A k \in Nat : k * Pow2[log_rank] < universe =>
       FirstAtLeast(vals, n, k * Pow2[log_rank], samples[k])

LEMMA SampleCounts ==
  ASSUME NEW vals, NEW universe, NEW n, HoldableBits(vals, universe, n),
         NEW z \in Nat, z < universe, z # 0
  PROVE  FirstAtLeast(vals, n, z, RankSample(vals, universe, n, z))
<1>1. n \in Nat /\ universe \in Nat /\ Rises(vals, n) /\ z \in Int
  BY DEF HoldableBits, Holdable
<1>2. PICK q : FirstAtLeast(vals, n, z, q)
  BY <1>1, FirstAtLeastExists
<1>3. q \in 0 .. n
  BY <1>2 DEF FirstAtLeast
<1> DEFINE begin(i) == IF i = 0 THEN 1 ELSE vals[i - 1] + 1
           end(i) == IF i = n THEN universe ELSE vals[i] + 1
           inRun(i) == z \in begin(i) .. end(i) - 1
           runs == {i \in 0 .. n : inRun(i)}
<1>4. ASSUME NEW i \in 0 .. n
      PROVE  inRun(i) <=> (i = 0 \/ vals[i - 1] < z) /\ (i = n \/ z <= vals[i])
  <2>1. begin(i) \in Int /\ (begin(i) <= z <=> i = 0 \/ vals[i - 1] < z)
    <3>1. CASE i = 0
      BY <3>1
    <3>2. CASE i # 0
      <4>1. i - 1 \in 0 .. n - 1
        BY <1>1, <3>2
      <4>2. vals[i - 1] \in Nat
        BY <1>1, <4>1 DEF Rises
      <4> QED  BY <3>2, <4>2
    <3> QED  BY <3>1, <3>2
  <2>2. end(i) - 1 \in Int /\ (z <= end(i) - 1 <=> i = n \/ z <= vals[i])
    <3>1. CASE i = n
      BY <1>1, <3>1
    <3>2. CASE i # n
      <4>1. i \in 0 .. n - 1
        BY <1>1, <3>2
      <4>2. vals[i] \in Nat
        BY <1>1, <4>1 DEF Rises
      <4> QED  BY <3>2, <4>2
    <3> QED  BY <3>1, <3>2
  <2>3. inRun(i) <=> begin(i) <= z /\ z <= end(i) - 1
    <3> HIDE DEF begin, end
    <3> QED  BY <2>1, <2>2
  <2> HIDE DEF inRun, begin, end
  <2> QED  BY <2>1, <2>2, <2>3
<1>5. inRun(q)
  <2>1. q = 0 \/ vals[q - 1] < z
    <3>1. CASE q # 0
      <4>1. q - 1 \in 0 .. n - 1 /\ q - 1 < q
        BY <1>1, <1>3, <3>1
      <4> QED  BY <1>2, <4>1 DEF FirstAtLeast
    <3> QED  BY <3>1
  <2>2. q = n \/ z <= vals[q]
    <3>1. CASE q # n
      <4>1. q \in 0 .. n - 1 /\ ~(q < q)
        BY <1>1, <1>3, <3>1
      <4>2. vals[q] \in Nat /\ ~(vals[q] < z)
        BY <1>1, <1>2, <4>1 DEF FirstAtLeast, Rises
      <4> QED  BY <4>2
    <3> QED  BY <3>1
  <2> HIDE DEF inRun
  <2> QED  BY <1>3, <1>4, <2>1, <2>2
<1>6. ASSUME NEW i \in 0 .. n, inRun(i)  PROVE i = q
  <2>1. (i = 0 \/ vals[i - 1] < z) /\ (i = n \/ z <= vals[i])
    <3> HIDE DEF inRun
    <3> QED  BY <1>4, <1>6
  <2>2. ~(i < q)
    <3> SUFFICES ASSUME i < q  PROVE FALSE
      OBVIOUS
    <3>1. i \in 0 .. n - 1 /\ i # n
      BY <1>1, <1>3
    <3>2. vals[i] < z /\ vals[i] \in Nat
      BY <1>1, <1>2, <3>1 DEF FirstAtLeast, Rises
    <3> QED  BY <2>1, <3>1, <3>2
  <2>3. ~(q < i)
    <3> SUFFICES ASSUME q < i  PROVE FALSE
      OBVIOUS
    <3>1. i - 1 \in 0 .. n - 1 /\ ~(i - 1 < q) /\ i # 0
      BY <1>1, <1>3
    <3>2. ~(vals[i - 1] < z)
      BY <1>2, <3>1 DEF FirstAtLeast
    <3> QED  BY <2>1, <3>1, <3>2
  <2> QED  BY <1>3, <2>2, <2>3
<1>7. RankSample(vals, universe, n, z) = IF runs = {} THEN 0 ELSE CHOOSE i \in runs : TRUE
  BY Zenon DEF RankSample
<1> HIDE DEF begin, end, inRun
<1>8. runs = {q}
  BY <1>3, <1>5, <1>6
<1> HIDE DEF runs
<1>9. RankSample(vals, universe, n, z) = q
  BY <1>7, <1>8
<1> QED  BY <1>2, <1>9

RBParts(s, vals, universe, n) ==
  /\ s.universe = universe /\ s.n = n
  /\ s.ones = From(vals, 0, n)
  /\ PointersRight(vals, n, s.pointers1, s.log1)
  /\ SamplesRight(vals, universe, n, s.samples, s.log_rank)

LEMMA WritesBits ==
  ASSUME NEW vals, NEW universe, NEW n, HoldableBits(vals, universe, n),
         NEW log_rank \in Nat, NEW log1 \in Nat
  PROVE  RBParts(RBWrite(vals, universe, n, log_rank, log1), vals, universe, n)
<1> DEFINE sm == [k \in 0 .. Shr(universe, log_rank) |->
                    IF k = 0 THEN 0 ELSE RankSample(vals, universe, n, k * Pow2[log_rank])]
           p1 == [k \in 0 .. Shr(n, log1) |->
                    IF k = 0 \/ k * Pow2[log1] >= n THEN 0 ELSE vals[k * Pow2[log1]]]
           s == RBWrite(vals, universe, n, log_rank, log1)
<1>1. universe \in Nat /\ n \in Nat \ {0} /\ Climbs(vals, n)
  BY DEF HoldableBits, Holdable
<1>2. /\ s.universe = universe /\ s.n = n /\ s.log_rank = log_rank /\ s.log1 = log1
      /\ s.ones = {vals[i] : i \in 0 .. n - 1}
      /\ s.samples = sm /\ s.pointers1 = p1
  BY Zenon DEF RBWrite
<1> HIDE DEF s
<1>3. s.ones = From(vals, 0, n)
  BY <1>2 DEF From
<1>4. 0 \in Nat /\ FirstAtLeast(vals, n, 0, 0)
  <2>1. \A i \in 0 .. n - 1 : ~(i < 0) /\ ~(vals[i] < 0)
    BY <1>1 DEF Climbs
  <2>2. 0 \in 0 .. n
    BY <1>1
  <2> QED  BY <2>1, <2>2 DEF FirstAtLeast
<1>5. PointersRight(vals, n, s.pointers1, s.log1)
  <2>1. ASSUME NEW k \in Nat, k * Pow2[log1] < n
        PROVE  Before(vals, n, EnumeratorAt(p1[k]), k * Pow2[log1])
    <3>1. k * Pow2[log1] \in Nat
      BY ProductGrows
    <3> PICK a \in Nat : a = k * Pow2[log1]
      BY <3>1
    <3>2. a \in 0 .. n - 1 /\ a <= n
      BY <1>1, <2>1
    <3>3. k \in 0 .. Shr(n, log1)
      <4>1. n \in Nat /\ k * Pow2[log1] <= n
        BY <1>1, <3>2
      <4>2. k <= Shr(n, log1) /\ Shr(n, log1) \in Nat
        BY <4>1, ShrBounds, ShrFacts
      <4> QED  BY <4>2
    <3>4. CASE k = 0
      <4>1. a = 0 /\ p1[k] = 0
        <5>1. Pow2[log1] \in Nat
          BY Pow2Facts
        <5> QED  BY <3>3, <3>4, <5>1
      <4>2. Before(vals, n, EnumeratorAt(0), 0)
        BY <1>1, <1>4, BeforeFirstGeq
      <4> QED  BY <4>1, <4>2
    <3>5. CASE k # 0
      <4>1. p1[k] = vals[a]
        BY <1>1, <3>2, <3>3, <3>5
      <4>2. FirstAtLeast(vals, n, vals[a], a) /\ vals[a] \in Nat
        BY <1>1, <3>2, FirstGeqOwn DEF Climbs
      <4>3. Before(vals, n, EnumeratorAt(vals[a]), a)
        BY <1>1, <4>2, BeforeFirstGeq
      <4> QED  BY <4>1, <4>3
    <3> QED  BY <3>4, <3>5
  <2> HIDE DEF p1
  <2> QED  BY <1>2, <2>1, Zenon DEF PointersRight
<1>6. SamplesRight(vals, universe, n, s.samples, s.log_rank)
  <2>1. ASSUME NEW k \in Nat, k * Pow2[log_rank] < universe
        PROVE  FirstAtLeast(vals, n, k * Pow2[log_rank], sm[k])
    <3> PICK z \in Nat : z = k * Pow2[log_rank]
      BY ProductGrows
    <3>1. k \in 0 .. Shr(universe, log_rank)
      <4>1. k * Pow2[log_rank] <= universe
        BY <1>1, <2>1
      <4>2. k <= Shr(universe, log_rank) /\ Shr(universe, log_rank) \in Nat
        BY <1>1, <4>1, ShrBounds, ShrFacts
      <4> QED  BY <4>2
    <3>2. CASE k = 0
      <4>1. z = 0 /\ sm[k] = 0
        <5>1. Pow2[log_rank] \in Nat
          BY Pow2Facts
        <5> QED  BY <3>1, <3>2, <5>1
      <4> QED  BY <1>4, <4>1
    <3>3. CASE k # 0
      <4>1. sm[k] = RankSample(vals, universe, n, z)
        BY <3>1, <3>3
      <4>2. z # 0 /\ z < universe
        BY <2>1, <3>3, ProductGrows
      <4>3. FirstAtLeast(vals, n, z, RankSample(vals, universe, n, z))
        BY <4>2, SampleCounts
      <4> QED  BY <4>1, <4>3
    <3> QED  BY <3>2, <3>3
  <2> HIDE DEF sm
  <2> QED  BY <1>2, <2>1, Zenon DEF SamplesRight
<1>7. RBParts(s, vals, universe, n)
  BY <1>2, <1>3, <1>5, <1>6 DEF RBParts
<1> QED  BY <1>7 DEF s

-----------------------------------------------------------------------------
(* The enumerator of compact_ranked_bitvector.                               *)

RBAt(vals, universe, n, e, p) == AtValue(vals, vals, universe, n, e, p)

LEMMA RBReadAt ==
  ASSUME NEW vals, NEW universe, NEW n \in Nat, NEW p, p \in 0 .. n - 1
  PROVE  RBAt(vals, universe, n, RBRead(p, AtOne(vals, p)), p)
<1> DEFINE e == RBRead(p, AtOne(vals, p))
<1>1. p \in 0 .. n /\ p < n
  OBVIOUS
<1>2. AtOne(vals, p).pos = vals[p]
  BY DEF AtOne
<1>3. e = [position |-> p, value |-> vals[p], he |-> AtOne(vals, p)]
  BY <1>2 DEF RBRead
<1> HIDE DEF e
<1>4. e.position = p /\ e.he = AtOne(vals, p)
  BY <1>3
<1>5. AtValue(vals, vals, universe, n, e, p)
  BY <1>1, <1>3, <1>4 DEF AtValue, Reading
<1> QED  BY <1>5 DEF RBAt, e

LEMMA RBNewAt ==
  ASSUME NEW vals, NEW universe, NEW n, HoldableBits(vals, universe, n),
         NEW s, RBParts(s, vals, universe, n)
  PROVE  RBAt(vals, universe, n, RBNew(s), n)
<1>1. n \in Nat
  BY DEF HoldableBits, Holdable
<1>2. RBNew(s) = [position |-> n, value |-> universe, he |-> NoEnumerator]
  BY DEF RBNew, RBParts
<1> QED  BY <1>1, <1>2, EndAt DEF RBAt

LEMMA RBMoveAt ==
  ASSUME NEW vals, NEW universe, NEW n, HoldableBits(vals, universe, n),
         NEW s, RBParts(s, vals, universe, n),
         NEW e, NEW p, RBAt(vals, universe, n, e, p), NEW q, q \in 0 .. n
  PROVE  RBAt(vals, universe, n, RBMove(s, e, q), q)
<1>1. n \in Nat \ {0} /\ n \in Nat /\ p \in 0 .. n /\ e.position = p /\ Reading(vals, n, e, p)
  BY DEF HoldableBits, Holdable, RBAt, AtValue, Reading
<1>2. Climbs(vals, n)
  BY DEF HoldableBits
<1>3. s.ones = From(vals, 0, n) /\ s.n = n /\ s.universe = universe
      /\ PointersRight(vals, n, s.pointers1, s.log1)
  BY DEF RBParts
<1>4. CASE q - p = 0
  <2>1. q = p
    BY <1>1, <1>4
  <2>2. RBMove(s, e, q) = e
    BY <1>1, <1>4 DEF RBMove
  <2> QED  BY <2>1, <2>2
<1>5. CASE q - p # 0 /\ q = n
  <2>1. RBMove(s, e, q) = RBAtEnd(s, e)
    BY <1>1, <1>3, <1>5, Zenon DEF RBMove
  <2>2. e = [position |-> p, value |-> IF p < n THEN vals[p] ELSE universe, he |-> e.he]
    BY DEF RBAt, AtValue
  <2>3. RBAtEnd(s, e) = [e EXCEPT !.position = n, !.value = universe]
    BY <1>3, Zenon DEF RBAtEnd
  <2>4. RBAtEnd(s, e) = [position |-> n, value |-> universe, he |-> e.he]
    BY <2>2, <2>3
  <2> QED  BY <1>1, <1>5, <2>1, <2>4, EndAt DEF RBAt
<1>6. CASE q - p # 0 /\ q # n
  <2>1. q \in 0 .. n - 1
    BY <1>1, <1>6
  <2>2. \E he : RBMove(s, e, q) = RBRead(q, he) /\ he = AtOne(vals, q)
    <3>1. CASE q - p \in 1 .. LinearScanThreshold
      <4>1. RBMove(s, e, q) = RBRead(q, Ahead(s.ones, e.he, q - p))
        BY <1>1, <1>3, <1>6, <3>1, Zenon DEF RBMove
      <4>2. p \in 0 .. n - 1 /\ q - p \in Nat \ {0}
        BY <1>1, <2>1, <3>1
      <4>3. Before(vals, n, e.he, p + 1)
        BY <1>1, <1>2, <4>2, BeforeNext DEF Reading
      <4>4. (p + 1) + (q - p) <= n /\ (p + 1) + ((q - p) - 1) = q
        BY <1>1, <2>1
      <4>5. Ahead(From(vals, 0, n), e.he, q - p) = AtOne(vals, (p + 1) + ((q - p) - 1))
        BY <1>2, <4>2, <4>3, <4>4, AheadReads
      <4> QED  BY <1>3, <4>1, <4>4, <4>5
    <3>2. CASE q - p \notin 1 .. LinearScanThreshold
      <4>1. RBMove(s, e, q) = RBSlowMove(s, e, q)
        BY <1>1, <1>3, <1>6, <3>2, Zenon DEF RBMove
      <4>2. RBSlowMove(s, e, q)
              = RBRead(q, Ahead(s.ones, SlowHe(s.ones, s.pointers1, s.log1, e, q), 1))
        BY Zenon DEF RBSlowMove, SlowHe
      <4>3. Ahead(From(vals, 0, n), SlowHe(From(vals, 0, n), s.pointers1, s.log1, e, q), 1)
              = AtOne(vals, q)
        BY <1>1, <1>2, <1>3, <2>1, SlowHeReaches
      <4> QED  BY <1>3, <4>1, <4>2, <4>3
    <3> QED  BY <3>1, <3>2
  <2> QED  BY <1>1, <2>1, <2>2, RBReadAt
<1> QED  BY <1>4, <1>5, <1>6

LEMMA RBNextAt ==
  ASSUME NEW vals, NEW universe, NEW n, HoldableBits(vals, universe, n),
         NEW s, RBParts(s, vals, universe, n),
         NEW e, NEW p, RBAt(vals, universe, n, e, p), p < n
  PROVE  RBAt(vals, universe, n, RBNext(s, e), p + 1)
<1>1. n \in Nat \ {0} /\ n \in Nat /\ p \in 0 .. n /\ e.position = p /\ Reading(vals, n, e, p)
  BY DEF HoldableBits, Holdable, RBAt, AtValue, Reading
<1>2. Climbs(vals, n)
  BY DEF HoldableBits
<1>3. s.ones = From(vals, 0, n) /\ s.n = n /\ s.universe = universe
  BY DEF RBParts
<1>4. CASE p + 1 < n
  <2>1. RBNext(s, e) = RBRead(p + 1, Ahead(s.ones, e.he, 1))
    BY <1>1, <1>3, <1>4 DEF RBNext
  <2>2. /\ p \in 0 .. n - 1 /\ p + 1 \in 0 .. n - 1 /\ 1 \in Nat \ {0}
        /\ (p + 1) + 1 <= n /\ (p + 1) + (1 - 1) = p + 1
    BY <1>1, <1>4
  <2>3. Before(vals, n, e.he, p + 1)
    BY <1>1, <1>2, <2>2, BeforeNext DEF Reading
  <2>4. Ahead(From(vals, 0, n), e.he, 1) = AtOne(vals, (p + 1) + (1 - 1))
    BY <1>2, <2>2, <2>3, AheadReads
  <2>5. RBNext(s, e) = RBRead(p + 1, AtOne(vals, p + 1))
    BY <1>3, <2>1, <2>2, <2>4
  <2> QED  BY <1>1, <2>2, <2>5, RBReadAt
<1>5. CASE ~(p + 1 < n)
  <2>1. p + 1 = n
    BY <1>1, <1>5
  <2>2. e = [position |-> p, value |-> IF p < n THEN vals[p] ELSE universe, he |-> e.he]
    BY DEF RBAt, AtValue
  <2>3. RBNext(s, e) = [e EXCEPT !.position = p + 1, !.value = universe]
    BY <1>1, <1>3, <1>5 DEF RBNext
  <2>4. RBNext(s, e) = [position |-> n, value |-> universe, he |-> e.he]
    BY <2>1, <2>2, <2>3
  <2> QED  BY <1>1, <2>1, <2>4, EndAt DEF RBAt
<1> QED  BY <1>4, <1>5

LEMMA RBPrevIs ==
  ASSUME NEW vals, NEW universe, NEW n, HoldableBits(vals, universe, n),
         NEW s, RBParts(s, vals, universe, n),
         NEW e, NEW p, RBAt(vals, universe, n, e, p)
  PROVE  RBPrev(s, e) = IF p = 0 THEN 0 ELSE vals[p - 1]
<1>1. n \in Nat \ {0} /\ universe \in Nat /\ p \in 0 .. n /\ e.position = p
      /\ Reading(vals, n, e, p)
  BY DEF HoldableBits, Holdable, RBAt, AtValue, Reading
<1>2. Climbs(vals, n)
  BY DEF HoldableBits
<1>3. s.ones = From(vals, 0, n) /\ s.n = n /\ s.universe = universe
  BY DEF RBParts
<1>4. CASE p = 0
  BY <1>1, <1>4 DEF RBPrev
<1>5. CASE p # 0
  <2> DEFINE end == IF p < n THEN e.he.pos ELSE universe
  <2>1. RBPrev(s, e) = Predecessor(s.ones, end - 1)
    BY <1>1, <1>3, <1>5, Zenon DEF RBPrev
  <2>2. p - 1 \in 0 .. n - 1 /\ vals[p - 1] \in Nat /\ vals[p - 1] < universe
    <3>1. p - 1 \in 0 .. n - 1
      BY <1>1, <1>5
    <3> QED  BY <1>2, <3>1 DEF Climbs, HoldableBits, Holdable
  <2>3. end - 1 \in Int /\ vals[p - 1] <= end - 1
        /\ ((p - 1) + 1 < n => end - 1 < vals[(p - 1) + 1])
    <3>1. CASE p < n
      <4>1. p \in 0 .. n - 1 /\ p - 1 < p /\ (p - 1) + 1 = p
        BY <1>1, <3>1
      <4>2. vals[p] \in Nat /\ vals[p - 1] < vals[p]
        BY <1>2, <2>2, <4>1 DEF Climbs
      <4>3. end = vals[p]
        BY <1>1, <3>1 DEF Reading, AtOne
      <4> HIDE DEF end
      <4> QED  BY <2>2, <4>1, <4>2, <4>3
    <3>2. CASE ~(p < n)
      <4>1. p = n /\ (p - 1) + 1 = n
        BY <1>1, <3>2
      <4>2. end = universe
        BY <3>2
      <4> HIDE DEF end
      <4> QED  BY <1>1, <2>2, <4>1, <4>2
    <3> QED  BY <3>1, <3>2
  <2> HIDE DEF end
  <2>4. Predecessor(s.ones, end - 1) = vals[p - 1]
    BY <1>2, <1>3, <2>2, <2>3, PredecessorReads
  <2> QED  BY <1>5, <2>1, <2>4
<1> QED  BY <1>4, <1>5

(* The ones counted between two bounds are the values between them.          *)
LEMMA OnesCounted ==
  ASSUME NEW vals, NEW universe, NEW n, HoldableBits(vals, universe, n),
         NEW s, RBParts(s, vals, universe, n),
         NEW from \in Nat, NEW bound \in Nat, from <= bound,
         NEW a, FirstAtLeast(vals, n, from, a), NEW q, FirstAtLeast(vals, n, bound, q)
  PROVE  a + CountOnes(s, from, bound) = q
<1>1. n \in Nat /\ Climbs(vals, n) /\ Rises(vals, n) /\ a \in 0 .. n /\ q \in 0 .. n
  BY DEF HoldableBits, Holdable, FirstAtLeast
<1>2. a <= q
  <2>1. from \in Int /\ bound \in Int
    OBVIOUS
  <2> QED  BY <1>1, <2>1, FirstGeqGrows
<1>3. s.ones \cap (from .. bound - 1) = From(vals, a, q)
  <2>1. ASSUME NEW x \in s.ones \cap (from .. bound - 1)  PROVE x \in From(vals, a, q)
    <3>1. PICK i \in 0 .. n - 1 : x = vals[i]
      BY DEF RBParts, From
    <3>2. ~(vals[i] < from) /\ vals[i] < bound
      BY <3>1
    <3>3. ~(i < a) /\ i < q
      BY <3>2 DEF FirstAtLeast
    <3>4. i \in a .. q - 1
      BY <1>1, <3>3
    <3> QED  BY <3>1, <3>4 DEF From
  <2>2. ASSUME NEW x \in From(vals, a, q)  PROVE x \in s.ones \cap (from .. bound - 1)
    <3>1. PICK i \in a .. q - 1 : x = vals[i]
      BY DEF From
    <3>2. i \in 0 .. n - 1 /\ ~(i < a) /\ i < q
      BY <1>1
    <3>3. vals[i] \in Nat /\ ~(vals[i] < from) /\ vals[i] < bound
      BY <1>1, <3>2 DEF FirstAtLeast, Climbs
    <3>4. x \in s.ones
      BY <3>1, <3>2 DEF RBParts, From
    <3>5. x \in from .. bound - 1
      BY <3>1, <3>3
    <3> QED  BY <3>4, <3>5
  <2> QED  BY <2>1, <2>2
<1>4. Cardinality(From(vals, a, q)) = q - a
  BY <1>1, <1>2, FromCounts
<1>5. CountOnes(s, from, bound) = q - a
  BY <1>3, <1>4 DEF CountOnes
<1> QED  BY <1>1, <1>5

LEMMA RBScanAt ==
  ASSUME NEW vals, NEW universe, NEW n, HoldableBits(vals, universe, n),
         NEW s, RBParts(s, vals, universe, n),
         NEW e, NEW p, RBAt(vals, universe, n, e, p), p < n,
         NEW bound \in Nat, NEW q, FirstAtLeast(vals, n, bound, q), p < q
  PROVE  RBAt(vals, universe, n, RBScan(s, e, bound), q)
<1> DEFINE first == e.position + 1
           after(k) == Ahead(s.ones, e.he, (k - first) + 1)
           candidates == {k \in first .. n - 1 : after(k).pos >= bound}
           stop == IF candidates = {} THEN n ELSE Nth(candidates, 0)
<1>1. /\ n \in Nat \ {0} /\ n \in Nat /\ p \in 0 .. n - 1 /\ e.position = p
      /\ first = p + 1 /\ q \in 0 .. n /\ e.he = AtOne(vals, p)
  BY DEF HoldableBits, Holdable, RBAt, AtValue, Reading, FirstAtLeast
<1>2. Climbs(vals, n)
  BY DEF HoldableBits
<1>3. s.ones = From(vals, 0, n) /\ s.n = n /\ s.universe = universe
  BY DEF RBParts
<1>4. ASSUME NEW k \in first .. n - 1
      PROVE  after(k) = AtOne(vals, k) /\ after(k).pos = vals[k] /\ k \in 0 .. n - 1
  <2>1. k \in 0 .. n - 1
    BY <1>1
  <2>2. /\ (k - first) + 1 \in Nat \ {0} /\ first + ((k - first) + 1) <= n
        /\ first + (((k - first) + 1) - 1) = k
    BY <1>1
  <2>3. Before(vals, n, e.he, first)
    BY <1>1, <1>2, BeforeNext
  <2> HIDE DEF first
  <2>4. Ahead(From(vals, 0, n), e.he, (k - first) + 1)
          = AtOne(vals, first + (((k - first) + 1) - 1))
    BY <1>2, <2>2, <2>3, AheadReads
  <2>5. after(k) = AtOne(vals, k)
    BY <1>3, <2>2, <2>4
  <2> QED  BY <2>1, <2>5 DEF AtOne
<1>5. RBScan(s, e, bound) =
        IF stop = n
        THEN [position |-> n, value |-> universe, he |-> after(n - 1)]
        ELSE RBRead(stop, after(stop))
  <2>1. ~(first > n)
    BY <1>1
  <2>2. (IF first > s.n THEN first ELSE s.n) = n
    BY <1>3, <2>1
  <2> QED  BY <1>3, <2>2, Zenon DEF RBScan
<1>6. candidates = q .. n - 1
  <2>1. first <= q /\ first \in Nat
    BY <1>1
  <2> HIDE DEF after, first
  <2>2. ASSUME NEW k \in candidates  PROVE k \in q .. n - 1
    <3>1. k \in first .. n - 1 /\ vals[k] >= bound /\ k \in 0 .. n - 1
      BY <1>4, <2>2
    <3>2. vals[k] \in Nat
      BY <1>2, <3>1 DEF Climbs
    <3>3. ~(k < q)
      BY <3>1, <3>2 DEF FirstAtLeast
    <3> QED  BY <1>1, <3>1, <3>3
  <2>3. ASSUME NEW k \in q .. n - 1  PROVE k \in candidates
    <3>1. k \in first .. n - 1 /\ k \in 0 .. n - 1 /\ ~(k < q)
      BY <1>1, <2>1
    <3>2. vals[k] \in Nat /\ ~(vals[k] < bound)
      BY <1>2, <3>1 DEF Climbs, FirstAtLeast
    <3> QED  BY <1>4, <3>1, <3>2
  <2> HIDE DEF candidates
  <2> QED  BY <2>2, <2>3
<1>7. first <= q
  BY <1>1
<1> HIDE DEF candidates, after
<1>8. CASE q = n
  <2>1. stop = n
    <3>1. q .. n - 1 = {}
      BY <1>1, <1>8
    <3> QED  BY <1>6, <3>1
  <2> HIDE DEF stop
  <2> QED  BY <1>1, <1>5, <1>8, <2>1, EndAt DEF RBAt
<1>9. CASE q # n
  <2>1. q \in q .. n - 1 /\ q < n /\ q \in Nat
    BY <1>1, <1>9
  <2>2. stop = q
    BY <1>1, <1>6, <2>1, NthOfInterval
  <2>3. q \in first .. n - 1
    BY <1>1, <1>7, <2>1
  <2> HIDE DEF stop, first
  <2>4. RBScan(s, e, bound) = RBRead(q, AtOne(vals, q)) /\ q \in 0 .. n - 1
    BY <1>4, <1>5, <1>9, <2>2, <2>3
  <2> QED  BY <1>1, <2>4, RBReadAt
<1> QED  BY <1>8, <1>9

LEMMA RBNextGeqAt ==
  ASSUME NEW vals, NEW universe, NEW n, HoldableBits(vals, universe, n),
         NEW s, RBParts(s, vals, universe, n),
         NEW e, NEW p, RBAt(vals, universe, n, e, p),
         NEW bound \in Nat, bound <= universe, NEW q, FirstAtLeast(vals, n, bound, q)
  PROVE  RBAt(vals, universe, n, RBNextGeq(s, e, bound), IF e.value = bound THEN p ELSE q)
<1>1. /\ n \in Nat \ {0} /\ n \in Nat /\ universe \in Nat /\ p \in 0 .. n /\ q \in 0 .. n
      /\ e.position = p /\ e.value = IF p < n THEN vals[p] ELSE universe
  BY DEF HoldableBits, Holdable, RBAt, AtValue, Reading, FirstAtLeast
<1>2. Climbs(vals, n) /\ \A i \in 0 .. n - 1 : vals[i] < universe /\ vals[i] \in Nat
  BY DEF HoldableBits, Holdable, Climbs
<1>3. s.ones = From(vals, 0, n) /\ s.n = n /\ s.universe = universe
      /\ SamplesRight(vals, universe, n, s.samples, s.log_rank)
  BY DEF RBParts
<1>4. ASSUME bound > e.value
      PROVE  p < n /\ p \in 0 .. n - 1 /\ e.value = vals[p] /\ p < q
  <2>1. p < n
    <3> SUFFICES ASSUME ~(p < n)  PROVE FALSE
      OBVIOUS
    <3> QED  BY <1>1, <1>4
  <2>2. p \in 0 .. n - 1 /\ e.value = vals[p]
    BY <1>1, <2>1
  <2>3. vals[p] < bound
    BY <1>2, <1>4, <2>2
  <2> QED  BY <2>1, <2>2, <2>3 DEF FirstAtLeast
<1>5. CASE bound = e.value
  <2>1. RBNextGeq(s, e, bound) = e
    BY <1>5 DEF RBNextGeq
  <2> QED  BY <1>5, <2>1
<1>6. CASE bound # e.value /\ bound > e.value /\ bound - e.value <= LinearScanThreshold
  <2>1. RBNextGeq(s, e, bound) = RBScan(s, e, bound)
    BY <1>6, Zenon DEF RBNextGeq
  <2>2. RBAt(vals, universe, n, RBScan(s, e, bound), q)
    BY <1>4, <1>6, RBScanAt
  <2> QED  BY <1>6, <2>1, <2>2
<1>7. CASE bound # e.value
           /\ ~(bound > e.value /\ bound - e.value <= LinearScanThreshold)
  <2> DEFINE block == Shr(bound, s.log_rank)
             near == bound > e.value /\ Shr(bound - e.value, s.log_rank) = 0
             position == IF near THEN e.position + CountOnes(s, e.value, bound)
                         ELSE s.samples[block]
                                + CountOnes(s, block * Pow2[s.log_rank], bound)
             he == EnumeratorAt(bound)
  <2>1. RBNextGeq(s, e, bound) = RBSlowNextGeq(s, e, bound)
    BY <1>7, Zenon DEF RBNextGeq
  <2>2. CASE bound >= universe
    <3>1. RBSlowNextGeq(s, e, bound) = RBMove(s, e, n)
      BY <1>3, <2>2 DEF RBSlowNextGeq
    <3>2. q = n
      <4> SUFFICES ASSUME q # n  PROVE FALSE
        OBVIOUS
      <4>1. q \in 0 .. n - 1 /\ ~(q < q)
        BY <1>1
      <4>2. vals[q] < universe /\ vals[q] \in Nat /\ ~(vals[q] < bound)
        BY <1>2, <4>1 DEF FirstAtLeast
      <4> QED  BY <1>1, <2>2, <4>2
    <3>3. RBAt(vals, universe, n, RBMove(s, e, n), n)
      <4>1. n \in 0 .. n
        BY <1>1
      <4> QED  BY <4>1, RBMoveAt
    <3> QED  BY <1>7, <2>1, <3>1, <3>2, <3>3
  <2>3. CASE ~(bound >= universe)
    <3>1. position = q
      <4>1. CASE near
        <5>1. p \in 0 .. n - 1 /\ e.value = vals[p] /\ vals[p] <= bound /\ vals[p] \in Nat
          BY <1>2, <1>4, <4>1
        <5>2. FirstAtLeast(vals, n, vals[p], p)
          BY <1>2, <5>1, FirstGeqOwn
        <5>3. p + CountOnes(s, vals[p], bound) = q
          BY <5>1, <5>2, OnesCounted
        <5> HIDE DEF near
        <5> QED  BY <1>1, <4>1, <5>1, <5>3
      <4>2. CASE ~near
        <5>1. s.log_rank \in Nat
          BY <1>3 DEF SamplesRight
        <5>2. block \in Nat /\ block * Pow2[s.log_rank] \in Nat
              /\ block * Pow2[s.log_rank] <= bound
          BY <5>1, ShrFacts
        <5> PICK z \in Nat : z = block * Pow2[s.log_rank]
          BY <5>2
        <5>3. z <= bound /\ z < universe
          BY <1>1, <2>3, <5>2
        <5> HIDE DEF block, near
        <5>4. FirstAtLeast(vals, n, z, s.samples[block])
          BY <1>3, <5>2, <5>3 DEF SamplesRight
        <5>5. s.samples[block] + CountOnes(s, z, bound) = q
          BY <5>3, <5>4, OnesCounted
        <5> QED  BY <4>2, <5>5
      <4> QED  BY <4>1, <4>2
    <3>2. RBSlowNextGeq(s, e, bound) =
            IF position < n THEN RBRead(position, Ahead(s.ones, he, 1))
            ELSE [position |-> position, value |-> universe, he |-> he]
      BY <1>3, <2>3, Zenon DEF RBSlowNextGeq
    <3>3. Before(vals, n, he, q)
      BY <1>2, BeforeFirstGeq
    <3> HIDE DEF position, he
    <3>4. CASE q < n
      <4>1. q \in 0 .. n - 1 /\ 1 \in Nat \ {0} /\ q + 1 <= n /\ q + (1 - 1) = q
        BY <1>1, <3>4
      <4>2. Ahead(From(vals, 0, n), he, 1) = AtOne(vals, q + (1 - 1))
        BY <1>2, <3>3, <4>1, AheadReads
      <4>3. RBSlowNextGeq(s, e, bound) = RBRead(q, AtOne(vals, q))
        BY <1>3, <3>1, <3>2, <3>4, <4>1, <4>2
      <4>4. RBAt(vals, universe, n, RBRead(q, AtOne(vals, q)), q)
        BY <1>1, <4>1, RBReadAt
      <4> QED  BY <1>7, <2>1, <4>3, <4>4
    <3>5. CASE ~(q < n)
      <4>1. q = n
        BY <1>1, <3>5
      <4>2. RBSlowNextGeq(s, e, bound) = [position |-> n, value |-> universe, he |-> he]
        BY <3>1, <3>2, <3>5, <4>1
      <4>3. RBAt(vals, universe, n, [position |-> n, value |-> universe, he |-> he], n)
        BY <1>1, EndAt DEF RBAt
      <4> QED  BY <1>7, <2>1, <4>1, <4>2, <4>3
    <3> QED  BY <3>4, <3>5
  <2> QED  BY <2>2, <2>3
<1> QED  BY <1>5, <1>6, <1>7
-----------------------------------------------------------------------------
(* indexed_sequence and strict_sequence.                                     *)

(* Increasing values are at least as far apart as their positions.           *)
LEMMA ClimbsApart ==
  ASSUME NEW f, NEW n, Climbs(f, n), NEW i, i \in 0 .. n - 1, NEW j, j \in i .. n - 1
  PROVE  f[j] - f[i] >= j - i
<1> DEFINE Good == {k \in i .. n - 1 : f[k] - f[i] >= k - i}
<1>1. n \in Nat /\ \A k \in 0 .. n - 1 : f[k] \in Nat
  BY DEF Climbs
<1>2. i \in Good
  BY <1>1
<1>3. ASSUME NEW k \in i .. (n - 1) - 1, k \in Good  PROVE k + 1 \in Good
  <2>1. k \in 0 .. n - 1 /\ k + 1 \in 0 .. n - 1 /\ k < k + 1 /\ k + 1 \in i .. n - 1
    BY <1>1
  <2>2. f[k] < f[k + 1] /\ f[k] \in Nat /\ f[k + 1] \in Nat /\ f[i] \in Nat
    BY <1>1, <2>1 DEF Climbs
  <2>3. f[k] - f[i] >= k - i
    BY <1>3
  <2> QED  BY <2>1, <2>2, <2>3
<1>4. i \in Int /\ n - 1 \in Int
  BY <1>1
<1> HIDE DEF Good
<1>5. j \in Good
  BY <1>2, <1>3, <1>4, InductionFrom
<1> QED  BY <1>5 DEF Good

(* So a sequence is not longer than its universe, and what is left of it     *)
(* without its positions fits in a universe shorter by its length.           *)
LEMMA BitsFacts ==
  ASSUME NEW vals, NEW universe, NEW n, HoldableBits(vals, universe, n)
  PROVE  /\ n <= universe
         /\ \A i \in 0 .. n - 1 : i <= vals[i] /\ vals[i] <= (universe - n) + i
         /\ Rises(StrictVals(TRUE, vals, n), n)
<1>1. n \in Nat \ {0} /\ universe \in Nat /\ Climbs(vals, n)
      /\ \A i \in 0 .. n - 1 : vals[i] \in Nat /\ vals[i] < universe
  BY DEF HoldableBits, Holdable, Climbs
<1>2. ASSUME NEW i \in 0 .. n - 1  PROVE i <= vals[i] /\ vals[i] <= (universe - n) + i
  <2>1. 0 \in 0 .. n - 1 /\ i \in 0 .. n - 1 /\ n - 1 \in i .. n - 1 /\ n - 1 \in 0 .. n - 1
    BY <1>1
  <2>2. vals[i] - vals[0] >= i - 0
    BY <1>1, <2>1, ClimbsApart
  <2>3. vals[n - 1] - vals[i] >= (n - 1) - i
    BY <1>1, <2>1, ClimbsApart
  <2>4. vals[0] \in Nat /\ vals[i] \in Nat /\ vals[n - 1] \in Nat /\ vals[n - 1] < universe
    BY <1>1, <2>1
  <2> QED  BY <1>1, <2>2, <2>3, <2>4
<1>3. n <= universe
  <2>1. n - 1 \in 0 .. n - 1
    BY <1>1
  <2>2. n - 1 <= vals[n - 1] /\ vals[n - 1] < universe /\ vals[n - 1] \in Nat
    BY <1>1, <1>2, <2>1
  <2> QED  BY <1>1, <2>2
<1>4. Rises(StrictVals(TRUE, vals, n), n)
  <2>1. ASSUME NEW i \in 0 .. n - 1
        PROVE  /\ StrictVals(TRUE, vals, n)[i] = vals[i] - i
               /\ StrictVals(TRUE, vals, n)[i] \in Nat
    <3>1. StrictVals(TRUE, vals, n)[i] = vals[i] - i
      BY DEF StrictVals
    <3>2. vals[i] \in Nat /\ i \in Nat /\ i <= vals[i]
      BY <1>1, <1>2
    <3>3. vals[i] - i \in Nat
      <4> PICK v \in Nat : v = vals[i]
        BY <3>2
      <4> QED  BY <3>2
    <3> QED  BY <3>1, <3>3
  <2>2. ASSUME NEW i \in 0 .. n - 1, NEW j \in 0 .. n - 1, i <= j
        PROVE  StrictVals(TRUE, vals, n)[i] <= StrictVals(TRUE, vals, n)[j]
    <3>1. j \in i .. n - 1
      BY <1>1, <2>2
    <3>2. vals[j] - vals[i] >= j - i
      BY <1>1, <3>1, ClimbsApart
    <3>5. /\ StrictVals(TRUE, vals, n)[i] = vals[i] - i
          /\ StrictVals(TRUE, vals, n)[j] = vals[j] - j
      BY <2>1
    <3>3. /\ i \in Nat /\ j \in Nat /\ vals[i] \in Nat /\ vals[j] \in Nat
      BY <1>1
    <3>4. vals[i] - i <= vals[j] - j
      <4> PICK v \in Nat, w \in Nat : v = vals[i] /\ w = vals[j]
        BY <3>3
      <4> QED  BY <3>2, <3>3
    <3> QED  BY <3>4, <3>5
  <2>3. n \in Nat
    BY <1>1
  <2> QED  BY <2>1, <2>2, <2>3 DEF Rises
<1> QED  BY <1>2, <1>3, <1>4

(* The values that are stored, of which next_geq knows nothing else.         *)
LEMMA StrictHoldable ==
  ASSUME NEW vals, NEW universe, NEW n, HoldableBits(vals, universe, n), NEW strict \in BOOLEAN
  PROVE  /\ Holdable(StrictVals(strict, vals, n), EFUniverse(strict, universe, n), n)
         /\ \A i \in 0 .. n - 1 :
              StrictVals(strict, vals, n)[i] = vals[i] - (IF strict THEN i ELSE 0)
<1>1. n \in Nat \ {0} /\ universe \in Nat /\ Rises(vals, n) /\ n <= universe
      /\ \A i \in 0 .. n - 1 : vals[i] \in Nat /\ vals[i] < universe
  BY BitsFacts DEF HoldableBits, Holdable, Rises
<1>2. \A i \in 0 .. n - 1 :
        StrictVals(strict, vals, n)[i] = vals[i] - (IF strict THEN i ELSE 0)
  BY DEF StrictVals
<1>3. CASE strict
  <2>1. EFUniverse(strict, universe, n) = (universe - n) + 1
    BY <1>1, <1>3 DEF EFUniverse
  <2>2. ASSUME NEW i \in 0 .. n - 1
        PROVE  StrictVals(strict, vals, n)[i] < EFUniverse(strict, universe, n)
    <3>1. vals[i] <= (universe - n) + i
      BY BitsFacts
    <3>2. StrictVals(strict, vals, n)[i] = vals[i] - i
      BY <1>2, <1>3
    <3>3. vals[i] \in Nat /\ i \in Nat /\ universe - n \in Int
      BY <1>1
    <3>4. vals[i] - i < (universe - n) + 1
      <4> PICK v \in Nat, m \in Int : v = vals[i] /\ m = universe - n
        BY <3>3
      <4> QED  BY <3>1, <3>3
    <3> QED  BY <2>1, <3>2, <3>4
  <2>3. Rises(StrictVals(strict, vals, n), n)
    <3>1. StrictVals(strict, vals, n) = StrictVals(TRUE, vals, n)
      BY <1>3 DEF StrictVals
    <3> QED  BY <3>1, BitsFacts
  <2>4. EFUniverse(strict, universe, n) \in Nat
    BY <1>1, <2>1
  <2>5. Holdable(StrictVals(strict, vals, n), EFUniverse(strict, universe, n), n)
    BY <1>1, <2>2, <2>3, <2>4 DEF Holdable
  <2> QED  BY <1>2, <2>5
<1>4. CASE ~strict
  <2>1. EFUniverse(strict, universe, n) = universe
    BY <1>4 DEF EFUniverse
  <2>2. \A i \in 0 .. n - 1 : StrictVals(strict, vals, n)[i] = vals[i]
    BY <1>1, <1>2, <1>4
  <2>3. Rises(StrictVals(strict, vals, n), n)
    BY <1>1, <2>2 DEF Rises
  <2>4. Holdable(StrictVals(strict, vals, n), universe, n)
    BY <1>1, <2>2, <2>3 DEF Holdable
  <2> QED  BY <1>2, <2>1, <2>4
<1> QED  BY <1>3, <1>4

(* What write leaves, and what the enumerators need of it.                   *)
IndexedRight(s, vals, universe, n) ==
  /\ HoldableBits(vals, universe, n)
  /\ s.strict \in BOOLEAN
  /\ \/ /\ s.type = "elias_fano"
        /\ EFParts(s.bits, StrictVals(s.strict, vals, n), EFUniverse(s.strict, universe, n), n)
     \/ s.type = "ranked_bitvector" /\ RBParts(s.bits, vals, universe, n)
     \/ s.type = "all_ones" /\ universe = n /\ s.bits.n = n

LEMMA ParamsFacts ==
  /\ EfLogSampling0 \in Nat /\ EfLogSampling1 \in Nat
  /\ RbLogRank1Sampling \in Nat /\ RbLogSampling1 \in Nat
  /\ \A strict \in BOOLEAN : Log0(strict) \in Nat /\ LogRank(strict) \in Nat
BY ParamsAssumption DEF Log0, LogRank

LEMMA IndexedWritesRight ==
  ASSUME NEW vals, NEW universe, NEW n, HoldableBits(vals, universe, n), NEW strict \in BOOLEAN
  PROVE  IndexedRight(IndexedWrite(strict, vals, universe, n), vals, universe, n)
<1> DEFINE s == IndexedWrite(strict, vals, universe, n)
           type == BestType(strict, universe, n)
           bits == CASE type = "all_ones" -> AllOnesWrite(universe)
                     [] type = "ranked_bitvector" ->
                          RBWrite(vals, universe, n, LogRank(strict), RbLogSampling1)
                     [] type = "elias_fano" ->
                          EFWrite(StrictVals(strict, vals, n), EFUniverse(strict, universe, n), n,
                                  Log0(strict), EfLogSampling1)
<1>1. s.strict = strict /\ s.type = type /\ s.bits = bits
  BY Zenon DEF IndexedWrite
<1>2. /\ type \in {"all_ones", "ranked_bitvector", "elias_fano"}
      /\ type = "all_ones" => universe = n
  BY DEF BestType, IsAllOnes
<1> HIDE DEF s
<1>3. CASE type = "all_ones"
  <2>1. bits = AllOnesWrite(universe)
    BY <1>3
  <2>2. s.bits.n = n
    BY <1>1, <1>2, <1>3, <2>1 DEF AllOnesWrite
  <2>3. s.type = "all_ones" /\ universe = n /\ s.strict \in BOOLEAN
    BY <1>1, <1>2, <1>3
  <2>4. IndexedRight(s, vals, universe, n)
    BY <2>2, <2>3 DEF IndexedRight
  <2> QED  BY <2>4 DEF s
<1>4. CASE type = "ranked_bitvector"
  <2>1. bits = RBWrite(vals, universe, n, LogRank(strict), RbLogSampling1)
    BY <1>4
  <2>2. RBParts(bits, vals, universe, n)
    <3> HIDE DEF bits
    <3> QED  BY <2>1, WritesBits, ParamsFacts
  <2>3. RBParts(s.bits, vals, universe, n) /\ s.type = "ranked_bitvector" /\ s.strict \in BOOLEAN
    <3> HIDE DEF bits, type
    <3> QED  BY <1>1, <1>4, <2>2
  <2>4. IndexedRight(s, vals, universe, n)
    BY <2>3 DEF IndexedRight
  <2> QED  BY <2>4 DEF s
<1>5. CASE type = "elias_fano"
  <2>1. bits = EFWrite(StrictVals(strict, vals, n), EFUniverse(strict, universe, n), n,
                       Log0(strict), EfLogSampling1)
    BY <1>5
  <2>2. EFParts(bits, StrictVals(strict, vals, n), EFUniverse(strict, universe, n), n)
    <3> HIDE DEF bits
    <3> QED  BY <2>1, StrictHoldable, WritesParts, ParamsFacts
  <2>3. /\ EFParts(s.bits, StrictVals(s.strict, vals, n), EFUniverse(s.strict, universe, n), n)
        /\ s.type = "elias_fano" /\ s.strict \in BOOLEAN
    <3> HIDE DEF bits, type
    <3> QED  BY <1>1, <1>5, <2>2
  <2>4. IndexedRight(s, vals, universe, n)
    BY <2>3 DEF IndexedRight
  <2> QED  BY <2>4 DEF s
<1> QED  BY <1>2, <1>3, <1>4, <1>5

(* To set two fields to what they hold changes nothing.                      *)
LEMMA SameField ==
  ASSUME NEW f, f = [y \in DOMAIN f |-> f[y]], NEW x \in DOMAIN f
  PROVE  [f EXCEPT ![x] = f[x]] = f
OBVIOUS

LEMMA SameHeader ==
  ASSUME NEW r, NEW u, NEW n, r = [y \in DOMAIN r |-> r[y]],
         {"universe", "n"} \subseteq DOMAIN r, r.universe = u, r.n = n
  PROVE  [r EXCEPT !.universe = u, !.n = n] = r
<1>1. [r EXCEPT !["universe"] = r["universe"]] = r
  BY SameField
<1>2. [r EXCEPT !["n"] = r["n"]] = r
  BY SameField
<1> QED  BY <1>1, <1>2, Zenon

(* Opened with the universe and the length it was written with, it is what   *)
(* was written.                                                              *)
LEMMA OpenWritten ==
  ASSUME NEW vals, NEW universe, NEW n, NEW strict \in BOOLEAN
  PROVE  LET s == IndexedWrite(strict, vals, universe, n)
         IN ~s.stored /\ Open(s, universe, n) = s
<1> DEFINE s == IndexedWrite(strict, vals, universe, n)
           type == BestType(strict, universe, n)
           bits == CASE type = "all_ones" -> AllOnesWrite(universe)
                     [] type = "ranked_bitvector" ->
                          RBWrite(vals, universe, n, LogRank(strict), RbLogSampling1)
                     [] type = "elias_fano" ->
                          EFWrite(StrictVals(strict, vals, n), EFUniverse(strict, universe, n), n,
                                  Log0(strict), EfLogSampling1)
<1>1. s = [strict |-> strict, type |-> type, stored |-> FALSE, bits |-> bits]
  BY Zenon DEF IndexedWrite
<1>2. /\ type \in {"all_ones", "ranked_bitvector", "elias_fano"}
      /\ type = "all_ones" <=> universe = n
  BY DEF BestType, IsAllOnes
<1> DEFINE u == IF type = "elias_fano" THEN EFUniverse(strict, universe, n) ELSE universe
<1>3. [bits EXCEPT !.universe = u, !.n = n] = bits
  <2>1. CASE type = "all_ones"
    <3>1. bits = [universe |-> universe, n |-> n]
      BY <1>2, <2>1 DEF AllOnesWrite
    <3>2. u = universe
      BY <2>1
    <3> HIDE DEF bits, u
    <3>3. /\ bits = [y \in DOMAIN bits |-> bits[y]] /\ {"universe", "n"} \subseteq DOMAIN bits
          /\ bits.universe = u /\ bits.n = n
      BY <3>1, <3>2
    <3> QED  BY <3>3, SameHeader
  <2>2. CASE type = "ranked_bitvector"
    <3>1. bits = RBWrite(vals, universe, n, LogRank(strict), RbLogSampling1)
      BY <2>2
    <3>0. u = universe
      BY <2>2
    <3>2. PICK log_rank, log1, ones, samples, pointers1 :
            bits = [universe |-> universe, n |-> n, log_rank |-> log_rank, log1 |-> log1,
                    ones |-> ones, samples |-> samples, pointers1 |-> pointers1]
      <4> HIDE DEF bits
      <4> QED  BY <3>1, Zenon DEF RBWrite
    <3> HIDE DEF bits, u
    <3>3. /\ bits = [y \in DOMAIN bits |-> bits[y]] /\ {"universe", "n"} \subseteq DOMAIN bits
          /\ bits.universe = u /\ bits.n = n
      BY <3>0, <3>2
    <3> QED  BY <3>3, SameHeader
  <2>3. CASE type = "elias_fano"
    <3>1. bits = EFWrite(StrictVals(strict, vals, n), EFUniverse(strict, universe, n), n,
                         Log0(strict), EfLogSampling1)
      BY <2>3
    <3>0. u = EFUniverse(strict, universe, n)
      BY <2>3
    <3>2. PICK log0, log1, ones, low, pointers0, pointers1 :
            bits = [universe |-> u, n |-> n, log0 |-> log0, log1 |-> log1,
                    ones |-> ones, low |-> low, pointers0 |-> pointers0, pointers1 |-> pointers1]
      <4> HIDE DEF bits, u
      <4> QED  BY <3>0, <3>1, Zenon DEF EFWrite
    <3> HIDE DEF bits, u
    <3>3. /\ bits = [y \in DOMAIN bits |-> bits[y]] /\ {"universe", "n"} \subseteq DOMAIN bits
          /\ bits.universe = u /\ bits.n = n
      BY <3>2
    <3> QED  BY <3>3, SameHeader
  <2> QED  BY <1>2, <2>1, <2>2, <2>3
<1>4. Open(s, universe, n) =
        [s EXCEPT !.type = IF ~s.stored /\ IsAllOnes(universe, n) THEN "all_ones" ELSE @,
                  !.bits.universe = IF s.type = "elias_fano" THEN EFUniverse(s.strict, universe, n)
                                    ELSE universe,
                  !.bits.n = n]
  BY Zenon DEF Open
<1> HIDE DEF s, bits, type, u
<1>5. /\ s.type = type /\ s.strict = strict /\ s.stored = FALSE /\ s.bits = bits
  BY <1>1
<1>6. (IF ~s.stored /\ IsAllOnes(universe, n) THEN "all_ones" ELSE s.type) = type
  BY <1>2, <1>5 DEF IsAllOnes
<1>7. (IF s.type = "elias_fano" THEN EFUniverse(s.strict, universe, n) ELSE universe) = u
  BY <1>5 DEF u
<1>8. Open(s, universe, n) = [s EXCEPT !.type = type, !.bits.universe = u, !.bits.n = n]
  BY <1>4, <1>6, <1>7, Zenon
<1>9. Open(s, universe, n) =
        [strict |-> strict, type |-> type, stored |-> FALSE,
         bits |-> [bits EXCEPT !.universe = u, !.n = n]]
  BY <1>1, <1>8
<1> QED  BY <1>1, <1>3, <1>5, <1>9 DEF s

(* The enumerator of an indexed or a strict sequence, at position p.         *)
IndexedAt(s, vals, universe, n, e, p) ==
  /\ s.type = "elias_fano" =>
       EFAt(StrictVals(s.strict, vals, n), EFUniverse(s.strict, universe, n), n, e, p)
  /\ s.type = "ranked_bitvector" => RBAt(vals, universe, n, e, p)
  /\ s.type = "all_ones" => p \in 0 .. n /\ e = AllOnesAt(p)

LEMMA AtPlace ==
  ASSUME NEW f, NEW vals, NEW universe, NEW n, NEW e, NEW p, AtValue(f, vals, universe, n, e, p)
  PROVE  /\ p \in 0 .. n /\ e.position = p
         /\ e.value = IF p < n THEN vals[p] ELSE universe
<1>1. p \in 0 .. n
  BY DEF AtValue, Reading
<1>2. e = [position |-> p, value |-> IF p < n THEN vals[p] ELSE universe, he |-> e.he]
  BY DEF AtValue
<1> PICK value, he : value = (IF p < n THEN vals[p] ELSE universe) /\ he = e.he
  OBVIOUS
<1>3. e = [position |-> p, value |-> value, he |-> he]
  BY <1>2
<1> QED  BY <1>1, <1>3

(* What is stored is of one of three types, and not stored with its type.    *)
LEMMA IndexedTypes ==
  ASSUME NEW s, NEW vals, NEW universe, NEW n, IndexedRight(s, vals, universe, n)
  PROVE  /\ HoldableBits(vals, universe, n) /\ s.strict \in BOOLEAN
         /\ n \in Nat \ {0} /\ universe \in Nat /\ n <= universe
         /\ Climbs(vals, n) /\ Rises(vals, n)
         /\ \A i \in 0 .. n - 1 : vals[i] \in Nat /\ vals[i] < universe
         /\ s.type \in {"elias_fano", "ranked_bitvector", "all_ones"}
         /\ s.type = "elias_fano" =>
              /\ Holdable(StrictVals(s.strict, vals, n), EFUniverse(s.strict, universe, n), n)
              /\ EFParts(s.bits, StrictVals(s.strict, vals, n),
                         EFUniverse(s.strict, universe, n), n)
         /\ s.type = "ranked_bitvector" => RBParts(s.bits, vals, universe, n)
         /\ s.type = "all_ones" => /\ universe = n /\ s.bits.n = n
                                   /\ \A i \in 0 .. n - 1 : vals[i] = i
<1>1. HoldableBits(vals, universe, n) /\ s.strict \in BOOLEAN
  BY DEF IndexedRight
<1>2. /\ n \in Nat \ {0} /\ universe \in Nat /\ Climbs(vals, n) /\ Rises(vals, n)
      /\ \A i \in 0 .. n - 1 : vals[i] < universe
  BY <1>1 DEF HoldableBits, Holdable
<1>3. \A i \in 0 .. n - 1 : vals[i] \in Nat
  BY <1>2 DEF Rises
<1>4. /\ n <= universe
      /\ \A i \in 0 .. n - 1 : i <= vals[i] /\ vals[i] <= (universe - n) + i
  BY <1>1, BitsFacts
<1>5. /\ s.type \in {"elias_fano", "ranked_bitvector", "all_ones"}
      /\ s.type = "elias_fano" =>
           EFParts(s.bits, StrictVals(s.strict, vals, n), EFUniverse(s.strict, universe, n), n)
      /\ s.type = "ranked_bitvector" => RBParts(s.bits, vals, universe, n)
      /\ s.type = "all_ones" => universe = n /\ s.bits.n = n
  BY Zenon DEF IndexedRight
<1>6. Holdable(StrictVals(s.strict, vals, n), EFUniverse(s.strict, universe, n), n)
  BY <1>1, StrictHoldable
<1>7. ASSUME universe = n, NEW i \in 0 .. n - 1  PROVE vals[i] = i
  <2>1. vals[i] \in Nat /\ i \in Nat /\ i <= vals[i] /\ vals[i] <= (universe - n) + i
    BY <1>2, <1>3, <1>4
  <2>2. (universe - n) + i = i
    BY <1>2, <1>7
  <2> QED  BY <2>1, <2>2
<1> QED  BY <1>1, <1>2, <1>3, <1>4, <1>5, <1>6, <1>7

(* Its position is p, and value() is the value that was written there.       *)
LEMMA IndexedPlace ==
  ASSUME NEW s, NEW vals, NEW universe, NEW n, IndexedRight(s, vals, universe, n),
         NEW e, NEW p, IndexedAt(s, vals, universe, n, e, p)
  PROVE  /\ p \in 0 .. n /\ e.position = p
         /\ IndexedValue(s, e) = IF p < n THEN vals[p]
                                 ELSE universe + (IF IsStrictEF(s) THEN 1 ELSE 0)
<1> USE IndexedTypes
<1>1. CASE s.type = "elias_fano"
  <2> DEFINE stored == StrictVals(s.strict, vals, n)
             bound == EFUniverse(s.strict, universe, n)
  <2>1. AtValue(HighOnes(stored, bound, n), stored, bound, n, e, p)
    BY <1>1 DEF IndexedAt, EFAt
  <2>2. /\ p \in 0 .. n /\ e.position = p
        /\ e.value = IF p < n THEN stored[p] ELSE bound
    BY <2>1, AtPlace
  <2>3. p < n => stored[p] = vals[p] - (IF s.strict THEN p ELSE 0)
    BY <2>2, StrictHoldable
  <2>4. bound = IF s.strict THEN (universe - n) + 1 ELSE universe
    BY DEF EFUniverse
  <2>5. IndexedValue(s, e) = e.value + (IF s.strict THEN p ELSE 0)
    BY <1>1, <2>2 DEF IndexedValue, IsStrictEF
  <2>6. IsStrictEF(s) = (s.strict = TRUE)
    BY <1>1 DEF IsStrictEF
  <2> HIDE DEF stored, bound
  <2>7. CASE p < n
    <3>1. vals[p] \in Nat /\ p \in Nat
      BY <2>2, <2>7
    <3> PICK v \in Nat : v = vals[p]
      BY <3>1
    <3>2. e.value = v - (IF s.strict THEN p ELSE 0)
      BY <2>2, <2>3, <2>7
    <3>3. IndexedValue(s, e) = v
      BY <2>5, <3>1, <3>2
    <3> QED  BY <2>2, <2>7, <3>3
  <2>8. CASE ~(p < n)
    <3>1. p = n
      BY <2>2, <2>8
    <3>2. IndexedValue(s, e) = bound + (IF s.strict THEN n ELSE 0)
      BY <2>2, <2>5, <2>8, <3>1
    <3>3. bound + (IF s.strict THEN n ELSE 0) = universe + (IF s.strict THEN 1 ELSE 0)
      BY <2>4
    <3> QED  BY <2>2, <2>6, <2>8, <3>2, <3>3
  <2> QED  BY <2>7, <2>8
<1>2. CASE s.type = "ranked_bitvector"
  <2>1. AtValue(vals, vals, universe, n, e, p)
    BY <1>2 DEF IndexedAt, RBAt
  <2>2. /\ p \in 0 .. n /\ e.position = p
        /\ e.value = IF p < n THEN vals[p] ELSE universe
    BY <2>1, AtPlace
  <2>3. IndexedValue(s, e) = e.value + 0 /\ ~IsStrictEF(s)
    BY <1>2 DEF IndexedValue, IsStrictEF
  <2>4. e.value \in Nat
    BY <2>2
  <2>5. IndexedValue(s, e) = e.value /\ universe + 0 = universe
    BY <2>3, <2>4
  <2> QED  BY <2>2, <2>3, <2>5
<1>3. CASE s.type = "all_ones"
  <2>1. p \in 0 .. n /\ e.position = p /\ e.value = p
    BY <1>3 DEF IndexedAt, AllOnesAt
  <2>2. IndexedValue(s, e) = e.value + 0 /\ ~IsStrictEF(s)
    BY <1>3 DEF IndexedValue, IsStrictEF
  <2>3. IndexedValue(s, e) = p /\ universe + 0 = universe /\ universe = n
    BY <1>3, <2>1, <2>2
  <2>4. p < n => vals[p] = p
    BY <1>3, <2>1
  <2>5. ~(p < n) => p = n
    BY <2>1
  <2> QED  BY <2>1, <2>2, <2>3, <2>4, <2>5
<1> QED  BY <1>1, <1>2, <1>3

LEMMA IndexedNewAt ==
  ASSUME NEW s, NEW vals, NEW universe, NEW n, IndexedRight(s, vals, universe, n)
  PROVE  IndexedAt(s, vals, universe, n, IndexedNew(s), n)
<1> USE IndexedTypes
<1>1. CASE s.type = "elias_fano"
  BY <1>1, EFNewAt DEF IndexedAt, IndexedNew
<1>2. CASE s.type = "ranked_bitvector"
  BY <1>2, RBNewAt DEF IndexedAt, IndexedNew
<1>3. CASE s.type = "all_ones"
  BY <1>3 DEF IndexedAt, IndexedNew
<1> QED  BY <1>1, <1>2, <1>3

LEMMA IndexedMoveAt ==
  ASSUME NEW s, NEW vals, NEW universe, NEW n, IndexedRight(s, vals, universe, n),
         NEW e, NEW p, IndexedAt(s, vals, universe, n, e, p), NEW q, q \in 0 .. n
  PROVE  IndexedAt(s, vals, universe, n, IndexedMove(s, e, q), q)
<1> USE IndexedTypes
<1>1. CASE s.type = "elias_fano"
  <2>1. IndexedMove(s, e, q) = EFMove(s.bits, e, q)
    BY <1>1 DEF IndexedMove
  <2> QED  BY <1>1, <2>1, EFMoveAt DEF IndexedAt
<1>2. CASE s.type = "ranked_bitvector"
  <2>1. IndexedMove(s, e, q) = RBMove(s.bits, e, q)
    BY <1>2 DEF IndexedMove
  <2> QED  BY <1>2, <2>1, RBMoveAt DEF IndexedAt
<1>3. CASE s.type = "all_ones"
  BY <1>3 DEF IndexedAt, IndexedMove
<1> QED  BY <1>1, <1>2, <1>3

LEMMA IndexedNextAt ==
  ASSUME NEW s, NEW vals, NEW universe, NEW n, IndexedRight(s, vals, universe, n),
         NEW e, NEW p, IndexedAt(s, vals, universe, n, e, p), p < n
  PROVE  IndexedAt(s, vals, universe, n, IndexedNext(s, e), p + 1)
<1> USE IndexedTypes
<1>1. CASE s.type = "elias_fano"
  <2>1. IndexedNext(s, e) = EFNext(s.bits, e)
    BY <1>1 DEF IndexedNext
  <2> QED  BY <1>1, <2>1, EFNextAt DEF IndexedAt
<1>2. CASE s.type = "ranked_bitvector"
  <2>1. IndexedNext(s, e) = RBNext(s.bits, e)
    BY <1>2 DEF IndexedNext
  <2> QED  BY <1>2, <2>1, RBNextAt DEF IndexedAt
<1>3. CASE s.type = "all_ones"
  <2>1. IndexedNext(s, e) = AllOnesAt(e.position + 1)
    BY <1>3 DEF IndexedNext
  <2>2. p \in 0 .. n /\ e.position = p
    BY <1>3, IndexedPlace
  <2>3. p + 1 \in 0 .. n
    BY <2>2
  <2> QED  BY <1>3, <2>1, <2>2, <2>3 DEF IndexedAt
<1> QED  BY <1>1, <1>2, <1>3

(* Only indexed sequences have next_geq; of the values, which increase, the  *)
(* one that is the bound is the first that is not below it.                  *)
LEMMA IndexedNextGeqAt ==
  ASSUME NEW s, NEW vals, NEW universe, NEW n, IndexedRight(s, vals, universe, n), ~s.strict,
         NEW e, NEW p, IndexedAt(s, vals, universe, n, e, p),
         NEW bound \in Nat, bound <= universe, NEW q, FirstAtLeast(vals, n, bound, q)
  PROVE  IndexedAt(s, vals, universe, n, IndexedNextGeq(s, e, bound), q)
<1> USE IndexedTypes
<1>0. /\ p \in 0 .. n
      /\ IndexedValue(s, e) = IF p < n THEN vals[p] ELSE universe
  <2>1. ~IsStrictEF(s)
    BY DEF IsStrictEF
  <2>2. universe + 0 = universe
    OBVIOUS
  <2> QED  BY <2>1, <2>2, IndexedPlace
<1>1. e.value \in Nat => IndexedValue(s, e) = e.value
  BY DEF IndexedValue, IsStrictEF
<1>2. e.value \in Nat /\ e.value = bound => p = q
  <2> SUFFICES ASSUME e.value = bound, e.value \in Nat  PROVE p = q
    OBVIOUS
  <2>1. bound = IF p < n THEN vals[p] ELSE universe
    BY <1>0, <1>1
  <2>2. FirstAtLeast(vals, n, bound, p)
    <3>1. CASE p < n
      <4>1. p \in 0 .. n - 1 /\ bound = vals[p]
        BY <1>0, <2>1, <3>1
      <4> QED  BY <4>1, FirstGeqOwn
    <3>2. CASE ~(p < n)
      <4>1. p = n /\ bound = universe
        BY <1>0, <2>1, <3>2
      <4>2. \A i \in 0 .. n - 1 : i < n <=> vals[i] < universe
        OBVIOUS
      <4>3. n \in 0 .. n
        OBVIOUS
      <4> QED  BY <4>1, <4>2, <4>3 DEF FirstAtLeast
    <3> QED  BY <3>1, <3>2
  <2> QED  BY <2>2, FirstGeqUnique
<1>3. CASE s.type = "elias_fano"
  <2>1. IndexedNextGeq(s, e, bound) = EFNextGeq(s.bits, e, bound)
    BY <1>3 DEF IndexedNextGeq
  <2>2. EFUniverse(s.strict, universe, n) = universe
    BY DEF EFUniverse
  <2> PICK stored : stored = StrictVals(s.strict, vals, n)
    OBVIOUS
  <2>3. \A i \in 0 .. n - 1 : stored[i] = vals[i]
    <3>1. \A i \in 0 .. n - 1 : stored[i] = vals[i] - 0
      BY StrictHoldable
    <3> QED  BY <3>1
  <2>4. FirstAtLeast(stored, n, bound, q)
    BY <2>3 DEF FirstAtLeast
  <2>5. EFAt(stored, universe, n, e, p)
    BY <1>3, <2>2 DEF IndexedAt
  <2>6. e.value \in Nat
    <3>1. e.value = IF p < n THEN stored[p] ELSE universe
      BY <2>5, AtPlace DEF EFAt
    <3> QED  BY <1>0, <2>3, <3>1
  <2>7. Holdable(stored, universe, n) /\ EFParts(s.bits, stored, universe, n)
    BY <1>3, <2>2
  <2>8. EFAt(stored, universe, n, EFNextGeq(s.bits, e, bound), IF e.value = bound THEN p ELSE q)
    BY <2>4, <2>5, <2>7, EFNextGeqAt
  <2>9. EFAt(stored, universe, n, EFNextGeq(s.bits, e, bound), q)
    BY <1>2, <2>6, <2>8
  <2> QED  BY <1>3, <2>1, <2>2, <2>9 DEF IndexedAt
<1>4. CASE s.type = "ranked_bitvector"
  <2>1. IndexedNextGeq(s, e, bound) = RBNextGeq(s.bits, e, bound)
    BY <1>4 DEF IndexedNextGeq
  <2>2. RBAt(vals, universe, n, e, p)
    BY <1>4 DEF IndexedAt
  <2>3. e.value \in Nat
    <3>1. e.value = IF p < n THEN vals[p] ELSE universe
      BY <2>2, AtPlace DEF RBAt
    <3> QED  BY <1>0, <3>1
  <2>4. RBAt(vals, universe, n, RBNextGeq(s.bits, e, bound), IF e.value = bound THEN p ELSE q)
    BY <1>4, <2>2, RBNextGeqAt
  <2>5. RBAt(vals, universe, n, RBNextGeq(s.bits, e, bound), q)
    BY <1>2, <2>3, <2>4
  <2> QED  BY <1>4, <2>1, <2>5 DEF IndexedAt
<1>5. CASE s.type = "all_ones"
  <2>1. IndexedNextGeq(s, e, bound) = AllOnesAt(bound)
    BY <1>5 DEF IndexedNextGeq
  <2>2. bound \in 0 .. n /\ \A i \in 0 .. n - 1 : i < bound <=> vals[i] < bound
    BY <1>5
  <2>3. FirstAtLeast(vals, n, bound, bound)
    BY <2>2 DEF FirstAtLeast
  <2>4. q = bound
    BY <2>3, FirstGeqUnique
  <2> QED  BY <1>5, <2>1, <2>2, <2>4 DEF IndexedAt
<1> QED  BY <1>3, <1>4, <1>5

LEMMA IndexedPrevIs ==
  ASSUME NEW s, NEW vals, NEW universe, NEW n, IndexedRight(s, vals, universe, n),
         NEW e, NEW p, IndexedAt(s, vals, universe, n, e, p)
  PROVE  IndexedPrev(s, e) = IF p = 0 THEN 0 ELSE vals[p - 1]
<1> USE IndexedTypes
<1>0. p \in 0 .. n /\ e.position = p
  BY IndexedPlace
<1>1. CASE s.type = "elias_fano"
  <2>0. CASE p = 0
    BY <1>0, <1>1, <2>0 DEF IndexedPrev
  <2>1. CASE p > 0
    <3> PICK stored, top : stored = StrictVals(s.strict, vals, n)
                           /\ top = EFUniverse(s.strict, universe, n)
      OBVIOUS
    <3>1. IndexedPrev(s, e) = EFPrev(s.bits, e) + (IF s.strict THEN p - 1 ELSE 0)
      BY <1>0, <1>1, <2>1 DEF IndexedPrev
    <3>2. EFPrev(s.bits, e) = stored[p - 1]
      <4>1. EFAt(stored, top, n, e, p) /\ Holdable(stored, top, n) /\ EFParts(s.bits, stored, top, n)
        BY <1>1 DEF IndexedAt
      <4>2. EFPrev(s.bits, e) = IF p = 0 THEN 0 ELSE stored[p - 1]
        BY <4>1, EFPrevIs
      <4> QED  BY <2>1, <4>2
    <3>3. p - 1 \in 0 .. n - 1 /\ p - 1 \in Nat
      BY <1>0, <2>1
    <3>4. stored[p - 1] = vals[p - 1] - (IF s.strict THEN p - 1 ELSE 0) /\ vals[p - 1] \in Nat
      BY <3>3, StrictHoldable
    <3>5. IndexedPrev(s, e) = vals[p - 1]
      <4> PICK k \in Nat, v \in Nat : k = p - 1 /\ v = vals[p - 1]
        BY <3>3, <3>4
      <4>1. stored[p - 1] = v - (IF s.strict THEN k ELSE 0)
        BY <3>4
      <4> QED  BY <3>1, <3>2, <4>1
    <3> QED  BY <2>1, <3>5
  <2> QED  BY <1>0, <2>0, <2>1
<1>2. CASE s.type = "ranked_bitvector"
  <2>1. IndexedPrev(s, e) = RBPrev(s.bits, e)
    BY <1>2 DEF IndexedPrev
  <2> QED  BY <1>2, <2>1, RBPrevIs DEF IndexedAt
<1>3. CASE s.type = "all_ones"
  <2>1. IndexedPrev(s, e) = IF p = 0 THEN 0 ELSE p - 1
    BY <1>0, <1>3 DEF IndexedPrev, AllOnesPrev
  <2>2. p # 0 => p - 1 \in 0 .. n - 1
    BY <1>0
  <2> QED  BY <1>3, <2>1, <2>2
<1> QED  BY <1>1, <1>2, <1>3

-----------------------------------------------------------------------------
(* Where the partitions end.                                                 *)

(* They cut n values in one piece or more.                                   *)
Cuts(ends, n) ==
  /\ n \in Nat \ {0}
  /\ Len(ends) \in Nat \ {0}
  /\ \A p \in 1 .. Len(ends) : ends[p] \in 1 .. n
  /\ \A p \in 1 .. Len(ends), q \in 1 .. Len(ends) : p < q => ends[p] < ends[q]
  /\ ends[Len(ends)] = n

LEMMA LengthOf ==
  ASSUME NEW k \in Nat, NEW S, NEW ends \in [1 .. k -> S]
  PROVE  Len(ends) = k
<1>1. ends \in Seq(S)
  OBVIOUS
<1>2. Len(ends) \in Nat /\ DOMAIN ends = 1 .. Len(ends) /\ DOMAIN ends = 1 .. k
  BY <1>1
<1> QED  BY <1>2

(* Numbers each of which is below the next.                                  *)
LEMMA StepsClimb ==
  ASSUME NEW f, NEW k \in Nat, \A p \in 1 .. k : f[p] \in Nat,
         \A p \in 1 .. k - 1 : f[p] < f[p + 1],
         NEW p, p \in 1 .. k, NEW q, q \in 1 .. k, p < q
  PROVE  f[p] < f[q]
<1> DEFINE Good == {j \in p + 1 .. k : f[p] < f[j]}
<1>1. p + 1 \in Good
  <2>1. p \in 1 .. k - 1 /\ p + 1 \in p + 1 .. k
    OBVIOUS
  <2> QED  BY <2>1
<1>2. ASSUME NEW j \in p + 1 .. k - 1, j \in Good  PROVE j + 1 \in Good
  <2>1. j \in 1 .. k - 1 /\ j \in 1 .. k /\ j + 1 \in 1 .. k /\ j + 1 \in p + 1 .. k
    OBVIOUS
  <2>2. f[j] < f[j + 1] /\ f[j] \in Nat /\ f[j + 1] \in Nat /\ f[p] \in Nat /\ f[p] < f[j]
    BY <1>2, <2>1
  <2> QED  BY <2>1, <2>2
<1>3. p + 1 \in Int /\ k \in Int
  OBVIOUS
<1> HIDE DEF Good
<1>4. \A j \in p + 1 .. k : j \in Good
  BY <1>1, <1>2, <1>3, InductionFrom
<1>5. q \in Good
  BY <1>4
<1> QED  BY <1>5 DEF Good

LEMMA PartitionsCut ==
  ASSUME NEW n \in Nat \ {0}, NEW ends \in Partitions(n)
  PROVE  Cuts(ends, n)
<1>1. PICK k \in 1 .. n : ends \in [1 .. k -> 1 .. n]
  BY DEF Partitions
<1>2. /\ ends[Len(ends)] = n
      /\ \A p \in 1 .. Len(ends) - 1 : ends[p] < ends[p + 1]
  BY DEF Partitions
<1>3. Len(ends) = k
  BY <1>1, LengthOf
<1>4. \A p \in 1 .. k : ends[p] \in 1 .. n /\ ends[p] \in Nat
  BY <1>1
<1>5. k \in Nat \ {0}
  BY <1>1
<1>6. \A p \in 1 .. k, q \in 1 .. k : p < q => ends[p] < ends[q]
  BY <1>2, <1>3, <1>4, <1>5, StepsClimb
<1> QED  BY <1>2, <1>3, <1>4, <1>5, <1>6 DEF Cuts

LEMMA RoundedUp ==
  ASSUME NEW n \in Nat \ {0}, NEW size \in Nat \ {0}, NEW b \in Int, NEW r \in 0 .. size - 1,
         (n + size) - 1 = b + r
  PROVE  n <= b /\ b - size < n
OBVIOUS

LEMMA NextMultiple ==
  ASSUME NEW p \in Int, NEW size \in Int
  PROVE  (p + 1) * size = (p * size) + size
OBVIOUS

(* The partition of a position is the position without its low bits.         *)
LEMMA UniformCut ==
  ASSUME NEW n \in Nat \ {0}
  PROVE  /\ Cuts(UniformEnds(n), n)
         /\ \A p \in 1 .. Len(UniformEnds(n)) :
              UniformEnds(n)[p] = IF p * Pow2[LogPartitionSize] < n
                                  THEN p * Pow2[LogPartitionSize] ELSE n
         /\ \A p \in 1 .. Len(UniformEnds(n)) - 1 :
              UniformEnds(n)[p] = p * Pow2[LogPartitionSize]
<1> PICK size \in Nat \ {0} : size = Pow2[LogPartitionSize]
  BY Pow2Facts, PartitionAssumption
<1> PICK k : k = (n + size - 1) \div size
  OBVIOUS
<1>1. k \in Nat \ {0} /\ n <= size * k /\ size * (k - 1) < n
  <2> PICK m \in Nat : m = (n + size) - 1
    OBVIOUS
  <2>1. m = n + size - 1
    OBVIOUS
  <2>2. k = m \div size
    BY <2>1
  <2>3. k \in Nat /\ m = size * k + (m % size) /\ m % size \in 0 .. size - 1
    <3>1. /\ m \div size \in Nat /\ m % size \in 0 .. size - 1
          /\ m = size * (m \div size) + (m % size)
      <4>1. m \in Int
        OBVIOUS
      <4> QED  BY <4>1, DivMod
    <3> QED  BY <2>2, <3>1
  <2> PICK r \in 0 .. size - 1 : r = m % size
    BY <2>3
  <2> PICK b \in Int : b = size * k
    BY <2>3
  <2>4. size * (k - 1) = b - size
    BY <2>3
  <2>5. n <= b /\ b - size < n
    <3>1. m = b + r
      BY <2>3
    <3>2. (n + size) - 1 = b + r
      BY <3>1
    <3> QED  BY <3>2, RoundedUp
  <2>6. k # 0
    <3> SUFFICES ASSUME k = 0  PROVE FALSE
      OBVIOUS
    <3>1. b = 0
      BY <2>3
    <3> QED  BY <2>5, <3>1
  <2> QED  BY <2>3, <2>4, <2>5, <2>6
<1> PICK ends : ends = UniformEnds(n)
  OBVIOUS
<1>2. ends = [p \in 1 .. k |-> IF p * size < n THEN p * size ELSE n]
  BY DEF UniformEnds
<1>3. ASSUME NEW p \in 1 .. k  PROVE p * size \in Nat /\ p * size >= 1
  <2>1. 0 < p /\ 0 \in Int /\ p \in Int
    BY <1>1
  <2>2. size * 0 + size <= size * p
    BY <2>1, TimesGrows
  <2>3. size * p = p * size /\ size * p \in Int /\ size * 0 = 0
    BY <2>1
  <2> QED  BY <2>2, <2>3
<1>4. ASSUME NEW p \in 1 .. k - 1  PROVE p * size < n
  <2>1. p \in Int /\ k - 1 \in Int /\ p <= k - 1
    BY <1>1
  <2>2. size * p <= size * (k - 1)
    <3>1. CASE p = k - 1
      BY <2>1, <3>1
    <3>2. CASE p < k - 1
      <4>1. size * p + size <= size * (k - 1)
        BY <2>1, <3>2, TimesGrows
      <4> PICK a \in Int, b \in Int : a = size * p /\ b = size * (k - 1)
        BY <2>1
      <4> QED  BY <4>1
    <3> QED  BY <2>1, <3>1, <3>2
  <2> PICK a \in Int, b \in Int : a = size * p /\ b = size * (k - 1)
    BY <2>1
  <2>3. p * size = a
    BY <2>1
  <2> QED  BY <1>1, <2>2, <2>3
<1>5. \A p \in 1 .. k - 1 : ends[p] = p * size
  BY <1>1, <1>2, <1>4
<1>6. ends[k] = n
  <2>1. k \in 1 .. k /\ ends[k] = IF k * size < n THEN k * size ELSE n
    BY <1>1, <1>2
  <2>2. ~(k * size < n)
    <3> PICK b \in Int : b = size * k
      BY <1>1
    <3>1. k * size = b
      BY <1>1
    <3> QED  BY <1>1, <3>1
  <2> QED  BY <2>1, <2>2
<1>7. \A p \in 1 .. k : ends[p] \in 1 .. n
  <2> SUFFICES ASSUME NEW p \in 1 .. k  PROVE ends[p] \in 1 .. n
    OBVIOUS
  <2>1. CASE p = k
    BY <1>6, <2>1
  <2>2. CASE p # k
    <3>1. p \in 1 .. k - 1
      BY <1>1, <2>2
    <3> PICK a : a = p * size
      OBVIOUS
    <3>2. a \in Nat /\ a >= 1 /\ a < n
      BY <1>3, <1>4, <3>1
    <3> QED  BY <1>5, <3>1, <3>2
  <2> QED  BY <2>1, <2>2
<1>8. \A p \in 1 .. k - 1 : ends[p] < ends[p + 1]
  <2> SUFFICES ASSUME NEW p \in 1 .. k - 1  PROVE ends[p] < ends[p + 1]
    OBVIOUS
  <2>1. CASE p + 1 = k
    BY <1>4, <1>5, <1>6, <2>1
  <2>2. CASE p + 1 # k
    <3>1. p + 1 \in 1 .. k - 1
      BY <1>1, <2>2
    <3>2. ends[p] = p * size /\ ends[p + 1] = (p + 1) * size
      BY <1>5, <3>1
    <3> PICK a \in Int : a = p * size
      BY <1>1
    <3>3. (p + 1) * size = a + size
      <4>1. p \in Int
        BY <1>1
      <4>2. size \in Int
        OBVIOUS
      <4>3. (p + 1) * size = (p * size) + size
        BY <4>1, <4>2, NextMultiple, Zenon
      <4> QED  BY <4>3, Zenon
    <3>4. ends[p] = a /\ ends[p + 1] = a + size
      BY <3>2, <3>3
    <3> QED  BY <3>4
  <2> QED  BY <2>1, <2>2
<1>9. Len(ends) = k
  <2>1. ends \in [1 .. k -> Int]
    BY <1>2, <1>7
  <2> QED  BY <1>1, <2>1, LengthOf
<1>10. \A p \in 1 .. k, q \in 1 .. k : p < q => ends[p] < ends[q]
  <2>1. \A p \in 1 .. k : ends[p] \in Nat
    BY <1>7
  <2> QED  BY <1>1, <1>8, <2>1, StepsClimb
<1>11. Cuts(ends, n)
  BY <1>1, <1>6, <1>7, <1>9, <1>10 DEF Cuts
<1>12. \A p \in 1 .. k : ends[p] = IF p * size < n THEN p * size ELSE n
  BY <1>2
<1> QED  BY <1>5, <1>9, <1>11, <1>12
-----------------------------------------------------------------------------
(* What is written for one partition.                                        *)

PartSize(ends, p) == ends[p + 1] - PartBegin(ends, p)

PartUniverse(vals, ends, p) == (vals[ends[p + 1] - 1] - PartBase(vals, ends, p)) + 1

LEMMA CutFacts ==
  ASSUME NEW ends, NEW n, Cuts(ends, n), NEW p, p \in 0 .. Len(ends) - 1
  PROVE  /\ p + 1 \in 1 .. Len(ends) /\ ends[p + 1] \in 1 .. n
         /\ PartBegin(ends, p) \in 0 .. n - 1 /\ PartBegin(ends, p) < ends[p + 1]
         /\ PartSize(ends, p) \in 1 .. n
         /\ PartSize(ends, p) = ends[p + 1] - PartBegin(ends, p)
         /\ p # 0 => p \in 1 .. Len(ends) /\ PartBegin(ends, p) = ends[p] /\ ends[p] \in 1 .. n
         /\ p = 0 <=> PartBegin(ends, p) = 0
<1>1. p + 1 \in 1 .. Len(ends) /\ ends[p + 1] \in 1 .. n /\ n \in Nat \ {0}
  BY DEF Cuts
<1>2. CASE p = 0
  BY <1>1, <1>2 DEF PartBegin, PartSize
<1>3. CASE p # 0
  <2>1. p \in 1 .. Len(ends) /\ p < p + 1 /\ PartBegin(ends, p) = ends[p]
    BY <1>1, <1>3 DEF Cuts, PartBegin
  <2>2. ends[p] \in 1 .. n /\ ends[p] < ends[p + 1]
    BY <1>1, <2>1 DEF Cuts
  <2> QED  BY <1>1, <1>3, <2>1, <2>2 DEF PartSize
<1> QED  BY <1>2, <1>3

(* The base is not above the first value, and each value is what was stored  *)
(* and the base.                                                             *)
LEMMA PartFacts ==
  ASSUME NEW vals, NEW universe, NEW n, HoldableBits(vals, universe, n),
         NEW ends, Cuts(ends, n), NEW p, p \in 0 .. Len(ends) - 1
  PROVE  /\ PartBase(vals, ends, p) \in Nat
         /\ \A i \in 0 .. PartSize(ends, p) - 1 :
              /\ PartBegin(ends, p) + i \in 0 .. n - 1
              /\ vals[PartBegin(ends, p) + i] \in Nat
              /\ PartBase(vals, ends, p) <= vals[PartBegin(ends, p) + i]
              /\ Relative(vals, ends, p)[i]
                   = vals[PartBegin(ends, p) + i] - PartBase(vals, ends, p)
         /\ vals[ends[p + 1] - 1] \in Nat
         /\ PartBegin(ends, p) + (PartSize(ends, p) - 1) = ends[p + 1] - 1
<1>1. /\ n \in Nat \ {0} /\ universe \in Nat /\ Climbs(vals, n)
      /\ \A i \in 0 .. n - 1 : vals[i] \in Nat
  BY DEF HoldableBits, Holdable, Climbs
<1> PICK begin, end, size, base :
       /\ begin = PartBegin(ends, p) /\ end = ends[p + 1]
       /\ size = PartSize(ends, p) /\ base = PartBase(vals, ends, p)
  OBVIOUS
<1>2. /\ end \in 1 .. n /\ begin \in 0 .. n - 1 /\ begin < end /\ size = end - begin
      /\ size \in 1 .. n /\ n \in Nat \ {0}
  BY <1>1, CutFacts
<1>3. base \in Nat /\ base <= vals[begin]
  <2>1. CASE p = 0
    <3>1. base = vals[0] /\ begin = 0 /\ 0 \in 0 .. n - 1
      BY <1>1, <2>1 DEF PartBase, PartBegin
    <3> QED  BY <1>1, <3>1
  <2>2. CASE p # 0
    <3>1. base = vals[begin - 1] + 1 /\ begin # 0
      BY <2>2, CutFacts DEF PartBase
    <3>2. begin - 1 \in 0 .. n - 1 /\ begin \in 0 .. n - 1 /\ begin - 1 < begin
      BY <1>2, <3>1, SMTT(40)
    <3>3. vals[begin - 1] \in Nat /\ vals[begin] \in Nat /\ vals[begin - 1] < vals[begin]
      BY <1>1, <3>2 DEF Climbs
    <3> QED  BY <3>1, <3>3
  <2> QED  BY <2>1, <2>2
<1>4. ASSUME NEW i \in 0 .. size - 1
      PROVE  begin + i \in 0 .. n - 1 /\ vals[begin + i] \in Nat /\ base <= vals[begin + i]
  <2>1. begin + i \in 0 .. n - 1 /\ begin <= begin + i /\ begin \in 0 .. n - 1
    <3>1. i \in Nat /\ i < end - begin /\ begin \in Nat /\ end \in Nat /\ end <= n
      BY <1>2, SMTT(40)
    <3>2. begin + i \in Nat /\ begin + i < end
      BY <3>1
    <3>3. n \in Nat /\ begin \in 0 .. n - 1
      BY <1>2
    <3> PICK x \in Nat : x = begin + i
      BY <3>2
    <3>4. x <= n - 1 /\ begin <= x
      BY <3>1, <3>2, <3>3, SMTT(40)
    <3> QED  BY <3>3, <3>4
  <2>2. vals[begin] \in Nat /\ vals[begin + i] \in Nat /\ vals[begin] <= vals[begin + i]
    BY <1>1, <2>1, ClimbsRises DEF Rises
  <2> QED  BY <1>3, <2>1, <2>2
<1>5. Relative(vals, ends, p) = [i \in 0 .. (end - begin) - 1 |-> vals[begin + i] - base]
  BY Zenon DEF Relative
<1>6. \A i \in 0 .. size - 1 : Relative(vals, ends, p)[i] = vals[begin + i] - base
  BY <1>2, <1>5
<1>7. end - 1 \in 0 .. n - 1 /\ begin + (size - 1) = end - 1
  BY <1>2, SMTT(40)
<1> QED  BY <1>1, <1>3, <1>4, <1>6, <1>7

LEMMA PartHoldable ==
  ASSUME NEW vals, NEW universe, NEW n, HoldableBits(vals, universe, n),
         NEW ends, Cuts(ends, n), NEW p, p \in 0 .. Len(ends) - 1
  PROVE  /\ HoldableBits(Relative(vals, ends, p), PartUniverse(vals, ends, p), PartSize(ends, p))
         /\ Cardinality(DOMAIN Relative(vals, ends, p)) = PartSize(ends, p)
         /\ Relative(vals, ends, p)[PartSize(ends, p) - 1] + 1 = PartUniverse(vals, ends, p)
<1> PICK begin, end, size, base, rel :
       /\ begin = PartBegin(ends, p) /\ end = ends[p + 1]
       /\ size = PartSize(ends, p) /\ base = PartBase(vals, ends, p)
       /\ rel = Relative(vals, ends, p)
  OBVIOUS
<1>1. /\ end \in 1 .. n /\ begin \in 0 .. n - 1 /\ begin < end /\ size = end - begin
      /\ size \in 1 .. n /\ n \in Nat \ {0} /\ Climbs(vals, n)
  BY CutFacts DEF HoldableBits, Holdable
<1>2. /\ base \in Nat
      /\ \A i \in 0 .. size - 1 : /\ begin + i \in 0 .. n - 1 /\ vals[begin + i] \in Nat
                                  /\ base <= vals[begin + i] /\ rel[i] = vals[begin + i] - base
      /\ vals[end - 1] \in Nat /\ begin + (size - 1) = end - 1
  BY PartFacts
<1>3. ASSUME NEW i \in 0 .. size - 1, NEW j \in 0 .. size - 1, i < j
      PROVE  rel[i] \in Nat /\ rel[i] < rel[j]
  <2>1. /\ begin + i \in 0 .. n - 1 /\ begin + j \in 0 .. n - 1
        /\ vals[begin + i] \in Nat /\ vals[begin + j] \in Nat
        /\ base <= vals[begin + i] /\ rel[i] = vals[begin + i] - base
        /\ rel[j] = vals[begin + j] - base
    BY <1>2
  <2>2. begin + i < begin + j
    BY <1>1, <1>3
  <2>3. vals[begin + i] < vals[begin + j]
    BY <1>1, <2>1, <2>2 DEF Climbs
  <2> PICK a \in Nat, b \in Nat : a = vals[begin + i] /\ b = vals[begin + j]
    BY <2>1
  <2>4. rel[i] = a - base /\ rel[j] = b - base /\ base <= a /\ a < b /\ base \in Nat
    BY <1>2, <2>1, <2>3
  <2>5. a - base \in Nat /\ a - base < b - base
    BY <2>4, SMTT(40)
  <2> QED  BY <2>4, <2>5
<1>4. \A i \in 0 .. size - 1 : rel[i] \in Nat
  <2> SUFFICES ASSUME NEW i \in 0 .. size - 1  PROVE rel[i] \in Nat
    OBVIOUS
  <2>1. vals[begin + i] \in Nat /\ base <= vals[begin + i] /\ rel[i] = vals[begin + i] - base
    BY <1>2
  <2> PICK a \in Nat : a = vals[begin + i]
    BY <2>1
  <2> QED  BY <1>2, <2>1
<1>5. Climbs(rel, size)
  <2>1. size \in Nat
    BY <1>1
  <2> QED  BY <1>3, <1>4, <2>1 DEF Climbs
<1>6. size - 1 \in 0 .. size - 1
  BY <1>1, SMTT(40)
<1>7. rel[size - 1] = vals[end - 1] - base
  BY <1>2, <1>6
<1>8. rel[size - 1] + 1 = PartUniverse(vals, ends, p)
  BY <1>7 DEF PartUniverse
<1>9. \A i \in 0 .. size - 1 : rel[i] < rel[size - 1] + 1
  <2> SUFFICES ASSUME NEW i \in 0 .. size - 1  PROVE rel[i] < rel[size - 1] + 1
    OBVIOUS
  <2>1. rel[i] \in Nat /\ rel[size - 1] \in Nat
    BY <1>4, <1>6
  <2>2. i < size - 1 => rel[i] < rel[size - 1]
    BY <1>3, <1>6
  <2>3. i < size - 1 \/ i = size - 1
    BY <1>1, SMTT(40)
  <2> QED  BY <2>1, <2>2, <2>3
<1>10. rel[size - 1] + 1 \in Nat
  BY <1>4, <1>6
<1>11. HoldableBits(rel, rel[size - 1] + 1, size)
  <2>1. Rises(rel, size) /\ size \in Nat \ {0}
    BY <1>1, <1>5, ClimbsRises
  <2> QED  BY <1>5, <1>9, <1>10, <2>1 DEF HoldableBits, Holdable
<1>12. DOMAIN rel = 0 .. (end - begin) - 1
  BY Zenon DEF Relative
<1>13. Cardinality(DOMAIN rel) = size
  <2>1. DOMAIN rel = 0 .. size - 1 /\ 0 \in Int /\ size - 1 \in Int /\ ~(0 > size - 1)
    BY <1>1, <1>12, SMTT(40)
  <2>2. Cardinality(0 .. size - 1) = ((size - 1) - 0) + 1
    BY <2>1, FS_Interval
  <2> QED  BY <1>1, <2>1, <2>2, SMTT(40)
<1> QED  BY <1>8, <1>11, <1>13

(* It is an indexed sequence, and opened as it was written.                  *)
PartRight(w, vals, ends, p) ==
  /\ IndexedRight(w, Relative(vals, ends, p), PartUniverse(vals, ends, p), PartSize(ends, p))
  /\ ~w.stored
  /\ Open(w, PartUniverse(vals, ends, p), PartSize(ends, p)) = w

LEMMA PartWritesRight ==
  ASSUME NEW vals, NEW universe, NEW n, HoldableBits(vals, universe, n),
         NEW ends, Cuts(ends, n), NEW p, p \in 0 .. Len(ends) - 1, NEW strict \in BOOLEAN
  PROVE  /\ PartRight(PartWrite(strict, vals, ends, p), vals, ends, p)
         /\ PartWrite(strict, vals, ends, p).strict = strict
<1> PICK size, rel, top :
       /\ size = PartSize(ends, p) /\ rel = Relative(vals, ends, p)
       /\ top = PartUniverse(vals, ends, p)
  OBVIOUS
<1>1. HoldableBits(rel, top, size) /\ Cardinality(DOMAIN rel) = size /\ rel[size - 1] + 1 = top
  BY PartHoldable
<1>2. PartWrite(strict, vals, ends, p) = IndexedWrite(strict, rel, top, size)
  BY <1>1, Zenon DEF PartWrite
<1> PICK w : w = IndexedWrite(strict, rel, top, size)
  OBVIOUS
<1>3. IndexedRight(w, rel, top, size)
  BY <1>1, IndexedWritesRight
<1>4. ~w.stored /\ Open(w, top, size) = w
  BY OpenWritten
<1>5. w.strict = strict
  BY DEF IndexedWrite
<1> QED  BY <1>2, <1>3, <1>4, <1>5 DEF PartRight
-----------------------------------------------------------------------------
(* What is written of all of them.                                           *)

(* The ends but the last, and the first value with the last of each.         *)
Inner(ends) == [p \in 0 .. Len(ends) - 2 |-> ends[p + 1]]

Bounds(vals, ends) ==
  [p \in 0 .. Len(ends) |-> IF p = 0 THEN vals[0] ELSE vals[ends[p] - 1]]

LEMMA InnerHolds ==
  ASSUME NEW ends, NEW n, Cuts(ends, n), Len(ends) > 1
  PROVE  /\ Holdable(Inner(ends), n, Len(ends) - 1)
         /\ Climbs(Inner(ends), Len(ends) - 1)
         /\ \A p \in 0 .. Len(ends) - 2 : Inner(ends)[p] = ends[p + 1]
<1> PICK k \in Nat : k = Len(ends)
  BY DEF Cuts
<1>1. /\ n \in Nat \ {0} /\ k > 1 /\ ends[k] = n
      /\ \A p \in 1 .. k : ends[p] \in 1 .. n
      /\ \A p \in 1 .. k, q \in 1 .. k : p < q => ends[p] < ends[q]
  BY DEF Cuts
<1> PICK f : f = Inner(ends)
  OBVIOUS
<1>2. \A p \in 0 .. k - 2 : f[p] = ends[p + 1]
  BY DEF Inner
<1>3. k - 1 \in Nat \ {0} /\ (k - 1) - 1 = k - 2
  BY <1>1
<1>4. ASSUME NEW i \in 0 .. k - 2  PROVE f[i] \in Nat /\ f[i] < n
  <2>1. i + 1 \in 1 .. k /\ k \in 1 .. k /\ i + 1 < k
    BY <1>1
  <2>2. ends[i + 1] \in 1 .. n /\ ends[i + 1] < ends[k]
    BY <1>1, <2>1
  <2> QED  BY <1>1, <1>2, <2>2
<1>5. ASSUME NEW i \in 0 .. k - 2, NEW j \in 0 .. k - 2, i < j  PROVE f[i] < f[j]
  <2>1. i + 1 \in 1 .. k /\ j + 1 \in 1 .. k /\ i + 1 < j + 1
    BY <1>1, <1>5
  <2>2. ends[i + 1] < ends[j + 1]
    BY <1>1, <2>1
  <2> QED  BY <1>2, <2>2
<1>6. Climbs(f, k - 1)
  BY <1>3, <1>4, <1>5 DEF Climbs
<1>7. Holdable(f, n, k - 1)
  <2>1. Rises(f, k - 1)
    BY <1>6, ClimbsRises
  <2>2. n \in Nat
    BY <1>1
  <2> QED  BY <1>3, <1>4, <2>1, <2>2 DEF Holdable
<1> QED  BY <1>2, <1>6, <1>7

LEMMA BoundsHold ==
  ASSUME NEW vals, NEW universe, NEW n, HoldableBits(vals, universe, n), NEW ends, Cuts(ends, n)
  PROVE  /\ Holdable(Bounds(vals, ends), universe, Len(ends) + 1)
         /\ Bounds(vals, ends)[0] = vals[0]
         /\ \A p \in 1 .. Len(ends) : Bounds(vals, ends)[p] = vals[ends[p] - 1]
<1> PICK k \in Nat : k = Len(ends)
  BY DEF Cuts
<1>1. /\ n \in Nat \ {0} /\ k # 0
      /\ \A p \in 1 .. k : ends[p] \in 1 .. n
      /\ \A p \in 1 .. k, q \in 1 .. k : p < q => ends[p] < ends[q]
  BY DEF Cuts
<1>2. /\ universe \in Nat /\ Rises(vals, n)
      /\ \A i \in 0 .. n - 1 : vals[i] \in Nat /\ vals[i] < universe
  BY DEF HoldableBits, Holdable, Rises
<1> PICK f : f = Bounds(vals, ends)
  OBVIOUS
<1>3. /\ f[0] = vals[0]
      /\ \A p \in 1 .. k : f[p] = vals[ends[p] - 1]
  BY DEF Bounds
<1> DEFINE at(p) == IF p = 0 THEN 0 ELSE ends[p] - 1
<1>4. ASSUME NEW p \in 0 .. k  PROVE at(p) \in 0 .. n - 1 /\ f[p] = vals[at(p)]
  <2>1. CASE p = 0
    BY <1>1, <1>3, <2>1
  <2>2. CASE p # 0
    <3>1. p \in 1 .. k
      BY <2>2
    <3>2. ends[p] \in 1 .. n
      BY <1>1, <3>1
    <3>3. ends[p] - 1 \in 0 .. n - 1
      BY <1>1, <3>2
    <3> QED  BY <1>3, <2>2, <3>1, <3>3
  <2> QED  BY <2>1, <2>2
<1>5. ASSUME NEW p \in 0 .. k, NEW q \in 0 .. k, p <= q  PROVE at(p) <= at(q)
  <2>1. CASE p = 0
    <3>1. at(q) \in 0 .. n - 1
      BY <1>4
    <3> QED  BY <2>1, <3>1, <1>1
  <2>2. CASE p # 0
    <3>1. p \in 1 .. k /\ q \in 1 .. k /\ q # 0
      BY <1>5, <2>2
    <3>2. ends[p] \in 1 .. n /\ ends[q] \in 1 .. n /\ (p < q => ends[p] < ends[q])
      BY <1>1, <3>1
    <3>3. ends[p] <= ends[q]
      BY <1>1, <1>5, <3>2
    <3> QED  BY <1>1, <2>2, <3>1, <3>2, <3>3
  <2> QED  BY <2>1, <2>2
<1> HIDE DEF at
<1>6. \A p \in 0 .. k : f[p] \in Nat /\ f[p] < universe
  BY <1>2, <1>4
<1>7. ASSUME NEW p \in 0 .. k, NEW q \in 0 .. k, p <= q  PROVE f[p] <= f[q]
  <2>1. at(p) \in 0 .. n - 1 /\ at(q) \in 0 .. n - 1 /\ at(p) <= at(q)
    BY <1>4, <1>5, <1>7
  <2>2. vals[at(p)] <= vals[at(q)]
    BY <1>2, <2>1 DEF Rises
  <2> QED  BY <1>4, <2>2
<1>8. Holdable(f, universe, k + 1)
  <2>1. k + 1 \in Nat \ {0} /\ (k + 1) - 1 = k
    OBVIOUS
  <2>2. Rises(f, k + 1)
    BY <1>6, <1>7, <2>1 DEF Rises
  <2> QED  BY <1>2, <1>6, <2>1, <2>2 DEF Holdable
<1> QED  BY <1>3, <1>8

PartitionedRight(s, vals, universe, n, ends) ==
  /\ HoldableBits(vals, universe, n) /\ Cuts(ends, n)
  /\ s.uniform \in BOOLEAN /\ (s.uniform => ends = UniformEnds(n))
  /\ s.universe = universe /\ s.n = n /\ s.partitions = Len(ends)
  /\ \A p \in 0 .. Len(ends) - 1 : PartRight(s.parts[p], vals, ends, p)
  /\ Len(ends) = 1 => s.base = vals[0] /\ s.delta = UniverseDelta(vals, universe, n)
  /\ Len(ends) > 1 => /\ EFParts(s.sizes, Inner(ends), n, Len(ends) - 1)
                      /\ EFParts(s.upper_bounds, Bounds(vals, ends), universe, Len(ends) + 1)

LEMMA PartitionedWritesRight ==
  ASSUME NEW vals, NEW universe, NEW n, HoldableBits(vals, universe, n),
         NEW ends, Cuts(ends, n), NEW strict \in BOOLEAN,
         NEW uniform \in BOOLEAN, uniform => ends = UniformEnds(n)
  PROVE  LET s == PartitionedWrite(uniform, strict, vals, universe, n, ends)
         IN /\ PartitionedRight(s, vals, universe, n, ends)
            /\ s.uniform = uniform
            /\ \A p \in 0 .. Len(ends) - 1 : s.parts[p].strict = strict
<1> PICK parts : parts = [p \in 0 .. Len(ends) - 1 |-> PartWrite(strict, vals, ends, p)]
  OBVIOUS
<1> PICK s : s = PartitionedWrite(uniform, strict, vals, universe, n, ends)
  OBVIOUS
<1>1. s = Layout(uniform, parts, vals, universe, n, ends)
  BY Zenon DEF PartitionedWrite
<1>2. \A p \in 0 .. Len(ends) - 1 :
        PartRight(parts[p], vals, ends, p) /\ parts[p].strict = strict
  BY PartWritesRight
<1>3. Len(ends) # 1 => Len(ends) > 1
  <2> PICK k \in Nat \ {0} : k = Len(ends)
    BY DEF Cuts
  <2>1. k # 1 => k > 1
    OBVIOUS
  <2> QED  BY <2>1
<1>4. CASE Len(ends) = 1
  <2>1. s = [uniform |-> uniform, universe |-> universe, n |-> n,
             partitions |-> Len(ends), parts |-> parts,
             base |-> vals[0], delta |-> UniverseDelta(vals, universe, n)]
    BY <1>1, <1>4, Zenon DEF Layout
  <2> PICK delta : delta = UniverseDelta(vals, universe, n)
    OBVIOUS
  <2>2. /\ s.uniform = uniform /\ s.universe = universe /\ s.n = n /\ s.partitions = Len(ends)
        /\ s.parts = parts /\ s.base = vals[0] /\ s.delta = delta
    BY <2>1
  <2>3. ~(Len(ends) > 1)
    BY <1>4
  <2>4. \A p \in 0 .. Len(ends) - 1 :
          PartRight(s.parts[p], vals, ends, p) /\ s.parts[p].strict = strict
    BY <1>2, <2>2
  <2>5. PartitionedRight(s, vals, universe, n, ends)
    BY <2>2, <2>3, <2>4, Zenon DEF PartitionedRight
  <2> QED  BY <2>2, <2>4, <2>5
<1>5. CASE Len(ends) # 1
  <2> PICK sizes, upper_bounds :
        /\ sizes = EFWrite(Inner(ends), n, Len(ends) - 1, EfLogSampling0, EfLogSampling1)
        /\ upper_bounds = EFWrite(Bounds(vals, ends), universe, Len(ends) + 1,
                                  EfLogSampling0, EfLogSampling1)
    OBVIOUS
  <2>1. s = [uniform |-> uniform, universe |-> universe, n |-> n,
             partitions |-> Len(ends), parts |-> parts,
             sizes |-> sizes, upper_bounds |-> upper_bounds]
    BY <1>1, <1>5, Zenon DEF Layout, Inner, Bounds
  <2>2. /\ s.uniform = uniform /\ s.universe = universe /\ s.n = n /\ s.partitions = Len(ends)
        /\ s.parts = parts /\ s.sizes = sizes /\ s.upper_bounds = upper_bounds
    BY <2>1
  <2>3. Len(ends) > 1
    BY <1>3, <1>5
  <2>4. \A p \in 0 .. Len(ends) - 1 :
          PartRight(s.parts[p], vals, ends, p) /\ s.parts[p].strict = strict
    BY <1>2, <2>2
  <2>5. EFParts(s.sizes, Inner(ends), n, Len(ends) - 1)
    BY <2>2, <2>3, InnerHolds, ParamsFacts, WritesParts
  <2>6. EFParts(s.upper_bounds, Bounds(vals, ends), universe, Len(ends) + 1)
    BY <2>2, BoundsHold, ParamsFacts, WritesParts
  <2>7. PartitionedRight(s, vals, universe, n, ends)
    BY <1>5, <2>2, <2>4, <2>5, <2>6, Zenon DEF PartitionedRight
  <2> QED  BY <2>2, <2>4, <2>7
<1> QED  BY <1>4, <1>5
-----------------------------------------------------------------------------
(* The enumerator, with a partition open.                                    *)

HasFields(e) ==
  {"position", "value", "partition", "begin", "end", "base", "upper_bound", "sizes",
   "upper_bounds", "seq", "part"} \subseteq DOMAIN e

Somewhere(vals, universe, n, e) == \E p : EFAt(vals, universe, n, e, p)

(* The enumerators of the ends and of the bounds are at some of them.        *)
SidesAt(s, vals, universe, n, ends, e) ==
  Len(ends) > 1 => /\ Somewhere(Bounds(vals, ends), universe, Len(ends) + 1, e.upper_bounds)
                   /\ ~s.uniform => Somewhere(Inner(ends), n, Len(ends) - 1, e.sizes)

Opened(s, vals, ends, e, p) ==
  /\ p \in 0 .. Len(ends) - 1 /\ e.partition = p
  /\ e.begin = PartBegin(ends, p) /\ e.end = ends[p + 1]
  /\ e.base = PartBase(vals, ends, p) /\ e.upper_bound = vals[ends[p + 1] - 1]
  /\ e.seq = s.parts[p]

PartAt(vals, ends, w, part, p, k) ==
  IndexedAt(w, Relative(vals, ends, p), PartUniverse(vals, ends, p), PartSize(ends, p), part, k)

Ready(s, vals, universe, n, ends, e, p) ==
  /\ HasFields(e) /\ SidesAt(s, vals, universe, n, ends, e) /\ Opened(s, vals, ends, e, p)
  /\ \E k : PartAt(vals, ends, e.seq, e.part, p, k)

(* The lemmas about EFPrev, EFMove and EFNextGeq, for an enumerator that is  *)
(* somewhere.                                                                *)
LEMMA MovedSomewhere ==
  ASSUME NEW vals, NEW universe, NEW n, Holdable(vals, universe, n),
         NEW s, EFParts(s, vals, universe, n), NEW e, Somewhere(vals, universe, n, e),
         NEW q, q \in 0 .. n
  PROVE  /\ EFAt(vals, universe, n, EFMove(s, e, q), q)
         /\ EFMove(s, e, q).value = IF q < n THEN vals[q] ELSE universe
         /\ EFPrev(s, EFMove(s, e, q)) = IF q = 0 THEN 0 ELSE vals[q - 1]
<1> PICK p : EFAt(vals, universe, n, e, p)
  BY DEF Somewhere
<1> PICK f : f = EFMove(s, e, q)
  OBVIOUS
<1>1. EFAt(vals, universe, n, f, q)
  BY EFMoveAt
<1>2. f.value = IF q < n THEN vals[q] ELSE universe
  BY <1>1, AtPlace DEF EFAt
<1>3. EFPrev(s, f) = IF q = 0 THEN 0 ELSE vals[q - 1]
  BY <1>1, EFPrevIs
<1> QED  BY <1>1, <1>2, <1>3

LEMMA UniformBegin ==
  ASSUME NEW n \in Nat \ {0}, NEW p, p \in 0 .. Len(UniformEnds(n)) - 1
  PROVE  /\ p * Pow2[LogPartitionSize] = PartBegin(UniformEnds(n), p)
         /\ (IF (p + 1) * Pow2[LogPartitionSize] < n THEN (p + 1) * Pow2[LogPartitionSize] ELSE n)
              = UniformEnds(n)[p + 1]
<1> PICK ends : ends = UniformEnds(n)
  OBVIOUS
<1> PICK k \in Nat \ {0} : k = Len(ends)
  BY UniformCut DEF Cuts
<1> PICK size \in Nat \ {0} : size = Pow2[LogPartitionSize]
  BY Pow2Facts, PartitionAssumption
<1>1. p + 1 \in 1 .. k
  OBVIOUS
<1>2. ends[p + 1] = IF (p + 1) * size < n THEN (p + 1) * size ELSE n
  BY <1>1, UniformCut
<1>3. p * size = PartBegin(ends, p)
  <2>1. CASE p = 0
    <3>1. 0 * size = 0
      OBVIOUS
    <3> QED  BY <2>1, <3>1 DEF PartBegin
  <2>2. CASE p # 0
    <3>1. p \in 1 .. k - 1
      BY <2>2
    <3>2. ends[p] = p * size
      BY <3>1, UniformCut
    <3> QED  BY <2>2, <3>2 DEF PartBegin
  <2> QED  BY <2>1, <2>2
<1> QED  BY <1>2, <1>3

(* SwitchPartition opens the partition as it was written, whatever was open. *)
LEMMA SwitchOpens ==
  ASSUME NEW s, NEW vals, NEW universe, NEW n, NEW ends,
         PartitionedRight(s, vals, universe, n, ends), Len(ends) > 1,
         NEW e, HasFields(e), SidesAt(s, vals, universe, n, ends, e),
         NEW p, p \in 0 .. Len(ends) - 1
  PROVE  /\ Ready(s, vals, universe, n, ends, SwitchPartition(s, e, p), p)
         /\ SwitchPartition(s, e, p).position = e.position
         /\ SwitchPartition(s, e, p).value = e.value
<1>1. /\ HoldableBits(vals, universe, n) /\ Cuts(ends, n) /\ s.uniform \in BOOLEAN
      /\ s.uniform => ends = UniformEnds(n)
      /\ s.n = n /\ n \in Nat \ {0}
      /\ PartRight(s.parts[p], vals, ends, p)
      /\ EFParts(s.sizes, Inner(ends), n, Len(ends) - 1)
      /\ EFParts(s.upper_bounds, Bounds(vals, ends), universe, Len(ends) + 1)
  BY Zenon DEF PartitionedRight, Cuts
<1> PICK k : k = Len(ends)
  OBVIOUS
<1>2. k \in Nat /\ k > 1 /\ p \in 0 .. k - 1
  BY <1>1 DEF Cuts
<1> DEFINE sizes == IF s.uniform THEN e.sizes ELSE EFMove(s.sizes, e.sizes, p)
           bounds == EFMove(s.upper_bounds, e.upper_bounds, p + 1)
<1>3. /\ EFAt(Bounds(vals, ends), universe, k + 1, bounds, p + 1)
      /\ bounds.value = vals[ends[p + 1] - 1]
      /\ EFPrev(s.upper_bounds, bounds) = IF p = 0 THEN vals[0] ELSE vals[ends[p] - 1]
  <2>1. p + 1 \in 0 .. k + 1 /\ p + 1 < k + 1 /\ p + 1 # 0 /\ (p + 1) - 1 = p /\ p + 1 \in 1 .. k
    BY <1>2
  <2>2. Somewhere(Bounds(vals, ends), universe, k + 1, e.upper_bounds)
    BY DEF SidesAt
  <2>3. Holdable(Bounds(vals, ends), universe, k + 1)
    BY <1>1, BoundsHold
  <2>4. /\ EFAt(Bounds(vals, ends), universe, k + 1, bounds, p + 1)
        /\ bounds.value = Bounds(vals, ends)[p + 1]
        /\ EFPrev(s.upper_bounds, bounds) = Bounds(vals, ends)[p]
    <3>1. /\ EFAt(Bounds(vals, ends), universe, k + 1, bounds, p + 1)
          /\ bounds.value = IF p + 1 < k + 1 THEN Bounds(vals, ends)[p + 1] ELSE universe
          /\ EFPrev(s.upper_bounds, bounds) = IF p + 1 = 0 THEN 0
                                              ELSE Bounds(vals, ends)[(p + 1) - 1]
      BY <1>1, <2>1, <2>2, <2>3, MovedSomewhere
    <3> HIDE DEF bounds
    <3> QED  BY <2>1, <3>1
  <2>5. Bounds(vals, ends)[p + 1] = vals[ends[p + 1] - 1]
    BY <1>1, <2>1, BoundsHold
  <2>6. Bounds(vals, ends)[p] = IF p = 0 THEN vals[0] ELSE vals[ends[p] - 1]
    <3>1. p # 0 => p \in 1 .. k
      BY <1>2
    <3> QED  BY <1>1, <3>1, BoundsHold
  <2> HIDE DEF bounds
  <2> QED  BY <2>4, <2>5, <2>6
<1>4. /\ ~s.uniform => EFAt(Inner(ends), n, k - 1, sizes, p)
      /\ (IF s.uniform THEN p * Pow2[LogPartitionSize] ELSE EFPrev(s.sizes, sizes))
           = PartBegin(ends, p)
      /\ (IF ~s.uniform THEN sizes.value
          ELSE IF (p + 1) * Pow2[LogPartitionSize] < s.n THEN (p + 1) * Pow2[LogPartitionSize]
          ELSE s.n) = ends[p + 1]
  <2>1. CASE s.uniform
    <3> HIDE DEF sizes
    <3> QED  BY <1>1, <1>2, <2>1, UniformBegin
  <2>2. CASE ~s.uniform
    <3>1. /\ sizes = EFMove(s.sizes, e.sizes, p)
          /\ Somewhere(Inner(ends), n, k - 1, e.sizes)
      BY <2>2 DEF SidesAt
    <3>2. Holdable(Inner(ends), n, k - 1) /\ p \in 0 .. k - 1
      BY <1>1, <1>2, InnerHolds
    <3> HIDE DEF sizes
    <3>3. /\ EFAt(Inner(ends), n, k - 1, sizes, p)
          /\ sizes.value = IF p < k - 1 THEN Inner(ends)[p] ELSE n
          /\ EFPrev(s.sizes, sizes) = IF p = 0 THEN 0 ELSE Inner(ends)[p - 1]
      BY <1>1, <3>1, <3>2, MovedSomewhere
    <3>4. sizes.value = ends[p + 1]
      <4>1. CASE p < k - 1
        <5>1. p \in 0 .. k - 2
          BY <1>2, <4>1
        <5> QED  BY <1>1, <3>3, <4>1, <5>1, InnerHolds
      <4>2. CASE ~(p < k - 1)
        <5>1. p + 1 = k
          BY <1>2, <4>2
        <5>2. ends[k] = n
          BY <1>1 DEF Cuts
        <5> QED  BY <3>3, <4>2, <5>1, <5>2
      <4> QED  BY <4>1, <4>2
    <3>5. EFPrev(s.sizes, sizes) = PartBegin(ends, p)
      <4>1. CASE p = 0
        BY <3>3, <4>1 DEF PartBegin
      <4>2. CASE p # 0
        <5>1. p - 1 \in 0 .. k - 2 /\ (p - 1) + 1 = p
          BY <1>2, <4>2
        <5>2. Inner(ends)[p - 1] = ends[(p - 1) + 1]
          BY <1>1, <5>1, InnerHolds
        <5> QED  BY <3>3, <4>2, <5>1, <5>2 DEF PartBegin
      <4> QED  BY <4>1, <4>2
    <3> QED  BY <2>2, <3>3, <3>4, <3>5
  <2> QED  BY <2>1, <2>2
<1> HIDE DEF sizes, bounds
<1> PICK g : g = [e EXCEPT !.partition = p, !.sizes = sizes, !.upper_bounds = bounds]
  OBVIOUS
<1> PICK f : f = SwitchPartition(s, e, p)
  OBVIOUS
<1>5. f = OpenPartition(s, g)
  <2>1. g = [e EXCEPT !.partition = p,
                      !.sizes = IF s.uniform THEN @ ELSE EFMove(s.sizes, @, p),
                      !.upper_bounds = EFMove(s.upper_bounds, @, p + 1)]
    BY Zenon DEF sizes, bounds
  <2> QED  BY <2>1, Zenon DEF SwitchPartition
<1>6. /\ HasFields(g) /\ g.partition = p /\ g.sizes = sizes /\ g.upper_bounds = bounds
      /\ g.position = e.position /\ g.value = e.value
  BY DEF HasFields
<1> DEFINE base == PartBase(vals, ends, p)
           w == s.parts[p]
<1>7. EFPrev(s.upper_bounds, bounds) + (IF p > 0 THEN 1 ELSE 0) = base
  <2>1. CASE p = 0
    <3>1. vals[0] \in Nat
      <4>1. 0 \in 0 .. n - 1
        BY <1>1
      <4> QED  BY <1>1, <4>1 DEF HoldableBits, Climbs
    <3>2. EFPrev(s.upper_bounds, bounds) = vals[0]
      BY <1>3, <2>1
    <3>3. ~(p > 0) /\ base = vals[0]
      BY <2>1 DEF PartBase
    <3> QED  BY <3>1, <3>2, <3>3
  <2>2. CASE p # 0
    BY <1>2, <1>3, <2>2 DEF PartBase
  <2> QED  BY <2>1, <2>2
<1>8. Open(w, vals[ends[p + 1] - 1] - base + 1, ends[p + 1] - PartBegin(ends, p)) = w
  BY <1>1 DEF PartRight, PartUniverse, PartSize
<1>9. f = [g EXCEPT !.begin = PartBegin(ends, p), !.end = ends[p + 1], !.base = base,
                    !.upper_bound = vals[ends[p + 1] - 1], !.seq = w, !.part = IndexedNew(w)]
  <2> HIDE DEF base, w
  <2> DEFINE begin == IF s.uniform THEN g.partition * Pow2[LogPartitionSize]
                      ELSE EFPrev(s.sizes, g.sizes)
             uniformEnd == (g.partition + 1) * Pow2[LogPartitionSize]
             end == IF ~s.uniform THEN g.sizes.value
                    ELSE IF uniformEnd < s.n THEN uniformEnd ELSE s.n
             bas == EFPrev(s.upper_bounds, g.upper_bounds) + (IF g.partition > 0 THEN 1 ELSE 0)
             seq == Open(s.parts[g.partition], g.upper_bounds.value - bas + 1, end - begin)
  <2>1. f = [g EXCEPT !.begin = begin, !.end = end, !.base = bas,
                      !.upper_bound = g.upper_bounds.value, !.seq = seq,
                      !.part = IndexedNew(seq)]
    BY <1>5, Zenon DEF OpenPartition
  <2>2. begin = PartBegin(ends, p) /\ end = ends[p + 1]
    BY <1>4, <1>6, Zenon
  <2>3. bas = base /\ g.upper_bounds.value = vals[ends[p + 1] - 1]
    BY <1>3, <1>6, <1>7, Zenon
  <2> HIDE DEF begin, end, bas
  <2>4. seq = w
    <3>1. seq = Open(s.parts[p], vals[ends[p + 1] - 1] - base + 1, ends[p + 1] - PartBegin(ends, p))
      BY <1>6, <2>2, <2>3, Zenon
    <3> HIDE DEF seq
    <3> QED  BY <1>8, <3>1, Zenon DEF w
  <2> HIDE DEF seq
  <2> QED  BY <2>1, <2>2, <2>3, <2>4, Zenon
<1> HIDE DEF base, w
<1>10. /\ HasFields(f) /\ f.partition = p /\ f.sizes = sizes /\ f.upper_bounds = bounds
       /\ f.position = e.position /\ f.value = e.value
       /\ f.begin = PartBegin(ends, p) /\ f.end = ends[p + 1] /\ f.base = base
       /\ f.upper_bound = vals[ends[p + 1] - 1] /\ f.seq = w /\ f.part = IndexedNew(w)
  BY <1>6, <1>9 DEF HasFields
<1>11. Opened(s, vals, ends, f, p)
  BY <1>10, Zenon DEF Opened, base, w
<1>12. PartAt(vals, ends, f.seq, f.part, p, PartSize(ends, p))
  <2>1. IndexedRight(w, Relative(vals, ends, p), PartUniverse(vals, ends, p), PartSize(ends, p))
    BY <1>1 DEF PartRight, w
  <2>2. PartAt(vals, ends, w, IndexedNew(w), p, PartSize(ends, p))
    BY <2>1, IndexedNewAt DEF PartAt
  <2> QED  BY <1>10, <2>2
<1>13. SidesAt(s, vals, universe, n, ends, f)
  BY <1>3, <1>4, <1>10, Zenon DEF SidesAt, Somewhere
<1> QED  BY <1>10, <1>11, <1>12, <1>13 DEF Ready

(* The enumerator at a position, in the partition that is open: the one that *)
(* ends after it, or the last.                                               *)
PartitionedAt(s, vals, universe, n, ends, e, position) ==
  /\ HasFields(e) /\ SidesAt(s, vals, universe, n, ends, e)
  /\ Opened(s, vals, ends, e, e.partition)
  /\ position \in e.begin .. e.end /\ (position = e.end => position = n)
  /\ PartAt(vals, ends, e.seq, e.part, e.partition, position - e.begin)
  /\ e.position = position /\ e.value = IF position < n THEN vals[position] ELSE universe

LEMMA AtReady ==
  ASSUME NEW s, NEW vals, NEW universe, NEW n, NEW ends, NEW e, NEW position,
         PartitionedAt(s, vals, universe, n, ends, e, position)
  PROVE  Ready(s, vals, universe, n, ends, e, e.partition)
BY Zenon DEF PartitionedAt, Ready

LEMMA ReadyFacts ==
  ASSUME NEW s, NEW vals, NEW universe, NEW n, NEW ends,
         PartitionedRight(s, vals, universe, n, ends),
         NEW e, NEW p, Ready(s, vals, universe, n, ends, e, p)
  PROVE  /\ n \in Nat \ {0} /\ Len(ends) \in Nat \ {0} /\ p \in 0 .. Len(ends) - 1
         /\ e.begin \in 0 .. n - 1 /\ e.end \in 1 .. n /\ e.begin < e.end
         /\ PartSize(ends, p) = e.end - e.begin
         /\ e.begin + (PartSize(ends, p) - 1) = e.end - 1
         /\ e.partition = p /\ e.base \in Nat
         /\ e.begin = PartBegin(ends, p) /\ e.end = ends[p + 1]
         /\ e.base = PartBase(vals, ends, p) /\ e.upper_bound = vals[e.end - 1]
         /\ e.upper_bound \in Nat /\ e.upper_bound < universe
         /\ e.seq = s.parts[p]
         /\ PartUniverse(vals, ends, p) = (e.upper_bound - e.base) + 1
         /\ IndexedRight(e.seq, Relative(vals, ends, p), PartUniverse(vals, ends, p),
                         PartSize(ends, p))
         /\ \A i \in 0 .. PartSize(ends, p) - 1 :
              /\ vals[e.begin + i] \in Nat /\ e.base <= vals[e.begin + i]
              /\ e.begin + i \in 0 .. n - 1
              /\ Relative(vals, ends, p)[i] = vals[e.begin + i] - e.base
         /\ s.n = n /\ s.universe = universe /\ universe \in Nat /\ s.partitions = Len(ends)
         /\ \A i \in 0 .. n - 1 : vals[i] \in Nat /\ vals[i] < universe
         /\ Climbs(vals, n)
         /\ HoldableBits(vals, universe, n) /\ Cuts(ends, n)
<1>1. /\ HoldableBits(vals, universe, n) /\ Cuts(ends, n)
      /\ s.n = n /\ s.universe = universe /\ s.partitions = Len(ends)
  BY Zenon DEF PartitionedRight
<1>2. Opened(s, vals, ends, e, p)
  BY DEF Ready
<1>3. /\ p \in 0 .. Len(ends) - 1 /\ e.partition = p
      /\ e.begin = PartBegin(ends, p) /\ e.end = ends[p + 1]
      /\ e.base = PartBase(vals, ends, p) /\ e.upper_bound = vals[e.end - 1]
      /\ e.seq = s.parts[p]
  BY <1>2, Zenon DEF Opened
<1>4. PartRight(s.parts[p], vals, ends, p)
  BY <1>3, Zenon DEF PartitionedRight
<1>5. /\ n \in Nat \ {0} /\ Len(ends) \in Nat \ {0} /\ universe \in Nat /\ Climbs(vals, n)
      /\ \A i \in 0 .. n - 1 : vals[i] \in Nat /\ vals[i] < universe
  BY <1>1 DEF HoldableBits, Holdable, Cuts, Climbs
<1>6. /\ e.begin \in 0 .. n - 1 /\ e.end \in 1 .. n /\ e.begin < e.end
      /\ PartSize(ends, p) = e.end - e.begin
  BY <1>1, <1>3, CutFacts
<1>7. /\ e.base \in Nat
      /\ \A i \in 0 .. PartSize(ends, p) - 1 :
           /\ e.begin + i \in 0 .. n - 1
           /\ vals[e.begin + i] \in Nat /\ e.base <= vals[e.begin + i]
           /\ Relative(vals, ends, p)[i] = vals[e.begin + i] - e.base
      /\ e.begin + (PartSize(ends, p) - 1) = e.end - 1
  BY <1>1, <1>3, PartFacts
<1>8. PartUniverse(vals, ends, p) = (e.upper_bound - e.base) + 1
  BY <1>3, Zenon DEF PartUniverse
<1>9. e.upper_bound \in Nat /\ e.upper_bound < universe
  <2>1. e.end - 1 \in 0 .. n - 1
    BY <1>5, <1>6
  <2> QED  BY <1>3, <1>5, <2>1
<1>10. IndexedRight(e.seq, Relative(vals, ends, p), PartUniverse(vals, ends, p),
                    PartSize(ends, p))
  BY <1>3, <1>4 DEF PartRight
<1> QED  BY <1>1, <1>3, <1>5, <1>6, <1>7, <1>8, <1>9, <1>10

LEMMA ReadyRange ==
  ASSUME NEW s, NEW vals, NEW universe, NEW n, NEW ends,
         PartitionedRight(s, vals, universe, n, ends),
         NEW e, NEW p, Ready(s, vals, universe, n, ends, e, p)
  PROVE  /\ e.begin = PartBegin(ends, p) /\ e.end = ends[p + 1]
         /\ e.begin \in 0 .. n - 1 /\ e.end \in 1 .. n
BY ReadyFacts

LEMMA ReadyHeader ==
  ASSUME NEW s, NEW vals, NEW universe, NEW n, NEW ends,
         PartitionedRight(s, vals, universe, n, ends),
         NEW e, NEW p, Ready(s, vals, universe, n, ends, e, p)
  PROVE  /\ n \in Nat \ {0} /\ Len(ends) \in Nat \ {0} /\ p \in 0 .. Len(ends) - 1
         /\ s.n = n /\ s.partitions = Len(ends) /\ e.partition = p
         /\ HoldableBits(vals, universe, n) /\ Cuts(ends, n) /\ Climbs(vals, n)
BY ReadyFacts

LEMMA ReadyBounds ==
  ASSUME NEW s, NEW vals, NEW universe, NEW n, NEW ends,
         PartitionedRight(s, vals, universe, n, ends),
         NEW e, NEW p, Ready(s, vals, universe, n, ends, e, p)
  PROVE  /\ e.base \in Nat /\ e.upper_bound \in Nat
         /\ e.base = PartBase(vals, ends, p) /\ e.upper_bound = vals[ends[p + 1] - 1]
<1>1. Opened(s, vals, ends, e, p)
  BY DEF Ready
<1>2. e.base \in Nat /\ e.upper_bound \in Nat
  BY ReadyFacts
<1> QED  BY <1>1, <1>2 DEF Opened

LEMMA ReadyPart ==
  ASSUME NEW s, NEW vals, NEW universe, NEW n, NEW ends,
         PartitionedRight(s, vals, universe, n, ends),
         NEW e, NEW p, Ready(s, vals, universe, n, ends, e, p)
  PROVE  IndexedRight(e.seq, Relative(vals, ends, p), PartUniverse(vals, ends, p),
                      PartSize(ends, p))
BY ReadyFacts

LEMMA ReadyValues ==
  ASSUME NEW s, NEW vals, NEW universe, NEW n, NEW ends,
         PartitionedRight(s, vals, universe, n, ends),
         NEW e, NEW p, Ready(s, vals, universe, n, ends, e, p),
         NEW i, i \in 0 .. PartSize(ends, p) - 1
  PROVE  /\ vals[e.begin + i] \in Nat /\ e.base <= vals[e.begin + i]
         /\ e.begin + i \in 0 .. n - 1
         /\ Relative(vals, ends, p)[i] = vals[e.begin + i] - e.base
BY ReadyFacts

LEMMA Offset ==
  ASSUME NEW base \in Nat, NEW ub \in Nat, NEW bound \in base .. ub
  PROVE  /\ bound \in Nat /\ bound \in Int /\ base \in Int /\ base <= bound /\ bound <= ub
         /\ bound - base \in Nat /\ bound - base \in Int /\ bound - base <= (ub - base) + 1
         /\ bound = base + (bound - base)
OBVIOUS

LEMMA OneLess ==
  ASSUME NEW n \in Nat, NEW a \in 1 .. n, NEW b \in 1 .. n, a < b
  PROVE  b - 1 \in 0 .. n - 1 /\ a - 1 \in 0 .. n - 1 /\ a - 1 < b - 1
OBVIOUS

LEMMA SameShift ==
  ASSUME NEW v \in Int, NEW base \in Int, NEW bound \in Int
  PROVE  v - base < bound - base <=> v < bound
OBVIOUS

(* The position and the value that the method returns are set from those of  *)
(* the partition.                                                            *)
LEMMA InPartAt ==
  ASSUME NEW s, NEW vals, NEW universe, NEW n, NEW ends,
         PartitionedRight(s, vals, universe, n, ends),
         NEW e, NEW p, Ready(s, vals, universe, n, ends, e, p),
         NEW part, NEW k, k \in 0 .. PartSize(ends, p) - 1, PartAt(vals, ends, e.seq, part, p, k)
  PROVE  PartitionedAt(s, vals, universe, n, ends, InPart(e, e.begin + k, part), e.begin + k)
<1> PICK rel, size, begin, position :
      /\ rel = Relative(vals, ends, p) /\ size = PartSize(ends, p)
      /\ begin = e.begin /\ position = begin + k
  OBVIOUS
<1>1. /\ begin \in Nat /\ e.end \in Nat /\ n \in Nat /\ e.end <= n /\ size = e.end - begin
      /\ e.base \in Nat
      /\ vals[position] \in Nat /\ e.base <= vals[position] /\ position \in 0 .. n - 1
      /\ rel[k] = vals[position] - e.base /\ e.partition = p
  BY ReadyFacts
<1>2. k \in Nat /\ k < size /\ size \in Nat
  BY <1>1
<1>3. position \in begin .. e.end /\ position # e.end /\ position - begin = k /\ position < n
  <2> PICK end \in Nat : end = e.end
    BY <1>1
  <2>1. position = begin + k /\ k < end - begin /\ end <= n
    BY <1>1, <1>2
  <2> QED  BY <1>1, <1>2, <2>1
<1>4. IndexedRight(e.seq, rel, PartUniverse(vals, ends, p), size)
  BY ReadyFacts
<1>5. IndexedValue(e.seq, part) = rel[k]
  <2>1. IndexedValue(e.seq, part) = IF k < size THEN rel[k]
                                    ELSE PartUniverse(vals, ends, p)
                                           + (IF IsStrictEF(e.seq) THEN 1 ELSE 0)
    BY <1>4, IndexedPlace DEF PartAt
  <2> QED  BY <1>2, <2>1
<1>6. e.base + IndexedValue(e.seq, part) = vals[position]
  <2> PICK v \in Nat : v = vals[position]
    BY <1>1
  <2> QED  BY <1>1, <1>5
<1> PICK f : f = InPart(e, position, part)
  OBVIOUS
<1> PICK v : v = vals[position]
  OBVIOUS
<1>7. f = [e EXCEPT !.position = position, !.part = part, !.value = v]
  BY <1>6, Zenon DEF InPart
<1>8. HasFields(e)
  BY DEF Ready
<1>9. /\ HasFields(f) /\ f.position = position /\ f.part = part /\ f.value = v
      /\ f.partition = e.partition /\ f.begin = e.begin /\ f.end = e.end /\ f.base = e.base
      /\ f.upper_bound = e.upper_bound /\ f.sizes = e.sizes /\ f.upper_bounds = e.upper_bounds
      /\ f.seq = e.seq
  BY <1>7, <1>8 DEF HasFields
<1>10. SidesAt(s, vals, universe, n, ends, f)
  BY <1>9, Zenon DEF SidesAt, Ready
<1>11. Opened(s, vals, ends, f, f.partition)
  BY <1>1, <1>9, Zenon DEF Opened, Ready
<1>12. PartAt(vals, ends, f.seq, f.part, f.partition, position - f.begin)
  BY <1>1, <1>3, <1>9
<1>13. PartitionedAt(s, vals, universe, n, ends, f, position)
  BY <1>3, <1>9, <1>10, <1>11, <1>12 DEF PartitionedAt
<1> QED  BY <1>13

LEMMA MoveInPartAt ==
  ASSUME NEW s, NEW vals, NEW universe, NEW n, NEW ends,
         PartitionedRight(s, vals, universe, n, ends),
         NEW e, NEW p, Ready(s, vals, universe, n, ends, e, p),
         NEW position, position \in e.begin .. e.end - 1
  PROVE  PartitionedAt(s, vals, universe, n, ends, MoveInPart(e, position), position)
<1> PICK size : size = PartSize(ends, p)
  OBVIOUS
<1>1. e.begin \in Nat /\ e.end \in Nat /\ size = e.end - e.begin
  BY ReadyFacts
<1> PICK k : k = position - e.begin
  OBVIOUS
<1>2. k \in 0 .. size - 1 /\ k \in 0 .. size /\ e.begin + k = position
  BY <1>1
<1>3. PICK j : PartAt(vals, ends, e.seq, e.part, p, j)
  BY DEF Ready
<1>4. PartAt(vals, ends, e.seq, IndexedMove(e.seq, e.part, k), p, k)
  BY <1>2, <1>3, IndexedMoveAt, ReadyFacts DEF PartAt
<1>5. MoveInPart(e, position) = InPart(e, e.begin + k, IndexedMove(e.seq, e.part, k))
  BY <1>2, Zenon DEF MoveInPart
<1>6. PartitionedAt(s, vals, universe, n, ends,
                    InPart(e, e.begin + k, IndexedMove(e.seq, e.part, k)), e.begin + k)
  BY <1>2, <1>4, InPartAt
<1> QED  BY <1>2, <1>5, <1>6

(* After the last value, the partition after its last too.                   *)
LEMMA AtLast ==
  ASSUME NEW s, NEW vals, NEW universe, NEW n, NEW ends,
         PartitionedRight(s, vals, universe, n, ends),
         NEW e, NEW p, Ready(s, vals, universe, n, ends, e, p), e.end = n,
         NEW part, PartAt(vals, ends, e.seq, part, p, PartSize(ends, p))
  PROVE  PartitionedAt(s, vals, universe, n, ends,
                       [e EXCEPT !.position = n, !.value = universe, !.part = part], n)
<1> PICK f : f = [e EXCEPT !.position = n, !.value = universe, !.part = part]
  OBVIOUS
<1>1. /\ n \in Nat /\ e.begin \in 0 .. n - 1 /\ PartSize(ends, p) = n - e.begin
      /\ e.partition = p
  BY ReadyFacts
<1>2. n \in e.begin .. n /\ ~(n < n)
  BY <1>1
<1>8. HasFields(e)
  BY DEF Ready
<1>9. /\ HasFields(f) /\ f.position = n /\ f.part = part /\ f.value = universe
      /\ f.partition = e.partition /\ f.begin = e.begin /\ f.end = e.end /\ f.base = e.base
      /\ f.upper_bound = e.upper_bound /\ f.sizes = e.sizes /\ f.upper_bounds = e.upper_bounds
      /\ f.seq = e.seq
  BY <1>8 DEF HasFields
<1>10. SidesAt(s, vals, universe, n, ends, f)
  BY <1>9, Zenon DEF SidesAt, Ready
<1>11. Opened(s, vals, ends, f, f.partition)
  BY <1>1, <1>9, Zenon DEF Opened, Ready
<1>12. PartAt(vals, ends, f.seq, f.part, f.partition, n - f.begin)
  BY <1>1, <1>9
<1>13. PartitionedAt(s, vals, universe, n, ends, f, n)
  BY <1>2, <1>9, <1>10, <1>11, <1>12 DEF PartitionedAt
<1> QED  BY <1>13

LEMMA PastLastAt ==
  ASSUME NEW s, NEW vals, NEW universe, NEW n, NEW ends,
         PartitionedRight(s, vals, universe, n, ends),
         NEW e, Ready(s, vals, universe, n, ends, e, Len(ends) - 1)
  PROVE  PartitionedAt(s, vals, universe, n, ends, PastLast(s, e), n)
<1> PICK k : k = Len(ends)
  OBVIOUS
<1> PICK p : p = k - 1
  OBVIOUS
<1>1. /\ k \in Nat \ {0} /\ ends[k] = n /\ e.end = ends[p + 1]
      /\ PartSize(ends, p) = e.end - e.begin /\ s.n = n /\ s.universe = universe
      /\ PartSize(ends, p) \in 1 .. n
  BY ReadyFacts, CutFacts DEF Cuts
<1>2. e.end = n
  BY <1>1
<1>3. PICK j : PartAt(vals, ends, e.seq, e.part, p, j)
  BY DEF Ready
<1> PICK part : part = IndexedMove(e.seq, e.part, e.end - e.begin)
  OBVIOUS
<1>4. PartAt(vals, ends, e.seq, part, p, PartSize(ends, p))
  <2>1. PartSize(ends, p) \in 0 .. PartSize(ends, p)
    <3> PICK m : m = PartSize(ends, p)
      OBVIOUS
    <3>1. m \in 1 .. n /\ n \in Nat
      BY <1>1, ReadyFacts
    <3>2. m \in 0 .. m
      BY <3>1
    <3> QED  BY <3>2
  <2> QED  BY <1>1, <1>3, <2>1, IndexedMoveAt, ReadyFacts DEF PartAt
<1>5. PastLast(s, e) = [e EXCEPT !.position = n, !.value = universe, !.part = part]
  BY <1>1, Zenon DEF PastLast
<1>6. Ready(s, vals, universe, n, ends, e, p)
  BY Zenon
<1>7. PartitionedAt(s, vals, universe, n, ends,
                    [e EXCEPT !.position = n, !.value = universe, !.part = part], n)
  BY <1>2, <1>4, <1>6, AtLast
<1> QED  BY <1>5, <1>7, Zenon
-----------------------------------------------------------------------------
(* The methods.                                                              *)

(* The partition that is found is the one that has the position.             *)
LEMMA PartOfPosition ==
  ASSUME NEW ends, NEW n, Cuts(ends, n), Len(ends) > 1, NEW position, position \in 0 .. n - 1,
         NEW r, FirstAtLeast(Inner(ends), Len(ends) - 1, position + 1, r)
  PROVE  /\ r \in 0 .. Len(ends) - 1
         /\ PartBegin(ends, r) <= position /\ position < ends[r + 1]
<1> PICK k \in Nat : k = Len(ends)
  BY DEF Cuts
<1>1. /\ k > 1 /\ n \in Nat \ {0} /\ ends[k] = n /\ \A p \in 1 .. k : ends[p] \in 1 .. n
  BY DEF Cuts
<1>2. /\ r \in 0 .. k - 1
      /\ \A i \in 0 .. k - 2 : i < r <=> ends[i + 1] < position + 1
  <2>1. \A i \in 0 .. k - 2 : Inner(ends)[i] = ends[i + 1]
    BY InnerHolds
  <2>2. (k - 1) - 1 = k - 2
    BY <1>1
  <2>3. /\ r \in 0 .. k - 1
        /\ \A i \in 0 .. (k - 1) - 1 : i < r <=> Inner(ends)[i] < position + 1
    BY DEF FirstAtLeast
  <2> QED  BY <2>1, <2>2, <2>3
<1>3. PartBegin(ends, r) <= position
  <2>1. CASE r = 0
    BY <1>1, <2>1 DEF PartBegin
  <2>2. CASE r # 0
    <3>1. r - 1 \in 0 .. k - 2 /\ r - 1 < r /\ (r - 1) + 1 = r /\ r \in 1 .. k
      BY <1>1, <1>2, <2>2
    <3>2. ends[(r - 1) + 1] < position + 1
      BY <1>2, <3>1
    <3>3. ends[r] < position + 1 /\ ends[r] \in Nat
      BY <1>1, <3>1, <3>2
    <3> QED  BY <1>1, <2>2, <3>3 DEF PartBegin
  <2> QED  BY <2>1, <2>2
<1>4. position < ends[r + 1]
  <2>1. CASE r = k - 1
    <3>1. r + 1 = k
      BY <1>1, <2>1
    <3> QED  BY <1>1, <3>1
  <2>2. CASE r # k - 1
    <3>1. r \in 0 .. k - 2 /\ r + 1 \in 1 .. k /\ ~(r < r)
      BY <1>1, <1>2, <2>2
    <3>2. ~(ends[r + 1] < position + 1) /\ ends[r + 1] \in Nat
      BY <1>1, <1>2, <3>1
    <3> QED  BY <1>1, <3>2
  <2> QED  BY <2>1, <2>2
<1> QED  BY <1>2, <1>3, <1>4

(* Of values that increase, the one that is the bound is the first that is   *)
(* not below it: next_geq, which then stays, leads there too.                *)
LEMMA EFNextGeqFirst ==
  ASSUME NEW vals, NEW universe, NEW n, Holdable(vals, universe, n), Climbs(vals, n),
         NEW s, EFParts(s, vals, universe, n), NEW e, Somewhere(vals, universe, n, e),
         NEW bound \in Nat, bound <= universe, NEW q, FirstAtLeast(vals, n, bound, q)
  PROVE  EFAt(vals, universe, n, EFNextGeq(s, e, bound), q)
<1> PICK p : EFAt(vals, universe, n, e, p)
  BY DEF Somewhere
<1>1. EFAt(vals, universe, n, EFNextGeq(s, e, bound), IF e.value = bound THEN p ELSE q)
  BY EFNextGeqAt
<1>2. p \in 0 .. n /\ e.value = IF p < n THEN vals[p] ELSE universe
  BY AtPlace DEF EFAt
<1>3. n \in Nat /\ \A i \in 0 .. n - 1 : vals[i] < universe
  BY DEF Holdable
<1>4. ASSUME e.value = bound  PROVE p = q
  <2>1. FirstAtLeast(vals, n, bound, p)
    <3>1. CASE p < n
      <4>1. p \in 0 .. n - 1 /\ bound = vals[p]
        BY <1>2, <1>3, <1>4, <3>1
      <4> QED  BY <4>1, FirstGeqOwn
    <3>2. CASE ~(p < n)
      <4>1. p = n /\ bound = universe
        BY <1>2, <1>3, <1>4, <3>2
      <4> QED  BY <1>3, <4>1 DEF FirstAtLeast
    <3> QED  BY <3>1, <3>2
  <2> QED  BY <1>3, <2>1, FirstGeqUnique
<1> QED  BY <1>1, <1>4

LEMMA UniformPart ==
  ASSUME NEW n \in Nat \ {0}, NEW position, position \in 0 .. n - 1
  PROVE  LET ends == UniformEnds(n)
             r == Shr(position, LogPartitionSize)
         IN /\ r \in 0 .. Len(ends) - 1
            /\ PartBegin(ends, r) <= position /\ position < ends[r + 1]
<1> PICK ends, r : ends = UniformEnds(n) /\ r = Shr(position, LogPartitionSize)
  OBVIOUS
<1> PICK k \in Nat \ {0} : k = Len(ends)
  BY UniformCut DEF Cuts
<1> PICK size \in Nat \ {0} : size = Pow2[LogPartitionSize]
  BY Pow2Facts, PartitionAssumption
<1>1. r \in Nat /\ r * size \in Nat /\ r * size <= position /\ position < r * size + size
  <2>1. position \in Nat /\ LogPartitionSize \in Nat
    BY PartitionAssumption
  <2>2. /\ Shr(position, LogPartitionSize) \in Nat
        /\ Shr(position, LogPartitionSize) * Pow2[LogPartitionSize] \in Nat
        /\ Shr(position, LogPartitionSize) * Pow2[LogPartitionSize] <= position
        /\ position < Shr(position, LogPartitionSize) * Pow2[LogPartitionSize]
                         + Pow2[LogPartitionSize]
    BY <2>1, ShrFacts
  <2> QED  BY <2>2, Zenon
<1>2. (r + 1) * size = (r * size) + size
  <2>1. r \in Int /\ size \in Int
    BY <1>1
  <2> QED  BY <2>1, NextMultiple
<1>3. r \in 0 .. k - 1
  <2> SUFFICES ASSUME ~(r <= k - 1)  PROVE FALSE
    BY <1>1
  <2>1. k \in 1 .. k /\ k <= r
    BY <1>1, SMTT(30)
  <2>2. ends[k] = n /\ ends[k] = IF k * size < n THEN k * size ELSE n
    BY <2>1, UniformCut DEF Cuts
  <2>3. k * size \in Nat /\ ~(k * size < n)
    <3>1. k * size \in Nat
      OBVIOUS
    <3> QED  BY <2>2, <3>1
  <2>4. k * size <= r * size
    <3>1. CASE k = r
      BY <1>1, <3>1
    <3>2. CASE k < r
      <4>1. size * k + size <= size * r
        <5>1. k \in Int /\ r \in Int
          BY <1>1
        <5> QED  BY <3>2, <5>1, TimesGrows
      <4>2. size * k = k * size /\ size * r = r * size
        BY <1>1, SMTT(40)
      <4> PICK a \in Nat, b \in Nat : a = k * size /\ b = r * size
        BY <1>1, <2>3
      <4>3. a + size <= b
        BY <4>1, <4>2
      <4> QED  BY <4>3, SMTT(40)
    <3> QED  BY <1>1, <2>1, <3>1, <3>2
  <2> PICK a \in Nat, b \in Nat : a = k * size /\ b = r * size
    BY <1>1, <2>3
  <2> QED  BY <1>1, <2>3, <2>4, SMTT(30)
<1>4. r * size = PartBegin(ends, r)
  BY <1>3, UniformBegin
<1>5. ends[r + 1] = IF (r + 1) * size < n THEN (r + 1) * size ELSE n
  BY <1>3, UniformBegin
<1>6. position < ends[r + 1]
  <2>1. position < (r + 1) * size /\ position < n
    BY <1>1, <1>2
  <2> QED  BY <1>5, <2>1
<1>7. PartBegin(ends, r) <= position
  BY <1>1, <1>4
<1> QED  BY <1>3, <1>6, <1>7

LEMMA PartitionOfFinds ==
  ASSUME NEW s, NEW vals, NEW universe, NEW n, NEW ends,
         PartitionedRight(s, vals, universe, n, ends), Len(ends) > 1,
         NEW e, SidesAt(s, vals, universe, n, ends, e),
         NEW position, position \in 0 .. n - 1
  PROVE  LET found == PartitionOf(s, e, position)
             r == found.partition
         IN /\ r \in 0 .. Len(ends) - 1
            /\ PartBegin(ends, r) <= position /\ position < ends[r + 1]
            /\ s.uniform \/ Somewhere(Inner(ends), n, Len(ends) - 1, found.sizes)
<1>1. /\ Cuts(ends, n) /\ s.uniform \in BOOLEAN /\ (s.uniform => ends = UniformEnds(n))
      /\ n \in Nat \ {0}
      /\ EFParts(s.sizes, Inner(ends), n, Len(ends) - 1)
  BY Zenon DEF PartitionedRight, Cuts
<1> PICK found : found = PartitionOf(s, e, position)
  OBVIOUS
<1>2. CASE s.uniform
  <2>1. found = [sizes |-> e.sizes, partition |-> Shr(position, LogPartitionSize)]
    BY <1>2, Zenon DEF PartitionOf
  <2>2. found.partition = Shr(position, LogPartitionSize)
    BY <2>1
  <2> QED  BY <1>1, <1>2, <2>2, UniformPart
<1>3. CASE ~s.uniform
  <2> PICK k : k = Len(ends)
    OBVIOUS
  <2> PICK sizes : sizes = EFNextGeq(s.sizes, e.sizes, position + 1)
    OBVIOUS
  <2>1. found = [sizes |-> sizes, partition |-> sizes.position]
    BY <1>3, Zenon DEF PartitionOf
  <2>2. found.partition = sizes.position /\ found.sizes = sizes
    BY <2>1
  <2>3. position + 1 \in Nat /\ position + 1 <= n /\ position + 1 \in Int
    BY <1>1
  <2>4. Holdable(Inner(ends), n, k - 1) /\ Climbs(Inner(ends), k - 1)
    BY <1>1, InnerHolds
  <2>5. PICK r : FirstAtLeast(Inner(ends), k - 1, position + 1, r)
    BY <2>3, <2>4, ClimbsRises, FirstAtLeastExists
  <2>6. Somewhere(Inner(ends), n, k - 1, e.sizes)
    BY <1>3 DEF SidesAt
  <2>7. EFAt(Inner(ends), n, k - 1, sizes, r)
    BY <1>1, <2>3, <2>4, <2>5, <2>6, EFNextGeqFirst
  <2>8. sizes.position = r
    BY <2>7, AtPlace DEF EFAt
  <2>9. /\ r \in 0 .. Len(ends) - 1
        /\ PartBegin(ends, r) <= position /\ position < ends[r + 1]
    BY <1>1, <2>5, PartOfPosition
  <2>10. Somewhere(Inner(ends), n, k - 1, sizes)
    BY <2>7 DEF Somewhere
  <2> QED  BY <2>2, <2>8, <2>9, <2>10
<1> QED  BY <1>1, <1>2, <1>3

(* From any partition that is open, move() leads to the value that was       *)
(* written at the position.                                                  *)
LEMMA PartitionedMoveAt ==
  ASSUME NEW s, NEW vals, NEW universe, NEW n, NEW ends,
         PartitionedRight(s, vals, universe, n, ends),
         NEW e, NEW p, Ready(s, vals, universe, n, ends, e, p),
         NEW position, position \in 0 .. n
  PROVE  PartitionedAt(s, vals, universe, n, ends, PartitionedMove(s, e, position), position)
<1> PICK k : k = Len(ends)
  OBVIOUS
<1>1. /\ n \in Nat \ {0} /\ k \in Nat \ {0} /\ s.n = n /\ s.partitions = k
      /\ p \in 0 .. k - 1 /\ e.begin \in 0 .. n - 1 /\ e.end \in 1 .. n
      /\ Cuts(ends, n) /\ e.begin = PartBegin(ends, p) /\ e.end = ends[p + 1]
      /\ HasFields(e) /\ SidesAt(s, vals, universe, n, ends, e)
  BY ReadyFacts, SMTT(40) DEF Ready
<1>2. CASE position \in e.begin .. e.end - 1
  <2>1. PartitionedMove(s, e, position) = MoveInPart(e, position)
    BY <1>2, Zenon DEF PartitionedMove
  <2> QED  BY <1>2, <2>1, MoveInPartAt
<1>3. CASE position \notin e.begin .. e.end - 1 /\ position = n
  <2>1. PartitionedMove(s, e, position) = MoveToEnd(s, e)
    BY <1>1, <1>3, Zenon DEF PartitionedMove
  <2>2. CASE k > 1
    <3>1. PartitionedMove(s, e, position) = PastLast(s, SwitchPartition(s, e, k - 1))
      BY <1>1, <2>1, <2>2, Zenon DEF MoveToEnd
    <3>2. k - 1 \in 0 .. k - 1
      BY <1>1
    <3>3. Ready(s, vals, universe, n, ends, SwitchPartition(s, e, k - 1), k - 1)
      BY <1>1, <2>2, <3>2, SwitchOpens
    <3> QED  BY <1>3, <3>1, <3>3, PastLastAt
  <2>3. CASE ~(k > 1)
    <3>1. PartitionedMove(s, e, position) = PastLast(s, e)
      BY <1>1, <2>1, <2>3, Zenon DEF MoveToEnd
    <3>2. p = k - 1
      BY <1>1, <2>3
    <3>3. Ready(s, vals, universe, n, ends, e, k - 1)
      BY <3>2, Zenon
    <3> QED  BY <1>3, <3>1, <3>3, PastLastAt
  <2> QED  BY <2>2, <2>3
<1>4. CASE position \notin e.begin .. e.end - 1 /\ position # n
  <2>1. position \in 0 .. n - 1
    BY <1>1, <1>4
  <2>2. k > 1
    <3> SUFFICES ASSUME k = 1  PROVE FALSE
      BY <1>1
    <3>1. p = 0 /\ p + 1 = k
      BY <1>1
    <3>2. e.begin = 0 /\ e.end = n
      BY <1>1, <3>1 DEF PartBegin, Cuts
    <3> QED  BY <1>1, <1>4, <2>1, <3>2
  <2> PICK found : found = PartitionOf(s, e, position)
    OBVIOUS
  <2> PICK r : r = found.partition
    OBVIOUS
  <2>3. /\ r \in 0 .. k - 1 /\ PartBegin(ends, r) <= position /\ position < ends[r + 1]
        /\ s.uniform \/ Somewhere(Inner(ends), n, k - 1, found.sizes)
    BY <1>1, <2>1, <2>2, PartitionOfFinds
  <2> PICK f : f = [e EXCEPT !.sizes = found.sizes]
    OBVIOUS
  <2>4. HasFields(f) /\ f.sizes = found.sizes /\ f.upper_bounds = e.upper_bounds
    BY <1>1 DEF HasFields
  <2>5. SidesAt(s, vals, universe, n, ends, f)
    BY <1>1, <2>3, <2>4, Zenon DEF SidesAt
  <2> PICK g : g = SwitchPartition(s, f, r)
    OBVIOUS
  <2>6. Ready(s, vals, universe, n, ends, g, r)
    BY <2>2, <2>3, <2>4, <2>5, SwitchOpens
  <2>7. position \in g.begin .. g.end - 1
    <3>1. /\ g.begin = PartBegin(ends, r) /\ g.end = ends[r + 1]
          /\ g.begin \in 0 .. n - 1 /\ g.end \in 1 .. n
      BY <2>6, ReadyRange
    <3> QED  BY <1>1, <2>1, <2>3, <3>1
  <2>8. PartitionedMove(s, e, position) = MoveInPart(g, position)
    BY <1>1, <1>4, Zenon DEF PartitionedMove
  <2> QED  BY <2>6, <2>7, <2>8, MoveInPartAt
<1> QED  BY <1>2, <1>3, <1>4

LEMMA PartitionedNextAt ==
  ASSUME NEW s, NEW vals, NEW universe, NEW n, NEW ends,
         PartitionedRight(s, vals, universe, n, ends),
         NEW e, NEW position, PartitionedAt(s, vals, universe, n, ends, e, position),
         position < n
  PROVE  PartitionedAt(s, vals, universe, n, ends, PartitionedNext(s, e), position + 1)
<1> PICK p : p = e.partition
  OBVIOUS
<1>1. Ready(s, vals, universe, n, ends, e, p)
  BY AtReady
<1> PICK k, begin, end, size : k = Len(ends) /\ begin = e.begin /\ end = e.end
                               /\ size = PartSize(ends, p)
  OBVIOUS
<1>2. /\ n \in Nat \ {0} /\ k \in Nat \ {0} /\ s.n = n /\ s.partitions = k /\ s.universe = universe
      /\ p \in 0 .. k - 1 /\ begin \in 0 .. n - 1 /\ end \in 1 .. n
      /\ Cuts(ends, n) /\ begin = PartBegin(ends, p) /\ end = ends[p + 1] /\ size = end - begin
  BY <1>1, ReadyFacts
<1>3. HasFields(e) /\ SidesAt(s, vals, universe, n, ends, e)
  BY <1>1 DEF Ready
<1> PICK j : j = position - begin
  OBVIOUS
<1>4. /\ position \in begin .. end /\ (position = end => position = n)
      /\ PartAt(vals, ends, e.seq, e.part, p, j) /\ e.position = position
  BY DEF PartitionedAt
<1>5. /\ position \in Nat /\ position < end /\ begin \in Nat /\ end \in Nat /\ end <= n
      /\ size \in Nat /\ size = end - begin /\ position = begin + j
      /\ j \in Nat /\ j < size
  <2>1. n \in Nat /\ begin \in Nat /\ end \in Nat /\ end <= n /\ begin < n
    BY <1>2, SMTT(40)
  <2>2. position \in begin .. end /\ position # end
    BY <1>2, <1>4
  <2>3. position \in Nat /\ position < end /\ begin <= position
    BY <2>1, <2>2
  <2>4. size = end - begin
    BY <1>2
  <2> QED  BY <2>1, <2>3, <2>4, SMTT(40)
<1>10. j \in 0 .. size - 1 /\ begin + (j + 1) = position + 1
  BY <1>5
<1> PICK part : part = IndexedNext(e.seq, e.part)
  OBVIOUS
<1>6. PartAt(vals, ends, e.seq, part, p, j + 1)
  BY <1>1, <1>4, <1>5, <1>10, IndexedNextAt, ReadyFacts DEF PartAt
<1>7. CASE position + 1 < end
  <2>1. PartitionedNext(s, e) = InPart(e, e.begin + (j + 1), part)
    BY <1>4, <1>7, <1>10, Zenon DEF PartitionedNext
  <2>2. j + 1 \in 0 .. size - 1
    <3>1. (begin + j) + 1 < end
      BY <1>5, <1>7
    <3>2. j + 1 < end - begin
      BY <1>5, <3>1, SMTT(40)
    <3>3. j + 1 < size
      BY <1>5, <3>2
    <3> QED  BY <1>5, <3>3, SMTT(40)
  <2>3. PartitionedAt(s, vals, universe, n, ends, InPart(e, e.begin + (j + 1), part), e.begin + (j + 1))
    BY <1>1, <1>6, <2>2, InPartAt
  <2> QED  BY <1>10, <2>1, <2>3, Zenon
<1>8. CASE ~(position + 1 < end) /\ position + 1 = n
  <2>1. PartitionedNext(s, e) = [e EXCEPT !.position = n, !.value = universe, !.part = part]
    BY <1>2, <1>4, <1>8, Zenon DEF PartitionedNext
  <2>2. j + 1 = size /\ end = n
    <3>1. position \in Nat /\ position < end /\ end \in Nat /\ end <= n /\ begin \in Nat /\ j \in Nat
      BY <1>5, Zenon
    <3>2. position + 1 = end /\ end = n
      BY <1>8, <3>1
    <3>3. (begin + j) + 1 = end
      BY <1>5, <3>2, Zenon
    <3>4. j + 1 = end - begin
      BY <3>1, <3>3
    <3> QED  BY <1>5, <3>2, <3>4, Zenon
  <2>3. PartAt(vals, ends, e.seq, part, p, PartSize(ends, p)) /\ e.end = n
    BY <1>6, <2>2, Zenon
  <2>4. PartitionedAt(s, vals, universe, n, ends,
                      [e EXCEPT !.position = n, !.value = universe, !.part = part], n)
    BY <1>1, <2>3, AtLast
  <2> QED  BY <1>8, <2>1, <2>4, Zenon
<1>9. CASE ~(position + 1 < end) /\ position + 1 # n
  <2>1. position + 1 = end /\ end < n
    <3>1. position + 1 = end
      BY <1>5, <1>9, SMTT(40)
    <3>2. position + 1 <= n /\ position + 1 # n
      BY <1>2, <1>5, <1>9
    <3> QED  BY <1>2, <1>5, <3>1, <3>2, SMTT(40)
  <2>2. p + 1 \in 0 .. k - 1 /\ k > 1
    <3>1. p + 1 # k
      BY <1>2, <2>1, SMTT(40) DEF Cuts
    <3> QED  BY <1>2, <3>1
  <2> PICK g : g = SwitchPartition(s, e, p + 1)
    OBVIOUS
  <2>3. Ready(s, vals, universe, n, ends, g, p + 1)
    BY <1>3, <2>2, SwitchOpens
  <2>4. g.begin = end /\ PartSize(ends, p + 1) \in 1 .. n
    <3>1. g.begin = PartBegin(ends, p + 1) /\ p + 1 # 0
      BY <1>2, <2>3, ReadyFacts, SMTT(40)
    <3> QED  BY <1>2, <2>2, <3>1, CutFacts DEF PartBegin
  <2> PICK h : h = IndexedMove(g.seq, g.part, 0)
    OBVIOUS
  <2>5. PICK i : PartAt(vals, ends, g.seq, g.part, p + 1, i)
    BY <2>3 DEF Ready
  <2>6. 0 \in 0 .. PartSize(ends, p + 1) /\ 0 \in 0 .. PartSize(ends, p + 1) - 1
    <3> PICK m : m = PartSize(ends, p + 1)
      OBVIOUS
    <3>1. m \in 1 .. n
      BY <2>4
    <3>2. 0 \in 0 .. m /\ 0 \in 0 .. m - 1
      BY <1>2, <3>1
    <3> QED  BY <3>2
  <2>7. PartAt(vals, ends, g.seq, h, p + 1, 0)
    <3> PICK r : r = p + 1
      OBVIOUS
    <3>1. IndexedRight(g.seq, Relative(vals, ends, r), PartUniverse(vals, ends, r), PartSize(ends, r))
      BY <2>3, ReadyPart
    <3>2. PartAt(vals, ends, g.seq, h, r, 0)
      BY <2>5, <2>6, <3>1, IndexedMoveAt DEF PartAt
    <3> QED  BY <3>2
  <2>8. PartitionedAt(s, vals, universe, n, ends, InPart(g, g.begin + 0, h), g.begin + 0)
    BY <2>3, <2>6, <2>7, InPartAt
  <2>9. g.begin + 0 = position + 1
    BY <1>2, <2>1, <2>4
  <2>10. PartitionedNext(s, e) = InPart(g, position + 1, h)
    BY <1>2, <1>4, <1>9, Zenon DEF PartitionedNext
  <2> QED  BY <2>8, <2>9, <2>10, Zenon
<1> QED  BY <1>7, <1>8, <1>9

(* Inside the bounds of the partition that is open, its next_geq leads to    *)
(* the first value of the sequence that is not below the bound.              *)
LEMMA NextGeqInPartAt ==
  ASSUME NEW s, NEW vals, NEW universe, NEW n, NEW ends,
         PartitionedRight(s, vals, universe, n, ends),
         \A p \in 0 .. Len(ends) - 1 : ~s.parts[p].strict,
         NEW e, NEW p, Ready(s, vals, universe, n, ends, e, p),
         NEW bound, bound \in e.base .. e.upper_bound, NEW q, FirstAtLeast(vals, n, bound, q)
  PROVE  PartitionedAt(s, vals, universe, n, ends, NextGeqInPart(e, bound), q)
<1> PICK begin, end, size, base, rel, ub :
      /\ begin = e.begin /\ end = e.end /\ size = PartSize(ends, p) /\ base = e.base
      /\ rel = Relative(vals, ends, p) /\ ub = e.upper_bound
  OBVIOUS
<1>1. /\ n \in Nat \ {0} /\ begin \in 0 .. n - 1 /\ end \in 1 .. n /\ begin < end
      /\ size = end - begin /\ begin + (size - 1) = end - 1
      /\ base \in Nat /\ ub = vals[end - 1] /\ ub \in Nat
      /\ PartUniverse(vals, ends, p) = (ub - base) + 1
      /\ Climbs(vals, n) /\ \A i \in 0 .. n - 1 : vals[i] \in Nat
  BY ReadyFacts, SMTT(40)
<1>2. IndexedRight(e.seq, rel, PartUniverse(vals, ends, p), size)
  BY ReadyPart
<1>15. \A i \in 0 .. size - 1 :
         /\ vals[begin + i] \in Nat /\ begin + i \in 0 .. n - 1
         /\ rel[i] = vals[begin + i] - base
  BY ReadyValues
<1>3. /\ e.seq = s.parts[p] /\ p \in 0 .. Len(ends) - 1 /\ base = PartBase(vals, ends, p)
      /\ begin = PartBegin(ends, p)
  BY ReadyFacts
<1> PICK goal : goal = bound - base
  OBVIOUS
<1>4. /\ bound \in Nat /\ bound \in Int /\ base \in Int /\ base <= bound /\ bound <= ub
      /\ goal \in Nat /\ goal \in Int /\ goal <= (ub - base) + 1 /\ bound = base + goal
  <2>1. bound \in base .. ub
    OBVIOUS
  <2>2. base \in Nat /\ ub \in Nat
    BY <1>1
  <2>3. /\ bound \in Nat /\ bound \in Int /\ base \in Int /\ base <= bound /\ bound <= ub
        /\ bound - base \in Nat /\ bound - base \in Int /\ bound - base <= (ub - base) + 1
        /\ bound = base + (bound - base)
    BY <2>1, <2>2, Offset
  <2> QED  BY <2>3, Zenon
<1>5. PICK k : FirstAtLeast(rel, size, goal, k)
  BY <1>2, <1>4, IndexedTypes, FirstAtLeastExists
<1>6. size \in Nat \ {0} /\ k \in 0 .. size /\ \A i \in 0 .. size - 1 : i < k <=> rel[i] < goal
  BY <1>2, <1>5, IndexedTypes DEF FirstAtLeast
<1>7. ASSUME NEW i \in 0 .. size - 1  PROVE i < k <=> vals[begin + i] < bound
  <2>1. vals[begin + i] \in Nat /\ rel[i] = vals[begin + i] - base /\ (i < k <=> rel[i] < goal)
    BY <1>6, <1>15
  <2> PICK v \in Nat : v = vals[begin + i]
    BY <2>1
  <2>2. v \in Int /\ base \in Int /\ bound \in Int
    <3>1. v \in Int
      OBVIOUS
    <3> QED  BY <1>4, <3>1, Zenon
  <2>3. v - base < bound - base <=> v < bound
    BY <2>2, SameShift
  <2> QED  BY <2>1, <2>3, Zenon
<1>8. k \in 0 .. size - 1
  <2> PICK last : last = size - 1
    OBVIOUS
  <2>1. last \in 0 .. size - 1 /\ begin + last = end - 1
    <3>1. size \in Nat \ {0}
      BY <1>6, Zenon
    <3>2. size - 1 \in 0 .. size - 1
      BY <3>1
    <3>3. begin + (size - 1) = end - 1
      BY <1>1, Zenon
    <3> QED  BY <3>2, <3>3, Zenon
  <2>2. vals[begin + last] = ub
    BY <1>1, <2>1, Zenon
  <2>3. ~(last < k)
    <3>0. bound \in Int /\ ub \in Int /\ bound <= ub
      <4>1. ub \in Int
        BY <1>1
      <4> QED  BY <1>4, <4>1, Zenon
    <3>1. ~(ub < bound)
      BY <3>0
    <3> QED  BY <1>7, <2>1, <2>2, <3>1, Zenon
  <2> QED  BY <1>6, <2>1, <2>3
<1>9. FirstAtLeast(vals, n, bound, begin + k)
  <2>1. begin + k \in 0 .. n /\ begin \in Nat /\ end \in Nat /\ k \in Nat /\ begin + k < end
    <3>1. k \in Nat /\ k < end - begin /\ begin \in Nat /\ end \in Nat /\ end <= n /\ n \in Nat
      BY <1>1, <1>8, SMTT(40)
    <3>2. begin + k \in Nat /\ begin + k < end
      BY <3>1
    <3> QED  BY <3>1, <3>2
  <2>2. ASSUME NEW i \in 0 .. n - 1  PROVE i < begin + k <=> vals[i] < bound
    <3>1. vals[i] \in Nat /\ i \in Nat
      BY <1>1
    <3>2. CASE i < begin
      <4>1. p # 0
        BY <1>3, <3>1, <3>2 DEF PartBegin
      <4>2. base = vals[begin - 1] + 1
        BY <1>3, <4>1 DEF PartBase, PartBegin
      <4>3. begin - 1 \in 0 .. n - 1 /\ i <= begin - 1
        <5>1. begin \in Nat /\ begin <= n - 1 /\ n \in Nat /\ i \in Nat /\ i < begin
          BY <1>1, <3>1, <3>2
        <5>2. begin - 1 \in Nat /\ i <= begin - 1 /\ begin - 1 <= n - 1
          BY <5>1
        <5> QED  BY <5>1, <5>2
      <4>4. vals[i] <= vals[begin - 1] /\ vals[begin - 1] \in Nat
        BY <1>1, <4>3, ClimbsRises DEF Rises
      <4>5. vals[i] < bound
        <5> PICK v \in Nat, w \in Nat : v = vals[i] /\ w = vals[begin - 1]
          BY <3>1, <4>4
        <5>1. v <= w /\ base = w + 1 /\ base <= bound /\ bound \in Int
          BY <1>4, <4>2, <4>4, Zenon
        <5>2. v < bound
          BY <5>1
        <5> QED  BY <5>2
      <4>6. i < begin + k
        BY <2>1, <3>1, <3>2
      <4> QED  BY <4>5, <4>6
    <3>3. CASE begin <= i /\ i < end
      <4> PICK j : j = i - begin
        OBVIOUS
      <4>1. j \in Nat /\ j < end - begin /\ begin + j = i
        BY <2>1, <3>1, <3>3, SMTT(40)
      <4>2. j \in 0 .. size - 1
        BY <1>1, <1>6, <4>1
      <4>3. j < k <=> vals[i] < bound
        BY <1>7, <4>1, <4>2
      <4>4. i < begin + k <=> j < k
        BY <2>1, <4>1
      <4> QED  BY <4>3, <4>4
    <3>4. CASE end <= i
      <4>1. end - 1 \in 0 .. n - 1 /\ end - 1 < i
        BY <1>1, <3>1, <3>4, SMTT(40)
      <4>2. vals[end - 1] < vals[i]
        BY <1>1, <4>1 DEF Climbs
      <4>3. ~(vals[i] < bound)
        <5> PICK v \in Nat : v = vals[i]
          BY <3>1
        <5>1. ub < v /\ ub \in Nat /\ bound <= ub /\ bound \in Nat
          BY <1>1, <1>4, <4>2
        <5>2. ~(v < bound)
          BY <5>1
        <5> QED  BY <5>2
      <4>4. ~(i < begin + k)
        BY <2>1, <3>1, <3>4
      <4> QED  BY <4>3, <4>4
    <3> QED  BY <2>1, <3>1, <3>2, <3>3, <3>4
  <2> QED  BY <2>1, <2>2 DEF FirstAtLeast
<1>10. q = begin + k
  <2>1. n \in Nat
    BY <1>1
  <2> QED  BY <1>9, <2>1, FirstGeqUnique
<1> PICK part : part = IndexedNextGeq(e.seq, e.part, goal)
  OBVIOUS
<1>11. PartAt(vals, ends, e.seq, part, p, k)
  <2>1. PICK j : PartAt(vals, ends, e.seq, e.part, p, j)
    BY DEF Ready
  <2>2. ~e.seq.strict
    BY <1>3
  <2> PICK top : top = PartUniverse(vals, ends, p)
    OBVIOUS
  <2>3. goal <= top
    BY <1>1, <1>4
  <2>4. IndexedAt(e.seq, rel, top, size, e.part, j)
    BY <2>1 DEF PartAt
  <2>5. IndexedAt(e.seq, rel, top, size, part, k)
    BY <1>2, <1>4, <1>5, <2>2, <2>3, <2>4, IndexedNextGeqAt
  <2> QED  BY <2>5 DEF PartAt
<1>12. part.position = k
  BY <1>2, <1>11, IndexedPlace DEF PartAt
<1>13. NextGeqInPart(e, bound) = InPart(e, e.begin + k, part)
  BY <1>12, Zenon DEF NextGeqInPart
<1>14. PartitionedAt(s, vals, universe, n, ends, InPart(e, e.begin + k, part), e.begin + k)
  BY <1>8, <1>11, InPartAt
<1> QED  BY <1>10, <1>13, <1>14, Zenon

(* The bounds that next_geq looks for and the partition that it opens: the   *)
(* bound is not below its base nor above its last value.                     *)
LEMMA PartOfBound ==
  ASSUME NEW s, NEW vals, NEW universe, NEW n, NEW ends,
         PartitionedRight(s, vals, universe, n, ends), Len(ends) > 1,
         NEW e, SidesAt(s, vals, universe, n, ends, e),
         NEW bound \in Nat, bound <= universe, NEW q, FirstAtLeast(vals, n, bound, q)
  PROVE  LET bounds == EFNextGeq(s.upper_bounds, e.upper_bounds, bound)
             r == bounds.position
         IN /\ Somewhere(Bounds(vals, ends), universe, Len(ends) + 1, bounds)
            /\ r \in 0 .. Len(ends) + 1
            /\ r = 0 => q = 0
            /\ r = Len(ends) + 1 => q = n
            /\ r \in 1 .. Len(ends) =>
                 bound \in PartBase(vals, ends, r - 1) .. vals[ends[r] - 1]
<1> PICK k \in Nat : k = Len(ends)
  BY DEF PartitionedRight, Cuts
<1>1. /\ HoldableBits(vals, universe, n) /\ Cuts(ends, n)
      /\ EFParts(s.upper_bounds, Bounds(vals, ends), universe, k + 1)
  BY Zenon DEF PartitionedRight
<1>2. /\ n \in Nat \ {0} /\ universe \in Nat /\ Climbs(vals, n)
      /\ \A i \in 0 .. n - 1 : vals[i] \in Nat /\ vals[i] < universe
      /\ ends[k] = n
      /\ \A p \in 1 .. k : ends[p] \in 1 .. n
      /\ \A i \in 1 .. k, j \in 1 .. k : i < j => ends[i] < ends[j]
  BY <1>1 DEF HoldableBits, Holdable, Climbs, Cuts
<1> PICK f : f = Bounds(vals, ends)
  OBVIOUS
<1>3. /\ Holdable(f, universe, k + 1) /\ f[0] = vals[0]
      /\ \A p \in 1 .. k : f[p] = vals[ends[p] - 1]
  BY <1>1, BoundsHold
<1>4. (k + 1) - 1 = k /\ k + 1 \in Nat
  OBVIOUS
<1>5. /\ Rises(f, k + 1) /\ \A p \in 0 .. k : f[p] \in Nat /\ f[p] < universe
  BY <1>3, <1>4 DEF Holdable, Rises
<1>6. bound \in Int
  OBVIOUS
<1>7. PICK t : FirstAtLeast(f, k + 1, bound, t)
  BY <1>5, <1>6, FirstAtLeastExists
<1>8. t \in 0 .. k + 1 /\ \A i \in 0 .. k : i < t <=> f[i] < bound
  BY <1>4, <1>7 DEF FirstAtLeast
<1> PICK old : EFAt(f, universe, k + 1, e.upper_bounds, old)
  BY DEF SidesAt, Somewhere
<1> PICK bounds : bounds = EFNextGeq(s.upper_bounds, e.upper_bounds, bound)
  OBVIOUS
<1> PICK r : r = bounds.position
  OBVIOUS
<1> DEFINE value == e.upper_bounds.value
<1>9. EFAt(f, universe, k + 1, bounds, IF value = bound THEN old ELSE t)
  BY <1>1, <1>3, <1>7, EFNextGeqAt
<1>10. r = IF value = bound THEN old ELSE t
  BY <1>9, AtPlace DEF EFAt
<1>11. old \in 0 .. k + 1 /\ value = IF old < k + 1 THEN f[old] ELSE universe
  BY AtPlace DEF EFAt
<1>12. r \in 0 .. k + 1
  BY <1>8, <1>10, <1>11
<1>13. Somewhere(f, universe, k + 1, bounds)
  BY <1>9 DEF Somewhere
<1> HIDE DEF value
(* The bound is between its neighbours; of a first partition of one value    *)
(* the two bounds are the same, and the enumerator may stay at the second.   *)
<1>14. r \in 0 .. k => bound <= f[r]
  <2> SUFFICES ASSUME r \in 0 .. k  PROVE bound <= f[r]
    OBVIOUS
  <2>1. CASE value = bound
    <3>1. f[r] = bound
      BY <1>4, <1>10, <1>11, <2>1
    <3> QED  BY <3>1
  <2>2. CASE value # bound
    <3>1. ~(f[r] < bound) /\ f[r] \in Nat
      BY <1>5, <1>8, <1>10, <2>2
    <3> QED  BY <3>1
  <2> QED  BY <2>1, <2>2
<1>15. ASSUME r \in 1 .. k + 1  PROVE f[r - 1] <= bound /\ (r # 1 => f[r - 1] < bound)
  <2>0. r - 1 \in 0 .. k /\ r - 1 < r
    BY <1>15
  <2>1. CASE value = bound
    <3>1. CASE r = k + 1
      <4>1. bound = universe
        BY <1>10, <1>11, <2>1, <3>1
      <4>2. f[r - 1] \in Nat /\ f[r - 1] < universe
        BY <1>5, <2>0
      <4> QED  BY <4>1, <4>2
    <3>2. CASE r # k + 1
      <4>1. r \in 0 .. k /\ r < k + 1 /\ r \in 0 .. (k + 1) - 1 /\ r - 1 \in 0 .. (k + 1) - 1
            /\ r - 1 <= r
        BY <1>12, <1>15, <3>2
      <4>2. f[r] = bound
        BY <1>10, <1>11, <2>1, <4>1
      <4>3. f[r - 1] <= f[r]
        BY <1>5, <4>1 DEF Rises
      <4>4. ASSUME r # 1  PROVE f[r - 1] < f[r]
        <5>1. r \in 1 .. k /\ r - 1 \in 1 .. k
          BY <1>15, <4>1, <4>4
        <5>2. /\ ends[r] \in 1 .. n /\ ends[r - 1] \in 1 .. n /\ ends[r - 1] < ends[r]
          BY <1>2, <2>0, <5>1
        <5>3. /\ ends[r] - 1 \in 0 .. n - 1 /\ ends[r - 1] - 1 \in 0 .. n - 1
              /\ ends[r - 1] - 1 < ends[r] - 1
          <6> PICK a \in 1 .. n, b \in 1 .. n : a = ends[r - 1] /\ b = ends[r]
            BY <5>2
          <6>1. a < b /\ n \in Nat
            BY <1>2, <5>2
          <6>2. b - 1 \in 0 .. n - 1 /\ a - 1 \in 0 .. n - 1 /\ a - 1 < b - 1
            BY <6>1, OneLess
          <6> QED  BY <6>2
        <5>4. vals[ends[r - 1] - 1] < vals[ends[r] - 1]
          BY <1>2, <5>3 DEF Climbs
        <5> QED  BY <1>3, <5>1, <5>4
      <4> QED  BY <4>2, <4>3, <4>4
    <3> QED  BY <3>1, <3>2
  <2>2. CASE value # bound
    <3>1. f[r - 1] < bound /\ f[r - 1] \in Nat
      BY <1>5, <1>8, <1>10, <2>0, <2>2
    <3> QED  BY <3>1
  <2> QED  BY <2>1, <2>2
<1>16. r = 0 => q = 0
  <2> SUFFICES ASSUME r = 0  PROVE q = 0
    OBVIOUS
  <2>1. bound <= vals[0]
    BY <1>3, <1>14
  <2>2. ASSUME NEW i \in 0 .. n - 1  PROVE ~(i < 0) /\ ~(vals[i] < bound)
    <3>1. 0 \in 0 .. n - 1 /\ 0 <= i
      BY <1>2
    <3>2. vals[0] <= vals[i] /\ vals[0] \in Nat /\ vals[i] \in Nat
      BY <1>2, <3>1, ClimbsRises DEF Rises
    <3> QED  BY <2>1, <3>1, <3>2
  <2>3. FirstAtLeast(vals, n, bound, 0)
    BY <1>2, <2>2 DEF FirstAtLeast
  <2> QED  BY <1>2, <2>3, FirstGeqUnique
<1>17. r = k + 1 => q = n
  <2> SUFFICES ASSUME r = k + 1  PROVE q = n
    OBVIOUS
  <2>1. k \in 1 .. k /\ r \in 1 .. k + 1 /\ r - 1 = k /\ r # 1
    BY <1>1 DEF Cuts
  <2>2. f[k] < bound /\ f[k] = vals[n - 1]
    BY <1>2, <1>3, <1>15, <2>1
  <2>3. ASSUME NEW i \in 0 .. n - 1  PROVE i < n /\ vals[i] < bound
    <3>1. n - 1 \in 0 .. n - 1 /\ i <= n - 1 /\ i < n
      BY <1>2
    <3>2. vals[i] <= vals[n - 1] /\ vals[n - 1] \in Nat /\ vals[i] \in Nat
      BY <1>2, <3>1, ClimbsRises DEF Rises
    <3> QED  BY <2>2, <3>1, <3>2
  <2>4. FirstAtLeast(vals, n, bound, n)
    BY <1>2, <2>3 DEF FirstAtLeast
  <2> QED  BY <1>2, <2>4, FirstGeqUnique
<1>18. ASSUME r \in 1 .. k  PROVE bound \in PartBase(vals, ends, r - 1) .. vals[ends[r] - 1]
  <2>1. r \in 0 .. k /\ r \in 1 .. k + 1
    BY <1>18
  <2>2. bound <= vals[ends[r] - 1]
    BY <1>3, <1>14, <1>18, <2>1
  <2>3. vals[ends[r] - 1] \in Nat
    <3>1. ends[r] - 1 \in 0 .. n - 1
      BY <1>2, <1>18
    <3> QED  BY <1>2, <3>1
  <2>4. PartBase(vals, ends, r - 1) \in Nat /\ PartBase(vals, ends, r - 1) <= bound
    <3>1. CASE r = 1
      <4>1. r - 1 = 0
        BY <3>1
      <4>2. f[0] <= bound /\ f[0] \in Nat
        BY <1>5, <1>15, <2>1, <4>1
      <4> QED  BY <1>3, <4>1, <4>2 DEF PartBase
    <3>2. CASE r # 1
      <4>1. r - 1 # 0 /\ r - 1 \in 1 .. k /\ r - 1 \in 0 .. k
        BY <1>18, <3>2
      <4>2. f[r - 1] < bound /\ f[r - 1] \in Nat /\ f[r - 1] = vals[ends[r - 1] - 1]
        BY <1>3, <1>5, <1>15, <2>1, <3>2, <4>1
      <4>3. PartBase(vals, ends, r - 1) = f[r - 1] + 1
        BY <4>1, <4>2 DEF PartBase
      <4> QED  BY <4>2, <4>3
    <3> QED  BY <3>1, <3>2
  <2> QED  BY <2>2, <2>3, <2>4
<1> QED  BY <1>12, <1>13, <1>16, <1>17, <1>18

LEMMA PartitionedNextGeqAt ==
  ASSUME NEW s, NEW vals, NEW universe, NEW n, NEW ends,
         PartitionedRight(s, vals, universe, n, ends),
         \A p \in 0 .. Len(ends) - 1 : ~s.parts[p].strict,
         NEW e, NEW p, Ready(s, vals, universe, n, ends, e, p),
         NEW bound \in Nat, bound <= universe, NEW q, FirstAtLeast(vals, n, bound, q)
  PROVE  PartitionedAt(s, vals, universe, n, ends, PartitionedNextGeq(s, e, bound), q)
<1> PICK k : k = Len(ends)
  OBVIOUS
<1>1. /\ n \in Nat \ {0} /\ k \in Nat \ {0} /\ s.n = n /\ s.partitions = k
      /\ p \in 0 .. k - 1 /\ e.base \in Nat /\ e.upper_bound \in Nat
      /\ e.base = PartBase(vals, ends, p) /\ e.upper_bound = vals[ends[p + 1] - 1]
      /\ Climbs(vals, n) /\ \A i \in 0 .. n - 1 : vals[i] \in Nat
  <2>1. /\ n \in Nat \ {0} /\ k \in Nat \ {0} /\ s.n = n /\ s.partitions = k
        /\ p \in 0 .. k - 1 /\ Climbs(vals, n)
    BY ReadyHeader
  <2>2. /\ e.base \in Nat /\ e.upper_bound \in Nat
        /\ e.base = PartBase(vals, ends, p) /\ e.upper_bound = vals[ends[p + 1] - 1]
    BY ReadyBounds
  <2>3. \A i \in 0 .. n - 1 : vals[i] \in Nat
    BY <2>1 DEF Climbs
  <2> QED  BY <2>1, <2>2, <2>3
<1>2. HasFields(e) /\ SidesAt(s, vals, universe, n, ends, e) /\ ends[k] = n
  <2>1. Cuts(ends, n)
    BY ReadyHeader
  <2> QED  BY <2>1 DEF Ready, Cuts
<1>3. q \in 0 .. n /\ 0 \in 0 .. n /\ n \in 0 .. n
  BY <1>1 DEF FirstAtLeast
<1>4. CASE bound \in e.base .. e.upper_bound
  <2>1. PartitionedNextGeq(s, e, bound) = NextGeqInPart(e, bound)
    BY <1>4, Zenon DEF PartitionedNextGeq
  <2> QED  BY <1>4, <2>1, NextGeqInPartAt
<1>5. CASE bound \notin e.base .. e.upper_bound
  <2>1. PartitionedNextGeq(s, e, bound) = PartitionedSlowNextGeq(s, e, bound)
    BY <1>5, Zenon DEF PartitionedNextGeq
  <2>2. CASE k = 1
    <3>1. PartitionedNextGeq(s, e, bound) = PartitionedMove(s, e, IF bound < e.base THEN 0 ELSE n)
      BY <1>1, <2>1, <2>2, Zenon DEF PartitionedSlowNextGeq
    <3>2. p = 0 /\ p + 1 = k
      BY <1>1, <2>2
    <3>3. e.base = vals[0] /\ e.upper_bound = vals[n - 1]
      BY <1>1, <1>2, <3>2 DEF PartBase
    <3>4. q = IF bound < e.base THEN 0 ELSE n
      <4>1. CASE bound < e.base
        <5>1. ASSUME NEW i \in 0 .. n - 1  PROVE ~(i < 0) /\ ~(vals[i] < bound)
          <6>1. 0 \in 0 .. n - 1 /\ 0 <= i
            BY <1>1
          <6>2. vals[0] <= vals[i] /\ vals[i] \in Nat
            BY <1>1, <6>1, ClimbsRises DEF Rises
          <6> QED  BY <1>1, <3>3, <4>1, <6>1, <6>2
        <5>2. FirstAtLeast(vals, n, bound, 0)
          BY <1>3, <5>1 DEF FirstAtLeast
        <5>3. q = 0
          BY <1>1, <5>2, FirstGeqUnique
        <5> QED  BY <4>1, <5>3
      <4>2. CASE ~(bound < e.base)
        <5>0. e.upper_bound < bound
          BY <1>1, <1>5, <4>2
        <5>1. ASSUME NEW i \in 0 .. n - 1  PROVE i < n /\ vals[i] < bound
          <6>1. n - 1 \in 0 .. n - 1 /\ i <= n - 1 /\ i < n
            BY <1>1
          <6>2. vals[i] <= vals[n - 1] /\ vals[i] \in Nat
            BY <1>1, <6>1, ClimbsRises DEF Rises
          <6> QED  BY <1>1, <3>3, <5>0, <6>1, <6>2
        <5>2. FirstAtLeast(vals, n, bound, n)
          BY <1>3, <5>1 DEF FirstAtLeast
        <5>3. q = n
          BY <1>1, <5>2, FirstGeqUnique
        <5> QED  BY <4>2, <5>3
      <4> QED  BY <4>1, <4>2
    <3>5. PartitionedNextGeq(s, e, bound) = PartitionedMove(s, e, q)
      BY <3>1, <3>4, Zenon
    <3> QED  BY <1>3, <3>5, PartitionedMoveAt
  <2>3. CASE k # 1
    <3>0. k > 1
      BY <1>1, <2>3
    <3> PICK bounds : bounds = EFNextGeq(s.upper_bounds, e.upper_bounds, bound)
      OBVIOUS
    <3> PICK r : r = bounds.position
      OBVIOUS
    <3>1. /\ Somewhere(Bounds(vals, ends), universe, k + 1, bounds)
          /\ r \in 0 .. k + 1
          /\ r = 0 => q = 0
          /\ r = k + 1 => q = n
          /\ r \in 1 .. k => bound \in PartBase(vals, ends, r - 1) .. vals[ends[r] - 1]
      BY <1>2, <3>0, PartOfBound
    <3> PICK f : f = [e EXCEPT !.upper_bounds = bounds]
      OBVIOUS
    <3>2. /\ HasFields(f) /\ f.upper_bounds = bounds /\ f.sizes = e.sizes
          /\ f.partition = e.partition /\ f.begin = e.begin /\ f.end = e.end /\ f.base = e.base
          /\ f.upper_bound = e.upper_bound /\ f.seq = e.seq /\ f.part = e.part
      BY <1>2 DEF HasFields
    <3>3. SidesAt(s, vals, universe, n, ends, f)
      BY <1>2, <3>1, <3>2, Zenon DEF SidesAt
    <3>4. Ready(s, vals, universe, n, ends, f, p)
      <4>1. Opened(s, vals, ends, e, p) /\ \E j : PartAt(vals, ends, e.seq, e.part, p, j)
        BY DEF Ready
      <4>2. Opened(s, vals, ends, f, p)
        BY <3>2, <4>1, Zenon DEF Opened
      <4>3. \E j : PartAt(vals, ends, f.seq, f.part, p, j)
        BY <3>2, <4>1, Zenon
      <4> QED  BY <3>2, <3>3, <4>2, <4>3, Zenon DEF Ready
    <3>5. PartitionedNextGeq(s, e, bound) =
            CASE r = 0 -> PartitionedMove(s, f, 0)
              [] r = k + 1 -> PartitionedMove(s, f, n)
              [] r \in 1 .. k -> NextGeqInPart(SwitchPartition(s, f, r - 1), bound)
      BY <1>1, <2>1, <2>3, Zenon DEF PartitionedSlowNextGeq
    <3>6. CASE r = 0
      <4>1. PartitionedNextGeq(s, e, bound) = PartitionedMove(s, f, q)
        <5>1. ~(r = k + 1) /\ ~(r \in 1 .. k)
          BY <1>1, <3>6
        <5> QED  BY <3>1, <3>5, <3>6, <5>1
      <4> QED  BY <1>3, <3>4, <4>1, PartitionedMoveAt
    <3>7. CASE r = k + 1
      <4>1. PartitionedNextGeq(s, e, bound) = PartitionedMove(s, f, q)
        <5>1. ~(r = 0) /\ ~(r \in 1 .. k)
          BY <1>1, <3>7
        <5> QED  BY <3>1, <3>5, <3>7, <5>1
      <4> QED  BY <1>3, <3>4, <4>1, PartitionedMoveAt
    <3>8. CASE r \in 1 .. k
      <4> PICK g : g = SwitchPartition(s, f, r - 1)
        OBVIOUS
      <4>1. PartitionedNextGeq(s, e, bound) = NextGeqInPart(g, bound)
        <5>1. ~(r = 0) /\ ~(r = k + 1)
          BY <1>1, <3>8
        <5> QED  BY <3>5, <3>8, <5>1
      <4> PICK t : t = r - 1
        OBVIOUS
      <4>2. t \in 0 .. k - 1 /\ t + 1 = r
        BY <1>1, <3>8
      <4>3. Ready(s, vals, universe, n, ends, g, t)
        BY <3>0, <3>2, <3>3, <4>2, SwitchOpens
      <4>4. g.base = PartBase(vals, ends, t) /\ g.upper_bound = vals[ends[t + 1] - 1]
        BY <4>3 DEF Ready, Opened
      <4>5. bound \in g.base .. g.upper_bound
        BY <3>1, <3>8, <4>2, <4>4, Zenon
      <4> QED  BY <4>1, <4>3, <4>5, NextGeqInPartAt
    <3>9. r = 0 \/ r = k + 1 \/ r \in 1 .. k
      BY <1>1, <3>1
    <3> QED  BY <3>6, <3>7, <3>8, <3>9
  <2> QED  BY <2>2, <2>3
<1> QED  BY <1>4, <1>5

(* Before the first position of a partition is the last value of the one     *)
(* before it.                                                                *)
LEMMA PartitionedPrevIs ==
  ASSUME NEW s, NEW vals, NEW universe, NEW n, NEW ends,
         PartitionedRight(s, vals, universe, n, ends),
         NEW e, NEW position, PartitionedAt(s, vals, universe, n, ends, e, position)
  PROVE  PartitionedPrev(e) = IF position = 0 THEN 0 ELSE vals[position - 1]
<1> PICK p : p = e.partition
  OBVIOUS
<1>1. Ready(s, vals, universe, n, ends, e, p)
  BY AtReady
<1> PICK begin, size, rel : /\ begin = e.begin /\ size = PartSize(ends, p)
                            /\ rel = Relative(vals, ends, p)
  OBVIOUS
<1>2. /\ n \in Nat \ {0} /\ p \in 0 .. Len(ends) - 1 /\ begin \in 0 .. n - 1 /\ e.end \in 1 .. n
      /\ Cuts(ends, n) /\ begin = PartBegin(ends, p) /\ size = e.end - begin
      /\ e.base = PartBase(vals, ends, p) /\ e.base \in Nat
      /\ \A i \in 0 .. n - 1 : vals[i] \in Nat
  BY <1>1, ReadyFacts
<1> PICK k : k = position - begin
  OBVIOUS
<1>3. /\ position \in begin .. e.end
      /\ PartAt(vals, ends, e.seq, e.part, p, k) /\ e.position = position
  BY DEF PartitionedAt
<1>4. p = 0 <=> begin = 0
  BY <1>2, CutFacts
<1>5. CASE position = begin /\ p = 0
  <2>1. PartitionedPrev(e) = 0
    <3>1. ~(p > 0)
      BY <1>5
    <3> QED  BY <1>3, <1>5, <3>1, Zenon DEF PartitionedPrev
  <2> QED  BY <1>4, <1>5, <2>1
<1>6. CASE position = begin /\ p # 0
  <2>1. p > 0
    BY <1>2, <1>6
  <2>2. PartitionedPrev(e) = e.base - 1
    BY <1>3, <1>6, <2>1, Zenon DEF PartitionedPrev
  <2>3. e.base = vals[begin - 1] + 1
    BY <1>2, <1>6, CutFacts DEF PartBase
  <2>4. begin - 1 \in 0 .. n - 1
    BY <1>2, <1>4, <1>6
  <2> PICK v \in Nat : v = vals[begin - 1]
    BY <1>2, <2>4
  <2>5. PartitionedPrev(e) = v
    BY <2>2, <2>3
  <2> QED  BY <1>4, <1>6, <2>5
<1>7. CASE position # begin
  <2>1. PartitionedPrev(e) = e.base + IndexedPrev(e.seq, e.part)
    BY <1>3, <1>7, Zenon DEF PartitionedPrev
  <2>2. /\ position \in Nat /\ position # 0 /\ k # 0 /\ k - 1 \in 0 .. size - 1
        /\ begin + (k - 1) = position - 1
    <3>1. begin \in Nat /\ e.end \in Nat /\ position \in Int /\ begin < position
          /\ position <= e.end
      BY <1>2, <1>3, <1>7
    <3> PICK end \in Nat : end = e.end
      BY <3>1
    <3>2. position = begin + k /\ size = end - begin /\ position <= end /\ k \in Int
      BY <1>2, <3>1
    <3> QED  BY <3>1, <3>2
  <2>3. IndexedPrev(e.seq, e.part) = IF k = 0 THEN 0 ELSE rel[k - 1]
    <3>1. IndexedRight(e.seq, rel, PartUniverse(vals, ends, p), size)
      BY <1>1, ReadyPart
    <3> QED  BY <1>3, <3>1, IndexedPrevIs DEF PartAt
  <2>4. rel[k - 1] = vals[position - 1] - e.base /\ vals[position - 1] \in Nat
    <3>1. /\ vals[e.begin + (k - 1)] \in Nat
          /\ Relative(vals, ends, p)[k - 1] = vals[e.begin + (k - 1)] - e.base
      BY <1>1, <2>2, ReadyValues
    <3> QED  BY <2>2, <3>1, Zenon
  <2> PICK v \in Nat : v = vals[position - 1]
    BY <2>4
  <2>5. PartitionedPrev(e) = v
    <3> PICK base \in Nat : base = e.base
      BY <1>2
    <3>1. PartitionedPrev(e) = base + (v - base)
      BY <2>1, <2>2, <2>3, <2>4, Zenon
    <3>2. base + (v - base) = v
      OBVIOUS
    <3> QED  BY <3>1, <3>2, Zenon
  <2> QED  BY <2>2, <2>5
<1> QED  BY <1>5, <1>6, <1>7

LEMMA AsIntSmall ==
  ASSUME NEW x \in 0 .. IntLimit - 1
  PROVE  AsInt(x) = x
<1> PICK limit \in Nat \ {0} : limit = IntLimit
  BY PartitionAssumption DEF PartitionAssumption
<1> PICK b \in Nat \ {0} : b = 2 * limit
  OBVIOUS
<1>1. x \in Nat /\ x < limit /\ x < b
  OBVIOUS
<1>2. x % b = x
  BY <1>1
<1>3. AsInt(x) = LET bits == x % b IN IF bits < limit THEN bits ELSE bits - b
  BY Zenon DEF AsInt
<1> QED  BY <1>1, <1>2, <1>3

(* One partition: its upper bound is what was stored of it.                  *)
LEMMA SingleReady ==
  ASSUME NEW s, NEW vals, NEW universe, NEW n, NEW ends,
         PartitionedRight(s, vals, universe, n, ends), Len(ends) = 1,
         universe <= IntLimit, NEW position, NEW value
  PROVE  Ready(s, vals, universe, n, ends, OpenSingle(s, position, value), 0)
<1>1. /\ HoldableBits(vals, universe, n) /\ Cuts(ends, n) /\ s.universe = universe /\ s.n = n
      /\ s.base = vals[0] /\ s.delta = UniverseDelta(vals, universe, n)
      /\ \A p \in 0 .. Len(ends) - 1 : PartRight(s.parts[p], vals, ends, p)
  BY Zenon DEF PartitionedRight
<1>2. /\ n \in Nat \ {0} /\ universe \in Nat /\ Climbs(vals, n)
      /\ \A i \in 0 .. n - 1 : vals[i] \in Nat /\ vals[i] < universe
  BY <1>1 DEF HoldableBits, Holdable, Climbs
<1>3. 0 \in 0 .. Len(ends) - 1
  OBVIOUS
<1>4. ends[1] = n /\ PartRight(s.parts[0], vals, ends, 0)
  BY <1>1, <1>3 DEF Cuts
<1>5. PartBegin(ends, 0) = 0 /\ PartBase(vals, ends, 0) = vals[0] /\ 0 + 1 = 1
  BY DEF PartBegin, PartBase
<1>6. PartSize(ends, 0) = n
  BY <1>2, <1>4, <1>5 DEF PartSize
<1> PICK first \in Nat, last \in Nat : first = vals[0] /\ last = vals[n - 1]
  <2>1. 0 \in 0 .. n - 1 /\ n - 1 \in 0 .. n - 1
    BY <1>2
  <2> QED  BY <1>2, <2>1
<1>7. first <= last /\ last < universe /\ (n = 1 => first = last) /\ (n # 1 => first < last)
  <2>1. 0 \in 0 .. n - 1 /\ n - 1 \in 0 .. n - 1 /\ (n # 1 => 0 < n - 1)
    BY <1>2
  <2>2. last < universe
    BY <1>2, <2>1
  <2>3. n # 1 => first < last
    BY <1>2, <2>1 DEF Climbs
  <2>4. n = 1 => first = last
    OBVIOUS
  <2> QED  BY <2>2, <2>3, <2>4
<1> DEFINE ub == IF s.n = 1 THEN 0
                 ELSE AsInt(IF s.delta # 0 THEN s.delta ELSE s.universe - s.base - 1)
<1>8. ub = last - first
  <2>1. CASE n = 1
    BY <1>1, <1>7, <2>1
  <2>2. CASE n # 1
    <3> DEFINE x == IF s.delta # 0 THEN s.delta ELSE s.universe - s.base - 1
    <3>1. s.delta = IF last + 1 = universe THEN 0 ELSE last - first
      BY <1>1, Zenon DEF UniverseDelta
    <3>2. x = last - first
      <4>1. CASE last + 1 = universe
        <5>1. x = universe - first - 1
          BY <1>1, <3>1, <4>1
        <5> HIDE DEF x
        <5>2. universe - first - 1 = last - first
          BY <4>1
        <5> QED  BY <5>1, <5>2
      <4>2. CASE last + 1 # universe
        <5>1. s.delta = last - first
          BY <3>1, <4>2
        <5>2. last - first # 0
          BY <1>7, <2>2
        <5> QED  BY <5>1, <5>2
      <4> QED  BY <4>1, <4>2
    <3>3. ub = AsInt(x)
      BY <1>1, <2>2
    <3> HIDE DEF x, ub
    <3>4. last - first \in 0 .. IntLimit - 1
      <4> PICK limit \in Nat : limit = IntLimit
        BY PartitionAssumption DEF PartitionAssumption
      <4>1. universe \in Nat /\ universe <= limit /\ last < universe
        BY <1>2, <1>7
      <4>2. last - first \in 0 .. limit - 1
        BY <1>7, <4>1
      <4> QED  BY <4>2
    <3> QED  BY <3>2, <3>3, <3>4, AsIntSmall
  <2> QED  BY <2>1, <2>2
<1> HIDE DEF ub
<1> PICK w : w = s.parts[0]
  OBVIOUS
<1>9. Open(w, ub + 1, s.n) = w
  <2>1. PartUniverse(vals, ends, 0) = ub + 1
    BY <1>4, <1>5, <1>8, Zenon DEF PartUniverse
  <2> QED  BY <1>1, <1>4, <1>6, <2>1, Zenon DEF PartRight
<1> PICK f : f = OpenSingle(s, position, value)
  OBVIOUS
<1>10. f = [position |-> position, value |-> value,
            partition |-> 0, begin |-> 0, end |-> s.n, base |-> s.base,
            upper_bound |-> s.base + ub,
            sizes |-> NoEnumerator, upper_bounds |-> NoEnumerator,
            seq |-> w, part |-> IndexedNew(w)]
  <2>1. OpenSingle(s, position, value) =
          [position |-> position, value |-> value,
           partition |-> 0, begin |-> 0, end |-> s.n, base |-> s.base,
           upper_bound |-> s.base + ub,
           sizes |-> NoEnumerator, upper_bounds |-> NoEnumerator,
           seq |-> Open(w, ub + 1, s.n), part |-> IndexedNew(Open(w, ub + 1, s.n))]
    BY Zenon DEF OpenSingle, ub
  <2> QED  BY <1>9, <2>1, Zenon
<1>11. /\ HasFields(f) /\ f.partition = 0 /\ f.begin = 0 /\ f.end = n /\ f.base = first
       /\ f.upper_bound = first + ub /\ f.seq = w /\ f.part = IndexedNew(w)
  BY <1>1, <1>10 DEF HasFields
<1>12. first + ub = last
  BY <1>8
<1>13. Opened(s, vals, ends, f, 0)
  BY <1>3, <1>4, <1>5, <1>11, <1>12, Zenon DEF Opened
<1>14. PartAt(vals, ends, f.seq, f.part, 0, PartSize(ends, 0))
  <2>1. IndexedRight(w, Relative(vals, ends, 0), PartUniverse(vals, ends, 0), PartSize(ends, 0))
    BY <1>4 DEF PartRight
  <2>2. PartAt(vals, ends, w, IndexedNew(w), 0, PartSize(ends, 0))
    BY <2>1, IndexedNewAt DEF PartAt
  <2> QED  BY <1>11, <2>2
<1>15. SidesAt(s, vals, universe, n, ends, f)
  <2>1. ~(Len(ends) > 1)
    OBVIOUS
  <2> QED  BY <2>1, Zenon DEF SidesAt
<1> QED  BY <1>11, <1>13, <1>14, <1>15 DEF Ready

(* The enumerator starts after the last value.                               *)
LEMMA PartitionedNewAt ==
  ASSUME NEW s, NEW vals, NEW universe, NEW n, NEW ends,
         PartitionedRight(s, vals, universe, n, ends), universe <= IntLimit
  PROVE  PartitionedAt(s, vals, universe, n, ends, PartitionedNew(s), n)
<1> PICK k \in Nat \ {0} : k = Len(ends)
  BY DEF PartitionedRight, Cuts
<1>1. s.partitions = k /\ ~s.parts[0].stored
  <2>1. 0 \in 0 .. k - 1
    OBVIOUS
  <2> QED  BY <2>1 DEF PartitionedRight, PartRight
<1>2. CASE k = 1
  <2> PICK f : f = OpenSingle(s, s.n, s.universe)
    OBVIOUS
  <2>1. ~(k > 1)
    BY <1>2
  <2>2. PartitionedNew(s) = PastLast(s, f)
    BY <1>1, <1>2, <2>1, Zenon DEF PartitionedNew, MoveToEnd
  <2>3. Ready(s, vals, universe, n, ends, f, Len(ends) - 1)
    <3>1. Len(ends) = 1 /\ Len(ends) - 1 = 0
      BY <1>2
    <3>2. Ready(s, vals, universe, n, ends, f, 0)
      BY <3>1, SingleReady
    <3> QED  BY <3>1, <3>2, Zenon
  <2> QED  BY <2>2, <2>3, PastLastAt
<1>3. CASE k # 1
  <2> PICK f : f = OpenMany(s, s.n, s.universe)
    OBVIOUS
  <2>1. k > 1 /\ k - 1 \in 0 .. k - 1
    BY <1>3
  <2>2. PartitionedNew(s) = PastLast(s, SwitchPartition(s, f, k - 1))
    BY <1>1, <1>3, <2>1, Zenon DEF PartitionedNew, MoveToEnd
  <2>3. /\ HasFields(f) /\ f.upper_bounds = EFNew(s.upper_bounds)
        /\ ~s.uniform => f.sizes = EFNew(s.sizes)
    BY DEF OpenMany, HasFields
  <2>4. SidesAt(s, vals, universe, n, ends, f)
    <3>1. /\ HoldableBits(vals, universe, n) /\ Cuts(ends, n)
          /\ EFParts(s.sizes, Inner(ends), n, Len(ends) - 1)
          /\ EFParts(s.upper_bounds, Bounds(vals, ends), universe, Len(ends) + 1)
      BY <2>1, Zenon DEF PartitionedRight
    <3>2. EFAt(Inner(ends), n, Len(ends) - 1, EFNew(s.sizes), Len(ends) - 1)
      BY <2>1, <3>1, InnerHolds, EFNewAt
    <3>3. EFAt(Bounds(vals, ends), universe, Len(ends) + 1, EFNew(s.upper_bounds), Len(ends) + 1)
      BY <3>1, BoundsHold, EFNewAt
    <3> QED  BY <2>3, <3>2, <3>3, Zenon DEF SidesAt, Somewhere
  <2>5. Ready(s, vals, universe, n, ends, SwitchPartition(s, f, k - 1), k - 1)
    BY <2>1, <2>3, <2>4, SwitchOpens
  <2> QED  BY <2>2, <2>5, PastLastAt
<1> QED  BY <1>2, <1>3

LEMMA PartitionedWritten ==
  ASSUME NEW vals, NEW universe, NEW n, HoldableBits(vals, universe, n),
         NEW ends, Cuts(ends, n), NEW strict \in BOOLEAN,
         NEW uniform \in BOOLEAN, uniform => ends = UniformEnds(n),
         NEW w, w = PartitionedWrite(uniform, strict, vals, universe, n, ends)
  PROVE  PartitionedRight(w, vals, universe, n, ends)
BY PartitionedWritesRight

LEMMA PartitionedStrict ==
  ASSUME NEW uniform, NEW strict, NEW vals, NEW universe, NEW n, NEW ends,
         NEW w, w = PartitionedWrite(uniform, strict, vals, universe, n, ends),
         NEW p, p \in 0 .. Len(ends) - 1
  PROVE  w.parts[p].strict = strict
<1> PICK parts : parts = [q \in 0 .. Len(ends) - 1 |-> PartWrite(strict, vals, ends, q)]
  OBVIOUS
<1>1. w = Layout(uniform, parts, vals, universe, n, ends)
  BY Zenon DEF PartitionedWrite
<1>2. w.parts = parts
  <2> PICK k : k = Len(ends)
    OBVIOUS
  <2>1. CASE k = 1
    <3> PICK base, delta :
           w = [uniform |-> uniform, universe |-> universe, n |-> n, partitions |-> k,
                parts |-> parts, base |-> base, delta |-> delta]
      BY <1>1, <2>1, Zenon DEF Layout
    <3> QED  OBVIOUS
  <2>2. CASE k # 1
    <3> PICK sizes, upper_bounds :
           w = [uniform |-> uniform, universe |-> universe, n |-> n, partitions |-> k,
                parts |-> parts, sizes |-> sizes, upper_bounds |-> upper_bounds]
      BY <1>1, <2>2, Zenon DEF Layout
    <3> QED  OBVIOUS
  <2> QED  BY <2>1, <2>2
<1>3. parts[p].strict = strict
  BY DEF PartWrite, IndexedWrite
<1> QED  BY <1>2, <1>3

-----------------------------------------------------------------------------
(* Either of the two: what positive_sequence and freq_index are made of.     *)

LEMMA TruthOf ==
  ASSUME NEW x, NEW S
  PROVE  \E b \in BOOLEAN : b = (x \in S)
<1> WITNESS (x \in S) \in BOOLEAN
<1> QED  OBVIOUS

LEMMA IndexedIsSingle ==
  ASSUME NEW strict, NEW vals, NEW universe, NEW n
  PROVE  /\ ~IsPartitioned(IndexedWrite(strict, vals, universe, n))
         /\ IndexedWrite(strict, vals, universe, n).strict = strict
<1> PICK w, type, bits :
       /\ w = IndexedWrite(strict, vals, universe, n)
       /\ w = [strict |-> strict, type |-> type, stored |-> FALSE, bits |-> bits]
  BY Zenon DEF IndexedWrite
<1>1. "partitions" \notin DOMAIN w
  OBVIOUS
<1> QED  BY <1>1 DEF IsPartitioned

LEMMA LayoutIsPartitioned ==
  ASSUME NEW uniform, NEW parts, NEW vals, NEW universe, NEW n, NEW ends
  PROVE  IsPartitioned(Layout(uniform, parts, vals, universe, n, ends))
<1> PICK w : w = Layout(uniform, parts, vals, universe, n, ends)
  OBVIOUS
<1> PICK k : k = Len(ends)
  OBVIOUS
<1>1. CASE k = 1
  <2> PICK base, delta :
         w = [uniform |-> uniform, universe |-> universe, n |-> n, partitions |-> k,
              parts |-> parts, base |-> base, delta |-> delta]
    BY <1>1, Zenon DEF Layout
  <2>1. "partitions" \in DOMAIN w
    OBVIOUS
  <2> QED  BY <2>1 DEF IsPartitioned
<1>2. CASE k # 1
  <2> PICK sizes, upper_bounds :
         w = [uniform |-> uniform, universe |-> universe, n |-> n, partitions |-> k,
              parts |-> parts, sizes |-> sizes, upper_bounds |-> upper_bounds]
    BY <1>2, Zenon DEF Layout
  <2>1. "partitions" \in DOMAIN w
    OBVIOUS
  <2> QED  BY <2>1 DEF IsPartitioned
<1> QED  BY <1>1, <1>2

BaseRight(s, vals, universe, n, ends) ==
  IF IsPartitioned(s) THEN PartitionedRight(s, vals, universe, n, ends)
  ELSE IndexedRight(s, vals, universe, n)

(* It has a next_geq().                                                      *)
NotStrict(s, ends) ==
  IF IsPartitioned(s) THEN \A p \in 0 .. Len(ends) - 1 : ~s.parts[p].strict ELSE ~s.strict

BaseAt(s, vals, universe, n, ends, e, p) ==
  IF IsPartitioned(s) THEN PartitionedAt(s, vals, universe, n, ends, e, p)
  ELSE IndexedAt(s, vals, universe, n, e, p)

LEMMA BaseNewAt ==
  ASSUME NEW s, NEW vals, NEW universe, NEW n, NEW ends,
         BaseRight(s, vals, universe, n, ends), universe <= IntLimit
  PROVE  BaseAt(s, vals, universe, n, ends, BaseNew(s), n)
<1>1. CASE IsPartitioned(s)
  <2>1. PartitionedRight(s, vals, universe, n, ends)
    BY <1>1, Zenon DEF BaseRight
  <2>2. PartitionedAt(s, vals, universe, n, ends, PartitionedNew(s), n)
    BY <2>1, PartitionedNewAt
  <2> QED  BY <1>1, <2>2, Zenon DEF BaseAt, BaseNew
<1>2. CASE ~IsPartitioned(s)
  <2>1. IndexedRight(s, vals, universe, n)
    BY <1>2, Zenon DEF BaseRight
  <2>2. IndexedAt(s, vals, universe, n, IndexedNew(s), n)
    BY <2>1, IndexedNewAt
  <2> QED  BY <1>2, <2>2, Zenon DEF BaseAt, BaseNew
<1> QED  BY <1>1, <1>2

LEMMA BaseMoveAt ==
  ASSUME NEW s, NEW vals, NEW universe, NEW n, NEW ends,
         BaseRight(s, vals, universe, n, ends),
         NEW e, NEW p, BaseAt(s, vals, universe, n, ends, e, p), NEW q, q \in 0 .. n
  PROVE  BaseAt(s, vals, universe, n, ends, BaseMove(s, e, q), q)
<1>1. CASE IsPartitioned(s)
  <2>1. /\ PartitionedRight(s, vals, universe, n, ends)
        /\ PartitionedAt(s, vals, universe, n, ends, e, p)
    BY <1>1, Zenon DEF BaseRight, BaseAt
  <2>2. Ready(s, vals, universe, n, ends, e, e.partition)
    BY <2>1, AtReady
  <2>3. PartitionedAt(s, vals, universe, n, ends, PartitionedMove(s, e, q), q)
    BY <2>1, <2>2, PartitionedMoveAt
  <2> QED  BY <1>1, <2>3, Zenon DEF BaseAt, BaseMove
<1>2. CASE ~IsPartitioned(s)
  <2>1. IndexedRight(s, vals, universe, n) /\ IndexedAt(s, vals, universe, n, e, p)
    BY <1>2, Zenon DEF BaseRight, BaseAt
  <2>2. IndexedAt(s, vals, universe, n, IndexedMove(s, e, q), q)
    BY <2>1, IndexedMoveAt
  <2> QED  BY <1>2, <2>2, Zenon DEF BaseAt, BaseMove
<1> QED  BY <1>1, <1>2

LEMMA BaseNextAt ==
  ASSUME NEW s, NEW vals, NEW universe, NEW n, NEW ends,
         BaseRight(s, vals, universe, n, ends),
         NEW e, NEW p, BaseAt(s, vals, universe, n, ends, e, p), p < n
  PROVE  BaseAt(s, vals, universe, n, ends, BaseNext(s, e), p + 1)
<1>1. CASE IsPartitioned(s)
  <2>1. /\ PartitionedRight(s, vals, universe, n, ends)
        /\ PartitionedAt(s, vals, universe, n, ends, e, p)
    BY <1>1, Zenon DEF BaseRight, BaseAt
  <2>2. PartitionedAt(s, vals, universe, n, ends, PartitionedNext(s, e), p + 1)
    BY <2>1, PartitionedNextAt
  <2> QED  BY <1>1, <2>2, Zenon DEF BaseAt, BaseNext
<1>2. CASE ~IsPartitioned(s)
  <2>1. IndexedRight(s, vals, universe, n) /\ IndexedAt(s, vals, universe, n, e, p)
    BY <1>2, Zenon DEF BaseRight, BaseAt
  <2>2. IndexedAt(s, vals, universe, n, IndexedNext(s, e), p + 1)
    BY <2>1, IndexedNextAt
  <2> QED  BY <1>2, <2>2, Zenon DEF BaseAt, BaseNext
<1> QED  BY <1>1, <1>2

LEMMA BaseNextGeqAt ==
  ASSUME NEW s, NEW vals, NEW universe, NEW n, NEW ends,
         BaseRight(s, vals, universe, n, ends), NotStrict(s, ends),
         NEW e, NEW p, BaseAt(s, vals, universe, n, ends, e, p),
         NEW bound \in Nat, bound <= universe, NEW q, FirstAtLeast(vals, n, bound, q)
  PROVE  BaseAt(s, vals, universe, n, ends, BaseNextGeq(s, e, bound), q)
<1>1. CASE IsPartitioned(s)
  <2>1. /\ PartitionedRight(s, vals, universe, n, ends)
        /\ PartitionedAt(s, vals, universe, n, ends, e, p)
        /\ \A r \in 0 .. Len(ends) - 1 : ~s.parts[r].strict
    BY <1>1, Zenon DEF BaseRight, BaseAt, NotStrict
  <2>2. Ready(s, vals, universe, n, ends, e, e.partition)
    BY <2>1, AtReady
  <2>3. PartitionedAt(s, vals, universe, n, ends, PartitionedNextGeq(s, e, bound), q)
    BY <2>1, <2>2, PartitionedNextGeqAt
  <2> QED  BY <1>1, <2>3, Zenon DEF BaseAt, BaseNextGeq
<1>2. CASE ~IsPartitioned(s)
  <2>1. /\ IndexedRight(s, vals, universe, n) /\ IndexedAt(s, vals, universe, n, e, p)
        /\ ~s.strict
    BY <1>2, Zenon DEF BaseRight, BaseAt, NotStrict
  <2>2. IndexedAt(s, vals, universe, n, IndexedNextGeq(s, e, bound), q)
    BY <2>1, IndexedNextGeqAt
  <2> QED  BY <1>2, <2>2, Zenon DEF BaseAt, BaseNextGeq
<1> QED  BY <1>1, <1>2

(* Where it is, and what the methods return there.                           *)
LEMMA BasePlace ==
  ASSUME NEW s, NEW vals, NEW universe, NEW n, NEW ends,
         BaseRight(s, vals, universe, n, ends),
         NEW e, NEW p, BaseAt(s, vals, universe, n, ends, e, p)
  PROVE  /\ p \in 0 .. n /\ e.position = p
         /\ p < n => BaseValue(s, e) = vals[p]
         /\ p = n /\ NotStrict(s, ends) => BaseValue(s, e) = universe
<1>1. CASE IsPartitioned(s)
  <2>1. /\ PartitionedRight(s, vals, universe, n, ends)
        /\ PartitionedAt(s, vals, universe, n, ends, e, p)
    BY <1>1, Zenon DEF BaseRight, BaseAt
  <2>2. Ready(s, vals, universe, n, ends, e, e.partition)
    BY <2>1, AtReady
  <2>3. n \in Nat /\ e.begin \in 0 .. n - 1 /\ e.end \in 1 .. n
    BY <2>1, <2>2, ReadyRange, ReadyHeader
  <2>4. /\ p \in e.begin .. e.end /\ e.position = p
        /\ e.value = IF p < n THEN vals[p] ELSE universe
    BY <2>1, Zenon DEF PartitionedAt
  <2>5. p \in 0 .. n
    BY <2>3, <2>4
  <2>6. BaseValue(s, e) = e.value
    BY <1>1, Zenon DEF BaseValue
  <2>7. p = n => ~(p < n)
    BY <2>3
  <2> QED  BY <2>4, <2>5, <2>6, <2>7
<1>2. CASE ~IsPartitioned(s)
  <2>1. IndexedRight(s, vals, universe, n) /\ IndexedAt(s, vals, universe, n, e, p)
    BY <1>2, Zenon DEF BaseRight, BaseAt
  <2>2. /\ p \in 0 .. n /\ e.position = p
        /\ IndexedValue(s, e) = IF p < n THEN vals[p]
                                ELSE universe + (IF IsStrictEF(s) THEN 1 ELSE 0)
    BY <2>1, IndexedPlace
  <2>3. BaseValue(s, e) = IndexedValue(s, e)
    BY <1>2, Zenon DEF BaseValue
  <2>4. n \in Nat /\ universe \in Nat
    BY <2>1, IndexedTypes
  <2>5. NotStrict(s, ends) => ~IsStrictEF(s)
    BY <1>2, Zenon DEF NotStrict, IsStrictEF
  <2>6. p = n => ~(p < n)
    BY <2>2, <2>4
  <2>7. p = n /\ NotStrict(s, ends) => BaseValue(s, e) = universe + 0
    BY <2>2, <2>3, <2>5, <2>6, Zenon
  <2> QED  BY <2>2, <2>3, <2>4, <2>7
<1> QED  BY <1>1, <1>2

=============================================================================
