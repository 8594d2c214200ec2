----------------------- MODULE BlockEnumeratorProofs ------------------------
(***************************************************************************)
(* Proofs about BlockEnumerator for every block size, every list and every *)
(* order of its blocks: what is stored can be decoded, and the enumerator  *)
(* is a cursor over it, but for the one case in which next_geq_non_forward *)
(* sets the docid alone.                                                   *)
(***************************************************************************)
EXTENDS BlockEnumerator, CommonProofs, SequenceTheorems

-----------------------------------------------------------------------------
(* Blocks and positions.                                                     *)

(* uint32_t keeps what fits and wraps once.                                  *)
LEMMA Wraps ==
  ASSUME NEW x \in Int
  PROVE  /\ U32(x) \in 0 .. Modulus - 1
         /\ 0 <= x /\ x < Modulus => U32(x) = x
         /\ Modulus <= x /\ x < 2 * Modulus => U32(x) = x - Modulus
         /\ 0 - Modulus <= x /\ x < 0 => U32(x) = x + Modulus
<1> USE BlockListAssumption
<1>1. Modulus \in Nat \ {0}
  BY DEF BlockListAssumption
<1>2. U32(x) \in 0 .. Modulus - 1
  BY <1>1, DivMod DEF U32
<1>3. ASSUME 0 <= x, x < Modulus  PROVE U32(x) = x
  BY <1>1, <1>3 DEF U32
<1>4. ASSUME Modulus <= x, x < 2 * Modulus  PROVE U32(x) = x - Modulus
  BY <1>1, <1>4 DEF U32
<1>5. ASSUME 0 - Modulus <= x, x < 0  PROVE U32(x) = x + Modulus
  BY <1>1, <1>5 DEF U32
<1> QED  BY <1>2, <1>3, <1>4, <1>5

(* The posting before block b.                                               *)
Start(b) == b * BlockSize

LEMMA StartFacts ==
  /\ BlockSize \in Nat \ {0}
  /\ \A b \in Nat : Start(b) \in Nat /\ Start(b + 1) = Start(b) + BlockSize
  /\ Start(0) = 0
  /\ \A b, c \in Nat : b < c => Start(b) + BlockSize <= Start(c)
<1>1. BlockSize \in Nat \ {0}
  BY BlockListAssumption DEF BlockListAssumption
<1>2. \A b \in Nat : Start(b) \in Nat /\ Start(b + 1) = Start(b) + BlockSize
  BY <1>1 DEF Start
<1>3. ASSUME NEW b \in Nat, NEW c \in Nat, b < c  PROVE Start(b) + BlockSize <= Start(c)
  <2>1. PICK d \in Nat : c = b + 1 + d
    <3>1. c - b - 1 \in Nat /\ c = b + 1 + (c - b - 1)
      BY <1>3
    <3> QED  BY <3>1
  <2>2. d * BlockSize \in Nat
    BY <1>1
  <2>3. (b + 1 + d) * BlockSize = b * BlockSize + BlockSize + d * BlockSize
    BY <1>1
  <2> QED  BY <1>1, <2>1, <2>2, <2>3 DEF Start
<1>4. Start(0) = 0
  BY <1>1 DEF Start
<1> QED  BY <1>1, <1>2, <1>3, <1>4

LEMMA NumBlocksFacts ==
  ASSUME NEW n \in Nat \ {0}
  PROVE  /\ NumBlocks(n) \in Nat \ {0}
         /\ Start(NumBlocks(n) - 1) < n /\ n <= Start(NumBlocks(n))
<1>1. BlockSize \in Nat \ {0}
  BY StartFacts
<1>2. PICK all \in Nat : all = n + BlockSize - 1
  BY <1>1
<1> DEFINE q == all \div BlockSize
           r == all % BlockSize
<1>3. q \in Nat /\ r \in 0 .. BlockSize - 1 /\ all = BlockSize * q + r
  BY <1>1
<1>4. NumBlocks(n) = q
  BY <1>2 DEF NumBlocks, CeilDiv
<1> HIDE DEF q, r
<1>5. q # 0
  BY <1>1, <1>2, <1>3
<1>6. Start(q) = BlockSize * q /\ Start(q - 1) = BlockSize * q - BlockSize
  BY <1>1, <1>3 DEF Start
<1> QED  BY <1>1, <1>2, <1>3, <1>4, <1>5, <1>6

(* Every block but the last is full, and the last one ends the list.         *)
LEMMA SizeFacts ==
  ASSUME NEW n \in Nat \ {0}, NEW b \in 0 .. NumBlocks(n) - 1
  PROVE  /\ b \in Nat /\ Start(b) \in Nat
         /\ SizeOfBlock(n, b) \in 1 .. BlockSize
         /\ Start(b) + SizeOfBlock(n, b) <= n
         /\ b < NumBlocks(n) - 1 => SizeOfBlock(n, b) = BlockSize
         /\ b = NumBlocks(n) - 1 => Start(b) + SizeOfBlock(n, b) = n
<1> DEFINE last == NumBlocks(n) - 1
<1>1. BlockSize \in Nat \ {0} /\ b \in Nat /\ Start(b) \in Nat /\ last \in Nat
  <2>1. NumBlocks(n) \in Nat \ {0}
    BY NumBlocksFacts
  <2>2. b \in Nat /\ last \in Nat
    BY <2>1
  <2> QED  BY <2>2, StartFacts
<1>2. Start(last) < n /\ n <= Start(last) + BlockSize
  <2>1. NumBlocks(n) = last + 1
    BY NumBlocksFacts
  <2> QED  BY <1>1, <2>1, NumBlocksFacts, StartFacts
<1>3. Start(b + 1) = Start(b) + BlockSize
  BY <1>1, StartFacts
<1>4. SizeOfBlock(n, b) = IF Start(b) + BlockSize <= n THEN BlockSize ELSE n % BlockSize
  BY <1>3 DEF SizeOfBlock, Start
<1>5. CASE b < last
  <2>1. Start(b) + BlockSize <= Start(last)
    BY <1>1, <1>5, StartFacts
  <2>2. Start(b) + BlockSize <= n /\ Start(last) \in Nat
    BY <1>1, <1>2, <2>1, StartFacts
  <2> HIDE DEF last
  <2> QED  BY <1>1, <1>4, <1>5, <2>2 DEF last
<1>6. CASE b = last
  <2>1. CASE Start(b) + BlockSize <= n
    BY <1>1, <1>2, <1>4, <1>6, <2>1
  <2>2. CASE ~(Start(b) + BlockSize <= n)
    <3>1. n - Start(b) \in Nat /\ n - Start(b) < BlockSize /\ n - Start(b) > 0
      BY <1>1, <1>2, <1>6, <2>2
    <3>2. n = BlockSize * b + (n - Start(b))
      BY <1>1 DEF Start
    <3>3. n % BlockSize = n - Start(b)
      <4> DEFINE rest == n - Start(b)
      <4>1. (BlockSize * b + rest) % BlockSize = rest
        <5>1. rest \in Nat /\ rest < BlockSize
          BY <3>1
        <5> HIDE DEF rest
        <5> QED  BY <1>1, <5>1, DivModUnique
      <4> QED  BY <3>2, <4>1
    <3> QED  BY <1>1, <1>4, <1>6, <2>2, <3>1, <3>3
  <2> QED  BY <2>1, <2>2
<1>7. b < last \/ b = last
  BY <1>1
<1> QED  BY <1>5, <1>6, <1>7

(* The block of a position, and the position in it.                          *)
LEMMA BlockOfPosition ==
  ASSUME NEW n \in Nat \ {0}, NEW pos \in 0 .. n - 1
  PROVE  /\ pos \div BlockSize \in 0 .. NumBlocks(n) - 1
         /\ pos % BlockSize \in 0 .. SizeOfBlock(n, pos \div BlockSize) - 1
         /\ pos = Start(pos \div BlockSize) + (pos % BlockSize)
<1> DEFINE b == pos \div BlockSize
           p == pos % BlockSize
           last == NumBlocks(n) - 1
<1>1. BlockSize \in Nat \ {0}
  BY StartFacts
<1>2. b \in Nat /\ p \in 0 .. BlockSize - 1 /\ pos = BlockSize * b + p
  BY <1>1, DivMod
<1> HIDE DEF b, p
<1>3. pos = Start(b) + p /\ Start(b) \in Nat
  BY <1>1, <1>2 DEF Start
<1>4. last \in Nat /\ n <= Start(last) + BlockSize
  <2>1. NumBlocks(n) = last + 1 /\ last \in Nat
    BY NumBlocksFacts
  <2> HIDE DEF last
  <2> QED  BY <2>1, NumBlocksFacts, StartFacts
<1> HIDE DEF last
<1>5. b \in 0 .. last
  <2> SUFFICES ASSUME last < b  PROVE FALSE
    BY <1>2, <1>4
  <2>1. Start(last) + BlockSize <= Start(b)
    BY <1>2, <1>4, StartFacts
  <2>2. Start(last) \in Nat
    BY <1>4, StartFacts
  <2> QED  BY <1>1, <1>2, <1>3, <1>4, <2>1, <2>2
<1>6. p \in 0 .. SizeOfBlock(n, b) - 1
  <2>1. /\ SizeOfBlock(n, b) \in 1 .. BlockSize
        /\ b < last => SizeOfBlock(n, b) = BlockSize
        /\ b = last => Start(b) + SizeOfBlock(n, b) = n
    BY <1>5, SizeFacts DEF last
  <2>2. b < last \/ b = last
    BY <1>4, <1>5
  <2> QED  BY <1>2, <1>3, <2>1, <2>2
<1> QED  BY <1>3, <1>5, <1>6 DEF b, p, last

-----------------------------------------------------------------------------
(* The recursive functions of the model have one solution, so that a         *)
(* function that solves the equation is what they compute.                   *)

(* m_cur_docid += m_docs_buf[...] + 1, from lo to hi.                        *)
Walks(f, buf, lo, hi, first) ==
  f = [p \in lo .. hi |-> IF p = lo THEN first ELSE U32(f[p - 1] + buf[p] + 1)]

LEMMA WalkIsUnique ==
  ASSUME NEW buf, NEW lo \in Int, NEW hi \in Int, NEW first,
         NEW f, Walks(f, buf, lo, hi, first), NEW g, Walks(g, buf, lo, hi, first)
  PROVE  f = g
<1> DEFINE Good == {p \in lo .. hi : f[p] = g[p]}
<1>1. \A p \in lo .. hi : /\ f[p] = IF p = lo THEN first ELSE U32(f[p - 1] + buf[p] + 1)
                          /\ g[p] = IF p = lo THEN first ELSE U32(g[p - 1] + buf[p] + 1)
  BY DEF Walks
<1>2. ASSUME lo <= hi  PROVE \A p \in lo .. hi : f[p] = g[p]
  <2>1. lo \in Good
    BY <1>1, <1>2
  <2>2. ASSUME NEW n \in lo .. hi - 1, n \in Good  PROVE n + 1 \in Good
    <3>1. n + 1 \in lo .. hi /\ n + 1 # lo /\ (n + 1) - 1 = n
      OBVIOUS
    <3>2. f[n] = g[n]
      BY <2>2
    <3>3. f[n + 1] = U32(f[n] + buf[n + 1] + 1) /\ g[n + 1] = U32(g[n] + buf[n + 1] + 1)
      BY <1>1, <3>1
    <3> QED  BY <3>1, <3>2, <3>3
  <2> HIDE DEF Good
  <2>3. \A n \in lo .. hi : n \in Good
    BY <2>1, <2>2, InductionFrom
  <2> QED  BY <2>3 DEF Good
<1>3. \A p \in lo .. hi : f[p] = g[p]
  BY <1>2
<1>4. f = [p \in lo .. hi |-> f[p]] /\ g = [p \in lo .. hi |-> g[p]]
  BY DEF Walks
<1>5. [p \in lo .. hi |-> f[p]] = [p \in lo .. hi |-> g[p]]
  BY <1>3
<1> QED  BY <1>4, <1>5

LEMMA WalkIsChosen ==
  ASSUME NEW buf, NEW lo \in Int, NEW hi \in Int, NEW first,
         NEW f, Walks(f, buf, lo, hi, first)
  PROVE  (CHOOSE g : Walks(g, buf, lo, hi, first)) = f
<1>1. Walks(CHOOSE g : Walks(g, buf, lo, hi, first), buf, lo, hi, first)
  OBVIOUS
<1> QED  BY <1>1, WalkIsUnique

(* decode() walks a block from its first gap.                                *)
LEMMA PrefixSumValue ==
  ASSUME NEW gaps, Len(gaps) \in Nat, NEW cur_base,
         NEW f, Walks(f, gaps, 1, Len(gaps), U32(gaps[1] + cur_base))
  PROVE  PrefixSum(gaps, cur_base) = f
<1>1. PrefixSum(gaps, cur_base)
        = CHOOSE g : Walks(g, gaps, 1, Len(gaps), U32(gaps[1] + cur_base))
  BY Zenon DEF PrefixSum, Walks
<1>2. 1 \in Int /\ Len(gaps) \in Int
  OBVIOUS
<1> QED  BY <1>1, <1>2, WalkIsChosen

(* The enumerator walks from where it is to the end of the block.            *)
LEMMA DocidAtValue ==
  ASSUME NEW en, en.pos_in_block \in Int, en.cur_block_size \in Int,
         NEW f, Walks(f, en.docs_buf, en.pos_in_block, en.cur_block_size - 1, en.cur_docid)
  PROVE  DocidAt(en) = f
<1>1. DocidAt(en) = CHOOSE g : Walks(g, en.docs_buf, en.pos_in_block,
                                     en.cur_block_size - 1, en.cur_docid)
  BY Zenon DEF DocidAt, Walks
<1>2. en.cur_block_size - 1 \in Int
  OBVIOUS
<1> QED  BY <1>1, <1>2, WalkIsChosen

-----------------------------------------------------------------------------
(* The binary search of next_geq_non_forward.                                *)

(* One turn of it, on the blocks from range[1] to range[2].                  *)
SearchAt(l, lb, search, range) ==
  LET last == NumBlocks(l.n) - 1
      lo == range[1]
      hi == range[2]
      mid == (lo + hi) \div 2
      max == BlockMax(l, mid)
      below == IF mid # 0 THEN mid - 1 ELSE 0
      above == IF mid # last THEN mid + 1 ELSE last
  IN IF hi - lo <= LinearScanThreshold THEN [hit |-> FALSE, block |-> lo]
     ELSE IF lb < max
       THEN IF lb > BlockMax(l, below) THEN [hit |-> FALSE, block |-> lo]
            ELSE search[<<lo, below>>]
     ELSE IF Below(max, lb)
       THEN IF lb < BlockMax(l, above) THEN [hit |-> FALSE, block |-> above]
            ELSE search[<<above, hi>>]
     ELSE [hit |-> TRUE, block |-> mid]

Ranges(last, n) == {r \in (0 .. last) \X (0 .. last) : r[2] - r[1] <= n}

Searches(s, l, lb, last, n) == s = [r \in Ranges(last, n) |-> SearchAt(l, lb, s, r)]

(* A turn looks only at shorter ranges, and so at what two solutions have in *)
(* common.                                                                   *)
LEMMA SearchLooksAtShorter ==
  ASSUME NEW l, NEW lb, NEW last \in Nat, last = NumBlocks(l.n) - 1, NEW n \in Nat,
         NEW r \in Ranges(last, n + 1),
         NEW s, NEW g, \A q \in Ranges(last, n) : s[q] = g[q]
  PROVE  SearchAt(l, lb, s, r) = SearchAt(l, lb, g, r)
<1>1. PICK lo \in 0 .. last, hi \in 0 .. last : r = <<lo, hi>>
  BY DEF Ranges
<1>2. r[1] = lo /\ r[2] = hi /\ hi - lo <= n + 1
  BY <1>1 DEF Ranges
<1> DEFINE mid == (lo + hi) \div 2
           below == IF mid # 0 THEN mid - 1 ELSE 0
           above == IF mid # last THEN mid + 1 ELSE last
<1>3. CASE hi - lo <= LinearScanThreshold
  BY <1>2, <1>3 DEF SearchAt
<1>4. CASE ~(hi - lo <= LinearScanThreshold)
  <2>1. LinearScanThreshold \in Nat \ {0}
    BY BlockListAssumption DEF BlockListAssumption
  <2>2. mid \in lo + 1 .. hi - 1
    BY <1>4, <2>1
  <2>3. <<lo, below>> \in Ranges(last, n) /\ <<above, hi>> \in Ranges(last, n)
    <3>1. below \in 0 .. last /\ above \in 0 .. last /\ below - lo <= n /\ hi - above <= n
      <4> HIDE DEF mid
      <4> QED  BY <1>2, <2>2
    <3> HIDE DEF below, above
    <3> QED  BY <3>1 DEF Ranges
  <2>4. s[<<lo, below>>] = g[<<lo, below>>] /\ s[<<above, hi>>] = g[<<above, hi>>]
    <3> HIDE DEF below, above
    <3> QED  BY <2>3
  <2> QED  BY <1>2, <2>4, Zenon DEF SearchAt
<1> QED  BY <1>3, <1>4

LEMMA SearchExists ==
  ASSUME NEW l, NEW lb, NEW last \in Nat, last = NumBlocks(l.n) - 1
  PROVE  \E s : Searches(s, l, lb, last, last)
<1> DEFINE Good == {n \in Nat : \E s : Searches(s, l, lb, last, n)}
<1>1. 0 \in Good
  <2> DEFINE s == [r \in Ranges(last, 0) |-> [hit |-> FALSE, block |-> r[1]]]
  <2>1. ASSUME NEW r \in Ranges(last, 0)  PROVE SearchAt(l, lb, s, r) = [hit |-> FALSE, block |-> r[1]]
    <3>1. r[2] - r[1] <= LinearScanThreshold
      BY BlockListAssumption DEF BlockListAssumption, Ranges
    <3> HIDE DEF s
    <3> QED  BY <3>1 DEF SearchAt
  <2>2. s = [r \in Ranges(last, 0) |-> SearchAt(l, lb, s, r)]
    <3>1. [r \in Ranges(last, 0) |-> [hit |-> FALSE, block |-> r[1]]]
            = [r \in Ranges(last, 0) |-> SearchAt(l, lb, s, r)]
      <4> HIDE DEF s
      <4> QED  BY <2>1
    <3> QED  BY <3>1
  <2>3. Searches(s, l, lb, last, 0)
    BY <2>2 DEF Searches
  <2> HIDE DEF s
  <2> QED  BY <2>3
<1>2. ASSUME NEW n \in 0 .. last - 1, n \in Good  PROVE n + 1 \in Good
  <2>1. PICK s : Searches(s, l, lb, last, n)
    BY <1>2
  <2> DEFINE g == [r \in Ranges(last, n + 1) |-> SearchAt(l, lb, s, r)]
  <2>2. ASSUME NEW q \in Ranges(last, n)  PROVE s[q] = g[q]
    <3>1. q \in Ranges(last, n + 1)
      BY DEF Ranges
    <3>2. g[q] = SearchAt(l, lb, s, q)
      BY <3>1
    <3>3. s[q] = SearchAt(l, lb, s, q)
      <4>1. s = [r \in Ranges(last, n) |-> SearchAt(l, lb, s, r)]
        BY <2>1 DEF Searches
      <4> QED  BY <4>1, Zenon
    <3> QED  BY <3>2, <3>3
  <2>3. g = [r \in Ranges(last, n + 1) |-> SearchAt(l, lb, g, r)]
    <3>1. ASSUME NEW r \in Ranges(last, n + 1)
          PROVE  SearchAt(l, lb, s, r) = SearchAt(l, lb, g, r)
      <4> HIDE DEF g
      <4> QED  BY <2>2, SearchLooksAtShorter
    <3>2. [r \in Ranges(last, n + 1) |-> SearchAt(l, lb, s, r)]
            = [r \in Ranges(last, n + 1) |-> SearchAt(l, lb, g, r)]
      <4> HIDE DEF g
      <4> QED  BY <3>1
    <3> QED  BY <3>2
  <2>4. Searches(g, l, lb, last, n + 1)
    BY <2>3, Zenon DEF Searches
  <2> HIDE DEF g
  <2> QED  BY <2>4
<1> HIDE DEF Good
<1>3. last \in Good
  <2>1. \A n \in 0 .. last : n \in Good
    BY <1>1, <1>2, InductionFrom
  <2> QED  BY <2>1
<1> QED  BY <1>3 DEF Good

(* The maxima of the blocks grow.                                            *)
Growing(l, last) ==
  /\ \A b \in 0 .. last : BlockMax(l, b) \in Int
  /\ \A b, c \in 0 .. last : b < c => BlockMax(l, b) < BlockMax(l, c)

AllBelow(l, lb, b) == \A c \in 0 .. b - 1 : BlockMax(l, c) < lb

(* A hit is a block that ends with the bound; otherwise no block before the  *)
(* one that is returned has it.                                              *)
Found(l, lb, last, found) ==
  /\ found.block \in 0 .. last
  /\ found.hit => BlockMax(l, found.block) = lb
  /\ ~found.hit => AllBelow(l, lb, found.block)

LEMMA SearchTurn ==
  ASSUME NEW l, NEW lb \in Int, NEW last \in Nat, last = NumBlocks(l.n) - 1,
         Growing(l, last), NEW n \in Nat, NEW r \in Ranges(last, n + 1), NEW s,
         \A q \in Ranges(last, n) : AllBelow(l, lb, q[1]) => Found(l, lb, last, s[q]),
         AllBelow(l, lb, r[1])
  PROVE  Found(l, lb, last, SearchAt(l, lb, s, r))
<1>1. PICK lo \in 0 .. last, hi \in 0 .. last : r = <<lo, hi>>
  BY DEF Ranges
<1>2. r[1] = lo /\ r[2] = hi /\ hi - lo <= n + 1 /\ AllBelow(l, lb, lo)
  BY <1>1 DEF Ranges
<1> DEFINE mid == (lo + hi) \div 2
           below == IF mid # 0 THEN mid - 1 ELSE 0
           above == IF mid # last THEN mid + 1 ELSE last
<1>3. CASE hi - lo <= LinearScanThreshold
  <2>1. SearchAt(l, lb, s, r) = [hit |-> FALSE, block |-> lo]
    BY <1>2, <1>3 DEF SearchAt
  <2> QED  BY <1>2, <2>1 DEF Found
<1>4. CASE ~(hi - lo <= LinearScanThreshold)
  <2>1. LinearScanThreshold \in Nat \ {0}
    BY BlockListAssumption DEF BlockListAssumption
  <2>2. mid \in lo + 1 .. hi - 1
    BY <1>4, <2>1
  <2>3. below = mid - 1 /\ above = mid + 1 /\ mid \in 0 .. last
    <3> HIDE DEF mid
    <3> QED  BY <2>2
  <2>4. <<lo, below>> \in Ranges(last, n) /\ <<above, hi>> \in Ranges(last, n)
    <3>1. below \in 0 .. last /\ above \in 0 .. last /\ below - lo <= n /\ hi - above <= n
      <4> HIDE DEF mid, below, above
      <4> QED  BY <1>2, <2>2, <2>3
    <3> HIDE DEF below, above
    <3> QED  BY <3>1 DEF Ranges
  <2>5. BlockMax(l, mid) \in Int /\ \A c \in 0 .. mid - 1 : BlockMax(l, c) < BlockMax(l, mid)
    <3> HIDE DEF mid
    <3>1. \A c \in 0 .. mid - 1 : c \in 0 .. last /\ c < mid
      BY <2>3
    <3> QED  BY <2>3, <3>1 DEF Growing
  <2>6. CASE lb < BlockMax(l, mid)
    <3>1. SearchAt(l, lb, s, r) = IF lb > BlockMax(l, below) THEN [hit |-> FALSE, block |-> lo]
                                  ELSE s[<<lo, below>>]
      BY <1>2, <1>4, <2>6, Zenon DEF SearchAt
    <3>2. Found(l, lb, last, s[<<lo, below>>])
      <4> HIDE DEF below
      <4>1. (<<lo, below>>)[1] = lo
        OBVIOUS
      <4> QED  BY <1>2, <2>4, <4>1
    <3>3. Found(l, lb, last, [hit |-> FALSE, block |-> lo])
      BY <1>2 DEF Found
    <3> HIDE DEF below
    <3> QED  BY <3>1, <3>2, <3>3
  <2>7. CASE ~(lb < BlockMax(l, mid)) /\ Below(BlockMax(l, mid), lb)
    <3>1. SearchAt(l, lb, s, r) = IF lb < BlockMax(l, above) THEN [hit |-> FALSE, block |-> above]
                                  ELSE s[<<above, hi>>]
      BY <1>2, <1>4, <2>7, Zenon DEF SearchAt
    <3>2. AllBelow(l, lb, above)
      <4> HIDE DEF mid, above
      <4> SUFFICES ASSUME NEW c \in 0 .. above - 1  PROVE BlockMax(l, c) < lb
        BY DEF AllBelow
      <4>1. c = mid \/ c \in 0 .. mid - 1
        BY <2>3
      <4>2. c \in 0 .. last
        BY <2>3, <4>1
      <4>3. BlockMax(l, c) \in Int /\ BlockMax(l, mid) < lb
        BY <2>7, <4>2 DEF Growing, Below
      <4> QED  BY <2>5, <4>1, <4>3
    <3>3. Found(l, lb, last, s[<<above, hi>>])
      <4> HIDE DEF above
      <4>1. (<<above, hi>>)[1] = above
        OBVIOUS
      <4> QED  BY <2>4, <3>2, <4>1
    <3>4. Found(l, lb, last, [hit |-> FALSE, block |-> above])
      <4>1. above \in 0 .. last
        BY <2>4 DEF Ranges
      <4> HIDE DEF above
      <4> QED  BY <3>2, <4>1 DEF Found
    <3> HIDE DEF above
    <3> QED  BY <3>1, <3>3, <3>4
  <2>8. CASE ~(lb < BlockMax(l, mid)) /\ ~Below(BlockMax(l, mid), lb)
    <3>1. SearchAt(l, lb, s, r) = [hit |-> TRUE, block |-> mid]
      BY <1>2, <1>4, <2>8, Zenon DEF SearchAt
    <3>2. BlockMax(l, mid) = lb
      <4> HIDE DEF mid
      <4> QED  BY <2>5, <2>8 DEF Below
    <3> HIDE DEF mid
    <3> QED  BY <2>3, <3>1, <3>2 DEF Found
  <2> QED  BY <2>6, <2>7, <2>8
<1> QED  BY <1>3, <1>4

LEMMA RangesOfAll ==
  ASSUME NEW last \in Nat
  PROVE  /\ Ranges(last, last) = (0 .. last) \X (0 .. last)
         /\ <<0, last>> \in Ranges(last, last)
<1>1. \A r \in (0 .. last) \X (0 .. last) : r[2] - r[1] <= last
  OBVIOUS
<1> QED  BY <1>1 DEF Ranges

LEMMA BinarySearchIs ==
  ASSUME NEW l, NEW lb, NEW last \in Nat, last = NumBlocks(l.n) - 1
  PROVE  \E s : Searches(s, l, lb, last, last) /\ BinarySearch(l, lb) = s[<<0, last>>]
<1> DEFINE All == (0 .. last) \X (0 .. last)
           chosen == CHOOSE s : s = [r \in All |-> SearchAt(l, lb, s, r)]
<1>1. Ranges(last, last) = All
  BY RangesOfAll
<1>2. BinarySearch(l, lb) = chosen[<<0, last>>]
  BY Zenon DEF BinarySearch, SearchAt
<1>3. \E s : s = [r \in All |-> SearchAt(l, lb, s, r)]
  <2>1. PICK w : Searches(w, l, lb, last, last)
    BY SearchExists
  <2>2. w = [r \in All |-> SearchAt(l, lb, w, r)]
    BY <1>1, <2>1, Zenon DEF Searches
  <2> QED  BY <2>2
<1>4. chosen = [r \in All |-> SearchAt(l, lb, chosen, r)]
  BY <1>3, Zenon
<1> HIDE DEF chosen
<1> QED  BY <1>1, <1>2, <1>4 DEF Searches

(* A list of no more than linear_scan_threshold + 1 blocks is not searched.  *)
LEMMA ShortListsAreScanned ==
  ASSUME NEW l, NEW lb, NEW last \in Nat, last = NumBlocks(l.n) - 1,
         last <= LinearScanThreshold
  PROVE  BinarySearch(l, lb).hit = FALSE
<1>1. PICK s : Searches(s, l, lb, last, last) /\ BinarySearch(l, lb) = s[<<0, last>>]
  BY BinarySearchIs
<1>2. PICK r \in Ranges(last, last) : r = <<0, last>> /\ r[1] = 0 /\ r[2] = last
  BY RangesOfAll
<1>3. s[r] = SearchAt(l, lb, s, r)
  BY <1>1, Zenon DEF Searches
<1>4. SearchAt(l, lb, s, r) = [hit |-> FALSE, block |-> 0]
  BY <1>2 DEF SearchAt
<1> QED  BY <1>1, <1>2, <1>3, <1>4

LEMMA BinarySearchFinds ==
  ASSUME NEW l, NEW lb \in Int, NEW last \in Nat, last = NumBlocks(l.n) - 1,
         Growing(l, last)
  PROVE  Found(l, lb, last, BinarySearch(l, lb))
<1>1. <<0, last>> \in Ranges(last, last)
  BY RangesOfAll
<1>2. PICK s : /\ Searches(s, l, lb, last, last)
               /\ BinarySearch(l, lb) = s[<<0, last>>]
  BY BinarySearchIs
<1> DEFINE Good == {n \in Nat : \A r \in Ranges(last, n) :
                                  AllBelow(l, lb, r[1]) => Found(l, lb, last, s[r])}
<1>3. \A r \in Ranges(last, last) : s[r] = SearchAt(l, lb, s, r)
  BY <1>2, Zenon DEF Searches
<1>4. 0 \in Good
  <2> SUFFICES ASSUME NEW r \in Ranges(last, 0), AllBelow(l, lb, r[1])
               PROVE  Found(l, lb, last, s[r])
    BY DEF Good
  <2>1. r \in Ranges(last, last) /\ r[1] \in 0 .. last /\ r[2] - r[1] <= LinearScanThreshold
    BY BlockListAssumption DEF BlockListAssumption, Ranges
  <2>2. s[r] = [hit |-> FALSE, block |-> r[1]]
    BY <1>3, <2>1 DEF SearchAt
  <2> QED  BY <2>1, <2>2 DEF Found
<1>5. ASSUME NEW n \in 0 .. last - 1, n \in Good  PROVE n + 1 \in Good
  <2> SUFFICES ASSUME NEW r \in Ranges(last, n + 1), AllBelow(l, lb, r[1])
               PROVE  Found(l, lb, last, s[r])
    BY DEF Good
  <2>1. \A q \in Ranges(last, n) : AllBelow(l, lb, q[1]) => Found(l, lb, last, s[q])
    BY <1>5 DEF Good
  <2>2. r \in Ranges(last, last)
    BY DEF Ranges
  <2>3. Found(l, lb, last, SearchAt(l, lb, s, r))
    BY <2>1, SearchTurn
  <2> QED  BY <1>3, <2>2, <2>3
<1>6. last \in Good
  <2> HIDE DEF Good
  <2>1. \A n \in 0 .. last : n \in Good
    BY <1>4, <1>5, InductionFrom
  <2> QED  BY <2>1
<1>7. (<<0, last>>)[1] = 0
  OBVIOUS
<1>8. AllBelow(l, lb, 0)
  BY DEF AllBelow
<1>9. Found(l, lb, last, s[<<0, last>>])
  BY <1>1, <1>6, <1>7, <1>8 DEF Good
<1> QED  BY <1>2, <1>9

-----------------------------------------------------------------------------
(* The lists.                                                                *)

LEMMA ListFacts ==
  ASSUME NEW ds \in Lists
  PROVE  /\ Universe \in Nat \ {0} /\ Universe < Modulus /\ Modulus \in Nat
         /\ ds \in Seq(0 .. Universe - 1) /\ Len(ds) \in Nat \ {0}
         /\ \A i \in 1 .. Len(ds) : ds[i] \in 0 .. Universe - 1
         /\ \A i, j \in 1 .. Len(ds) : i < j => ds[i] < ds[j]
         /\ Len(ds) <= Universe
<1>1. /\ Universe \in Nat \ {0} /\ Universe < Modulus /\ Modulus \in Nat
      /\ ds \in Seq(0 .. Universe - 1) /\ Len(ds) \in Nat \ {0}
      /\ \A i \in 1 .. Len(ds) - 1 : ds[i] < ds[i + 1]
  <2>1. Universe \in 1 .. Modulus - 1 /\ Modulus \in Nat \ {0}
    BY EnumeratorAssumption, BlockListAssumption
       DEF EnumeratorAssumption, BlockListAssumption
  <2>2. ds \in Seq(0 .. Universe - 1) /\ Len(ds) > 0
        /\ \A i \in 1 .. Len(ds) - 1 : ds[i] < ds[i + 1]
    BY EnumeratorAssumption DEF EnumeratorAssumption
  <2>3. Len(ds) \in Nat
    BY <2>2, LenProperties
  <2> QED  BY <2>1, <2>2, <2>3
<1> DEFINE n == Len(ds)
<1>2. \A i \in 1 .. n : ds[i] \in 0 .. Universe - 1
  BY <1>1, ElementOfSeq
<1> HIDE DEF n
<1>3. n \in Nat \ {0} /\ \A i \in 1 .. n - 1 : ds[i] < ds[i + 1]
  BY <1>1 DEF n
<1>4. ASSUME NEW i \in 1 .. n, NEW j \in 1 .. n, i < j  PROVE ds[i] < ds[j]
  <2> DEFINE Good == {m \in i + 1 .. n : ds[i] < ds[m]}
  <2>1. i + 1 \in Good
    BY <1>3, <1>4
  <2>2. ASSUME NEW m \in i + 1 .. n - 1, m \in Good  PROVE m + 1 \in Good
    <3>1. m \in 1 .. n - 1 /\ m + 1 \in i + 1 .. n /\ m + 1 \in 1 .. n /\ m \in 1 .. n
      BY <1>3
    <3>2. ds[i] < ds[m] /\ ds[m] < ds[m + 1]
      BY <1>3, <2>2, <3>1
    <3>3. ds[i] \in Int /\ ds[m] \in Int /\ ds[m + 1] \in Int
      BY <1>2, <3>1
    <3> QED  BY <3>1, <3>2, <3>3
  <2> HIDE DEF Good
  <2>3. \A m \in i + 1 .. n : m \in Good
    <3>1. i + 1 \in Int /\ n \in Int
      BY <1>3
    <3> QED  BY <2>1, <2>2, <3>1, InductionFrom
  <2>4. j \in Good
    BY <1>3, <1>4, <2>3
  <2> QED  BY <2>4 DEF Good
<1>5. n <= Universe
  <2> DEFINE Good == {m \in 1 .. n : ds[m] >= m - 1}
  <2>1. 1 \in Good
    BY <1>2, <1>3
  <2>2. ASSUME NEW m \in 1 .. n - 1, m \in Good  PROVE m + 1 \in Good
    <3>1. m + 1 \in 1 .. n /\ m \in 1 .. n
      BY <1>3
    <3>2. ds[m] \in Int /\ ds[m + 1] \in Int /\ ds[m] < ds[m + 1] /\ ds[m] >= m - 1
      BY <1>2, <1>3, <2>2, <3>1
    <3> QED  BY <3>1, <3>2
  <2> HIDE DEF Good
  <2>3. \A m \in 1 .. n : m \in Good
    <3>1. n \in Int
      BY <1>3
    <3> QED  BY <2>1, <2>2, <3>1, InductionFrom
  <2>4. n \in 1 .. n
    BY <1>3
  <2>5. ds[n] >= n - 1 /\ ds[n] \in 0 .. Universe - 1
    BY <1>2, <2>3, <2>4 DEF Good
  <2> QED  BY <1>1, <1>3, <2>5
<1> QED  BY <1>1, <1>2, <1>4, <1>5 DEF n

Blocks(ds) == 0 .. NumBlocks(Len(ds)) - 1

Size(ds, b) == SizeOfBlock(Len(ds), b)

DocAt(ds, b, p) == ds[Start(b) + p + 1]

(* What is known of a block of a list, without its arithmetic.               *)
LEMMA BlockFacts ==
  ASSUME NEW ds \in Lists, NEW b \in Blocks(ds)
  PROVE  /\ b \in Nat /\ Start(b) \in Nat
         /\ Size(ds, b) \in Nat /\ 1 <= Size(ds, b) /\ Size(ds, b) <= BlockSize
         /\ Start(b) + Size(ds, b) <= Len(ds)
         /\ \A p \in 0 .. Size(ds, b) - 1 : /\ Start(b) + p + 1 \in 1 .. Len(ds)
                                            /\ DocAt(ds, b, p) \in 0 .. Universe - 1
         /\ \A p, q \in 0 .. Size(ds, b) - 1 : p < q => DocAt(ds, b, p) < DocAt(ds, b, q)
<1>1. Len(ds) \in Nat \ {0}
  BY ListFacts
<1>2. /\ b \in Nat /\ Start(b) \in Nat
      /\ Size(ds, b) \in 1 .. BlockSize
      /\ Start(b) + Size(ds, b) <= Len(ds)
  BY <1>1, SizeFacts DEF Blocks, Size
<1>3. BlockSize \in Nat
  BY StartFacts
<1>4. Size(ds, b) \in Nat /\ 1 <= Size(ds, b) /\ Size(ds, b) <= BlockSize
  BY <1>2, <1>3
<1>5. ASSUME NEW p \in 0 .. Size(ds, b) - 1  PROVE Start(b) + p + 1 \in 1 .. Len(ds)
  BY <1>1, <1>2, <1>4
<1>6. ASSUME NEW p \in 0 .. Size(ds, b) - 1  PROVE DocAt(ds, b, p) \in 0 .. Universe - 1
  BY <1>5, ListFacts DEF DocAt
<1>7. ASSUME NEW p \in 0 .. Size(ds, b) - 1, NEW q \in 0 .. Size(ds, b) - 1, p < q
      PROVE  DocAt(ds, b, p) < DocAt(ds, b, q)
  <2>1. Start(b) + p + 1 < Start(b) + q + 1
    BY <1>2, <1>4, <1>7
  <2> QED  BY <1>5, <2>1, ListFacts DEF DocAt
<1> QED  BY <1>2, <1>4, <1>5, <1>6, <1>7

(* Blocks follow one another.                                                *)
LEMMA NextBlock ==
  ASSUME NEW ds \in Lists, NEW b \in Blocks(ds)
  PROVE  /\ b = NumBlocks(Len(ds)) - 1 => Start(b) + Size(ds, b) = Len(ds)
         /\ b # NumBlocks(Len(ds)) - 1 =>
              /\ b + 1 \in Blocks(ds) /\ Size(ds, b) = BlockSize
              /\ Start(b + 1) = Start(b) + Size(ds, b)
         /\ \A c \in Blocks(ds) : b < c => Start(b) + Size(ds, b) <= Start(c)
         /\ NumBlocks(Len(ds)) \in Nat \ {0}
<1>1. Len(ds) \in Nat \ {0}
  BY ListFacts
<1>2. NumBlocks(Len(ds)) \in Nat \ {0} /\ b \in Nat
  BY <1>1, NumBlocksFacts DEF Blocks
<1>3. /\ b < NumBlocks(Len(ds)) - 1 => Size(ds, b) = BlockSize
      /\ b = NumBlocks(Len(ds)) - 1 => Start(b) + Size(ds, b) = Len(ds)
  BY <1>1, SizeFacts DEF Blocks, Size
<1>4. b # NumBlocks(Len(ds)) - 1 => b < NumBlocks(Len(ds)) - 1 /\ b + 1 \in Blocks(ds)
  BY <1>2 DEF Blocks
<1>5. Start(b + 1) = Start(b) + BlockSize
  BY <1>2, StartFacts
<1>6. ASSUME NEW c \in Blocks(ds), b < c  PROVE Start(b) + Size(ds, b) <= Start(c)
  <2>1. c \in Nat
    BY <1>2 DEF Blocks
  <2>2. b < NumBlocks(Len(ds)) - 1
    BY <1>2, <1>6 DEF Blocks
  <2> QED  BY <1>2, <1>3, <1>6, <2>1, <2>2, StartFacts
<1> QED  BY <1>2, <1>3, <1>4, <1>5, <1>6

-----------------------------------------------------------------------------
(* What is stored.                                                           *)

(* The gaps and the frequencies of a block as write() encodes them.          *)
GapsOf(ds, b) == [p \in 1 .. Size(ds, b) |-> Gap(ds, Start(b) + p)]

CountsOf(ds, b) == [p \in 1 .. Size(ds, b) |-> Start(b) + p - 1]

DocsItem(ds, b) == [vals |-> GapsOf(ds, b), sum |-> WrittenSum(ds, b), n |-> Size(ds, b)]

FreqsItem(ds, b) == [vals |-> CountsOf(ds, b), sum |-> MinusOne, n |-> Size(ds, b)]

(* Each block can be found through its endpoint, whatever the order.         *)
BlockStored(ds, l, b) ==
  /\ EndpointOf(l, b) \in Nat
  /\ BlockMax(l, b) = DocAt(ds, b, Size(ds, b) - 1)
  /\ l.blocks[EndpointOf(l, b) + 1] = DocsItem(ds, b)
  /\ l.blocks[EndpointOf(l, b) + 2] = FreqsItem(ds, b)

Stored(ds, l) == l.n = Len(ds) /\ \A b \in Blocks(ds) : BlockStored(ds, l, b)

(* BlockVals cuts the block out.                                             *)
LEMMA BlockValsFacts ==
  ASSUME NEW ds \in Lists, NEW b \in Blocks(ds), NEW S, NEW vals \in Seq(S),
         Len(vals) = Len(ds)
  PROVE  /\ BlockVals(vals, b) = [p \in 1 .. Size(ds, b) |-> vals[Start(b) + p]]
         /\ Len(BlockVals(vals, b)) = Size(ds, b)
<1> DEFINE lo == Start(b) + 1
           hi == Start(b) + Size(ds, b)
           cut == SubSeq(vals, lo, hi)
<1>1. /\ Start(b) \in Nat /\ Size(ds, b) \in Nat /\ 1 <= Size(ds, b)
      /\ hi <= Len(ds) /\ Len(ds) \in Nat
  BY BlockFacts, ListFacts
<1>2. lo \in Int /\ hi \in Int /\ \A i \in lo .. hi : vals[i] \in S
  <2>1. \A i \in lo .. hi : i \in 1 .. Len(vals)
    BY <1>1
  <2> HIDE DEF lo, hi
  <2>2. \A i \in lo .. hi : vals[i] \in S
    BY <2>1, ElementOfSeq
  <2> QED  BY <1>1, <2>2 DEF lo, hi
<1>3. hi - lo + 1 = Size(ds, b) /\ lo <= hi
  BY <1>1
<1> HIDE DEF lo, hi
<1>4. /\ cut \in Seq(S) /\ Len(cut) = Size(ds, b)
      /\ \A p \in 1 .. Size(ds, b) : cut[p] = vals[lo + p - 1]
  BY <1>2, <1>3, SubSeqProperties
<1>5. BlockVals(vals, b) = cut
  BY DEF BlockVals, lo, hi, cut, Start, Size
<1>6. \A p \in 1 .. Size(ds, b) : cut[p] = vals[Start(b) + p]
  <2>1. \A p \in 1 .. Size(ds, b) : lo + p - 1 = Start(b) + p
    BY <1>1 DEF lo
  <2> HIDE DEF cut
  <2> QED  BY <1>4, <2>1
<1>7. cut = [p \in 1 .. Size(ds, b) |-> cut[p]]
  <2> HIDE DEF cut
  <2> QED  BY <1>4, LenProperties
<1> HIDE DEF cut
<1>8. [p \in 1 .. Size(ds, b) |-> cut[p]] = [p \in 1 .. Size(ds, b) |-> vals[Start(b) + p]]
  BY <1>6
<1> QED  BY <1>4, <1>5, <1>7, <1>8

(* uint32_t(-1) is before the first docid, and no sum of gaps.               *)
LEMMA MinusOneFacts ==
  MinusOne = Modulus - 1 /\ MinusOne \in Nat /\ U32(MinusOne + 1) = 0
<1>1. Modulus \in Nat \ {0}
  BY BlockListAssumption DEF BlockListAssumption
<1>2. U32(-1) = Modulus - 1
  <2>1. PICK x \in Int : x = -1
    OBVIOUS
  <2>2. 0 - Modulus <= x /\ x < 0 /\ x + Modulus = Modulus - 1
    BY <1>1, <2>1
  <2> QED  BY <2>1, <2>2, Wraps
<1>3. MinusOne = Modulus - 1
  BY <1>2 DEF MinusOne
<1>4. U32(MinusOne + 1) = 0
  <2>1. MinusOne + 1 = Modulus /\ Modulus - Modulus = 0
    BY <1>1, <1>3
  <2>2. U32(Modulus) = Modulus - Modulus
    <3>1. Modulus \in Int /\ Modulus <= Modulus /\ Modulus < 2 * Modulus
      BY <1>1
    <3> QED  BY <3>1, Wraps
  <2> QED  BY <2>1, <2>2
<1> QED  BY <1>1, <1>3, <1>4

(* A gap is the difference to the posting before, less one; the first one    *)
(* is the document itself.                                                   *)
LEMMA GapFacts ==
  ASSUME NEW ds \in Lists, NEW i \in 1 .. Len(ds)
  PROVE  /\ Gap(ds, i) \in Nat /\ Gap(ds, i) < Modulus
         /\ i = 1 => Gap(ds, i) = ds[1]
         /\ i # 1 => i - 1 \in 1 .. Len(ds) /\ Gap(ds, i) = ds[i] - ds[i - 1] - 1
<1>1. /\ Universe \in Nat /\ Universe < Modulus /\ Modulus \in Nat /\ Len(ds) \in Nat
      /\ ds[i] \in 0 .. Universe - 1
  BY ListFacts
<1>2. CASE i = 1
  <2>1. PICK x \in Int : x = ds[i] - MinusOne - 1
    BY <1>1, MinusOneFacts
  <2>2. x = ds[i] - Modulus
    BY <1>1, <2>1, MinusOneFacts
  <2>3. 0 - Modulus <= x /\ x < 0 /\ x + Modulus = ds[i]
    BY <1>1, <2>2
  <2>4. U32(x) = ds[i]
    BY <2>3, Wraps
  <2>5. Gap(ds, i) = ds[i]
    BY <1>2, <2>1, <2>4 DEF Gap
  <2> QED  BY <1>1, <1>2, <2>5
<1>3. CASE i # 1
  <2>1. i - 1 \in 1 .. Len(ds) /\ i - 1 < i
    BY <1>1, <1>3
  <2>2. ds[i - 1] \in 0 .. Universe - 1 /\ ds[i - 1] < ds[i]
    BY <2>1, ListFacts
  <2>3. PICK x \in Int : x = ds[i] - ds[i - 1] - 1
    BY <1>1, <2>2
  <2>4. 0 <= x /\ x < Modulus
    BY <1>1, <2>2, <2>3
  <2>5. U32(x) = x
    BY <2>4, Wraps
  <2>6. Gap(ds, i) = x
    BY <1>3, <2>3, <2>5 DEF Gap
  <2> QED  BY <1>3, <2>1, <2>3, <2>4, <2>6
<1> QED  BY <1>2, <1>3

(* The arguments of Encode in Write.                                         *)
AllGaps(ds) == [i \in 1 .. Len(ds) |-> Gap(ds, i)]

LessOne(ds) == [i \in 1 .. Len(ds) |-> Freqs(ds)[i] - 1]

WrittenItem(ds, k) ==
  LET b == (k - 1) \div 2
  IN IF k % 2 = 1
       THEN Encode(BlockVals(AllGaps(ds), b), WrittenSum(ds, b))
       ELSE Encode(BlockVals(LessOne(ds), b), MinusOne)

LEMMA WrittenList ==
  ASSUME NEW ds
  PROVE  Write(ds, Freqs(ds)) =
           [n |-> Len(ds),
            maxs |-> [k \in 1 .. NumBlocks(Len(ds)) |->
                        ds[(k - 1) * BlockSize + SizeOfBlock(Len(ds), k - 1)]],
            endpoints |-> [k \in 1 .. NumBlocks(Len(ds)) - 1 |-> 2 * k],
            blocks |-> [k \in 1 .. 2 * NumBlocks(Len(ds)) |-> WrittenItem(ds, k)]]
BY Zenon DEF Write, WrittenItem, AllGaps, LessOne

LEMMA WrittenLength ==
  ASSUME NEW ds
  PROVE  Write(ds, Freqs(ds)).n = Len(ds)
<1> DEFINE maxs == [k \in 1 .. NumBlocks(Len(ds)) |->
                      ds[(k - 1) * BlockSize + SizeOfBlock(Len(ds), k - 1)]]
           endpoints == [k \in 1 .. NumBlocks(Len(ds)) - 1 |-> 2 * k]
           blocks == [k \in 1 .. 2 * NumBlocks(Len(ds)) |-> WrittenItem(ds, k)]
<1>1. Write(ds, Freqs(ds)) = [n |-> Len(ds), maxs |-> maxs, endpoints |-> endpoints,
                              blocks |-> blocks]
  BY WrittenList, Zenon
<1> HIDE DEF maxs, endpoints, blocks
<1> QED  BY <1>1

LEMMA EncodedGaps ==
  ASSUME NEW ds \in Lists, NEW b \in Blocks(ds)
  PROVE  Encode(BlockVals(AllGaps(ds), b), WrittenSum(ds, b)) = DocsItem(ds, b)
<1>1. Start(b) \in Nat /\ Size(ds, b) \in Nat /\ Start(b) + Size(ds, b) <= Len(ds)
      /\ Len(ds) \in Nat
  BY BlockFacts, ListFacts
<1>2. PICK vals : vals = AllGaps(ds)
  OBVIOUS
<1>3. vals \in Seq(Int) /\ Len(vals) = Len(ds)
      /\ \A i \in 1 .. Len(ds) : vals[i] = Gap(ds, i)
  BY <1>1, <1>2, GapFacts DEF AllGaps
<1>4. /\ BlockVals(vals, b) = [p \in 1 .. Size(ds, b) |-> vals[Start(b) + p]]
      /\ Len(BlockVals(vals, b)) = Size(ds, b)
  BY <1>3, BlockValsFacts
<1>5. \A p \in 1 .. Size(ds, b) : vals[Start(b) + p] = Gap(ds, Start(b) + p)
  <2>1. \A p \in 1 .. Size(ds, b) : Start(b) + p \in 1 .. Len(ds)
    BY <1>1
  <2> QED  BY <1>3, <2>1
<1>6. BlockVals(vals, b) = GapsOf(ds, b)
  BY <1>4, <1>5 DEF GapsOf
<1> QED  BY <1>2, <1>4, <1>6, Zenon DEF Encode, DocsItem

LEMMA EncodedCounts ==
  ASSUME NEW ds \in Lists, NEW b \in Blocks(ds)
  PROVE  Encode(BlockVals(LessOne(ds), b), MinusOne) = FreqsItem(ds, b)
<1>1. Start(b) \in Nat /\ Size(ds, b) \in Nat /\ Start(b) + Size(ds, b) <= Len(ds)
      /\ Len(ds) \in Nat
  BY BlockFacts, ListFacts
<1>2. PICK vals : vals = LessOne(ds)
  OBVIOUS
<1>3. vals \in Seq(Int) /\ Len(vals) = Len(ds)
      /\ \A i \in 1 .. Len(ds) : vals[i] = i - 1
  BY <1>1, <1>2 DEF LessOne, Freqs
<1>4. /\ BlockVals(vals, b) = [p \in 1 .. Size(ds, b) |-> vals[Start(b) + p]]
      /\ Len(BlockVals(vals, b)) = Size(ds, b)
  BY <1>3, BlockValsFacts
<1>5. ASSUME NEW p \in 1 .. Size(ds, b)  PROVE vals[Start(b) + p] = Start(b) + p - 1
  <2>1. PICK i \in 1 .. Len(ds) : i = Start(b) + p
    BY <1>1
  <2>2. vals[i] = i - 1
    BY <1>3
  <2>3. i - 1 = Start(b) + p - 1
    BY <1>1, <2>1
  <2> QED  BY <2>1, <2>2, <2>3, Zenon
<1>6. BlockVals(vals, b) = CountsOf(ds, b)
  BY <1>4, <1>5 DEF CountsOf
<1> QED  BY <1>2, <1>4, <1>6, Zenon DEF Encode, FreqsItem

(* The items of a list that was written: 2b and 2b + 1, of block b.          *)
LEMMA WrittenItems ==
  ASSUME NEW ds \in Lists, NEW l, l = Write(ds, Freqs(ds)), NEW b \in Blocks(ds)
  PROVE  /\ l.n = Len(ds)
         /\ BlockMax(l, b) = DocAt(ds, b, Size(ds, b) - 1)
         /\ l.blocks[2 * b + 1] = DocsItem(ds, b)
         /\ l.blocks[2 * b + 2] = FreqsItem(ds, b)
         /\ EndpointOf(l, b) = 2 * b
<1>1. PICK n \in Nat \ {0}, count \in Nat \ {0} : n = Len(ds) /\ count = NumBlocks(n)
  <2>1. Len(ds) \in Nat \ {0}
    BY ListFacts
  <2> QED  BY <2>1, NumBlocksFacts
<1>2. /\ l.n = n
      /\ \A k \in 1 .. count : l.maxs[k] = ds[(k - 1) * BlockSize + SizeOfBlock(n, k - 1)]
      /\ \A k \in 1 .. count - 1 : l.endpoints[k] = 2 * k
      /\ \A k \in 1 .. 2 * count : l.blocks[k] = WrittenItem(ds, k)
  <2> DEFINE maxs == [k \in 1 .. count |-> ds[(k - 1) * BlockSize + SizeOfBlock(n, k - 1)]]
             endpoints == [k \in 1 .. count - 1 |-> 2 * k]
             blocks == [k \in 1 .. 2 * count |-> WrittenItem(ds, k)]
  <2>1. l = [n |-> n, maxs |-> maxs, endpoints |-> endpoints, blocks |-> blocks]
    BY <1>1, WrittenList, Zenon
  <2>2. l.n = n /\ l.maxs = maxs /\ l.endpoints = endpoints /\ l.blocks = blocks
    <3> HIDE DEF maxs, endpoints, blocks
    <3> QED  BY <2>1
  <2> QED  BY <2>2
<1>3. /\ b \in Nat /\ b < count /\ Start(b) \in Nat
      /\ Size(ds, b) \in Nat /\ 1 <= Size(ds, b)
  BY <1>1, BlockFacts DEF Blocks
<1>4. BlockMax(l, b) = DocAt(ds, b, Size(ds, b) - 1)
  <2>1. b + 1 \in 1 .. count /\ (b + 1) - 1 = b
    BY <1>1, <1>3
  <2>2. l.maxs[b + 1] = ds[b * BlockSize + SizeOfBlock(n, b)]
    BY <1>2, <2>1
  <2>3. Start(b) + (Size(ds, b) - 1) + 1 = Start(b) + Size(ds, b)
    BY <1>3
  <2>4. Start(b) + Size(ds, b) = b * BlockSize + SizeOfBlock(n, b)
    BY <1>1 DEF Start, Size
  <2> QED  BY <2>2, <2>3, <2>4, Zenon DEF BlockMax, DocAt
<1>5. l.blocks[2 * b + 1] = DocsItem(ds, b)
  <2>1. PICK k \in 1 .. 2 * count : k = 2 * b + 1 /\ k % 2 = 1 /\ (k - 1) \div 2 = b
    BY <1>1, <1>3
  <2>2. WrittenItem(ds, k) = Encode(BlockVals(AllGaps(ds), b), WrittenSum(ds, b))
    BY <2>1, Zenon DEF WrittenItem
  <2> QED  BY <1>2, <2>1, <2>2, EncodedGaps
<1>6. l.blocks[2 * b + 2] = FreqsItem(ds, b)
  <2>1. PICK k \in 1 .. 2 * count : k = 2 * b + 2 /\ ~(k % 2 = 1) /\ (k - 1) \div 2 = b
    BY <1>1, <1>3
  <2>2. WrittenItem(ds, k) = Encode(BlockVals(LessOne(ds), b), MinusOne)
    BY <2>1, Zenon DEF WrittenItem
  <2> QED  BY <1>2, <2>1, <2>2, EncodedCounts
<1>7. EndpointOf(l, b) = 2 * b
  <2>1. CASE b = 0
    BY <2>1 DEF EndpointOf
  <2>2. CASE b # 0
    <3>1. b \in 1 .. count - 1
      BY <1>1, <1>3, <2>2
    <3>2. l.endpoints[b] = 2 * b
      BY <1>2, <3>1
    <3> QED  BY <2>2, <3>2 DEF EndpointOf
  <2> QED  BY <2>1, <2>2
<1> QED  BY <1>1, <1>2, <1>4, <1>5, <1>6, <1>7
LEMMA WrittenStored ==
  ASSUME NEW ds \in Lists
  PROVE  Stored(ds, Write(ds, Freqs(ds)))
<1>1. PICK l : l = Write(ds, Freqs(ds))
  OBVIOUS
<1>2. ASSUME NEW b \in Blocks(ds)  PROVE BlockStored(ds, l, b)
  <2>1. /\ BlockMax(l, b) = DocAt(ds, b, Size(ds, b) - 1)
        /\ l.blocks[2 * b + 1] = DocsItem(ds, b)
        /\ l.blocks[2 * b + 2] = FreqsItem(ds, b)
        /\ EndpointOf(l, b) = 2 * b
    BY <1>1, WrittenItems
  <2>2. 2 * b \in Nat
    BY BlockFacts
  <2> QED  BY <2>1, <2>2, Zenon DEF BlockStored
<1>3. l.n = Len(ds)
  BY <1>1, WrittenLength, Zenon
<1> QED  BY <1>1, <1>2, <1>3, Zenon DEF Stored

(* An order of different things has each of them once.                       *)
Different(n, things) == \A i, j \in 1 .. n : things[i] = things[j] => i = j

HasEach(n, things, order) ==
  /\ Len(order) = n
  /\ \A i, j \in 1 .. n : i # j => order[i] # order[j]
  /\ \A i \in 1 .. n : \E k \in 1 .. n : order[i] = things[k]
  /\ \A k \in 1 .. n : \E i \in 1 .. n : order[i] = things[k]

LEMMA OrderFacts ==
  ASSUME NEW n \in Nat, NEW things, DOMAIN things = 1 .. n, Different(n, things),
         NEW order \in SetToSeqs(ToSet(things))
  PROVE  HasEach(n, things, order)
<1> DEFINE S == ToSet(things)
           f == [k \in 1 .. n |-> things[k]]
<1>1. S = {things[k] : k \in 1 .. n}
  BY DEF ToSet
<1>2. f \in Bijection(1 .. n, S)
  BY <1>1 DEF Different, Bijection, Injection, Surjection, IsInjective
<1> HIDE DEF f, S
<1>3. IsFiniteSet(S) /\ Cardinality(S) = n
  <2>1. IsFiniteSet(1 .. n) /\ Cardinality(1 .. n) = n
    BY FS_Interval
  <2> QED  BY <1>2, <2>1, FS_Bijection DEF ExistsBijection
<1>4. order \in [1 .. n -> S] /\ \A i, j \in 1 .. n : i # j => order[i] # order[j]
  BY <1>3 DEF SetToSeqs, S
<1>5. Len(order) = n
  <2>1. order \in Seq(S)
    BY <1>4
  <2> QED  BY <1>4, <2>1, LenProperties
<1>6. order \in Surjection(1 .. n, S)
  <2>1. order \in Injection(1 .. n, S)
    BY <1>4 DEF Injection, IsInjective
  <2>2. Cardinality(1 .. n) = n
    BY FS_Interval
  <2> QED  BY <1>3, <2>1, <2>2, FS_Injection
<1>7. \A t \in S : \E i \in 1 .. n : order[i] = t
  BY <1>6 DEF Surjection
<1>8. ASSUME NEW i \in 1 .. n  PROVE \E k \in 1 .. n : order[i] = things[k]
  <2>1. order[i] \in S
    BY <1>4
  <2> QED  BY <1>1, <2>1
<1>9. ASSUME NEW k \in 1 .. n  PROVE \E i \in 1 .. n : order[i] = things[k]
  <2>1. things[k] \in S
    BY <1>1
  <2> QED  BY <1>7, <2>1
<1> QED  BY <1>4, <1>5, <1>8, <1>9 DEF HasEach

LEMMA LaidOutStored ==
  ASSUME NEW ds \in Lists,
         NEW order \in BlockOrders(GetBlocks(Write(ds, Freqs(ds))))
  PROVE  Stored(ds, WriteBlocks(Len(ds), order))
<1>1. PICK w : w = Write(ds, Freqs(ds))
  OBVIOUS
<1>2. PICK count \in Nat \ {0} : count = NumBlocks(Len(ds))
  BY ListFacts, NumBlocksFacts
<1> DEFINE Got(k) == [index |-> k - 1, max |-> BlockMax(w, k - 1),
                      docs |-> w.blocks[2 * k - 1], freqs |-> w.blocks[2 * k]]
<1>3. PICK things : things = GetBlocks(w)
  OBVIOUS
<1>4. things = [k \in 1 .. count |-> Got(k)]
  <2>1. w.n = Len(ds)
    BY <1>1, WrittenLength, Zenon
  <2> QED  BY <1>2, <1>3, <2>1, Zenon DEF GetBlocks
<1>5. DOMAIN things = 1 .. count /\ \A k \in 1 .. count : things[k] = Got(k)
  BY <1>4
<1>6. \A k \in 1 .. count : things[k].index = k - 1
  BY <1>5
<1>7. order \in SetToSeqs(ToSet(things)) /\ order[1] = things[1]
  BY <1>1, <1>3 DEF BlockOrders
<1>8. /\ Len(order) = count
      /\ \A i, j \in 1 .. count : i # j => order[i] # order[j]
      /\ \A i \in 1 .. count : \E k \in 1 .. count : order[i] = things[k]
      /\ \A k \in 1 .. count : \E i \in 1 .. count : order[i] = things[k]
  <2>1. Different(count, things)
    <3> SUFFICES ASSUME NEW i \in 1 .. count, NEW j \in 1 .. count, things[i] = things[j]
                 PROVE  i = j
      BY DEF Different
    <3>1. i - 1 = j - 1
      BY <1>6
    <3> QED  BY <3>1
  <2>2. count \in Nat /\ DOMAIN things = 1 .. count
    BY <1>5
  <2> HIDE DEF Got
  <2>3. HasEach(count, things, order)
    BY <1>7, <2>1, <2>2, OrderFacts
  <2> QED  BY <2>3 DEF HasEach
<1> DEFINE Where(b) == CHOOSE k \in 1 .. Len(order) : order[k].index = b
           Laid(k) == LET block == order[(k + 1) \div 2]
                      IN IF k % 2 = 1 THEN block.docs ELSE block.freqs
<1>9. PICK l : l = WriteBlocks(Len(ds), order)
  OBVIOUS
<1>10. /\ l.n = Len(ds)
       /\ \A k \in 1 .. count : l.maxs[k] = order[Where(k - 1)].max
       /\ \A k \in 1 .. count - 1 : l.endpoints[k] = 2 * (Where(k) - 1)
       /\ \A k \in 1 .. 2 * count : l.blocks[k] = Laid(k)
  <2> DEFINE maxs == [k \in 1 .. Len(order) |-> order[Where(k - 1)].max]
             endpoints == [k \in 1 .. Len(order) - 1 |-> 2 * (Where(k) - 1)]
             blocks == [k \in 1 .. 2 * Len(order) |-> Laid(k)]
  <2>1. l = [n |-> Len(ds), maxs |-> maxs, endpoints |-> endpoints, blocks |-> blocks]
    BY <1>9, Zenon DEF WriteBlocks
  <2>2. l.n = Len(ds) /\ l.maxs = maxs /\ l.endpoints = endpoints /\ l.blocks = blocks
    <3> HIDE DEF maxs, endpoints, blocks
    <3> QED  BY <2>1
  <2> HIDE DEF Where, Laid
  <2>3. Len(order) = count
    BY <1>8
  <2> QED  BY <2>2, <2>3
<1>11. ASSUME NEW b \in Blocks(ds)  PROVE BlockStored(ds, l, b)
  <2>1. b \in Nat /\ b < count /\ b + 1 \in 1 .. count
    BY <1>2, BlockFacts DEF Blocks
  <2>2. PICK at \in 1 .. count : at = Where(b) /\ order[at] = things[b + 1]
    <3>1. \E k \in 1 .. count : order[k].index = b
      <4>1. PICK k \in 1 .. count : order[k] = things[b + 1]
        BY <1>8, <2>1
      <4>2. things[b + 1].index = (b + 1) - 1
        BY <1>6, <2>1
      <4>3. (b + 1) - 1 = b
        BY <2>1
      <4> QED  BY <4>1, <4>2, <4>3, Zenon
    <3>2. Where(b) \in 1 .. count /\ order[Where(b)].index = b
      <4>1. Len(order) = count
        BY <1>8
      <4> QED  BY <3>1, <4>1, Zenon
    <3>3. PICK at \in 1 .. count : at = Where(b) /\ order[at].index = b
      BY <3>2, Zenon
    <3>4. PICK k \in 1 .. count : order[at] = things[k]
      BY <1>8
    <3>5. k - 1 = b
      BY <1>6, <3>3, <3>4
    <3>6. k = b + 1
      BY <2>1, <3>5
    <3> HIDE DEF Where
    <3> QED  BY <3>3, <3>4, <3>6
  <2>3. /\ things[b + 1].max = DocAt(ds, b, Size(ds, b) - 1)
        /\ things[b + 1].docs = DocsItem(ds, b)
        /\ things[b + 1].freqs = FreqsItem(ds, b)
    <3>1. /\ BlockMax(w, b) = DocAt(ds, b, Size(ds, b) - 1)
          /\ w.blocks[2 * b + 1] = DocsItem(ds, b)
          /\ w.blocks[2 * b + 2] = FreqsItem(ds, b)
      BY <1>1, WrittenItems
    <3>2. PICK k \in 1 .. count : /\ k = b + 1 /\ k - 1 = b
                                  /\ 2 * k - 1 = 2 * b + 1 /\ 2 * k = 2 * b + 2
      BY <2>1
    <3>3. things[k].max = BlockMax(w, b) /\ things[k].docs = w.blocks[2 * b + 1]
          /\ things[k].freqs = w.blocks[2 * b + 2]
      <4>1. things[k] = [index |-> b, max |-> BlockMax(w, b),
                         docs |-> w.blocks[2 * b + 1], freqs |-> w.blocks[2 * b + 2]]
        BY <1>5, <3>2, Zenon
      <4> QED  BY <4>1
    <3> QED  BY <3>1, <3>2, <3>3
  <2>4. BlockMax(l, b) = DocAt(ds, b, Size(ds, b) - 1)
    <3>1. PICK k \in 1 .. count : k = b + 1 /\ k - 1 = b
      BY <2>1
    <3> HIDE DEF Where, Laid
    <3>2. l.maxs[k] = order[Where(k - 1)].max
      BY <1>10
    <3>3. l.maxs[k] = order[at].max
      BY <2>2, <3>1, <3>2, Zenon
    <3> QED  BY <2>2, <2>3, <3>1, <3>3, Zenon DEF BlockMax
  <2>5. EndpointOf(l, b) = 2 * (at - 1)
    <3>1. CASE b = 0
      <4>1. at = 1
        <5>1. order[1] = order[at] /\ 1 \in 1 .. count
          BY <1>7, <2>2, <3>1
        <5> QED  BY <1>8, <2>2, <5>1
      <4> QED  BY <3>1, <4>1 DEF EndpointOf
    <3>2. CASE b # 0
      <4>1. b \in 1 .. count - 1
        BY <2>1, <3>2
      <4>2. l.endpoints[b] = 2 * (at - 1)
        BY <1>10, <2>2, <4>1, Zenon
      <4> QED  BY <3>2, <4>2, Zenon DEF EndpointOf
    <3> QED  BY <3>1, <3>2
  <2>6. l.blocks[EndpointOf(l, b) + 1] = DocsItem(ds, b)
    <3>1. PICK k \in 1 .. 2 * count : /\ k = 2 * (at - 1) + 1
                                      /\ k % 2 = 1 /\ (k + 1) \div 2 = at
      <4>1. PICK k \in Int : k = 2 * (at - 1) + 1
        OBVIOUS
      <4>2. k \in 1 .. 2 * count /\ k % 2 = 1 /\ (k + 1) \div 2 = at
        BY <4>1
      <4> QED  BY <4>1, <4>2, Zenon
    <3>2. Laid(k) = order[at].docs
      BY <3>1, Zenon
    <3> HIDE DEF Where, Laid
    <3>3. l.blocks[k] = order[at].docs
      BY <1>10, <3>2
    <3> QED  BY <2>2, <2>3, <2>5, <3>1, <3>3, Zenon
  <2>7. l.blocks[EndpointOf(l, b) + 2] = FreqsItem(ds, b)
    <3>1. PICK k \in 1 .. 2 * count : /\ k = 2 * (at - 1) + 2
                                      /\ ~(k % 2 = 1) /\ (k + 1) \div 2 = at
      <4>1. PICK k \in Int : k = 2 * (at - 1) + 2
        OBVIOUS
      <4>2. k \in 1 .. 2 * count /\ ~(k % 2 = 1) /\ (k + 1) \div 2 = at
        BY <4>1
      <4> QED  BY <4>1, <4>2, Zenon
    <3>2. Laid(k) = order[at].freqs
      BY <3>1, Zenon
    <3> HIDE DEF Where, Laid
    <3>3. l.blocks[k] = order[at].freqs
      BY <1>10, <3>2
    <3> QED  BY <2>2, <2>3, <2>5, <3>1, <3>3, Zenon
  <2>8. 2 * (at - 1) \in Nat
    BY <2>2
  <2> QED  BY <2>4, <2>5, <2>6, <2>7, <2>8, Zenon DEF BlockStored
<1> QED  BY <1>9, <1>10, <1>11 DEF Stored

-----------------------------------------------------------------------------
(* What is decoded.                                                          *)

(* The first docid a block could have, as the writer and the reader know it. *)
LEMMA CurBaseFacts ==
  ASSUME NEW ds \in Lists, NEW l, Stored(ds, l), NEW b \in Blocks(ds)
  PROVE  /\ b = 0 => Start(b) = 0 /\ CurBase(l, b) = 0
         /\ b # 0 => Start(b) \in 1 .. Len(ds) /\ CurBase(l, b) = ds[Start(b)] + 1
<1>1. CASE b = 0
  <2>1. CurBase(l, b) = 0
    BY <1>1, MinusOneFacts DEF CurBase
  <2> QED  BY <1>1, <2>1, StartFacts
<1>2. CASE b # 0
  <2>1. PICK c \in Nat : c = b - 1 /\ b = c + 1
    BY <1>2, BlockFacts
  <2>2. c \in Blocks(ds) /\ c # NumBlocks(Len(ds)) - 1
    <3>1. PICK count \in Nat : count = NumBlocks(Len(ds))
      BY NextBlock
    <3> QED  BY <2>1, <3>1 DEF Blocks
  <2>3. /\ Start(b) = Start(c) + Size(ds, c)
        /\ Size(ds, c) \in Nat /\ 1 <= Size(ds, c) /\ Start(c) \in Nat
        /\ Start(c) + Size(ds, c) <= Len(ds)
    BY <2>1, <2>2, NextBlock, BlockFacts
  <2>4. Start(c) + (Size(ds, c) - 1) + 1 = Start(b)
    BY <2>3
  <2>5. BlockMax(l, c) = ds[Start(b)]
    <3>1. BlockMax(l, c) = DocAt(ds, c, Size(ds, c) - 1)
      BY <2>2 DEF Stored, BlockStored
    <3> QED  BY <2>4, <3>1, Zenon DEF DocAt
  <2>6. Start(b) \in 1 .. Len(ds)
    BY <2>3, ListFacts
  <2>7. PICK x \in Int : x = ds[Start(b)] + 1 /\ 0 <= x /\ x < Modulus
    BY <2>6, ListFacts, SMTT(30)
  <2>8. U32(x) = x
    BY <2>7, Wraps
  <2>9. CurBase(l, b) = U32(x)
    BY <1>2, <2>1, <2>5, <2>7 DEF CurBase
  <2> QED  BY <1>2, <2>6, <2>7, <2>8, <2>9
<1> QED  BY <1>1, <1>2

(* The reader's universe of the gaps is the writer's sum of them.            *)
LEMMA SumIsUniverse ==
  ASSUME NEW ds \in Lists, NEW l, Stored(ds, l), NEW b \in Blocks(ds)
  PROVE  /\ U32(BlockMax(l, b) - CurBase(l, b) - (Size(ds, b) - 1)) = WrittenSum(ds, b)
         /\ GapsUniverse(l, b) = WrittenSum(ds, b)
         /\ SizeOfBlock(l.n, b) = Size(ds, b)
<1>1. Start(b) \in Nat /\ Size(ds, b) \in Nat /\ 1 <= Size(ds, b)
  BY BlockFacts
<1>2. PICK last : /\ last = ds[Start(b) + Size(ds, b)]
                  /\ BlockMax(l, b) = last
  <2>1. BlockMax(l, b) = DocAt(ds, b, Size(ds, b) - 1)
    BY DEF Stored, BlockStored
  <2>2. Start(b) + (Size(ds, b) - 1) + 1 = Start(b) + Size(ds, b)
    BY <1>1
  <2> QED  BY <2>1, <2>2, Zenon DEF DocAt
<1>3. PICK base : /\ base = IF b = 0 THEN 0 ELSE ds[Start(b)] + 1
                  /\ CurBase(l, b) = base
  BY CurBaseFacts
<1>4. WrittenSum(ds, b) = U32(last - base - (Size(ds, b) - 1))
  BY <1>2, <1>3, Zenon DEF WrittenSum, Start, Size
<1>5. SizeOfBlock(l.n, b) = Size(ds, b)
  BY DEF Stored, Size
<1>6. U32(BlockMax(l, b) - CurBase(l, b) - (Size(ds, b) - 1)) = WrittenSum(ds, b)
  BY <1>2, <1>3, <1>4, Zenon
<1> QED  BY <1>5, <1>6, Zenon DEF GapsUniverse

(* What decode_docs_block and decode() read of a block are its gaps.         *)
LEMMA DecodedGaps ==
  ASSUME NEW ds \in Lists, NEW l, Stored(ds, l), NEW b \in Blocks(ds)
  PROVE  DecodeItem(l.blocks[EndpointOf(l, b) + 1], WrittenSum(ds, b), Size(ds, b))
           = GapsOf(ds, b)
<1>1. PICK item : item = DocsItem(ds, b)
  OBVIOUS
<1>2. l.blocks[EndpointOf(l, b) + 1] = item
  BY <1>1 DEF Stored, BlockStored
<1>3. item.sum = WrittenSum(ds, b) /\ item.n = Size(ds, b) /\ item.vals = GapsOf(ds, b)
  BY <1>1 DEF DocsItem
<1> QED  BY <1>2, <1>3, Zenon DEF DecodeItem

LEMMA DecodedCounts ==
  ASSUME NEW ds \in Lists, NEW l, Stored(ds, l), NEW b \in Blocks(ds)
  PROVE  DecodeItem(l.blocks[EndpointOf(l, b) + 2], MinusOne, Size(ds, b))
           = CountsOf(ds, b)
<1>1. PICK item : item = FreqsItem(ds, b)
  OBVIOUS
<1>2. l.blocks[EndpointOf(l, b) + 2] = item
  BY <1>1 DEF Stored, BlockStored
<1>3. item.sum = MinusOne /\ item.n = Size(ds, b) /\ item.vals = CountsOf(ds, b)
  BY <1>1 DEF FreqsItem
<1> QED  BY <1>2, <1>3, Zenon DEF DecodeItem

(* The first gap of a block leads to its first document, each other one from *)
(* the document before it to its own.                                        *)
LEMMA GapsLead ==
  ASSUME NEW ds \in Lists, NEW l, Stored(ds, l), NEW b \in Blocks(ds)
  PROVE  /\ U32(GapsOf(ds, b)[1] + CurBase(l, b)) = DocAt(ds, b, 0)
         /\ \A p \in 1 .. Size(ds, b) - 1 :
              /\ Gap(ds, Start(b) + p + 1) \in UInt32
              /\ U32(DocAt(ds, b, p - 1) + Gap(ds, Start(b) + p + 1) + 1)
                   = DocAt(ds, b, p)
<1>1. /\ Start(b) \in Nat /\ Size(ds, b) \in Nat /\ 1 <= Size(ds, b)
      /\ Start(b) + Size(ds, b) <= Len(ds) /\ Len(ds) \in Nat
      /\ Universe < Modulus /\ Universe \in Nat /\ Modulus \in Nat
  BY BlockFacts, ListFacts
<1>2. U32(GapsOf(ds, b)[1] + CurBase(l, b)) = DocAt(ds, b, 0)
  <2>1. PICK i \in 1 .. Len(ds) : i = Start(b) + 1
    BY <1>1
  <2>2. GapsOf(ds, b)[1] = Gap(ds, i)
    BY <1>1, <2>1 DEF GapsOf
  <2>3. ds[i] \in 0 .. Universe - 1 /\ U32(ds[i]) = ds[i]
    <3>1. ds[i] \in 0 .. Universe - 1
      BY ListFacts
    <3>2. ds[i] \in Int /\ 0 <= ds[i] /\ ds[i] < Modulus
      BY <1>1, <3>1
    <3> QED  BY <3>1, <3>2, Wraps
  <2>4. Gap(ds, i) + CurBase(l, b) = ds[i]
    <3>1. CASE b = 0
      <4>1. Start(b) = 0 /\ CurBase(l, b) = 0
        BY <3>1, CurBaseFacts
      <4>2. i = 1
        BY <2>1, <4>1
      <4>3. Gap(ds, i) = ds[i]
        BY <4>2, GapFacts
      <4> QED  BY <2>3, <4>1, <4>3
    <3>2. CASE b # 0
      <4>1. Start(b) \in 1 .. Len(ds) /\ CurBase(l, b) = ds[Start(b)] + 1
        BY <3>2, CurBaseFacts
      <4>2. i # 1 /\ i - 1 = Start(b)
        BY <1>1, <2>1, <4>1
      <4>3. Gap(ds, i) = ds[i] - ds[i - 1] - 1
        BY <4>2, GapFacts
      <4>4. ds[Start(b)] \in Int /\ ds[i] \in Int
        BY <2>3, <4>1, ListFacts, SMTT(30)
      <4> QED  BY <4>1, <4>2, <4>3, <4>4
    <3> QED  BY <3>1, <3>2
  <2>5. DocAt(ds, b, 0) = ds[i]
    <3>1. Start(b) + 0 + 1 = i
      BY <1>1, <2>1
    <3> QED  BY <3>1, Zenon DEF DocAt
  <2> QED  BY <2>2, <2>3, <2>4, <2>5
<1>3. ASSUME NEW p \in 1 .. Size(ds, b) - 1
      PROVE  /\ Gap(ds, Start(b) + p + 1) \in UInt32
             /\ U32(DocAt(ds, b, p - 1) + Gap(ds, Start(b) + p + 1) + 1)
                  = DocAt(ds, b, p)
  <2>1. PICK i \in 1 .. Len(ds) : /\ i = Start(b) + p + 1 /\ i # 1
                                  /\ i - 1 = Start(b) + (p - 1) + 1 /\ i - 1 \in 1 .. Len(ds)
    BY <1>1, SMTT(30)
  <2>2. /\ Gap(ds, i) \in Nat /\ Gap(ds, i) < Modulus
        /\ Gap(ds, i) = ds[i] - ds[i - 1] - 1
    BY <2>1, GapFacts
  <2>3. ds[i] \in 0 .. Universe - 1 /\ ds[i - 1] \in 0 .. Universe - 1
    BY <2>1, ListFacts
  <2>4. PICK x \in Int : /\ x = ds[i - 1] + Gap(ds, i) + 1 /\ x = ds[i]
                         /\ 0 <= x /\ x < Modulus
    BY <1>1, <2>2, <2>3, SMTT(60)
  <2>5. U32(x) = x
    BY <2>4, Wraps
  <2>6. DocAt(ds, b, p - 1) = ds[i - 1] /\ DocAt(ds, b, p) = ds[i]
    BY <2>1, Zenon DEF DocAt
  <2>7. Gap(ds, i) \in UInt32
    BY <1>1, <2>2 DEF UInt32
  <2> QED  BY <2>1, <2>4, <2>5, <2>6, <2>7, Zenon
<1> QED  BY <1>2, <1>3

(* The docids of a block from position lo on.                                *)
DocsFrom(ds, b, lo) == [p \in lo .. Size(ds, b) - 1 |-> DocAt(ds, b, p)]

(* decode() gives back the postings.                                         *)
LEMMA DecodedBlock ==
  ASSUME NEW ds \in Lists, NEW l, Stored(ds, l), NEW b \in Blocks(ds)
  PROVE  PrefixSum(GapsOf(ds, b), CurBase(l, b))
           = [p \in 1 .. Size(ds, b) |-> DocAt(ds, b, p - 1)]
<1>1. PICK size \in Nat : size = Size(ds, b) /\ 1 <= size
  BY BlockFacts
<1>2. PICK gaps : gaps = GapsOf(ds, b)
  OBVIOUS
<1>3. Len(gaps) = size /\ \A p \in 1 .. size : gaps[p] = Gap(ds, Start(b) + p)
  <2>1. gaps = [p \in 1 .. size |-> Gap(ds, Start(b) + p)]
    BY <1>1, <1>2 DEF GapsOf
  <2> QED  BY <2>1
<1> DEFINE f == [p \in 1 .. size |-> DocAt(ds, b, p - 1)]
           first == U32(gaps[1] + CurBase(l, b))
<1>4. ASSUME NEW p \in 1 .. size
      PROVE  f[p] = IF p = 1 THEN first ELSE U32(f[p - 1] + gaps[p] + 1)
  <2>1. CASE p = 1
    <3>1. first = DocAt(ds, b, 0)
      BY <1>2, GapsLead
    <3>2. f[p] = DocAt(ds, b, 0)
      <4>1. p - 1 = 0
        BY <2>1
      <4> QED  BY <4>1
    <3> HIDE DEF f, first
    <3> QED  BY <2>1, <3>1, <3>2
  <2>2. CASE p # 1
    <3>1. PICK q \in 1 .. Size(ds, b) - 1 : /\ q = p - 1 /\ p = q + 1 /\ q \in 1 .. size
                                            /\ Start(b) + p = Start(b) + q + 1
      BY <1>1, <2>2, BlockFacts
    <3>2. U32(DocAt(ds, b, q - 1) + Gap(ds, Start(b) + q + 1) + 1) = DocAt(ds, b, q)
      BY GapsLead
    <3>3. f[p] = DocAt(ds, b, q) /\ f[q] = DocAt(ds, b, q - 1)
      BY <3>1
    <3>4. gaps[p] = Gap(ds, Start(b) + q + 1)
      BY <1>3, <3>1
    <3> HIDE DEF f, first
    <3> QED  BY <2>2, <3>1, <3>2, <3>3, <3>4, Zenon
  <2> QED  BY <2>1, <2>2
<1>5. Walks(f, gaps, 1, Len(gaps), first)
  <2> DEFINE g == [p \in 1 .. size |-> IF p = 1 THEN first ELSE U32(f[p - 1] + gaps[p] + 1)]
  <2>1. f = [p \in 1 .. size |-> f[p]]
    OBVIOUS
  <2> HIDE DEF f, first
  <2>2. f = g
    BY <1>4, <2>1
  <2> QED  BY <1>3, <2>2, Zenon DEF Walks
<1>6. PrefixSum(gaps, CurBase(l, b)) = f
  <2> HIDE DEF f
  <2>1. Len(gaps) \in Nat
    BY <1>3
  <2> QED  BY <1>5, <2>1, PrefixSumValue
<1> QED  BY <1>1, <1>2, <1>6, Zenon

LEMMA DecodeGivesDocs ==
  ASSUME NEW ds \in Lists, NEW l, Stored(ds, l)
  PROVE  Decode(l) = ds
<1>1. PICK n \in Nat \ {0}, count \in Nat \ {0} : n = Len(ds) /\ count = NumBlocks(n)
  <2>1. Len(ds) \in Nat \ {0}
    BY ListFacts
  <2> QED  BY <2>1, NumBlocksFacts
<1>2. l.n = n
  BY <1>1 DEF Stored
<1> DEFINE SizeAt(b) == IF b < count - 1 THEN BlockSize ELSE n - (count - 1) * BlockSize
           Sum(b) == U32(BlockMax(l, b) - CurBase(l, b) - (SizeAt(b) - 1))
           Block(b) == PrefixSum(DecodeItem(l.blocks[EndpointOf(l, b) + 1],
                                            Sum(b), SizeAt(b)),
                                 CurBase(l, b))
<1>3. Decode(l) = [i \in 1 .. n |-> Block((i - 1) \div BlockSize)[((i - 1) % BlockSize) + 1]]
  BY <1>1, <1>2, Zenon DEF Decode
<1>4. ASSUME NEW b \in Blocks(ds)
      PROVE  Block(b) = [p \in 1 .. Size(ds, b) |-> DocAt(ds, b, p - 1)]
  <2>1. SizeAt(b) = Size(ds, b)
    <3>1. b \in Nat /\ b <= count - 1
      BY <1>1, BlockFacts DEF Blocks
    <3>2. CASE b < count - 1
      <4>1. Size(ds, b) = BlockSize
        BY <1>1, <3>2, NextBlock
      <4> QED  BY <3>2, <4>1
    <3>3. CASE b = count - 1
      <4>1. Start(b) + Size(ds, b) = n /\ Start(b) = (count - 1) * BlockSize
        BY <1>1, <3>3, NextBlock DEF Start
      <4>2. Start(b) \in Nat /\ Size(ds, b) \in Nat
        BY BlockFacts
      <4>3. PICK s \in Nat : s = Start(b)
        BY <4>2
      <4>4. n - s = Size(ds, b)
        BY <4>1, <4>2, <4>3
      <4>5. SizeAt(b) = n - s
        <5>1. ~(b < count - 1)
          BY <3>3
        <5> QED  BY <4>1, <4>3, <5>1, Zenon
      <4> QED  BY <4>4, <4>5
    <3> QED  BY <3>1, <3>2, <3>3
  <2>2. Sum(b) = WrittenSum(ds, b)
    <3> HIDE DEF SizeAt
    <3>1. U32(BlockMax(l, b) - CurBase(l, b) - (Size(ds, b) - 1)) = WrittenSum(ds, b)
      BY SumIsUniverse
    <3> QED  BY <2>1, <3>1, Zenon
  <2>3. Block(b) = PrefixSum(GapsOf(ds, b), CurBase(l, b))
    <3> HIDE DEF SizeAt, Sum
    <3>1. DecodeItem(l.blocks[EndpointOf(l, b) + 1], WrittenSum(ds, b), Size(ds, b))
            = GapsOf(ds, b)
      BY DecodedGaps
    <3> QED  BY <2>1, <2>2, <3>1, Zenon
  <2> HIDE DEF Block
  <2> QED  BY <2>3, DecodedBlock, Zenon
<1> HIDE DEF Block
<1>5. ASSUME NEW i \in 1 .. n
      PROVE  Block((i - 1) \div BlockSize)[((i - 1) % BlockSize) + 1] = ds[i]
  <2>1. PICK pos \in 0 .. n - 1 : pos = i - 1 /\ i = pos + 1
    BY <1>1
  <2>2. PICK b, p : b = pos \div BlockSize /\ p = pos % BlockSize
    OBVIOUS
  <2>3. b \in Blocks(ds) /\ p \in 0 .. Size(ds, b) - 1 /\ pos = Start(b) + p
    BY <1>1, <2>2, BlockOfPosition DEF Blocks, Size
  <2>4. p + 1 \in 1 .. Size(ds, b) /\ (p + 1) - 1 = p /\ Start(b) + p + 1 = i
    BY <2>1, <2>3, BlockFacts
  <2>5. Block(b)[p + 1] = DocAt(ds, b, p)
    BY <1>4, <2>3, <2>4
  <2>6. DocAt(ds, b, p) = ds[i]
    BY <2>4, Zenon DEF DocAt
  <2> QED  BY <2>1, <2>2, <2>5, <2>6, Zenon
<1>6. ds = [i \in 1 .. n |-> ds[i]]
  <2>1. ds \in [1 .. n -> 0 .. Universe - 1]
    BY <1>1, ListFacts, LenProperties
  <2> QED  BY <2>1
<1>7. [i \in 1 .. n |-> Block((i - 1) \div BlockSize)[((i - 1) % BlockSize) + 1]]
        = [i \in 1 .. n |-> ds[i]]
  BY <1>5, Zenon
<1> QED  BY <1>3, <1>6, <1>7, Zenon

-----------------------------------------------------------------------------
(* The list never changes, and can always be decoded.                        *)

ListRight == docs \in Lists /\ Stored(docs, list)

LEMMA InitListRight ==
  Init => ListRight
<1> SUFFICES ASSUME Init  PROVE ListRight
  OBVIOUS
<1>1. docs \in Lists
  BY DEF Init
<1>2. \/ list = Write(docs, Freqs(docs))
      \/ \E order \in BlockOrders(GetBlocks(Write(docs, Freqs(docs)))) :
           list = WriteBlocks(Len(docs), order)
  BY Zenon DEF Init
<1>3. CASE list = Write(docs, Freqs(docs))
  BY <1>1, <1>3, WrittenStored DEF ListRight
<1>4. CASE \E order \in BlockOrders(GetBlocks(Write(docs, Freqs(docs)))) :
             list = WriteBlocks(Len(docs), order)
  <2>1. PICK order \in BlockOrders(GetBlocks(Write(docs, Freqs(docs)))) :
               list = WriteBlocks(Len(docs), order)
    BY <1>4
  <2>2. Stored(docs, WriteBlocks(Len(docs), order))
    BY <1>1, LaidOutStored
  <2> QED  BY <1>1, <2>1, <2>2 DEF ListRight
<1> QED  BY <1>2, <1>3, <1>4

LEMMA StepsKeepTheList ==
  [Step]_vars \/ [Seek]_vars => UNCHANGED <<docs, list>>
<1> USE DEF Call
<1>1. Reset => UNCHANGED <<docs, list>>
  BY DEF Reset
<1>2. Next => UNCHANGED <<docs, list>>
  BY DEF Next
<1>3. Freq => UNCHANGED <<docs, list>>
  BY DEF Freq
<1>4. \A arg : NextGeq(arg) => UNCHANGED <<docs, list>>
  BY DEF NextGeq
<1>5. \A arg : NextGeqNonForward(arg) => UNCHANGED <<docs, list>>
  BY DEF NextGeqNonForward
<1>6. \A arg : Move(arg) => UNCHANGED <<docs, list>>
  BY DEF Move
<1>7. UNCHANGED vars => UNCHANGED <<docs, list>>
  BY DEF vars
<1> QED  BY <1>1, <1>2, <1>3, <1>4, <1>5, <1>6, <1>7 DEF Step, Seek

LEMMA StepsKeepListRight ==
  ListRight /\ ([Step]_vars \/ [Seek]_vars) => ListRight'
<1> SUFFICES ASSUME ListRight, [Step]_vars \/ [Seek]_vars  PROVE ListRight'
  OBVIOUS
<1>1. docs' = docs /\ list' = list
  BY StepsKeepTheList
<1> QED  BY <1>1 DEF ListRight, Stored, BlockStored, BlockMax, EndpointOf, DocsItem,
             FreqsItem, Blocks, Size, DocAt

LEMMA ListRightRoundTrip ==
  ListRight => RoundTrip
<1> SUFFICES ASSUME ListRight  PROVE RoundTrip
  OBVIOUS
<1>1. docs \in Lists /\ Stored(docs, list)
  BY DEF ListRight
<1>2. list.n = Len(docs)
  BY <1>1 DEF Stored
<1>3. ASSUME NEW b \in 0 .. NumBlocks(list.n) - 1
      PROVE  /\ list.blocks[EndpointOf(list, b) + 1].sum = GapsUniverse(list, b)
             /\ list.blocks[EndpointOf(list, b) + 1].n = SizeOfBlock(list.n, b)
             /\ list.blocks[EndpointOf(list, b) + 2].n
                  = list.blocks[EndpointOf(list, b) + 1].n
  <2>1. b \in Blocks(docs)
    BY <1>2 DEF Blocks
  <2>2. PICK item, freqs : item = DocsItem(docs, b) /\ freqs = FreqsItem(docs, b)
    OBVIOUS
  <2>3. /\ list.blocks[EndpointOf(list, b) + 1] = item
        /\ list.blocks[EndpointOf(list, b) + 2] = freqs
    BY <1>1, <2>1, <2>2 DEF Stored, BlockStored
  <2>4. /\ item.sum = WrittenSum(docs, b) /\ item.n = Size(docs, b)
        /\ freqs.n = Size(docs, b)
    BY <2>2 DEF DocsItem, FreqsItem
  <2>5. GapsUniverse(list, b) = WrittenSum(docs, b) /\ SizeOfBlock(list.n, b) = Size(docs, b)
    BY <1>1, <2>1, SumIsUniverse
  <2> QED  BY <2>3, <2>4, <2>5, Zenon
<1>4. DecodesAsEncoded
  BY <1>3, Zenon DEF DecodesAsEncoded
<1>5. Decode(list) = docs
  BY <1>1, DecodeGivesDocs
<1> QED  BY <1>4, <1>5 DEF RoundTrip

(* Whatever the list, the size of the blocks and their order, decode() gives *)
(* back the docids that write() was given, and every block is decoded with   *)
(* the sum and the length it was encoded with.                               *)
THEOREM ListsRoundTrip ==
  Spec => []RoundTrip
<1>1. Init => ListRight
  BY InitListRight
<1>2. ListRight /\ [Step]_vars => ListRight'
  BY StepsKeepListRight
<1>3. ListRight => RoundTrip
  BY ListRightRoundTrip
<1> QED  BY <1>1, <1>2, <1>3, PTL DEF Spec

-----------------------------------------------------------------------------
(* The enumerator.                                                           *)

Enumerators ==
  [cur_block : Nat, pos_in_block : Nat, cur_block_max : Int, cur_block_size : Nat,
   cur_docid : Nat, docs_buf : Buffers, freqs_buf : Buffers, freqs_ptr : Int,
   freqs_decoded : BOOLEAN]

(* The block of the enumerator is one of the list, its docids are in the     *)
(* buffer, as they are to be read, and its frequencies too if it says so.    *)
BlockRight(ds, l, en) ==
  /\ en \in Enumerators
  /\ en.cur_block \in Blocks(ds)
  /\ en.cur_block_size = Size(ds, en.cur_block)
  /\ en.cur_block_max = DocAt(ds, en.cur_block, Size(ds, en.cur_block) - 1)
  /\ en.freqs_ptr = EndpointOf(l, en.cur_block) + 2
  /\ en.docs_buf[0] = DocAt(ds, en.cur_block, 0)
  /\ \A p \in 1 .. Size(ds, en.cur_block) - 1 :
       en.docs_buf[p] = Gap(ds, Start(en.cur_block) + p + 1)
  /\ en.freqs_decoded =>
       \A p \in 0 .. Size(ds, en.cur_block) - 1 :
         en.freqs_buf[p] = Start(en.cur_block) + p

(* The posting it is at.                                                     *)
At(ds, en, p) ==
  /\ en.pos_in_block = p
  /\ p \in 0 .. Size(ds, en.cur_block) - 1
  /\ en.cur_docid = DocAt(ds, en.cur_block, p)

LEMMA BlockRightFacts ==
  ASSUME NEW ds \in Lists, NEW l, NEW en, BlockRight(ds, l, en)
  PROVE  /\ en.cur_block \in Blocks(ds) /\ en.cur_block \in Nat
         /\ en.cur_block_size = Size(ds, en.cur_block)
         /\ en.cur_block_size \in Nat /\ 1 <= en.cur_block_size
         /\ en.pos_in_block \in Nat /\ en.cur_docid \in Nat
         /\ en.cur_block_max \in 0 .. Universe - 1
<1>1. /\ en.cur_block \in Blocks(ds)
      /\ en.cur_block_size = Size(ds, en.cur_block)
      /\ en.cur_block_max = DocAt(ds, en.cur_block, Size(ds, en.cur_block) - 1)
  BY DEF BlockRight
<1>2. en.pos_in_block \in Nat /\ en.cur_docid \in Nat
  BY DEF BlockRight, Enumerators
<1>3. en.cur_block \in Nat /\ Size(ds, en.cur_block) \in Nat /\ 1 <= Size(ds, en.cur_block)
  BY <1>1, BlockFacts
<1>4. DocAt(ds, en.cur_block, Size(ds, en.cur_block) - 1) \in 0 .. Universe - 1
  <2>1. PICK p : p = Size(ds, en.cur_block) - 1
    OBVIOUS
  <2>2. p \in 0 .. Size(ds, en.cur_block) - 1
    BY <1>3, <2>1
  <2> QED  BY <1>1, <2>1, <2>2, BlockFacts
<1> QED  BY <1>1, <1>2, <1>3, <1>4

(* Only the position and the docid change.                                   *)
Moved(en, pos, docid) == [en EXCEPT !.pos_in_block = pos, !.cur_docid = docid]

StaysRight(ds, l, en, pos, docid, en2) ==
  /\ BlockRight(ds, l, en2)
  /\ en2.pos_in_block = pos /\ en2.cur_docid = docid
  /\ en2.cur_block = en.cur_block /\ en2.cur_block_max = en.cur_block_max

LEMMA BlockRightKept ==
  ASSUME NEW ds \in Lists, NEW l, NEW en, BlockRight(ds, l, en),
         NEW pos \in Nat, NEW docid \in Nat, NEW en2,
         en2 = Moved(en, pos, docid)
  PROVE  StaysRight(ds, l, en, pos, docid, en2)
<1>1. en \in Enumerators
  BY DEF BlockRight
<1>2. /\ en2 \in Enumerators /\ en2.pos_in_block = pos /\ en2.cur_docid = docid
      /\ en2.cur_block = en.cur_block /\ en2.cur_block_size = en.cur_block_size
      /\ en2.cur_block_max = en.cur_block_max /\ en2.freqs_ptr = en.freqs_ptr
      /\ en2.docs_buf = en.docs_buf /\ en2.freqs_buf = en.freqs_buf
      /\ en2.freqs_decoded = en.freqs_decoded
  BY <1>1 DEF Enumerators, Moved
<1>3. BlockRight(ds, l, en2)
  BY <1>2 DEF BlockRight
<1> QED  BY <1>2, <1>3 DEF StaysRight

LEMMA FillFacts ==
  ASSUME NEW buf \in Buffers, NEW vals, Len(vals) \in Nat, Len(vals) <= BlockSize,
         \A p \in 1 .. Len(vals) : vals[p] \in UInt32
  PROVE  /\ Fill(buf, vals) \in Buffers
         /\ \A p \in 0 .. Len(vals) - 1 : Fill(buf, vals)[p] = vals[p + 1]
<1>1. BlockSize \in Nat
  BY StartFacts
<1>2. ASSUME NEW i \in 0 .. BlockSize - 1
      PROVE  (IF i < Len(vals) THEN vals[i + 1] ELSE buf[i]) \in UInt32
  <2>1. CASE i < Len(vals)
    <3>1. PICK p \in 1 .. Len(vals) : p = i + 1
      BY <2>1
    <3> QED  BY <2>1, <3>1
  <2>2. CASE ~(i < Len(vals))
    BY <2>2 DEF Buffers
  <2> QED  BY <2>1, <2>2
<1>3. Fill(buf, vals) \in Buffers
  BY <1>2 DEF Fill, Buffers
<1>4. \A p \in 0 .. Len(vals) - 1 : p \in 0 .. BlockSize - 1 /\ p < Len(vals)
  BY <1>1
<1> QED  BY <1>3, <1>4 DEF Fill

(* decode_docs_block brings the enumerator to the first posting of a block.  *)
LEMMA DecodedDocs ==
  ASSUME NEW ds \in Lists, NEW l, Stored(ds, l), NEW en,
         en \in Enumerators,
         NEW b \in Blocks(ds), NEW en2, en2 = DecodeDocsBlock(l, en, b)
  PROVE  BlockRight(ds, l, en2) /\ en2.cur_block = b /\ At(ds, en2, 0)
<1>1. PICK size \in Nat : size = Size(ds, b) /\ 1 <= size /\ size <= BlockSize
  BY BlockFacts
<1>2. PICK gaps : gaps = [p \in 1 .. size |-> Gap(ds, Start(b) + p)]
  OBVIOUS
<1>3. DecodeItem(l.blocks[EndpointOf(l, b) + 1], GapsUniverse(l, b), SizeOfBlock(l.n, b))
        = gaps
  <2>1. gaps = GapsOf(ds, b)
    BY <1>1, <1>2 DEF GapsOf
  <2>2. GapsUniverse(l, b) = WrittenSum(ds, b) /\ SizeOfBlock(l.n, b) = Size(ds, b)
    BY SumIsUniverse
  <2> QED  BY <2>1, <2>2, DecodedGaps, Zenon
<1>4. PICK first : first = U32(gaps[1] + CurBase(l, b))
  OBVIOUS
<1>5. first = DocAt(ds, b, 0) /\ first \in 0 .. Universe - 1 /\ first \in UInt32
  <2>1. gaps = GapsOf(ds, b)
    BY <1>1, <1>2 DEF GapsOf
  <2>2. first = DocAt(ds, b, 0)
    BY <1>4, <2>1, GapsLead, Zenon
  <2>3. 0 \in 0 .. Size(ds, b) - 1
    BY <1>1
  <2>4. first \in 0 .. Universe - 1
    <3>1. PICK p : p = 0
      OBVIOUS
    <3>2. DocAt(ds, b, p) \in 0 .. Universe - 1
      BY <2>3, <3>1, BlockFacts
    <3> QED  BY <2>2, <3>1, <3>2
  <2> QED  BY <2>2, <2>4, ListFacts DEF UInt32
<1>6. PICK vals : vals = [gaps EXCEPT ![1] = first]
  OBVIOUS
<1>7. /\ Len(vals) = size /\ vals[1] = first
      /\ \A p \in 2 .. size : vals[p] = Gap(ds, Start(b) + p)
      /\ \A p \in 1 .. size : vals[p] \in UInt32
  <2>1. vals = [p \in 1 .. size |-> IF p = 1 THEN first ELSE Gap(ds, Start(b) + p)]
    BY <1>2, <1>6
  <2>2. ASSUME NEW p \in 1 .. size  PROVE vals[p] \in UInt32
    <3>1. CASE p = 1
      BY <1>5, <2>1, <3>1
    <3>2. CASE p # 1
      <4>1. PICK q \in 1 .. Size(ds, b) - 1 : Start(b) + p = Start(b) + q + 1
        <5>1. p - 1 \in 1 .. Size(ds, b) - 1 /\ Start(b) + p = Start(b) + (p - 1) + 1
          BY <1>1, <3>2, BlockFacts
        <5> QED  BY <5>1
      <4>2. Gap(ds, Start(b) + q + 1) \in UInt32
        BY GapsLead
      <4>3. vals[p] = Gap(ds, Start(b) + p)
        BY <2>1, <3>2
      <4> QED  BY <4>1, <4>2, <4>3
    <3> QED  BY <3>1, <3>2
  <2> QED  BY <1>1, <2>1, <2>2
<1>8. PICK buf : buf = Fill(en.docs_buf, vals)
  OBVIOUS
<1>9. buf \in Buffers /\ \A p \in 0 .. size - 1 : buf[p] = vals[p + 1]
  <2>1. en.docs_buf \in Buffers
    BY DEF Enumerators
  <2> QED  BY <1>1, <1>7, <1>8, <2>1, FillFacts
<1>10. PICK max \in 0 .. Universe - 1 : max = BlockMax(l, b)
                                        /\ max = DocAt(ds, b, Size(ds, b) - 1)
  <2>1. BlockMax(l, b) = DocAt(ds, b, Size(ds, b) - 1)
    BY DEF Stored, BlockStored
  <2>2. PICK p \in 0 .. Size(ds, b) - 1 : p = Size(ds, b) - 1
    BY <1>1
  <2>3. DocAt(ds, b, p) \in 0 .. Universe - 1
    BY BlockFacts
  <2> QED  BY <2>1, <2>2, <2>3
<1>11. PICK ptr \in Int : ptr = EndpointOf(l, b) + 2
  BY DEF Stored, BlockStored
<1>12. en2 = [en EXCEPT !.cur_block = b, !.pos_in_block = 0,
                        !.cur_block_max = max, !.cur_block_size = size,
                        !.cur_docid = buf[0], !.docs_buf = buf,
                        !.freqs_ptr = ptr, !.freqs_decoded = FALSE]
  <2>1. SizeOfBlock(l.n, b) = size
    BY <1>1, SumIsUniverse
  <2>2. DecodeItem(l.blocks[EndpointOf(l, b) + 1], GapsUniverse(l, b), size) = gaps
    BY <1>3, <2>1, Zenon
  <2> QED  BY <1>4, <1>6, <1>8, <1>10, <1>11, <2>1, <2>2, Zenon
           DEF DecodeDocsBlock, StillDecoded
<1>13. buf[0] = DocAt(ds, b, 0) /\ buf[0] \in Nat
  <2>1. buf[0] = vals[0 + 1]
    BY <1>1, <1>9
  <2> QED  BY <1>5, <1>7, <2>1
<1>14. /\ en2 \in Enumerators /\ en2.cur_block = b /\ en2.pos_in_block = 0
       /\ en2.cur_block_max = max /\ en2.cur_block_size = size
       /\ en2.cur_docid = buf[0] /\ en2.docs_buf = buf
       /\ en2.freqs_ptr = ptr /\ en2.freqs_decoded = FALSE
  <2>1. b \in Nat /\ max \in Int
    BY <1>10, BlockFacts
  <2>2. PICK docid \in Nat : docid = buf[0]
    BY <1>13
  <2>3. PICK zero \in Nat : zero = 0
    OBVIOUS
  <2>4. en2 = [cur_block |-> b, pos_in_block |-> zero, cur_block_max |-> max,
               cur_block_size |-> size, cur_docid |-> docid, docs_buf |-> buf,
               freqs_buf |-> en.freqs_buf, freqs_ptr |-> ptr, freqs_decoded |-> FALSE]
    BY <1>12, <2>2, <2>3 DEF Enumerators
  <2>5. en.freqs_buf \in Buffers
    BY DEF Enumerators
  <2>6. en2 \in Enumerators
    BY <1>9, <2>1, <2>4, <2>5 DEF Enumerators
  <2> QED  BY <2>2, <2>3, <2>4, <2>6
<1>15. ASSUME NEW p \in 1 .. size - 1  PROVE buf[p] = Gap(ds, Start(b) + p + 1)
  <2>1. PICK q \in 2 .. size : q = p + 1 /\ Start(b) + q = Start(b) + p + 1
    BY <1>1, BlockFacts
  <2>2. buf[p] = vals[p + 1]
    BY <1>9
  <2>3. vals[q] = Gap(ds, Start(b) + q)
    BY <1>7
  <2> QED  BY <2>1, <2>2, <2>3, Zenon
<1>16. BlockRight(ds, l, en2)
  BY <1>1, <1>10, <1>11, <1>13, <1>14, <1>15 DEF BlockRight
<1>17. At(ds, en2, 0)
  <2>1. 0 \in 0 .. Size(ds, b) - 1
    BY <1>1
  <2> QED  BY <1>13, <1>14, <2>1 DEF At
<1> QED  BY <1>14, <1>16, <1>17

(* decode_freqs_block completes it.                                          *)
LEMMA DecodedFreqs ==
  ASSUME NEW ds \in Lists, NEW l, Stored(ds, l), NEW en, BlockRight(ds, l, en),
         NEW en2, en2 = EnumeratorFreq(l, en)
  PROVE  /\ BlockRight(ds, l, en2)
         /\ en2.freqs_decoded
         /\ en2.cur_block = en.cur_block /\ en2.pos_in_block = en.pos_in_block
         /\ en2.cur_docid = en.cur_docid
<1>1. CASE en.freqs_decoded
  <2>1. en2 = en
    BY <1>1 DEF EnumeratorFreq
  <2> QED  BY <1>1, <2>1
<1>2. CASE ~en.freqs_decoded
  <2>1. PICK b \in Blocks(ds) : b = en.cur_block
    BY DEF BlockRight
  <2>2. PICK size \in Nat : size = Size(ds, b) /\ 1 <= size /\ size <= BlockSize
                            /\ Start(b) \in Nat /\ Start(b) + size <= Len(ds)
    BY BlockFacts
  <2>3. PICK vals : vals = [p \in 1 .. size |-> Start(b) + p - 1]
    OBVIOUS
  <2>4. PICK buf : buf = Fill(en.freqs_buf, vals)
    OBVIOUS
  <2>5. en \in Enumerators /\ en.cur_block_size = size
        /\ en.freqs_ptr = EndpointOf(l, b) + 2
    BY <2>1, <2>2 DEF BlockRight
  <2>6. en2 = [en EXCEPT !.freqs_buf = buf, !.freqs_decoded = TRUE]
    <3>1. DecodeItem(l.blocks[en.freqs_ptr], MinusOne, en.cur_block_size) = vals
      <4>1. vals = CountsOf(ds, b)
        BY <2>2, <2>3 DEF CountsOf
      <4> QED  BY <2>2, <2>5, <4>1, DecodedCounts, Zenon
    <3> QED  BY <1>2, <2>4, <3>1, Zenon DEF EnumeratorFreq, DecodeFreqsBlock
  <2>7. Len(vals) = size /\ \A p \in 1 .. size : vals[p] = (Start(b) + p) - 1
    BY <2>2, <2>3
  <2>8. \A p \in 1 .. size : vals[p] \in UInt32
    <3> SUFFICES ASSUME NEW p \in 1 .. size  PROVE vals[p] \in UInt32
      OBVIOUS
    <3>1. vals[p] \in Nat /\ vals[p] < Len(ds)
      BY <2>2, <2>7, ListFacts, SMTT(60)
    <3> QED  BY <3>1, ListFacts DEF UInt32
  <2>9. buf \in Buffers /\ \A p \in 0 .. size - 1 : buf[p] = vals[p + 1]
    <3>1. en.freqs_buf \in Buffers
      BY <2>5 DEF Enumerators
    <3> QED  BY <2>2, <2>4, <2>7, <2>8, <3>1, FillFacts
  <2>10. ASSUME NEW p \in 0 .. size - 1  PROVE buf[p] = Start(b) + p
    <3>1. PICK q \in 1 .. size : q = p + 1 /\ (Start(b) + q) - 1 = Start(b) + p
      BY <2>2
    <3>2. vals[q] = (Start(b) + q) - 1
      BY <2>7
    <3>3. buf[p] = vals[p + 1]
      BY <2>9
    <3> QED  BY <3>1, <3>2, <3>3, Zenon
  <2>11. /\ en2 \in Enumerators /\ en2.pos_in_block = en.pos_in_block
         /\ en2.cur_docid = en.cur_docid /\ en2.cur_block = en.cur_block
         /\ en2.cur_block_size = en.cur_block_size
         /\ en2.cur_block_max = en.cur_block_max /\ en2.freqs_ptr = en.freqs_ptr
         /\ en2.docs_buf = en.docs_buf /\ en2.freqs_buf = buf
         /\ en2.freqs_decoded = TRUE
    BY <2>5, <2>6, <2>9 DEF Enumerators
  <2>12. BlockRight(ds, l, en2)
    BY <2>1, <2>2, <2>10, <2>11 DEF BlockRight
  <2> QED  BY <2>11, <2>12
<1> QED  BY <1>1, <1>2

-----------------------------------------------------------------------------
(* Walking a block.                                                          *)

LEMMA WalkValue ==
  ASSUME NEW ds \in Lists, NEW l, Stored(ds, l), NEW en, BlockRight(ds, l, en),
         NEW p, At(ds, en, p)
  PROVE  DocidAt(en) = DocsFrom(ds, en.cur_block, p)
<1>1. PICK b \in Blocks(ds), size \in Nat :
         b = en.cur_block /\ size = Size(ds, b) /\ en.cur_block_size = size
  BY BlockRightFacts
<1>2. /\ p \in 0 .. size - 1 /\ en.pos_in_block = p /\ en.cur_docid = DocAt(ds, b, p)
  BY <1>1 DEF At
<1>3. PICK buf : buf = en.docs_buf
  OBVIOUS
<1> DEFINE f == [q \in p .. size - 1 |-> DocAt(ds, b, q)]
           g == [q \in p .. size - 1 |-> IF q = p THEN en.cur_docid
                                         ELSE U32(f[q - 1] + buf[q] + 1)]
<1>4. ASSUME NEW q \in p .. size - 1  PROVE f[q] = g[q]
  <2>1. CASE q = p
    BY <1>2, <2>1
  <2>2. CASE q # p
    <3>1. q \in 1 .. Size(ds, b) - 1 /\ q - 1 \in p .. size - 1
      BY <1>1, <1>2, <2>2
    <3>2. U32(DocAt(ds, b, q - 1) + Gap(ds, Start(b) + q + 1) + 1) = DocAt(ds, b, q)
      BY <3>1, GapsLead
    <3>3. buf[q] = Gap(ds, Start(b) + q + 1)
      BY <1>1, <1>3, <3>1 DEF BlockRight
    <3>4. f[q] = DocAt(ds, b, q) /\ f[q - 1] = DocAt(ds, b, q - 1)
      BY <3>1
    <3>5. g[q] = U32(f[q - 1] + buf[q] + 1)
      BY <2>2
    <3> HIDE DEF f, g
    <3> QED  BY <3>2, <3>3, <3>4, <3>5, Zenon
  <2> QED  BY <2>1, <2>2
<1>5. f = g
  <2>1. f = [q \in p .. size - 1 |-> f[q]] /\ g = [q \in p .. size - 1 |-> g[q]]
    OBVIOUS
  <2> HIDE DEF f, g
  <2>2. [q \in p .. size - 1 |-> f[q]] = [q \in p .. size - 1 |-> g[q]]
    BY <1>4
  <2> QED  BY <2>1, <2>2
<1>6. Walks(f, en.docs_buf, en.pos_in_block, en.cur_block_size - 1, en.cur_docid)
  <2> HIDE DEF f
  <2> QED  BY <1>1, <1>2, <1>3, <1>5, Zenon DEF Walks
<1>7. DocidAt(en) = f
  <2> HIDE DEF f
  <2>1. en.pos_in_block \in Int /\ en.cur_block_size \in Int
    BY <1>1, <1>2
  <2> QED  BY <1>6, <2>1, DocidAtValue
<1> QED  BY <1>1, <1>7, Zenon DEF DocsFrom

LEMMA WalkedTo ==
  ASSUME NEW ds \in Lists, NEW l, Stored(ds, l), NEW en, BlockRight(ds, l, en),
         NEW p, At(ds, en, p), NEW q \in p .. Size(ds, en.cur_block) - 1,
         NEW en2, en2 = WalkTo(en, q)
  PROVE  BlockRight(ds, l, en2) /\ en2.cur_block = en.cur_block /\ At(ds, en2, q)
<1>1. PICK b \in Blocks(ds), size \in Nat : b = en.cur_block /\ size = Size(ds, b)
  BY BlockRightFacts
<1>2. p \in 0 .. size - 1 /\ q \in 0 .. size - 1 /\ q \in Nat
  BY <1>1 DEF At
<1>3. PICK docid \in 0 .. Universe - 1 : docid = DocAt(ds, b, q)
  BY <1>1, <1>2, BlockFacts
<1>4. DocidAt(en)[q] = docid
  <2>1. DocidAt(en) = [x \in p .. size - 1 |-> DocAt(ds, b, x)]
    BY <1>1, WalkValue DEF DocsFrom
  <2> QED  BY <1>1, <1>3, <2>1
<1>5. en2 = Moved(en, q, docid)
  BY <1>4, Zenon DEF WalkTo, Moved
<1>6. docid \in Nat
  BY <1>3, ListFacts
<1>7. /\ BlockRight(ds, l, en2) /\ en2.pos_in_block = q /\ en2.cur_docid = docid
      /\ en2.cur_block = en.cur_block
  <2>1. StaysRight(ds, l, en, q, docid, en2)
    BY <1>2, <1>5, <1>6, BlockRightKept
  <2> QED  BY <2>1 DEF StaysRight
<1> QED  BY <1>1, <1>2, <1>3, <1>7 DEF At

(* The posting at q is the first of the block's from p on to reach lb.       *)
Reaches(ds, b, p, q, lb) ==
  /\ q \in p .. Size(ds, b) - 1
  /\ DocAt(ds, b, q) >= lb
  /\ q = p \/ DocAt(ds, b, q - 1) < lb

LEMMA ScannedBlock ==
  ASSUME NEW ds \in Lists, NEW l, Stored(ds, l), NEW en, BlockRight(ds, l, en),
         NEW p, At(ds, en, p), NEW lb \in Int, lb <= en.cur_block_max,
         NEW en2, en2 = ScanBlock(en, lb)
  PROVE  /\ BlockRight(ds, l, en2) /\ en2.cur_block = en.cur_block
         /\ \E q : At(ds, en2, q) /\ Reaches(ds, en.cur_block, p, q, lb)
<1>1. PICK b \in Blocks(ds), size \in Nat :
         /\ b = en.cur_block /\ size = Size(ds, b) /\ en.cur_block_size = size
         /\ en.cur_block_max = DocAt(ds, b, size - 1)
  <2>1. /\ en.cur_block \in Blocks(ds) /\ Size(ds, en.cur_block) \in Nat
        /\ en.cur_block_size = Size(ds, en.cur_block)
    BY BlockRightFacts
  <2>2. en.cur_block_max = DocAt(ds, en.cur_block, Size(ds, en.cur_block) - 1)
    BY DEF BlockRight
  <2> QED  BY <2>1, <2>2
<1>2. /\ p \in 0 .. size - 1 /\ en.pos_in_block = p /\ en.cur_docid = DocAt(ds, b, p)
  BY <1>1 DEF At
<1>3. \A q \in p .. size - 1 : q \in 0 .. size - 1 /\ DocAt(ds, b, q) \in Int
  <2> SUFFICES ASSUME NEW q \in p .. size - 1
               PROVE  q \in 0 .. size - 1 /\ DocAt(ds, b, q) \in Int
    OBVIOUS
  <2>1. q \in 0 .. Size(ds, b) - 1
    BY <1>1, <1>2
  <2>2. DocAt(ds, b, q) \in 0 .. Universe - 1
    BY <2>1, BlockFacts
  <2> QED  BY <1>1, <2>1, <2>2
<1>4. CASE en.cur_docid >= lb
  <2>1. en2 = en
    BY <1>4 DEF ScanBlock
  <2>2. Reaches(ds, b, p, p, lb)
    BY <1>1, <1>2, <1>4 DEF Reaches
  <2> QED  BY <1>1, <2>1, <2>2
<1>5. CASE ~(en.cur_docid >= lb)
  <2> DEFINE Stop(q) == /\ DocidAt(en)[q] >= lb
                        /\ \A r \in en.pos_in_block .. q - 1 : DocidAt(en)[r] < lb
  <2>1. \A q \in p .. size - 1 : DocidAt(en)[q] = DocAt(ds, b, q)
    <3>1. DocidAt(en) = [x \in p .. size - 1 |-> DocAt(ds, b, x)]
      BY <1>1, WalkValue DEF DocsFrom
    <3> QED  BY <3>1
  <2>2. PICK q : /\ q = CHOOSE x \in en.pos_in_block .. en.cur_block_size - 1 : Stop(x)
                 /\ q \in p .. size - 1 /\ Stop(q)
    <3> DEFINE S == {q \in p .. size - 1 : DocAt(ds, b, q) >= lb}
    <3>1. S \in SUBSET Nat /\ S # {}
      <4>1. size - 1 \in p .. size - 1
        BY <1>2
      <4>2. size - 1 \in S
        BY <1>1, <4>1
      <4> QED  BY <1>2, <4>2
    <3>2. PICK q \in S : \A m \in S : q <= m
      <4> HIDE DEF S
      <4> QED  BY <3>1, LeastNatural
    <3>3. q \in p .. size - 1 /\ DocAt(ds, b, q) >= lb
      BY <3>2
    <3>4. \A r \in p .. q - 1 : DocAt(ds, b, r) < lb
      <4> SUFFICES ASSUME NEW r \in p .. q - 1  PROVE DocAt(ds, b, r) < lb
        OBVIOUS
      <4>1. r \in p .. size - 1 /\ r \notin S
        BY <1>2, <3>2, <3>3
      <4> QED  BY <1>3, <4>1
    <3>5. Stop(q)
      <4>1. \A r \in p .. q - 1 : r \in p .. size - 1
        BY <1>2, <3>3
      <4> QED  BY <1>2, <2>1, <3>3, <3>4, <4>1
    <3> HIDE DEF Stop, S
    <3>6. \E x \in en.pos_in_block .. en.cur_block_size - 1 : Stop(x)
      BY <1>1, <1>2, <3>3, <3>5
    <3> QED  BY <1>1, <1>2, <3>6, Zenon
  <2>3. en2 = WalkTo(en, q)
    BY <1>5, <2>2, Zenon DEF ScanBlock
  <2>4. BlockRight(ds, l, en2) /\ en2.cur_block = en.cur_block /\ At(ds, en2, q)
    BY <1>1, <2>2, <2>3, WalkedTo
  <2>5. Reaches(ds, b, p, q, lb)
    <3>1. DocAt(ds, b, q) >= lb
      BY <2>1, <2>2
    <3>2. CASE q # p
      <4>1. q - 1 \in p .. q - 1 /\ q - 1 \in p .. size - 1
        BY <1>2, <2>2, <3>2
      <4>2. DocidAt(en)[q - 1] < lb
        BY <1>2, <2>2, <4>1
      <4>3. DocAt(ds, b, q - 1) < lb
        BY <2>1, <4>1, <4>2
      <4> QED  BY <1>1, <2>2, <3>1, <4>3 DEF Reaches
    <3>3. CASE q = p
      BY <1>1, <2>2, <3>1, <3>3 DEF Reaches
    <3> QED  BY <3>2, <3>3
  <2> QED  BY <1>1, <2>4, <2>5
<1> QED  BY <1>4, <1>5

LEMMA ScannedBlocks ==
  ASSUME NEW ds \in Lists, NEW l, Stored(ds, l), NEW from \in Blocks(ds), NEW lb \in Int,
         ~PastLast(l, lb), NEW b, b = ScanBlocks(l, from, lb)
  PROVE  /\ b \in Blocks(ds) /\ from <= b /\ BlockMax(l, b) >= lb
         /\ \A c \in from .. b - 1 : BlockMax(l, c) < lb
<1>1. PICK last \in Nat : last = NumBlocks(Len(ds)) - 1 /\ Blocks(ds) = 0 .. last
                          /\ last = NumBlocks(l.n) - 1
  <2>1. NumBlocks(Len(ds)) \in Nat \ {0}
    BY NextBlock
  <2> QED  BY <2>1 DEF Blocks, Stored
<1>2. \A c \in 0 .. last : BlockMax(l, c) \in Int
  <2> SUFFICES ASSUME NEW c \in Blocks(ds)  PROVE BlockMax(l, c) \in Int
    BY <1>1
  <2>1. PICK p \in 0 .. Size(ds, c) - 1 : p = Size(ds, c) - 1
    BY BlockFacts, SMTT(60)
  <2>2. BlockMax(l, c) = DocAt(ds, c, p)
    BY <2>1 DEF Stored, BlockStored
  <2> QED  BY <2>2, BlockFacts
<1>3. BlockMax(l, last) >= lb
  BY <1>1, <1>2 DEF PastLast
<1> DEFINE Stop(x) == BlockMax(l, x) >= lb /\ \A c \in from .. x - 1 : BlockMax(l, c) < lb
           S == {x \in from .. last : BlockMax(l, x) >= lb}
<1>4. S \in SUBSET Nat /\ S # {}
  <2>1. last \in S
    BY <1>1, <1>3
  <2> QED  BY <1>1, <2>1
<1>5. PICK x \in S : \A m \in S : x <= m
  <2> HIDE DEF S
  <2> QED  BY <1>4, LeastNatural
<1>6. Stop(x)
  <2> SUFFICES ASSUME NEW c \in from .. x - 1  PROVE BlockMax(l, c) < lb
    BY <1>5
  <2>1. c \in 0 .. last /\ c \notin S /\ c \in from .. last
    BY <1>1, <1>5
  <2> QED  BY <1>2, <2>1
<1>7. b \in from .. last /\ Stop(b)
  <2>1. \E y \in from .. last : Stop(y)
    <3> HIDE DEF Stop
    <3> QED  BY <1>5, <1>6
  <2>2. b = CHOOSE y \in from .. NumBlocks(l.n) - 1 : Stop(y)
    BY Zenon DEF ScanBlocks
  <2> HIDE DEF Stop
  <2> QED  BY <1>1, <2>1, <2>2, Zenon
<1> QED  BY <1>1, <1>7

-----------------------------------------------------------------------------
(* The first posting at or after a bound.                                    *)

LEMMA ListOf ==
  ASSUME NEW ds \in Lists
  PROVE  IsList(ds, Len(ds), Universe)
<1>1. DOMAIN ds = 1 .. Len(ds)
  BY ListFacts, LenProperties
<1>2. Universe \in Nat /\ Len(ds) \in Nat
  BY ListFacts
<1>3. ASSUME NEW i \in 1 .. Len(ds)  PROVE ds[i] \in Nat /\ ds[i] < Universe
  <2>1. ds[i] \in 0 .. Universe - 1
    BY ListFacts
  <2> QED  BY <1>2, <2>1
<1>4. \A i \in 1 .. Len(ds), j \in 1 .. Len(ds) : i < j => ds[i] < ds[j]
  BY ListFacts
<1> QED  BY <1>1, <1>2, <1>3, <1>4 DEF IsList

LEMMA PostingsOf ==
  ASSUME NEW ds \in Lists
  PROVE  /\ \A i \in 1 .. Len(ds) : ds[i] \in ToSet(ds)
         /\ \A d \in ToSet(ds) : \E i \in 1 .. Len(ds) : d = ds[i]
BY ListOf, MembersOf

LEMMA FirstGeqAt ==
  ASSUME NEW ds \in Lists, NEW lb \in Int, NEW i \in 1 .. Len(ds),
         ds[i] >= lb, i = 1 \/ ds[i - 1] < lb
  PROVE  FirstGeq(ToSet(ds), Universe, lb) = ds[i]
<1> PICK n \in Nat : n = Len(ds)
  BY ListFacts
<1>1. /\ IsList(ds, n, Universe) /\ \A j \in 1 .. n : ds[j] \in Int
      /\ \A j \in 1 .. n, k \in 1 .. n : j < k => ds[j] < ds[k]
  <2>1. IsList(ds, n, Universe)
    BY ListOf, Zenon
  <2> QED  BY <2>1 DEF IsList
<1>2. ASSUME NEW j \in 1 .. n, j <= i - 1  PROVE ds[j] < lb
  <2>1. i - 1 \in 1 .. n /\ ds[i - 1] < lb /\ (j = i - 1 \/ j < i - 1)
    BY <1>2
  <2>2. ds[i - 1] \in Int /\ ds[j] \in Int
    BY <1>1, <2>1
  <2> QED  BY <1>1, <2>1, <2>2
<1>3. ASSUME NEW j \in 1 .. n, ~(j <= i - 1)  PROVE ~(ds[j] < lb)
  <2>1. i \in 1 .. n /\ (j = i \/ i < j)
    BY <1>3
  <2>2. ds[i] \in Int /\ ds[j] \in Int
    BY <1>1, <2>1
  <2> QED  BY <1>1, <2>1, <2>2
<1>4. FirstAreBelow(ds, n, lb, i - 1) /\ i - 1 < n /\ (i - 1) + 1 = i
  BY <1>2, <1>3 DEF FirstAreBelow
<1> QED  BY <1>1, <1>4, FirstGeqOfList

LEMMA FirstGeqIsPosting ==
  ASSUME NEW ds \in Lists, NEW lb \in Int, lb \in ToSet(ds)
  PROVE  FirstGeq(ToSet(ds), Universe, lb) = lb
<1>1. PICK i \in 1 .. Len(ds) : lb = ds[i]
  BY ListOf, MembersOf
<1>2. i = 1 \/ ds[i - 1] < lb
  <2> SUFFICES ASSUME i # 1  PROVE ds[i - 1] < ds[i]
    BY <1>1
  <2>1. i - 1 \in 1 .. Len(ds) /\ i - 1 < i
    BY ListFacts
  <2> QED  BY <2>1, ListFacts
<1> QED  BY <1>1, <1>2, FirstGeqAt

LEMMA FirstGeqPastLast ==
  ASSUME NEW ds \in Lists, NEW lb \in Int, ds[Len(ds)] < lb
  PROVE  FirstGeq(ToSet(ds), Universe, lb) = Universe
<1> PICK n \in Nat : n = Len(ds) /\ n \in 1 .. n
  BY ListFacts
<1>1. /\ IsList(ds, n, Universe) /\ \A j \in 1 .. n : ds[j] \in Int
      /\ \A j \in 1 .. n, k \in 1 .. n : j < k => ds[j] < ds[k]
  BY ListOf DEF IsList
<1>2. ASSUME NEW j \in 1 .. n  PROVE ds[j] < lb
  <2>1. j = n \/ j < n
    OBVIOUS
  <2>2. ds[n] \in Int /\ ds[j] \in Int
    BY <1>1
  <2> QED  BY <1>1, <2>1, <2>2
<1>3. FirstAreBelow(ds, n, lb, n)
  BY <1>2 DEF FirstAreBelow
<1> QED  BY <1>1, <1>3, FirstGeqOfList

(* In blocks: the first posting of a block to reach lb is the list's if no   *)
(* posting of an earlier block does.                                         *)
LEMMA FirstGeqInBlock ==
  ASSUME NEW ds \in Lists, NEW l, Stored(ds, l), NEW b \in Blocks(ds), NEW lb \in Int,
         NEW p \in Nat, NEW q, Reaches(ds, b, p, q, lb),
         IF p = 0 THEN b = 0 \/ BlockMax(l, b - 1) < lb
         ELSE p < Size(ds, b) /\ DocAt(ds, b, p - 1) < lb
  PROVE  FirstGeq(ToSet(ds), Universe, lb) = DocAt(ds, b, q)
<1>1. /\ b \in Nat /\ Start(b) \in Nat /\ Size(ds, b) \in Nat
      /\ Start(b) + Size(ds, b) <= Len(ds)
  BY BlockFacts
<1>2. q \in p .. Size(ds, b) - 1 /\ DocAt(ds, b, q) >= lb
      /\ (q = p \/ DocAt(ds, b, q - 1) < lb)
  BY DEF Reaches
<1>3. PICK i \in 1 .. Len(ds) : i = Start(b) + q + 1 /\ ds[i] = DocAt(ds, b, q)
  <2>1. Start(b) + q + 1 \in 1 .. Len(ds)
    BY <1>1, <1>2, SMTT(30)
  <2> QED  BY <2>1, Zenon DEF DocAt
<1>4. i = 1 \/ ds[i - 1] < lb
  <2>1. CASE q # p \/ p # 0
    <3>1. DocAt(ds, b, q - 1) < lb
      BY <1>2, <2>1
    <3>2. Start(b) + (q - 1) + 1 = i - 1
      BY <1>1, <1>2, <1>3, SMTT(60)
    <3> QED  BY <3>1, <3>2, Zenon DEF DocAt
  <2>2. CASE q = p /\ p = 0 /\ b = 0
    <3>1. Start(b) = 0
      BY <2>2, StartFacts
    <3> QED  BY <1>3, <2>2, <3>1
  <2>3. CASE q = p /\ p = 0 /\ b # 0
    <3>1. PICK c \in Nat : c = b - 1 /\ b = c + 1
      BY <1>1, <2>3
    <3>2. c \in Blocks(ds) /\ c # NumBlocks(Len(ds)) - 1
      <4>1. PICK count \in Nat : count = NumBlocks(Len(ds))
        BY NextBlock
      <4> QED  BY <3>1, <4>1 DEF Blocks
    <3>3. /\ Start(b) = Start(c) + Size(ds, c) /\ Start(c) \in Nat /\ Size(ds, c) \in Nat
      BY <3>1, <3>2, NextBlock, BlockFacts
    <3>4. BlockMax(l, c) = DocAt(ds, c, Size(ds, c) - 1) /\ BlockMax(l, c) < lb
      BY <2>3, <3>1, <3>2 DEF Stored, BlockStored
    <3>5. Start(c) + (Size(ds, c) - 1) + 1 = i - 1
      BY <1>3, <2>3, <3>3
    <3> QED  BY <3>4, <3>5, Zenon DEF DocAt
  <2> QED  BY <2>1, <2>2, <2>3
<1>5. FirstGeq(ToSet(ds), Universe, lb) = ds[i]
  BY <1>2, <1>3, <1>4, FirstGeqAt
<1> QED  BY <1>3, <1>5

-----------------------------------------------------------------------------
(* The methods, from a right enumerator to a right one.                      *)

(* Past the end, or at the posting of its block and position.                *)
CursorRight(ds, en) ==
  /\ en.pos_in_block \in 0 .. Size(ds, en.cur_block)
  /\ en.cur_docid # Universe => At(ds, en, en.pos_in_block)

LEMMA AtIsRight ==
  ASSUME NEW ds \in Lists, NEW l, NEW en, BlockRight(ds, l, en), NEW p, At(ds, en, p)
  PROVE  /\ CursorRight(ds, en) /\ en.cur_docid < Universe
         /\ en.cur_docid = DocAt(ds, en.cur_block, p) /\ en.cur_docid \in Nat
         /\ p \in 0 .. Size(ds, en.cur_block) - 1 /\ en.pos_in_block = p
<1>1. PICK b \in Blocks(ds) : b = en.cur_block
  BY BlockRightFacts
<1>2. p \in 0 .. Size(ds, b) - 1 /\ en.pos_in_block = p /\ en.cur_docid = DocAt(ds, b, p)
  BY <1>1 DEF At
<1>3. DocAt(ds, b, p) \in 0 .. Universe - 1 /\ Size(ds, b) \in Nat
  BY <1>2, BlockFacts
<1>4. en.cur_docid \in Nat /\ en.cur_docid < Universe
  BY <1>2, <1>3, ListFacts
<1>5. p \in 0 .. Size(ds, b)
  BY <1>2, <1>3
<1>6. CursorRight(ds, en)
  BY <1>1, <1>2, <1>5 DEF CursorRight
<1> QED  BY <1>1, <1>2, <1>4, <1>6

LEMMA EndIsRight ==
  ASSUME NEW ds \in Lists, NEW l, NEW en, BlockRight(ds, l, en),
         NEW pos \in Nat, pos <= Size(ds, en.cur_block),
         NEW en2, en2 = Moved(en, pos, Universe)
  PROVE  BlockRight(ds, l, en2) /\ CursorRight(ds, en2) /\ en2.cur_docid = Universe
<1>1. Universe \in Nat
  BY ListFacts
<1>2. StaysRight(ds, l, en, pos, Universe, en2)
  BY <1>1, BlockRightKept
<1>3. /\ BlockRight(ds, l, en2)
      /\ en2.pos_in_block = pos /\ en2.cur_docid = Universe /\ en2.cur_block = en.cur_block
  BY <1>2 DEF StaysRight
<1>4. Size(ds, en.cur_block) \in Nat
  BY BlockRightFacts
<1>5. CursorRight(ds, en2)
  BY <1>3, <1>4 DEF CursorRight
<1> QED  BY <1>3, <1>5

(* Leaving the docid to num_docs leaves the position.                        *)
LEMMA EndedIsMoved ==
  ASSUME NEW en \in Enumerators
  PROVE  [en EXCEPT !.cur_docid = Universe] = Moved(en, en.pos_in_block, Universe)
BY DEF Enumerators, Moved

LEMMA LastBlockFacts ==
  ASSUME NEW ds \in Lists, NEW l, Stored(ds, l)
  PROVE  /\ NumBlocks(l.n) - 1 \in Blocks(ds)
         /\ BlockMax(l, NumBlocks(l.n) - 1) = ds[Len(ds)]
         /\ \A b \in Blocks(ds) : /\ BlockMax(l, b) \in 0 .. Universe - 1
                                  /\ BlockMax(l, b) \in ToSet(ds)
                                  /\ b <= NumBlocks(l.n) - 1
<1>1. PICK last \in Nat : last = NumBlocks(Len(ds)) - 1 /\ Blocks(ds) = 0 .. last
                          /\ last = NumBlocks(l.n) - 1
  <2>1. NumBlocks(Len(ds)) \in Nat \ {0}
    BY ListFacts, NumBlocksFacts
  <2> QED  BY <2>1 DEF Blocks, Stored
<1>2. last \in Blocks(ds)
  BY <1>1
<1>3. BlockMax(l, last) = ds[Len(ds)]
  <2>1. Start(last) + Size(ds, last) = Len(ds)
    BY <1>1, <1>2, NextBlock
  <2>2. Start(last) + (Size(ds, last) - 1) + 1 = Len(ds)
    BY <1>2, <2>1, BlockFacts
  <2>3. BlockMax(l, last) = DocAt(ds, last, Size(ds, last) - 1)
    BY <1>2 DEF Stored, BlockStored
  <2> QED  BY <2>2, <2>3, Zenon DEF DocAt
<1>4. ASSUME NEW b \in Blocks(ds)
      PROVE  BlockMax(l, b) \in 0 .. Universe - 1 /\ BlockMax(l, b) \in ToSet(ds)
  <2>1. BlockMax(l, b) = DocAt(ds, b, Size(ds, b) - 1)
    BY DEF Stored, BlockStored
  <2>2. PICK p \in 0 .. Size(ds, b) - 1 : p = Size(ds, b) - 1
    BY BlockFacts
  <2>3. PICK i \in 1 .. Len(ds) : i = Start(b) + p + 1
    BY BlockFacts
  <2>4. BlockMax(l, b) = ds[i]
    BY <2>1, <2>2, <2>3, Zenon DEF DocAt
  <2> QED  BY <2>4, ListFacts, PostingsOf
<1> QED  BY <1>1, <1>2, <1>3, <1>4

LEMMA MaximaGrow ==
  ASSUME NEW ds \in Lists, NEW l, Stored(ds, l)
  PROVE  Growing(l, NumBlocks(l.n) - 1)
<1>1. 0 .. NumBlocks(l.n) - 1 = Blocks(ds)
  BY DEF Stored, Blocks
<1>2. \A b \in Blocks(ds) : BlockMax(l, b) \in Int
  BY LastBlockFacts
<1>3. ASSUME NEW b \in Blocks(ds), NEW c \in Blocks(ds), b < c
      PROVE  BlockMax(l, b) < BlockMax(l, c)
  <2>1. /\ Start(b) \in Nat /\ Size(ds, b) \in Nat /\ 1 <= Size(ds, b)
        /\ Start(c) \in Nat /\ Size(ds, c) \in Nat /\ 1 <= Size(ds, c)
        /\ Start(c) + Size(ds, c) <= Len(ds)
    BY BlockFacts
  <2>2. Start(b) + Size(ds, b) <= Start(c)
    BY <1>3, NextBlock
  <2>3. PICK i \in 1 .. Len(ds), j \in 1 .. Len(ds) :
          /\ i = Start(b) + (Size(ds, b) - 1) + 1
          /\ j = Start(c) + (Size(ds, c) - 1) + 1 /\ i < j
    <3>1. Len(ds) \in Nat
      BY ListFacts
    <3> QED  BY <2>1, <2>2, <3>1
  <2>4. BlockMax(l, b) = DocAt(ds, b, Size(ds, b) - 1)
        /\ BlockMax(l, c) = DocAt(ds, c, Size(ds, c) - 1)
    BY DEF Stored, BlockStored
  <2>5. BlockMax(l, b) = ds[i] /\ BlockMax(l, c) = ds[j]
    BY <2>3, <2>4, Zenon DEF DocAt
  <2> QED  BY <2>3, <2>5, ListFacts
<1> QED  BY <1>1, <1>2, <1>3, Zenon DEF Growing

(* next(): the posting after this one, in this block or the next, or the     *)
(* end.                                                                      *)
LEMMA NextIsRight ==
  ASSUME NEW ds \in Lists, NEW l, Stored(ds, l), NEW en, BlockRight(ds, l, en),
         NEW p, At(ds, en, p), NEW en2, en2 = EnumeratorNext(l, Universe, en)
  PROVE  /\ BlockRight(ds, l, en2) /\ CursorRight(ds, en2)
         /\ en2.cur_docid = FirstGeq(ToSet(ds), Universe, en.cur_docid + 1)
<1>1. PICK b \in Blocks(ds), size \in Nat :
         b = en.cur_block /\ size = Size(ds, b) /\ en.cur_block_size = size
  BY BlockRightFacts
<1>2. /\ p \in 0 .. size - 1 /\ en.pos_in_block = p
      /\ en.cur_docid = DocAt(ds, b, p) /\ en.cur_docid \in Nat
  BY <1>1, AtIsRight
<1>3. PICK lb \in Int : lb = en.cur_docid + 1
  BY <1>2
<1>4. PICK pos \in Nat : pos = p + 1 /\ pos - 1 = p
  BY <1>2
<1>5. Universe \in Nat
  BY ListFacts
<1>6. CASE pos # size
  <2>1. pos \in 1 .. size - 1 /\ pos \in 0 .. size - 1
    BY <1>2, <1>4, <1>6
  <2>2. en.docs_buf[pos] = Gap(ds, Start(b) + pos + 1)
    BY <1>1, <2>1 DEF BlockRight
  <2>3. PICK docid \in 0 .. Universe - 1 : docid = DocAt(ds, b, pos)
    BY <1>1, <2>1, BlockFacts
  <2>4. U32(en.cur_docid + en.docs_buf[pos] + 1) = docid
    <3>1. U32(DocAt(ds, b, pos - 1) + Gap(ds, Start(b) + pos + 1) + 1) = DocAt(ds, b, pos)
      BY <1>1, <2>1, GapsLead
    <3> QED  BY <1>2, <1>4, <2>2, <2>3, <3>1, Zenon
  <2>5. en2 = Moved(en, pos, docid)
    BY <1>1, <1>2, <1>4, <1>6, <2>4, Zenon DEF EnumeratorNext, PastBlock, Moved
  <2>6. docid \in Nat
    BY <2>3, <1>5
  <2>7. StaysRight(ds, l, en, pos, docid, en2)
    BY <2>5, <2>6, BlockRightKept
  <2>8. /\ BlockRight(ds, l, en2)
        /\ en2.pos_in_block = pos /\ en2.cur_docid = docid /\ en2.cur_block = b
    BY <1>1, <2>7 DEF StaysRight
  <2>9. At(ds, en2, pos)
    BY <1>1, <2>1, <2>3, <2>8 DEF At
  <2>10. CursorRight(ds, en2)
    BY <2>8, <2>9, AtIsRight
  <2>11. Reaches(ds, b, pos, pos, lb)
    <3>1. DocAt(ds, b, p) < DocAt(ds, b, pos)
      BY <1>1, <1>2, <1>4, <2>1, BlockFacts
    <3> QED  BY <1>1, <1>2, <1>3, <2>1, <2>3, <3>1 DEF Reaches
  <2>12. FirstGeq(ToSet(ds), Universe, lb) = DocAt(ds, b, pos)
    <3>1. pos # 0 /\ pos < Size(ds, b) /\ DocAt(ds, b, pos - 1) < lb
      BY <1>1, <1>2, <1>3, <1>4, <2>1
    <3> QED  BY <2>11, <3>1, FirstGeqInBlock
  <2> QED  BY <1>3, <2>3, <2>8, <2>10, <2>12
<1>7. CASE pos = size /\ b + 1 = NumBlocks(l.n)
  <2>1. en2 = Moved(en, pos, Universe)
    BY <1>1, <1>2, <1>4, <1>7, Zenon DEF EnumeratorNext, PastBlock, Moved
  <2>2. BlockRight(ds, l, en2) /\ CursorRight(ds, en2) /\ en2.cur_docid = Universe
    <3>1. pos <= Size(ds, en.cur_block)
      BY <1>1, <1>7
    <3> QED  BY <2>1, <3>1, EndIsRight
  <2>3. ds[Len(ds)] < lb
    <3>1. b = NumBlocks(l.n) - 1
      BY <1>7, BlockFacts
    <3>2. BlockMax(l, b) = ds[Len(ds)]
      BY <3>1, LastBlockFacts
    <3>3. p = Size(ds, b) - 1
      BY <1>1, <1>4, <1>7
    <3>4. BlockMax(l, b) = DocAt(ds, b, p)
      BY <3>3 DEF Stored, BlockStored
    <3> QED  BY <1>2, <1>3, <3>2, <3>4
  <2> QED  BY <1>3, <2>2, <2>3, FirstGeqPastLast
<1>8. CASE pos = size /\ b + 1 # NumBlocks(l.n)
  <2>1. PICK c \in Blocks(ds) : c = b + 1 /\ c - 1 = b /\ c # 0
    <3>1. b # NumBlocks(Len(ds)) - 1
      <4>1. PICK count \in Nat : count = NumBlocks(Len(ds)) /\ count = NumBlocks(l.n)
        BY NextBlock DEF Stored
      <4> QED  BY <1>8, <4>1, BlockFacts
    <3>2. b + 1 \in Blocks(ds)
      BY <3>1, NextBlock
    <3>3. b \in Nat
      BY BlockFacts
    <3>4. (b + 1) - 1 = b /\ b + 1 # 0
      BY <3>3
    <3> QED  BY <3>2, <3>4
  <2>2. en2 = DecodeDocsBlock(l, en, c)
    BY <1>1, <1>2, <1>4, <1>8, <2>1, Zenon DEF EnumeratorNext, PastBlock
  <2>3. en \in Enumerators
    BY DEF BlockRight
  <2>4. BlockRight(ds, l, en2) /\ en2.cur_block = c /\ At(ds, en2, 0)
    BY <2>2, <2>3, DecodedDocs
  <2>5. CursorRight(ds, en2) /\ en2.cur_docid = DocAt(ds, c, 0)
    BY <2>4, AtIsRight
  <2>6. BlockMax(l, b) = DocAt(ds, b, p)
    <3>1. p = Size(ds, b) - 1
      BY <1>1, <1>4, <1>8
    <3> QED  BY <3>1 DEF Stored, BlockStored
  <2>7. BlockMax(l, c - 1) < lb
    BY <1>2, <1>3, <2>1, <2>6
  <2>8. DocAt(ds, c, 0) >= lb
    <3>1. /\ Start(c) = Start(b) + Size(ds, b) /\ Start(b) \in Nat
          /\ Start(c) + 0 + 1 \in 1 .. Len(ds)
          /\ Start(b) + p + 1 \in 1 .. Len(ds)
      <4>1. Start(c) = Start(b) + Size(ds, b)
        <5>1. b # NumBlocks(Len(ds)) - 1
          <6>1. PICK count \in Nat : count = NumBlocks(Len(ds)) /\ count = NumBlocks(l.n)
            BY NextBlock DEF Stored
          <6> QED  BY <1>8, <6>1, BlockFacts
        <5> QED  BY <2>1, <5>1, NextBlock
      <4>2. 0 \in 0 .. Size(ds, c) - 1
        BY BlockFacts
      <4>3. PICK zero \in 0 .. Size(ds, c) - 1 : zero = 0
        BY <4>2
      <4>4. Start(c) + zero + 1 \in 1 .. Len(ds)
        BY BlockFacts
      <4> QED  BY <1>1, <1>2, <4>1, <4>3, <4>4, BlockFacts
    <3>2. PICK i \in 1 .. Len(ds), j \in 1 .. Len(ds) :
            i = Start(b) + p + 1 /\ j = Start(c) + 0 + 1 /\ i < j
      BY <1>1, <1>2, <3>1, SMTT(60)
    <3>3. DocAt(ds, b, p) = ds[i] /\ DocAt(ds, c, 0) = ds[j]
      BY <3>2, Zenon DEF DocAt
    <3>4. ds[i] < ds[j] /\ ds[i] \in Int /\ ds[j] \in Int
      BY <3>2, ListFacts
    <3> QED  BY <1>2, <1>3, <3>3, <3>4
  <2>9. FirstGeq(ToSet(ds), Universe, lb) = DocAt(ds, c, 0)
    <3>1. PICK zero \in Nat : zero = 0
      OBVIOUS
    <3>2. Reaches(ds, c, zero, zero, lb)
      <4>1. zero \in zero .. Size(ds, c) - 1
        BY <3>1, BlockFacts
      <4> QED  BY <2>8, <3>1, <4>1 DEF Reaches
    <3>3. FirstGeq(ToSet(ds), Universe, lb) = DocAt(ds, c, zero)
      BY <2>7, <3>1, <3>2, FirstGeqInBlock
    <3> QED  BY <3>1, <3>3
  <2> QED  BY <1>3, <2>4, <2>5, <2>9
<1> QED  BY <1>6, <1>7, <1>8

(* next_geq(): the first posting at or after the bound, if it is ahead.      *)
LEMMA NextGeqIsRight ==
  ASSUME NEW ds \in Lists, NEW l, Stored(ds, l), NEW en, BlockRight(ds, l, en),
         CursorRight(ds, en), NEW lb \in Nat, lb <= Universe,
         lb >= en.cur_docid \/ en.cur_docid # Universe,
         NEW en2, en2 = EnumeratorNextGeq(l, Universe, en, lb)
  PROVE  /\ BlockRight(ds, l, en2) /\ CursorRight(ds, en2)
         /\ en2.cur_docid = IF lb > en.cur_docid THEN FirstGeq(ToSet(ds), Universe, lb)
                            ELSE en.cur_docid
<1>1. PICK b \in Blocks(ds), size \in Nat :
         /\ b = en.cur_block /\ size = Size(ds, b) /\ en.cur_block_size = size
         /\ 1 <= size /\ b \in Nat
  BY BlockRightFacts
<1>2. en.cur_block_max \in 0 .. Universe - 1 /\ en.cur_docid \in Nat /\ Universe \in Nat
      /\ en.cur_block_max = BlockMax(l, b)
  <2>1. en.cur_block_max \in 0 .. Universe - 1 /\ en.cur_docid \in Nat
    BY BlockRightFacts
  <2>2. en.cur_block_max = DocAt(ds, b, Size(ds, b) - 1)
    BY <1>1 DEF BlockRight
  <2>3. BlockMax(l, b) = DocAt(ds, b, Size(ds, b) - 1)
    BY DEF Stored, BlockStored
  <2> QED  BY <2>1, <2>2, <2>3, ListFacts
<1>3. CASE lb <= en.cur_block_max
  <2>1. PICK p : At(ds, en, p)
    <3>1. en.cur_docid # Universe
      BY <1>2, <1>3
    <3> QED  BY <3>1 DEF CursorRight
  <2>2. p \in 0 .. size - 1 /\ en.cur_docid = DocAt(ds, b, p)
    BY <1>1, <2>1, AtIsRight
  <2>3. en2 = ScanBlock(en, lb)
    BY <1>3, Zenon DEF EnumeratorNextGeq
  <2>4. BlockRight(ds, l, en2) /\ en2.cur_block = b
    BY <1>1, <1>3, <2>1, <2>3, ScannedBlock
  <2>5. PICK q : At(ds, en2, q) /\ Reaches(ds, b, p, q, lb)
    BY <1>1, <1>3, <2>1, <2>3, ScannedBlock
  <2>6. CursorRight(ds, en2) /\ en2.cur_docid = DocAt(ds, b, q) /\ q \in 0 .. size - 1
    BY <1>1, <2>4, <2>5, AtIsRight
  <2>7. q \in p .. size - 1 /\ DocAt(ds, b, q) >= lb /\ (q = p \/ DocAt(ds, b, q - 1) < lb)
    BY <1>1, <2>5 DEF Reaches
  <2>8. CASE lb > en.cur_docid
    <3>1. q # p /\ q # 0 /\ q \in Nat
      BY <1>2, <2>2, <2>7, <2>8
    <3>2. Reaches(ds, b, q, q, lb)
      BY <1>1, <2>6, <2>7, <3>1 DEF Reaches
    <3>3. q < Size(ds, b) /\ DocAt(ds, b, q - 1) < lb
      BY <1>1, <2>7, <3>1
    <3>4. FirstGeq(ToSet(ds), Universe, lb) = DocAt(ds, b, q)
      BY <3>1, <3>2, <3>3, FirstGeqInBlock
    <3> QED  BY <2>4, <2>6, <2>8, <3>4
  <2>9. CASE ~(lb > en.cur_docid)
    <3>1. q = p
      <4> SUFFICES ASSUME q # p  PROVE FALSE
        OBVIOUS
      <4>1. DocAt(ds, b, q - 1) < lb /\ q - 1 \in 0 .. size - 1 /\ (q - 1 = p \/ p < q - 1)
        BY <2>2, <2>7
      <4>2. DocAt(ds, b, q - 1) = DocAt(ds, b, p) \/ DocAt(ds, b, p) < DocAt(ds, b, q - 1)
        BY <1>1, <2>2, <4>1, BlockFacts
      <4>3. DocAt(ds, b, q - 1) \in Int
        BY <1>1, <4>1, BlockFacts
      <4> QED  BY <1>2, <2>2, <2>9, <4>1, <4>2, <4>3
    <3> QED  BY <2>2, <2>4, <2>6, <2>9, <3>1
  <2> QED  BY <2>8, <2>9
<1>4. CASE ~(lb <= en.cur_block_max) /\ PastLast(l, lb)
  <2>1. en \in Enumerators /\ en.pos_in_block \in Nat
    BY BlockRightFacts DEF BlockRight
  <2>2. en2 = Moved(en, en.pos_in_block, Universe)
    <3>1. en2 = [en EXCEPT !.cur_docid = Universe]
      BY <1>4, Zenon DEF EnumeratorNextGeq
    <3> QED  BY <2>1, <3>1, EndedIsMoved
  <2>3. en.pos_in_block <= Size(ds, en.cur_block)
    BY <1>1 DEF CursorRight
  <2>4. BlockRight(ds, l, en2) /\ CursorRight(ds, en2) /\ en2.cur_docid = Universe
    BY <2>1, <2>2, <2>3, EndIsRight
  <2>5. ds[Len(ds)] < lb
    BY <1>4, LastBlockFacts DEF PastLast
  <2>6. FirstGeq(ToSet(ds), Universe, lb) = Universe
    BY <2>5, FirstGeqPastLast
  <2>7. CASE en.cur_docid = Universe
    BY <2>4, <2>6, <2>7
  <2>8. CASE en.cur_docid # Universe
    <3>1. PICK p : At(ds, en, p)
      BY <2>8 DEF CursorRight
    <3>2. p \in 0 .. size - 1 /\ en.cur_docid = DocAt(ds, b, p)
      BY <1>1, <3>1, AtIsRight
    <3>3. PICK i \in 1 .. Len(ds) : en.cur_docid = ds[i]
      BY <1>1, <3>2, BlockFacts DEF DocAt
    <3>4. Len(ds) \in 1 .. Len(ds) /\ (i = Len(ds) \/ i < Len(ds))
      BY ListFacts
    <3>5. ds[i] = ds[Len(ds)] \/ ds[i] < ds[Len(ds)]
      BY <3>4, ListFacts
    <3>6. ds[Len(ds)] \in Int
      BY <3>4, ListFacts
    <3>7. lb > en.cur_docid
      BY <1>2, <2>5, <3>3, <3>5, <3>6
    <3> QED  BY <2>4, <2>6, <3>7
  <2> QED  BY <2>7, <2>8
<1>5. CASE ~(lb <= en.cur_block_max) /\ ~PastLast(l, lb)
  <2>1. PICK from \in Blocks(ds) : from = b + 1
    <3>1. b # NumBlocks(l.n) - 1
      BY <1>2, <1>5 DEF PastLast
    <3>2. b # NumBlocks(Len(ds)) - 1
      BY <3>1 DEF Stored
    <3> QED  BY <3>2, NextBlock
  <2>2. PICK c : c = ScanBlocks(l, from, lb)
    OBVIOUS
  <2>3. /\ c \in Blocks(ds) /\ from <= c /\ BlockMax(l, c) >= lb
        /\ \A x \in from .. c - 1 : BlockMax(l, x) < lb
    BY <1>5, <2>2, ScannedBlocks
  <2>4. c \in Nat /\ c # 0 /\ BlockMax(l, c - 1) < lb
    <3>1. c \in Nat
      BY <2>3, BlockFacts
    <3>2. CASE c = from
      <4>1. c - 1 = b /\ c # 0
        BY <1>1, <2>1, <3>2
      <4> QED  BY <1>2, <1>5, <3>1, <4>1
    <3>3. CASE c # from
      <4>1. c - 1 \in from .. c - 1 /\ c # 0
        BY <1>1, <2>1, <2>3, <3>1, <3>3
      <4> QED  BY <2>3, <3>1, <4>1
    <3> QED  BY <3>2, <3>3
  <2>5. PICK en1 : en1 = DecodeDocsBlock(l, en, c)
    OBVIOUS
  <2>6. BlockRight(ds, l, en1) /\ en1.cur_block = c /\ At(ds, en1, 0)
    <3>1. en \in Enumerators
      BY DEF BlockRight
    <3> QED  BY <2>3, <2>5, <3>1, DecodedDocs
  <2>7. en2 = ScanBlock(en1, lb)
    BY <1>1, <1>5, <2>1, <2>2, <2>5, Zenon DEF EnumeratorNextGeq
  <2>8. lb <= en1.cur_block_max
    <3>1. en1.cur_block_max = DocAt(ds, c, Size(ds, c) - 1)
      BY <2>6 DEF BlockRight
    <3>2. BlockMax(l, c) = DocAt(ds, c, Size(ds, c) - 1)
      BY <2>3 DEF Stored, BlockStored
    <3>3. BlockMax(l, c) \in Int
      BY <2>3, LastBlockFacts
    <3> QED  BY <2>3, <3>1, <3>2, <3>3
  <2>9. PICK zero \in Nat : zero = 0
    OBVIOUS
  <2>10. BlockRight(ds, l, en2) /\ en2.cur_block = c
    BY <2>6, <2>7, <2>8, <2>9, ScannedBlock
  <2>11. PICK q : At(ds, en2, q) /\ Reaches(ds, c, zero, q, lb)
    BY <2>6, <2>7, <2>8, <2>9, ScannedBlock
  <2>12. CursorRight(ds, en2) /\ en2.cur_docid = DocAt(ds, c, q)
    BY <2>10, <2>11, AtIsRight
  <2>13. FirstGeq(ToSet(ds), Universe, lb) = DocAt(ds, c, q)
    BY <2>3, <2>4, <2>9, <2>11, FirstGeqInBlock
  <2>14. lb > en.cur_docid
    <3>1. CASE en.cur_docid = Universe
      <4>1. PastLast(l, lb)
        <5>1. PICK max \in 0 .. Universe - 1 : max = BlockMax(l, NumBlocks(l.n) - 1)
          BY LastBlockFacts
        <5>2. lb = Universe
          BY <1>2, <3>1
        <5> QED  BY <1>2, <5>1, <5>2 DEF PastLast
      <4> QED  BY <1>5, <4>1
    <3>2. CASE en.cur_docid # Universe
      <4>1. PICK p : At(ds, en, p)
        BY <3>2 DEF CursorRight
      <4>2. p \in 0 .. size - 1 /\ en.cur_docid = DocAt(ds, b, p)
        BY <1>1, <4>1, AtIsRight
      <4>3. PICK r \in 0 .. size - 1 : r = size - 1 /\ (p = r \/ p < r)
        BY <1>1, <4>2
      <4>4. DocAt(ds, b, p) = DocAt(ds, b, r) \/ DocAt(ds, b, p) < DocAt(ds, b, r)
        BY <1>1, <4>2, <4>3, BlockFacts
      <4>5. en.cur_block_max = DocAt(ds, b, r)
        BY <1>1, <4>3 DEF BlockRight
      <4> QED  BY <1>2, <1>5, <4>2, <4>4, <4>5
    <3> QED  BY <3>1, <3>2
  <2> QED  BY <2>10, <2>12, <2>13, <2>14
<1> QED  BY <1>3, <1>4, <1>5

(* A call of next_geq_non_forward whose binary search meets the bound as the *)
(* last posting of a block.                                                  *)
SearchHits(l, en, lb) ==
  /\ ~(lb <= en.cur_block_max /\ lb >= en.docs_buf[0])
  /\ ~PastLast(l, lb)
  /\ BinarySearch(l, lb).hit

(* The scan of a block from its start, when no block before reaches lb.      *)
LEMMA SeekInBlock ==
  ASSUME NEW ds \in Lists, NEW l, Stored(ds, l), NEW en, BlockRight(ds, l, en),
         NEW lb \in Int, lb <= en.cur_block_max,
         lb >= en.docs_buf[0] \/ en.cur_block = 0 \/ BlockMax(l, en.cur_block - 1) < lb,
         NEW en2, en2 = ScanBlock(FromBlockStart(en), lb)
  PROVE  /\ BlockRight(ds, l, en2) /\ CursorRight(ds, en2)
         /\ en2.cur_docid = FirstGeq(ToSet(ds), Universe, lb)
<1>1. PICK b \in Blocks(ds), size \in Nat :
         /\ b = en.cur_block /\ size = Size(ds, b) /\ 1 <= size
  BY BlockRightFacts
<1>2. PICK zero \in Nat : zero = 0
  OBVIOUS
<1>3. zero \in 0 .. Size(ds, b) - 1
  BY <1>1, <1>2
<1>4. PICK first \in 0 .. Universe - 1 : first = DocAt(ds, b, zero) /\ first = en.docs_buf[0]
  <2>1. DocAt(ds, b, zero) \in 0 .. Universe - 1
    BY <1>3, BlockFacts
  <2>2. en.docs_buf[0] = DocAt(ds, b, 0)
    BY <1>1 DEF BlockRight
  <2> QED  BY <1>2, <2>1, <2>2
<1>5. PICK en1 : en1 = FromBlockStart(en)
  OBVIOUS
<1>6. BlockRight(ds, l, en1) /\ en1.cur_block = b /\ At(ds, en1, zero)
      /\ en1.cur_block_max = en.cur_block_max
  <2>1. en1 = Moved(en, zero, first)
    BY <1>2, <1>4, <1>5, Zenon DEF FromBlockStart, Moved
  <2>2. first \in Nat
    BY <1>4, ListFacts
  <2>3. StaysRight(ds, l, en, zero, first, en1)
    BY <2>1, <2>2, BlockRightKept
  <2>4. /\ BlockRight(ds, l, en1) /\ en1.cur_block = b
        /\ en1.pos_in_block = zero /\ en1.cur_docid = first
        /\ en1.cur_block_max = en.cur_block_max
    BY <1>1, <2>3 DEF StaysRight
  <2>5. At(ds, en1, zero)
    BY <1>3, <1>4, <2>4 DEF At
  <2> QED  BY <2>4, <2>5
<1>7. en2 = ScanBlock(en1, lb) /\ lb <= en1.cur_block_max
  BY <1>5, <1>6
<1>8. BlockRight(ds, l, en2) /\ en2.cur_block = b
  BY <1>6, <1>7, ScannedBlock
<1>9. PICK q : At(ds, en2, q) /\ Reaches(ds, b, zero, q, lb)
  BY <1>6, <1>7, ScannedBlock
<1>10. CursorRight(ds, en2) /\ en2.cur_docid = DocAt(ds, b, q)
       /\ q \in 0 .. Size(ds, b) - 1
  BY <1>8, <1>9, AtIsRight
<1>11. q \in zero .. Size(ds, b) - 1 /\ DocAt(ds, b, q) >= lb
       /\ (q = zero \/ DocAt(ds, b, q - 1) < lb)
  BY <1>9 DEF Reaches
<1>12. CASE lb >= en.docs_buf[0] /\ q # zero
  <2>1. q \in Nat /\ q # 0 /\ Reaches(ds, b, q, q, lb)
        /\ q < Size(ds, b) /\ DocAt(ds, b, q - 1) < lb
    BY <1>1, <1>2, <1>10, <1>11, <1>12 DEF Reaches
  <2>2. FirstGeq(ToSet(ds), Universe, lb) = DocAt(ds, b, q)
    BY <2>1, FirstGeqInBlock
  <2> QED  BY <1>8, <1>10, <2>2
<1>13. CASE lb >= en.docs_buf[0] /\ q = zero
  <2>1. lb = DocAt(ds, b, q)
    <3>1. DocAt(ds, b, q) = first
      BY <1>4, <1>13
    <3>2. first >= lb
      BY <1>11, <3>1
    <3>3. lb >= first /\ first \in Int
      BY <1>4, <1>13
    <3> QED  BY <3>1, <3>2, <3>3
  <2>2. lb \in ToSet(ds)
    <3>1. PICK i \in 1 .. Len(ds) : i = Start(b) + q + 1
      BY <1>10, BlockFacts
    <3>2. lb = ds[i]
      BY <2>1, <3>1, Zenon DEF DocAt
    <3> QED  BY <3>2, PostingsOf
  <2>3. FirstGeq(ToSet(ds), Universe, lb) = lb
    BY <2>2, FirstGeqIsPosting
  <2> QED  BY <1>8, <1>10, <2>1, <2>3
<1>14. CASE b = 0 \/ BlockMax(l, b - 1) < lb
  <2>1. FirstGeq(ToSet(ds), Universe, lb) = DocAt(ds, b, q)
    BY <1>2, <1>9, <1>14, FirstGeqInBlock
  <2> QED  BY <1>8, <1>10, <2>1
<1> QED  BY <1>1, <1>12, <1>13, <1>14

(* next_geq_non_forward(): whatever the cursor was before, its docid is the  *)
(* first at or after the bound; and it is a cursor there if no binary search *)
(* hit the bound.                                                            *)
LEMMA SeekIsRight ==
  ASSUME NEW ds \in Lists, NEW l, Stored(ds, l), NEW en, BlockRight(ds, l, en),
         NEW lb \in Nat, NEW en2, en2 = EnumeratorNextGeqNonForward(l, Universe, en, lb)
  PROVE  /\ BlockRight(ds, l, en2)
         /\ en2.cur_docid = FirstGeq(ToSet(ds), Universe, lb)
         /\ CursorRight(ds, en) /\ ~SearchHits(l, en, lb) => CursorRight(ds, en2)
<1>1. en \in Enumerators /\ en.pos_in_block \in Nat /\ en.cur_block \in Blocks(ds)
      /\ en.cur_block_max \in 0 .. Universe - 1
  BY BlockRightFacts DEF BlockRight
<1>2. CASE lb <= en.cur_block_max /\ lb >= en.docs_buf[0]
  <2>1. en2 = ScanBlock(FromBlockStart(en), lb)
    BY <1>2, Zenon DEF EnumeratorNextGeqNonForward
  <2> QED  BY <1>2, <2>1, SeekInBlock
<1>3. CASE ~(lb <= en.cur_block_max /\ lb >= en.docs_buf[0]) /\ PastLast(l, lb)
  <2>1. en2 = Moved(en, en.pos_in_block, Universe)
    <3>1. en2 = [en EXCEPT !.cur_docid = Universe]
      BY <1>3, Zenon DEF EnumeratorNextGeqNonForward
    <3> QED  BY <1>1, <3>1, EndedIsMoved
  <2>2. ds[Len(ds)] < lb
    BY <1>3, LastBlockFacts DEF PastLast
  <2>3. FirstGeq(ToSet(ds), Universe, lb) = Universe
    BY <2>2, FirstGeqPastLast
  <2>4. BlockRight(ds, l, en)
    OBVIOUS
  <2>5. Universe \in Nat
    BY ListFacts
  <2>6. StaysRight(ds, l, en, en.pos_in_block, Universe, en2)
    BY <1>1, <2>1, <2>4, <2>5, BlockRightKept
  <2>7. BlockRight(ds, l, en2) /\ en2.cur_docid = Universe
    BY <2>6 DEF StaysRight
  <2>8. ASSUME CursorRight(ds, en)  PROVE CursorRight(ds, en2)
    <3>1. en.pos_in_block <= Size(ds, en.cur_block)
      BY <2>8, <1>1, BlockFacts DEF CursorRight
    <3> QED  BY <1>1, <2>1, <2>4, <3>1, EndIsRight
  <2> QED  BY <2>3, <2>7, <2>8
<1>4. ASSUME ~(lb <= en.cur_block_max /\ lb >= en.docs_buf[0]), ~PastLast(l, lb)
      PROVE  /\ BlockRight(ds, l, en2)
             /\ en2.cur_docid = FirstGeq(ToSet(ds), Universe, lb)
             /\ ~SearchHits(l, en, lb) => CursorRight(ds, en2)
  <2>1. PICK found : found = BinarySearch(l, lb)
    OBVIOUS
  <2>2. PICK last \in Nat : last = NumBlocks(l.n) - 1 /\ Blocks(ds) = 0 .. last
    <3>1. NumBlocks(Len(ds)) \in Nat \ {0}
      BY ListFacts, NumBlocksFacts
    <3> QED  BY <3>1 DEF Blocks, Stored
  <2>3. Found(l, lb, last, found)
    BY <2>1, <2>2, MaximaGrow, BinarySearchFinds
  <2>4. /\ found.block \in Blocks(ds)
        /\ found.hit => BlockMax(l, found.block) = lb
        /\ ~found.hit => AllBelow(l, lb, found.block)
    BY <2>2, <2>3 DEF Found
  <2>5. CASE found.hit
    <3>1. PICK max : max = BlockMax(l, found.block)
      OBVIOUS
    <3>2. max = lb /\ lb \in ToSet(ds)
      BY <2>4, <2>5, <3>1, LastBlockFacts
    <3>3. en2 = Moved(en, en.pos_in_block, max)
      <4>1. en2 = [en EXCEPT !.cur_docid = max]
        BY <1>4, <2>1, <2>5, <3>1, Zenon DEF EnumeratorNextGeqNonForward
      <4>2. [en EXCEPT !.cur_docid = max] = Moved(en, en.pos_in_block, max)
        BY <1>1 DEF Enumerators, Moved
      <4> QED  BY <4>1, <4>2
    <3>4. BlockRight(ds, l, en) /\ max \in Nat
      BY <3>2
    <3>5. StaysRight(ds, l, en, en.pos_in_block, max, en2)
      BY <1>1, <3>3, <3>4, BlockRightKept
    <3>6. BlockRight(ds, l, en2) /\ en2.cur_docid = max
      BY <3>5 DEF StaysRight
    <3>7. FirstGeq(ToSet(ds), Universe, lb) = lb
      BY <3>2, FirstGeqIsPosting
    <3>8. SearchHits(l, en, lb)
      BY <1>4, <2>1, <2>5 DEF SearchHits
    <3> QED  BY <3>2, <3>6, <3>7, <3>8
  <2>6. CASE ~found.hit
    <3>1. PICK from \in Blocks(ds) : from = found.block /\ AllBelow(l, lb, from)
      BY <2>4, <2>6
    <3>2. PICK c : c = ScanBlocks(l, from, lb)
      OBVIOUS
    <3>3. /\ c \in Blocks(ds) /\ from <= c /\ BlockMax(l, c) >= lb
          /\ \A x \in from .. c - 1 : BlockMax(l, x) < lb
      BY <1>4, <3>2, ScannedBlocks
    <3>4. c = 0 \/ BlockMax(l, c - 1) < lb
      <4>1. c \in Nat /\ from \in Nat
        BY <3>3, BlockFacts
      <4>2. CASE c = 0
        BY <4>2
      <4>3. CASE c # 0
        <5>1. c - 1 \in 0 .. from - 1 \/ c - 1 \in from .. c - 1
          BY <3>3, <4>1, <4>3
        <5> QED  BY <3>1, <3>3, <5>1 DEF AllBelow
      <4> QED  BY <4>2, <4>3
    <3>5. PICK en1 : en1 = DecodeDocsBlock(l, en, c)
      OBVIOUS
    <3>6. BlockRight(ds, l, en1) /\ en1.cur_block = c
      BY <1>1, <3>3, <3>5, DecodedDocs
    <3>7. lb <= en1.cur_block_max
      <4>1. en1.cur_block_max = DocAt(ds, c, Size(ds, c) - 1)
        BY <3>6 DEF BlockRight
      <4>2. BlockMax(l, c) = DocAt(ds, c, Size(ds, c) - 1)
        BY <3>3 DEF Stored, BlockStored
      <4>3. BlockMax(l, c) \in Int
        BY <3>3, LastBlockFacts
      <4> QED  BY <3>3, <4>1, <4>2, <4>3
    <3>8. en2 = ScanBlock(FromBlockStart(en1), lb)
      BY <1>4, <2>1, <2>6, <3>1, <3>2, <3>5, Zenon DEF EnumeratorNextGeqNonForward
    <3> QED  BY <3>4, <3>6, <3>7, <3>8, SeekInBlock
  <2> QED  BY <2>5, <2>6
<1> QED  BY <1>2, <1>3, <1>4

(* move(): the posting at that position.                                     *)
LEMMA MoveIsRight ==
  ASSUME NEW ds \in Lists, NEW l, Stored(ds, l), NEW en, BlockRight(ds, l, en),
         CursorRight(ds, en), NEW pos \in Nat, pos < Len(ds),
         \/ pos \div BlockSize # en.cur_block
         \/ pos >= Position(en) /\ en.cur_docid # Universe,
         NEW en2, en2 = EnumeratorMove(l, en, pos)
  PROVE  /\ BlockRight(ds, l, en2) /\ CursorRight(ds, en2)
         /\ pos + 1 \in 1 .. Len(ds) /\ en2.cur_docid = ds[pos + 1]
<1>1. PICK b, q : b = pos \div BlockSize /\ q = pos % BlockSize
  OBVIOUS
<1>2. /\ b \in Blocks(ds) /\ q \in 0 .. Size(ds, b) - 1 /\ pos = Start(b) + q
      /\ b \in Nat /\ Start(b) \in Nat /\ Size(ds, b) \in Nat
  <2>1. Len(ds) \in Nat \ {0} /\ pos \in 0 .. Len(ds) - 1
    BY ListFacts
  <2>2. b \in Blocks(ds) /\ q \in 0 .. Size(ds, b) - 1 /\ pos = Start(b) + q
    BY <1>1, <2>1, BlockOfPosition DEF Blocks, Size
  <2> QED  BY <2>2, BlockFacts
<1>3. PICK at : at = IF b # en.cur_block THEN DecodeDocsBlock(l, en, b) ELSE en
  OBVIOUS
<1>4. PICK p : BlockRight(ds, l, at) /\ at.cur_block = b /\ At(ds, at, p) /\ p <= q
  <2>1. CASE b # en.cur_block
    <3>1. at = DecodeDocsBlock(l, en, b)
      BY <1>3, <2>1
    <3>2. en \in Enumerators
      BY DEF BlockRight
    <3>3. BlockRight(ds, l, at) /\ at.cur_block = b /\ At(ds, at, 0)
      BY <1>2, <3>1, <3>2, DecodedDocs
    <3>4. 0 <= q
      BY <1>2
    <3> QED  BY <3>3, <3>4
  <2>2. CASE b = en.cur_block
    <3>1. at = en /\ pos >= Position(en) /\ en.cur_docid # Universe
      BY <1>1, <1>3, <2>2
    <3>2. PICK p : At(ds, en, p)
      BY <3>1 DEF CursorRight
    <3>3. p \in Nat /\ en.pos_in_block = p
      BY <3>2, AtIsRight
    <3>4. Position(en) = Start(b) + p
      BY <2>2, <3>3 DEF Position, Start
    <3>5. p <= q
      BY <1>2, <3>1, <3>3, <3>4
    <3> QED  BY <2>2, <3>1, <3>2, <3>5
  <2> QED  BY <2>1, <2>2
<1>5. p \in Nat /\ at.pos_in_block = p /\ Position(at) = Start(b) + p
  <2>1. p \in Nat /\ at.pos_in_block = p
    BY <1>4, AtIsRight
  <2> QED  BY <1>4, <2>1 DEF Position, Start
<1>6. BlockRight(ds, l, en2) /\ en2.cur_block = b /\ At(ds, en2, q)
  <2>1. en2 = IF Position(at) < pos THEN WalkTo(at, q) ELSE at
    BY <1>1, <1>3, Zenon DEF EnumeratorMove
  <2>2. CASE p < q
    <3>1. Position(at) < pos
      BY <1>2, <1>5, <2>2
    <3>2. en2 = WalkTo(at, q)
      BY <2>1, <3>1
    <3>3. q \in p .. Size(ds, at.cur_block) - 1
      BY <1>2, <1>4, <1>5, <2>2
    <3> QED  BY <1>4, <3>2, <3>3, WalkedTo
  <2>3. CASE p = q
    <3>1. ~(Position(at) < pos)
      BY <1>2, <1>5, <2>3
    <3>2. en2 = at
      BY <2>1, <3>1
    <3> QED  BY <1>4, <2>3, <3>2
  <2>4. p < q \/ p = q
    BY <1>2, <1>4, <1>5
  <2> QED  BY <2>2, <2>3, <2>4
<1>7. CursorRight(ds, en2) /\ en2.cur_docid = DocAt(ds, b, q)
  BY <1>6, AtIsRight
<1>8. Start(b) + q + 1 = pos + 1 /\ pos + 1 \in 1 .. Len(ds)
  BY <1>2, ListFacts, SMTT(30)
<1> QED  BY <1>6, <1>7, <1>8, Zenon DEF DocAt

(* The rank of a posting is its position.                                    *)
LEMMA RankIsPosition ==
  ASSUME NEW ds \in Lists, NEW pos \in Nat, pos + 1 \in 1 .. Len(ds)
  PROVE  Rank(ToSet(ds), ds[pos + 1]) = pos
<1> PICK n \in Nat : n = Len(ds)
  BY ListFacts
<1>1. /\ IsList(ds, n, Universe) /\ \A j \in 1 .. n : ds[j] \in Int
      /\ \A j \in 1 .. n, k \in 1 .. n : j < k => ds[j] < ds[k]
  BY ListOf, SMTT(30) DEF IsList
<1>2. ASSUME NEW j \in 1 .. n  PROVE j <= pos <=> ds[j] < ds[pos + 1]
  <2>1. j < pos + 1 \/ j = pos + 1 \/ pos + 1 < j
    OBVIOUS
  <2>2. ds[pos + 1] \in Int /\ ds[j] \in Int
    BY <1>1
  <2>3. j < pos + 1 => ds[j] < ds[pos + 1]
    BY <1>1
  <2>4. pos + 1 < j => ds[pos + 1] < ds[j]
    BY <1>1
  <2> QED  BY <2>1, <2>2, <2>3, <2>4
<1>3. FirstAreBelow(ds, n, ds[pos + 1], pos)
  BY <1>2 DEF FirstAreBelow
<1> QED  BY <1>1, <1>3, RankOfList

-----------------------------------------------------------------------------
(* The invariants.                                                           *)

(* A call that only sets the docid: the one that breaks the cursor.          *)
SeekHit ==
  \E lb \in 0 .. Universe : SearchHits(list, e, lb) /\ NextGeqNonForward(lb)

BufferInv == ListRight /\ BlockRight(docs, list, e)

CursorInv == BufferInv /\ CursorRight(docs, e)

LEMMA NewEnumeratorRight ==
  ASSUME NEW ds \in Lists, NEW l, Stored(ds, l)
  PROVE  BlockRight(ds, l, NewEnumerator(l)) /\ At(ds, NewEnumerator(l), 0)
<1>1. PICK zero \in Nat : zero = 0
  OBVIOUS
<1>2. PICK zeros \in Buffers : zeros = [i \in 0 .. BlockSize - 1 |-> zero]
  <2>1. zero \in UInt32
    BY <1>1, ListFacts DEF UInt32
  <2> QED  BY <2>1 DEF Buffers
<1>3. PICK en : en = [cur_block |-> MinusOne, pos_in_block |-> zero, cur_block_max |-> zero,
                      cur_block_size |-> zero, cur_docid |-> zero, docs_buf |-> zeros,
                      freqs_buf |-> zeros, freqs_ptr |-> zero, freqs_decoded |-> FALSE]
  OBVIOUS
<1>4. en \in Enumerators
  <2>1. MinusOne \in Nat
    BY MinusOneFacts
  <2> QED  BY <1>3, <2>1 DEF Enumerators
<1>5. PICK b \in Blocks(ds) : b = 0
  <2>1. NumBlocks(Len(ds)) \in Nat \ {0}
    BY ListFacts, NumBlocksFacts
  <2> QED  BY <2>1 DEF Blocks
<1>6. NewEnumerator(l) = DecodeDocsBlock(l, en, b)
  BY <1>1, <1>2, <1>3, <1>5, Zenon DEF NewEnumerator, EnumeratorReset
<1> QED  BY <1>4, <1>6, DecodedDocs

LEMMA ResetIsRight ==
  ASSUME NEW ds \in Lists, NEW l, Stored(ds, l), NEW en, BlockRight(ds, l, en),
         NEW en2, en2 = EnumeratorReset(l, en)
  PROVE  BlockRight(ds, l, en2) /\ At(ds, en2, 0)
<1>1. PICK b \in Blocks(ds) : b = 0
  <2>1. NumBlocks(Len(ds)) \in Nat \ {0}
    BY ListFacts, NumBlocksFacts
  <2> QED  BY <2>1 DEF Blocks
<1>2. en \in Enumerators /\ en2 = DecodeDocsBlock(l, en, b)
  BY <1>1 DEF BlockRight, EnumeratorReset
<1> QED  BY <1>2, DecodedDocs

(* At the first posting.                                                     *)
LEMMA FirstPosting ==
  ASSUME NEW ds \in Lists, NEW l, Stored(ds, l), NEW en, BlockRight(ds, l, en),
         At(ds, en, 0), en.cur_block = 0
  PROVE  en.cur_docid = FirstGeq(ToSet(ds), Universe, 0)
<1>1. PICK zero \in Nat : zero = 0
  OBVIOUS
<1>2. PICK b \in Blocks(ds) : b = 0 /\ b = en.cur_block
  BY BlockRightFacts
<1>3. /\ en.cur_docid = DocAt(ds, b, zero) /\ zero \in 0 .. Size(ds, b) - 1
      /\ en.cur_docid \in Nat
  BY <1>1, <1>2, AtIsRight
<1>4. Reaches(ds, b, zero, zero, zero)
  BY <1>1, <1>3 DEF Reaches
<1>5. FirstGeq(ToSet(ds), Universe, zero) = DocAt(ds, b, zero)
  BY <1>1, <1>2, <1>4, FirstGeqInBlock
<1> QED  BY <1>1, <1>3, <1>5

LEMMA InitCursorInv ==
  Init => CursorInv
<1> SUFFICES ASSUME Init  PROVE CursorInv
  OBVIOUS
<1>1. ListRight
  BY InitListRight
<1>2. docs \in Lists /\ Stored(docs, list)
  BY <1>1 DEF ListRight
<1>3. e = NewEnumerator(list)
  BY DEF Init
<1>4. BlockRight(docs, list, e) /\ At(docs, e, 0)
  BY <1>2, <1>3, NewEnumeratorRight
<1>5. CursorRight(docs, e)
  BY <1>2, <1>4, AtIsRight
<1> QED  BY <1>1, <1>4, <1>5 DEF CursorInv, BufferInv

(* What each call does to a right cursor.                                    *)
Moves(d) == BlockRight(docs, list, e') /\ CursorRight(docs, e') /\ e'.cur_docid = d

LEMMA ResetMoves ==
  ASSUME BufferInv, Reset
  PROVE  Moves(FirstGeq(ToSet(docs), Universe, 0))
<1>1. docs \in Lists /\ Stored(docs, list) /\ BlockRight(docs, list, e)
  BY DEF BufferInv, ListRight
<1>2. e' = EnumeratorReset(list, e)
  BY DEF Reset, Call
<1>3. BlockRight(docs, list, e') /\ At(docs, e', 0)
  BY <1>1, <1>2, ResetIsRight
<1>4. e'.cur_block = 0
  <2>1. e \in Enumerators
    BY <1>1 DEF BlockRight
  <2> QED  BY <1>2, <2>1 DEF EnumeratorReset, DecodeDocsBlock, Enumerators
<1>5. CursorRight(docs, e')
  BY <1>1, <1>3, AtIsRight
<1>6. e'.cur_docid = FirstGeq(ToSet(docs), Universe, 0)
  BY <1>1, <1>3, <1>4, FirstPosting
<1> QED  BY <1>3, <1>5, <1>6 DEF Moves

LEMMA NextMoves ==
  ASSUME CursorInv, Next
  PROVE  Moves(FirstGeq(ToSet(docs), Universe, e.cur_docid + 1))
<1>1. docs \in Lists /\ Stored(docs, list) /\ BlockRight(docs, list, e)
      /\ CursorRight(docs, e)
  BY DEF CursorInv, BufferInv, ListRight
<1>2. e' = EnumeratorNext(list, Universe, e) /\ e.cur_docid # Universe
  BY DEF Next, Call, AtEnd
<1>3. PICK p : At(docs, e, p)
  BY <1>1, <1>2 DEF CursorRight
<1>4. /\ BlockRight(docs, list, e') /\ CursorRight(docs, e')
      /\ e'.cur_docid = FirstGeq(ToSet(docs), Universe, e.cur_docid + 1)
  BY <1>1, <1>2, <1>3, NextIsRight
<1> QED  BY <1>4 DEF Moves

LEMMA NextGeqMoves ==
  ASSUME CursorInv, NEW lb \in 0 .. Universe, NextGeq(lb)
  PROVE  Moves(IF lb > e.cur_docid THEN FirstGeq(ToSet(docs), Universe, lb)
               ELSE e.cur_docid)
<1>1. docs \in Lists /\ Stored(docs, list) /\ BlockRight(docs, list, e)
      /\ CursorRight(docs, e)
  BY DEF CursorInv, BufferInv, ListRight
<1>2. /\ e' = EnumeratorNextGeq(list, Universe, e, lb)
      /\ lb >= e.cur_docid \/ e.cur_docid # Universe
  BY DEF NextGeq, Call, AtEnd
<1>3. lb \in Nat /\ lb <= Universe
  BY ListFacts, <1>1
<1>4. /\ BlockRight(docs, list, e') /\ CursorRight(docs, e')
      /\ e'.cur_docid = IF lb > e.cur_docid THEN FirstGeq(ToSet(docs), Universe, lb)
                        ELSE e.cur_docid
  BY <1>1, <1>2, <1>3, NextGeqIsRight
<1> QED  BY <1>4 DEF Moves

LEMMA SeekMoves ==
  ASSUME CursorInv, NEW lb \in 0 .. Universe, NextGeqNonForward(lb),
         ~SearchHits(list, e, lb)
  PROVE  Moves(FirstGeq(ToSet(docs), Universe, lb))
<1>1. docs \in Lists /\ Stored(docs, list) /\ BlockRight(docs, list, e)
      /\ CursorRight(docs, e)
  BY DEF CursorInv, BufferInv, ListRight
<1>2. e' = EnumeratorNextGeqNonForward(list, Universe, e, lb)
  BY DEF NextGeqNonForward, Call
<1>3. lb \in Nat
  BY ListFacts, <1>1
<1>4. /\ BlockRight(docs, list, e') /\ CursorRight(docs, e')
      /\ e'.cur_docid = FirstGeq(ToSet(docs), Universe, lb)
  BY <1>1, <1>2, <1>3, SeekIsRight
<1> QED  BY <1>4 DEF Moves

LEMMA MoveMoves ==
  ASSUME CursorInv, NEW pos \in 0 .. Universe, Move(pos)
  PROVE  pos + 1 \in 1 .. Len(docs) /\ Moves(docs[pos + 1])
<1>1. docs \in Lists /\ Stored(docs, list) /\ BlockRight(docs, list, e)
      /\ CursorRight(docs, e)
  BY DEF CursorInv, BufferInv, ListRight
<1>2. /\ e' = EnumeratorMove(list, e, pos) /\ pos < list.n
      /\ \/ pos \div BlockSize # e.cur_block
         \/ pos >= Position(e) /\ e.cur_docid # Universe
  BY DEF Move, Call, AtEnd
<1>3. pos \in Nat /\ pos < Len(docs)
  BY <1>1, <1>2, ListFacts DEF Stored
<1>4. /\ BlockRight(docs, list, e') /\ CursorRight(docs, e')
      /\ pos + 1 \in 1 .. Len(docs) /\ e'.cur_docid = docs[pos + 1]
  BY <1>1, <1>2, <1>3, MoveIsRight
<1> QED  BY <1>4 DEF Moves

LEMMA FreqMoves ==
  ASSUME CursorInv, Freq
  PROVE  Moves(e.cur_docid)
<1>1. docs \in Lists /\ Stored(docs, list) /\ BlockRight(docs, list, e)
      /\ CursorRight(docs, e)
  BY DEF CursorInv, BufferInv, ListRight
<1>2. e' = EnumeratorFreq(list, e)
  BY DEF Freq, Call
<1>3. PICK en2 : en2 = e'
  OBVIOUS
<1>4. /\ BlockRight(docs, list, en2) /\ en2.cur_block = e.cur_block
      /\ en2.pos_in_block = e.pos_in_block /\ en2.cur_docid = e.cur_docid
  BY <1>1, <1>2, <1>3, DecodedFreqs
<1>5. CursorRight(docs, en2)
  BY <1>1, <1>4 DEF CursorRight, At
<1> QED  BY <1>3, <1>4, <1>5 DEF Moves

LEMMA MovesKeepCursorInv ==
  ASSUME CursorInv, [Step]_vars, NEW d, Moves(d)
  PROVE  CursorInv'
<1>1. ListRight'
  BY StepsKeepListRight DEF CursorInv, BufferInv
<1>2. docs' = docs /\ list' = list
  BY StepsKeepTheList
<1>3. BlockRight(docs, list, e') /\ CursorRight(docs, e')
  BY DEF Moves
<1>4. BlockRight(docs', list', e') /\ CursorRight(docs', e')
  BY <1>2, <1>3
<1> QED  BY <1>1, <1>4 DEF CursorInv, BufferInv

LEMMA StutterKeepsCursorInv ==
  CursorInv /\ UNCHANGED vars => CursorInv'
<1> SUFFICES ASSUME CursorInv, UNCHANGED vars  PROVE CursorInv'
  OBVIOUS
<1>1. docs' = docs /\ list' = list /\ e' = e
  BY DEF vars
<1>2. ListRight'
  BY StepsKeepListRight DEF CursorInv, BufferInv
<1>3. BlockRight(docs', list', e') /\ CursorRight(docs', e')
  BY <1>1 DEF CursorInv, BufferInv
<1> QED  BY <1>2, <1>3 DEF CursorInv, BufferInv

LEMMA StepsKeepCursorInv ==
  CursorInv /\ [Step]_vars /\ [~SeekHit]_vars => CursorInv'
<1> SUFFICES ASSUME CursorInv, [Step]_vars, [~SeekHit]_vars  PROVE CursorInv'
  OBVIOUS
<1>1. CASE UNCHANGED vars
  BY <1>1, StutterKeepsCursorInv
<1>2. CASE Reset
  <2>1. PICK d : Moves(d)
    BY <1>2, ResetMoves DEF CursorInv
  <2> QED  BY <2>1, MovesKeepCursorInv
<1>3. CASE Next
  <2>1. PICK d : Moves(d)
    BY <1>3, NextMoves
  <2> QED  BY <2>1, MovesKeepCursorInv
<1>4. CASE Freq
  <2>1. PICK d : Moves(d)
    BY <1>4, FreqMoves
  <2> QED  BY <2>1, MovesKeepCursorInv
<1>5. ASSUME NEW arg \in 0 .. Universe, NextGeq(arg)  PROVE CursorInv'
  <2>1. PICK d : Moves(d)
    BY <1>5, NextGeqMoves
  <2> QED  BY <2>1, MovesKeepCursorInv
<1>6. ASSUME NEW arg \in 0 .. Universe, NextGeqNonForward(arg), ~(UNCHANGED vars)
      PROVE  CursorInv'
  <2>1. ~SearchHits(list, e, arg)
    BY <1>6 DEF SeekHit
  <2>2. PICK d : Moves(d)
    BY <1>6, <2>1, SeekMoves
  <2> QED  BY <2>2, MovesKeepCursorInv
<1>7. ASSUME NEW arg \in 0 .. Universe, Move(arg)  PROVE CursorInv'
  <2>1. PICK d : Moves(d)
    BY <1>7, MoveMoves
  <2> QED  BY <2>1, MovesKeepCursorInv
<1> QED  BY <1>1, <1>2, <1>3, <1>4, <1>5, <1>6, <1>7 DEF Step

LEMMA CursorInvTypeOK ==
  CursorInv => TypeOK
<1> SUFFICES ASSUME CursorInv  PROVE TypeOK
  OBVIOUS
<1>1. docs \in Lists /\ Stored(docs, list) /\ BlockRight(docs, list, e)
      /\ CursorRight(docs, e)
  BY DEF CursorInv, BufferInv, ListRight
<1>2. list.n = Len(docs)
  BY <1>1 DEF Stored
<1>3. e.cur_block \in 0 .. NumBlocks(list.n) - 1
  BY <1>1, <1>2, BlockRightFacts DEF Blocks
<1>4. e.cur_block_size = SizeOfBlock(list.n, e.cur_block)
  BY <1>1, <1>2, BlockRightFacts DEF Size
<1>5. e.pos_in_block \in 0 .. e.cur_block_size
  BY <1>1, BlockRightFacts DEF CursorRight
<1>6. e.cur_docid \in 0 .. Universe
  <2>1. Universe \in Nat
    BY <1>1, ListFacts
  <2>2. CASE e.cur_docid = Universe
    BY <2>1, <2>2
  <2>3. CASE e.cur_docid # Universe
    <3>1. At(docs, e, e.pos_in_block)
      BY <1>1, <2>3 DEF CursorRight
    <3>2. e.cur_docid \in Nat /\ e.cur_docid < Universe
      BY <1>1, <3>1, AtIsRight
    <3> QED  BY <2>1, <3>2
  <2> QED  BY <2>2, <2>3
<1>7. e.docs_buf \in Buffers /\ e.freqs_buf \in Buffers /\ e.freqs_decoded \in BOOLEAN
  BY <1>1 DEF BlockRight, Enumerators
<1> QED  BY <1>1, <1>2, <1>3, <1>4, <1>5, <1>6, <1>7 DEF TypeOK

LEMMA CursorInvAtPosting ==
  CursorInv => AtPosting
<1> SUFFICES ASSUME CursorInv, ~AtEnd
             PROVE  /\ docs[Position(e) + 1] = e.cur_docid
                    /\ FreqValue(EnumeratorFreq(list, e)) = Freqs(docs)[Position(e) + 1]
  BY DEF AtPosting, PositionOfDocid, FreqOfDocid
<1>1. docs \in Lists /\ Stored(docs, list) /\ BlockRight(docs, list, e)
      /\ CursorRight(docs, e)
  BY DEF CursorInv, BufferInv, ListRight
<1>2. PICK p : At(docs, e, p)
  BY <1>1 DEF AtEnd, CursorRight
<1>3. PICK b \in Blocks(docs) : b = e.cur_block
  BY <1>1, BlockRightFacts
<1>4. /\ p \in 0 .. Size(docs, b) - 1 /\ e.pos_in_block = p
      /\ e.cur_docid = DocAt(docs, b, p)
  BY <1>1, <1>2, <1>3, AtIsRight
<1>5. Position(e) = Start(b) + p
  BY <1>3, <1>4 DEF Position, Start
<1>6. PICK i \in 1 .. Len(docs) :
        i = Start(b) + p + 1 /\ i = Position(e) + 1 /\ i = (Start(b) + p) + 1
  <2>1. Start(b) \in Nat /\ Start(b) + p + 1 \in 1 .. Len(docs)
    BY <1>1, <1>4, BlockFacts
  <2>2. Start(b) + p + 1 = Position(e) + 1 /\ Start(b) + p + 1 = (Start(b) + p) + 1
    BY <1>4, <1>5, <2>1
  <2> QED  BY <2>1, <2>2
<1>7. docs[Position(e) + 1] = e.cur_docid
  BY <1>4, <1>6, Zenon DEF DocAt
<1>8. PICK en2 : en2 = EnumeratorFreq(list, e)
  OBVIOUS
<1>9. BlockRight(docs, list, en2) /\ en2.freqs_decoded /\ en2.cur_block = b
      /\ en2.pos_in_block = p
  BY <1>1, <1>3, <1>4, <1>8, DecodedFreqs
<1>10. en2.freqs_buf[p] = Start(b) + p
  BY <1>4, <1>9 DEF BlockRight
<1>11. FreqValue(en2) = i
  BY <1>6, <1>9, <1>10 DEF FreqValue
<1>12. Freqs(docs)[i] = i
  BY DEF Freqs
<1> QED  BY <1>6, <1>7, <1>8, <1>11, <1>12, Zenon

(* Short of a binary search that meets its bound, every field stays in its   *)
(* range: the block one of the list, the position at most one past it.       *)
THEOREM EnumeratorTypes ==
  Spec /\ [][~SeekHit]_vars => []TypeOK
<1>1. Init => CursorInv
  BY InitCursorInv
<1>2. CursorInv /\ [Step]_vars /\ [~SeekHit]_vars => CursorInv'
  BY StepsKeepCursorInv
<1>3. CursorInv => TypeOK
  BY CursorInvTypeOK
<1> QED  BY <1>1, <1>2, <1>3, PTL DEF Spec

(* Short of one, too, position(), docid() and freq() are of one posting,     *)
(* though the docids and the frequencies are decoded into buffers that are   *)
(* used again, and the frequencies only when they are asked for.             *)
THEOREM EnumeratorAtPosting ==
  Spec /\ [][~SeekHit]_vars => []AtPosting
<1>1. Init => CursorInv
  BY InitCursorInv
<1>2. CursorInv /\ [Step]_vars /\ [~SeekHit]_vars => CursorInv'
  BY StepsKeepCursorInv
<1>3. CursorInv => AtPosting
  BY CursorInvAtPosting
<1> QED  BY <1>1, <1>2, <1>3, PTL DEF Spec

(* A caller that only seeks gets the right document from every call, hit or  *)
(* not: a hit leaves the cursor wrong, but no buffer, and a seek asks no     *)
(* more.                                                                     *)
THEOREM SeeksFindTheDocid ==
  SeekSpec => []SeeksTheDocid
<1>1. Init => BufferInv /\ SeeksTheDocid
  <2>1. Init => BufferInv
    BY InitCursorInv DEF CursorInv
  <2>2. Init => SeeksTheDocid
    BY DEF Init, SeeksTheDocid
  <2> QED  BY <2>1, <2>2
<1>2. BufferInv /\ SeeksTheDocid /\ [Seek]_vars => BufferInv' /\ SeeksTheDocid'
  <2> SUFFICES ASSUME BufferInv, SeeksTheDocid, [Seek]_vars
               PROVE  BufferInv' /\ SeeksTheDocid'
    OBVIOUS
  <2>1. CASE UNCHANGED vars
    <3>1. docs' = docs /\ list' = list /\ e' = e /\ call' = call
      BY <2>1 DEF vars
    <3>2. ListRight'
      BY <2>1, StepsKeepListRight DEF BufferInv
    <3>3. BlockRight(docs', list', e')
      BY <3>1 DEF BufferInv
    <3>4. SeeksTheDocid'
      BY <3>1, Zenon DEF SeeksTheDocid
    <3> QED  BY <3>2, <3>3, <3>4 DEF BufferInv
  <2>2. ASSUME NEW lb \in 0 .. Universe, NextGeqNonForward(lb)
        PROVE  BufferInv' /\ SeeksTheDocid'
    <3>1. /\ e' = EnumeratorNextGeqNonForward(list, Universe, e, lb)
          /\ call' = <<"next_geq_non_forward", lb>> /\ docs' = docs /\ list' = list
      BY <2>2 DEF NextGeqNonForward, Call
    <3>2. docs \in Lists /\ Stored(docs, list) /\ BlockRight(docs, list, e)
      BY DEF BufferInv, ListRight
    <3>3. lb \in Nat
      BY ListFacts, <3>2
    <3>4. BlockRight(docs, list, e') /\ e'.cur_docid = FirstGeq(ToSet(docs), Universe, lb)
      BY <3>1, <3>2, <3>3, SeekIsRight
    <3>5. BufferInv'
      BY <3>1, <3>2, <3>4 DEF BufferInv, ListRight
    <3>6. call'[2] = lb
      BY <3>1
    <3>7. SeeksTheDocid'
      BY <3>1, <3>4, <3>6, Zenon DEF SeeksTheDocid
    <3> QED  BY <3>5, <3>7
  <2> QED  BY <2>1, <2>2 DEF Seek
<1> QED  BY <1>1, <1>2, PTL DEF SeekSpec

-----------------------------------------------------------------------------
(* The refinement.                                                           *)

LEMMA SameOperators ==
  /\ \A lb : Cursor!FirstFrom(lb) = FirstGeq(ToSet(docs), Universe, lb)
  /\ \A d : Cursor!Rank(ToSet(docs), d) = Rank(ToSet(docs), d)
<1>1. \A lb : Cursor!FirstFrom(lb) = FirstGeq(ToSet(docs), Universe, lb)
  BY Zenon DEF Cursor!FirstFrom, Cursor!FirstGeq, FirstGeq
<1>2. \A d : Cursor!Rank(ToSet(docs), d) = Rank(ToSet(docs), d)
  BY Zenon DEF Cursor!Rank, Rank, Cursor!Cardinality, Cardinality
<1> QED  BY <1>1, <1>2

(* A step that moves the docid as the cursor's call does.                    *)
LEMMA MovesAnswer ==
  ASSUME NEW op, NEW arg, NEW d, Moves(d),
         call' = <<op, arg>> /\ docs' = docs
  PROVE  Cursor!Answer(op, arg, d)
BY Zenon DEF Moves, Cursor!Answer

LEMMA StepsAreCursorSteps ==
  CursorInv /\ [Step]_vars /\ [~SeekHit]_vars
    => [Cursor!CursorStep]_(Cursor!cursorVars)
<1> SUFFICES ASSUME CursorInv, [Step]_vars, [~SeekHit]_vars
             PROVE  Cursor!CursorStep \/ UNCHANGED Cursor!cursorVars
  OBVIOUS
<1>1. CASE UNCHANGED vars
  BY <1>1, Zenon DEF vars, Cursor!cursorVars
<1>2. CASE Reset
  <2>1. call' = <<"reset", 0>> /\ docs' = docs
    BY <1>2 DEF Reset, Call
  <2>2. Moves(Cursor!FirstFrom(0))
    BY <1>2, ResetMoves, SameOperators, Zenon DEF CursorInv
  <2> QED  BY <2>1, <2>2, MovesAnswer, Zenon DEF Cursor!CursorReset, Cursor!CursorStep
<1>3. CASE Next
  <2>1. call' = <<"next", 0>> /\ docs' = docs /\ e.cur_docid # Universe
    BY <1>3 DEF Next, Call, AtEnd
  <2>2. Moves(Cursor!FirstFrom(e.cur_docid + 1))
    BY <1>3, NextMoves, SameOperators, Zenon
  <2>3. e.cur_docid < Universe
    <3>1. docs \in Lists /\ BlockRight(docs, list, e) /\ At(docs, e, e.pos_in_block)
      BY <2>1 DEF CursorInv, BufferInv, ListRight, CursorRight
    <3> QED  BY <3>1, AtIsRight
  <2> QED  BY <2>1, <2>2, <2>3, MovesAnswer, Zenon DEF Cursor!CursorNext, Cursor!CursorStep
<1>4. CASE Freq
  <2>1. call' = <<"freq", 0>> /\ docs' = docs
    BY <1>4 DEF Freq, Call
  <2>2. Moves(e.cur_docid)
    BY <1>4, FreqMoves
  <2> QED  BY <2>1, <2>2, MovesAnswer, Zenon DEF Cursor!CursorFreq, Cursor!CursorStep
<1>5. ASSUME NEW arg \in 0 .. Universe, NextGeq(arg)
      PROVE  Cursor!CursorStep
  <2>1. call' = <<"next_geq", arg>> /\ docs' = docs
    BY <1>5 DEF NextGeq, Call
  <2>2. Moves(IF arg > e.cur_docid THEN Cursor!FirstFrom(arg) ELSE e.cur_docid)
    BY <1>5, NextGeqMoves, SameOperators, Zenon
  <2> QED  BY <2>1, <2>2, MovesAnswer, Zenon DEF Cursor!CursorNextGeq, Cursor!CursorStep
<1>6. ASSUME NEW arg \in 0 .. Universe, NextGeqNonForward(arg), ~(UNCHANGED vars)
      PROVE  Cursor!CursorStep
  <2>1. call' = <<"next_geq_non_forward", arg>> /\ docs' = docs
    BY <1>6 DEF NextGeqNonForward, Call
  <2>2. ~SearchHits(list, e, arg)
    BY <1>6 DEF SeekHit
  <2>3. Moves(Cursor!FirstFrom(arg))
    BY <1>6, <2>2, SeekMoves, SameOperators, Zenon
  <2> QED  BY <2>1, <2>3, MovesAnswer, Zenon DEF Cursor!CursorSeek, Cursor!CursorStep
<1>7. ASSUME NEW arg \in 0 .. Universe, Move(arg)
      PROVE  Cursor!CursorStep
  <2>1. call' = <<"move", arg>> /\ docs' = docs
    BY <1>7 DEF Move, Call
  <2>2. docs \in Lists
    BY DEF CursorInv, BufferInv, ListRight
  <2>3. arg + 1 \in 1 .. Len(docs) /\ Moves(docs[arg + 1])
    BY <1>7, MoveMoves
  <2>4. docs[arg + 1] \in ToSet(docs)
    BY <2>2, <2>3, PostingsOf
  <2>5. arg \in Nat
    BY <2>2, ListFacts
  <2>6. Rank(ToSet(docs), docs[arg + 1]) = arg
    BY <2>2, <2>3, <2>5, RankIsPosition
  <2>7. Cursor!Answer("move", arg, docs[arg + 1])
    BY <2>1, <2>3, MovesAnswer, Zenon
  <2>8. Cursor!CursorMove(arg)
    BY <2>4, <2>6, <2>7, SameOperators, Zenon DEF Cursor!CursorMove
  <2> QED  BY <2>8, Zenon DEF Cursor!CursorStep
<1> QED  BY <1>1, <1>2, <1>3, <1>4, <1>5, <1>6, <1>7 DEF Step

(* The document_enumerator implements the cursor of PostingCursor as long as *)
(* no binary search meets its bound: reset, next, next_geq, move, freq and   *)
(* next_geq_non_forward, in any order, give the cursor's answers.            *)
THEOREM EnumeratorIsACursor ==
  Spec /\ [][~SeekHit]_vars => ImplementsCursor
<1>1. Init => CursorInv
  BY InitCursorInv
<1>2. CursorInv /\ [Step]_vars /\ [~SeekHit]_vars => CursorInv'
  BY StepsKeepCursorInv
<1>3. Init => Cursor!CursorInit
  <2> SUFFICES ASSUME Init  PROVE Cursor!CursorInit
    OBVIOUS
  <2>1. docs \in Lists /\ Stored(docs, list)
    BY InitListRight DEF ListRight
  <2>2. e = NewEnumerator(list) /\ call = <<"reset", 0>>
    BY DEF Init
  <2>3. BlockRight(docs, list, e) /\ At(docs, e, 0)
    BY <2>1, <2>2, NewEnumeratorRight
  <2>4. e.cur_block = 0
    BY <2>2 DEF NewEnumerator, EnumeratorReset, DecodeDocsBlock
  <2>5. e.cur_docid = FirstGeq(ToSet(docs), Universe, 0)
    BY <2>1, <2>3, <2>4, FirstPosting
  <2> QED  BY <2>2, <2>5, SameOperators, Zenon DEF Cursor!CursorInit
<1>4. CursorInv /\ [Step]_vars /\ [~SeekHit]_vars
        => [Cursor!CursorStep]_(Cursor!cursorVars)
  BY StepsAreCursorSteps
<1> QED  BY <1>1, <1>2, <1>3, <1>4, PTL DEF Spec, ImplementsCursor, Cursor!CursorSpec

-----------------------------------------------------------------------------
(* Lists too short for a binary search.                                      *)

ScannedLists == \A ds \in Lists : NumBlocks(Len(ds)) - 1 <= LinearScanThreshold

LEMMA NoHitInScannedLists ==
  ASSUME ScannedLists
  PROVE  ListRight => [~SeekHit]_vars
<1> SUFFICES ASSUME ListRight, NEW lb \in 0 .. Universe, SearchHits(list, e, lb)
             PROVE  FALSE
  BY DEF SeekHit
<1>1. docs \in Lists /\ Stored(docs, list)
  BY DEF ListRight
<1>2. PICK last \in Nat : /\ last = NumBlocks(list.n) - 1
                          /\ last = NumBlocks(Len(docs)) - 1
  <2>1. NumBlocks(Len(docs)) \in Nat \ {0} /\ list.n = Len(docs)
    BY <1>1, ListFacts, NumBlocksFacts DEF Stored
  <2> QED  BY <2>1
<1>3. last <= LinearScanThreshold
  BY <1>1, <1>2 DEF ScannedLists
<1>4. BinarySearch(list, lb).hit = FALSE
  BY <1>2, <1>3, ShortListsAreScanned
<1> QED  BY <1>4, Zenon DEF SearchHits

(* On lists of at most linear_scan_threshold + 1 blocks, whatever their      *)
(* postings and the layout of their blocks, the document_enumerator is a     *)
(* cursor without condition, and its position and frequency are always those *)
(* of its docid.                                                             *)
THEOREM ScannedListsAreCursors ==
  ASSUME ScannedLists
  PROVE  Spec => [](TypeOK /\ AtPosting) /\ ImplementsCursor
<1>1. Init => ListRight
  BY InitListRight
<1>2. ListRight /\ [Step]_vars => ListRight'
  BY StepsKeepListRight
<1>3. ListRight => [~SeekHit]_vars
  BY NoHitInScannedLists
<1>4. Spec => [][~SeekHit]_vars
  BY <1>1, <1>2, <1>3, PTL DEF Spec
<1> QED  BY <1>4, EnumeratorTypes, EnumeratorAtPosting, EnumeratorIsACursor, PTL
=============================================================================
