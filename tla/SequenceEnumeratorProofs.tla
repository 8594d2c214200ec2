---------------------- MODULE SequenceEnumeratorProofs ----------------------
(***************************************************************************)
(* Proofs about SequenceEnumerator, for every sequence of every kind that  *)
(* Inputs has and every way to cut it: whatever methods were called, the   *)
(* enumerator is at one position of what was written.                      *)
(***************************************************************************)
EXTENDS SequenceEnumerator, SequenceProofs

-----------------------------------------------------------------------------
(* The invariant.                                                            *)

Vals(in) == [i \in 0 .. Len(in.vals) - 1 |-> in.vals[i + 1]]

(* w has the bits, the samples, the pointers and the partitions of in.       *)
WrittenRight(in, w, ends) ==
  /\ in.kind = "elias_fano" => EFParts(w, Vals(in), Universe, Len(in.vals))
  /\ in.kind = "ranked_bitvector" => RBParts(w, Vals(in), Universe, Len(in.vals))
  /\ in.kind \in {"indexed", "strict"} =>
       /\ ~IsPartitioned(w) /\ IndexedRight(w, Vals(in), Universe, Len(in.vals))
       /\ w.strict = (in.kind = "strict")
  /\ in.kind \notin SingleKinds =>
       /\ IsPartitioned(w) /\ PartitionedRight(w, Vals(in), Universe, Len(in.vals), ends)
       /\ \A p \in 0 .. Len(ends) - 1 : w.parts[p].strict = (in.kind \in StrictKinds)

(* Enumerator f reads position p of it.                                      *)
ReadsAt(in, w, ends, f, p) ==
  /\ in.kind = "elias_fano" => EFAt(Vals(in), Universe, Len(in.vals), f, p)
  /\ in.kind = "ranked_bitvector" => RBAt(Vals(in), Universe, Len(in.vals), f, p)
  /\ in.kind \in {"indexed", "strict"} => IndexedAt(w, Vals(in), Universe, Len(in.vals), f, p)
  /\ in.kind \notin SingleKinds =>
       PartitionedAt(w, Vals(in), Universe, Len(in.vals), ends, f, p)

Inv ==
  /\ input \in Inputs
  /\ \E ends : WrittenRight(input, s, ends) /\ \E p : ReadsAt(input, s, ends, e, p)

-----------------------------------------------------------------------------
(* What is given.                                                            *)

LEMMA StepsRise ==
  ASSUME NEW f, NEW k \in Nat, \A p \in 1 .. k : f[p] \in Nat,
         \A p \in 1 .. k - 1 : f[p] <= f[p + 1],
         NEW p, p \in 1 .. k, NEW q, q \in 1 .. k, p <= q
  PROVE  f[p] <= f[q]
<1> DEFINE Good == {j \in p .. k : f[p] <= f[j]}
<1>1. p \in Good
  <2>1. p \in p .. k /\ f[p] \in Nat
    OBVIOUS
  <2> QED  BY <2>1
<1>2. ASSUME NEW j \in p .. k - 1, j \in Good  PROVE j + 1 \in Good
  <2>1. j \in 1 .. k - 1 /\ j \in 1 .. k /\ j + 1 \in 1 .. k /\ j + 1 \in p .. k
    OBVIOUS
  <2>2. f[j] <= f[j + 1] /\ f[j] \in Nat /\ f[j + 1] \in Nat /\ f[p] \in Nat /\ f[p] <= f[j]
    BY <1>2, <2>1
  <2> QED  BY <2>1, <2>2
<1>3. p \in Int /\ k \in Int
  OBVIOUS
<1> HIDE DEF Good
<1>4. \A j \in p .. k : j \in Good
  BY <1>1, <1>2, <1>3, InductionFrom
<1>5. q \in Good
  BY <1>4
<1> QED  BY <1>5 DEF Good

LEMMA InputFacts ==
  ASSUME NEW in \in Inputs
  PROVE  /\ in.kind \in Kinds /\ Len(in.vals) \in Nat \ {0}
         /\ Universe \in Nat /\ Universe <= IntLimit
         /\ \A i \in 0 .. Len(in.vals) - 1 : Vals(in)[i] = in.vals[i + 1]
         /\ Holdable(Vals(in), Universe, Len(in.vals))
         /\ in.kind # "elias_fano" => HoldableBits(Vals(in), Universe, Len(in.vals))
<1>1. /\ Universe \in Nat /\ Universe <= IntLimit
      /\ in.kind \in Kinds /\ in.vals \in Seq(0 .. Universe - 1) /\ in.vals # <<>>
      /\ \A i \in 1 .. Len(in.vals) - 1 :
           in.vals[i] < in.vals[i + 1] \/ (in.kind = "elias_fano" /\ in.vals[i] = in.vals[i + 1])
  BY InputAssumption, PartitionAssumption DEF InputAssumption, PartitionAssumption
<1> PICK v : v = in.vals
  OBVIOUS
<1> PICK n \in Nat \ {0} : n = Len(v)
  BY <1>1
<1>2. \A i \in 1 .. n : v[i] \in Nat /\ v[i] < Universe
  BY <1>1
<1>3. \A i \in 1 .. n - 1 : v[i] < v[i + 1] \/ (in.kind = "elias_fano" /\ v[i] = v[i + 1])
  BY <1>1
<1> PICK f : f = Vals(in)
  OBVIOUS
<1>4. \A i \in 0 .. n - 1 : f[i] = v[i + 1]
  BY DEF Vals
<1>5. \A i \in 0 .. n - 1 : i + 1 \in 1 .. n
  OBVIOUS
<1>6. \A i \in 0 .. n - 1 : f[i] \in Nat /\ f[i] < Universe
  BY <1>2, <1>4, <1>5
<1>7. ASSUME NEW i \in 0 .. n - 1, NEW j \in 0 .. n - 1, i <= j  PROVE f[i] <= f[j]
  <2>1. \A p \in 1 .. n - 1 : v[p] <= v[p + 1]
    <3> TAKE p \in 1 .. n - 1
    <3>1. p \in 1 .. n /\ p + 1 \in 1 .. n
      OBVIOUS
    <3>2. v[p] \in Nat /\ v[p + 1] \in Nat
      BY <1>2, <3>1
    <3> QED  BY <1>3, <3>2, SMTT(40)
  <2>2. i + 1 \in 1 .. n /\ j + 1 \in 1 .. n /\ i + 1 <= j + 1
    BY <1>7
  <2>3. v[i + 1] <= v[j + 1]
    BY <1>2, <2>1, <2>2, StepsRise
  <2> QED  BY <1>4, <2>3
<1>8. Holdable(f, Universe, n)
  <2>1. Rises(f, n)
    BY <1>6, <1>7 DEF Rises
  <2> QED  BY <1>1, <1>6, <2>1 DEF Holdable
<1>9. ASSUME in.kind # "elias_fano"  PROVE HoldableBits(f, Universe, n)
  <2>1. ASSUME NEW i \in 0 .. n - 1, NEW j \in 0 .. n - 1, i < j  PROVE f[i] < f[j]
    <3>1. \A p \in 1 .. n - 1 : v[p] < v[p + 1]
      BY <1>3, <1>9
    <3>2. i + 1 \in 1 .. n /\ j + 1 \in 1 .. n /\ i + 1 < j + 1
      BY <2>1
    <3>3. v[i + 1] < v[j + 1]
      BY <1>2, <3>1, <3>2, StepsClimb
    <3> QED  BY <1>4, <3>3
  <2>2. Climbs(f, n)
    BY <1>6, <2>1 DEF Climbs
  <2> QED  BY <1>8, <2>2 DEF HoldableBits
<1> QED  BY <1>1, <1>4, <1>8, <1>9

LEMMA KindCases ==
  ASSUME NEW kind \in Kinds
  PROVE  \/ kind = "elias_fano"
         \/ kind = "ranked_bitvector"
         \/ kind \in {"indexed", "strict"}
         \/ kind \in {"uniform", "strict_uniform"}
         \/ kind \in {"partitioned", "strict_partitioned"}
BY DEF Kinds, StrictKinds, SingleKinds, BitKinds

LEMMA PartitionedRightOf ==
  ASSUME NEW in \in Inputs, in.kind \notin SingleKinds,
         NEW uniform \in BOOLEAN, NEW ends, Cuts(ends, Len(in.vals)),
         uniform => ends = UniformEnds(Len(in.vals)),
         NEW w, w = PartitionedWrite(uniform, in.kind \in StrictKinds, Vals(in), Universe,
                                     Len(in.vals), ends)
  PROVE  WrittenRight(in, w, ends)
<1> PICK strict \in BOOLEAN : strict = (in.kind \in StrictKinds)
  BY TruthOf, Zenon
<1>1. HoldableBits(Vals(in), Universe, Len(in.vals))
  <2>1. in.kind # "elias_fano"
    BY DEF SingleKinds, BitKinds
  <2> QED  BY <2>1, InputFacts
<1>2. w = PartitionedWrite(uniform, strict, Vals(in), Universe, Len(in.vals), ends)
  BY Zenon
<1>3. /\ PartitionedRight(w, Vals(in), Universe, Len(in.vals), ends)
      /\ \A p \in 0 .. Len(ends) - 1 : w.parts[p].strict = strict
  <2>1. PartitionedRight(w, Vals(in), Universe, Len(in.vals), ends)
    BY <1>1, <1>2, PartitionedWritten
  <2>2. ASSUME NEW p \in 0 .. Len(ends) - 1  PROVE w.parts[p].strict = strict
    BY <1>2, PartitionedStrict
  <2> QED  BY <2>1, <2>2
<1>4. IsPartitioned(w)
  BY <1>2, LayoutIsPartitioned DEF PartitionedWrite
<1>5. in.kind # "elias_fano" /\ in.kind # "ranked_bitvector" /\ in.kind \notin {"indexed", "strict"}
  BY DEF SingleKinds, BitKinds
<1> QED  BY <1>3, <1>4, <1>5, Zenon DEF WrittenRight

(* What write() leaves is right.                                             *)
LEMMA WritesAsGiven ==
  ASSUME NEW in \in Inputs, NEW w \in Written(in)
  PROVE  \E ends : WrittenRight(in, w, ends)
<1> PICK n : n = Len(in.vals)
  OBVIOUS
<1> PICK vals : vals = Vals(in)
  OBVIOUS
<1> PICK strict \in BOOLEAN : strict = (in.kind \in StrictKinds)
  BY TruthOf, Zenon
<1>1. /\ in.kind \in Kinds /\ n \in Nat \ {0} /\ Holdable(vals, Universe, n)
      /\ in.kind # "elias_fano" => HoldableBits(vals, Universe, n)
  BY InputFacts
<1>2. Written(in) =
        CASE in.kind = "elias_fano" -> {EFWrite(vals, Universe, n, EfLogSampling0, EfLogSampling1)}
          [] in.kind = "ranked_bitvector" ->
               {RBWrite(vals, Universe, n, RbLogRank1Sampling, RbLogSampling1)}
          [] in.kind \in {"indexed", "strict"} -> {IndexedWrite(strict, vals, Universe, n)}
          [] in.kind \in {"uniform", "strict_uniform"} ->
               {PartitionedWrite(TRUE, strict, vals, Universe, n, UniformEnds(n))}
          [] in.kind \in {"partitioned", "strict_partitioned"} ->
               {PartitionedWrite(FALSE, strict, vals, Universe, n, ends) : ends \in Partitions(n)}
  BY Zenon DEF Written, Vals
<1>3. CASE in.kind = "elias_fano"
  <2>1. Written(in) = {EFWrite(vals, Universe, n, EfLogSampling0, EfLogSampling1)}
    BY <1>2, <1>3
  <2>2. w = EFWrite(vals, Universe, n, EfLogSampling0, EfLogSampling1)
    BY <2>1
  <2>3. EFParts(w, vals, Universe, n)
    BY <1>1, <2>2, ParamsFacts, WritesParts
  <2>4. in.kind # "ranked_bitvector" /\ in.kind \notin {"indexed", "strict"}
        /\ in.kind \in SingleKinds
    BY <1>3 DEF SingleKinds, BitKinds
  <2> QED  BY <2>3, <2>4, Zenon DEF WrittenRight
<1>4. CASE in.kind = "ranked_bitvector"
  <2>1. Written(in) = {RBWrite(vals, Universe, n, RbLogRank1Sampling, RbLogSampling1)}
    BY <1>2, <1>4
  <2>2. w = RBWrite(vals, Universe, n, RbLogRank1Sampling, RbLogSampling1)
    BY <2>1
  <2>3. RBParts(w, vals, Universe, n)
    BY <1>1, <1>4, <2>2, ParamsFacts, WritesBits
  <2>4. in.kind # "elias_fano" /\ in.kind \notin {"indexed", "strict"}
        /\ in.kind \in SingleKinds
    BY <1>4 DEF SingleKinds, BitKinds
  <2> QED  BY <2>3, <2>4, Zenon DEF WrittenRight
<1>5. CASE in.kind \in {"indexed", "strict"}
  <2>0. in.kind # "elias_fano" /\ in.kind # "ranked_bitvector" /\ in.kind \in SingleKinds
        /\ strict = (in.kind = "strict")
    BY <1>5 DEF SingleKinds, BitKinds, StrictKinds
  <2>1. Written(in) = {IndexedWrite(strict, vals, Universe, n)}
    BY <1>2, <1>5, <2>0
  <2>2. w = IndexedWrite(strict, vals, Universe, n)
    BY <2>1
  <2>3. IndexedRight(w, vals, Universe, n)
    BY <1>1, <2>0, <2>2, IndexedWritesRight, Zenon
  <2>4. ~IsPartitioned(w) /\ w.strict = strict
    <3>1. /\ ~IsPartitioned(IndexedWrite(strict, vals, Universe, n))
          /\ IndexedWrite(strict, vals, Universe, n).strict = strict
      BY IndexedIsSingle
    <3> QED  BY <2>2, <3>1
  <2> QED  BY <2>0, <2>3, <2>4, Zenon DEF WrittenRight
<1>6. CASE in.kind \in {"uniform", "strict_uniform"}
  <2>0. /\ in.kind # "elias_fano" /\ in.kind # "ranked_bitvector"
        /\ in.kind \notin {"indexed", "strict"} /\ in.kind \notin SingleKinds
    BY <1>6 DEF SingleKinds, BitKinds
  <2>1. Written(in) = {PartitionedWrite(TRUE, strict, vals, Universe, n, UniformEnds(n))}
    BY <1>2, <1>6, <2>0
  <2>2. w = PartitionedWrite(TRUE, strict, vals, Universe, n, UniformEnds(n))
    BY <2>1
  <2>3. Cuts(UniformEnds(n), n)
    BY <1>1, UniformCut
  <2>4. WrittenRight(in, w, UniformEnds(n))
    BY <2>0, <2>2, <2>3, PartitionedRightOf
  <2> QED  BY <2>4
<1>7. CASE in.kind \in {"partitioned", "strict_partitioned"}
  <2>0. /\ in.kind # "elias_fano" /\ in.kind # "ranked_bitvector"
        /\ in.kind \notin {"indexed", "strict"} /\ in.kind \notin SingleKinds
        /\ in.kind \notin {"uniform", "strict_uniform"}
    BY <1>7 DEF SingleKinds, BitKinds
  <2>1. Written(in) =
          {PartitionedWrite(FALSE, strict, vals, Universe, n, ends) : ends \in Partitions(n)}
    BY <1>2, <1>7, <2>0
  <2>2. PICK ends \in Partitions(n) :
          w = PartitionedWrite(FALSE, strict, vals, Universe, n, ends)
    BY <2>1
  <2>3. Cuts(ends, n)
    BY <1>1, PartitionsCut
  <2>4. WrittenRight(in, w, ends)
    BY <2>0, <2>2, <2>3, PartitionedRightOf
  <2> QED  BY <2>4
<1>8. \/ in.kind = "elias_fano"
      \/ in.kind = "ranked_bitvector"
      \/ in.kind \in {"indexed", "strict"}
      \/ in.kind \in {"uniform", "strict_uniform"}
      \/ in.kind \in {"partitioned", "strict_partitioned"}
  BY <1>1, KindCases
<1> QED  BY <1>3, <1>4, <1>5, <1>6, <1>7, <1>8

-----------------------------------------------------------------------------
(* The methods, of whatever kind the sequence is.                            *)

LEMMA FourKinds ==
  ASSUME NEW kind \in Kinds
  PROVE  \/ /\ kind = "elias_fano" /\ kind \in BitKinds /\ kind \in SingleKinds
            /\ kind # "ranked_bitvector" /\ kind \notin {"indexed", "strict"}
         \/ /\ kind = "ranked_bitvector" /\ kind \in BitKinds /\ kind \in SingleKinds
            /\ kind # "elias_fano" /\ kind \notin {"indexed", "strict"}
         \/ /\ kind \in {"indexed", "strict"} /\ kind \notin BitKinds /\ kind \in SingleKinds
            /\ kind # "elias_fano" /\ kind # "ranked_bitvector"
         \/ /\ kind \notin SingleKinds /\ kind \notin BitKinds
            /\ kind # "elias_fano" /\ kind # "ranked_bitvector"
            /\ kind \notin {"indexed", "strict"}
BY DEF SingleKinds, BitKinds

LEMMA NewReads ==
  ASSUME input \in Inputs, NEW ends, WrittenRight(input, s, ends)
  PROVE  ReadsAt(input, s, ends, SeqNew, N)
<1> PICK vals, kind, n : vals = Vals(input) /\ kind = input.kind /\ n = Len(input.vals)
  OBVIOUS
<1>1. /\ kind \in Kinds /\ Universe <= IntLimit /\ Holdable(vals, Universe, n)
      /\ kind # "elias_fano" => HoldableBits(vals, Universe, n)
  BY InputFacts
<1>2. CASE kind = "elias_fano" /\ kind \in BitKinds /\ kind \in SingleKinds
           /\ kind # "ranked_bitvector" /\ kind \notin {"indexed", "strict"}
  <2>1. SeqNew = EFNew(s)
    BY <1>2 DEF SeqNew
  <2>2. EFAt(vals, Universe, n, EFNew(s), n)
    BY <1>1, <1>2, EFNewAt DEF WrittenRight
  <2> QED  BY <1>2, <2>1, <2>2, Zenon DEF ReadsAt, N
<1>3. CASE kind = "ranked_bitvector" /\ kind \in BitKinds /\ kind \in SingleKinds
           /\ kind # "elias_fano" /\ kind \notin {"indexed", "strict"}
  <2>1. SeqNew = RBNew(s)
    BY <1>3 DEF SeqNew
  <2>2. RBAt(vals, Universe, n, RBNew(s), n)
    BY <1>1, <1>3, RBNewAt DEF WrittenRight
  <2> QED  BY <1>3, <2>1, <2>2, Zenon DEF ReadsAt, N
<1>4. CASE kind \in {"indexed", "strict"} /\ kind \notin BitKinds /\ kind \in SingleKinds
           /\ kind # "elias_fano" /\ kind # "ranked_bitvector"
  <2>0. ~IsPartitioned(s) /\ IndexedRight(s, vals, Universe, n)
    BY <1>4, Zenon DEF WrittenRight
  <2>1. SeqNew = IndexedNew(s)
    BY <1>4, <2>0 DEF SeqNew, BaseNew
  <2>2. IndexedAt(s, vals, Universe, n, IndexedNew(s), n)
    BY <2>0, IndexedNewAt
  <2> QED  BY <1>4, <2>1, <2>2, Zenon DEF ReadsAt, N
<1>5. CASE kind \notin SingleKinds /\ kind \notin BitKinds
           /\ kind # "elias_fano" /\ kind # "ranked_bitvector" /\ kind \notin {"indexed", "strict"}
  <2>0. IsPartitioned(s) /\ PartitionedRight(s, vals, Universe, n, ends)
    BY <1>5, Zenon DEF WrittenRight
  <2>1. SeqNew = PartitionedNew(s)
    BY <1>5, <2>0 DEF SeqNew, BaseNew
  <2>2. PartitionedAt(s, vals, Universe, n, ends, PartitionedNew(s), n)
    BY <1>1, <2>0, PartitionedNewAt
  <2> QED  BY <1>5, <2>1, <2>2, Zenon DEF ReadsAt, N
<1> QED  BY <1>1, <1>2, <1>3, <1>4, <1>5, FourKinds

LEMMA MoveReads ==
  ASSUME input \in Inputs, NEW ends, WrittenRight(input, s, ends),
         NEW p, ReadsAt(input, s, ends, e, p), NEW position, position \in 0 .. N
  PROVE  ReadsAt(input, s, ends, SeqMove(position), position)
<1> PICK vals, kind, n : vals = Vals(input) /\ kind = input.kind /\ n = Len(input.vals)
  OBVIOUS
<1>1. /\ kind \in Kinds /\ Holdable(vals, Universe, n) /\ position \in 0 .. n
      /\ kind # "elias_fano" => HoldableBits(vals, Universe, n)
  BY InputFacts DEF N
<1>2. CASE kind = "elias_fano" /\ kind \in BitKinds /\ kind \in SingleKinds
           /\ kind # "ranked_bitvector" /\ kind \notin {"indexed", "strict"}
  <2>0. EFParts(s, vals, Universe, n) /\ EFAt(vals, Universe, n, e, p)
    BY <1>2, Zenon DEF WrittenRight, ReadsAt
  <2>1. SeqMove(position) = EFMove(s, e, position)
    BY <1>2 DEF SeqMove
  <2>2. EFAt(vals, Universe, n, EFMove(s, e, position), position)
    BY <1>1, <2>0, EFMoveAt
  <2> QED  BY <1>2, <2>1, <2>2, Zenon DEF ReadsAt
<1>3. CASE kind = "ranked_bitvector" /\ kind \in BitKinds /\ kind \in SingleKinds
           /\ kind # "elias_fano" /\ kind \notin {"indexed", "strict"}
  <2>0. RBParts(s, vals, Universe, n) /\ RBAt(vals, Universe, n, e, p)
    BY <1>3, Zenon DEF WrittenRight, ReadsAt
  <2>1. SeqMove(position) = RBMove(s, e, position)
    BY <1>3 DEF SeqMove
  <2>2. RBAt(vals, Universe, n, RBMove(s, e, position), position)
    BY <1>1, <1>3, <2>0, RBMoveAt
  <2> QED  BY <1>3, <2>1, <2>2, Zenon DEF ReadsAt
<1>4. CASE kind \in {"indexed", "strict"} /\ kind \notin BitKinds /\ kind \in SingleKinds
           /\ kind # "elias_fano" /\ kind # "ranked_bitvector"
  <2>0. /\ ~IsPartitioned(s) /\ IndexedRight(s, vals, Universe, n)
        /\ IndexedAt(s, vals, Universe, n, e, p)
    BY <1>4, Zenon DEF WrittenRight, ReadsAt
  <2>1. SeqMove(position) = IndexedMove(s, e, position)
    BY <1>4, <2>0 DEF SeqMove, BaseMove
  <2>2. IndexedAt(s, vals, Universe, n, IndexedMove(s, e, position), position)
    BY <1>1, <2>0, IndexedMoveAt
  <2> QED  BY <1>4, <2>1, <2>2, Zenon DEF ReadsAt
<1>5. CASE kind \notin SingleKinds /\ kind \notin BitKinds
           /\ kind # "elias_fano" /\ kind # "ranked_bitvector" /\ kind \notin {"indexed", "strict"}
  <2>0. /\ IsPartitioned(s) /\ PartitionedRight(s, vals, Universe, n, ends)
        /\ PartitionedAt(s, vals, Universe, n, ends, e, p)
    BY <1>5, Zenon DEF WrittenRight, ReadsAt
  <2>1. SeqMove(position) = PartitionedMove(s, e, position)
    BY <1>5, <2>0 DEF SeqMove, BaseMove
  <2>2. Ready(s, vals, Universe, n, ends, e, e.partition)
    BY <2>0, AtReady
  <2>3. PartitionedAt(s, vals, Universe, n, ends, PartitionedMove(s, e, position), position)
    BY <1>1, <2>0, <2>2, PartitionedMoveAt
  <2> QED  BY <1>5, <2>1, <2>3, Zenon DEF ReadsAt
<1> QED  BY <1>1, <1>2, <1>3, <1>4, <1>5, FourKinds

(* Where it is, and what the methods return there.                           *)
LEMMA ReadsPlace ==
  ASSUME input \in Inputs, NEW ends, WrittenRight(input, s, ends),
         NEW f, NEW p, ReadsAt(input, s, ends, f, p)
  PROVE  /\ p \in 0 .. N /\ f.position = p
         /\ ValueOf(f) = IF p < N THEN input.vals[p + 1] ELSE EndValue
<1> PICK vals, kind, n : vals = Vals(input) /\ kind = input.kind /\ n = Len(input.vals)
  OBVIOUS
<1>1. /\ kind \in Kinds /\ n \in Nat \ {0} /\ Universe \in Nat
      /\ \A i \in 0 .. n - 1 : vals[i] = input.vals[i + 1]
  BY InputFacts
<1>2. CASE kind = "elias_fano" /\ kind \in BitKinds /\ kind \in SingleKinds
           /\ kind # "ranked_bitvector" /\ kind \notin {"indexed", "strict"}
  <2>0. EFAt(vals, Universe, n, f, p)
    BY <1>2, Zenon DEF ReadsAt
  <2>1. p \in 0 .. n /\ f.position = p /\ f.value = IF p < n THEN vals[p] ELSE Universe
    BY <2>0, AtPlace DEF EFAt
  <2>2. ValueOf(f) = f.value /\ EndValue = Universe
    BY <1>2 DEF ValueOf, EndValue
  <2>3. p < n => p \in 0 .. n - 1
    BY <1>1, <2>1
  <2> QED  BY <1>1, <2>1, <2>2, <2>3 DEF N
<1>3. CASE kind = "ranked_bitvector" /\ kind \in BitKinds /\ kind \in SingleKinds
           /\ kind # "elias_fano" /\ kind \notin {"indexed", "strict"}
  <2>0. RBAt(vals, Universe, n, f, p)
    BY <1>3, Zenon DEF ReadsAt
  <2>1. p \in 0 .. n /\ f.position = p /\ f.value = IF p < n THEN vals[p] ELSE Universe
    BY <2>0, AtPlace DEF RBAt
  <2>2. ValueOf(f) = f.value /\ EndValue = Universe
    BY <1>3 DEF ValueOf, EndValue
  <2>3. p < n => p \in 0 .. n - 1
    BY <1>1, <2>1
  <2> QED  BY <1>1, <2>1, <2>2, <2>3 DEF N
<1>4. CASE kind \in {"indexed", "strict"} /\ kind \notin BitKinds /\ kind \in SingleKinds
           /\ kind # "elias_fano" /\ kind # "ranked_bitvector"
  <2>0. /\ ~IsPartitioned(s) /\ IndexedRight(s, vals, Universe, n)
        /\ IndexedAt(s, vals, Universe, n, f, p) /\ s.strict = (kind = "strict")
    BY <1>4, Zenon DEF WrittenRight, ReadsAt
  <2>1. /\ p \in 0 .. n /\ f.position = p
        /\ IndexedValue(s, f) = IF p < n THEN vals[p]
                                ELSE Universe + (IF IsStrictEF(s) THEN 1 ELSE 0)
    BY <2>0, IndexedPlace
  <2>2. ValueOf(f) = IndexedValue(s, f)
    BY <1>4, <2>0 DEF ValueOf, BaseValue
  <2>3. Universe + (IF IsStrictEF(s) THEN 1 ELSE 0) = EndValue
    <3>1. s.strict <=> input.kind = "strict"
      BY <2>0, Zenon
    <3>2. Universe + 0 = Universe
      BY <1>1
    <3> QED  BY <3>1, <3>2, Zenon DEF IsStrictEF, EndValue
  <2>4. p < n => p \in 0 .. n - 1
    BY <1>1, <2>1
  <2> QED  BY <1>1, <2>1, <2>2, <2>3, <2>4 DEF N
<1>5. CASE kind \notin SingleKinds /\ kind \notin BitKinds
           /\ kind # "elias_fano" /\ kind # "ranked_bitvector" /\ kind \notin {"indexed", "strict"}
  <2>0. /\ IsPartitioned(s) /\ PartitionedRight(s, vals, Universe, n, ends)
        /\ PartitionedAt(s, vals, Universe, n, ends, f, p)
    BY <1>5, Zenon DEF WrittenRight, ReadsAt
  <2>1. f.position = p /\ f.value = IF p < n THEN vals[p] ELSE Universe
    BY <2>0 DEF PartitionedAt
  <2>2. p \in 0 .. n
    <3>1. Ready(s, vals, Universe, n, ends, f, f.partition)
      BY <2>0, AtReady
    <3>2. f.begin \in 0 .. n - 1 /\ f.end \in 1 .. n
      BY <2>0, <3>1, ReadyRange
    <3>3. p \in f.begin .. f.end
      BY <2>0 DEF PartitionedAt
    <3> QED  BY <1>1, <3>2, <3>3
  <2>3. ValueOf(f) = f.value /\ EndValue = Universe
    BY <1>5, <2>0 DEF ValueOf, BaseValue, EndValue
  <2>4. p < n => p \in 0 .. n - 1
    BY <1>1, <2>2
  <2> QED  BY <1>1, <2>1, <2>2, <2>3, <2>4 DEF N
<1> QED  BY <1>1, <1>2, <1>3, <1>4, <1>5, FourKinds

LEMMA NextReads ==
  ASSUME input \in Inputs, NEW ends, WrittenRight(input, s, ends),
         NEW p, ReadsAt(input, s, ends, e, p), p < N
  PROVE  ReadsAt(input, s, ends, SeqNext, p + 1)
<1> PICK vals, kind, n : vals = Vals(input) /\ kind = input.kind /\ n = Len(input.vals)
  OBVIOUS
<1>1. /\ kind \in Kinds /\ Holdable(vals, Universe, n) /\ p < n
      /\ kind # "elias_fano" => HoldableBits(vals, Universe, n)
  BY InputFacts DEF N
<1>2. CASE kind = "elias_fano" /\ kind \in BitKinds /\ kind \in SingleKinds
           /\ kind # "ranked_bitvector" /\ kind \notin {"indexed", "strict"}
  <2>0. EFParts(s, vals, Universe, n) /\ EFAt(vals, Universe, n, e, p)
    BY <1>2, Zenon DEF WrittenRight, ReadsAt
  <2>1. SeqNext = EFNext(s, e)
    BY <1>2 DEF SeqNext
  <2>2. EFAt(vals, Universe, n, EFNext(s, e), p + 1)
    BY <1>1, <2>0, EFNextAt
  <2> QED  BY <1>2, <2>1, <2>2, Zenon DEF ReadsAt
<1>3. CASE kind = "ranked_bitvector" /\ kind \in BitKinds /\ kind \in SingleKinds
           /\ kind # "elias_fano" /\ kind \notin {"indexed", "strict"}
  <2>0. RBParts(s, vals, Universe, n) /\ RBAt(vals, Universe, n, e, p)
    BY <1>3, Zenon DEF WrittenRight, ReadsAt
  <2>1. SeqNext = RBNext(s, e)
    BY <1>3 DEF SeqNext
  <2>2. RBAt(vals, Universe, n, RBNext(s, e), p + 1)
    BY <1>1, <1>3, <2>0, RBNextAt
  <2> QED  BY <1>3, <2>1, <2>2, Zenon DEF ReadsAt
<1>4. CASE kind \in {"indexed", "strict"} /\ kind \notin BitKinds /\ kind \in SingleKinds
           /\ kind # "elias_fano" /\ kind # "ranked_bitvector"
  <2>0. /\ ~IsPartitioned(s) /\ IndexedRight(s, vals, Universe, n)
        /\ IndexedAt(s, vals, Universe, n, e, p)
    BY <1>4, Zenon DEF WrittenRight, ReadsAt
  <2>1. SeqNext = IndexedNext(s, e)
    BY <1>4, <2>0 DEF SeqNext, BaseNext
  <2>2. IndexedAt(s, vals, Universe, n, IndexedNext(s, e), p + 1)
    BY <1>1, <2>0, IndexedNextAt
  <2> QED  BY <1>4, <2>1, <2>2, Zenon DEF ReadsAt
<1>5. CASE kind \notin SingleKinds /\ kind \notin BitKinds
           /\ kind # "elias_fano" /\ kind # "ranked_bitvector" /\ kind \notin {"indexed", "strict"}
  <2>0. /\ IsPartitioned(s) /\ PartitionedRight(s, vals, Universe, n, ends)
        /\ PartitionedAt(s, vals, Universe, n, ends, e, p)
    BY <1>5, Zenon DEF WrittenRight, ReadsAt
  <2>1. SeqNext = PartitionedNext(s, e)
    BY <1>5, <2>0 DEF SeqNext, BaseNext
  <2>3. PartitionedAt(s, vals, Universe, n, ends, PartitionedNext(s, e), p + 1)
    BY <1>1, <2>0, PartitionedNextAt
  <2> QED  BY <1>5, <2>1, <2>3, Zenon DEF ReadsAt
<1> QED  BY <1>1, <1>2, <1>3, <1>4, <1>5, FourKinds

LEMMA PrevReads ==
  ASSUME input \in Inputs, NEW ends, WrittenRight(input, s, ends),
         NEW p, ReadsAt(input, s, ends, e, p)
  PROVE  SeqPrev = IF p = 0 THEN 0 ELSE Vals(input)[p - 1]
<1> PICK vals, kind, n : vals = Vals(input) /\ kind = input.kind /\ n = Len(input.vals)
  OBVIOUS
<1>1. /\ kind \in Kinds /\ Holdable(vals, Universe, n)
      /\ kind # "elias_fano" => HoldableBits(vals, Universe, n)
  BY InputFacts
<1>2. CASE kind = "elias_fano" /\ kind \in BitKinds /\ kind \in SingleKinds
           /\ kind # "ranked_bitvector" /\ kind \notin {"indexed", "strict"}
  <2>0. EFParts(s, vals, Universe, n) /\ EFAt(vals, Universe, n, e, p)
    BY <1>2, Zenon DEF WrittenRight, ReadsAt
  <2>1. SeqPrev = EFPrev(s, e)
    BY <1>2 DEF SeqPrev
  <2> QED  BY <1>1, <2>0, <2>1, EFPrevIs
<1>3. CASE kind = "ranked_bitvector" /\ kind \in BitKinds /\ kind \in SingleKinds
           /\ kind # "elias_fano" /\ kind \notin {"indexed", "strict"}
  <2>0. RBParts(s, vals, Universe, n) /\ RBAt(vals, Universe, n, e, p)
    BY <1>3, Zenon DEF WrittenRight, ReadsAt
  <2>1. SeqPrev = RBPrev(s, e)
    BY <1>3 DEF SeqPrev
  <2> QED  BY <1>1, <1>3, <2>0, <2>1, RBPrevIs
<1>4. CASE kind \in {"indexed", "strict"} /\ kind \notin BitKinds /\ kind \in SingleKinds
           /\ kind # "elias_fano" /\ kind # "ranked_bitvector"
  <2>0. /\ ~IsPartitioned(s) /\ IndexedRight(s, vals, Universe, n)
        /\ IndexedAt(s, vals, Universe, n, e, p)
    BY <1>4, Zenon DEF WrittenRight, ReadsAt
  <2>1. SeqPrev = IndexedPrev(s, e)
    BY <1>4, <2>0 DEF SeqPrev, BasePrev
  <2> QED  BY <2>0, <2>1, IndexedPrevIs
<1>5. CASE kind \notin SingleKinds /\ kind \notin BitKinds
           /\ kind # "elias_fano" /\ kind # "ranked_bitvector" /\ kind \notin {"indexed", "strict"}
  <2>0. /\ IsPartitioned(s) /\ PartitionedRight(s, vals, Universe, n, ends)
        /\ PartitionedAt(s, vals, Universe, n, ends, e, p)
    BY <1>5, Zenon DEF WrittenRight, ReadsAt
  <2>1. SeqPrev = PartitionedPrev(e)
    BY <1>5, <2>0 DEF SeqPrev, BasePrev
  <2> QED  BY <2>0, <2>1, PartitionedPrevIs
<1> QED  BY <1>1, <1>2, <1>3, <1>4, <1>5, FourKinds

(* As many values are below the bound as there are before the first that is  *)
(* not.                                                                      *)
LEMMA CountsBelow ==
  ASSUME NEW in \in Inputs, NEW bound, NEW q, FirstAtLeast(Vals(in), Len(in.vals), bound, q)
  PROVE  Cardinality({i \in 1 .. Len(in.vals) : in.vals[i] < bound}) = q
<1> PICK n \in Nat : n = Len(in.vals)
  BY InputFacts
<1>1. /\ q \in 0 .. n
      /\ \A i \in 0 .. n - 1 : i < q <=> in.vals[i + 1] < bound
  BY InputFacts DEF FirstAtLeast
<1>2. ASSUME NEW i \in 1 .. n  PROVE in.vals[i] < bound <=> i \in 1 .. q
  <2>1. i - 1 \in 0 .. n - 1 /\ (i - 1) + 1 = i
    OBVIOUS
  <2>2. i - 1 < q <=> in.vals[i] < bound
    BY <1>1, <2>1
  <2> QED  BY <1>1, <2>2
<1>3. \A i \in 1 .. q : i \in 1 .. n
  BY <1>1
<1>4. {i \in 1 .. n : in.vals[i] < bound} = 1 .. q
  BY <1>2, <1>3
<1>5. Cardinality(1 .. q) = q
  <2>1. Cardinality(1 .. q) = IF 1 > q THEN 0 ELSE q - 1 + 1
    BY <1>1, FS_Interval
  <2> QED  BY <1>1, <2>1
<1> QED  BY <1>4, <1>5

LEMMA NextGeqReads ==
  ASSUME input \in Inputs, HasNextGeq, NEW ends, WrittenRight(input, s, ends),
         NEW p, ReadsAt(input, s, ends, e, p),
         NEW bound \in Nat, bound <= Universe, NEW q,
         FirstAtLeast(Vals(input), Len(input.vals), bound, q)
  PROVE  ReadsAt(input, s, ends, SeqNextGeq(bound), IF ValueOf(e) = bound THEN p ELSE q)
<1> PICK vals, kind, n : vals = Vals(input) /\ kind = input.kind /\ n = Len(input.vals)
  OBVIOUS
<1>1. /\ kind \in Kinds /\ Holdable(vals, Universe, n) /\ n \in Nat \ {0}
      /\ FirstAtLeast(vals, n, bound, q)
      /\ kind # "elias_fano" => HoldableBits(vals, Universe, n)
      /\ \A i \in 0 .. n - 1 : vals[i] = input.vals[i + 1]
  BY InputFacts
<1>2. CASE kind = "elias_fano" /\ kind \in BitKinds /\ kind \in SingleKinds
           /\ kind # "ranked_bitvector" /\ kind \notin {"indexed", "strict"}
  <2>0. EFParts(s, vals, Universe, n) /\ EFAt(vals, Universe, n, e, p)
    BY <1>2, Zenon DEF WrittenRight, ReadsAt
  <2>1. SeqNextGeq(bound) = EFNextGeq(s, e, bound) /\ ValueOf(e) = e.value
    BY <1>2 DEF SeqNextGeq, ValueOf
  <2>2. EFAt(vals, Universe, n, EFNextGeq(s, e, bound), IF e.value = bound THEN p ELSE q)
    BY <1>1, <2>0, EFNextGeqAt
  <2> QED  BY <1>2, <2>1, <2>2, Zenon DEF ReadsAt
<1>3. CASE kind = "ranked_bitvector" /\ kind \in BitKinds /\ kind \in SingleKinds
           /\ kind # "elias_fano" /\ kind \notin {"indexed", "strict"}
  <2>0. RBParts(s, vals, Universe, n) /\ RBAt(vals, Universe, n, e, p)
    BY <1>3, Zenon DEF WrittenRight, ReadsAt
  <2>1. SeqNextGeq(bound) = RBNextGeq(s, e, bound) /\ ValueOf(e) = e.value
    BY <1>3 DEF SeqNextGeq, ValueOf
  <2>2. RBAt(vals, Universe, n, RBNextGeq(s, e, bound), IF e.value = bound THEN p ELSE q)
    BY <1>1, <1>3, <2>0, RBNextGeqAt
  <2> QED  BY <1>3, <2>1, <2>2, Zenon DEF ReadsAt
<1>4. ASSUME kind \notin BitKinds, ValueOf(e) = bound  PROVE p = q
  <2>1. /\ p \in 0 .. n
        /\ ValueOf(e) = IF p < n THEN input.vals[p + 1] ELSE EndValue
    BY ReadsPlace DEF N
  <2>2. EndValue = Universe
    BY DEF HasNextGeq, EndValue, StrictKinds
  <2>3. HoldableBits(vals, Universe, n)
    BY <1>1, <1>4 DEF BitKinds
  <2>4. Climbs(vals, n) /\ \A i \in 0 .. n - 1 : vals[i] \in Nat /\ vals[i] < Universe
    BY <2>3 DEF HoldableBits, Holdable, Climbs
  <2>5. CASE p < n
    <3>1. p \in 0 .. n - 1
      BY <1>1, <2>1, <2>5
    <3>2. vals[p] = bound
      BY <1>1, <1>4, <2>1, <2>5, <3>1
    <3>3. FirstAtLeast(vals, n, vals[p], p)
      BY <2>4, <3>1, FirstGeqOwn
    <3>4. FirstAtLeast(vals, n, bound, p)
      BY <3>2, <3>3
    <3> QED  BY <1>1, <3>4, FirstGeqUnique
  <2>6. CASE ~(p < n)
    <3>1. p = n /\ bound = Universe
      BY <1>1, <1>4, <2>1, <2>2, <2>6
    <3>2. \A i \in 0 .. n - 1 : i < n /\ vals[i] < bound
      BY <1>1, <2>4, <3>1
    <3>3. FirstAtLeast(vals, n, bound, n)
      BY <1>1, <3>2 DEF FirstAtLeast
    <3> QED  BY <1>1, <3>1, <3>3, FirstGeqUnique
  <2> QED  BY <2>5, <2>6
<1>5. CASE kind \in {"indexed", "strict"} /\ kind \notin BitKinds /\ kind \in SingleKinds
           /\ kind # "elias_fano" /\ kind # "ranked_bitvector"
  <2>0. /\ ~IsPartitioned(s) /\ IndexedRight(s, vals, Universe, n)
        /\ IndexedAt(s, vals, Universe, n, e, p) /\ s.strict = (kind = "strict")
    BY <1>5, Zenon DEF WrittenRight, ReadsAt
  <2>1. ~s.strict
    <3>1. kind # "strict"
      BY DEF HasNextGeq, StrictKinds
    <3> QED  BY <2>0, <3>1, Zenon
  <2>2. SeqNextGeq(bound) = IndexedNextGeq(s, e, bound)
    BY <1>5, <2>0 DEF SeqNextGeq, BaseNextGeq
  <2>3. IndexedAt(s, vals, Universe, n, IndexedNextGeq(s, e, bound), q)
    BY <1>1, <2>0, <2>1, IndexedNextGeqAt
  <2>4. (IF ValueOf(e) = bound THEN p ELSE q) = q
    BY <1>4, <1>5
  <2> QED  BY <1>5, <2>2, <2>3, <2>4, Zenon DEF ReadsAt
<1>6. CASE kind \notin SingleKinds /\ kind \notin BitKinds
           /\ kind # "elias_fano" /\ kind # "ranked_bitvector" /\ kind \notin {"indexed", "strict"}
  <2>0. /\ IsPartitioned(s) /\ PartitionedRight(s, vals, Universe, n, ends)
        /\ PartitionedAt(s, vals, Universe, n, ends, e, p)
        /\ \A r \in 0 .. Len(ends) - 1 : s.parts[r].strict = (kind \in StrictKinds)
    BY <1>6, Zenon DEF WrittenRight, ReadsAt
  <2>1. \A r \in 0 .. Len(ends) - 1 : ~s.parts[r].strict
    BY <2>0, Zenon DEF HasNextGeq
  <2>2. SeqNextGeq(bound) = PartitionedNextGeq(s, e, bound)
    BY <1>6, <2>0 DEF SeqNextGeq, BaseNextGeq
  <2>3. Ready(s, vals, Universe, n, ends, e, e.partition)
    BY <2>0, AtReady
  <2>4. PartitionedAt(s, vals, Universe, n, ends, PartitionedNextGeq(s, e, bound), q)
    BY <1>1, <2>0, <2>1, <2>3, PartitionedNextGeqAt
  <2>5. (IF ValueOf(e) = bound THEN p ELSE q) = q
    BY <1>4, <1>6
  <2> QED  BY <1>6, <2>2, <2>4, <2>5, Zenon DEF ReadsAt
<1> QED  BY <1>1, <1>2, <1>3, <1>5, <1>6, FourKinds

-----------------------------------------------------------------------------
(* The invariant is inductive.                                               *)

LEMMA InitReads == Init => Inv
<1> SUFFICES ASSUME Init  PROVE Inv
  OBVIOUS
<1>1. input \in Inputs /\ s \in Written(input) /\ e = SeqNew
  BY DEF Init
<1>2. PICK ends : WrittenRight(input, s, ends)
  BY <1>1, WritesAsGiven
<1>3. ReadsAt(input, s, ends, e, N)
  BY <1>1, <1>2, NewReads
<1> QED  BY <1>1, <1>2, <1>3 DEF Inv

(* No step takes anything but the position away from it.                     *)
LEMMA StepReads == Inv /\ [Step]_vars => Inv'
<1> SUFFICES ASSUME Inv, [Step]_vars  PROVE Inv'
  OBVIOUS
<1>1. input \in Inputs
  BY DEF Inv
<1>2. PICK ends : WrittenRight(input, s, ends) /\ \E p : ReadsAt(input, s, ends, e, p)
  BY DEF Inv
<1>3. PICK p : ReadsAt(input, s, ends, e, p)
  BY <1>2
<1>4. /\ N \in Nat \ {0} /\ Universe \in Nat /\ Rises(Vals(input), Len(input.vals))
  BY <1>1, InputFacts DEF N, Holdable
<1>5. ASSUME NEW f, NEW q, ReadsAt(input, s, ends, f, q),
             e' = f, UNCHANGED <<input, s>>
      PROVE  Inv'
  <2>1. input' = input /\ s' = s /\ e' = f
    BY <1>5
  <2>2. input' \in Inputs /\ WrittenRight(input', s', ends) /\ ReadsAt(input', s', ends, e', q)
    BY <1>1, <1>2, <1>5, <2>1, Zenon
  <2> QED  BY <2>2 DEF Inv
<1>6. CASE Next
  <2>1. e.position < N /\ e' = SeqNext /\ UNCHANGED <<input, s>>
    BY <1>6 DEF Next
  <2>2. e.position = p
    BY <1>1, <1>2, <1>3, ReadsPlace
  <2>3. ReadsAt(input, s, ends, SeqNext, p + 1)
    BY <1>1, <1>2, <1>3, <2>1, <2>2, NextReads
  <2> QED  BY <1>5, <2>1, <2>3, Zenon
<1>7. ASSUME NEW position \in 0 .. Universe, Move(position)  PROVE Inv'
  <2>1. position <= N /\ e' = SeqMove(position) /\ UNCHANGED <<input, s>>
    BY <1>7 DEF Move
  <2>2. position \in 0 .. N
    BY <1>4, <2>1
  <2>3. ReadsAt(input, s, ends, SeqMove(position), position)
    BY <1>1, <1>2, <1>3, <2>2, MoveReads
  <2> QED  BY <1>5, <2>1, <2>3, Zenon
<1>8. ASSUME NEW bound \in 0 .. Universe, NextGeq(bound)  PROVE Inv'
  <2>1. HasNextGeq /\ e' = SeqNextGeq(bound) /\ UNCHANGED <<input, s>>
    BY <1>8 DEF NextGeq
  <2>2. bound \in Nat /\ bound \in Int /\ bound <= Universe
    BY <1>4
  <2>3. PICK q : FirstAtLeast(Vals(input), Len(input.vals), bound, q)
    BY <1>4, <2>2, FirstAtLeastExists
  <2>4. ReadsAt(input, s, ends, SeqNextGeq(bound), IF ValueOf(e) = bound THEN p ELSE q)
    BY <1>1, <1>2, <1>3, <2>1, <2>2, <2>3, NextGeqReads
  <2> QED  BY <1>5, <2>1, <2>4, Zenon
<1>9. CASE UNCHANGED vars
  <2>1. e' = e /\ UNCHANGED <<input, s>>
    BY <1>9 DEF vars
  <2> QED  BY <1>3, <1>5, <2>1, Zenon
<1> QED  BY <1>6, <1>7, <1>8, <1>9 DEF Step

-----------------------------------------------------------------------------
(* What it shows.                                                            *)

LEMMA InvTypes == Inv => TypeOK
<1> SUFFICES ASSUME Inv  PROVE TypeOK
  OBVIOUS
<1>1. input \in Inputs
  BY DEF Inv
<1>2. PICK ends : WrittenRight(input, s, ends) /\ \E p : ReadsAt(input, s, ends, e, p)
  BY DEF Inv
<1>3. PICK p : ReadsAt(input, s, ends, e, p)
  BY <1>2
<1>4. /\ p \in 0 .. N /\ e.position = p
      /\ ValueOf(e) = IF p < N THEN input.vals[p + 1] ELSE EndValue
  BY <1>1, <1>2, <1>3, ReadsPlace
<1>5. /\ N \in Nat \ {0} /\ Universe \in Nat
      /\ \A i \in 0 .. N - 1 : input.vals[i + 1] \in Nat /\ input.vals[i + 1] < Universe
  BY <1>1, InputFacts DEF N, Holdable, Rises
<1>6. EndValue \in Nat /\ Universe <= EndValue
  BY <1>5 DEF EndValue
<1>7. ValueOf(e) \in 0 .. EndValue
  <2>1. CASE p < N
    <3>1. p \in 0 .. N - 1
      BY <1>4, <1>5, <2>1
    <3>2. ValueOf(e) \in Nat /\ ValueOf(e) < Universe
      BY <1>4, <1>5, <2>1, <3>1
    <3> QED  BY <1>5, <1>6, <3>2
  <2>2. CASE ~(p < N)
    BY <1>4, <1>6, <2>2
  <2> QED  BY <2>1, <2>2
<1>8. ASSUME Partitioned
      PROVE  /\ e.partition \in 0 .. s.partitions - 1
             /\ e.position \in e.begin .. e.end
             /\ e.part.position \in 0 .. e.end - e.begin
  <2> PICK n : n = Len(input.vals)
    OBVIOUS
  <2>1. /\ PartitionedRight(s, Vals(input), Universe, n, ends)
        /\ PartitionedAt(s, Vals(input), Universe, n, ends, e, p)
    BY <1>2, <1>3, <1>8, Zenon DEF WrittenRight, ReadsAt, Partitioned
  <2>2. Ready(s, Vals(input), Universe, n, ends, e, e.partition)
    BY <2>1, AtReady
  <2>3. e.partition \in 0 .. s.partitions - 1
    BY <2>1, <2>2, ReadyHeader
  <2>4. /\ p \in e.begin .. e.end
        /\ PartAt(Vals(input), ends, e.seq, e.part, e.partition, p - e.begin)
    BY <2>1 DEF PartitionedAt
  <2>5. e.part.position = p - e.begin
    <3>1. IndexedRight(e.seq, Relative(Vals(input), ends, e.partition),
                       PartUniverse(Vals(input), ends, e.partition), PartSize(ends, e.partition))
      BY <2>1, <2>2, ReadyPart
    <3> QED  BY <2>4, <3>1, IndexedPlace DEF PartAt
  <2>6. e.begin \in Nat /\ e.end \in Nat
    <3>1. n \in Nat /\ e.begin \in 0 .. n - 1 /\ e.end \in 1 .. n
      BY <1>1, <2>1, <2>2, ReadyRange, InputFacts
    <3> QED  BY <3>1
  <2>7. p - e.begin \in 0 .. e.end - e.begin
    BY <2>4, <2>6
  <2> QED  BY <1>4, <2>3, <2>4, <2>5, <2>7
<1> QED  BY <1>4, <1>7, <1>8 DEF TypeOK

LEMMA InvMoves == Inv => MovesToPosition
<1> SUFFICES ASSUME Inv  PROVE MovesToPosition
  OBVIOUS
<1>1. input \in Inputs
  BY DEF Inv
<1>2. PICK ends : WrittenRight(input, s, ends) /\ \E p : ReadsAt(input, s, ends, e, p)
  BY DEF Inv
<1>3. PICK p : ReadsAt(input, s, ends, e, p)
  BY <1>2
<1>4. ASSUME NEW f, NEW q, ReadsAt(input, s, ends, f, q)  PROVE IsAt(f, q)
  <2>1. /\ f.position = q
        /\ ValueOf(f) = IF q < N THEN input.vals[q + 1] ELSE EndValue
    BY <1>1, <1>2, <1>4, ReadsPlace
  <2> QED  BY <2>1 DEF IsAt, ValueAt
<1>5. ASSUME NEW position \in 0 .. N  PROVE IsAt(SeqMove(position), position)
  <2>1. ReadsAt(input, s, ends, SeqMove(position), position)
    BY <1>1, <1>2, <1>3, MoveReads
  <2> QED  BY <1>4, <2>1
<1>6. ASSUME e.position < N  PROVE IsAt(SeqNext, e.position + 1)
  <2>1. e.position = p
    BY <1>1, <1>2, <1>3, ReadsPlace
  <2>2. ReadsAt(input, s, ends, SeqNext, p + 1)
    BY <1>1, <1>2, <1>3, <1>6, <2>1, NextReads
  <2> QED  BY <1>4, <2>1, <2>2
<1> QED  BY <1>5, <1>6 DEF MovesToPosition

LEMMA InvSeeks == Inv => SeeksFirstGeq
<1> SUFFICES ASSUME Inv, HasNextGeq, NEW bound \in 0 .. Universe
             PROVE  IsAt(SeqNextGeq(bound),
                         IF ValueOf(e) = bound THEN e.position
                         ELSE Cardinality({i \in 1 .. N : input.vals[i] < bound}))
  BY DEF SeeksFirstGeq
<1>1. input \in Inputs
  BY DEF Inv
<1>2. PICK ends : WrittenRight(input, s, ends) /\ \E p : ReadsAt(input, s, ends, e, p)
  BY DEF Inv
<1>3. PICK p : ReadsAt(input, s, ends, e, p)
  BY <1>2
<1>4. Universe \in Nat /\ Rises(Vals(input), Len(input.vals))
  BY <1>1, InputFacts DEF Holdable
<1>5. bound \in Nat /\ bound \in Int /\ bound <= Universe
  BY <1>4
<1>6. PICK q : FirstAtLeast(Vals(input), Len(input.vals), bound, q)
  BY <1>4, <1>5, FirstAtLeastExists
<1> PICK r : r = IF ValueOf(e) = bound THEN p ELSE q
  OBVIOUS
<1> PICK f : f = SeqNextGeq(bound)
  OBVIOUS
<1>7. ReadsAt(input, s, ends, f, r)
  BY <1>1, <1>2, <1>3, <1>5, <1>6, NextGeqReads
<1>8. /\ f.position = r
      /\ ValueOf(f) = IF r < N THEN input.vals[r + 1] ELSE EndValue
  BY <1>1, <1>2, <1>7, ReadsPlace
<1>9. IsAt(f, r)
  BY <1>8 DEF IsAt, ValueAt
<1>10. e.position = p
  BY <1>1, <1>2, <1>3, ReadsPlace
<1>11. Cardinality({i \in 1 .. N : input.vals[i] < bound}) = q
  BY <1>1, <1>6, CountsBelow DEF N
<1> QED  BY <1>9, <1>10, <1>11, Zenon

LEMMA InvLooksBack == Inv => PrevIsBefore
<1> SUFFICES ASSUME Inv  PROVE PrevIsBefore
  OBVIOUS
<1>1. input \in Inputs
  BY DEF Inv
<1>2. PICK ends : WrittenRight(input, s, ends) /\ \E p : ReadsAt(input, s, ends, e, p)
  BY DEF Inv
<1>3. PICK p : ReadsAt(input, s, ends, e, p)
  BY <1>2
<1>4. p \in 0 .. N /\ e.position = p
  BY <1>1, <1>2, <1>3, ReadsPlace
<1>5. SeqPrev = IF p = 0 THEN 0 ELSE Vals(input)[p - 1]
  BY <1>1, <1>2, <1>3, PrevReads
<1>6. p # 0 => Vals(input)[p - 1] = ValueAt(p - 1)
  <2>1. N \in Nat /\ \A i \in 0 .. N - 1 : Vals(input)[i] = input.vals[i + 1]
    BY <1>1, InputFacts DEF N
  <2>2. p # 0 => p - 1 \in 0 .. N - 1 /\ p - 1 < N
    BY <1>4, <2>1
  <2> QED  BY <2>1, <2>2 DEF ValueAt
<1> QED  BY <1>4, <1>5, <1>6 DEF PrevIsBefore

LEMMA InvOpens == Inv => OpensAsWritten
<1> SUFFICES ASSUME Inv, Partitioned
             PROVE  /\ e.base = IF e.begin = 0 THEN ValueAt(0) ELSE ValueAt(e.begin - 1) + 1
                    /\ e.upper_bound = ValueAt(e.end - 1)
                    /\ e.seq = s.parts[e.partition]
  BY DEF OpensAsWritten
<1>1. input \in Inputs
  BY DEF Inv
<1>2. PICK ends : WrittenRight(input, s, ends) /\ \E p : ReadsAt(input, s, ends, e, p)
  BY DEF Inv
<1>3. PICK p : ReadsAt(input, s, ends, e, p)
  BY <1>2
<1> PICK vals, t : vals = Vals(input) /\ t = e.partition
  OBVIOUS
<1>4. /\ PartitionedRight(s, vals, Universe, N, ends)
      /\ PartitionedAt(s, vals, Universe, N, ends, e, p)
  BY <1>2, <1>3, Zenon DEF WrittenRight, ReadsAt, Partitioned, N
<1>5. Ready(s, vals, Universe, N, ends, e, t)
  BY <1>4, AtReady
<1>6. /\ e.begin = PartBegin(ends, t) /\ e.end = ends[t + 1] /\ e.base = PartBase(vals, ends, t)
      /\ e.upper_bound = vals[ends[t + 1] - 1] /\ e.seq = s.parts[t]
  BY <1>5, Zenon DEF Ready, Opened
<1>7. /\ N \in Nat \ {0} /\ e.begin \in 0 .. N - 1 /\ e.end \in 1 .. N
      /\ Cuts(ends, N) /\ t \in 0 .. Len(ends) - 1
  BY <1>4, <1>5, ReadyRange, ReadyHeader
<1>8. \A i \in 0 .. N - 1 : vals[i] = ValueAt(i)
  <2>1. \A i \in 0 .. N - 1 : vals[i] = input.vals[i + 1] /\ i < N
    BY <1>1, <1>7, InputFacts DEF N
  <2> QED  BY <2>1 DEF ValueAt
<1>9. e.end - 1 \in 0 .. N - 1 /\ 0 \in 0 .. N - 1
  BY <1>7
<1>10. t = 0 <=> e.begin = 0
  BY <1>6, <1>7, CutFacts
<1>11. CASE t = 0
  <2>1. e.base = vals[0]
    BY <1>6, <1>11 DEF PartBase
  <2> QED  BY <1>6, <1>8, <1>9, <1>10, <1>11, <2>1
<1>12. CASE t # 0
  <2>1. e.begin = ends[t]
    BY <1>6, <1>12 DEF PartBegin
  <2>2. e.base = vals[e.begin - 1] + 1
    BY <1>6, <1>12, <2>1 DEF PartBase
  <2>3. e.begin - 1 \in 0 .. N - 1
    BY <1>7, <1>10, <1>12
  <2> QED  BY <1>6, <1>8, <1>9, <1>10, <1>12, <2>2, <2>3
<1> QED  BY <1>11, <1>12

-----------------------------------------------------------------------------
(* The theorems.                                                             *)

(* Of every sequence that is written, of whatever kind and however it is cut *)
(* in partitions, the enumerator is at one position, whatever methods of it  *)
(* were called in whatever order.                                            *)
THEOREM SequenceIsRead == Spec => []Inv
<1> QED  BY InitReads, StepReads, PTL DEF Spec

(* The enumerator stays within the sequence, and within the partition that   *)
(* is open.                                                                  *)
THEOREM SequenceTypes == Spec => []TypeOK
<1> QED  BY SequenceIsRead, InvTypes, PTL

(* move() and next() lead from anywhere to the value that was written.       *)
THEOREM SequenceMoves == Spec => []MovesToPosition
<1> QED  BY SequenceIsRead, InvMoves, PTL

(* next_geq() leads from anywhere, forward or back, to the first value that  *)
(* is not below the bound, or stays at one that is the bound.                *)
THEOREM SequenceSeeks == Spec => []SeeksFirstGeq
<1> QED  BY SequenceIsRead, InvSeeks, PTL

(* prev_value() is the value before the one that the enumerator is at, in    *)
(* the partition before if need be.                                          *)
THEOREM SequenceLooksBack == Spec => []PrevIsBefore
<1> QED  BY SequenceIsRead, InvLooksBack, PTL

(* The partition that is open has the bounds, and with them the universe and *)
(* the length, that it was written with.                                     *)
THEOREM SequenceOpens == Spec => []OpensAsWritten
<1> QED  BY SequenceIsRead, InvOpens, PTL
=============================================================================
