------------------------ MODULE PartitionedSequence -------------------------
(***************************************************************************)
(* partitioned_sequence and uniform_partitioned_sequence: an increasing    *)
(* sequence cut in partitions, each an indexed or a strict sequence of its *)
(* own, relative to the value after the last one before it.  Where the     *)
(* partitions end is itself a sequence (or every 2^log_partition_size      *)
(* values), their upper bounds are another.                                *)
(*                                                                         *)
(* The bits of a partition are found by its number: the endpoints, which   *)
(* give their offsets, are left out.                                       *)
(***************************************************************************)
EXTENDS IndexedSequence, SequencesExt

CONSTANTS
  LogPartitionSize,   \* global_parameters::log_partition_size
  IntLimit            \* 2^31, small: int holds what is below

ASSUME PartitionAssumption == LogPartitionSize \in Nat /\ IntLimit \in Nat \ {0}

-----------------------------------------------------------------------------
(* Plausible slips.  The runs replace one definition of the code by one of   *)
(* these and must then find a property violated; no specification uses them. *)
LastAsDelta(vals, universe, n) ==
  IF vals[n - 1] + 1 = universe THEN 0 ELSE vals[n - 1]
GeqWithoutBegin(e, bound) ==
  LET part == IndexedNextGeq(e.seq, e.part, bound - e.base)
  IN [e EXCEPT !.position = part.position, !.part = part,
               !.value = e.base + IndexedValue(e.seq, part)]
PrevOfBase(e) ==
  IF e.position = e.begin THEN (IF e.base > 0 THEN e.base - 1 ELSE 0)
  ELSE e.base + IndexedPrev(e.seq, e.part)

-----------------------------------------------------------------------------
(* The ends of the partitions of the uniform one.                            *)
UniformEnds(n) ==
  LET size == Pow2[LogPartitionSize]
      partitions == (n + size - 1) \div size
  IN [p \in 1 .. partitions |-> IF p * size < n THEN p * size ELSE n]

(* The ways to cut a sequence of n values: optimal_partition finds one.      *)
Partitions(n) ==
  {ends \in UNION {[1 .. k -> 1 .. n] : k \in 1 .. n} :
     /\ ends[Len(ends)] = n
     /\ \A p \in 1 .. Len(ends) - 1 : ends[p] < ends[p + 1]}

PartBegin(ends, p) == IF p = 0 THEN 0 ELSE ends[p]

PartBase(vals, ends, p) == IF p = 0 THEN vals[0] ELSE vals[ends[p] - 1] + 1

(* The values of partition p, relative to its base.                          *)
Relative(vals, ends, p) ==
  LET begin == PartBegin(ends, p)
  IN [i \in 0 .. ends[p + 1] - begin - 1 |-> vals[begin + i] - PartBase(vals, ends, p)]

PartWrite(strict, vals, ends, p) ==
  LET relative == Relative(vals, ends, p)
      n == Cardinality(DOMAIN relative)
  IN IndexedWrite(strict, relative, relative[n - 1] + 1, n)

PvbPartWrite(type, vals, ends, p) ==
  LET relative == Relative(vals, ends, p)
      n == Cardinality(DOMAIN relative)
  IN PvbWrite(type, relative, relative[n - 1] + 1, n)

(* The universe of a single partition, stored as 0 if it ends with that of   *)
(* the sequence.                                                             *)
UniverseDelta(vals, universe, n) ==
  IF vals[n - 1] + 1 = universe THEN 0 ELSE vals[n - 1] - vals[0]

(* vals has n values below universe; ends has the ends of the partitions,    *)
(* which are stored as parts.                                                *)
Layout(uniform, parts, vals, universe, n, ends) ==
  LET partitions == Len(ends)
  IN IF partitions = 1
     THEN [uniform |-> uniform, universe |-> universe, n |-> n,
           partitions |-> partitions, parts |-> parts,
           base |-> vals[0], delta |-> UniverseDelta(vals, universe, n)]
     ELSE [uniform |-> uniform, universe |-> universe, n |-> n,
           partitions |-> partitions, parts |-> parts,
           sizes |-> EFWrite([p \in 0 .. partitions - 2 |-> ends[p + 1]], n, partitions - 1,
                             EfLogSampling0, EfLogSampling1),
           upper_bounds |-> EFWrite([p \in 0 .. partitions |->
                                       IF p = 0 THEN vals[0] ELSE vals[ends[p] - 1]],
                                    universe, partitions + 1, EfLogSampling0, EfLogSampling1)]

PartitionedWrite(uniform, strict, vals, universe, n, ends) ==
  Layout(uniform, [p \in 0 .. Len(ends) - 1 |-> PartWrite(strict, vals, ends, p)],
         vals, universe, n, ends)

(* opt_vbyte's, types being those its optimizer found for the partitions.    *)
PvbPartitionedWrite(types, vals, universe, n, ends) ==
  Layout(FALSE, [p \in 0 .. Len(ends) - 1 |-> PvbPartWrite(types[p + 1], vals, ends, p)],
         vals, universe, n, ends)

-----------------------------------------------------------------------------
(* The enumerator: where it is, the current partition (its number, its first *)
(* position and the one after its last, its base and upper bound), the       *)
(* enumerators of the ends and of the upper bounds, and the one of the       *)
(* partition, "part", over the sequence "seq".  "value" is what the method   *)
(* returned.                                                                 *)

AsInt(x) ==
  LET bits == x % (2 * IntLimit) IN IF bits < IntLimit THEN bits ELSE bits - (2 * IntLimit)

(* The enumerators of ends and upper bounds are at the ones of e.partition.  *)
OpenPartition(s, e) ==
  LET size == Pow2[LogPartitionSize]
      uniformEnd == (e.partition + 1) * size
      begin == IF s.uniform THEN e.partition * size ELSE EFPrev(s.sizes, e.sizes)
      end == IF ~s.uniform THEN e.sizes.value ELSE IF uniformEnd < s.n THEN uniformEnd ELSE s.n
      base == EFPrev(s.upper_bounds, e.upper_bounds) + (IF e.partition > 0 THEN 1 ELSE 0)
      seq == Open(s.parts[e.partition], e.upper_bounds.value - base + 1, end - begin)
  IN [e EXCEPT !.begin = begin, !.end = end, !.base = base,
               !.upper_bound = e.upper_bounds.value, !.seq = seq, !.part = IndexedNew(seq)]

SwitchPartition(s, e, partition) ==
  OpenPartition(s, [e EXCEPT !.partition = partition,
                             !.sizes = IF s.uniform THEN @ ELSE EFMove(s.sizes, @, partition),
                             !.upper_bounds = EFMove(s.upper_bounds, @, partition + 1)])

InPart(e, position, part) ==
  [e EXCEPT !.position = position, !.part = part, !.value = e.base + IndexedValue(e.seq, part)]

(* After the last value of the last partition.                               *)
PastLast(s, e) ==
  [e EXCEPT !.position = s.n, !.value = s.universe,
            !.part = IndexedMove(e.seq, @, e.end - e.begin)]

MoveToEnd(s, e) ==
  PastLast(s, IF s.partitions > 1 THEN SwitchPartition(s, e, s.partitions - 1) ELSE e)

(* The partition that ends strictly after position.                          *)
PartitionOf(s, e, position) ==
  IF s.uniform THEN [sizes |-> e.sizes, partition |-> Shr(position, LogPartitionSize)]
  ELSE LET sizes == EFNextGeq(s.sizes, e.sizes, position + 1)
       IN [sizes |-> sizes, partition |-> sizes.position]

MoveInPart(e, position) ==
  InPart(e, position, IndexedMove(e.seq, e.part, position - e.begin))

PartitionedMove(s, e, position) ==
  IF position \in e.begin .. e.end - 1 THEN MoveInPart(e, position)
  ELSE IF position = s.n THEN MoveToEnd(s, e)
  ELSE LET found == PartitionOf(s, e, position)
       IN MoveInPart(SwitchPartition(s, [e EXCEPT !.sizes = found.sizes], found.partition),
                     position)

(* One partition: its bounds come with the sequence.                         *)
OpenSingle(s, position, value) ==
  LET ub == IF s.n = 1 THEN 0
            ELSE AsInt(IF s.delta # 0 THEN s.delta ELSE s.universe - s.base - 1)
      seq == Open(s.parts[0], ub + 1, s.n)
  IN [position |-> position, value |-> value,
      partition |-> 0, begin |-> 0, end |-> s.n, base |-> s.base, upper_bound |-> s.base + ub,
      sizes |-> NoEnumerator, upper_bounds |-> NoEnumerator,
      seq |-> seq, part |-> IndexedNew(seq)]

(* With more, the enumerator is brought to the last one at once: nothing but *)
(* the enumerators of ends and bounds is set before.                         *)
OpenMany(s, position, value) ==
  [position |-> position, value |-> value,
   partition |-> 0, begin |-> 0, end |-> 0, base |-> 0, upper_bound |-> 0,
   sizes |-> IF s.uniform THEN NoEnumerator ELSE EFNew(s.sizes),
   upper_bounds |-> EFNew(s.upper_bounds),
   seq |-> s.parts[0], part |-> NoEnumerator]

(* opt_vbyte's is brought to the first value, or left before it.             *)
PvbPartitionedNew(s) ==
  IF s.partitions = 1 THEN OpenSingle(s, 0, 0) ELSE PartitionedMove(s, OpenMany(s, 0, 0), 0)

PartitionedNew(s) ==
  IF s.parts[0].stored THEN PvbPartitionedNew(s) ELSE
  MoveToEnd(s, IF s.partitions = 1 THEN OpenSingle(s, s.n, s.universe)
               ELSE OpenMany(s, s.n, s.universe))

NextGeqInPart(e, bound) ==
  LET part == IndexedNextGeq(e.seq, e.part, bound - e.base)
  IN InPart(e, e.begin + part.position, part)

(* upper_bounds has the first value before the bound of every partition.     *)
PartitionedSlowNextGeq(s, e, bound) ==
  IF s.partitions = 1
  THEN PartitionedMove(s, e, IF bound < e.base THEN 0 ELSE s.n)
  ELSE LET bounds == EFNextGeq(s.upper_bounds, e.upper_bounds, bound)
           found == [e EXCEPT !.upper_bounds = bounds]
       IN CASE bounds.position = 0 -> PartitionedMove(s, found, 0)
            [] bounds.position = s.partitions + 1 -> PartitionedMove(s, found, s.n)
            [] bounds.position \in 1 .. s.partitions ->
                 NextGeqInPart(SwitchPartition(s, found, bounds.position - 1), bound)

PartitionedNextGeq(s, e, bound) ==
  IF bound \in e.base .. e.upper_bound THEN NextGeqInPart(e, bound)
  ELSE PartitionedSlowNextGeq(s, e, bound)

PartitionedNext(s, e) ==
  LET position == e.position + 1
  IN IF position < e.end THEN InPart(e, position, IndexedNext(e.seq, e.part))
     ELSE IF position = s.n
     THEN [e EXCEPT !.position = s.n, !.value = s.universe, !.part = IndexedNext(e.seq, e.part)]
     ELSE LET next == SwitchPartition(s, e, e.partition + 1)
          IN InPart(next, position, IndexedMove(next.seq, next.part, 0))

PartitionedPrev(e) ==
  IF e.position = e.begin THEN (IF e.partition > 0 THEN e.base - 1 ELSE 0)
  ELSE e.base + IndexedPrev(e.seq, e.part)

-----------------------------------------------------------------------------
(* The template parameter of positive_sequence and freq_index: a sequence    *)
(* that is partitioned or not.                                               *)
IsPartitioned(s) == "partitions" \in DOMAIN s

BaseSize(s) == IF IsPartitioned(s) THEN s.n ELSE s.bits.n

BaseNew(s) == IF IsPartitioned(s) THEN PartitionedNew(s) ELSE IndexedNew(s)

BaseMove(s, e, position) ==
  IF IsPartitioned(s) THEN PartitionedMove(s, e, position) ELSE IndexedMove(s, e, position)

BaseNextGeq(s, e, bound) ==
  IF IsPartitioned(s) THEN PartitionedNextGeq(s, e, bound) ELSE IndexedNextGeq(s, e, bound)

BaseNext(s, e) == IF IsPartitioned(s) THEN PartitionedNext(s, e) ELSE IndexedNext(s, e)

BasePrev(s, e) == IF IsPartitioned(s) THEN PartitionedPrev(e) ELSE IndexedPrev(s, e)

BaseValue(s, e) == IF IsPartitioned(s) THEN e.value ELSE IndexedValue(s, e)

(***************************************************************************)
(* positive_sequence: n positive numbers, as the increasing sequence of    *)
(* their sums.  The enumerator remembers where it is and the sum there, so *)
(* that the next number costs one step; "value" is what move() returned.   *)
(* The sums are stored as the strict_sequence, partitioned or not, or as   *)
(* the partitioned one of opt_vbyte.                                       *)
(***************************************************************************)
(* What is written: the sums of the numbers up to each.                      *)
Sums(numbers, n) == [i \in 0 .. n - 1 |-> SumFunctionOnSet(numbers, 0 .. i)]

(* m_cur is not set: move() reads it only from position size(), going on.    *)
PositiveNew(s) ==
  [position |-> BaseSize(s), cur |-> 0, base |-> BaseNew(s), value |-> 0]

PositiveAt(s, position, base, prev) ==
  [position |-> position, cur |-> BaseValue(s, base), base |-> base,
   value |-> BaseValue(s, base) - prev]

-----------------------------------------------------------------------------
(* Plausible slips.  The runs replace one definition of the code by one of   *)
(* these and must then find a property violated; no specification uses them. *)
KeepPrevious(s, p, position) ==
  LET from == IF position = p.position + 1 THEN p.base ELSE BaseMove(s, p.base, position - 1)
  IN PositiveAt(s, position, BaseNext(s, from), p.cur)

-----------------------------------------------------------------------------
PositiveMoveToFirst(s, p) == PositiveAt(s, 0, BaseMove(s, p.base, 0), 0)

PositiveMoveOn(s, p, position) ==
  LET sequential == position = p.position + 1
      from == IF sequential THEN p.base ELSE BaseMove(s, p.base, position - 1)
      prev == IF sequential THEN p.cur ELSE BaseValue(s, from)
  IN PositiveAt(s, position, BaseNext(s, from), prev)

PositiveMove(s, p, position) ==
  IF position # p.position + 1 /\ position = 0 THEN PositiveMoveToFirst(s, p)
  ELSE PositiveMoveOn(s, p, position)
=============================================================================
