----------------------------- MODULE EliasFano ------------------------------
(***************************************************************************)
(* compact_elias_fano: a non decreasing sequence of n values below         *)
(* universe.  The low bits of the values are stored as they are; the high  *)
(* bits in unary, as a bit vector in which the i-th value is a one at      *)
(* position high + i + 1; and the positions of some zeros and some ones of *)
(* that vector are kept, to start a search in its middle.                  *)
(*                                                                         *)
(* Values count from 0.  A stored sequence is a record; an enumerator is   *)
(* its position, its value and the unary enumerator of the high bits.      *)
(***************************************************************************)
EXTENDS UnaryEnumerator

LowerBits(universe, n) == IF universe > n THEN Msb(universe \div n) ELSE 0

HigherBitsLength(universe, n) == n + Shr(universe, LowerBits(universe, n)) + 2

Pointers0(universe, n, log0) == Shr(HigherBitsLength(universe, n) - n, log0)

Pointers1(n, log1) == Shr(n, log1)

EFBitsize(universe, n, log0, log1) ==
  LET length == HigherBitsLength(universe, n)
  IN (Pointers0(universe, n, log0) + Pointers1(n, log1)) * CeilLog2(length)
       + length + n * LowerBits(universe, n)

-----------------------------------------------------------------------------
(* The position of zero k * 2^log0.  The zeros before the i-th one and after *)
(* the one before it are numbered on from i; what no run covers stays 0.     *)
EFPointer0(high, n, length, log0, k) ==
  LET begin(i) == IF i = 0 THEN 1 ELSE high[i - 1] + 1
      end(i) == IF i = n THEN length ELSE high[i]
      runs == {i \in 0 .. n : begin(i) - i <= k * Pow2[log0] /\ k * Pow2[log0] < end(i) - i}
  IN IF runs = {} THEN 0 ELSE k * Pow2[log0] + CHOOSE i \in runs : TRUE

EFWrite(vals, universe, n, log0, log1) ==
  LET lower == LowerBits(universe, n)
      length == HigherBitsLength(universe, n)
      high == [i \in 0 .. n - 1 |-> Shr(vals[i], lower) + i + 1]
  IN [universe |-> universe, n |-> n, log0 |-> log0, log1 |-> log1,
      ones |-> {high[i] : i \in 0 .. n - 1},
      low |-> [i \in 0 .. n - 1 |-> vals[i] % Pow2[lower]],
      pointers0 |-> [k \in 0 .. Pointers0(universe, n, log0) |->
                       IF k = 0 THEN 0 ELSE EFPointer0(high, n, length, log0, k)],
      pointers1 |-> [k \in 0 .. Pointers1(n, log1) |->
                       IF k = 0 \/ k * Pow2[log1] >= n THEN 0 ELSE high[k * Pow2[log1]]]]

-----------------------------------------------------------------------------
(* The enumerator.                                                           *)

EFNew(s) == [position |-> s.n, value |-> s.universe, he |-> NoEnumerator]

EFAtEnd(s, e) == [e EXCEPT !.position = s.n, !.value = s.universe]

(* The value of the one he has just returned, as the one at position.        *)
EFValue(s, he, position) ==
  (he.pos - position - 1) * Pow2[LowerBits(s.universe, s.n)] + s.low[position]

EFRead(s, position, he) ==
  [position |-> position, value |-> EFValue(s, he, position), he |-> he]

(* Read on from position first until a value is at least bound, or the end.  *)
EFScan(s, he, first, bound) ==
  LET after(p) == Ahead(s.ones, he, p - first + 1)
      candidates == {p \in first .. s.n - 1 : EFValue(s, after(p), p) >= bound}
      end == IF first > s.n THEN first ELSE s.n
      stop == IF candidates = {} THEN end ELSE Nth(candidates, 0)
  IN IF stop = end
     THEN [position |-> end, value |-> s.universe, he |-> after(end - 1)]
     ELSE EFRead(s, stop, after(stop))

EFSlowMove(s, e, position) ==
  LET skip == position - e.position
      ptr == Shr(position, s.log1)
      he == IF skip > 0 /\ Shr(skip, s.log1) = 0
            THEN SkipOnes(s.ones, e.he, skip - 1)
            ELSE SkipOnes(s.ones, EnumeratorAt(s.pointers1[ptr]), position - ptr * Pow2[s.log1])
  IN EFRead(s, position, Ahead(s.ones, he, 1))

EFMove(s, e, position) ==
  LET skip == position - e.position
  IN IF skip = 0 THEN e
     ELSE IF position = s.n THEN EFAtEnd(s, e)
     ELSE IF skip \in 1 .. LinearScanThreshold
     THEN EFRead(s, position, Ahead(s.ones, e.he, skip))
     ELSE EFSlowMove(s, e, position)

High(s, value) == Shr(value, LowerBits(s.universe, s.n))

(* A one already consumed counts as a zero: to skip high_diff zeros from it  *)
(* leads to the zero that precedes the bucket of the bound.                  *)
EFZeroOfBound(s, e, bound) ==
  LET high == High(s, bound)
      diff == high - High(s, e.value)
      ptr == Shr(high, s.log0)
      length == HigherBitsLength(s.universe, s.n)
  IN IF bound > e.value /\ Shr(diff, s.log0) = 0
     THEN SkipZeros(s.ones, e.he, diff, length)
     ELSE SkipZeros(s.ones, EnumeratorAt(s.pointers0[ptr]), high - ptr * Pow2[s.log0], length)

EFSlowNextGeq(s, e, bound) ==
  IF bound >= s.universe THEN EFMove(s, e, s.n)
  ELSE LET he == EFZeroOfBound(s, e, bound)
       IN EFScan(s, he, he.pos - High(s, bound), bound)

(* The fast path does not ask whether the enumerator is past the end: its    *)
(* value is then universe, and a larger bound takes it one position further. *)
EFNextGeq(s, e, bound) ==
  IF bound = e.value THEN e
  ELSE IF bound > e.value /\ High(s, bound) - High(s, e.value) <= LinearScanThreshold
  THEN EFScan(s, e.he, e.position + 1, bound)
  ELSE EFSlowNextGeq(s, e, bound)

EFNext(s, e) ==
  IF e.position + 1 < s.n
  THEN EFRead(s, e.position + 1, Ahead(s.ones, e.he, 1))
  ELSE [e EXCEPT !.position = @ + 1, !.value = s.universe]

EFPrev(s, e) ==
  IF e.position = 0 THEN 0
  ELSE LET end == IF e.position < s.n THEN e.he.pos ELSE HigherBitsLength(s.universe, s.n)
       IN EFValue(s, [pos |-> Predecessor(s.ones, end - 1)], e.position - 1)
=============================================================================
