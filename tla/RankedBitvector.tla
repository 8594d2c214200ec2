-------------------------- MODULE RankedBitvector ---------------------------
(***************************************************************************)
(* compact_ranked_bitvector: an increasing sequence of n values below      *)
(* universe as a bit vector of universe bits, with the number of ones      *)
(* before every 2^log_rank-th bit and the place of every 2^log1-th one.    *)
(***************************************************************************)
EXTENDS UnaryEnumerator

RBBitsize(universe, n, log_rank, log1) ==
  Shr(universe, log_rank) * CeilLog2(n + 1) + Shr(n, log1) * CeilLog2(universe) + universe

(* The samples in [last + 1, v + 1) are set to i when value i, v, is written *)
(* after last; those after the last value to n; one at universe is left 0.   *)
RankSample(vals, universe, n, sampled) ==
  LET begin(i) == IF i = 0 THEN 1 ELSE vals[i - 1] + 1
      end(i) == IF i = n THEN universe ELSE vals[i] + 1
      runs == {i \in 0 .. n : sampled \in begin(i) .. end(i) - 1}
  IN IF runs = {} THEN 0 ELSE CHOOSE i \in runs : TRUE

RBWrite(vals, universe, n, log_rank, log1) ==
  [universe |-> universe, n |-> n, log_rank |-> log_rank, log1 |-> log1,
   ones |-> {vals[i] : i \in 0 .. n - 1},
   samples |-> [k \in 0 .. Shr(universe, log_rank) |->
                  IF k = 0 THEN 0 ELSE RankSample(vals, universe, n, k * Pow2[log_rank])],
   pointers1 |-> [k \in 0 .. Shr(n, log1) |->
                    IF k = 0 \/ k * Pow2[log1] >= n THEN 0 ELSE vals[k * Pow2[log1]]]]

-----------------------------------------------------------------------------
(* Plausible slips.  The runs replace one definition of the code by one of   *)
(* these and must then find a property violated; no specification uses them. *)
CountToBound(s, from, bound) == Cardinality(s.ones \cap (from .. bound))

-----------------------------------------------------------------------------
(* The enumerator.                                                           *)

RBNew(s) == [position |-> s.n, value |-> s.universe, he |-> NoEnumerator]

RBAtEnd(s, e) == [e EXCEPT !.position = s.n, !.value = s.universe]

RBRead(position, he) == [position |-> position, value |-> he.pos, he |-> he]

RBSlowMove(s, e, position) ==
  LET skip == position - e.position
      ptr == Shr(position, s.log1)
      he == IF skip > 0 /\ Shr(skip, s.log1) = 0
            THEN SkipOnes(s.ones, e.he, skip - 1)
            ELSE SkipOnes(s.ones, EnumeratorAt(s.pointers1[ptr]), position - ptr * Pow2[s.log1])
  IN RBRead(position, Ahead(s.ones, he, 1))

RBMove(s, e, position) ==
  LET skip == position - e.position
  IN IF skip = 0 THEN e
     ELSE IF position = s.n THEN RBAtEnd(s, e)
     ELSE IF skip \in 1 .. LinearScanThreshold
     THEN RBRead(position, Ahead(s.ones, e.he, skip))
     ELSE RBSlowMove(s, e, position)

(* The ones in [from, bound), counted word by word.                          *)
CountOnes(s, from, bound) == Cardinality(s.ones \cap (from .. bound - 1))

RBSlowNextGeq(s, e, bound) ==
  LET block == Shr(bound, s.log_rank)
      near == bound > e.value /\ Shr(bound - e.value, s.log_rank) = 0
      position == IF near THEN e.position + CountOnes(s, e.value, bound)
                  ELSE s.samples[block] + CountOnes(s, block * Pow2[s.log_rank], bound)
      he == EnumeratorAt(bound)
  IN IF bound >= s.universe THEN RBMove(s, e, s.n)
     ELSE IF position < s.n THEN RBRead(position, Ahead(s.ones, he, 1))
     ELSE [position |-> position, value |-> s.universe, he |-> he]

(* Read on until a value is at least bound, or the end; as in EliasFano, it  *)
(* can be passed.                                                            *)
RBScan(s, e, bound) ==
  LET first == e.position + 1
      after(p) == Ahead(s.ones, e.he, p - first + 1)
      candidates == {p \in first .. s.n - 1 : after(p).pos >= bound}
      end == IF first > s.n THEN first ELSE s.n
      stop == IF candidates = {} THEN end ELSE Nth(candidates, 0)
  IN IF stop = end
     THEN [position |-> end, value |-> s.universe, he |-> after(end - 1)]
     ELSE RBRead(stop, after(stop))

RBNextGeq(s, e, bound) ==
  IF bound = e.value THEN e
  ELSE IF bound > e.value /\ bound - e.value <= LinearScanThreshold
  THEN RBScan(s, e, bound)
  ELSE RBSlowNextGeq(s, e, bound)

RBNext(s, e) ==
  IF e.position + 1 < s.n
  THEN RBRead(e.position + 1, Ahead(s.ones, e.he, 1))
  ELSE [e EXCEPT !.position = @ + 1, !.value = s.universe]

RBPrev(s, e) ==
  IF e.position = 0 THEN 0
  ELSE Predecessor(s.ones, (IF e.position < s.n THEN e.he.pos ELSE s.universe) - 1)
=============================================================================
