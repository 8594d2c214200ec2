-------------------------- MODULE IndexedSequence ---------------------------
(***************************************************************************)
(* indexed_sequence and strict_sequence: an increasing sequence in the     *)
(* cheapest of three encodings, Elias-Fano, a ranked bit vector or, when   *)
(* it has every value below universe, nothing at all.  strict_sequence     *)
(* takes i off the i-th value before Elias-Fano, keeps no samples of the   *)
(* zeros and has no next_geq.  The indexed_sequence of opt_vbyte is told   *)
(* its type, which it stores: a block_sequence or a ranked bit vector.     *)
(***************************************************************************)
EXTENDS EliasFano, RankedBitvector, BlockSequence

CONSTANTS
  EfLogSampling0, EfLogSampling1,          \* global_parameters
  RbLogRank1Sampling, RbLogSampling1,
  NoSampling                               \* the 63 of strict_params

ASSUME ParamsAssumption ==
  {EfLogSampling0, EfLogSampling1, RbLogRank1Sampling, RbLogSampling1, NoSampling} \subseteq Nat

-----------------------------------------------------------------------------
(* Plausible slips.  The runs replace one definition of the code by one of   *)
(* these and must then find a property violated; no specification uses them. *)
ValueAsStored(s, e) == e.value

-----------------------------------------------------------------------------
Log0(strict) == IF strict THEN NoSampling ELSE EfLogSampling0

LogRank(strict) == IF strict THEN NoSampling ELSE RbLogRank1Sampling

EFUniverse(strict, universe, n) == IF strict THEN universe - n + 1 ELSE universe

(* The reader has no other sign of all_ones than this.                       *)
IsAllOnes(universe, n) == universe = n

BestType(strict, universe, n) ==
  IF IsAllOnes(universe, n) THEN "all_ones"
  ELSE IF RBBitsize(universe, n, LogRank(strict), RbLogSampling1)
            < EFBitsize(EFUniverse(strict, universe, n), n, Log0(strict), EfLogSampling1)
  THEN "ranked_bitvector" ELSE "elias_fano"

Least(S) == CHOOSE x \in S : \A y \in S : x <= y

(* bitsize(), with the bit that tells the other two types apart.             *)
IndexedBitsize(universe, n) ==
  IF IsAllOnes(universe, n) THEN 0
  ELSE 1 + Least({EFBitsize(universe, n, EfLogSampling0, EfLogSampling1),
                   RBBitsize(universe, n, RbLogRank1Sampling, RbLogSampling1)})

AllOnesWrite(universe) == [universe |-> universe, n |-> universe]

StrictVals(strict, vals, n) == [i \in 0 .. n - 1 |-> vals[i] - (IF strict THEN i ELSE 0)]

IndexedWrite(strict, vals, universe, n) ==
  LET type == BestType(strict, universe, n)
  IN [strict |-> strict, type |-> type, stored |-> FALSE,
      bits |-> CASE type = "all_ones" -> AllOnesWrite(universe)
                 [] type = "ranked_bitvector" ->
                      RBWrite(vals, universe, n, LogRank(strict), RbLogSampling1)
                 [] type = "elias_fano" ->
                      EFWrite(StrictVals(strict, vals, n), EFUniverse(strict, universe, n), n,
                              Log0(strict), EfLogSampling1)]

(* What write_block of opt_vbyte leaves.                                     *)
PvbTypes == {"block_sequence", "ranked_bitvector"}

PvbWrite(type, vals, universe, n) ==
  [strict |-> FALSE, type |-> type, stored |-> TRUE,
   bits |-> CASE type = "block_sequence" ->
                   [gaps |-> GapsOf(vals, n), universe |-> universe, n |-> n]
              [] type = "ranked_bitvector" ->
                   RBWrite(vals, universe, n, RbLogRank1Sampling, RbLogSampling1)]

(* The sequence as it is opened, with the universe and the length that the   *)
(* reader believes it has.                                                   *)
Open(s, universe, n) ==
  [s EXCEPT !.type = IF ~s.stored /\ IsAllOnes(universe, n) THEN "all_ones" ELSE @,
            !.bits.universe = IF s.type = "elias_fano" THEN EFUniverse(s.strict, universe, n)
                              ELSE universe,
            !.bits.n = n]

-----------------------------------------------------------------------------
(* The enumerator: that of the encoding.                                     *)

AllOnesAt(position) == [position |-> position, value |-> position, he |-> NoEnumerator]

AllOnesPrev(e) == IF e.position = 0 THEN 0 ELSE e.position - 1

IndexedNew(s) ==
  CASE s.type = "elias_fano" -> EFNew(s.bits)
    [] s.type = "ranked_bitvector" -> RBNew(s.bits)
    [] s.type = "all_ones" -> AllOnesAt(s.bits.n)
    [] s.type = "block_sequence" -> BSNew(s.bits)

IndexedMove(s, e, position) ==
  CASE s.type = "elias_fano" -> EFMove(s.bits, e, position)
    [] s.type = "ranked_bitvector" -> RBMove(s.bits, e, position)
    [] s.type = "all_ones" -> AllOnesAt(position)
    [] s.type = "block_sequence" -> BSMove(s.bits, e, position)

IndexedNextGeq(s, e, bound) ==
  CASE s.type = "elias_fano" -> EFNextGeq(s.bits, e, bound)
    [] s.type = "ranked_bitvector" -> RBNextGeq(s.bits, e, bound)
    [] s.type = "all_ones" -> AllOnesAt(bound)
    [] s.type = "block_sequence" -> BSNextGeq(s.bits, e, bound)

IndexedNext(s, e) ==
  CASE s.type = "elias_fano" -> EFNext(s.bits, e)
    [] s.type = "ranked_bitvector" -> RBNext(s.bits, e)
    [] s.type = "all_ones" -> AllOnesAt(e.position + 1)
    [] s.type = "block_sequence" -> BSNext(s.bits, e)

IsStrictEF(s) == s.strict /\ s.type = "elias_fano"

(* What the methods return: strict_elias_fano adds the position again.       *)
IndexedValue(s, e) == e.value + (IF IsStrictEF(s) THEN e.position ELSE 0)

IndexedPrev(s, e) ==
  CASE s.type = "elias_fano" /\ e.position = 0 -> 0
    [] s.type = "elias_fano" /\ e.position > 0 ->
         EFPrev(s.bits, e) + (IF s.strict THEN e.position - 1 ELSE 0)
    [] s.type = "ranked_bitvector" -> RBPrev(s.bits, e)
    [] s.type = "all_ones" -> AllOnesPrev(e)
=============================================================================
