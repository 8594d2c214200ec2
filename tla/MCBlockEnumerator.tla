-------------------------- MODULE MCBlockEnumerator -------------------------
(* BlockEnumerator on every short list, and on lists of so many blocks that  *)
(* the binary search of next_geq_non_forward runs.                           *)
EXTENDS BlockEnumerator

(* Every list of at most 5 postings below num_docs: up to 3 blocks of 2.     *)
ShortLists ==
  {SetToSortSeq(S, LAMBDA x, y : x < y) :
     S \in {T \in SUBSET (0 .. Universe - 1) : Cardinality(T) \in 1 .. 5}}

(* 19 and 20 blocks of 2, the last one full or not, with gaps.               *)
EveryOther(n) == [i \in 1 .. n |-> 2 * i - 1]
LongLists == {EveryOther(37), EveryOther(40)}
LongList == {EveryOther(38)}
=============================================================================
