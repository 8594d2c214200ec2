------------------------ MODULE MCSequenceEnumerator ------------------------
(* SequenceEnumerator on every short sequence, in every encoding.            *)
EXTENDS SequenceEnumerator

CONSTANTS MaxValues, MaxWeakValues   \* bounds: longest sequences

Increasing ==
  {SetToSortSeq(S, LAMBDA x, y : x < y) :
     S \in {T \in SUBSET (0 .. Universe - 1) : Cardinality(T) \in 1 .. MaxValues}}

NonDecreasing ==
  {vals \in UNION {[1 .. n -> 0 .. Universe - 1] : n \in 1 .. MaxWeakValues} :
     \A i \in 1 .. Len(vals) - 1 : vals[i] <= vals[i + 1]}

EveryInput ==
  [kind : {"elias_fano"}, vals : NonDecreasing]
    \cup [kind : Kinds \ {"elias_fano"}, vals : Increasing]

(* The second sequence of test compact_elias_fano_singleton.                 *)
TestSingleton == [kind : {"elias_fano"}, vals : {<<1>>}]
=============================================================================
