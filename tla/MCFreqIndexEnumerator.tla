----------------------- MODULE MCFreqIndexEnumerator ------------------------
(* FreqIndexEnumerator on every short list, in every index of freq_index.    *)
EXTENDS FreqIndexEnumerator

(* Frequencies that differ from posting to posting, and the ones that sum up *)
(* to an all_ones_sequence after the first, which opt_vbyte does not have.   *)
EveryInput ==
  LET lists == {SetToSortSeq(S, LAMBDA x, y : x < y) : S \in (SUBSET (0 .. Universe - 1)) \ {{}}}
      distinct(docs) == [i \in 1 .. Len(docs) |-> Len(docs) + 1 - i]
      ones(docs) == [i \in 1 .. Len(docs) |-> 1]
  IN UNION {[kind : Kinds, docs : {docs}, freqs : {distinct(docs)}]
              \cup [kind : Kinds \ {"opt_vbyte"}, docs : {docs}, freqs : {ones(docs)}] :
              docs \in lists}
=============================================================================
