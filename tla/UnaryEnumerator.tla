--------------------------- MODULE UnaryEnumerator --------------------------
(***************************************************************************)
(* succinct::bit_vector::unary_enumerator, an external class, as the code  *)
(* uses it: it walks over the ones of a region of a bit vector.  A region  *)
(* is the set of the positions of its ones, counted from its beginning.    *)
(* The enumerator clears a one it returns from its own copy of the word:   *)
(* "used" says that the bit at pos is such a one, and counts as a zero.    *)
(***************************************************************************)
EXTENDS Integers, FiniteSets

CONSTANT LinearScanThreshold   \* up to how far ds2i's enumerators read on one by one

ASSUME ThresholdAssumption == LinearScanThreshold \in Nat \ {0}

(* The k-th smallest element of S, from 0.                                   *)
Nth(S, k) == CHOOSE x \in S : Cardinality({y \in S : y < x}) = k

(* Default constructed, it points nowhere: to read from it is an error.      *)
NoEnumerator == [pos |-> -1, used |-> FALSE]

EnumeratorAt(pos) == [pos |-> pos, used |-> FALSE]

Unread(ones, he) ==
  {p \in ones : he.pos # -1 /\ (p > he.pos \/ (p = he.pos /\ ~he.used))}

(* Where k calls of next() lead.                                             *)
Ahead(ones, he, k) ==
  IF k = 0 THEN he ELSE [pos |-> Nth(Unread(ones, he), k - 1), used |-> TRUE]

(* skip(k): before the k-th one from here, counted from 0.                   *)
SkipOnes(ones, he, k) == EnumeratorAt(Nth(Unread(ones, he), k))

(* skip0(k): at the k-th zero from here, counted from 0, in a region of      *)
(* length bits.                                                              *)
SkipZeros(ones, he, k, length) ==
  LET pos == Nth(he.pos .. length - 1 \ Unread(ones, he), k)
  IN [pos |-> pos, used |-> pos \in ones]

(* predecessor1(pos): the last one at pos or before.                         *)
Predecessor(ones, pos) ==
  CHOOSE p \in ones : p <= pos /\ \A q \in ones : q <= pos => q <= p

(* 1 << k.                                                                   *)
Pow2[k \in Nat] == IF k = 0 THEN 1 ELSE 2 * Pow2[k - 1]

Msb(x) == CHOOSE l \in 0 .. x : Pow2[l] <= x /\ x < Pow2[l + 1]

CeilLog2(x) == IF x > 1 THEN Msb(x - 1) + 1 ELSE 0

(* x >> k, for k up to the width of the word.                                *)
Shr(x, k) == x \div Pow2[k]
=============================================================================
