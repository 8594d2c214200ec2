------------------------- MODULE SequenceEnumerator -------------------------
(***************************************************************************)
(* One sequence of ds2i, of any kind, and one enumerator over it: an       *)
(* action per method that moves it.  The guards are the assertions of the  *)
(* methods: move() goes up to the position after the last one, next() is   *)
(* not called there, and next_geq() has a bound up to universe.            *)
(***************************************************************************)
EXTENDS PartitionedSequence

CONSTANTS
  Universe,         \* values are below it
  Inputs            \* [kind, vals]: what is written, and as what

(* Every kind of sequence, and the ones with a strict_sequence inside.       *)
StrictKinds == {"strict", "strict_uniform", "strict_partitioned"}
BitKinds == {"elias_fano", "ranked_bitvector"}
SingleKinds == BitKinds \cup {"indexed", "strict"}
Kinds == SingleKinds \cup StrictKinds \cup {"uniform", "partitioned"}

ASSUME InputAssumption ==
  /\ Universe \in 1 .. IntLimit
  /\ \A in \in Inputs :
       /\ in.kind \in Kinds /\ in.vals \in Seq(0 .. Universe - 1) /\ in.vals # <<>>
       /\ \A i \in 1 .. Len(in.vals) - 1 :
            in.vals[i] < in.vals[i + 1] \/ (in.kind = "elias_fano" /\ in.vals[i] = in.vals[i + 1])

VARIABLES
  input,            \* the sequence that was given to write()
  s,                \* what is stored
  e                 \* the enumerator

vars == <<input, s, e>>

N == Len(input.vals)

Written(in) ==
  LET n == Len(in.vals)
      vals == [i \in 0 .. n - 1 |-> in.vals[i + 1]]
      strict == in.kind \in StrictKinds
  IN CASE in.kind = "elias_fano" -> {EFWrite(vals, Universe, n, EfLogSampling0, EfLogSampling1)}
       [] in.kind = "ranked_bitvector" ->
            {RBWrite(vals, Universe, n, RbLogRank1Sampling, RbLogSampling1)}
       [] in.kind \in {"indexed", "strict"} -> {IndexedWrite(strict, vals, Universe, n)}
       [] in.kind \in {"uniform", "strict_uniform"} ->
            {PartitionedWrite(TRUE, strict, vals, Universe, n, UniformEnds(n))}
       [] in.kind \in {"partitioned", "strict_partitioned"} ->
            {PartitionedWrite(FALSE, strict, vals, Universe, n, ends) : ends \in Partitions(n)}

SeqNew ==
  CASE input.kind = "elias_fano" -> EFNew(s)
    [] input.kind = "ranked_bitvector" -> RBNew(s)
    [] input.kind \notin BitKinds -> BaseNew(s)

SeqMove(position) ==
  CASE input.kind = "elias_fano" -> EFMove(s, e, position)
    [] input.kind = "ranked_bitvector" -> RBMove(s, e, position)
    [] input.kind \notin BitKinds -> BaseMove(s, e, position)

SeqNextGeq(bound) ==
  CASE input.kind = "elias_fano" -> EFNextGeq(s, e, bound)
    [] input.kind = "ranked_bitvector" -> RBNextGeq(s, e, bound)
    [] input.kind \notin BitKinds -> BaseNextGeq(s, e, bound)

SeqNext ==
  CASE input.kind = "elias_fano" -> EFNext(s, e)
    [] input.kind = "ranked_bitvector" -> RBNext(s, e)
    [] input.kind \notin BitKinds -> BaseNext(s, e)

SeqPrev ==
  CASE input.kind = "elias_fano" -> EFPrev(s, e)
    [] input.kind = "ranked_bitvector" -> RBPrev(s, e)
    [] input.kind \notin BitKinds -> BasePrev(s, e)

(* What the methods return for where enumerator f is.                        *)
ValueOf(f) == IF input.kind \in BitKinds THEN f.value ELSE BaseValue(s, f)

-----------------------------------------------------------------------------
Init ==
  /\ input \in Inputs
  /\ s \in Written(input)
  /\ e = SeqNew

HasNextGeq == input.kind \notin StrictKinds

Move(position) ==
  /\ position <= N
  /\ e' = SeqMove(position)
  /\ UNCHANGED <<input, s>>

Next ==
  /\ e.position < N
  /\ e' = SeqNext
  /\ UNCHANGED <<input, s>>

NextGeq(bound) ==
  /\ HasNextGeq
  /\ e' = SeqNextGeq(bound)
  /\ UNCHANGED <<input, s>>

Step ==
  \/ Next
  \/ \E position \in 0 .. Universe : Move(position)
  \/ \E bound \in 0 .. Universe : NextGeq(bound)

Spec == Init /\ [][Step]_vars

(* A caller that does not mind where the universe ends.                      *)
SeekAnywhere == \E bound \in 0 .. 2 * Universe : NextGeq(bound)

SeekAnywhereSpec == Init /\ [][SeekAnywhere]_vars

-----------------------------------------------------------------------------
(* Properties.                                                               *)

ValueAt(position) == IF position < N THEN input.vals[position + 1] ELSE Universe

(* strict_elias_fano adds the position to what ends its shorter universe:    *)
(* past the last value it returns universe + 1, which nothing reads.         *)
EndValue ==
  IF input.kind = "strict" /\ s.type = "elias_fano" THEN Universe + 1 ELSE Universe

IsAt(f, position) ==
  /\ f.position = position
  /\ ValueOf(f) = IF position < N THEN ValueAt(position) ELSE EndValue

Partitioned == input.kind \notin SingleKinds

(* The enumerator is at a position of the sequence, or one past the last; in *)
(* a partitioned sequence it is in its current partition.                    *)
TypeOK ==
  /\ e.position \in 0 .. N
  /\ ValueOf(e) \in 0 .. EndValue
  /\ Partitioned => /\ e.partition \in 0 .. s.partitions - 1
                    /\ e.position \in e.begin .. e.end
                    /\ e.part.position \in 0 .. e.end - e.begin

(* From wherever the enumerator is, move() and next() lead to the value that *)
(* was written at that position: through the pointers, the short scans and   *)
(* the partitions, whatever was called before.                               *)
MovesToPosition ==
  /\ \A position \in 0 .. N : IsAt(SeqMove(position), position)
  /\ e.position < N => IsAt(SeqNext, e.position + 1)

(* From wherever the enumerator is, forward or back, next_geq() leads to the *)
(* first value that is not below the bound.  It stays where it is when the   *)
(* value there is the bound, be it the first of several equal ones or not.   *)
SeeksFirstGeq ==
  HasNextGeq =>
    \A bound \in 0 .. Universe :
      IsAt(SeqNextGeq(bound),
           IF ValueOf(e) = bound THEN e.position
           ELSE Cardinality({i \in 1 .. N : input.vals[i] < bound}))

(* prev_value() looks back into the bits, across partitions: it is the value *)
(* before the current position, and 0 before the first.                      *)
PrevIsBefore == SeqPrev = IF e.position = 0 THEN 0 ELSE ValueAt(e.position - 1)

(* The current partition is the one whose ends and upper bound were written  *)
(* for it, and its values are read with the universe and the length that     *)
(* they were written with, which only the bounds tell.                       *)
OpensAsWritten ==
  Partitioned =>
    /\ e.base = IF e.begin = 0 THEN ValueAt(0) ELSE ValueAt(e.begin - 1) + 1
    /\ e.upper_bound = ValueAt(e.end - 1)
    /\ e.seq = s.parts[e.partition]

(* test_generic_sequence.hpp asks next_geq "beyond universe" for size(); the *)
(* test is never compiled, for has_next_geq looks for has_next.  At the end, *)
(* the fast path goes one position past size().                              *)
StaysWithinSize == e.position <= N
=============================================================================
