------------------------ MODULE FreqIndexEnumerator -------------------------
(***************************************************************************)
(* A posting list of freq_index and one document_enumerator over it: the   *)
(* documents as a sequence, the frequencies as a positive_sequence whose   *)
(* enumerator follows only when freq() is called.  As in BlockEnumerator,  *)
(* next() and freq() are not called past the end and next_geq() only goes  *)
(* forward, though here it could go back.                                  *)
(***************************************************************************)
EXTENDS PartitionedSequence, Postings

CONSTANTS
  Universe,   \* num_docs
  Inputs      \* [kind, docs, freqs]: the lists there may be, and the index

(* The typedefs of index_types.hpp: those of ds2i::freq_index and of         *)
(* pvb::freq_index, whose two codecs are both block sequences.               *)
Kinds == {"ef", "pef_uniform", "pef_opt", "opt_vbyte"}

ASSUME InputAssumption ==
  /\ Universe \in 1 .. IntLimit /\ Garbage > Universe + IntLimit
  /\ \A in \in Inputs :
       /\ in.kind \in Kinds
       /\ in.docs \in Seq(0 .. Universe - 1) /\ in.docs # <<>>
       /\ \A i \in 1 .. Len(in.docs) - 1 : in.docs[i] < in.docs[i + 1]
       /\ in.freqs \in Seq(Nat \ {0}) /\ Len(in.freqs) = Len(in.docs)
       /\ SumFunctionOnSet(in.freqs, DOMAIN in.freqs) < IntLimit

VARIABLES
  input,      \* the list that was given to add_posting_list()
  list,       \* what is stored
  e,          \* the enumerator
  call        \* the last call and its argument

vars == <<input, list, e, call>>

N == Len(input.docs)

Occurrences == SumFunctionOnSet(input.freqs, DOMAIN input.freqs)

FromZero(seq) == [i \in 0 .. Len(seq) - 1 |-> seq[i + 1]]

(* What DocsSequence::write and BaseSequence::write may leave.               *)
BaseWrite(kind, strict, vals, universe, n) ==
  CASE kind = "ef" -> {IndexedWrite(strict, vals, universe, n)}
    [] kind = "pef_uniform" ->
         {PartitionedWrite(TRUE, strict, vals, universe, n, UniformEnds(n))}
    [] kind = "pef_opt" ->
         {PartitionedWrite(FALSE, strict, vals, universe, n, ends) : ends \in Partitions(n)}
    [] kind = "opt_vbyte" ->
         UNION {{PvbPartitionedWrite(types, vals, universe, n, ends) :
                   types \in [1 .. Len(ends) -> PvbTypes]} : ends \in Partitions(n)}

(* Bound: of a list of opt_vbyte, one of the two sequences is cut.           *)
NotBothCut(docs, freqs) ==
  input.kind = "opt_vbyte" => docs.partitions = 1 \/ freqs.partitions = 1

(* The length is stored in as many bits as the occurrences need, and not at  *)
(* all for a single occurrence.                                              *)
StoredLength(n, occurrences) ==
  IF occurrences > 1 THEN n % Pow2[CeilLog2(occurrences + 1)] ELSE 1

(* operator[] tells the sequences what it read.                              *)
OpenBase(s, universe, n) ==
  IF IsPartitioned(s) THEN [s EXCEPT !.universe = universe, !.n = n]
  ELSE Open(s, universe, n)

Stored ==
  LET n == StoredLength(N, Occurrences)
      docs == BaseWrite(input.kind, FALSE, FromZero(input.docs), Universe, N)
      freqs == BaseWrite(input.kind, TRUE, Sums(FromZero(input.freqs), N), Occurrences + 1, N)
  IN {[docs |-> OpenBase(w.docs, Universe, n), freqs |-> OpenBase(w.freqs, Occurrences + 1, n)] :
        w \in {w \in [docs : docs, freqs : freqs] : NotBothCut(w.docs, w.freqs)}}

-----------------------------------------------------------------------------
(* Plausible slips.  The runs replace one definition of the code by one of   *)
(* these and must then find a property violated; no specification uses them. *)
ReadBefore(en) ==
  [en EXCEPT !.freqs = PositiveMove(list.freqs, @, IF en.pos > 0 THEN en.pos - 1 ELSE 0)]
NextGeqFromHere(en, bound) ==
  IF bound > en.docid + 1 THEN [en EXCEPT !.docs = BaseNextGeq(list.docs, @, bound)] ELSE en

-----------------------------------------------------------------------------
(* The methods.                                                              *)

AtDocs(en, docs) ==
  [en EXCEPT !.pos = docs.position, !.docid = BaseValue(list.docs, docs), !.docs = docs]

EnumeratorMove(en, position) == AtDocs(en, BaseMove(list.docs, en.docs, position))

EnumeratorNext(en) == AtDocs(en, BaseNext(list.docs, en.docs))

EnumeratorNextGeq(en, bound) == AtDocs(en, BaseNextGeq(list.docs, en.docs, bound))

EnumeratorFreq(en) == [en EXCEPT !.freqs = PositiveMove(list.freqs, @, en.pos)]

(* The constructor ends with reset().                                        *)
NewEnumerator ==
  EnumeratorMove([pos |-> 0, docid |-> 0,
                  docs |-> BaseNew(list.docs), freqs |-> PositiveNew(list.freqs)], 0)

Init ==
  /\ input \in Inputs
  /\ list \in Stored
  /\ e = NewEnumerator
  /\ call = <<"reset", 0>>

(* A move() of opt_vbyte out of the block that is decoded reads past the     *)
(* buffer or does not end: the program is left out from there on.            *)
ReadsGarbage(en) ==
  en.docid > Universe \/ en.freqs.cur > Occurrences \/ en.freqs.value < 0

Call(op, arg, after) ==
  /\ ~ReadsGarbage(after)
  /\ e' = after
  /\ call' = <<op, arg>>
  /\ UNCHANGED <<input, list>>

AtEnd == e.docid = Universe

Reset == Call("reset", 0, EnumeratorMove(e, 0))

Next == ~AtEnd /\ Call("next", 0, EnumeratorNext(e))

NextGeq(bound) == Call("next_geq", bound, EnumeratorNextGeq(e, bound))

NextGeqNonForward(bound) ==
  Call("next_geq_non_forward", bound, EnumeratorNextGeq(e, bound))

Move(position) == Call("move", position, EnumeratorMove(e, position))

Freq == ~AtEnd /\ Call("freq", 0, EnumeratorFreq(e))

(* Nothing calls next_geq_non_forward; that of opt_vbyte is next_geq, and a  *)
(* block_sequence does not go back.                                          *)
SeekBounds == IF input.kind = "opt_vbyte" THEN e.docid .. Universe ELSE 0 .. Universe

Step ==
  \/ Reset
  \/ Next
  \/ Freq
  \/ \E bound \in e.docid .. Universe : NextGeq(bound)
  \/ \E bound \in SeekBounds : NextGeqNonForward(bound)
  \/ \E position \in 0 .. N - 1 : Move(position)

Spec == Init /\ [][Step]_vars

-----------------------------------------------------------------------------
(* Properties.                                                               *)

(* The enumerator of freq_index is the same cursor over the postings as that *)
(* of a block posting list, whatever sequence the documents are stored in    *)
(* and however it is cut: queries do not see which index they run on.        *)
Cursor == INSTANCE PostingCursor
            WITH postings <- ToSet(input.docs), docid <- e.docid

ImplementsCursor == Cursor!CursorSpec

(* position(), docid() and freq() belong together, although the enumerator   *)
(* of the frequencies is left behind by every other method, remembers a sum  *)
(* of its own, and is cut in partitions unlike those of the documents.  In   *)
(* opt_vbyte freq() belongs to the document if it is read posting by posting *)
(* or wherever its move() does not lead out of the block that is decoded.    *)
BeginOfPart(s, k) == LET n(j) == s.parts[j].bits.n IN MapThenSumSet(n, 0 .. k - 1)

PartOf(s, target) == CHOOSE k \in 0 .. s.partitions - 1 :
                       target \in BeginOfPart(s, k) .. BeginOfPart(s, k + 1) - 1

LeavesBlock(s, p, position) ==
  LET target == IF position = 0 THEN 0 ELSE position - 1
      k == PartOf(s, target)
      decoded == IF k = p.base.partition
                 THEN PositionOf(p.base.part) .. p.base.part.cur_block * PvbBlockSize - 1
                 ELSE 0 .. PvbBlockSize - 1
  IN /\ s.parts[k].type = "block_sequence"
     /\ position # p.position + 1
     /\ (target - BeginOfPart(s, k)) \notin decoded

FreqOfDocid ==
  /\ e.pos = Rank(ToSet(input.docs), e.docid)
  /\ ~AtEnd => \/ EnumeratorFreq(e).freqs.value = input.freqs[e.pos + 1]
              \/ (input.kind = "opt_vbyte" /\ LeavesBlock(list.freqs, e.freqs, e.pos))
=============================================================================
