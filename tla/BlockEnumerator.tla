--------------------------- MODULE BlockEnumerator --------------------------
(***************************************************************************)
(* A block posting list, as write() left it or as write_blocks() laid it   *)
(* out again, and one document_enumerator over it: one action per method.  *)
(* The guards are what the methods ask of their caller: next() is not      *)
(* called past the end, next_geq() only goes forward (its assertion), and  *)
(* the unchecked backward move() within a block is left out.               *)
(***************************************************************************)
EXTENDS BlockPostingList, SequencesExt

CONSTANTS
  Universe,   \* num_docs
  Lists,      \* the lists there may be: increasing sequences of documents
  MaxReorder  \* bound: only lists of so many blocks are laid out anew

ASSUME EnumeratorAssumption ==
  /\ Universe \in 1 .. Modulus - 1
  /\ \A docs \in Lists :
       /\ docs \in Seq(0 .. Universe - 1) /\ Len(docs) > 0
       /\ \A i \in 1 .. Len(docs) - 1 : docs[i] < docs[i + 1]

VARIABLES
  docs,       \* the documents that were given to write()
  list,       \* what is stored
  e,          \* the enumerator
  call        \* the last call and its argument

vars == <<docs, list, e, call>>

(* The frequencies are pairwise different, so that none passes for another.  *)
Freqs(ds) == [i \in 1 .. Len(ds) |-> i]

(* The orders write_blocks() accepts: the first block must remain first.     *)
BlockOrders(blocks) ==
  IF Len(blocks) > MaxReorder THEN {}
  ELSE {order \in SetToSeqs(ToSet(blocks)) : order[1] = blocks[1]}

Init ==
  /\ docs \in Lists
  /\ LET written == Write(docs, Freqs(docs))
     IN list \in {written} \cup {WriteBlocks(Len(docs), order) :
                                   order \in BlockOrders(GetBlocks(written))}
  /\ e = NewEnumerator(list)
  /\ call = <<"reset", 0>>

Call(op, arg, after) ==
  /\ e' = after
  /\ call' = <<op, arg>>
  /\ UNCHANGED <<docs, list>>

AtEnd == e.cur_docid = Universe

Reset == Call("reset", 0, EnumeratorReset(list, e))

Next == ~AtEnd /\ Call("next", 0, EnumeratorNext(list, Universe, e))

NextGeq(lb) ==
  /\ lb >= e.cur_docid \/ (Position(e) = 0 /\ ~AtEnd)
  /\ Call("next_geq", lb, EnumeratorNextGeq(list, Universe, e, lb))

NextGeqNonForward(lb) ==
  Call("next_geq_non_forward", lb, EnumeratorNextGeqNonForward(list, Universe, e, lb))

Move(pos) ==
  /\ pos < list.n
  /\ pos \div BlockSize # e.cur_block \/ (pos >= Position(e) /\ ~AtEnd)
  /\ Call("move", pos, EnumeratorMove(list, e, pos))

Freq == ~AtEnd /\ Call("freq", 0, EnumeratorFreq(list, e))

Step ==
  \/ Reset
  \/ Next
  \/ Freq
  \/ \E arg \in 0 .. Universe : NextGeq(arg) \/ NextGeqNonForward(arg) \/ Move(arg)

Spec == Init /\ [][Step]_vars

(* A caller that only seeks, in any direction.                               *)
Seek == \E lb \in 0 .. Universe : NextGeqNonForward(lb)

SeekSpec == Init /\ [][Seek]_vars

-----------------------------------------------------------------------------
(* Properties.                                                               *)

UInt32 == 0 .. Modulus - 1

Buffers == [0 .. BlockSize - 1 -> UInt32]

(* Every field of the enumerator stays in its range: the current block is a  *)
(* block of the list, the position at most one past its last posting, and    *)
(* the docid never beyond num_docs.                                          *)
TypeOK ==
  /\ docs \in Lists
  /\ list.n = Len(docs)
  /\ e.cur_block \in 0 .. NumBlocks(list.n) - 1
  /\ e.cur_block_size = SizeOfBlock(list.n, e.cur_block)
  /\ e.pos_in_block \in 0 .. e.cur_block_size
  /\ e.cur_docid \in 0 .. Universe
  /\ e.docs_buf \in Buffers /\ e.freqs_buf \in Buffers
  /\ e.freqs_decoded \in BOOLEAN

(* The enumerator gives the answers of a cursor over the postings, to every  *)
(* sequence of calls: whatever next, next_geq, move and reset were called    *)
(* before, across blocks, block orders and decode buffers that still hold    *)
(* another block's values.                                                   *)
Cursor == INSTANCE PostingCursor
            WITH postings <- ToSet(docs), docid <- e.cur_docid

ImplementsCursor == Cursor!CursorSpec

(* Until the end, block, position and docid belong together: position() is   *)
(* the place of docid() in the list, and freq(), which decodes lazily, would *)
(* return the frequency of that posting: of its block, and not of the one    *)
(* the buffer was last filled from.                                          *)
PositionOfDocid == ~AtEnd => docs[Position(e) + 1] = e.cur_docid

FreqOfDocid ==
  ~AtEnd => FreqValue(EnumeratorFreq(list, e)) = Freqs(docs)[Position(e) + 1]

AtPosting == PositionOfDocid /\ FreqOfDocid

(* The gaps of a block are decoded with the sum and the length they were     *)
(* encoded with, which neither function passes to the other, in any layout;  *)
(* and decode() returns the postings that were written.                      *)
DecodesAsEncoded ==
  \A b \in 0 .. NumBlocks(list.n) - 1 :
    LET item == list.blocks[EndpointOf(list, b) + 1]
    IN /\ item.sum = GapsUniverse(list, b)
       /\ item.n = SizeOfBlock(list.n, b)
       /\ list.blocks[EndpointOf(list, b) + 2].n = item.n

RoundTrip == DecodesAsEncoded /\ Decode(list) = docs

(* next_geq_non_forward finds the document from wherever the cursor is,      *)
(* through the binary search over the blocks: the first one at or after the  *)
(* bound, earlier than the current one or not.                               *)
SeeksTheDocid ==
  call[1] = "next_geq_non_forward" =>
    e.cur_docid = FirstGeq(ToSet(docs), Universe, call[2])

(* The comment over next_geq_non_forward says it "does not assume forward    *)
(* positions only": it may take the cursor anywhere, and the cursor is a     *)
(* cursor there.  After a hit on the last posting of a block, position() is  *)
(* still that of the old posting.                                            *)
SeekMovesTheCursor == PositionOfDocid
=============================================================================
