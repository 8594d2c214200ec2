-------------------------- MODULE BlockPostingList --------------------------
(***************************************************************************)
(* block_posting_list: a list cut in blocks of BlockSize postings, each    *)
(* encoded on its own, after a table with the last docid of every block    *)
(* and one with where every block but the first begins.  This module has   *)
(* the format (write, write_blocks, get_blocks, decode) and the methods of *)
(* document_enumerator as operators from one enumerator to the next.       *)
(*                                                                         *)
(* Blocks and positions in a block count from 0, as in the code.  The      *)
(* bytes of the blocks are a sequence of encoded items, and an offset in   *)
(* them is the number of items before it.  uint32_t is modulo Modulus.     *)
(***************************************************************************)
EXTENDS Postings, Sequences

CONSTANTS
  BlockSize,           \* BlockCodec::block_size
  Modulus,             \* 2^32, small
  LinearScanThreshold  \* linear_scan_threshold of next_geq_non_forward

ASSUME BlockListAssumption ==
  /\ BlockSize \in Nat \ {0}
  /\ Modulus \in Nat \ {0}
  /\ LinearScanThreshold \in Nat \ {0}

U32(x) == x % Modulus

MinusOne == U32(-1)   \* before the first docid; as a sum, none is known

(* A codec is given n values and their sum, and must be given both again to  *)
(* decode: otherwise it reads something else (here zeros).                   *)
Encode(vals, sum) == [vals |-> vals, sum |-> sum, n |-> Len(vals)]

DecodeItem(item, sum, n) ==
  IF item.sum = sum /\ item.n = n THEN item.vals ELSE [i \in 1 .. n |-> 0]

CeilDiv(a, b) == (a + b - 1) \div b

NumBlocks(n) == CeilDiv(n, BlockSize)

SizeOfBlock(n, b) == IF (b + 1) * BlockSize <= n THEN BlockSize ELSE n % BlockSize

-----------------------------------------------------------------------------
(* Plausible slips.  The runs replace one definition of the code by one of   *)
(* these and must then find a property violated; no specification uses them. *)
BaseIsMax(list, b) == IF b = 0 THEN 0 ELSE list.maxs[b]
SumOfDocids(docs, b) ==
  docs[b * BlockSize + SizeOfBlock(Len(docs), b)] % Modulus
KeepFreqsDecoded(e) == e.freqs_decoded
PastFullBlock(e, pos) == pos = BlockSize
SetPositionOnly(e, pos) == [e EXCEPT !.pos_in_block = pos]
NotBeforeLast(list, lb) == lb >= list.maxs[NumBlocks(list.n)]
SkipEqual(max, lb) == max <= lb

-----------------------------------------------------------------------------
(* The format.                                                               *)

(* docs_buf[i] = doc - last_doc - 1, with last_doc = uint32_t(-1) at first.  *)
Gap(docs, i) == U32(docs[i] - (IF i = 1 THEN MinusOne ELSE docs[i - 1]) - 1)

BlockMax(list, b) == list.maxs[b + 1]

(* The first docid block b could have: block_max of the block before, + 1.   *)
CurBase(list, b) == U32((IF b = 0 THEN MinusOne ELSE BlockMax(list, b - 1)) + 1)

GapsUniverse(list, b) ==
  U32(BlockMax(list, b) - CurBase(list, b) - (SizeOfBlock(list.n, b) - 1))

BlockVals(vals, b) ==
  SubSeq(vals, b * BlockSize + 1, b * BlockSize + SizeOfBlock(Len(vals), b))

(* write's own sum: block_base is 0 and then last_doc + 1.                   *)
WrittenSum(docs, b) ==
  LET last == docs[b * BlockSize + SizeOfBlock(Len(docs), b)]
      base == IF b = 0 THEN 0 ELSE docs[b * BlockSize] + 1
  IN U32(last - base - (SizeOfBlock(Len(docs), b) - 1))

Write(docs, freqs) ==
  LET n == Len(docs)
      gaps == [i \in 1 .. n |-> Gap(docs, i)]
      lessOne == [i \in 1 .. n |-> freqs[i] - 1]
      Item(k) ==
        LET b == (k - 1) \div 2
        IN IF k % 2 = 1
             THEN Encode(BlockVals(gaps, b), WrittenSum(docs, b))
             ELSE Encode(BlockVals(lessOne, b), MinusOne)
  IN [n |-> n,
      maxs |-> [k \in 1 .. NumBlocks(n) |->
                  docs[(k - 1) * BlockSize + SizeOfBlock(n, k - 1)]],
      endpoints |-> [k \in 1 .. NumBlocks(n) - 1 |-> 2 * k],
      blocks |-> [k \in 1 .. 2 * NumBlocks(n) |-> Item(k)]]

(* get_blocks walks the items from the first: block b is where the b-th      *)
(* block lies, whatever the endpoints say.                                   *)
GetBlocks(list) ==
  [k \in 1 .. NumBlocks(list.n) |->
     [index |-> k - 1,
      max |-> BlockMax(list, k - 1),
      docs |-> list.blocks[2 * k - 1],
      freqs |-> list.blocks[2 * k]]]

(* write_blocks lays the blocks out in the order they are given in.          *)
WriteBlocks(n, input_blocks) ==
  LET At(b) == CHOOSE k \in 1 .. Len(input_blocks) : input_blocks[k].index = b
      Item(k) == LET block == input_blocks[(k + 1) \div 2]
                 IN IF k % 2 = 1 THEN block.docs ELSE block.freqs
  IN [n |-> n,
      maxs |-> [k \in 1 .. Len(input_blocks) |-> input_blocks[At(k - 1)].max],
      endpoints |-> [k \in 1 .. Len(input_blocks) - 1 |-> 2 * (At(k) - 1)],
      blocks |-> [k \in 1 .. 2 * Len(input_blocks) |-> Item(k)]]

EndpointOf(list, b) == IF b = 0 THEN 0 ELSE list.endpoints[b]

(* out[k] += out[k - 1] + 1, from out[0] + cur_base.                         *)
PrefixSum(gaps, cur_base) ==
  LET out[k \in 1 .. Len(gaps)] ==
        IF k = 1 THEN U32(gaps[1] + cur_base) ELSE U32(out[k - 1] + gaps[k] + 1)
  IN out

(* decode(): the whole list at once.  The last block has what is left.       *)
Decode(list) ==
  LET blocks == NumBlocks(list.n)
      SizeAt(b) == IF b < blocks - 1 THEN BlockSize
                   ELSE list.n - (blocks - 1) * BlockSize
      Sum(b) == U32(BlockMax(list, b) - CurBase(list, b) - (SizeAt(b) - 1))
      Block(b) == PrefixSum(DecodeItem(list.blocks[EndpointOf(list, b) + 1],
                                       Sum(b), SizeAt(b)),
                            CurBase(list, b))
  IN [i \in 1 .. list.n |->
        Block((i - 1) \div BlockSize)[((i - 1) % BlockSize) + 1]]

-----------------------------------------------------------------------------
(* document_enumerator.  Its buffers keep what an earlier, longer block left *)
(* behind the values of a shorter one.                                       *)

Fill(buf, vals) ==
  [i \in 0 .. BlockSize - 1 |-> IF i < Len(vals) THEN vals[i + 1] ELSE buf[i]]

(* m_freqs_decoded after a block of docs was decoded: its freqs are not yet. *)
StillDecoded(e) == FALSE

Position(e) == e.cur_block * BlockSize + e.pos_in_block

DecodeDocsBlock(list, e, b) ==
  LET size == SizeOfBlock(list.n, b)
      endpoint == EndpointOf(list, b)
      gaps == DecodeItem(list.blocks[endpoint + 1], GapsUniverse(list, b), size)
      buf == Fill(e.docs_buf,
                  [gaps EXCEPT ![1] = U32(gaps[1] + CurBase(list, b))])
  IN [e EXCEPT !.cur_block = b, !.pos_in_block = 0,
               !.cur_block_max = BlockMax(list, b), !.cur_block_size = size,
               !.cur_docid = buf[0], !.docs_buf = buf,
               !.freqs_ptr = endpoint + 2, !.freqs_decoded = StillDecoded(e)]

DecodeFreqsBlock(list, e) ==
  [e EXCEPT !.freqs_buf = Fill(e.freqs_buf,
              DecodeItem(list.blocks[e.freqs_ptr], MinusOne, e.cur_block_size)),
            !.freqs_decoded = TRUE]

EnumeratorReset(list, e) == DecodeDocsBlock(list, e, 0)

NewEnumerator(list) ==
  LET zeros == [i \in 0 .. BlockSize - 1 |-> 0]
  IN EnumeratorReset(list,
       [cur_block |-> MinusOne, pos_in_block |-> 0, cur_block_max |-> 0,
        cur_block_size |-> 0, cur_docid |-> 0, docs_buf |-> zeros,
        freqs_buf |-> zeros, freqs_ptr |-> 0, freqs_decoded |-> FALSE])

PastBlock(e, pos) == pos = e.cur_block_size

EnumeratorNext(list, universe, e) ==
  LET pos == e.pos_in_block + 1
  IN IF ~PastBlock(e, pos)
       THEN [e EXCEPT !.pos_in_block = pos,
                      !.cur_docid = U32(e.cur_docid + e.docs_buf[pos] + 1)]
     ELSE IF e.cur_block + 1 = NumBlocks(list.n)
       THEN [e EXCEPT !.pos_in_block = pos, !.cur_docid = universe]
     ELSE DecodeDocsBlock(list, e, e.cur_block + 1)

(* m_cur_docid += m_docs_buf[++m_pos_in_block] + 1, until the position or    *)
(* the docid is reached.                                                     *)
DocidAt(e) ==
  LET at[p \in e.pos_in_block .. e.cur_block_size - 1] ==
        IF p = e.pos_in_block THEN e.cur_docid
        ELSE U32(at[p - 1] + e.docs_buf[p] + 1)
  IN at

WalkTo(e, pos) == [e EXCEPT !.pos_in_block = pos, !.cur_docid = DocidAt(e)[pos]]

(* The assertion of the loop: the posting is in the block.                   *)
ScanBlock(e, lb) ==
  IF e.cur_docid >= lb THEN e
  ELSE WalkTo(e, CHOOSE p \in e.pos_in_block .. e.cur_block_size - 1 :
                   /\ DocidAt(e)[p] >= lb
                   /\ \A q \in e.pos_in_block .. p - 1 : DocidAt(e)[q] < lb)

(* while (block_max(block) < lower_bound) ++block.                           *)
ScanBlocks(list, from, lb) ==
  CHOOSE b \in from .. NumBlocks(list.n) - 1 :
    /\ BlockMax(list, b) >= lb
    /\ \A c \in from .. b - 1 : BlockMax(list, c) < lb

PastLast(list, lb) == lb > BlockMax(list, NumBlocks(list.n) - 1)

EnumeratorNextGeq(list, universe, e, lb) ==
  IF lb <= e.cur_block_max THEN ScanBlock(e, lb)
  ELSE IF PastLast(list, lb) THEN [e EXCEPT !.cur_docid = universe]
  ELSE ScanBlock(DecodeDocsBlock(list, e, ScanBlocks(list, e.cur_block + 1, lb)), lb)

Below(max, lb) == max < lb

(* The binary search of next_geq_non_forward, on <<lo, hi>>: where the scan  *)
(* starts, or that a block's last docid was met.                             *)
BinarySearch(list, lb) ==
  LET last == NumBlocks(list.n) - 1
      search[range \in (0 .. last) \X (0 .. last)] ==
        LET lo == range[1]
            hi == range[2]
            mid == (lo + hi) \div 2
            max == BlockMax(list, mid)
            below == IF mid # 0 THEN mid - 1 ELSE 0
            above == IF mid # last THEN mid + 1 ELSE last
        IN IF hi - lo <= LinearScanThreshold THEN [hit |-> FALSE, block |-> lo]
           ELSE IF lb < max
             THEN IF lb > BlockMax(list, below) THEN [hit |-> FALSE, block |-> lo]
                  ELSE search[<<lo, below>>]
           ELSE IF Below(max, lb)
             THEN IF lb < BlockMax(list, above) THEN [hit |-> FALSE, block |-> above]
                  ELSE search[<<above, hi>>]
           ELSE [hit |-> TRUE, block |-> mid]
  IN search[<<0, last>>]

FromBlockStart(e) == [e EXCEPT !.pos_in_block = 0, !.cur_docid = e.docs_buf[0]]

(* On a hit only m_cur_docid is set: block, position and frequencies stay.   *)
EnumeratorNextGeqNonForward(list, universe, e, lb) ==
  IF lb <= e.cur_block_max /\ lb >= e.docs_buf[0]
    THEN ScanBlock(FromBlockStart(e), lb)
  ELSE IF PastLast(list, lb) THEN [e EXCEPT !.cur_docid = universe]
  ELSE LET found == BinarySearch(list, lb)
       IN IF found.hit
            THEN [e EXCEPT !.cur_docid = BlockMax(list, found.block)]
            ELSE ScanBlock(FromBlockStart(DecodeDocsBlock(list, e,
                             ScanBlocks(list, found.block, lb))), lb)

EnumeratorMove(list, e, pos) ==
  LET b == pos \div BlockSize
      at == IF b # e.cur_block THEN DecodeDocsBlock(list, e, b) ELSE e
  IN IF Position(at) < pos THEN WalkTo(at, pos % BlockSize) ELSE at

(* freq() decodes the block's frequencies the first time.                    *)
EnumeratorFreq(list, e) == IF e.freqs_decoded THEN e ELSE DecodeFreqsBlock(list, e)

FreqValue(e) == e.freqs_buf[e.pos_in_block] + 1
=============================================================================
