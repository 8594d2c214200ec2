-------------------------------- MODULE Codecs ------------------------------
(***************************************************************************)
(* A list's blocks through a block codec: each encode appends to the bytes *)
(* before, each decode starts at the pointer the decode before it returned, *)
(* as the frequencies of a block are found behind its docids.  A list can  *)
(* be transformed to a mixed one once it is decoded.                       *)
(***************************************************************************)
EXTENDS BlockCodecs

CONSTANTS
  Workloads(_),   \* a codec's lists: sequences of blocks [vals, sum]
  Behind,         \* the bytes that may lie behind the encoded ones
  Transformed,    \* the codecs whose lists are transformed
  PossLogs        \* a sequence of increasing widths

-----------------------------------------------------------------------------
(* mixed_block.hpp: a codec per block.  A list is transformed from one       *)
(* encoded with another codec: its blocks are decoded and encoded again,     *)
(* each with the type and the parameter chosen for it.  A whole block starts *)
(* with its type; a partial block has none.                                  *)
(*                                                                           *)
(* The times of the points are predictions in floating point and are left    *)
(* out; PossLogs, the widths OptPFor tries, belong to the external codec.    *)

BlockTypes == [pfor |-> 0, varint |-> 1, interpolative |-> 2]

ComprParams(type) == IF type = "pfor" THEN 0 .. Len(PossLogs) - 1 ELSE {0}

HasType(n) == n = BlockSize

(* encode_type throws for a partial block of another type.                   *)
CanEncode(type, n) == n = BlockSize \/ type = "interpolative"

EncodeType(type, param, vals, sum) ==
  (IF Len(vals) < BlockSize THEN <<>> ELSE <<Bits(BlockTypes[type])>>)
    \o CASE type = "pfor" -> PforBlockEncode(vals, sum, PossLogs[param + 1])
         [] type = "varint" -> G8IUBlockEncode(vals, sum, {})
         [] type = "interpolative" -> InterpolativeEncode(vals, sum)

MaxBits(vals) ==
  Max({0} \cup {Msb(vals[i]) + 1 : i \in {j \in 1 .. Len(vals) : vals[j] # {}}})

(* Whether compression_stats offers the type: max_b - b > 28 is on unsigned  *)
(* numbers, so that a width above the largest value's is never offered.      *)
CompressionStats(type, param, vals) ==
  /\ CanEncode(type, Len(vals))
  /\ type = "pfor" => PossLogs[param + 1] \in MaxBits(vals) - 28 .. MaxBits(vals)

(* compute_space_time: the types and parameters to choose from.              *)
SpaceTimePoints(vals) ==
  {p \in {[type |-> t, param |-> c] : t \in DOMAIN BlockTypes, c \in 0 .. Len(PossLogs) - 1} :
     p.param \in ComprParams(p.type) /\ CompressionStats(p.type, p.param, vals)}

MixedDecode(m, in, sum, n) ==
  LET type == IF HasType(n) THEN Num(ByteAt(m, in)) ELSE BlockTypes.interpolative
      at == IF HasType(n) THEN in + 1 ELSE in
  IN CASE type = BlockTypes.varint -> G8IUBlockDecode(m, at, sum, n)
       [] type = BlockTypes.pfor -> PforBlockDecode(m, at, sum, n)
       [] OTHER -> InterpolativeDecode(m, at, sum, n)

-----------------------------------------------------------------------------
VARIABLES
  codec,
  blocks,   \* the list
  behind,   \* what lies behind its bytes
  values,   \* what is being encoded: the blocks' values, or decoded ones
  out,      \* the bytes
  ends,     \* where the encoding of each block ended
  decoded   \* what the decodes returned

vars == <<codec, blocks, behind, values, out, ends, decoded>>

Init ==
  /\ codec \in PlainCodecs
  /\ blocks \in Workloads(codec)
  /\ behind \in Behind
  /\ values = [k \in 1 .. Len(blocks) |-> blocks[k].vals]
  /\ out = <<>> /\ ends = <<>> /\ decoded = <<>>

Encoded(bytes) ==
  /\ out' = out \o bytes
  /\ ends' = Append(ends, Len(out) + Len(bytes))
  /\ UNCHANGED <<codec, blocks, behind, values, decoded>>

NextVals == values[Len(ends) + 1]
NextSum == blocks[Len(ends) + 1].sum

Encode ==
  /\ Len(ends) < Len(blocks) /\ codec # "mixed"
  /\ Encoded(EncodeBlock(codec, NextVals, NextSum))

EncodeMixed ==
  /\ Len(ends) < Len(blocks) /\ codec = "mixed"
  /\ \E p \in SpaceTimePoints(NextVals) :
       Encoded(EncodeType(p.type, p.param, NextVals, NextSum))

DecodeFrom(k, in) ==
  IF codec = "mixed"
    THEN MixedDecode(Memory(out, behind), in, blocks[k].sum, Len(values[k]))
    ELSE DecodeBlock(codec, Memory(out, behind), in, blocks[k].sum, Len(values[k]))

Decode ==
  /\ Len(ends) = Len(blocks) /\ Len(decoded) < Len(blocks)
  /\ decoded' = Append(decoded,
       DecodeFrom(Len(decoded) + 1, IF decoded = <<>> THEN 0 ELSE Last(decoded).in))
  /\ UNCHANGED <<codec, blocks, behind, values, out, ends>>

(* block_transformer: the decoded blocks are encoded anew.                   *)
Transform ==
  /\ codec \in Transformed /\ Len(decoded) = Len(blocks)
  /\ codec' = "mixed"
  /\ values' = [k \in 1 .. Len(blocks) |-> decoded[k].vals]
  /\ out' = <<>> /\ ends' = <<>> /\ decoded' = <<>>
  /\ UNCHANGED <<blocks, behind>>

Next == Encode \/ EncodeMixed \/ Decode \/ Transform

Spec == Init /\ [][Next]_vars

-----------------------------------------------------------------------------
(* Whatever the codec, the widths of the values and the bytes that lie       *)
(* behind: a block decodes to the values it was encoded from, after a        *)
(* transformation too.                                                       *)
DecodesWhatWasEncoded ==
  \A k \in 1 .. Len(decoded) : decoded[k].vals = blocks[k].vals

(* A decode returns a pointer to where the encoding of its block ended: the  *)
(* only way to find the block's frequencies, or the next block of a list     *)
(* that is walked through (get_blocks).                                      *)
StopsAtTheEnd == \A k \in 1 .. Len(decoded) : decoded[k].in = ends[k]

(* A decode stores at most `overflow` values behind the n it was asked for:  *)
(* that is the room its callers' buffers have (block_posting_list's          *)
(* m_docs_buf).                                                              *)
StaysInOverflow ==
  \A k \in 1 .. Len(decoded) :
    decoded[k].high <= Len(blocks[k].vals) + Overflow(codec)
=============================================================================
