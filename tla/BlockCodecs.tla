----------------------------- MODULE BlockCodecs ----------------------------
(***************************************************************************)
(* block_codecs.hpp: how a posting list's blocks become bytes.  encode is  *)
(* given the values and their sum, or uint32_t(-1) for a sum the decoder   *)
(* will not know, and appends to what was encoded before; decode is given  *)
(* the pointer the decode before it returned.                              *)
(*                                                                         *)
(* A decode gives [vals, in, high]: the values, the pointer it returns and *)
(* how many values from `out` on it stored.                                *)
(***************************************************************************)
EXTENDS Qmx, ByteCodes, BitCodes

(* A decoder that stores exactly the values it returns.                      *)
Exactly(read) == [vals |-> read.vals, in |-> read.in, high |-> Len(read.vals)]

FirstOf(n, stored) == SubSeq(stored, 1, Min({n, Len(stored)}))

-----------------------------------------------------------------------------
(* Plausible slips.                                                          *)
LengthIgnored(read) == read.in

-----------------------------------------------------------------------------
(* interpolative_block: partial sums, the last of them the sum of all.       *)

PartialSums(vals) ==
  LET sum[i \in 1 .. Len(vals)] ==
        Num(vals[i]) + IF i = 1 THEN 0 ELSE sum[i - 1]
  IN sum

InterpolativeOf(sums, sum_of_values, n) ==
  IF sum_of_values = AllOnes32
    THEN EncodeSingle(Bits(sums[n]))
           \o BytesOfBits(WriteInterpolative(SubSeq(sums, 1, n - 1), 0, sums[n]))
    ELSE BytesOfBits(WriteInterpolative(SubSeq(sums, 1, n - 1), 0, Num(sum_of_values)))

InterpolativeEncode(vals, sum_of_values) ==
  InterpolativeOf(PartialSums(vals), sum_of_values, Len(vals))

Differences(sums) ==
  [i \in 1 .. Len(sums) |-> Bits(sums[i] - IF i = 1 THEN 0 ELSE sums[i - 1])]

InterpolativeRead(read, in, sum) ==
  Exactly([vals |-> Differences(Append(read.vals, sum)), in |-> in + CeilBytes(read.it.pos)])

InterpolativeAfter(m, prefix, n) ==
  InterpolativeRead(ReadInterpolative(m, prefix.in, NewBits, n - 1, 0, Num(prefix.val)),
                    prefix.in, Num(prefix.val))

InterpolativeDecode(m, in, sum_of_values, n) ==
  InterpolativeAfter(m, IF sum_of_values = AllOnes32 THEN VByteValue(m, in, 0, {})
                        ELSE [val |-> sum_of_values, in |-> in], n)

-----------------------------------------------------------------------------
(* Whole blocks with a codec of their own, partial ones interpolative.       *)

G8IUBlockEncode(vals, sum, unused) ==
  IF Len(vals) < BlockSize THEN InterpolativeEncode(vals, sum) ELSE G8IUEncode(vals, unused)

G8IUBlockDecode(m, in, sum, n) ==
  IF n < BlockSize THEN InterpolativeDecode(m, in, sum, n) ELSE G8IUDecode(m, in, n)

WithLength(bytes) == EncodeSingle(Bits(Len(bytes))) \o bytes

(* The QMX bytes after their number: decode needs to know where the keys are.*)
QmxBlockEncode(vals, sum) ==
  IF Len(vals) < BlockSize THEN InterpolativeEncode(vals, sum)
  ELSE WithLength(QmxEncode(vals))

QmxStored(stored, in, n) ==
  [vals |-> FirstOf(n, stored), in |-> in, high |-> Len(stored)]

AfterLength(read) == read.in + Num(read.val)

QmxAfter(m, enc_len, n) ==
  QmxStored(QmxDecode(m, enc_len.in, Num(enc_len.val)), AfterLength(enc_len), n)

QmxBlockDecode(m, in, sum, n) ==
  IF n < BlockSize THEN InterpolativeDecode(m, in, sum, n)
  ELSE QmxAfter(m, VByteValue(m, in, 0, {}), n)

(* OptPFor with a width forced on it: external.  A header with the width,    *)
(* then the values in words, and the pointer behind them.                    *)
PforEncode(vals, b) ==
  BytesOf(Bits(b), 4) \o FlattenSeq([i \in 1 .. Len(vals) |-> BytesOf(vals[i], 4)])

PforDecode(m, in, n) ==
  Exactly([vals |-> [i \in 1 .. n |-> WordAt(m, in + 4 * i, 4)], in |-> in + 4 * (n + 1)])

(* optpfor_block.                                                            *)
PforBlockEncode(vals, sum, b) ==
  IF Len(vals) < BlockSize THEN InterpolativeEncode(vals, sum) ELSE PforEncode(vals, b)

PforBlockDecode(m, in, sum, n) ==
  IF n < BlockSize THEN InterpolativeDecode(m, in, sum, n) ELSE PforDecode(m, in, n)

-----------------------------------------------------------------------------
(* The same code for blocks of any size.                                     *)

VByteBlockDecode(m, in, n) == Exactly(VByteDecode(m, in, n))

VarIntGBBlockDecode(m, in, n) == Exactly(GroupVarIntDecode(m, in, n))

Gamma == [name |-> "gamma"]
Delta == [name |-> "delta"]
Rice(k) == [name |-> "rice", k |-> k]
Zeta(k) == [name |-> "zeta", k |-> k]

GammaBlockEncode(vals) == BytesOfBits(WriteAll(Gamma, vals))

GammaBlockDecode(m, in, n) == Exactly(ReadBlock(Gamma, m, in, NewBits, n))

DeltaBlockEncode(vals) == BytesOfBits(WriteAll(Delta, vals))

DeltaBlockDecode(m, in, n) == Exactly(ReadBlock(Delta, m, in, NewBits, n))

ZetaBlockEncode(vals) == BytesOfBits(WriteAll(Zeta(2), vals))

ZetaBlockDecode(m, in, n) == Exactly(ReadBlock(Zeta(2), m, in, NewBits, n))

(* Rice with the first of four parameters that takes the fewest bits, which  *)
(* is written in front.                                                      *)
RiceBits(vals, p) == Followed(AppendBits(NoBits, Bits(p), 2), WriteAll(Rice(p + 1), vals))

FirstSmallest(bvbs) ==
  bvbs[CHOOSE p \in DOMAIN bvbs :
         /\ \A q \in DOMAIN bvbs : bvbs[p].size <= bvbs[q].size
         /\ \A q \in 0 .. p - 1 : bvbs[p].size < bvbs[q].size]

RiceBlockEncode(vals) == BytesOfBits(FirstSmallest([p \in 0 .. 3 |-> RiceBits(vals, p)]))

RiceAfter(m, in, selector, n) ==
  Exactly(ReadBlock(Rice(Num(selector.val) + 1), m, in, selector.it, n))

RiceBlockDecode(m, in, n) == RiceAfter(m, in, Take(m, in, NewBits, 2), n)

-----------------------------------------------------------------------------
(* delta_table_block: a 64-bit buffer of its own on top of the reader, and a *)
(* table for the codes whose first three bits are not all zeros.             *)

DeltaTableBlockEncode(vals) == WithLength(DeltaBlockEncode(vals))

(* The value and the length of the code in eleven bits.                      *)
DeltaTable2048(index) == ReadDelta(Memory(BytesOf(index, 2), {}), 0, NewBits)

(* buffer |= it.take(64 - bits) << bits.                                     *)
Refilled(at, read) ==
  [buffer |-> at.buffer \cup ShiftLeft(read.val, at.bits), bits |-> 64, it |-> read.it]
Refill(m, in, at) == Refilled(at, Take(m, in, at.it, 64 - at.bits))

TooFew(bits) == bits < 11

(* A code off the buffer, which is filled up when the next table look-up may *)
(* be short of bits.                                                         *)
Drop(at, len) == [at EXCEPT !.buffer = ShiftRight(@, len), !.bits = @ - len]
EnoughBits(m, in, at) == IF TooFew(at.bits) THEN Refill(m, in, at) ELSE at

DropCode(m, in, at, read) ==
  [vals |-> <<read.val>>, it |-> EnoughBits(m, in, Drop(at, read.it.pos))]

LongDelta(m, in, full) ==
  DropCode(m, in, full, ReadDelta(Memory(BytesOf(full.buffer, 8), {}), 0, NewBits))

DeltaTableStep(m, in, at) ==
  IF Low(at.buffer, 3) # {} THEN DropCode(m, in, at, DeltaTable2048(Low(at.buffer, 11)))
  ELSE LongDelta(m, in, Refill(m, in, at))

RECURSIVE DeltaTableReads(_, _, _, _)
DeltaTableRest(m, in, left, n) == ReadBoth(left, DeltaTableReads(m, in, left.it, n))

DeltaTableReads(m, in, at, n) ==
  IF n = 1 THEN DeltaTableStep(m, in, at)
  ELSE DeltaTableRest(m, in, DeltaTableReads(m, in, at, n \div 2), n - (n \div 2))

FirstBuffer(read) == [buffer |-> read.val, bits |-> 64, it |-> read.it]

DeltaTableAfter(m, enc_len, n) ==
  Exactly([vals |-> DeltaTableReads(m, enc_len.in,
                      FirstBuffer(Take(m, enc_len.in, NewBits, 64)), n).vals,
           in |-> AfterLength(enc_len)])

DeltaTableBlockDecode(m, in, n) == DeltaTableAfter(m, VByteValue(m, in, 0, {}), n)

-----------------------------------------------------------------------------
(* The block codecs by name, and the values past n a decode may store.       *)

PlainCodecs ==
  {"interpolative", "varint_G8IU", "qmx", "vbyte", "varintgb", "gamma", "delta",
   "delta_table", "rice", "zeta"}

Overflow(codec) ==
  IF codec \in {"qmx", "varintgb"} THEN 512
  ELSE IF codec \in PlainCodecs \cup {"mixed"} THEN 0
  ELSE 256  \* DINT

EncodeBlock(codec, vals, sum) ==
  CASE codec = "interpolative" -> InterpolativeEncode(vals, sum)
    [] codec = "varint_G8IU" -> G8IUBlockEncode(vals, sum, {})
    [] codec = "qmx" -> QmxBlockEncode(vals, sum)
    [] codec = "vbyte" -> VByteEncode(vals)
    [] codec = "varintgb" -> GroupVarIntEncode(vals)
    [] codec = "gamma" -> GammaBlockEncode(vals)
    [] codec = "delta" -> DeltaBlockEncode(vals)
    [] codec = "delta_table" -> DeltaTableBlockEncode(vals)
    [] codec = "rice" -> RiceBlockEncode(vals)
    [] codec = "zeta" -> ZetaBlockEncode(vals)

DecodeBlock(codec, m, in, sum, n) ==
  CASE codec = "interpolative" -> InterpolativeDecode(m, in, sum, n)
    [] codec = "varint_G8IU" -> G8IUBlockDecode(m, in, sum, n)
    [] codec = "qmx" -> QmxBlockDecode(m, in, sum, n)
    [] codec = "vbyte" -> VByteBlockDecode(m, in, n)
    [] codec = "varintgb" -> VarIntGBBlockDecode(m, in, n)
    [] codec = "gamma" -> GammaBlockDecode(m, in, n)
    [] codec = "delta" -> DeltaBlockDecode(m, in, n)
    [] codec = "delta_table" -> DeltaTableBlockDecode(m, in, n)
    [] codec = "rice" -> RiceBlockDecode(m, in, n)
    [] codec = "zeta" -> ZetaBlockDecode(m, in, n)
=============================================================================
