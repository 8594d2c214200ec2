------------------------------ MODULE ByteCodes -----------------------------
(***************************************************************************)
(* The byte-oriented integer codes: TightVariableByte and varint-G8IU with *)
(* its own decoder (block_codecs.hpp, VarIntG8IU.h) and group varint       *)
(* (varintgb.h).  Values are 32-bit words, code is a sequence of bytes, and *)
(* a decoder returns [vals, in]: what it wrote and the offset it stopped   *)
(* at.                                                                     *)
(***************************************************************************)
EXTENDS Words

-----------------------------------------------------------------------------
(* Plausible slips.                                                          *)
WhileMissing(got, n) == got < n

-----------------------------------------------------------------------------
(* TightVariableByte: seven bits a byte, the last one flagged.               *)

(* 1 for val < 2^7, 2 below 2^14, ..., 5 for the rest.                       *)
SevenBitGroups(val) == Min({n \in 1 .. 5 : val = Low(val, 7 * n)})

SevenBits(val, n) ==
  [i \in 1 .. n |-> Low(ShiftRight(val, 7 * (i - 1)), 7) \cup (IF i = n THEN {7} ELSE {})]

EncodeSingle(val) == SevenBits(val, SevenBitGroups(val))

VByteEncode(vals) == FlattenSeq([i \in 1 .. Len(vals) |-> EncodeSingle(vals[i])])

(* Bytes are added up until one is flagged; shifts drop what is past 32.     *)
RECURSIVE VByteValue(_, _, _, _)
VByteNext(m, in, shift, v, c) ==
  IF 7 \in c THEN [val |-> v, in |-> in] ELSE VByteValue(m, in, shift, v)

VByteValue(m, in, shift, v) ==
  VByteNext(m, in + 1, shift + 7, v \cup Low(ShiftLeft(Low(ByteAt(m, in), 7), shift), 32),
            ByteAt(m, in))

RECURSIVE VByteFrom(_, _, _, _)
VByteMore(m, read, n, vals) == VByteFrom(m, read.in, n, Append(vals, read.val))

VByteFrom(m, in, n, vals) ==
  IF Len(vals) = n THEN [vals |-> vals, in |-> in]
  ELSE VByteMore(m, VByteValue(m, in, 0, {}), n, vals)

VByteDecode(m, in, n) == VByteFrom(m, in, n, <<>>)

-----------------------------------------------------------------------------
(* varint-G8IU: a descriptor and eight bytes; a clear bit of the descriptor  *)
(* says that a value ends with this byte.                                    *)

NumByteNeeded(val) == Min({n \in 1 .. 4 : val = Low(val, 8 * n)})

NoRoom(length, size) == length + size > 8

(* How many of the values from `from` on fit the eight bytes.                *)
RECURSIVE Fitting(_, _, _)
Fitting(vals, from, length) ==
  IF from > Len(vals) \/ NoRoom(length, NumByteNeeded(vals[from])) THEN 0
  ELSE 1 + Fitting(vals, from + 1, length + NumByteNeeded(vals[from]))

(* The bytes behind the values are what the buffer held: unused.             *)
G8IUBlock(vals, unused) ==
  LET data == FlattenSeq([i \in 1 .. Len(vals) |->
                BytesOf(vals[i], NumByteNeeded(vals[i]))])
      ends == {MapThenSumSet(LAMBDA i : NumByteNeeded(vals[i]), 1 .. k) - 1 :
                 k \in 1 .. Len(vals)}
  IN <<(0 .. 7) \ ends>> \o data \o [i \in 1 .. 8 - Len(data) |-> unused]

RECURSIVE G8IUEncodeFrom(_, _, _)
G8IUEncodeSome(vals, from, n, unused) ==
  G8IUBlock(SubSeq(vals, from, from + n - 1), unused)
    \o G8IUEncodeFrom(vals, from + n, unused)

G8IUEncodeFrom(vals, from, unused) ==
  IF from > Len(vals) THEN <<>>
  ELSE G8IUEncodeSome(vals, from, Fitting(vals, from, 0), unused)

G8IUEncode(vals, unused) == G8IUEncodeFrom(vals, 1, unused)

(* maskOutputSize: the values a descriptor announces.                        *)
MaskOutputSize(desc) == Cardinality((0 .. 7) \ desc)

(* vecmask: value i of a descriptor is the bytes behind end i - 1, to end i. *)
EndOf(ends, i) ==
  IF i = 0 THEN -1 ELSE CHOOSE e \in ends : Cardinality({d \in ends : d <= e}) = i

Shuffled(m, src, ends) ==
  [i \in 1 .. Cardinality(ends) |->
     WordAt(m, src + EndOf(ends, i - 1) + 1, Min({4, EndOf(ends, i) - EndOf(ends, i - 1)}))]

(* decodeBlock stores four or eight values, zeros behind those announced.    *)
G8IUDecodeBlock(m, src, n) ==
  Shuffled(m, src + 1, (0 .. 7) \ ByteAt(m, src)) \o Zeros((IF n > 4 THEN 8 ELSE 4) - n)

(* Whole groups while eight values are missing, the last ones through a      *)
(* buffer of their own.  high is how far dst was ever written.               *)
Roomy(got, n) == got <= n - 8

RECURSIVE G8IUDecodeFrom(_, _, _, _, _)
G8IUStore(m, src, n, vals, high, read, stored) ==
  IF Roomy(Len(vals), n)
    THEN G8IUDecodeFrom(m, src, n, vals \o SubSeq(stored, 1, read),
                        Max({high, Len(vals) + Len(stored)}))
    ELSE G8IUDecodeFrom(m, src, n, vals \o SubSeq(stored, 1, Min({read, n - Len(vals)})),
                        Max({high, Min({n, Len(vals) + read})}))

G8IUDecodeNext(m, src, n, vals, high, read) ==
  G8IUStore(m, src + 9, n, vals, high, read, G8IUDecodeBlock(m, src, read))

G8IUDecodeFrom(m, src, n, vals, high) ==
  IF Len(vals) >= n THEN [vals |-> vals, in |-> src, high |-> high]
  ELSE G8IUDecodeNext(m, src, n, vals, high, MaskOutputSize(ByteAt(m, src)))

G8IUDecode(m, src, n) == G8IUDecodeFrom(m, src, n, <<>>, 0)

-----------------------------------------------------------------------------
(* Group varint: a key with two bits per value, then the values in one to    *)
(* four bytes.  The last group may have fewer than four values.              *)

GroupKey(vals) ==
  UNION {ShiftLeft(Bits(NumByteNeeded(vals[i]) - 1), 2 * (i - 1)) : i \in 1 .. Len(vals)}

EncodeGroup(vals) ==
  <<GroupKey(vals)>>
    \o FlattenSeq([i \in 1 .. Len(vals) |-> BytesOf(vals[i], NumByteNeeded(vals[i]))])

GroupVarIntEncode(vals) ==
  FlattenSeq([g \in 1 .. (Len(vals) + 3) \div 4 |->
    EncodeGroup(SubSeq(vals, 4 * g - 3, Min({4 * g, Len(vals)})))])

(* decodeGroupVarInt, and the loop over what is left of the last group.      *)
RECURSIVE DecodeGroup(_, _, _, _, _)
DecodeInGroup(m, in, key, n, vals, size) ==
  DecodeGroup(m, in + size, ShiftRight(key, 2), n, Append(vals, WordAt(m, in, size)))

DecodeGroup(m, in, key, n, vals) ==
  IF Len(vals) = n THEN [vals |-> vals, in |-> in]
  ELSE DecodeInGroup(m, in, key, n, vals, Num(Low(key, 2)) + 1)

RECURSIVE GroupVarIntFrom(_, _, _, _)
GroupVarIntMore(m, group, n, vals) ==
  GroupVarIntFrom(m, group.in, n, vals \o group.vals)

GroupVarIntFrom(m, in, n, vals) ==
  IF Len(vals) >= n THEN [vals |-> vals, in |-> in]
  ELSE GroupVarIntMore(m, DecodeGroup(m, in + 1, ByteAt(m, in), Min({4, n - Len(vals)}), <<>>),
                       n, vals)

GroupVarIntDecode(m, in, n) == GroupVarIntFrom(m, in, n, <<>>)
=============================================================================
