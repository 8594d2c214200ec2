------------------------------- MODULE BitCodes -----------------------------
(***************************************************************************)
(* The bit-oriented integer codes (integer_codes.hpp), with the reader of  *)
(* bits_enumerator.hpp, and interpolative coding                           *)
(* (interpolative_coding.hpp).                                             *)
(*                                                                         *)
(* Bits written are [size, bits]: bit i is set when i is in bits.  A reader *)
(* is a bits_enumerator [pos, buf, avail] over the memory m from byte in.  *)
(* Values are 32-bit words below 2^30.                                     *)
(***************************************************************************)
EXTENDS Words

NoBits == [size |-> 0, bits |-> {}]

(* succinct::bit_vector_builder::append_bits.                                *)
AppendBits(bv, w, len) ==
  [size |-> bv.size + len, bits |-> bv.bits \cup ShiftLeft(w, bv.size)]

CeilBytes(bits) == (bits + 7) \div 8

BytesOfBits(bv) == BytesOf(bv.bits, CeilBytes(bv.size))

-----------------------------------------------------------------------------
(* bits_enumerator: 64 bits are buffered and filled again, from the current  *)
(* position, when too few are left.                                          *)

GetWord(m, in, pos) ==
  Low(ShiftRight(WordAt(m, in + 8 * (pos \div 64), IF pos % 64 = 0 THEN 8 ELSE 16), pos % 64), 64)

FillBuf(m, in, it) == [it EXCEPT !.buf = GetWord(m, in, it.pos), !.avail = 64]

NewBits == [pos |-> 0, buf |-> {}, avail |-> 0]

(* A reader with the word it returned.                                       *)
Took(it, val) == [it |-> it, val |-> val]

(* m_buf >>= l, m_avail -= l, m_pos += l.                                    *)
Consume(it, l) ==
  [pos |-> it.pos + l, buf |-> ShiftRight(it.buf, l), avail |-> it.avail - l]

(* take(64) leaves the buffer as it is.                                      *)
TakeBuffered(it, l) ==
  Took([Consume(it, l) EXCEPT !.buf = IF l = 64 THEN it.buf ELSE @], Low(it.buf, l))

Take(m, in, it, l) ==
  TakeBuffered(IF it.avail < l THEN FillBuf(m, in, it) ELSE it, l)

RECURSIVE SkipZeros(_, _, _, _)
SkipZeros(m, in, it, zeros) ==
  IF it.buf = {}
    THEN SkipZeros(m, in, FillBuf(m, in, [it EXCEPT !.pos = @ + it.avail]), zeros + it.avail)
    ELSE Took(Consume(it, Lsb(it.buf) + 1), zeros + Lsb(it.buf))

ReadUnary(m, in, it) == SkipZeros(m, in, it, 0)

-----------------------------------------------------------------------------
(* The codes.  read returns the number, write takes it.                      *)

WriteUnary(bv, n) == AppendBits(bv, {n}, n + 1)

Succ(n) == Bits(Num(n) + 1)
Pred(w) == Bits(Num(w) - 1)

(* The bits under the leading one, l bits of them.                           *)
AppendBelow(bv, nn, l) == AppendBits(bv, nn \ {l}, l)

GammaOf(bv, nn) == AppendBelow(WriteUnary(bv, Msb(nn)), nn, Msb(nn))
WriteGamma(bv, n) == GammaOf(bv, Succ(n))

Below(read, l) == Took(read.it, Pred(read.val \cup {l}))
ReadBelow(m, in, it, l) == Below(Take(m, in, it, l), l)

GammaRest(m, in, l) == ReadBelow(m, in, l.it, l.val)
ReadGamma(m, in, it) == GammaRest(m, in, ReadUnary(m, in, it))

DeltaOf(bv, nn) == AppendBelow(WriteGamma(bv, Bits(Msb(nn))), nn, Msb(nn))
WriteDelta(bv, n) == DeltaOf(bv, Succ(n))

DeltaRest(m, in, l) == ReadBelow(m, in, l.it, Num(l.val))
ReadDelta(m, in, it) == DeltaRest(m, in, ReadGamma(m, in, it))

(* The quotient in gamma, then the remainder by 2^k.                         *)
WriteRice(bv, n, k) == AppendBits(WriteGamma(bv, ShiftRight(n, k)), Low(n, k), k)

RiceOf(q, r, k) == Took(r.it, r.val \cup ShiftLeft(q.val, k))
RiceRest(m, in, q, k) == RiceOf(q, Take(m, in, q.it, k), k)
ReadRice(m, in, it, k) == RiceRest(m, in, ReadGamma(m, in, it), k)

Reversed(w, len) == {len - 1 - i : i \in Low(w, len)}

(* h in unary for a number nn of h k to h k + k bits, then nn - 2^(h k) if  *)
(* that has no more than h k bits, and nn in one bit more if not; the most   *)
(* significant bit first.                                                    *)
ZetaTail(bv, nn, shrunk, hk, k) ==
  IF shrunk = Low(shrunk, hk) THEN AppendBits(bv, Reversed(shrunk, hk + k - 1), hk + k - 1)
  ELSE AppendBits(bv, Reversed(nn, hk + k), hk + k)

ZetaOf(bv, nn, h, k) ==
  ZetaTail(WriteUnary(bv, h), nn, Bits(Num(nn) - 2 ^ (h * k)), h * k, k)

WriteZeta(bv, n, k) == ZetaOf(bv, Succ(n), Msb(Succ(n)) \div k, k)

ZetaLast(shrunk, last) == Took(last.it, Pred(ShiftLeft(shrunk, 1) \cup last.val))

ZetaShrunk(m, in, it, shrunk, hk) ==
  IF shrunk = Low(shrunk, hk) THEN Took(it, Bits(Num(shrunk) + 2 ^ hk - 1))
  ELSE ZetaLast(shrunk, Take(m, in, it, 1))

ZetaRead(m, in, read, hk, k) ==
  ZetaShrunk(m, in, read.it, Reversed(read.val, hk + k - 1), hk)

ZetaRest(m, in, h, hk, k) == ZetaRead(m, in, Take(m, in, h.it, hk + k - 1), hk, k)

ZetaAfter(m, in, h, k) == ZetaRest(m, in, h, h.val * k, k)
ReadZeta(m, in, it, k) == ZetaAfter(m, in, ReadUnary(m, in, it), k)

(* The codes by name; Rice and zeta have their parameter.                    *)
Write(code, bv, n) ==
  CASE code.name = "gamma" -> WriteGamma(bv, n)
    [] code.name = "delta" -> WriteDelta(bv, n)
    [] code.name = "rice" -> WriteRice(bv, n, code.k)
    [] code.name = "zeta" -> WriteZeta(bv, n, code.k)

Read(code, m, in, it) ==
  CASE code.name = "gamma" -> ReadGamma(m, in, it)
    [] code.name = "delta" -> ReadDelta(m, in, it)
    [] code.name = "rice" -> ReadRice(m, in, it, code.k)
    [] code.name = "zeta" -> ReadZeta(m, in, it, code.k)

Followed(first, second) ==
  [size |-> first.size + second.size,
   bits |-> first.bits \cup ShiftLeft(second.bits, first.size)]

(* The loops over a block: one value after the other, a half after the other.*)
RECURSIVE WriteAll(_, _)
WriteAll(code, vals) ==
  IF Len(vals) = 1 THEN Write(code, NoBits, vals[1])
  ELSE Followed(WriteAll(code, SubSeq(vals, 1, Len(vals) \div 2)),
                WriteAll(code, SubSeq(vals, Len(vals) \div 2 + 1, Len(vals))))

ReadOne(read) == [vals |-> <<read.val>>, it |-> read.it]
ReadBoth(left, right) == [vals |-> left.vals \o right.vals, it |-> right.it]

RECURSIVE ReadAll(_, _, _, _, _)
ReadRest(code, m, in, left, n) == ReadBoth(left, ReadAll(code, m, in, left.it, n))

ReadAll(code, m, in, it, n) ==
  IF n = 1 THEN ReadOne(Read(code, m, in, it))
  ELSE ReadRest(code, m, in, ReadAll(code, m, in, it, n \div 2), n - (n \div 2))

(* What a block's decode returns: the bytes of all bits read are its own.    *)
BlockRead(read, in) == [vals |-> read.vals, in |-> in + CeilBytes(read.it.pos)]

ReadBlock(code, m, in, it, n) == BlockRead(ReadAll(code, m, in, it, n), in)

-----------------------------------------------------------------------------
(* Interpolative coding: the middle value between its bounds in truncated    *)
(* binary, then both halves.  bit_writer and bit_reader work on 32-bit words.*)

(* write_int(val, u): b bits for a value below m, one more for the others.   *)
WriteTruncated(bv, val, b, m) ==
  IF val < m THEN AppendBits(bv, Bits(val), b)
  ELSE AppendBits(AppendBits(bv, ShiftRight(Bits(val + m), 1), b), Low(Bits(val + m), 1), 1)

FloorLog2(u) == Msb(Bits(u))
ShortCodes(u) == 2 ^ (FloorLog2(u) + 1) - u

WriteInt(bv, val, u) == WriteTruncated(bv, val, FloorLog2(u), ShortCodes(u))

RECURSIVE WriteInterpolative(_, _, _)
WriteHalves(in, h, val, low, high) ==
  Followed(WriteInt(NoBits, val - low, high - low + 1),
           Followed(WriteInterpolative(SubSeq(in, 1, h), low, val),
                    WriteInterpolative(SubSeq(in, h + 2, Len(in)), val, high)))

WriteInterpolative(in, low, high) ==
  IF in = <<>> THEN NoBits
  ELSE WriteHalves(in, Len(in) \div 2, in[Len(in) \div 2 + 1], low, high)

(* bit_reader: a word more when too few bits are left.                       *)
ReadWord(m, in, it) ==
  [it EXCEPT !.buf = @ \cup ShiftLeft(WordAt(m, in + (it.pos + it.avail) \div 8, 4), it.avail),
             !.avail = @ + 32]

TakeBits(it, len) == Took(Consume(it, len), Low(it.buf, len))

ReadBits(m, in, it, len) ==
  IF len = 0 THEN Took(it, {})
  ELSE TakeBits(IF it.avail < len THEN ReadWord(m, in, it) ELSE it, len)

LongCode(more, val, short) == Took(more.it, 2 * val + Num(more.val) - short)

ReadTruncated(m, in, read, short) ==
  IF Num(read.val) < short THEN Took(read.it, Num(read.val))
  ELSE LongCode(ReadBits(m, in, read.it, 1), Num(read.val), short)

ReadInt(m, in, it, u) ==
  ReadTruncated(m, in, ReadBits(m, in, it, FloorLog2(u)), ShortCodes(u))

RECURSIVE ReadInterpolative(_, _, _, _, _, _)
ReadRight(m, in, left, val, n, high) ==
  ReadBoth([vals |-> Append(left.vals, val), it |-> left.it],
           ReadInterpolative(m, in, left.it, n, val, high))

ReadHalves(m, in, it, h, n, low, val, high) ==
  ReadRight(m, in, ReadInterpolative(m, in, it, h, low, val), val, n - h - 1, high)

ReadMiddle(m, in, read, n, low, high) ==
  ReadHalves(m, in, read.it, n \div 2, n, low, low + read.val, high)

ReadInterpolative(m, in, it, n, low, high) ==
  IF n = 0 THEN [vals |-> <<>>, it |-> it]
  ELSE ReadMiddle(m, in, ReadInt(m, in, it, high - low + 1), n, low, high)
=============================================================================
