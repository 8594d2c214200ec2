-------------------------------- MODULE Words -------------------------------
(***************************************************************************)
(* Machine words as sets of bit positions, and memory as bytes.  A word of *)
(* w bits is a subset of 0 .. w - 1, so that 32- and 64-bit values, shifts *)
(* that push bits out and masks are what they are in the code.             *)
(*                                                                         *)
(* A memory is [bytes, behind]: the bytes written so far and the byte read *)
(* anywhere behind them, which is whatever the allocation holds.           *)
(***************************************************************************)
EXTENDS Integers, SequencesExt, FiniteSetsExt

Byte == SUBSET (0 .. 7)

(* The word of a number below 2^30, and the number of such a word.           *)
Bits(n) == {i \in 0 .. 29 : (n \div 2 ^ i) % 2 = 1}
Num(w) == MapThenSumSet(LAMBDA i : 2 ^ i, w)

ShiftLeft(w, s) == {i + s : i \in w}
ShiftRight(w, s) == {i - s : i \in {j \in w : j >= s}}
Low(w, n) == {i \in w : i < n}

(* succinct::broadword::msb and lsb.                                         *)
Msb(w) == Max(w)
Lsb(w) == Min(w)

Zeros(n) == [i \in 1 .. n |-> {}]

ByteOf(w, i) == Low(ShiftRight(w, 8 * i), 8)

BytesOf(w, n) == [i \in 1 .. n |-> ByteOf(w, i - 1)]

Memory(bytes, behind) == [bytes |-> bytes, behind |-> behind]

ByteAt(m, p) == IF p < Len(m.bytes) THEN m.bytes[p + 1] ELSE m.behind

(* The little-endian word in n bytes from p.                                 *)
WordAt(m, p, n) == UNION {ShiftLeft(ByteAt(m, p + i), 8 * i) : i \in 0 .. n - 1}

(* uint32_t(-1): as a sum of values, not known.                              *)
AllOnes32 == 0 .. 31
=============================================================================
