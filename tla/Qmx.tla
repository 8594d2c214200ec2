--------------------------------- MODULE Qmx --------------------------------
(***************************************************************************)
(* qmx_codec.hpp: a block of BlockSize 32-bit values in stripes of one or  *)
(* two 128-bit vectors, each with values of one width, and behind them one *)
(* key per batch of up to 16 stripes, the last key first.                  *)
(*                                                                         *)
(* Values and vectors are words (Words.tla); position i of the length      *)
(* buffer is lens[i], from 0.                                              *)
(***************************************************************************)
EXTENDS Words

CONSTANT BlockSize  \* a multiple of 8

ASSUME QmxAssumption == BlockSize \in Nat \ {0} /\ BlockSize % 8 = 0

Wastage == 512

(* The table by size in bits: the type in the key, the values in a stripe.   *)
Widths == {0, 1, 2, 3, 4, 5, 6, 7, 8, 9, 10, 12, 16, 21, 32}

TypeOfWidth == [w \in Widths |-> Cardinality({v \in Widths : v < w})]

Integers ==
  (0 :> 256) @@ (1 :> 128) @@ (2 :> 64) @@ (3 :> 40) @@ (4 :> 32) @@ (5 :> 24)
  @@ (6 :> 20) @@ (7 :> 36) @@ (8 :> 16) @@ (9 :> 28) @@ (10 :> 12)
  @@ (12 :> 20) @@ (16 :> 8) @@ (21 :> 12) @@ (32 :> 4)

(* A one takes no bits: a stripe of width 0 is a run of ones.                *)
BitsNeededFor(value) ==
  IF value = {0} THEN 0
  ELSE Min({w \in Widths \ {0} : value = Low(value, w)})

-----------------------------------------------------------------------------
(* Plausible slips.                                                          *)
NoPromotion(lens, at, b) == FALSE
-----------------------------------------------------------------------------
(* encode.                                                                   *)

GroupMax(lens, at) == Max({lens[at + i] : i \in 0 .. 3})

(* The lengths, with the wastage behind them, by groups of four.             *)
Lengths(src) ==
  [i \in 0 .. BlockSize + Wastage - 1 |->
     IF i < BlockSize THEN BitsNeededFor(src[i + 1]) ELSE 0]

ByGroup(lens) ==
  [i \in DOMAIN lens |-> IF i < BlockSize + 4 THEN GroupMax(lens, i - (i % 4)) ELSE lens[i]]

GroupLengths(src) == ByGroup(Lengths(src))

FillLens(lens, at, n, w) ==
  [i \in DOMAIN lens |-> IF i \in at .. at + n - 1 THEN w ELSE lens[i]]

(* Close to the end of the block bytes are smaller than stripes.  Fewer than *)
(* four values are never left.                                               *)
NearEnd(lens, at) ==
  LET left == BlockSize - at
      look == IF left < 8 THEN 8 ELSE 16
      largest == Max({lens[at + i] : i \in 0 .. look - 1})
  IN IF left < 16 /\ largest <= 8 THEN FillLens(lens, at, look, 8) ELSE lens

MustPromote(lens, at, b) ==
  \E i \in 0 .. Integers[b] - 1 : i % 4 = 0 /\ lens[at + i] > b

Promoted(b) == Min({w \in Widths : w > b})

(* Either all values of a stripe from at on fit, or the next four are made   *)
(* wider and looked at again.                                                *)
RECURSIVE AlignFrom(_, _)
AlignTo(lens, at, b) ==
  IF MustPromote(lens, at, b) THEN AlignFrom(FillLens(lens, at, 4, Promoted(b)), at)
  ELSE AlignFrom(FillLens(lens, at, Integers[b], b), at + Integers[b])

AlignStripe(lens, at) == AlignTo(lens, at, lens[at])

AlignFrom(lens, at) ==
  IF at >= BlockSize THEN lens ELSE AlignStripe(NearEnd(lens, at), at)

(* Lane v % 4 of a vector gets the values of from .. to - 1, each b bits     *)
(* after the one before, the first at bit first; bits pushed out are lost.   *)
Lanes(src, from, to, b, first) ==
  UNION {ShiftLeft(Low(ShiftLeft(src[v + 1], ((v - from) \div 4) * b + first), 32),
                   32 * (v % 4)) : v \in from .. to - 1}

(* The high bits of the four values that straddle the two vectors.           *)
Carried(src, from, s) ==
  UNION {ShiftLeft(ShiftRight(src[v + 1], s), 32 * (v % 4)) : v \in from .. from + 3}

PackOne(src, b) == BytesOf(Lanes(src, 0, Integers[b], b, 0), 16)

PackTwo(src, b, split, s, first) ==
  BytesOf(Lanes(src, 0, split, b, 0), 16)
    \o BytesOf(Carried(src, split - 4, s) \cup Lanes(src, split, Integers[b], b, first), 16)

(* What is left of the values in whole bytes, at most a stripe of them.      *)
PackBytes(src, b, left) ==
  FlattenSeq([i \in 1 .. Min({left, Integers[b]}) |-> BytesOf(src[i], b \div 8)])

PackStripe(src, b, left) ==
  CASE b = 0 -> <<>>
    [] b \in {1, 2, 3, 4, 5, 6, 10} -> PackOne(src, b)
    [] b = 7 -> PackTwo(src, 7, 20, 4, 3)
    [] b = 9 -> PackTwo(src, 9, 16, 5, 4)
    [] b = 12 -> PackTwo(src, 12, 12, 8, 8)
    [] b = 21 -> PackTwo(src, 21, 8, 11, 11)
    [] b \in {8, 16, 32} -> PackBytes(src, b, left)

StripesOf(raw_count, b) == (raw_count + Integers[b] - 1) \div Integers[b]

(* A key says how many of 16 cases to skip before falling through the rest.  *)
KeyOf(b, batch) == Bits(TypeOfWidth[b] * 16 + (16 - batch))

KeysOf(count, b) ==
  [k \in 1 .. (count + 15) \div 16 |-> KeyOf(b, Min({16, count - 16 * (k - 1)}))]

(* write_out's bytes: whole stripes, with zeros for the values that lack.    *)
WriteStripes(padded, n, b, raw_count) ==
  FlattenSeq([k \in 1 .. Len(padded) \div n |->
    PackStripe(SubSeq(padded, (k - 1) * n + 1, k * n), b, raw_count - (k - 1) * n)])

WriteOut(src, b) ==
  WriteStripes(src \o Zeros(StripesOf(Len(src), b) * Integers[b] - Len(src)),
               Integers[b], b, Len(src))

(* The keys go into the buffer of the lengths they were computed from.       *)
PutKeys(buf, n_keys, keys) ==
  [i \in DOMAIN buf |->
     IF i \in n_keys .. n_keys + Len(keys) - 1 THEN keys[i - n_keys + 1] ELSE buf[i]]

RunEnd(buf, start, bits) ==
  Min({c \in start + 1 .. BlockSize - 1 : buf[c] # bits} \cup {BlockSize})

Backwards(buf, n_keys) == [i \in 1 .. n_keys |-> buf[n_keys - i]]

(* One write_out per run of equal lengths, then the keys.  The length of the *)
(* next run is read before the keys of this one are written.                 *)
RECURSIVE WriteRun(_, _, _, _, _, _)
AfterRun(src, end, next_bits, buf, dest, n_keys) ==
  IF end = BlockSize THEN dest \o Backwards(buf, n_keys)
  ELSE WriteRun(src, end, next_bits, buf, dest, n_keys)

WriteUpTo(src, start, end, bits, buf, dest, n_keys, keys) ==
  AfterRun(src, end, buf[end], PutKeys(buf, n_keys, keys),
           dest \o WriteOut(SubSeq(src, start + 1, end), bits), n_keys + Len(keys))

WriteTo(src, start, end, bits, buf, dest, n_keys) ==
  WriteUpTo(src, start, end, bits, buf, dest, n_keys,
            KeysOf(StripesOf(end - start, bits), bits))

WriteRun(src, start, bits, buf, dest, n_keys) ==
  WriteTo(src, start, RunEnd(buf, start, bits), bits, buf, dest, n_keys)

EncodeAligned(src, lens) == WriteRun(src, 0, lens[0], lens, <<>>, 0)

QmxEncode(src) == EncodeAligned(src, AlignFrom(GroupLengths(src), 0))

-----------------------------------------------------------------------------
(* decode.                                                                   *)

(* The vector instructions, on vectors as words of 128 bits.                 *)
Load(m, in) == WordAt(m, in, 16)
Srl(v, s, lane) == {x - s : x \in {y \in v : y % lane >= s}}
Sll32(v, s) == {x + s : x \in {y \in v : (y % 32) + s < 32}}
Mask(v, b) == {x \in v : x % 32 < b}
Store(v) ==
  [l \in 1 .. 4 |-> {x % 32 : x \in {y \in v : y \div 32 = l - 1}}]
Stores(vectors) == FlattenSeq([j \in 1 .. Len(vectors) |-> Store(vectors[j])])

(* n stores of b bits of each lane, shifting as 64-bit lanes in between.     *)
Narrow(v, b, n) == Stores([j \in 1 .. n |-> Mask(Srl(v, b * (j - 1), 64), b)])

(* Two vectors: n stores of the first, one of both, and the rest of the      *)
(* second, whose own values begin at bit skip.                               *)
Straddle(v, w, b, n, up, skip) ==
  Stores([j \in 1 .. n |-> Mask(Srl(v, b * (j - 1), 32), b)]
         \o <<Mask(Sll32(w, up) \cup Srl(v, b * n, 32), b)>>
         \o [j \in 1 .. n |-> Mask(Srl(w, skip + b * (j - 1), 32), b)])

(* Zero-extended integers of whole bytes.                                    *)
Whole(m, in, size) == [i \in 1 .. 16 \div size |-> WordAt(m, in + (i - 1) * size, size)]

(* One case of each type: what a stripe stores.                              *)
Stripe0 == [i \in 1 .. 256 |-> {0}]
Stripe1(m, in) == Narrow(Load(m, in), 1, 32)
Stripe2(m, in) == Narrow(Load(m, in), 2, 16)
Stripe3(m, in) == Narrow(Load(m, in), 3, 10)
Stripe4(m, in) == Narrow(Load(m, in), 4, 8)
Stripe5(m, in) == Narrow(Load(m, in), 5, 6)
Stripe6(m, in) == Narrow(Load(m, in), 6, 5)
Stripe7(m, in) == Straddle(Load(m, in), Load(m, in + 16), 7, 4, 4, 3)
Stripe8(m, in) == Whole(m, in, 1)
Stripe9(m, in) == Straddle(Load(m, in), Load(m, in + 16), 9, 3, 5, 4)
Stripe10(m, in) == Narrow(Load(m, in), 10, 3)
Stripe12(m, in) == Straddle(Load(m, in), Load(m, in + 16), 12, 2, 8, 8)
Stripe16(m, in) == Whole(m, in, 2)
Stripe21(m, in) == Straddle(Load(m, in), Load(m, in + 16), 21, 1, 11, 11)
Stripe32(m, in) == Whole(m, in, 4)

Stripe(type, m, in) ==
  CASE type = 0 -> Stripe0
    [] type = 1 -> Stripe1(m, in)
    [] type = 2 -> Stripe2(m, in)
    [] type = 3 -> Stripe3(m, in)
    [] type = 4 -> Stripe4(m, in)
    [] type = 5 -> Stripe5(m, in)
    [] type = 6 -> Stripe6(m, in)
    [] type = 7 -> Stripe7(m, in)
    [] type = 8 -> Stripe8(m, in)
    [] type = 9 -> Stripe9(m, in)
    [] type = 10 -> Stripe10(m, in)
    [] type = 11 -> Stripe12(m, in)
    [] type = 12 -> Stripe16(m, in)
    [] type = 13 -> Stripe21(m, in)
    [] type = 14 -> Stripe32(m, in)
    [] type = 15 -> <<>>

(* The bytes a case moves on by.  The keys 0xf0 .. 0xff are never written.   *)
StripeBytes(type) ==
  CASE type = 0 -> 0 [] type \in {7, 9, 11, 13} -> 32 [] type = 15 -> 1 [] OTHER -> 16

(* The cases left to fall through from the one of the key to its type's last.*)
BatchOfKey(key) == 16 - Num(Low(key, 4))

Batch(m, in, type, count) ==
  FlattenSeq([k \in 1 .. count |-> Stripe(type, m, in + (k - 1) * StripeBytes(type))])

(* while (in <= keys), with one key after the other: what is stored from to.  *)
RECURSIVE DecodeKeys(_, _, _)
DecodeBatch(m, in, keys, type, count) ==
  Batch(m, in, type, count) \o DecodeKeys(m, in + count * StripeBytes(type), keys - 1)

DecodeKeys(m, in, keys) ==
  IF in > keys THEN <<>>
  ELSE DecodeBatch(m, in, keys, Num(ShiftRight(ByteAt(m, keys), 4)), BatchOfKey(ByteAt(m, keys)))

QmxDecode(m, in, len) == DecodeKeys(m, in, in + len - 1)
=============================================================================
