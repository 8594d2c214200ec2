------------------------------- MODULE DintBlock ----------------------------
(***************************************************************************)
(* dint_codecs.hpp: a whole block becomes codewords, of 16 or 8 bits, that *)
(* stand for an entry of a dictionary or a run of zeros, or announce an    *)
(* exception of 16 or 32 bits.  The greedy parse takes the longest entry,  *)
(* the optimal one a shortest path.  A map is a function from entries to   *)
(* codewords (DintDictionary!MapOf).                                       *)
(***************************************************************************)
EXTENDS DintDictionary, BlockCodecs

-----------------------------------------------------------------------------
WriteIndex(index, b) == BytesOf(Bits(index), b \div 8)

IsSmall(value) == Low(value, 16) = value

WriteException(value, b) ==
  IF IsSmall(value) THEN WriteIndex(0, b) \o BytesOf(value, 2)
  ELSE WriteIndex(1, b) \o BytesOf(value, 4)

(* From position i of vals, which counts from 0.                             *)
ZerosFrom(vals, i) ==
  Min({256, Len(vals) - i} \cup {k \in 0 .. Len(vals) - i - 1 : vals[i + k + 1] # {}})

RunsIn(zeros) == {n \in ToSet(RunSizes) : n <= zeros}

RunCodeword(n) == EXCEPTIONS - 1 + CHOOSE r \in DOMAIN RunSizes : RunSizes[r] = n

Ahead(vals, i, len) == SubSeq(vals, i + 1, i + len)

Lengths16(vals, i) == {Min({size, Len(vals) - i}) : size \in TargetSizes}

KnownLengths(map, vals, i) == {len \in Lengths16(vals, i) : Ahead(vals, i, len) \in DOMAIN map}

-----------------------------------------------------------------------------
(* greedy_dint_single_dict_block::encode.                                    *)

WroteGreedy(s, bytes, len) == [at |-> s.at + len, out |-> s.out \o bytes]

GreedyEntry(map, vals, s, lens) ==
  IF lens = {} THEN WroteGreedy(s, WriteException(vals[s.at + 1], 16), 1)
  ELSE WroteGreedy(s, WriteIndex(map[Ahead(vals, s.at, Max(lens))], 16), Max(lens))

GreedyStep(map, vals, s, runs) ==
  IF runs # {} THEN WroteGreedy(s, WriteIndex(RunCodeword(Max(runs)), 16), Max(runs))
  ELSE GreedyEntry(map, vals, s, KnownLengths(map, vals, s.at))

RECURSIVE Greedily(_, _, _, _)
Greedily(map, vals, s, k) ==
  IF s.at = Len(vals) THEN s
  ELSE IF k = 0 THEN GreedyStep(map, vals, s, RunsIn(ZerosFrom(vals, s.at)))
  ELSE Greedily(map, vals, Greedily(map, vals, s, k - 1), k - 1)

GreedyEncode(map, vals) == Greedily(map, vals, [at |-> 0, out |-> <<>>], 7).out

-----------------------------------------------------------------------------
(* opt_dint_single_dict_block::encode and its copy for several dictionaries: *)
(* nodes [parent, codeword, cost] relaxed from left to right.                *)

FirstPath(n) ==
  [i \in 0 .. n |-> [parent |-> IF i = 0 THEN 0 ELSE i - 1, codeword |-> 1, cost |-> 3 * i]]

(* What a codeword of so many values from i would be, and its cost.          *)
Step(map, vals, i, runs, len) ==
  IF len \in runs THEN [codeword |-> RunCodeword(len), cost |-> 1]
  ELSE IF Ahead(vals, i, len) \in DOMAIN map
    THEN [codeword |-> map[Ahead(vals, i, len)], cost |-> 1]
    ELSE [codeword |-> IF IsSmall(vals[i + 1]) THEN 0 ELSE 1,
          cost |-> IF IsSmall(vals[i + 1]) THEN 2 ELSE 3]

Cheaper(node, i, cost, step) ==
  IF node.cost > cost + step.cost
    THEN [parent |-> i, codeword |-> step.codeword, cost |-> cost + step.cost] ELSE node

RelaxLengths(path, map, vals, i, runs, lens) ==
  [j \in {i + len : len \in lens} |->
     Cheaper(path[j], i, path[i].cost, Step(map, vals, i, runs, j - i))] @@ path

(* A plausible slip.                                                         *)
SmallAsLarge(path, map, vals, i, runs) ==
  RelaxLengths(path, map, vals, i, runs, runs \cup KnownLengths(map, vals, i))

RelaxFrom(path, map, vals, i, runs) ==
  RelaxLengths(path, map, vals, i, runs, runs \cup KnownLengths(map, vals, i) \cup {1})

RelaxNext(s, map, vals) ==
  [at |-> s.at + 1,
   path |-> RelaxFrom(s.path, map, vals, s.at, RunsIn(ZerosFrom(vals, s.at)))]

RECURSIVE Relaxed(_, _, _, _)
Relaxed(s, map, vals, k) ==
  IF s.at = Len(vals) THEN s
  ELSE IF k = 0 THEN RelaxNext(s, map, vals)
  ELSE Relaxed(Relaxed(s, map, vals, k - 1), map, vals, k - 1)

ShortestPath(map, vals) ==
  Relaxed([at |-> 0, path |-> FirstPath(Len(vals))], map, vals, 7).path

WriteNode(node, vals, b) ==
  IF node.codeword > 1 THEN WriteIndex(node.codeword, b)
  ELSE WriteIndex(node.codeword, b)
         \o BytesOf(vals[node.parent + 1], IF node.codeword = 0 THEN 2 ELSE 4)

(* Back along the parents; the bytes come out in the order of the values.    *)
RECURSIVE WritePath(_, _, _, _, _)
WritePath(path, vals, b, s, k) ==
  IF s.at = 0 THEN s
  ELSE IF k = 0 THEN [at |-> path[s.at].parent, out |-> WriteNode(path[s.at], vals, b) \o s.out]
  ELSE WritePath(path, vals, b, WritePath(path, vals, b, s, k - 1), k - 1)

WriteShortest(path, vals, b) ==
  WritePath(path, vals, b, [at |-> Len(vals), out |-> <<>>], 7).out

OptEncode(map, vals, b) ==
  WriteShortest(ShortestPath(map, vals), vals, b)

(* opt_dint_multi_dict_block::encode: with every dictionary and both widths, *)
(* the shorter width, and the first of the shortest.                         *)
ShorterWidth(s, wide, narrow) ==
  IF Len(narrow) <= Len(wide) THEN [code |-> s - 1 + NumSelectors, bytes |-> narrow]
  ELSE [code |-> s - 1, bytes |-> wide]

ChooseDictionary(encoded) ==
  encoded[Min({s \in DOMAIN encoded :
                 \A t \in DOMAIN encoded : Len(encoded[s].bytes) <= Len(encoded[t].bytes)})]

ControlByte(choice) == <<Bits(choice.code)>> \o choice.bytes

MultiEncode(maps, vals) ==
  ControlByte(ChooseDictionary(
    [s \in 1 .. NumSelectors |->
       ShorterWidth(s, OptEncode(maps[s][16], vals, 16), OptEncode(maps[s][8], vals, 8))]))

DintEncode(coder, maps, vals, sum) ==
  IF Len(vals) < BlockSize THEN InterpolativeEncode(vals, sum)
  ELSE CASE coder = "greedy" -> GreedyEncode(maps[1][16], vals)
         [] coder = "opt" -> OptEncode(maps[1][16], vals, 16)
         [] coder = "multi" -> MultiEncode(maps, vals)

-----------------------------------------------------------------------------
(* dint_block::decode, into a buffer of zeros: `out` is what was stored.  Of *)
(* a run only max_entry_size zeros are; the buffer has to have the others.   *)

Padded(out, n) == SubSeq(out, 1, Min({n, Len(out)})) \o Zeros(Max({0, n - Len(out)}))

Stored(out, at, ints) ==
  Padded(out, at) \o ints \o SubSeq(out, at + Len(ints) + 1, Len(out))

Advanced(s, ints, size, in) ==
  [at |-> s.at + size, out |-> Stored(s.out, s.at, ints), in |-> in]

CopyDecoded(s, copied, w) == Advanced(s, copied.ints, copied.size, s.in + w)

DecodeIndex(dict, m, s, w, index, behind) ==
  IF index > EXCEPTIONS - 1 THEN CopyDecoded(s, CopyEntry(dict.b, dict.s, index, behind), w)
  ELSE IF index = 1 THEN Advanced(s, <<WordAt(m, s.in + w, 4)>>, 1, s.in + w + 4)
  ELSE Advanced(s, <<WordAt(m, s.in + w, 2)>>, 1, s.in + w + 2)

RECURSIVE DecodeIndexes(_, _, _, _, _, _, _)
DecodeIndexes(dict, m, n, w, behind, s, k) ==
  IF s.at = n THEN s
  ELSE IF k = 0 THEN DecodeIndex(dict, m, s, w, Num(WordAt(m, s.in, w)), behind)
  ELSE DecodeIndexes(dict, m, n, w, behind, DecodeIndexes(dict, m, n, w, behind, s, k - 1), k - 1)

DecodedBlock(s, n) ==
  [vals |-> Padded(s.out, n), in |-> s.in, high |-> Len(s.out)]

DintDecodeIndexes(dict, m, in, n, w, behind) ==
  DecodedBlock(DecodeIndexes(dict, m, n, w, behind, [at |-> 0, out |-> <<>>, in |-> in], 7), n)

MultiDecode(b, m, in, n, selector_code, behind) ==
  IF selector_code < NumSelectors
    THEN DintDecodeIndexes([b |-> b, s |-> selector_code + 1], m, in + 1, n, 2, behind)
    ELSE DintDecodeIndexes([b |-> b, s |-> selector_code - NumSelectors + 1], m, in + 1, n, 1, behind)

DintDecode(b, m, in, sum, n, behind) ==
  IF n < BlockSize THEN InterpolativeDecode(m, in, sum, n)
  ELSE IF b.kind = "multi" THEN MultiDecode(b, m, in, n, Num(ByteAt(m, in)), behind)
  ELSE DintDecodeIndexes([b |-> b, s |-> 1], m, in, n, 2, behind)
=============================================================================
