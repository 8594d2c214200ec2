------------------------------- MODULE MCCodecs -----------------------------
(* Codecs on blocks of 128 values chosen so that every stripe of QMX, with   *)
(* and without promotion and close to the end of a block, every size in      *)
(* bytes and every length of code occurs.                                    *)
EXTENDS DintCodecs

AllWidths == <<0, 1, 2, 3, 4, 5, 6, 7, 8, 9, 10, 12, 16, 21, 22>>

(* Values of one width, of one width or zero, of widths that change within   *)
(* a stripe, and a single wider value close to the end.                      *)
Uniform(w) == [i \in 1 .. 128 |-> IF w = 0 THEN 1 ELSE 2 ^ w - 1 - (i % 2)]
Spiky(w) == [i \in 1 .. 128 |-> (2 ^ w - 1) * ((i * 7 + i \div 3) % 2)]
Steps(len) == [i \in 1 .. 128 |-> 2 ^ ((i \div len) % 22) - 1]
Late(i, w) == [Uniform(w) EXCEPT ![i] = 2 ^ (w + 2)]
Ones(n) == [i \in 1 .. 128 |-> IF i > n THEN 1 ELSE 5 * i]
Single(w) == [[i \in 1 .. 128 |-> 0] EXCEPT ![77] = 2 ^ w - 1]

WidthPatterns ==
  {Uniform(AllWidths[k]) : k \in 1 .. 15} \cup {Spiky(AllWidths[k]) : k \in 2 .. 15}
  \cup {Steps(len) : len \in {1, 4, 9, 13}}
  \cup {Late(i, w) : i \in {117, 122, 125}, w \in {1, 7, 11}} \cup {Ones(60), Ones(116)}

FewPatterns ==
  {Uniform(0), Uniform(7), Uniform(22), Spiky(3), Spiky(12), Steps(1), Steps(9), Late(122, 7), Single(29)}

WordsOf(ns) == [i \in 1 .. Len(ns) |-> Bits(ns[i])]
SumOf(ns) == Bits(SumFunction(ns))

Block(ns, sum) == [vals |-> WordsOf(ns), sum |-> sum]

(* Docids with their sum and frequencies without, in a whole block and in a  *)
(* partial one; the partial block starts where the pattern is in the middle. *)
ListOf(ns, n) ==
  LET tail == SubSeq(ns, 60, 59 + n)
  IN <<Block(ns, SumOf(ns)), Block(tail, SumOf(tail)), Block(tail, AllOnes32),
       Block(ns, AllOnes32)>>

(* Values of more than 30 bits, in whole blocks only.                        *)
WideList ==
  LET vals == [i \in 1 .. 128 |-> {i % 31, 31} \cup (0 .. i % 7)]
  IN <<[vals |-> vals, sum |-> AllOnes32], [vals |-> Append(Tail(vals), 0 .. 31), sum |-> AllOnes32]>>

Workload(c) ==
  CASE c = "qmx" -> {ListOf(ns, 20) : ns \in WidthPatterns} \cup {WideList}
    [] c \in {"varint_G8IU", "vbyte", "varintgb"} ->
         {ListOf(ns, n) : ns \in FewPatterns, n \in {5, 6}} \cup {WideList}
    [] OTHER -> {ListOf(ns, n) : ns \in FewPatterns, n \in {1, 2, 17}}

-----------------------------------------------------------------------------
(* DINT: runs of zeros of every length a block can have, entries of every    *)
(* size, exceptions of 16 and of 32 bits.                                    *)

RunsOfZeros == [i \in 1 .. 128 |-> IF i \in {17, 50, 115} THEN 2 ^ (i \div 6) ELSE 0]
Periodic(p) == [i \in 1 .. 128 |-> i % p]
Rising == [i \in 1 .. 128 |-> 600 * i]
RunAndEntry == [i \in 1 .. 128 |-> IF i <= 100 THEN 0 ELSE i % 3]

DintPatterns == {RunsOfZeros, Periodic(3), Periodic(21), Rising, RunAndEntry, Single(29)}

(* Sixteens that start and end with the same words.                          *)
Chained(a, b) == [i \in 1 .. 16 |-> IF i < 4 THEN a ELSE IF i > 12 THEN b ELSE i]
ChainedBlocks == Chained(20, 21) \o Chained(21, 22) \o Chained(22, 20)

DintLists == {<<Block(ns, SumOf(ns)), Block(SubSeq(ns, 60, 79), AllOnes32),
                Block(ns, AllOnes32)>> : ns \in DintPatterns}

DintWorkload(c) ==
  IF c = "multi_packed_dint" THEN {<<l[1], l[2]>> : l \in DintLists} ELSE DintLists

(* The dictionary of the list itself, or of another collection.              *)
DintCollections(c, list) ==
  {list[1].vals, IF c = "single_overlapped_dint" THEN WordsOf(ChainedBlocks)
                 ELSE WordsOf(Periodic(3))}

BehindBytes == {{}, 0 .. 7}
SomeLogs == <<0, 5, 16, 32>>
TransformedCodecs == {"interpolative"}
=============================================================================
