------------------------------ MODULE Optimizer -----------------------------
(***************************************************************************)
(* optimizer of opt_vbyte: in one pass over an increasing list, with what  *)
(* a posting gains in a bit vector over the codes of Encoder, it cuts the  *)
(* list in blocks that are one or the other.                               *)
(*                                                                         *)
(* A position is the number of postings before it; "it" is the number of   *)
(* those read.  best_bv_gain is the gain of the current block up to        *)
(* curr_bv_end, the highest there was, and best_en_gain the lowest.        *)
(***************************************************************************)
EXTENDS Integers, Sequences, Functions

CONSTANTS
  Gaps,             \* the gaps there are between postings
  EncoderCost(_),   \* Encoder::posting_cost, in bits, by the gap to the posting before
  FixCost,          \* constants::fix_cost, in bits: of a block
  GapLists          \* the lists to cut; 0 comes first, as last is *begin at first

ASSUME CostAssumption ==
  /\ FixCost \in Nat
  /\ Gaps \subseteq Nat
  /\ \A gap \in Gaps \cup {0} : EncoderCost(gap) \in Nat
  /\ EncoderCost(0) > 0

ASSUME ListAssumption ==
  \A list \in GapLists : list \in Seq(Gaps \cup {0}) /\ list # <<>> /\ list[1] = 0

VARIABLES
  gaps,             \* the list
  it, curr_begin, curr_bv_end, curr_en_end,
  curr_gain, last_gain, best_bv_gain, best_en_gain,
  T,                \* the threshold: higher once there is a block
  blocks,           \* of the partition: their type and end
  step              \* "walk"; "bitvector", "encoder", "rest" of close(); "done"

positions == <<it, curr_begin, curr_bv_end, curr_en_end>>
gains == <<curr_gain, last_gain, best_bv_gain, best_en_gain>>
optimizerVars == <<gaps, positions, gains, T, blocks, step>>

N == Len(gaps)

(* compact_ranked_bitvector::posting_cost is the gap.                        *)
BitvectorCost(gap) == gap

Gain(gap) == EncoderCost(gap) - BitvectorCost(gap)

-----------------------------------------------------------------------------
(* Plausible slips.  The runs replace one definition of the code by one of   *)
(* these and must then find a property violated; no specification uses them. *)
IgnoresLoss(best, now, threshold, loss) == best > threshold
CutsSoon(best, now, threshold, loss) == best > threshold /\ best - now > FixCost

-----------------------------------------------------------------------------
OptimizerInit(list) ==
  /\ gaps = list
  /\ it = 0 /\ curr_begin = 0 /\ curr_bv_end = 0 /\ curr_en_end = 0
  /\ curr_gain = -1 /\ last_gain = 0 /\ best_bv_gain = 0 /\ best_en_gain = 0
  /\ T = FixCost
  /\ blocks = <<>>
  /\ step = "walk"

(* The best gain there was is worth a block and so is what was lost since.   *)
WorthBlock(best, now, threshold, loss) == best > threshold /\ best - now > loss

NextThreshold == 2 * FixCost

PushBlock(type, end) ==
  /\ blocks' = Append(blocks, [type |-> type, end |-> end])
  /\ curr_begin' = end
  /\ T' = NextThreshold

(* encode_bitvector(): the block ends at bv_end, and the next one has gained *)
(* what came after it, up to now, where "read" postings are read.            *)
EncodeBitvector(gain, bv_gain, bv_end, read) ==
  /\ PushBlock("bitvector", bv_end)
  /\ curr_bv_end' = bv_end
  /\ curr_gain' = gain - bv_gain
  /\ best_bv_gain' = 0
  /\ best_en_gain' = gain - bv_gain
  /\ curr_en_end' = read

EncodeWithEnc(gain, en_gain, en_end, read) ==
  /\ PushBlock("encoder", en_end)
  /\ curr_en_end' = en_end
  /\ curr_gain' = gain - en_gain
  /\ best_en_gain' = 0
  /\ best_bv_gain' = gain - en_gain
  /\ curr_bv_end' = read

Read ==
  /\ it' = it + 1
  /\ last_gain' = curr_gain'
  /\ UNCHANGED <<gaps, step>>

(* The posting is read and no block ends.                                    *)
GoOn(gain) ==
  /\ curr_gain' = gain
  /\ UNCHANGED <<curr_begin, T, blocks>>

GainRises(gain) ==
  LET higher == gain > best_bv_gain
      bv_gain == IF higher THEN gain ELSE best_bv_gain
      bv_end == IF higher THEN it + 1 ELSE curr_bv_end
  IN /\ gain >= last_gain
     /\ IF WorthBlock(-best_en_gain, -gain, T, 2 * FixCost)
        THEN EncodeWithEnc(gain, best_en_gain, curr_en_end, it + 1)
        ELSE /\ GoOn(gain)
             /\ best_bv_gain' = bv_gain /\ curr_bv_end' = bv_end
             /\ UNCHANGED <<best_en_gain, curr_en_end>>

GainFalls(gain) ==
  LET lower == gain <= best_en_gain
      en_gain == IF lower THEN gain ELSE best_en_gain
      en_end == IF lower THEN it + 1 ELSE curr_en_end
  IN /\ gain < last_gain
     /\ IF WorthBlock(best_bv_gain, gain, T, 2 * FixCost)
        THEN EncodeBitvector(gain, best_bv_gain, curr_bv_end, it + 1)
        ELSE /\ GoOn(gain)
             /\ best_en_gain' = en_gain /\ curr_en_end' = en_end
             /\ UNCHANGED <<best_bv_gain, curr_bv_end>>

Walk ==
  /\ step = "walk" /\ it < N
  /\ LET gain == curr_gain + Gain(gaps[it + 1])
     IN GainRises(gain) \/ GainFalls(gain)
  /\ Read

Walked ==
  /\ step = "walk" /\ it = N
  /\ step' = "bitvector"
  /\ UNCHANGED <<gaps, positions, gains, T, blocks>>

(* close(): "it" is the end, and it + 1 one past it.                         *)
CloseBitvector ==
  /\ step = "bitvector"
  /\ IF WorthBlock(best_bv_gain, curr_gain, FixCost, FixCost)
     THEN EncodeBitvector(curr_gain, best_bv_gain, curr_bv_end, it + 1)
     ELSE UNCHANGED <<curr_begin, curr_bv_end, curr_en_end,
                      curr_gain, best_bv_gain, best_en_gain, T, blocks>>
  /\ step' = "encoder"
  /\ UNCHANGED <<gaps, it, last_gain>>

CloseEncoder ==
  /\ step = "encoder"
  /\ IF WorthBlock(-best_en_gain, -curr_gain, FixCost, FixCost)
     THEN EncodeWithEnc(curr_gain, best_en_gain, curr_en_end, it + 1)
     ELSE UNCHANGED <<curr_begin, curr_bv_end, curr_en_end,
                      curr_gain, best_bv_gain, best_en_gain, T, blocks>>
  /\ step' = "rest"
  /\ UNCHANGED <<gaps, it, last_gain>>

CloseRest ==
  /\ step = "rest"
  /\ IF curr_gain > 0
     THEN EncodeBitvector(curr_gain, best_bv_gain, it, it + 1)
     ELSE EncodeWithEnc(curr_gain, best_en_gain, it, it + 1)
  /\ step' = "done"
  /\ UNCHANGED <<gaps, it, last_gain>>

OptimizerStart == \E list \in GapLists : OptimizerInit(list)

OptimizerNext == Walk \/ Walked \/ CloseBitvector \/ CloseEncoder \/ CloseRest

OptimizerSpec == OptimizerStart /\ [][OptimizerNext]_optimizerVars

-----------------------------------------------------------------------------
EndOf(k) == IF k = 0 THEN 0 ELSE blocks[k].end

(* Blocks cut the list in order and none is empty, whatever the order in     *)
(* which the best gains came: the ends that close() and the loop leave one   *)
(* past what was read (optimizer.hpp:62 and 74) are never where a block      *)
(* ends, and the last block ends with the list.                              *)
BlocksInOrder ==
  /\ \A k \in 1 .. Len(blocks) : EndOf(k - 1) < EndOf(k) /\ EndOf(k) <= N
  /\ step = "done" => blocks # <<>> /\ EndOf(Len(blocks)) = N

(* The assertions of the loop and of the two that encode (optimizer.hpp:63,  *)
(* 75, 109 and 121): the gain lies between the best gains there were.        *)
GainBetweenBest == it > 0 => best_en_gain <= curr_gain /\ curr_gain <= best_bv_gain

BlockCost(type, begin, end) ==
  LET cost == [k \in 1 .. N |-> IF type = "bitvector" THEN BitvectorCost(gaps[k])
                                ELSE EncoderCost(gaps[k])]
  IN FixCost + SumFunctionOnSet(cost, begin + 1 .. end)

CutCost ==
  SumFunction([k \in 1 .. Len(blocks) |-> BlockCost(blocks[k].type, EndOf(k - 1), EndOf(k))])

LeastOf(S) == CHOOSE x \in S : \A y \in S : x <= y

(* What the first "end" postings cost, cut in any last block after a cut of  *)
(* those before it that costs what "before" says.                            *)
CostsTo(before, end) ==
  {before[begin + 1] + BlockCost(type, begin, end) :
     begin \in 0 .. end - 1, type \in {"bitvector", "encoder"}}

(* Of all cuts: least[end][begin + 1] is that of the first "begin" postings.  *)
LeastCutCost ==
  LET least[end \in 0 .. N] ==
        IF end = 0 THEN <<0>>
        ELSE Append(least[end - 1], LeastOf(CostsTo(least[end - 1], end)))
  IN least[N][N + 1]

(* The one pass, which looks no further back than the best gains it keeps,   *)
(* cuts the list as cheaply as the best of all cuts does, but for the one    *)
(* bit by which curr_gain is off at first (optimizer.hpp:40).                *)
CutsAtLeastCost == step = "done" => CutCost <= LeastCutCost + 1
=============================================================================
