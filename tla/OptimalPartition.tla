-------------------------- MODULE OptimalPartition --------------------------
(***************************************************************************)
(* optimal_partition of ds2i: the cheapest way to cut an increasing list,  *)
(* as a shortest path over its positions, on which only those edges are    *)
(* relaxed that a few windows show.  A window slides over the list and     *)
(* opens as long as what it shows costs less than its bound.               *)
(*                                                                         *)
(* A position is the number of values before it.  The value that does not  *)
(* grow is the bound: it is a whole number of bits.                        *)
(***************************************************************************)
EXTENDS Integers, Sequences, Functions

CONSTANTS
  CostFun(_, _),     \* in bits, of a universe and a size
  Eps1, Eps2,        \* of the configuration, in hundredths
  Universe,          \* values are below it
  ValueLists         \* the lists to cut

ASSUME CutAssumption ==
  /\ Universe \in Nat \ {0} /\ Eps1 \in Nat /\ Eps2 \in Nat
  /\ \A universe, n \in 1 .. Universe : CostFun(universe, n) \in Nat

ASSUME ValueAssumption ==
  \A list \in ValueLists :
    /\ list \in Seq(0 .. Universe - 1) /\ list # <<>>
    /\ \A k \in 2 .. Len(list) : list[k - 1] < list[k]

VARIABLES
  vals,                    \* the list
  windows,                 \* [start, end, min_p, max_p, bound]
  i, w,                    \* the position, and the window that it is looked from
  last_end,                \* where the window before it ended
  min_cost, path,
  partition,               \* the ends of the blocks found, the last one first
  phase                    \* "windows", "reach", "relax", "path", "done"

vars == <<vals, windows, i, w, last_end, min_cost, path, partition, phase>>

Size == Len(vals)

-----------------------------------------------------------------------------
(* Plausible slips.  The runs replace one definition of the code by one of   *)
(* these and must then find a property violated; no specification uses them. *)
UniverseFromZero(window) == window.max_p + 1
KeepsValue(window) == [window EXCEPT !.min_p = vals[window.start + 1], !.start = window.start + 1]

-----------------------------------------------------------------------------
SingleBlockCost == CostFun(Universe, Size)

MinimumCost == CostFun(1, 1)

NewWindow(bound) ==
  [start |-> 0, end |-> 0, min_p |-> vals[1], max_p |-> 0, bound |-> bound]

(* cost_bound * (1 + eps2), truncated.                                       *)
NextBound(bound) == (bound * (100 + Eps2)) \div 100

IsWorthAWindow(bound) == Eps1 = 0 \/ bound * Eps1 < MinimumCost * 100

WindowUniverse(window) == window.max_p - window.min_p + 1

WindowCost(window) == CostFun(WindowUniverse(window), window.end - window.start)

AdvancedEnd(window) == [window EXCEPT !.max_p = vals[window.end + 1], !.end = window.end + 1]

AdvancedStart(window) == [window EXCEPT !.min_p = vals[window.start + 1] + 1, !.start = window.start + 1]

CutInit(list) ==
  /\ vals = list
  /\ windows = <<>>
  /\ i = 0 /\ w = 1 /\ last_end = 1
  /\ min_cost = [j \in 0 .. Len(list) |-> IF j = 0 THEN 0 ELSE CostFun(Universe, Len(list))]
  /\ path = [j \in 0 .. Len(list) |-> 0]
  /\ partition = <<>>
  /\ phase = "windows"

(* The bound of the next window, if there is one before.                     *)
CostBound ==
  IF windows = <<>> THEN MinimumCost ELSE NextBound(windows[Len(windows)].bound)

AllWindows ==
  \/ ~IsWorthAWindow(CostBound)
  \/ windows # <<>> /\ windows[Len(windows)].bound >= SingleBlockCost

AddWindow ==
  /\ phase = "windows" /\ ~AllWindows
  /\ windows' = Append(windows, NewWindow(CostBound))
  /\ UNCHANGED <<vals, i, w, last_end, min_cost, path, partition, phase>>

(* The first position, or none if the list is empty.                         *)
StartRelaxing ==
  /\ phase = "windows" /\ AllWindows
  /\ phase' = "reach"
  /\ UNCHANGED <<vals, windows, i, w, last_end, min_cost, path, partition>>

(* A window shows at least what the one before it did.                       *)
ReachLastEnd ==
  /\ phase = "reach" /\ i < Size /\ w <= Len(windows)
  /\ IF windows[w].end < last_end
     THEN windows' = [windows EXCEPT ![w] = AdvancedEnd(@)] /\ phase' = phase
     ELSE windows' = windows /\ phase' = "relax"
  /\ UNCHANGED <<vals, i, w, last_end, min_cost, path, partition>>

MayOpen(window) == window.end # Size /\ WindowCost(window) < window.bound

Relax ==
  LET window == windows[w]
      cost == min_cost[i] + WindowCost(window)
      cheaper == cost < min_cost[window.end]
  IN /\ phase = "relax"
     /\ min_cost' = [min_cost EXCEPT ![window.end] = IF cheaper THEN cost ELSE @]
     /\ path' = [path EXCEPT ![window.end] = IF cheaper THEN i ELSE @]
     /\ last_end' = window.end
     /\ IF MayOpen(window)
        THEN /\ windows' = [windows EXCEPT ![w] = AdvancedEnd(@)]
             /\ UNCHANGED <<w, phase>>
        ELSE /\ windows' = [windows EXCEPT ![w] = AdvancedStart(@)]
             /\ w' = w + 1
             /\ phase' = "reach"
     /\ UNCHANGED <<vals, i, partition>>

NextPosition ==
  /\ phase = "reach" /\ i < Size /\ w > Len(windows)
  /\ i' = i + 1 /\ w' = 1 /\ last_end' = i + 2
  /\ UNCHANGED <<vals, windows, min_cost, path, partition, phase>>

StartPath ==
  /\ phase = "reach" /\ i = Size
  /\ phase' = "path"
  /\ UNCHANGED <<vals, windows, i, w, last_end, min_cost, path, partition>>

CurrPos == IF partition = <<>> THEN Size ELSE path[partition[Len(partition)]]

FollowPath ==
  /\ phase = "path"
  /\ IF CurrPos # 0 THEN partition' = Append(partition, CurrPos) /\ phase' = phase
     ELSE partition' = partition /\ phase' = "done"
  /\ UNCHANGED <<vals, windows, i, w, last_end, min_cost, path>>

CutStart == \E list \in ValueLists : CutInit(list)

CutNext ==
  AddWindow \/ StartRelaxing \/ ReachLastEnd \/ Relax \/ NextPosition \/ StartPath \/ FollowPath

CutSpec == CutStart /\ [][CutNext]_vars

-----------------------------------------------------------------------------
(* partitioned_sequence stores a block from the value after the one before   *)
(* it, as cur_base is there.                                                 *)
BaseOf(begin) == IF begin = 0 THEN vals[1] ELSE vals[begin] + 1

CutBlockCost(begin, end) == CostFun(vals[end] - BaseOf(begin) + 1, end - begin)

(* Where a block of the partition begins: the last one comes first.          *)
BeginOf(k) == IF k = Len(partition) THEN 0 ELSE partition[k + 1]

FoundCost == SumFunction([k \in 1 .. Len(partition) |-> CutBlockCost(BeginOf(k), partition[k])])

LeastCost(costs) == CHOOSE cost \in costs : \A other \in costs : cost <= other

(* Of all cuts: best[end][begin + 1] is that of the first "begin" values.     *)
BestCost ==
  LET best[end \in 0 .. Size] ==
        IF end = 0 THEN <<0>>
        ELSE LET before == best[end - 1]
             IN Append(before, LeastCost({before[begin + 1] + CutBlockCost(begin, end) :
                                            begin \in 0 .. end - 1}))
  IN best[Size][Size + 1]

(* path leads back: whichever edges were relaxed, the predecessor of a        *)
(* position lies before it, so that the last loop ends                        *)
(* (optimal_partition.hpp:107-111), and the blocks it collects follow each    *)
(* other from the end of the list to its begin.                               *)
CutInOrder ==
  /\ \A end \in 1 .. Size : path[end] < end
  /\ \A k \in 1 .. Len(partition) - 1 : partition[k + 1] < partition[k]
  /\ partition # <<>> => partition[1] = Size
  /\ phase = "done" => partition # <<>> /\ CurrPos = 0

(* cost_opt, which windows add up while they slide over the list with bases *)
(* and ends of their own (optimal_partition.hpp:44-54 and 92-96), is what    *)
(* the blocks it stands for cost one by one as they are stored.  Only if no  *)
(* cut was cheaper than the list of the whole universe (:66) is it that.     *)
CostIsFound ==
  phase = "done" =>
    IF min_cost[Size] < SingleBlockCost THEN min_cost[Size] = FoundCost
    ELSE partition = <<Size>>

(* The blocks found cost no more than cost_opt, and the windows lose no more *)
(* than eps1 and eps2 allow, (1 + eps1) (1 + eps2) of the best cut, though   *)
(* they show few of the edges (optimal_partition.hpp:76-105).                *)
NearBestCut ==
  /\ CutInOrder
  /\ phase = "done" =>
    /\ FoundCost <= min_cost[Size]
    /\ min_cost[Size] * 10000 <= BestCost * (100 + Eps1) * (100 + Eps2)
=============================================================================
