--------------------------- MODULE PartitionProofs --------------------------
(***************************************************************************)
(* Proofs about the two algorithms that cut a list: OptimalPartition, for  *)
(* every list, cost function and choice of windows; Optimizer, for every   *)
(* list, every cost of a code and every fixed cost of a block.             *)
(***************************************************************************)
EXTENDS OptimalPartition, Optimizer, CommonProofs, SequenceTheorems

-----------------------------------------------------------------------------
(* optimal_partition.                                                        *)

Windows == [start : Int, end : Int, min_p : Int, max_p : Int, bound : Int]

Phases == {"windows", "reach", "relax", "path", "done"}

CutTypeOK ==
  /\ vals \in Seq(0 .. Universe - 1) /\ vals # <<>>
  /\ windows \in Seq(Windows)
  /\ i \in 0 .. Size
  /\ w \in Nat \ {0}
  /\ last_end \in Nat
  /\ path \in [0 .. Size -> Nat]
  /\ partition \in Seq(1 .. Size)
  /\ phase \in Phases

(* A window ends inside the list, and one that is looked from i begins there *)
(* and ends past it: only later positions are relaxed.                       *)
EndsInTheList ==
  /\ \A k \in 1 .. Len(windows) : 0 <= windows[k].end /\ windows[k].end <= Size
  /\ phase \in {"windows", "reach"} /\ i < Size => i < last_end /\ last_end <= Size
  /\ phase = "relax" => /\ i < Size /\ w <= Len(windows)
                        /\ i < windows[w].end

(* The assertion of the loop (optimal_partition.hpp:84), for the windows that *)
(* are still to be looked from, and those that were.                         *)
WindowsStartAt ==
  /\ phase = "windows" => i = 0 /\ w = 1
  /\ phase \in {"windows", "reach", "relax"} =>
       \A k \in 1 .. Len(windows) : windows[k].start = IF k < w THEN i + 1 ELSE i

PathLeadsBack == path[0] = 0 /\ \A end \in 1 .. Size : path[end] < end

BlocksLeadBack ==
  /\ \A k \in 1 .. Len(partition) - 1 : partition[k + 1] < partition[k]
  /\ partition # <<>> => partition[1] = Size
  /\ phase = "done" => partition # <<>> /\ CurrPos = 0
  /\ phase \notin {"path", "done"} => partition = <<>>

CutInv == CutTypeOK /\ EndsInTheList /\ WindowsStartAt /\ PathLeadsBack /\ BlocksLeadBack

-----------------------------------------------------------------------------
LEMMA ElementsOfASequence ==
  ASSUME NEW S, NEW seq \in Seq(S)
  PROVE  Len(seq) \in Nat /\ \A k \in 1 .. Len(seq) : seq[k] \in S
OBVIOUS

LEMMA SizeFacts ==
  ASSUME CutTypeOK
  PROVE  /\ Size \in Nat /\ Size > 0
         /\ \A k \in 1 .. Size : vals[k] \in Int
<1>1. Universe \in Nat
  BY CutAssumption, Zenon DEF CutAssumption
<1> QED
  BY <1>1 DEF CutTypeOK, Size

LEMMA WindowFacts ==
  ASSUME CutTypeOK, NEW k \in 1 .. Len(windows)
  PROVE  /\ windows[k] \in Windows
         /\ windows[k].start \in Int /\ windows[k].end \in Int /\ windows[k].bound \in Int
<1>1. windows[k] \in Windows
  BY DEF CutTypeOK
<1> QED
  BY <1>1 DEF Windows

(* One window changes and the others stay.                                   *)
LEMMA AdvancedWindows ==
  ASSUME CutTypeOK, NEW k \in 1 .. Len(windows), NEW window \in Windows,
         windows' = [windows EXCEPT ![k] = window]
  PROVE  /\ windows' \in Seq(Windows) /\ Len(windows') = Len(windows)
         /\ \A m \in 1 .. Len(windows) : windows'[m] = IF m = k THEN window ELSE windows[m]
  BY DEF CutTypeOK

LEMMA AdvancedEndIsAWindow ==
  ASSUME CutTypeOK, NEW window \in Windows, window.end \in 0 .. Size - 1
  PROVE  /\ AdvancedEnd(window) \in Windows
         /\ AdvancedEnd(window).start = window.start /\ AdvancedEnd(window).end = window.end + 1
<1>1. vals[window.end + 1] \in Int
  BY SizeFacts
<1>2. window.end + 1 \in Int
  BY DEF Windows
<1>3. AdvancedEnd(window) \in Windows
  BY <1>1, <1>2 DEF AdvancedEnd, Windows
<1>4. AdvancedEnd(window).start = window.start /\ AdvancedEnd(window).end = window.end + 1
  BY <1>1, <1>2 DEF AdvancedEnd, Windows
<1> QED
  BY <1>3, <1>4

LEMMA AdvancedStartIsAWindow ==
  ASSUME CutTypeOK, NEW window \in Windows, window.start \in 0 .. Size - 1
  PROVE  /\ AdvancedStart(window) \in Windows
         /\ AdvancedStart(window).start = window.start + 1 /\ AdvancedStart(window).end = window.end
<1>1. vals[window.start + 1] + 1 \in Int
  BY SizeFacts
<1>2. window.start + 1 \in Int
  BY DEF Windows
<1>3. AdvancedStart(window) \in Windows
  BY <1>1, <1>2 DEF AdvancedStart, Windows
<1>4. AdvancedStart(window).end = window.end /\ AdvancedStart(window).start = window.start + 1
  BY <1>1, <1>2 DEF AdvancedStart, Windows
<1> QED
  BY <1>3, <1>4

LEMMA NewWindowIsAWindow ==
  ASSUME CutTypeOK PROVE NewWindow(CostBound) \in Windows
<1>1. vals[1] \in Int
  BY SizeFacts
<1>2. CostBound \in Int
  <2>1. CASE windows = <<>>
    <3>1. Universe \in Nat /\ Universe # 0
      BY CutAssumption, Zenon DEF CutAssumption
    <3>2. 1 \in 1 .. Universe
      BY <3>1
    <3>3. CostFun(1, 1) \in Nat
      BY <3>2, CutAssumption, Zenon DEF CutAssumption
    <3>4. MinimumCost \in Int
      BY <3>3 DEF MinimumCost
    <3> QED
      BY <2>1, <3>4 DEF CostBound
  <2>2. CASE windows # <<>>
    <3>1. windows[Len(windows)].bound \in Int
      <4>1. Len(windows) \in 1 .. Len(windows)
        BY <2>2 DEF CutTypeOK
      <4> QED
        BY <4>1, WindowFacts
    <3>2. Eps2 \in Nat
      BY CutAssumption, Zenon DEF CutAssumption
    <3>3. windows[Len(windows)].bound * (100 + Eps2) \in Int
      BY <3>1, <3>2
    <3>4. CostBound = (windows[Len(windows)].bound * (100 + Eps2)) \div 100
      BY <2>2 DEF CostBound, NextBound
    <3> QED
      BY <3>3, <3>4
  <2> QED
    BY <2>1, <2>2
<1> QED
  BY <1>1, <1>2 DEF NewWindow, Windows

-----------------------------------------------------------------------------
LEMMA CutInvHoldsAtFirst == CutStart => CutInv
<1> SUFFICES ASSUME NEW list \in ValueLists, CutInit(list)
             PROVE CutInv
  BY DEF CutStart
<1>1. list \in Seq(0 .. Universe - 1) /\ list # <<>>
  BY ValueAssumption, Zenon DEF ValueAssumption
<1>2. CutTypeOK
  BY <1>1 DEF CutInit, CutTypeOK, Size, Phases
<1>3. EndsInTheList /\ PathLeadsBack
  BY <1>1 DEF CutInit, EndsInTheList, PathLeadsBack, Size
<1> QED
  BY <1>2, <1>3 DEF CutInit, CutInv, WindowsStartAt, BlocksLeadBack

LEMMA AddWindowKeepsInv == ASSUME CutInv, AddWindow PROVE CutInv'
<1>1. /\ CutTypeOK /\ EndsInTheList /\ WindowsStartAt /\ PathLeadsBack /\ BlocksLeadBack
      /\ phase = "windows" /\ windows' = Append(windows, NewWindow(CostBound))
      /\ UNCHANGED <<vals, i, w, last_end, min_cost, path, partition, phase>>
  BY DEF CutInv, AddWindow
<1>2. NewWindow(CostBound) \in Windows
  BY <1>1, NewWindowIsAWindow
<1>3. NewWindow(CostBound).start = 0 /\ NewWindow(CostBound).end = 0
  BY DEF NewWindow
<1>4. /\ windows' \in Seq(Windows) /\ Len(windows') = Len(windows) + 1 /\ Len(windows) \in Nat
      /\ \A k \in 1 .. Len(windows') :
           windows'[k] = IF k = Len(windows') THEN NewWindow(CostBound) ELSE windows[k]
  BY <1>1, <1>2 DEF CutTypeOK
<1>5. Size' = Size /\ CurrPos' = CurrPos
  BY <1>1 DEF Size, CurrPos
<1>6. CutTypeOK' /\ PathLeadsBack' /\ BlocksLeadBack'
  BY <1>1, <1>4, <1>5 DEF CutTypeOK, PathLeadsBack, BlocksLeadBack
<1>7. EndsInTheList'
  BY <1>1, <1>3, <1>4, <1>5, SizeFacts DEF EndsInTheList
<1>8. WindowsStartAt'
  BY <1>1, <1>3, <1>4 DEF WindowsStartAt
<1> QED
  BY <1>6, <1>7, <1>8 DEF CutInv

LEMMA StartRelaxingKeepsInv == ASSUME CutInv, StartRelaxing PROVE CutInv'
<1>1. /\ CutTypeOK /\ EndsInTheList /\ WindowsStartAt /\ PathLeadsBack /\ BlocksLeadBack
      /\ phase = "windows" /\ phase' = "reach"
      /\ UNCHANGED <<vals, windows, i, w, last_end, min_cost, path, partition>>
  BY DEF CutInv, StartRelaxing
<1>2. Size' = Size /\ CurrPos' = CurrPos
  BY <1>1 DEF Size, CurrPos
<1> QED
  BY <1>1, <1>2 DEF CutInv, CutTypeOK, EndsInTheList, WindowsStartAt, PathLeadsBack,
                    BlocksLeadBack, Phases

LEMMA ReachLastEndKeepsInv == ASSUME CutInv, ReachLastEnd PROVE CutInv'
<1>1. /\ CutTypeOK /\ EndsInTheList /\ WindowsStartAt /\ PathLeadsBack /\ BlocksLeadBack
      /\ phase = "reach" /\ i < Size /\ w <= Len(windows)
      /\ UNCHANGED <<vals, i, w, last_end, min_cost, path, partition>>
  BY DEF CutInv, ReachLastEnd
<1>2. Size' = Size /\ CurrPos' = CurrPos /\ Size \in Nat /\ w \in 1 .. Len(windows)
  BY <1>1, SizeFacts DEF Size, CurrPos, CutTypeOK
<1>3. CASE windows[w].end < last_end
  <2>1. windows' = [windows EXCEPT ![w] = AdvancedEnd(windows[w])] /\ phase' = phase
    BY <1>3 DEF ReachLastEnd
  <2>2. windows[w] \in Windows /\ windows[w].end \in Int
    BY <1>1, <1>2, WindowFacts
  <2>3. windows[w].end \in 0 .. Size - 1
    BY <1>1, <1>2, <1>3, <2>2 DEF EndsInTheList, CutTypeOK
  <2>4. /\ AdvancedEnd(windows[w]) \in Windows
        /\ AdvancedEnd(windows[w]).start = windows[w].start
        /\ AdvancedEnd(windows[w]).end = windows[w].end + 1
    BY <1>1, <2>2, <2>3, AdvancedEndIsAWindow
  <2>5. /\ windows' \in Seq(Windows) /\ Len(windows') = Len(windows)
        /\ \A m \in 1 .. Len(windows) :
             windows'[m] = IF m = w THEN AdvancedEnd(windows[w]) ELSE windows[m]
    BY <1>1, <1>2, <2>1, <2>4, AdvancedWindows
  <2>6. CutTypeOK' /\ PathLeadsBack' /\ BlocksLeadBack'
    BY <1>1, <1>2, <2>1, <2>5 DEF CutTypeOK, PathLeadsBack, BlocksLeadBack
  <2>7. EndsInTheList'
    BY <1>1, <1>2, <2>1, <2>3, <2>4, <2>5 DEF EndsInTheList
  <2>8. WindowsStartAt'
    BY <1>1, <1>2, <2>1, <2>4, <2>5 DEF WindowsStartAt
  <2> QED
    BY <2>6, <2>7, <2>8 DEF CutInv
<1>4. CASE ~(windows[w].end < last_end)
  <2>1. windows' = windows /\ phase' = "relax"
    BY <1>4 DEF ReachLastEnd
  <2>2. windows[w].end \in Int
    BY <1>1, <1>2, WindowFacts
  <2>3. i < windows[w].end
    BY <1>1, <1>4, <2>2 DEF EndsInTheList, CutTypeOK
  <2> QED
    BY <1>1, <1>2, <2>1, <2>3 DEF CutInv, CutTypeOK, EndsInTheList, WindowsStartAt,
                                  PathLeadsBack, BlocksLeadBack, Phases
<1> QED
  BY <1>3, <1>4

LEMMA RelaxKeepsInv == ASSUME CutInv, Relax PROVE CutInv'
<1> DEFINE window == windows[w]
           cost == min_cost[i] + WindowCost(window)
           cheaper == cost < min_cost[window.end]
<1>1. /\ CutTypeOK /\ EndsInTheList /\ WindowsStartAt /\ PathLeadsBack /\ BlocksLeadBack
      /\ phase = "relax" /\ i < Size /\ i < window.end /\ window.end <= Size
      /\ w \in 1 .. Len(windows) /\ window.start = i
  BY DEF CutInv, Relax, EndsInTheList, WindowsStartAt, CutTypeOK
<1>2. /\ path' = [path EXCEPT ![window.end] = IF cheaper THEN i ELSE path[window.end]]
      /\ last_end' = window.end
      /\ IF MayOpen(window)
         THEN /\ windows' = [windows EXCEPT ![w] = AdvancedEnd(window)]
              /\ UNCHANGED <<w, phase>>
         ELSE /\ windows' = [windows EXCEPT ![w] = AdvancedStart(window)]
              /\ w' = w + 1
              /\ phase' = "reach"
      /\ UNCHANGED <<vals, i, partition>>
  BY DEF Relax
<1>3. /\ Size' = Size /\ Size \in Nat /\ i \in 0 .. Size
      /\ window \in Windows /\ window.end \in Int /\ window.start \in Int
  BY <1>1, <1>2, SizeFacts, WindowFacts DEF Size, CutTypeOK
<1>4. path' \in [0 .. Size -> Nat] /\ PathLeadsBack'
  <2>1. path \in [0 .. Size -> Nat] /\ window.end \in 1 .. Size
    BY <1>1, <1>3 DEF CutTypeOK
  <2>2. path' \in [0 .. Size -> Nat]
    BY <1>2, <1>3, <2>1
  <2>3. path'[0] = 0
    BY <1>1, <1>2, <2>1 DEF PathLeadsBack
  <2>4. ASSUME NEW end \in 1 .. Size PROVE path'[end] < end
    BY <1>1, <1>2, <1>3, <2>1 DEF PathLeadsBack
  <2> QED
    BY <1>3, <2>2, <2>3, <2>4 DEF PathLeadsBack
<1>5. BlocksLeadBack'
  BY <1>1, <1>2, <1>3 DEF BlocksLeadBack
<1>6. CASE MayOpen(window)
  <2>1. window.end \in 0 .. Size - 1
    BY <1>1, <1>3, <1>6 DEF MayOpen
  <2>2. /\ AdvancedEnd(window) \in Windows
        /\ AdvancedEnd(window).start = window.start
        /\ AdvancedEnd(window).end = window.end + 1
    BY <1>1, <1>3, <2>1, AdvancedEndIsAWindow
  <2>3. /\ windows' \in Seq(Windows) /\ Len(windows') = Len(windows)
        /\ \A m \in 1 .. Len(windows) :
             windows'[m] = IF m = w THEN AdvancedEnd(window) ELSE windows[m]
    BY <1>1, <1>2, <1>6, <2>2, AdvancedWindows
  <2>4. CutTypeOK'
    BY <1>1, <1>2, <1>3, <1>4, <1>6, <2>3 DEF CutTypeOK
  <2>5. EndsInTheList' /\ WindowsStartAt'
    BY <1>1, <1>2, <1>3, <1>6, <2>1, <2>2, <2>3 DEF EndsInTheList, WindowsStartAt
  <2> QED
    BY <1>4, <1>5, <2>4, <2>5 DEF CutInv
<1>7. CASE ~MayOpen(window)
  <2>1. window.start \in 0 .. Size - 1
    BY <1>1, <1>3
  <2>2. /\ AdvancedStart(window) \in Windows
        /\ AdvancedStart(window).start = window.start + 1
        /\ AdvancedStart(window).end = window.end
    BY <1>1, <1>3, <2>1, AdvancedStartIsAWindow
  <2>3. /\ windows' \in Seq(Windows) /\ Len(windows') = Len(windows)
        /\ \A m \in 1 .. Len(windows) :
             windows'[m] = IF m = w THEN AdvancedStart(window) ELSE windows[m]
    BY <1>1, <1>2, <1>7, <2>2, AdvancedWindows
  <2>4. CutTypeOK'
    BY <1>1, <1>2, <1>3, <1>4, <1>7, <2>3 DEF CutTypeOK, Phases
  <2>5. EndsInTheList'
    BY <1>1, <1>2, <1>3, <1>7, <2>2, <2>3 DEF EndsInTheList
  <2>6. WindowsStartAt'
    BY <1>1, <1>2, <1>3, <1>7, <2>2, <2>3 DEF WindowsStartAt
  <2> QED
    BY <1>4, <1>5, <2>4, <2>5, <2>6 DEF CutInv
<1> QED
  BY <1>6, <1>7

LEMMA NextPositionKeepsInv == ASSUME CutInv, NextPosition PROVE CutInv'
<1>1. /\ CutTypeOK /\ EndsInTheList /\ WindowsStartAt /\ PathLeadsBack /\ BlocksLeadBack
      /\ phase = "reach" /\ i < Size /\ w > Len(windows)
      /\ i' = i + 1 /\ w' = 1 /\ last_end' = i + 2
      /\ UNCHANGED <<vals, windows, min_cost, path, partition, phase>>
  BY DEF CutInv, NextPosition
<1>2. Size' = Size /\ Size \in Nat /\ CurrPos' = CurrPos /\ Len(windows) \in Nat
  BY <1>1, SizeFacts DEF Size, CurrPos, CutTypeOK
<1>3. CutTypeOK' /\ PathLeadsBack' /\ BlocksLeadBack'
  BY <1>1, <1>2 DEF CutTypeOK, PathLeadsBack, BlocksLeadBack
<1>4. EndsInTheList'
  BY <1>1, <1>2 DEF EndsInTheList, CutTypeOK
<1>5. WindowsStartAt'
  <2>1. w \in Nat
    BY <1>1 DEF CutTypeOK
  <2>2. \A k \in 1 .. Len(windows) : windows[k].start = IF k < w THEN i + 1 ELSE i
    BY <1>1 DEF WindowsStartAt
  <2>3. \A k \in 1 .. Len(windows) : k < w /\ ~(k < 1)
    BY <1>1, <1>2, <2>1
  <2>4. \A k \in 1 .. Len(windows) : windows[k].start = i + 1
    BY <2>2, <2>3
  <2> QED  BY <1>1, <2>3, <2>4 DEF WindowsStartAt
<1> QED
  BY <1>3, <1>4, <1>5 DEF CutInv

LEMMA StartPathKeepsInv == ASSUME CutInv, StartPath PROVE CutInv'
<1>1. /\ CutTypeOK /\ EndsInTheList /\ PathLeadsBack /\ BlocksLeadBack
      /\ phase = "reach" /\ phase' = "path"
      /\ UNCHANGED <<vals, windows, i, w, last_end, min_cost, path, partition>>
  BY DEF CutInv, StartPath
<1>2. Size' = Size /\ CurrPos' = CurrPos
  BY <1>1 DEF Size, CurrPos
<1> QED
  BY <1>1, <1>2 DEF CutInv, CutTypeOK, EndsInTheList, WindowsStartAt, PathLeadsBack,
                    BlocksLeadBack, Phases

(* The position appended lies before the one it was read from.               *)
LEMMA FollowPathKeepsInv == ASSUME CutInv, FollowPath PROVE CutInv'
<1>1. /\ CutTypeOK /\ EndsInTheList /\ PathLeadsBack /\ BlocksLeadBack
      /\ phase = "path" /\ UNCHANGED <<vals, windows, i, w, last_end, min_cost, path>>
      /\ IF CurrPos # 0 THEN partition' = Append(partition, CurrPos) /\ phase' = phase
         ELSE partition' = partition /\ phase' = "done"
  BY DEF CutInv, FollowPath
<1>2. Size' = Size /\ Size \in Nat /\ Size > 0
  BY <1>1, SizeFacts DEF Size
<1>3. /\ partition \in Seq(1 .. Size) /\ Len(partition) \in Nat
      /\ \A k \in 1 .. Len(partition) : partition[k] \in 1 .. Size
  <2>1. partition \in Seq(1 .. Size)
    BY <1>1 DEF CutTypeOK
  <2> QED
    BY <2>1, ElementsOfASequence
<1>4. /\ CurrPos \in 0 .. Size
      /\ IF partition = <<>> THEN CurrPos = Size ELSE CurrPos < partition[Len(partition)]
  <2>1. CASE partition = <<>>
    BY <1>2, <2>1 DEF CurrPos
  <2>2. CASE partition # <<>>
    <3>1. partition[Len(partition)] \in 1 .. Size
      BY <1>3, <2>2
    <3>2. CurrPos = path[partition[Len(partition)]]
      BY <2>2 DEF CurrPos
    <3>3. CurrPos < partition[Len(partition)] /\ CurrPos \in Nat
      BY <1>1, <3>1, <3>2 DEF PathLeadsBack, CutTypeOK
    <3> QED
      BY <2>2, <3>1, <3>3, <1>2
  <2> QED
    BY <2>1, <2>2
<1>5. EndsInTheList' /\ WindowsStartAt' /\ PathLeadsBack'
  BY <1>1, <1>2 DEF EndsInTheList, WindowsStartAt, PathLeadsBack
<1>6. CASE CurrPos # 0
  <2>1. /\ partition' = Append(partition, CurrPos) /\ phase' = "path"
        /\ CurrPos \in 1 .. Size
    BY <1>1, <1>2, <1>4, <1>6
  <2>2. /\ partition' \in Seq(1 .. Size) /\ Len(partition') = Len(partition) + 1
        /\ \A k \in 1 .. Len(partition) : partition'[k] = partition[k]
        /\ partition'[Len(partition) + 1] = CurrPos
    BY <1>3, <2>1
  <2>3. CutTypeOK'
    BY <1>1, <1>2, <2>1, <2>2 DEF CutTypeOK
  <2>4. ASSUME NEW k \in 1 .. Len(partition') - 1 PROVE partition'[k + 1] < partition'[k]
    <3>1. CASE k = Len(partition)
      BY <3>1, <1>3, <1>4, <2>2
    <3>2. CASE k < Len(partition)
      BY <3>2, <1>1, <1>3, <2>2, SMTT(30) DEF BlocksLeadBack
    <3> QED
      BY <3>1, <3>2, <1>3, <2>2
  <2>5. partition'[1] = Size
    <3>1. CASE partition = <<>>
      BY <3>1, <1>3, <1>4, <2>2
    <3>2. CASE partition # <<>>
      BY <3>2, <1>1, <1>3, <2>2 DEF BlocksLeadBack
    <3> QED
      BY <3>1, <3>2
  <2>6. BlocksLeadBack'
    BY <1>2, <2>1, <2>4, <2>5 DEF BlocksLeadBack
  <2> QED
    BY <1>5, <2>3, <2>6 DEF CutInv
<1>7. CASE CurrPos = 0
  <2>1. partition' = partition /\ phase' = "done" /\ partition # <<>>
    BY <1>1, <1>2, <1>4, <1>7
  <2>2. CurrPos' = 0
    BY <1>1, <1>2, <1>7, <2>1 DEF CurrPos
  <2>3. CutTypeOK'
    BY <1>1, <1>2, <2>1 DEF CutTypeOK, Phases
  <2>4. BlocksLeadBack'
    BY <1>1, <1>2, <2>1, <2>2 DEF BlocksLeadBack
  <2> QED
    BY <1>5, <2>3, <2>4 DEF CutInv
<1> QED
  BY <1>6, <1>7

LEMMA CutInvKept == CutInv /\ [CutNext]_vars => CutInv'
<1> SUFFICES ASSUME CutInv, [CutNext]_vars PROVE CutInv'
  OBVIOUS
<1>1. CASE AddWindow
  BY <1>1, AddWindowKeepsInv
<1>2. CASE StartRelaxing
  BY <1>2, StartRelaxingKeepsInv
<1>3. CASE ReachLastEnd
  BY <1>3, ReachLastEndKeepsInv
<1>4. CASE Relax
  BY <1>4, RelaxKeepsInv
<1>5. CASE NextPosition
  BY <1>5, NextPositionKeepsInv
<1>6. CASE StartPath
  BY <1>6, StartPathKeepsInv
<1>7. CASE FollowPath
  BY <1>7, FollowPathKeepsInv
<1>8. CASE UNCHANGED vars
  <2>1. Size' = Size /\ CurrPos' = CurrPos
    BY <1>8 DEF vars, Size, CurrPos
  <2> QED
    BY <1>8, <2>1 DEF vars, CutInv, CutTypeOK, EndsInTheList, WindowsStartAt, PathLeadsBack,
                      BlocksLeadBack
<1> QED
  BY <1>1, <1>2, <1>3, <1>4, <1>5, <1>6, <1>7, <1>8 DEF CutNext

LEMMA CutInvAlways == CutSpec => []CutInv
<1>1. CutStart => CutInv
  BY CutInvHoldsAtFirst
<1>2. CutInv /\ [CutNext]_vars => CutInv'
  BY CutInvKept
<1> QED
  BY <1>1, <1>2, PTL DEF CutSpec

-----------------------------------------------------------------------------
(* Whatever a block costs and whichever windows there are, the path found    *)
(* leads from the end of the list back to its begin, and the partition made  *)
(* of it is a cut of the list in blocks that are not empty.                  *)
THEOREM PartitionIsACut == CutSpec => []CutInOrder
<1>1. CutInv => CutInOrder
  BY DEF CutInv, CutInOrder, PathLeadsBack, BlocksLeadBack
<1> QED
  BY <1>1, CutInvAlways, PTL

(* The assertion of the loop: the window that is looked from a position      *)
(* starts there (optimal_partition.hpp:84).                                  *)
THEOREM WindowsStartWhereLookedFrom ==
  CutSpec => [](phase = "relax" => windows[w].start = i)
<1>1. CutInv => (phase = "relax" => windows[w].start = i)
  BY DEF CutInv, CutTypeOK, EndsInTheList, WindowsStartAt
<1> QED
  BY <1>1, CutInvAlways, PTL

-----------------------------------------------------------------------------
(* The optimizer of opt_vbyte.                                               *)

Steps == {"walk", "bitvector", "encoder", "rest", "done"}

Blocks == [type : {"bitvector", "encoder"}, end : Nat]

OptimizerTypeOK ==
  /\ gaps \in Seq(Gaps \cup {0}) /\ gaps # <<>> /\ gaps[1] = 0
  /\ it \in 0 .. N
  /\ curr_begin \in Nat /\ curr_bv_end \in Nat /\ curr_en_end \in Nat
  /\ curr_gain \in Int /\ last_gain \in Int
  /\ best_bv_gain \in Int /\ best_en_gain \in Int
  /\ T \in Nat
  /\ blocks \in Seq(Blocks)
  /\ step \in Steps

(* The blocks so far, and the block that began where they end.               *)
CutSoFar ==
  /\ \A k \in 1 .. Len(blocks) : EndOf(k - 1) < EndOf(k) /\ EndOf(k) <= N
  /\ curr_begin = EndOf(Len(blocks))

(* The signs of the best gains, and what the first posting starts from.      *)
Signs ==
  /\ best_en_gain <= 0 /\ 0 <= best_bv_gain
  /\ it = 0 => curr_gain = -1 /\ last_gain = 0 /\ best_bv_gain = 0 /\ best_en_gain = 0
                 /\ curr_begin = 0 /\ step = "walk"
  /\ step = "walk" /\ it > 0 => last_gain = curr_gain

(* A best gain that is not 0 was met inside the current block, and before    *)
(* the last posting if the gain is not there any more.                       *)
BestInside ==
  /\ it > 0 => curr_begin < it
  /\ best_bv_gain > 0 => curr_begin < curr_bv_end /\ curr_bv_end <= it
  /\ best_en_gain < 0 => curr_begin < curr_en_end /\ curr_en_end <= it
  /\ best_bv_gain > 0 /\ best_bv_gain > curr_gain => curr_bv_end < it
  /\ best_en_gain < 0 /\ best_en_gain < curr_gain => curr_en_end < it

(* What close() still needs of it, once a block may have been closed there.  *)
Closing ==
  /\ step # "walk" => it = N
  /\ step \in {"encoder", "rest"} => curr_begin < N
  /\ step = "encoder" /\ best_en_gain < 0 /\ best_en_gain < curr_gain =>
       curr_begin < curr_en_end /\ curr_en_end < N
  /\ step = "done" => blocks # <<>> /\ curr_begin = N

OptimizerInv ==
  /\ OptimizerTypeOK
  /\ CutSoFar
  /\ GainBetweenBest
  /\ Signs
  /\ step \in {"walk", "bitvector"} => BestInside
  /\ Closing

-----------------------------------------------------------------------------
(* What a posting gains is an integer, and the first gains something.        *)
LEMMA GainFacts ==
  ASSUME OptimizerTypeOK
  PROVE  /\ N \in Nat /\ N > 0
         /\ \A k \in 1 .. N : Gain(gaps[k]) \in Int
         /\ Gain(gaps[1]) > 0
<1>1. N \in Nat /\ N > 0
  BY DEF OptimizerTypeOK, N
<1>2. ASSUME NEW k \in 1 .. N PROVE Gain(gaps[k]) \in Int
  <2>1. gaps[k] \in Gaps \cup {0}
    BY DEF OptimizerTypeOK, N
  <2>2. gaps[k] \in Nat
    <3>1. Gaps \subseteq Nat
      BY CostAssumption, Zenon DEF CostAssumption
    <3>2. 0 \in Nat
      OBVIOUS
    <3> QED
      BY <2>1, <3>1, <3>2, Zenon
  <2>3. EncoderCost(gaps[k]) \in Nat
    BY <2>1, CostAssumption, Zenon DEF CostAssumption
  <2> QED
    BY <2>2, <2>3 DEF Gain, BitvectorCost
<1>3. Gain(gaps[1]) > 0
  <2>1. gaps[1] = 0
    BY DEF OptimizerTypeOK
  <2>2. EncoderCost(0) \in Nat /\ EncoderCost(0) > 0
    BY CostAssumption DEF CostAssumption
  <2> QED
    BY <2>1, <2>2 DEF Gain, BitvectorCost
<1> QED
  BY <1>1, <1>2, <1>3

(* A block that ends after it begins, and within the list, keeps the cut.    *)
LEMMA PushBlockKeepsTheCut ==
  ASSUME OptimizerTypeOK, CutSoFar, gaps' = gaps,
         NEW type \in {"bitvector", "encoder"}, NEW end \in Nat,
         curr_begin < end, end <= N, PushBlock(type, end)
  PROVE  /\ CutSoFar'
         /\ blocks' \in Seq(Blocks) /\ blocks' # <<>>
         /\ curr_begin' = end
         /\ T' \in Nat
<1> DEFINE block == [type |-> type, end |-> end]
<1>1. /\ blocks' = Append(blocks, block) /\ curr_begin' = end /\ T' = NextThreshold
      /\ block \in Blocks /\ blocks \in Seq(Blocks)
  BY DEF PushBlock, Blocks, OptimizerTypeOK
<1>2. /\ Len(blocks) \in Nat /\ Len(blocks') = Len(blocks) + 1
      /\ \A k \in 1 .. Len(blocks) : blocks'[k] = blocks[k]
      /\ blocks'[Len(blocks) + 1] = block
  BY <1>1
<1>3. blocks' \in Seq(Blocks) /\ blocks' # <<>>
  BY <1>1, <1>2
<1>4. N' = N
  BY DEF N
<1>5. \A k \in 0 .. Len(blocks) : EndOf(k)' = EndOf(k)
  BY <1>2 DEF EndOf
<1>6. \A k \in Nat : k = Len(blocks') => EndOf(k)' = end
  BY <1>2 DEF EndOf
<1>7. ASSUME NEW k \in 1 .. Len(blocks')
      PROVE EndOf(k - 1)' < EndOf(k)' /\ EndOf(k)' <= N'
  <2>1. CASE k = Len(blocks')
    <3>1. EndOf(k - 1)' = curr_begin
      BY <2>1, <1>2, <1>5 DEF CutSoFar
    <3>2. EndOf(k)' = end
      BY <2>1, <1>2, <1>6
    <3> QED
      BY <3>1, <3>2, <1>4
  <2>2. CASE k \in 1 .. Len(blocks)
    <3>1. EndOf(k - 1)' = EndOf(k - 1) /\ EndOf(k)' = EndOf(k)
      BY <2>2, <1>2, <1>5
    <3> QED
      BY <3>1, <2>2, <1>4 DEF CutSoFar
  <2> QED
    BY <2>1, <2>2, <1>2
<1>8. T' \in Nat
  BY <1>1, CostAssumption DEF CostAssumption, NextThreshold
<1> QED
  BY <1>1, <1>3, <1>6, <1>7, <1>8 DEF CutSoFar

LEMMA FixCostIsNat == FixCost \in Nat
BY CostAssumption, Zenon DEF CostAssumption

-----------------------------------------------------------------------------
LEMMA OptimizerInvHoldsAtFirst == OptimizerStart => OptimizerInv
<1> SUFFICES ASSUME NEW list \in GapLists, OptimizerInit(list)
             PROVE OptimizerInv
  BY DEF OptimizerStart
<1>1. list \in Seq(Gaps \cup {0}) /\ list # <<>> /\ list[1] = 0
  BY ListAssumption, Zenon DEF ListAssumption
<1>2. OptimizerTypeOK
  BY <1>1, FixCostIsNat DEF OptimizerInit, OptimizerTypeOK, N, Steps
<1>3. CutSoFar
  BY DEF OptimizerInit, CutSoFar, EndOf
<1> QED
  BY <1>2, <1>3 DEF OptimizerInit, OptimizerInv, GainBetweenBest, Signs, BestInside, Closing

(* A posting is read and the gain does not fall.                             *)
LEMMA RisingKeepsInv ==
  ASSUME OptimizerInv, step = "walk", it < N, Read,
         NEW gain \in Int, gain = curr_gain + Gain(gaps[it + 1]), GainRises(gain)
  PROVE  OptimizerInv'
<1>1. /\ OptimizerTypeOK /\ CutSoFar /\ Signs /\ BestInside /\ GainBetweenBest
      /\ gain >= last_gain /\ it \in Nat /\ FixCost \in Nat /\ N \in Nat
  BY FixCostIsNat DEF OptimizerInv, GainRises, OptimizerTypeOK, N
<1>2. /\ it' = it + 1 /\ last_gain' = curr_gain' /\ gaps' = gaps /\ step' = step /\ N' = N
      /\ it' \in 0 .. N'
  BY <1>1 DEF Read, N
<1>3. best_en_gain <= gain /\ curr_begin <= it
  BY <1>1 DEF Signs, BestInside, GainBetweenBest, OptimizerTypeOK
<1>4. CASE WorthBlock(-best_en_gain, -gain, T, 2 * FixCost)
  <2>1. EncodeWithEnc(gain, best_en_gain, curr_en_end, it + 1)
    BY <1>4 DEF GainRises
  <2>2. best_en_gain < 0 /\ gain - best_en_gain > 0
    BY <1>1, <1>4 DEF WorthBlock, OptimizerTypeOK
  <2>3. curr_begin < curr_en_end /\ curr_en_end <= it /\ curr_en_end \in Nat
    BY <1>1, <2>2 DEF BestInside, OptimizerTypeOK
  <2>4. /\ CutSoFar' /\ blocks' \in Seq(Blocks) /\ blocks' # <<>>
        /\ curr_begin' = curr_en_end /\ T' \in Nat
    BY <1>1, <1>2, <2>1, <2>3, PushBlockKeepsTheCut DEF EncodeWithEnc
  <2>5. /\ curr_en_end' = curr_en_end /\ curr_gain' = gain - best_en_gain
        /\ best_en_gain' = 0 /\ best_bv_gain' = gain - best_en_gain
        /\ curr_bv_end' = it + 1
    BY <2>1 DEF EncodeWithEnc
  <2>6. OptimizerTypeOK'
    BY <1>1, <1>2, <2>4, <2>5 DEF OptimizerTypeOK
  <2> QED
    BY <1>1, <1>2, <2>2, <2>3, <2>4, <2>5, <2>6
       DEF OptimizerInv, GainBetweenBest, Signs, BestInside, Closing, OptimizerTypeOK
<1>5. CASE ~WorthBlock(-best_en_gain, -gain, T, 2 * FixCost)
  <2>1. /\ curr_gain' = gain /\ curr_begin' = curr_begin /\ T' = T /\ blocks' = blocks
        /\ best_en_gain' = best_en_gain /\ curr_en_end' = curr_en_end
        /\ IF gain > best_bv_gain THEN best_bv_gain' = gain /\ curr_bv_end' = it + 1
           ELSE best_bv_gain' = best_bv_gain /\ curr_bv_end' = curr_bv_end
    BY <1>5 DEF GainRises, GoOn
  <2>2. OptimizerTypeOK'
    BY <1>1, <1>2, <2>1 DEF OptimizerTypeOK
  <2>3. CutSoFar'
    BY <1>1, <1>2, <2>1 DEF CutSoFar, EndOf
  <2>4. BestInside'
    BY <1>1, <1>2, <1>3, <2>1 DEF BestInside, Signs, GainBetweenBest, OptimizerTypeOK
  <2> QED
    BY <1>1, <1>2, <1>3, <2>1, <2>2, <2>3, <2>4
       DEF OptimizerInv, GainBetweenBest, Signs, Closing, OptimizerTypeOK
<1> QED
  BY <1>4, <1>5

(* A posting is read and the gain falls: it is not the first.                *)
LEMMA FallingKeepsInv ==
  ASSUME OptimizerInv, step = "walk", it < N, Read,
         NEW gain \in Int, gain = curr_gain + Gain(gaps[it + 1]), GainFalls(gain)
  PROVE  OptimizerInv'
<1>1. /\ OptimizerTypeOK /\ CutSoFar /\ Signs /\ BestInside /\ GainBetweenBest
      /\ gain < last_gain /\ it \in Nat /\ FixCost \in Nat /\ N \in Nat
  BY FixCostIsNat DEF OptimizerInv, GainFalls, OptimizerTypeOK, N
<1>2. /\ it' = it + 1 /\ last_gain' = curr_gain' /\ gaps' = gaps /\ step' = step /\ N' = N
      /\ it' \in 0 .. N'
  BY <1>1 DEF Read, N
<1>3. it > 0
  <2>1. it = 0 => gain >= 0
    BY <1>1, GainFacts DEF Signs, OptimizerTypeOK
  <2> QED
    BY <1>1, <2>1 DEF Signs
<1>4. gain < curr_gain /\ gain <= best_bv_gain /\ curr_begin < it
  BY <1>1, <1>3 DEF Signs, BestInside, GainBetweenBest, OptimizerTypeOK
<1>5. CASE WorthBlock(best_bv_gain, gain, T, 2 * FixCost)
  <2>1. EncodeBitvector(gain, best_bv_gain, curr_bv_end, it + 1)
    BY <1>5 DEF GainFalls
  <2>2. best_bv_gain > 0 /\ gain - best_bv_gain < 0
    BY <1>1, <1>5 DEF WorthBlock, OptimizerTypeOK
  <2>3. curr_begin < curr_bv_end /\ curr_bv_end <= it /\ curr_bv_end \in Nat
    BY <1>1, <2>2 DEF BestInside, OptimizerTypeOK
  <2>4. /\ CutSoFar' /\ blocks' \in Seq(Blocks) /\ blocks' # <<>>
        /\ curr_begin' = curr_bv_end /\ T' \in Nat
    BY <1>1, <1>2, <2>1, <2>3, PushBlockKeepsTheCut DEF EncodeBitvector
  <2>5. /\ curr_bv_end' = curr_bv_end /\ curr_gain' = gain - best_bv_gain
        /\ best_bv_gain' = 0 /\ best_en_gain' = gain - best_bv_gain
        /\ curr_en_end' = it + 1
    BY <2>1 DEF EncodeBitvector
  <2>6. OptimizerTypeOK'
    BY <1>1, <1>2, <2>4, <2>5 DEF OptimizerTypeOK
  <2> QED
    BY <1>1, <1>2, <2>2, <2>3, <2>4, <2>5, <2>6
       DEF OptimizerInv, GainBetweenBest, Signs, BestInside, Closing, OptimizerTypeOK
<1>6. CASE ~WorthBlock(best_bv_gain, gain, T, 2 * FixCost)
  <2>1. /\ curr_gain' = gain /\ curr_begin' = curr_begin /\ T' = T /\ blocks' = blocks
        /\ best_bv_gain' = best_bv_gain /\ curr_bv_end' = curr_bv_end
        /\ IF gain <= best_en_gain THEN best_en_gain' = gain /\ curr_en_end' = it + 1
           ELSE best_en_gain' = best_en_gain /\ curr_en_end' = curr_en_end
    BY <1>6 DEF GainFalls, GoOn
  <2>2. OptimizerTypeOK'
    BY <1>1, <1>2, <2>1 DEF OptimizerTypeOK
  <2>3. CutSoFar'
    BY <1>1, <1>2, <2>1 DEF CutSoFar, EndOf
  <2>4. BestInside'
    BY <1>1, <1>2, <1>4, <2>1 DEF BestInside, Signs, GainBetweenBest, OptimizerTypeOK
  <2> QED
    BY <1>1, <1>2, <1>4, <2>1, <2>2, <2>3, <2>4
       DEF OptimizerInv, GainBetweenBest, Signs, Closing, OptimizerTypeOK
<1> QED
  BY <1>5, <1>6

-----------------------------------------------------------------------------
LEMMA WalkKeepsInv == ASSUME OptimizerInv, Walk PROVE OptimizerInv'
<1> DEFINE gain == curr_gain + Gain(gaps[it + 1])
<1>1. step = "walk" /\ it < N /\ Read /\ (GainRises(gain) \/ GainFalls(gain))
  BY DEF Walk
<1>2. gain \in Int
  <2>1. it + 1 \in 1 .. N /\ curr_gain \in Int
    BY <1>1, GainFacts DEF OptimizerInv, OptimizerTypeOK
  <2>2. Gain(gaps[it + 1]) \in Int
    BY <2>1, GainFacts DEF OptimizerInv
  <2> QED
    BY <2>1, <2>2
<1>3. CASE GainRises(gain)
  BY <1>1, <1>2, <1>3, RisingKeepsInv
<1>4. CASE GainFalls(gain)
  BY <1>1, <1>2, <1>4, FallingKeepsInv
<1> QED
  BY <1>1, <1>3, <1>4

LEMMA WalkedKeepsInv == ASSUME OptimizerInv, Walked PROVE OptimizerInv'
<1>1. /\ step = "walk" /\ it = N /\ step' = "bitvector" /\ UNCHANGED <<gaps, T, blocks>>
      /\ UNCHANGED <<it, curr_begin, curr_bv_end, curr_en_end>>
      /\ UNCHANGED <<curr_gain, last_gain, best_bv_gain, best_en_gain>>
  BY DEF Walked, positions, gains
<1>2. /\ OptimizerTypeOK /\ CutSoFar /\ GainBetweenBest /\ Signs /\ BestInside /\ Closing
      /\ it > 0
  BY <1>1, GainFacts DEF OptimizerInv
<1>3. OptimizerTypeOK' /\ CutSoFar' /\ GainBetweenBest'
  BY <1>1, <1>2 DEF OptimizerTypeOK, CutSoFar, GainBetweenBest, EndOf, N, Steps
<1>4. Signs' /\ BestInside' /\ Closing'
  BY <1>1, <1>2 DEF Signs, BestInside, Closing, N
<1> QED
  BY <1>3, <1>4 DEF OptimizerInv

(* A closed bit vector ends before the list does, and leaves the best gain   *)
(* of the code where the gain is: no block of the code follows it there.     *)
LEMMA CloseBitvectorKeepsInv == ASSUME OptimizerInv, CloseBitvector PROVE OptimizerInv'
<1>1. /\ step = "bitvector" /\ step' = "encoder" /\ gaps' = gaps /\ it' = it
      /\ last_gain' = last_gain /\ N' = N
  BY DEF CloseBitvector, N
<1>2. /\ OptimizerTypeOK /\ CutSoFar /\ GainBetweenBest /\ Signs /\ BestInside /\ Closing
      /\ it = N /\ N \in Nat /\ N > 0 /\ FixCost \in Nat
  BY <1>1, GainFacts, FixCostIsNat DEF OptimizerInv, Closing
<1>3. CASE WorthBlock(best_bv_gain, curr_gain, FixCost, FixCost)
  <2>1. EncodeBitvector(curr_gain, best_bv_gain, curr_bv_end, it + 1)
    BY <1>3 DEF CloseBitvector
  <2>2. best_bv_gain > 0 /\ best_bv_gain > curr_gain
    BY <1>2, <1>3 DEF WorthBlock, OptimizerTypeOK
  <2>3. curr_begin < curr_bv_end /\ curr_bv_end < N /\ curr_bv_end \in Nat
    BY <1>2, <2>2 DEF BestInside, OptimizerTypeOK
  <2>4. /\ CutSoFar' /\ blocks' \in Seq(Blocks) /\ curr_begin' = curr_bv_end /\ T' \in Nat
    BY <1>1, <1>2, <2>1, <2>3, PushBlockKeepsTheCut DEF EncodeBitvector
  <2>5. /\ curr_bv_end' = curr_bv_end /\ curr_gain' = curr_gain - best_bv_gain
        /\ best_bv_gain' = 0 /\ best_en_gain' = curr_gain - best_bv_gain
        /\ curr_en_end' = it + 1
    BY <2>1 DEF EncodeBitvector
  <2>6. OptimizerTypeOK'
    BY <1>1, <1>2, <2>4, <2>5 DEF OptimizerTypeOK, Steps
  <2> QED
    BY <1>1, <1>2, <2>2, <2>3, <2>4, <2>5, <2>6
       DEF OptimizerInv, GainBetweenBest, Signs, Closing, OptimizerTypeOK
<1>4. CASE ~WorthBlock(best_bv_gain, curr_gain, FixCost, FixCost)
  <2>1. UNCHANGED <<curr_begin, curr_bv_end, curr_en_end,
                    curr_gain, best_bv_gain, best_en_gain, T, blocks>>
    BY <1>4 DEF CloseBitvector
  <2>2. OptimizerTypeOK' /\ CutSoFar' /\ GainBetweenBest'
    BY <1>1, <1>2, <2>1 DEF OptimizerTypeOK, CutSoFar, GainBetweenBest, EndOf, N, Steps
  <2>3. Signs' /\ Closing'
    BY <1>1, <1>2, <2>1 DEF Signs, BestInside, Closing, N
  <2> QED
    BY <1>1, <2>2, <2>3 DEF OptimizerInv
<1> QED
  BY <1>3, <1>4

LEMMA CloseEncoderKeepsInv == ASSUME OptimizerInv, CloseEncoder PROVE OptimizerInv'
<1>1. /\ step = "encoder" /\ step' = "rest" /\ gaps' = gaps /\ it' = it
      /\ last_gain' = last_gain /\ N' = N
  BY DEF CloseEncoder, N
<1>2. /\ OptimizerTypeOK /\ CutSoFar /\ GainBetweenBest /\ Signs /\ Closing
      /\ it = N /\ N \in Nat /\ N > 0 /\ FixCost \in Nat
  BY <1>1, GainFacts, FixCostIsNat DEF OptimizerInv, Closing
<1>3. CASE WorthBlock(-best_en_gain, -curr_gain, FixCost, FixCost)
  <2>1. EncodeWithEnc(curr_gain, best_en_gain, curr_en_end, it + 1)
    BY <1>3 DEF CloseEncoder
  <2>2. best_en_gain < 0 /\ best_en_gain < curr_gain
    BY <1>2, <1>3 DEF WorthBlock, OptimizerTypeOK
  <2>3. curr_begin < curr_en_end /\ curr_en_end < N /\ curr_en_end \in Nat
    BY <1>1, <1>2, <2>2 DEF Closing, OptimizerTypeOK
  <2>4. /\ CutSoFar' /\ blocks' \in Seq(Blocks) /\ curr_begin' = curr_en_end /\ T' \in Nat
    BY <1>1, <1>2, <2>1, <2>3, PushBlockKeepsTheCut DEF EncodeWithEnc
  <2>5. /\ curr_en_end' = curr_en_end /\ curr_gain' = curr_gain - best_en_gain
        /\ best_en_gain' = 0 /\ best_bv_gain' = curr_gain - best_en_gain
        /\ curr_bv_end' = it + 1
    BY <2>1 DEF EncodeWithEnc
  <2>6. OptimizerTypeOK'
    BY <1>1, <1>2, <2>4, <2>5 DEF OptimizerTypeOK, Steps
  <2> QED
    BY <1>1, <1>2, <2>2, <2>3, <2>4, <2>5, <2>6
       DEF OptimizerInv, GainBetweenBest, Signs, Closing, OptimizerTypeOK
<1>4. CASE ~WorthBlock(-best_en_gain, -curr_gain, FixCost, FixCost)
  <2>1. UNCHANGED <<curr_begin, curr_bv_end, curr_en_end,
                    curr_gain, best_bv_gain, best_en_gain, T, blocks>>
    BY <1>4 DEF CloseEncoder
  <2>2. OptimizerTypeOK' /\ CutSoFar' /\ GainBetweenBest'
    BY <1>1, <1>2, <2>1 DEF OptimizerTypeOK, CutSoFar, GainBetweenBest, EndOf, N, Steps
  <2>3. Signs' /\ Closing'
    BY <1>1, <1>2, <2>1 DEF Signs, Closing, N
  <2> QED
    BY <1>1, <2>2, <2>3 DEF OptimizerInv
<1> QED
  BY <1>3, <1>4

(* The last block takes what is left, and there is something left.           *)
LEMMA CloseRestKeepsInv == ASSUME OptimizerInv, CloseRest PROVE OptimizerInv'
<1>1. /\ step = "rest" /\ step' = "done" /\ gaps' = gaps /\ it' = it
      /\ last_gain' = last_gain /\ N' = N
  BY DEF CloseRest, N
<1>2. /\ OptimizerTypeOK /\ CutSoFar /\ GainBetweenBest /\ Signs /\ Closing
      /\ it = N /\ N \in Nat /\ N > 0 /\ curr_begin < N
  BY <1>1, GainFacts DEF OptimizerInv, Closing
<1>3. CASE curr_gain > 0
  <2>1. EncodeBitvector(curr_gain, best_bv_gain, it, it + 1)
    BY <1>3 DEF CloseRest
  <2>2. /\ CutSoFar' /\ blocks' \in Seq(Blocks) /\ blocks' # <<>>
        /\ curr_begin' = it /\ T' \in Nat
    BY <1>1, <1>2, <2>1, PushBlockKeepsTheCut DEF EncodeBitvector
  <2>3. /\ curr_bv_end' = it /\ curr_gain' = curr_gain - best_bv_gain
        /\ best_bv_gain' = 0 /\ best_en_gain' = curr_gain - best_bv_gain
        /\ curr_en_end' = it + 1
    BY <2>1 DEF EncodeBitvector
  <2>4. OptimizerTypeOK'
    BY <1>1, <1>2, <2>2, <2>3 DEF OptimizerTypeOK, Steps
  <2> QED
    BY <1>1, <1>2, <1>3, <2>2, <2>3, <2>4
       DEF OptimizerInv, GainBetweenBest, Signs, Closing, OptimizerTypeOK
<1>4. CASE ~(curr_gain > 0)
  <2>1. EncodeWithEnc(curr_gain, best_en_gain, it, it + 1)
    BY <1>4 DEF CloseRest
  <2>2. /\ CutSoFar' /\ blocks' \in Seq(Blocks) /\ blocks' # <<>>
        /\ curr_begin' = it /\ T' \in Nat
    BY <1>1, <1>2, <2>1, PushBlockKeepsTheCut DEF EncodeWithEnc
  <2>3. /\ curr_en_end' = it /\ curr_gain' = curr_gain - best_en_gain
        /\ best_en_gain' = 0 /\ best_bv_gain' = curr_gain - best_en_gain
        /\ curr_bv_end' = it + 1
    BY <2>1 DEF EncodeWithEnc
  <2>4. OptimizerTypeOK'
    BY <1>1, <1>2, <2>2, <2>3 DEF OptimizerTypeOK, Steps
  <2> QED
    BY <1>1, <1>2, <2>2, <2>3, <2>4
       DEF OptimizerInv, GainBetweenBest, Signs, Closing, OptimizerTypeOK
<1> QED
  BY <1>3, <1>4

LEMMA OptimizerInvKept == OptimizerInv /\ [OptimizerNext]_optimizerVars => OptimizerInv'
<1> SUFFICES ASSUME OptimizerInv, [OptimizerNext]_optimizerVars PROVE OptimizerInv'
  OBVIOUS
<1>1. CASE Walk
  BY <1>1, WalkKeepsInv
<1>2. CASE Walked
  BY <1>2, WalkedKeepsInv
<1>3. CASE CloseBitvector
  BY <1>3, CloseBitvectorKeepsInv
<1>4. CASE CloseEncoder
  BY <1>4, CloseEncoderKeepsInv
<1>5. CASE CloseRest
  BY <1>5, CloseRestKeepsInv
<1>6. CASE UNCHANGED optimizerVars
  <2>1. /\ UNCHANGED <<gaps, T, blocks, step>>
        /\ UNCHANGED <<it, curr_begin, curr_bv_end, curr_en_end>>
        /\ UNCHANGED <<curr_gain, last_gain, best_bv_gain, best_en_gain>>
    BY <1>6 DEF optimizerVars, positions, gains
  <2>2. OptimizerTypeOK' = OptimizerTypeOK /\ CutSoFar' = CutSoFar
    BY <2>1 DEF OptimizerTypeOK, CutSoFar, EndOf, N
  <2>3. /\ GainBetweenBest' = GainBetweenBest /\ Signs' = Signs
        /\ BestInside' = BestInside /\ Closing' = Closing
    BY <2>1 DEF GainBetweenBest, Signs, BestInside, Closing, N
  <2> QED
    BY <2>1, <2>2, <2>3 DEF OptimizerInv
<1> QED
  BY <1>1, <1>2, <1>3, <1>4, <1>5, <1>6 DEF OptimizerNext

LEMMA OptimizerInvAlways == OptimizerSpec => []OptimizerInv
<1>1. OptimizerStart => OptimizerInv
  BY OptimizerInvHoldsAtFirst
<1>2. OptimizerInv /\ [OptimizerNext]_optimizerVars => OptimizerInv'
  BY OptimizerInvKept
<1> QED
  BY <1>1, <1>2, PTL DEF OptimizerSpec

-----------------------------------------------------------------------------
(* compute_partition cuts every list, of whatever gaps and with whatever     *)
(* costs, in blocks that follow each other, are not empty and take it all.   *)
THEOREM BlocksAreInOrder == OptimizerSpec => []BlocksInOrder
<1>1. OptimizerInv => BlocksInOrder
  BY DEF OptimizerInv, BlocksInOrder, CutSoFar, Closing
<1> QED
  BY <1>1, OptimizerInvAlways, PTL

(* No assertion of compute_partition about the gains ever fails.             *)
THEOREM GainStaysBetweenBest == OptimizerSpec => []GainBetweenBest
<1>1. OptimizerInv => GainBetweenBest
  BY DEF OptimizerInv
<1> QED
  BY <1>1, OptimizerInvAlways, PTL

-----------------------------------------------------------------------------
(* What blocks cost.  Costs are counted from what the list would take in one *)
(* go in the codes of Encoder, without any block: a bit vector then takes    *)
(* its block less what its postings gain, and codes only their block.        *)

BlockTypes == {"bitvector", "encoder"}

CostsOf(type) ==
  [k \in 1 .. N |-> IF type = "bitvector" THEN BitvectorCost(gaps[k]) ELSE EncoderCost(gaps[k])]

Total(type, n) == SumFunctionOnSet(CostsOf(type), 1 .. n)

Saved(n) == Total("encoder", n) - Total("bitvector", n)

LEMMA CostsAreNat ==
  ASSUME OptimizerTypeOK, NEW type
  PROVE  \A k \in 1 .. N : CostsOf(type)[k] \in Nat
<1>1. ASSUME NEW k \in 1 .. N  PROVE gaps[k] \in Nat /\ EncoderCost(gaps[k]) \in Nat
  <2>1. gaps[k] \in Gaps \cup {0}
    BY DEF OptimizerTypeOK, N
  <2>2. Gaps \subseteq Nat /\ 0 \in Nat
    BY CostAssumption, Zenon DEF CostAssumption
  <2>3. EncoderCost(gaps[k]) \in Nat
    BY <2>1, CostAssumption, Zenon DEF CostAssumption
  <2> QED  BY <2>1, <2>2, <2>3, Zenon
<1> QED  BY <1>1 DEF CostsOf, BitvectorCost

(* Sums from the beginning, and over what lies between two positions.        *)
SummedUp(f, n) ==
  /\ SumFunctionOnSet(f, 1 .. 0) = 0
  /\ \A k \in 0 .. n : SumFunctionOnSet(f, 1 .. k) \in Nat
  /\ \A k \in 0 .. n - 1 :
       SumFunctionOnSet(f, 1 .. k + 1) = SumFunctionOnSet(f, 1 .. k) + f[k + 1]
  /\ \A b \in 0 .. n, e \in 0 .. n : b < e =>
       /\ SumFunctionOnSet(f, b + 1 .. e) \in Nat
       /\ SumFunctionOnSet(f, 1 .. e)
            = SumFunctionOnSet(f, 1 .. b) + SumFunctionOnSet(f, b + 1 .. e)

LEMMA SumsFromOne ==
  ASSUME NEW n \in Nat, NEW f, \A k \in 1 .. n : f[k] \in Nat
  PROVE  SummedUp(f, n)
<1> DEFINE S == 1 .. n
           F(s) == SumFunctionOnSet(f, s)
<1>1. IsFiniteSet(S)
  BY FS_Interval
<1>2. /\ F({}) = 0
      /\ \A s \in SUBSET S : F(s) \in Nat
      /\ \A s \in SUBSET S : \A x \in s : F(s) = f[x] + F(s \ {x})
  <2> HIDE DEF S
  <2>1. \A x \in S : f[x] \in Nat
    BY DEF S
  <2> QED  BY <1>1, <2>1, SumFacts
<1>3. ASSUME NEW A \in SUBSET S, NEW B \in SUBSET S, A \cap B = {}
      PROVE  F(A \cup B) = F(A) + F(B)
  <2> HIDE DEF S
  <2>1. \A x \in S : f[x] \in Nat
    BY DEF S
  <2> QED  BY <1>1, <1>3, <2>1, SumOfUnion
<1> HIDE DEF F
<1>4. F(1 .. 0) = 0
  <2>1. 1 .. 0 = {}
    OBVIOUS
  <2> QED  BY <1>2, <2>1
<1>5. ASSUME NEW k \in 0 .. n  PROVE F(1 .. k) \in Nat
  <2>1. 1 .. k \in SUBSET S
    OBVIOUS
  <2> HIDE DEF S
  <2> QED  BY <1>2, <2>1
<1>6. ASSUME NEW k \in 0 .. n - 1  PROVE F(1 .. k + 1) = F(1 .. k) + f[k + 1]
  <2> DEFINE A == 1 .. k + 1
             B == 1 .. k
  <2>1. A \in SUBSET S /\ k + 1 \in A /\ A \ {k + 1} = B
    OBVIOUS
  <2>2. F(B) \in Nat /\ f[k + 1] \in Nat
    <3>1. k \in 0 .. n /\ k + 1 \in 1 .. n
      OBVIOUS
    <3> QED  BY <1>5, <3>1
  <2> HIDE DEF A, B, S
  <2>3. F(A) = f[k + 1] + F(B)
    BY <1>2, <2>1
  <2> QED  BY <2>2, <2>3 DEF A, B
<1>7. ASSUME NEW b \in 0 .. n, NEW e \in 0 .. n, b < e
      PROVE  F(b + 1 .. e) \in Nat /\ F(1 .. e) = F(1 .. b) + F(b + 1 .. e)
  <2> DEFINE A == 1 .. b
             B == b + 1 .. e
  <2>1. A \in SUBSET S /\ B \in SUBSET S /\ A \cap B = {} /\ A \cup B = 1 .. e
    BY <1>7
  <2> HIDE DEF A, B, S
  <2>2. F(A \cup B) = F(A) + F(B) /\ F(B) \in Nat
    BY <1>2, <1>3, <2>1
  <2> QED  BY <2>1, <2>2 DEF A, B
<1> QED  BY <1>4, <1>5, <1>6, <1>7 DEF F, SummedUp

LEMMA TotalFacts ==
  ASSUME OptimizerTypeOK, NEW type
  PROVE  /\ Total(type, 0) = 0
         /\ \A k \in 0 .. N : Total(type, k) \in Nat
         /\ \A k \in 0 .. N - 1 : Total(type, k + 1) = Total(type, k) + CostsOf(type)[k + 1]
         /\ \A b \in 0 .. N, e \in 0 .. N : b < e =>
              /\ BlockCost(type, b, e) \in Nat
              /\ BlockCost(type, b, e) = FixCost + Total(type, e) - Total(type, b)
<1> PICK f : f = CostsOf(type)
  OBVIOUS
<1>1. N \in Nat /\ \A k \in 1 .. N : f[k] \in Nat
  BY CostsAreNat, GainFacts
<1>2. SummedUp(f, N)
  BY <1>1, SumsFromOne
<1>3. \A n : Total(type, n) = SumFunctionOnSet(f, 1 .. n)
  BY Zenon DEF Total
<1>4. \A b, e : BlockCost(type, b, e) = FixCost + SumFunctionOnSet(f, b + 1 .. e)
  BY Zenon DEF BlockCost, CostsOf
<1>5. ASSUME NEW b \in 0 .. N, NEW e \in 0 .. N, b < e
      PROVE  /\ BlockCost(type, b, e) \in Nat
             /\ BlockCost(type, b, e) = FixCost + Total(type, e) - Total(type, b)
  <2>1. PICK x \in Nat : x = SumFunctionOnSet(f, b + 1 .. e)
    BY <1>2, <1>5 DEF SummedUp
  <2>2. Total(type, e) = Total(type, b) + x /\ Total(type, b) \in Nat
    BY <1>2, <1>3, <1>5, <2>1 DEF SummedUp
  <2>3. BlockCost(type, b, e) = FixCost + x
    BY <1>4, <2>1
  <2> QED  BY <2>2, <2>3, FixCostIsNat
<1>6. ASSUME NEW k \in 0 .. N - 1
      PROVE  Total(type, k + 1) = Total(type, k) + CostsOf(type)[k + 1]
  BY <1>2, <1>3 DEF SummedUp
<1> QED  BY <1>2, <1>3, <1>5, <1>6 DEF SummedUp

(* What a posting saves is its gain.                                         *)
LEMMA SavedFacts ==
  ASSUME OptimizerTypeOK
  PROVE  /\ Saved(0) = 0
         /\ \A k \in 0 .. N : Saved(k) \in Int
         /\ \A k \in 0 .. N - 1 : Saved(k + 1) = Saved(k) + Gain(gaps[k + 1])
<1>1. N \in Nat
  BY GainFacts
<1>2. \A k \in 0 .. N - 1 : k \in 0 .. N /\ k + 1 \in 1 .. N /\ k + 1 \in 0 .. N
  BY <1>1
<1>3. ASSUME NEW k \in 0 .. N - 1  PROVE Saved(k + 1) = Saved(k) + Gain(gaps[k + 1])
  <2>1. /\ CostsOf("encoder")[k + 1] = EncoderCost(gaps[k + 1])
        /\ CostsOf("bitvector")[k + 1] = BitvectorCost(gaps[k + 1])
    BY <1>2 DEF CostsOf
  <2>2. CostsOf("encoder")[k + 1] \in Nat /\ CostsOf("bitvector")[k + 1] \in Nat
    BY <1>2, CostsAreNat
  <2>3. /\ Total("encoder", k + 1) = Total("encoder", k) + CostsOf("encoder")[k + 1]
        /\ Total("bitvector", k + 1) = Total("bitvector", k) + CostsOf("bitvector")[k + 1]
        /\ Total("encoder", k) \in Nat /\ Total("bitvector", k) \in Nat
    BY <1>2, TotalFacts
  <2> QED  BY <2>1, <2>2, <2>3 DEF Saved, Gain
<1>4. Total("encoder", 0) = 0 /\ Total("bitvector", 0) = 0
  BY TotalFacts
<1>5. \A k \in 0 .. N : Total("encoder", k) \in Nat /\ Total("bitvector", k) \in Nat
  BY TotalFacts
<1> QED  BY <1>3, <1>4, <1>5 DEF Saved

-----------------------------------------------------------------------------
(* The cost of the best cut.  A function that a block never raises by more   *)
(* than it costs is below what every cut costs.                              *)

Row(f, end) ==
  IF end = 0 THEN <<0>> ELSE Append(f[end - 1], LeastOf(CostsTo(f[end - 1], end)))

IsTable(f, n) == f = [end \in 0 .. n |-> Row(f, end)]

LEMMA TableExists ==
  ASSUME NEW n \in Nat
  PROVE  \E f : IsTable(f, n)
<1> DEFINE Good == {k \in Nat : \E f : IsTable(f, k)}
<1>1. 0 \in Good
  <2> DEFINE f == [end \in 0 .. 0 |-> <<0>>]
  <2>1. \A end \in 0 .. 0 : Row(f, end) = <<0>>
    BY DEF Row
  <2>2. f = [end \in 0 .. 0 |-> Row(f, end)]
    BY <2>1
  <2>3. IsTable(f, 0)
    BY <2>2, Zenon DEF IsTable
  <2> QED  BY <2>3
<1>2. ASSUME NEW k \in Nat, k \in Good  PROVE k + 1 \in Good
  <2>1. PICK f : IsTable(f, k)
    BY <1>2
  <2> DEFINE g == [end \in 0 .. k + 1 |-> Row(f, end)]
  <2>2. ASSUME NEW end \in 0 .. k  PROVE g[end] = f[end]
    <3>1. f = [e \in 0 .. k |-> Row(f, e)]
      BY <2>1, Zenon DEF IsTable
    <3>2. f[end] = Row(f, end)
      BY <3>1, Zenon
    <3>3. end \in 0 .. k + 1
      OBVIOUS
    <3> QED  BY <3>2, <3>3, Zenon
  <2>3. ASSUME NEW end \in 0 .. k + 1  PROVE Row(f, end) = Row(g, end)
    <3>1. CASE end = 0
      BY <3>1, Zenon DEF Row
    <3>2. CASE end # 0
      <4>1. end - 1 \in 0 .. k
        BY <3>2
      <4>2. g[end - 1] = f[end - 1]
        BY <2>2, <4>1, Zenon
      <4> HIDE DEF g
      <4> QED  BY <3>2, <4>2, Zenon DEF Row
    <3> QED  BY <3>1, <3>2
  <2>4. g = [end \in 0 .. k + 1 |-> Row(g, end)]
    <3>1. [end \in 0 .. k + 1 |-> Row(f, end)] = [end \in 0 .. k + 1 |-> Row(g, end)]
      <4> HIDE DEF g
      <4> QED  BY <2>3, Zenon
    <3> QED  BY <3>1, Zenon
  <2>5. IsTable(g, k + 1)
    BY <2>4, Zenon DEF IsTable
  <2> HIDE DEF g
  <2> QED  BY <2>5
<1> HIDE DEF Good
<1>3. n \in Good
  BY <1>1, <1>2, NaturalInduction
<1> QED  BY <1>3 DEF Good

LEMMA LeastCutIsInTable ==
  ASSUME OptimizerTypeOK
  PROVE  \E f : IsTable(f, N) /\ LeastCutCost = f[N][N + 1]
<1> DEFINE chosen == CHOOSE f : f = [end \in 0 .. N |-> Row(f, end)]
<1>1. LeastCutCost = chosen[N][N + 1]
  BY Zenon DEF LeastCutCost, Row
<1>2. N \in Nat
  BY GainFacts
<1>3. \E f : f = [end \in 0 .. N |-> Row(f, end)]
  <2>1. PICK f : IsTable(f, N)
    BY <1>2, TableExists
  <2> QED  BY <2>1, Zenon DEF IsTable
<1>4. chosen = [end \in 0 .. N |-> Row(chosen, end)]
  BY <1>3, Zenon
<1> HIDE DEF chosen
<1> QED  BY <1>1, <1>4, Zenon DEF IsTable

IsBelowCuts(L) ==
  /\ L[0] <= 0
  /\ \A e \in 0 .. N : L[e] \in Int
  /\ \A b \in 0 .. N, e \in 0 .. N : \A type \in BlockTypes :
       b < e => L[e] <= L[b] + BlockCost(type, b, e)

IsAbove(s, L, n) == s \in Seq(Nat) /\ Len(s) = n + 1 /\ \A j \in 0 .. n : L[j] <= s[j + 1]

LEMMA LeastOfNaturals ==
  ASSUME NEW S \in SUBSET Nat, S # {}
  PROVE  LeastOf(S) \in S
<1>1. \E x \in S : \A y \in S : x <= y
  BY LeastNatural
<1> QED  BY <1>1, Zenon DEF LeastOf

LEMMA RowIsAbove ==
  ASSUME OptimizerTypeOK, NEW L, IsBelowCuts(L),
         NEW n \in 0 .. N - 1, NEW s, IsAbove(s, L, n)
  PROVE  IsAbove(Append(s, LeastOf(CostsTo(s, n + 1))), L, n + 1)
<1> DEFINE S == CostsTo(s, n + 1)
<1>1. N \in Nat /\ n \in Nat /\ n + 1 \in 0 .. N
  BY GainFacts
<1>2. ASSUME NEW c \in S
      PROVE  \E b \in 0 .. n, type \in BlockTypes : c = s[b + 1] + BlockCost(type, b, n + 1)
  <2>1. PICK b \in 0 .. (n + 1) - 1, type \in {"bitvector", "encoder"} :
          c = s[b + 1] + BlockCost(type, b, n + 1)
    BY DEF CostsTo
  <2>2. b \in 0 .. n
    BY <1>1
  <2> QED  BY <2>1, <2>2, Zenon DEF BlockTypes
<1>3. ASSUME NEW c \in S  PROVE c \in Nat /\ L[n + 1] <= c
  <2>1. PICK b \in 0 .. n, type \in BlockTypes : c = s[b + 1] + BlockCost(type, b, n + 1)
    BY <1>2
  <2>2. b \in 0 .. N /\ b < n + 1 /\ b + 1 \in 1 .. n + 1
    BY <1>1
  <2>3. BlockCost(type, b, n + 1) \in Nat
    BY <1>1, <2>2, TotalFacts
  <2>4. s[b + 1] \in Nat /\ L[b] <= s[b + 1]
    BY <1>1, <2>2 DEF IsAbove
  <2>5. L[n + 1] <= L[b] + BlockCost(type, b, n + 1) /\ L[b] \in Int /\ L[n + 1] \in Int
    BY <1>1, <2>2 DEF IsBelowCuts
  <2> QED  BY <2>1, <2>3, <2>4, <2>5
<1>4. S # {}
  <2>1. 0 \in 0 .. (n + 1) - 1 /\ "encoder" \in {"bitvector", "encoder"}
    BY <1>1
  <2>2. s[0 + 1] + BlockCost("encoder", 0, n + 1) \in S
    BY <2>1 DEF CostsTo
  <2> QED  BY <2>2
<1> HIDE DEF S
<1>5. PICK x : x = LeastOf(S)
  OBVIOUS
<1>6. x \in Nat /\ L[n + 1] <= x
  <2>1. LeastOf(S) \in S
    BY <1>3, <1>4, LeastOfNaturals
  <2> QED  BY <1>3, <1>5, <2>1
<1>7. /\ s \in Seq(Nat) /\ Len(s) = n + 1
      /\ \A j \in 0 .. n : L[j] <= s[j + 1]
  BY DEF IsAbove
<1>8. IsAbove(Append(s, x), L, n + 1)
  <2>1. /\ Append(s, x) \in Seq(Nat) /\ Len(Append(s, x)) = Len(s) + 1
        /\ \A k \in 1 .. Len(s) : Append(s, x)[k] = s[k]
        /\ Append(s, x)[Len(s) + 1] = x
    <3>1. s \in Seq(Nat) /\ x \in Nat
      BY <1>6, <1>7
    <3> QED  BY <3>1, AppendProperties
  <2> DEFINE t == Append(s, x)
  <2> HIDE DEF t
  <2>2. /\ t \in Seq(Nat) /\ Len(t) = Len(s) + 1 /\ t[Len(s) + 1] = x
        /\ \A k \in 1 .. Len(s) : t[k] = s[k]
    BY <2>1 DEF t
  <2>3. ASSUME NEW j \in 0 .. n + 1  PROVE L[j] <= t[j + 1]
    <3>1. CASE j = n + 1
      BY <1>6, <1>7, <2>2, <3>1
    <3>2. CASE j \in 0 .. n
      <4>1. j + 1 \in 1 .. Len(s)
        BY <1>1, <1>7, <3>2
      <4> QED  BY <1>7, <2>2, <3>2, <4>1
    <3> QED  BY <1>1, <3>1, <3>2
  <2>4. Len(t) = (n + 1) + 1
    BY <1>1, <1>7, <2>2
  <2>5. IsAbove(t, L, n + 1)
    BY <2>2, <2>3, <2>4 DEF IsAbove
  <2> QED  BY <2>5 DEF t
<1> QED  BY <1>5, <1>8 DEF S

LEMMA LeastCutIsAbove ==
  ASSUME OptimizerTypeOK, NEW L, IsBelowCuts(L)
  PROVE  LeastCutCost \in Nat /\ L[N] <= LeastCutCost
<1>1. PICK f : IsTable(f, N) /\ LeastCutCost = f[N][N + 1]
  BY LeastCutIsInTable
<1> DEFINE Good == {n \in Nat : IsAbove(f[n], L, n)}
<1>2. N \in Nat /\ N > 0
  BY GainFacts
<1>3. \A n \in 0 .. N : f[n] = Row(f, n)
  BY <1>1, Zenon DEF IsTable
<1>4. 0 \in Good
  <2>1. f[0] = <<0>>
    <3>1. 0 \in 0 .. N
      BY <1>2
    <3> QED  BY <1>3, <3>1 DEF Row
  <2>2. \A j \in 0 .. 0 : L[j] <= <<0>>[j + 1]
    BY DEF IsBelowCuts
  <2>3. <<0>> \in Seq(Nat) /\ Len(<<0>>) = 0 + 1
    OBVIOUS
  <2>4. IsAbove(<<0>>, L, 0)
    BY <2>2, <2>3 DEF IsAbove
  <2> QED  BY <2>1, <2>4
<1>5. ASSUME NEW n \in 0 .. N - 1, n \in Good  PROVE n + 1 \in Good
  <2>1. n + 1 \in 0 .. N /\ n + 1 # 0 /\ (n + 1) - 1 = n /\ n + 1 \in Nat
    BY <1>2
  <2>2. f[n + 1] = Append(f[n], LeastOf(CostsTo(f[n], n + 1)))
    BY <1>3, <2>1 DEF Row
  <2>3. IsAbove(f[n], L, n)
    BY <1>5
  <2>4. IsAbove(f[n + 1], L, n + 1)
    BY <2>2, <2>3, RowIsAbove
  <2> QED  BY <2>1, <2>4
<1> HIDE DEF Good
<1>6. \A n \in 0 .. N : n \in Good
  BY <1>2, <1>4, <1>5, InductionFrom
<1>7. IsAbove(f[N], L, N)
  <2>1. N \in Good
    BY <1>2, <1>6
  <2> QED  BY <2>1 DEF Good
<1>8. N \in 0 .. N /\ N + 1 \in 1 .. N + 1
  BY <1>2
<1> QED  BY <1>1, <1>2, <1>7, <1>8 DEF IsAbove

(* bvs[k] and ens[k] are at most what the first k postings cost, if a bit    *)
(* vector or codes are open after them: one goes on, or another block begins. *)
GoesOn(bvs, ens, k) ==
  /\ bvs[k + 1] <= bvs[k] - Gain(gaps[k + 1])
  /\ bvs[k + 1] <= ens[k] + FixCost - Gain(gaps[k + 1])
  /\ ens[k + 1] <= ens[k]
  /\ ens[k + 1] <= bvs[k] + FixCost

IsChain(bvs, ens, n) ==
  /\ \A k \in 0 .. n : bvs[k] \in Int /\ ens[k] \in Int
  /\ bvs[0] <= FixCost /\ ens[0] <= FixCost
  /\ \A k \in 0 .. n - 1 : GoesOn(bvs, ens, k)

Lower(x, y) == IF x <= y THEN x ELSE y

Floor(bvs, ens) ==
  [n \in 0 .. N |-> IF n = 0 THEN 0 ELSE Total("encoder", n) + Lower(bvs[n], ens[n])]

(* While one block goes on.                                                  *)
LEMMA ChainInBlock ==
  ASSUME OptimizerTypeOK, NEW bvs, NEW ens, IsChain(bvs, ens, N),
         NEW b \in 1 .. N, NEW e \in 1 .. N, b <= e
  PROVE  bvs[e] <= bvs[b] - (Saved(e) - Saved(b)) /\ ens[e] <= ens[b]
<1> DEFINE Good == {k \in Nat : bvs[k] <= bvs[b] - (Saved(k) - Saved(b)) /\ ens[k] <= ens[b]}
<1>1. N \in Nat /\ b \in Nat /\ \A k \in b .. e : k \in 0 .. N /\ k \in Nat
  BY GainFacts
<1>2. /\ \A k \in 0 .. N : bvs[k] \in Int /\ ens[k] \in Int
      /\ \A k \in 0 .. N - 1 : GoesOn(bvs, ens, k)
  BY DEF IsChain
<1>3. b \in Good
  <2>1. bvs[b] \in Int /\ ens[b] \in Int /\ Saved(b) \in Int
    BY <1>1, <1>2, SavedFacts
  <2>2. bvs[b] <= bvs[b] - (Saved(b) - Saved(b)) /\ ens[b] <= ens[b]
    BY <2>1
  <2> QED  BY <1>1, <2>2
<1>4. ASSUME NEW k \in b .. e - 1, k \in Good  PROVE k + 1 \in Good
  <2>1. k \in 0 .. N - 1 /\ k \in 0 .. N /\ k + 1 \in 0 .. N /\ k + 1 \in Nat /\ k + 1 \in 1 .. N
    BY <1>1
  <2>2. /\ Saved(k + 1) = Saved(k) + Gain(gaps[k + 1])
        /\ Saved(k) \in Int /\ Saved(b) \in Int /\ Gain(gaps[k + 1]) \in Int
    BY <1>1, <2>1, SavedFacts, GainFacts
  <2>3. /\ bvs[k + 1] <= bvs[k] - Gain(gaps[k + 1]) /\ ens[k + 1] <= ens[k]
        /\ bvs[k] \in Int /\ ens[k] \in Int /\ bvs[k + 1] \in Int /\ ens[k + 1] \in Int
        /\ bvs[b] \in Int /\ ens[b] \in Int
    BY <1>2, <2>1 DEF GoesOn
  <2>4. bvs[k] <= bvs[b] - (Saved(k) - Saved(b)) /\ ens[k] <= ens[b]
    BY <1>4
  <2>5. bvs[k + 1] <= bvs[b] - (Saved(k + 1) - Saved(b)) /\ ens[k + 1] <= ens[b]
    BY <2>2, <2>3, <2>4
  <2> QED  BY <2>1, <2>5
<1> HIDE DEF Good
<1>5. \A k \in b .. e : k \in Good
  BY <1>1, <1>3, <1>4, InductionFrom
<1>6. e \in Good
  BY <1>1, <1>5
<1> QED  BY <1>6 DEF Good

LEMMA FloorIsBelowCuts ==
  ASSUME OptimizerTypeOK, NEW bvs, NEW ens, IsChain(bvs, ens, N)
  PROVE  IsBelowCuts(Floor(bvs, ens))
<1> PICK f : f = Floor(bvs, ens)
  OBVIOUS
<1>1. /\ N \in Nat /\ FixCost \in Nat
      /\ \A k \in 0 .. N : Saved(k) \in Int
      /\ \A k \in 0 .. N : Total("encoder", k) \in Nat /\ Total("bitvector", k) \in Nat
  BY GainFacts, FixCostIsNat, SavedFacts, TotalFacts
<1>2. /\ \A k \in 0 .. N : bvs[k] \in Int /\ ens[k] \in Int
      /\ bvs[0] <= FixCost /\ ens[0] <= FixCost
      /\ \A k \in 0 .. N - 1 : GoesOn(bvs, ens, k)
  BY DEF IsChain
<1>3. \A k \in 0 .. N :
        f[k] = IF k = 0 THEN 0 ELSE Total("encoder", k) + Lower(bvs[k], ens[k])
  BY DEF Floor
<1>4. f[0] = 0
  BY <1>1, <1>3
<1>5. ASSUME NEW k \in 0 .. N  PROVE f[k] \in Int
  BY <1>1, <1>2, <1>3 DEF Lower
<1>6. ASSUME NEW b \in 0 .. N, NEW e \in 0 .. N, NEW type \in BlockTypes, b < e
      PROVE  f[e] <= f[b] + BlockCost(type, b, e)
  <2>1. b + 1 \in 1 .. N /\ e \in 1 .. N /\ b + 1 <= e /\ b \in 0 .. N - 1 /\ b + 1 \in 0 .. N
    BY <1>1, <1>6
  <2>2. BlockCost(type, b, e) = FixCost + Total(type, e) - Total(type, b)
    BY <1>6, TotalFacts
  <2>3. PICK g \in Int : g = Gain(gaps[b + 1]) /\ Saved(b + 1) = Saved(b) + g
    BY <2>1, SavedFacts, GainFacts
  <2>4. /\ bvs[e] <= bvs[b + 1] - (Saved(e) - Saved(b + 1))
        /\ ens[e] <= ens[b + 1]
    BY <2>1, ChainInBlock
  <2>5. /\ bvs[b + 1] <= bvs[b] - g /\ bvs[b + 1] <= ens[b] + FixCost - g
        /\ ens[b + 1] <= ens[b] /\ ens[b + 1] <= bvs[b] + FixCost
    BY <1>2, <2>1, <2>3 DEF GoesOn
  <2>6. PICK d \in Int : /\ f[b] = Total("encoder", b) + d
                         /\ bvs[b + 1] <= d + FixCost - g
                         /\ ens[b + 1] <= d + FixCost
    <3>1. /\ bvs[b] \in Int /\ ens[b] \in Int /\ bvs[b + 1] \in Int /\ ens[b + 1] \in Int
      BY <1>2, <2>1
    <3>2. CASE b = 0
      <4>1. f[b] = Total("encoder", b) + 0
        BY <1>4, <3>2, TotalFacts
      <4>2. bvs[b] <= FixCost /\ ens[b] <= FixCost
        BY <1>2, <3>2
      <4>3. bvs[b + 1] <= 0 + FixCost - g /\ ens[b + 1] <= 0 + FixCost
        BY <1>1, <2>5, <3>1, <4>2
      <4> QED  BY <4>1, <4>3
    <3>3. CASE b # 0
      <4>1. PICK d \in Int : d = Lower(bvs[b], ens[b])
        BY <3>1 DEF Lower
      <4>2. f[b] = Total("encoder", b) + d
        BY <1>3, <3>3, <4>1
      <4>3. d = bvs[b] \/ d = ens[b]
        BY <4>1 DEF Lower
      <4>4. bvs[b + 1] <= d + FixCost - g /\ ens[b + 1] <= d + FixCost
        BY <1>1, <2>5, <3>1, <4>3
      <4> QED  BY <4>2, <4>4
    <3> QED  BY <3>2, <3>3
  <2>7. f[e] <= Total("encoder", e) + bvs[e] /\ f[e] <= Total("encoder", e) + ens[e]
    <3>1. f[e] = Total("encoder", e) + Lower(bvs[e], ens[e])
      BY <1>3, <2>1
    <3>2. bvs[e] \in Int /\ ens[e] \in Int /\ Total("encoder", e) \in Nat
      BY <1>1, <1>2
    <3> QED  BY <3>1, <3>2 DEF Lower
  <2>8. /\ bvs[e] \in Int /\ ens[e] \in Int /\ bvs[b + 1] \in Int /\ ens[b + 1] \in Int
        /\ f[e] \in Int /\ f[b] \in Int
    BY <1>2, <1>5, <2>1
  <2>9. /\ Total("encoder", e) \in Nat /\ Total("encoder", b) \in Nat
        /\ Total("bitvector", e) \in Nat /\ Total("bitvector", b) \in Nat
    BY <1>1
  <2>10. CASE type = "bitvector"
    <3>1. bvs[e] <= d + FixCost - (Saved(e) - Saved(b))
      <4>1. Saved(e) \in Int /\ Saved(b) \in Int /\ Saved(b + 1) \in Int
        BY <1>1, <2>1
      <4> QED  BY <1>1, <2>3, <2>4, <2>6, <2>8, <4>1
    <3>2. /\ Saved(e) = Total("encoder", e) - Total("bitvector", e)
          /\ Saved(b) = Total("encoder", b) - Total("bitvector", b)
      BY DEF Saved
    <3> QED  BY <1>1, <2>2, <2>6, <2>7, <2>8, <2>9, <2>10, <3>1, <3>2
  <2>11. CASE type = "encoder"
    BY <1>1, <2>2, <2>4, <2>6, <2>7, <2>8, <2>9, <2>11
  <2> QED  BY <2>10, <2>11 DEF BlockTypes
<1>7. IsBelowCuts(f)
  BY <1>4, <1>5, <1>6 DEF IsBelowCuts
<1> QED  BY <1>7

-----------------------------------------------------------------------------
(* What the blocks cost so far.                                              *)

LEMMA SameSums ==
  ASSUME NEW n \in Nat, NEW f, NEW h,
         \A k \in 1 .. n : f[k] \in Nat /\ h[k] = f[k]
  PROVE  SumFunctionOnSet(h, 1 .. n) = SumFunctionOnSet(f, 1 .. n)
<1> DEFINE F(k) == SumFunctionOnSet(f, 1 .. k)
           H(k) == SumFunctionOnSet(h, 1 .. k)
           Good == {k \in Nat : H(k) = F(k)}
<1>1. SummedUp(f, n) /\ SummedUp(h, n)
  BY SumsFromOne
<1>2. /\ F(0) = 0 /\ H(0) = 0
      /\ \A k \in 0 .. n - 1 : F(k + 1) = F(k) + f[k + 1] /\ H(k + 1) = H(k) + h[k + 1]
  BY <1>1 DEF SummedUp
<1> HIDE DEF F, H
<1>3. 0 \in Good
  BY <1>2
<1>4. ASSUME NEW k \in 0 .. n - 1, k \in Good  PROVE k + 1 \in Good
  <2>1. k + 1 \in Nat /\ h[k + 1] = f[k + 1]
    OBVIOUS
  <2>2. H(k + 1) = F(k + 1)
    BY <1>2, <1>4, <2>1
  <2> QED  BY <2>1, <2>2
<1> HIDE DEF Good
<1>5. n \in Good
  <2>1. \A k \in 0 .. n : k \in Good
    BY <1>3, <1>4, InductionFrom
  <2> QED  BY <2>1
<1> QED  BY <1>5 DEF Good, F, H

CostOfBlock(k) == BlockCost(blocks[k].type, EndOf(k - 1), EndOf(k))

CostsOfBlocks == [k \in 1 .. Len(blocks) |-> CostOfBlock(k)]

LEMMA CutCostIsSum == CutCost = SumFunctionOnSet(CostsOfBlocks, 1 .. Len(blocks))
BY DEF CutCost, CostsOfBlocks, CostOfBlock, SumFunction, SumFunctionOnSet, FoldFunction

LEMMA BlocksCost ==
  ASSUME OptimizerTypeOK, CutSoFar
  PROVE  /\ CutCost \in Nat
         /\ blocks = <<>> => CutCost = 0
         /\ \A k \in 1 .. Len(blocks) : CostsOfBlocks[k] \in Nat
<1>1. Len(blocks) \in Nat /\ N \in Nat
  BY GainFacts DEF OptimizerTypeOK
<1>2. ASSUME NEW k \in 1 .. Len(blocks)  PROVE CostsOfBlocks[k] \in Nat
  <2>1. EndOf(k - 1) \in 0 .. N /\ EndOf(k) \in 0 .. N /\ EndOf(k - 1) < EndOf(k)
    <3>1. EndOf(k - 1) < EndOf(k) /\ EndOf(k) <= N
      BY DEF CutSoFar
    <3>2. \A j \in 0 .. Len(blocks) : EndOf(j) \in Nat
      <4>1. \A j \in 1 .. Len(blocks) : blocks[j] \in Blocks
        BY DEF OptimizerTypeOK
      <4> QED  BY <1>1, <4>1 DEF EndOf, Blocks
    <3>3. k - 1 \in 0 .. Len(blocks) /\ k \in 0 .. Len(blocks)
      BY <1>1
    <3> QED  BY <1>1, <3>1, <3>2, <3>3
  <2>2. \A type : BlockCost(type, EndOf(k - 1), EndOf(k)) \in Nat
    BY <2>1, TotalFacts
  <2> QED  BY <2>2 DEF CostsOfBlocks, CostOfBlock
<1>3. SummedUp(CostsOfBlocks, Len(blocks))
  BY <1>1, <1>2, SumsFromOne
<1>4. CutCost \in Nat
  BY <1>1, <1>3, CutCostIsSum DEF SummedUp
<1>5. ASSUME blocks = <<>>  PROVE CutCost = 0
  <2>1. Len(blocks) = 0
    BY <1>5
  <2> QED  BY <1>3, <2>1, CutCostIsSum DEF SummedUp
<1> QED  BY <1>2, <1>4, <1>5

(* A block more.                                                             *)
LEMMA PushBlockCosts ==
  ASSUME OptimizerTypeOK, CutSoFar, gaps' = gaps,
         NEW type \in {"bitvector", "encoder"}, NEW end \in Nat,
         curr_begin < end, end <= N, PushBlock(type, end)
  PROVE  /\ CutCost \in Nat /\ CutCost' \in Nat
         /\ CutCost' = CutCost + FixCost + (Total(type, end) - Total(type, curr_begin))
<1>0. PICK n \in Nat : n = Len(blocks)
  BY DEF OptimizerTypeOK
<1>1. n = Len(blocks) /\ N \in Nat /\ N' = N
  BY <1>0, GainFacts DEF N
<1>2. /\ Len(blocks') = n + 1
      /\ \A k \in 1 .. n : blocks'[k] = blocks[k]
      /\ blocks'[n + 1] = [type |-> type, end |-> end]
  BY <1>1 DEF PushBlock, OptimizerTypeOK
<1>3. \A k \in 0 .. n : EndOf(k)' = EndOf(k)
  BY <1>2 DEF EndOf
<1>4. EndOf(n + 1)' = end /\ EndOf(n) = curr_begin
  <2>1. EndOf(n + 1)' = end
    <3>1. n + 1 # 0
      BY <1>1
    <3> QED  BY <1>2, <3>1 DEF EndOf
  <2> QED  BY <1>1, <2>1 DEF CutSoFar
<1>5. \A t, b, e : BlockCost(t, b, e)' = BlockCost(t, b, e)
  BY <1>1, Zenon DEF BlockCost
<1>6. ASSUME NEW k \in 1 .. n  PROVE CostsOfBlocks'[k] = CostsOfBlocks[k]
  <2>1. k - 1 \in 0 .. n /\ k \in 0 .. n /\ k \in 1 .. Len(blocks')
    BY <1>1, <1>2
  <2>2. CostsOfBlocks'[k] = CostOfBlock(k)' /\ CostsOfBlocks[k] = CostOfBlock(k)
    BY <1>1, <2>1 DEF CostsOfBlocks
  <2>3. CostOfBlock(k)' = BlockCost(blocks'[k].type, EndOf(k - 1)', EndOf(k)')
    BY <1>5 DEF CostOfBlock
  <2> QED  BY <1>2, <1>3, <2>1, <2>2, <2>3 DEF CostOfBlock
<1>7. CostsOfBlocks'[n + 1] = BlockCost(type, curr_begin, end)
  <2>1. n + 1 \in 1 .. Len(blocks') /\ n \in 0 .. n /\ (n + 1) - 1 = n
    BY <1>1, <1>2
  <2>2. CostsOfBlocks'[n + 1] = CostOfBlock(n + 1)'
    BY <2>1 DEF CostsOfBlocks
  <2>3. CostOfBlock(n + 1)' = BlockCost(blocks'[n + 1].type, EndOf(n)', EndOf(n + 1)')
    BY <1>5, <2>1 DEF CostOfBlock
  <2>4. blocks'[n + 1].type = type /\ EndOf(n)' = curr_begin
    BY <1>2, <1>3, <1>4, <2>1
  <2> QED  BY <1>4, <2>2, <2>3, <2>4
<1>8. curr_begin \in 0 .. N /\ end \in 0 .. N
  BY <1>1 DEF OptimizerTypeOK
<1>9. /\ BlockCost(type, curr_begin, end) \in Nat
      /\ BlockCost(type, curr_begin, end) = FixCost + Total(type, end) - Total(type, curr_begin)
      /\ Total(type, end) \in Nat /\ Total(type, curr_begin) \in Nat
  BY <1>8, TotalFacts
<1>10. CutCost \in Nat /\ \A k \in 1 .. n : CostsOfBlocks[k] \in Nat
  BY <1>1, BlocksCost
<1>11. CutCost' = CutCost + BlockCost(type, curr_begin, end)
  <2> DEFINE f == CostsOfBlocks
             h == CostsOfBlocks'
  <2>1. CutCost = SumFunctionOnSet(f, 1 .. n)
    BY <1>1, CutCostIsSum
  <2>2. CutCost' = SumFunctionOnSet(h, 1 .. n + 1)
    <3>1. (CutCost = SumFunctionOnSet(CostsOfBlocks, 1 .. Len(blocks)))'
      BY CutCostIsSum, PTL
    <3> QED  BY <1>2, <3>1
  <2> HIDE DEF f, h
  <2>3. \A k \in 1 .. n : f[k] \in Nat /\ h[k] = f[k]
    BY <1>6, <1>10 DEF f, h
  <2>4. h[n + 1] \in Nat /\ h[n + 1] = BlockCost(type, curr_begin, end)
    BY <1>7, <1>9 DEF h
  <2>5. \A k \in 1 .. n + 1 : h[k] \in Nat
    BY <1>1, <2>3, <2>4
  <2>6. SumFunctionOnSet(h, 1 .. n) = SumFunctionOnSet(f, 1 .. n)
    BY <1>1, <2>3, SameSums
  <2>7. SumFunctionOnSet(h, 1 .. n + 1) = SumFunctionOnSet(h, 1 .. n) + h[n + 1]
    <3> DEFINE m == n + 1
    <3>1. m \in Nat /\ n \in 0 .. m - 1
      BY <1>1
    <3> HIDE DEF m
    <3>2. SummedUp(h, m)
      <4>1. \A k \in 1 .. m : h[k] \in Nat
        BY <2>5 DEF m
      <4> QED  BY <3>1, <4>1, SumsFromOne
    <3> QED  BY <3>1, <3>2 DEF SummedUp
  <2> QED  BY <2>1, <2>2, <2>4, <2>6, <2>7
<1> QED  BY <1>9, <1>10, <1>11, FixCostIsNat

-----------------------------------------------------------------------------
(* How far ahead the one pass is of the cheapest cuts.                       *)

(* A chain for the first n postings that ends with x and y.                  *)
Chained(n, x, y) == \E bvs, ens : IsChain(bvs, ens, n) /\ bvs[n] = x /\ ens[n] = y

(* What gains are counted from: the beginning of the current block, but for  *)
(* the one by which curr_gain is off until there is a block.                 *)
Base == IF blocks = <<>> THEN 1 ELSE Saved(curr_begin)

(* The blocks cost K more than codes without a block would.                  *)
Within(K) == CutCost <= Total("encoder", curr_begin) + K + 1

Measured ==
  /\ best_bv_gain > 0 => best_bv_gain = Saved(curr_bv_end) - Base
  /\ best_en_gain < 0 => best_en_gain = Saved(curr_en_end) - Base

(* No block yet: two more blocks are worth it from the best gain on, one is  *)
(* from the lowest on, and the pass has not made up its mind.                *)
NoBlockYet(K, x, y) ==
  /\ T = FixCost
  /\ it = 0 => K = -1 /\ x = FixCost /\ y = FixCost
  /\ it > 0 => /\ x = K + FixCost - curr_gain + Lower(0, FixCost + best_en_gain)
               /\ y = K + FixCost + Lower(0, FixCost - best_bv_gain)
  /\ best_bv_gain > FixCost => best_bv_gain - curr_gain <= 2 * FixCost /\ best_en_gain >= -FixCost
  /\ best_en_gain < -FixCost => curr_gain - best_en_gain <= 2 * FixCost

(* The last block is a bit vector, and the current one should be codes.      *)
AfterBitvector(K, x, y) ==
  /\ T = 2 * FixCost
  /\ best_bv_gain = 0 /\ best_en_gain < -2 * FixCost
  /\ curr_gain <= best_en_gain + 2 * FixCost
  /\ x = K - curr_gain + 2 * FixCost + best_en_gain
  /\ y = K + FixCost

AfterEncoder(K, x, y) ==
  /\ T = 2 * FixCost
  /\ best_en_gain = 0 /\ best_bv_gain > 2 * FixCost
  /\ best_bv_gain - 2 * FixCost <= curr_gain
  /\ x = K + FixCost - curr_gain
  /\ y = K + 2 * FixCost - best_bv_gain

Ahead(K, x, y) == NoBlockYet(K, x, y) \/ AfterBitvector(K, x, y) \/ AfterEncoder(K, x, y)

(* What is left of it between the steps of close().                          *)
EncoderLeft(K, x, y) ==
  \/ /\ Measured /\ Ahead(K, x, y)
     /\ best_bv_gain <= FixCost \/ best_bv_gain - curr_gain <= FixCost
  \/ /\ curr_gain <= 0 /\ best_en_gain = curr_gain
     /\ K + FixCost <= x /\ K + FixCost <= y

RestLeft(K, x, y) ==
  \/ K + FixCost <= x /\ K + FixCost <= y
  \/ K + FixCost - curr_gain <= x /\ K + FixCost - curr_gain <= y /\ curr_gain > 0

Cheap(K, x, y) ==
  /\ K \in Int /\ x \in Int /\ y \in Int
  /\ Chained(it, x, y)
  /\ Within(K)
  /\ curr_gain = Saved(it) - Base
  /\ step \in {"walk", "bitvector"} => Measured /\ Ahead(K, x, y)
  /\ step = "encoder" => EncoderLeft(K, x, y)
  /\ step = "rest" => RestLeft(K, x, y)

CheapInv ==
  /\ step # "done" => \E K, x, y : Cheap(K, x, y)
  /\ CutsAtLeastCost

(* The chain takes a posting more.                                           *)
LEMMA ChainGoesOn ==
  ASSUME OptimizerTypeOK, NEW n \in 0 .. N - 1, NEW g \in Int, g = Gain(gaps[n + 1]),
         NEW x \in Int, NEW y \in Int, Chained(n, x, y), NEW u \in Int, NEW v \in Int,
         u <= x - g, u <= y + FixCost - g, v <= y, v <= x + FixCost
  PROVE  Chained(n + 1, u, v)
<1>1. PICK bvs, ens : IsChain(bvs, ens, n) /\ bvs[n] = x /\ ens[n] = y
  BY DEF Chained
<1> DEFINE p == [k \in 0 .. n + 1 |-> IF k = n + 1 THEN u ELSE bvs[k]]
           q == [k \in 0 .. n + 1 |-> IF k = n + 1 THEN v ELSE ens[k]]
<1>2. n \in Nat /\ N \in Nat
  BY GainFacts
<1>3. /\ \A k \in 0 .. n : p[k] = bvs[k] /\ q[k] = ens[k]
      /\ p[n + 1] = u /\ q[n + 1] = v
  BY <1>2
<1> HIDE DEF p, q
<1>4. ASSUME NEW k \in 0 .. n + 1  PROVE p[k] \in Int /\ q[k] \in Int
  <2>1. CASE k = n + 1
    BY <1>3, <2>1
  <2>2. CASE k \in 0 .. n
    BY <1>1, <1>3, <2>2 DEF IsChain
  <2> QED  BY <1>2, <2>1, <2>2
<1>5. p[0] <= FixCost /\ q[0] <= FixCost
  BY <1>1, <1>2, <1>3 DEF IsChain
<1>6. ASSUME NEW k \in 0 .. n  PROVE GoesOn(p, q, k)
  <2>1. CASE k = n
    <3>1. p[n] = x /\ q[n] = y /\ p[n + 1] = u /\ q[n + 1] = v
      BY <1>1, <1>2, <1>3
    <3> QED  BY <2>1, <3>1 DEF GoesOn
  <2>2. CASE k \in 0 .. n - 1
    <3>1. GoesOn(bvs, ens, k)
      BY <1>1, <2>2 DEF IsChain
    <3>2. k \in 0 .. n /\ k + 1 \in 0 .. n
      BY <1>2, <2>2
    <3>3. p[k] = bvs[k] /\ q[k] = ens[k] /\ p[k + 1] = bvs[k + 1] /\ q[k + 1] = ens[k + 1]
      BY <1>3, <3>2
    <3> QED  BY <3>1, <3>3, Zenon DEF GoesOn
  <2> QED  BY <1>2, <2>1, <2>2
<1>7. IsChain(p, q, n + 1)
  <2>1. (n + 1) - 1 = n
    BY <1>2
  <2> QED  BY <1>4, <1>5, <1>6, <2>1 DEF IsChain
<1> QED  BY <1>3, <1>7 DEF Chained

LEMMA SameList ==
  ASSUME gaps' = gaps
  PROVE  /\ N' = N
         /\ \A t, n : Total(t, n)' = Total(t, n)
         /\ \A n : Saved(n)' = Saved(n)
         /\ \A n, x, y : Chained(n, x, y)' = Chained(n, x, y)
<1>1. N' = N
  BY DEF N
<1>2. \A t : CostsOf(t)' = CostsOf(t)
  BY <1>1, Zenon DEF CostsOf
<1>3. \A t, n : Total(t, n)' = Total(t, n)
  BY <1>2, Zenon DEF Total
<1>4. \A n : Saved(n)' = Saved(n)
  BY <1>3, Zenon DEF Saved
<1>5. \A bvs, ens, k : GoesOn(bvs, ens, k)' = GoesOn(bvs, ens, k)
  BY DEF GoesOn
<1>6. \A bvs, ens, n : IsChain(bvs, ens, n)' = IsChain(bvs, ens, n)
  BY <1>5, Zenon DEF IsChain
<1>7. \A n, x, y : Chained(n, x, y)' = Chained(n, x, y)
  BY <1>6, Zenon DEF Chained
<1> QED  BY <1>1, <1>3, <1>4, <1>7

(* What a block more costs.                                                  *)
LEMMA BaseFacts ==
  ASSUME OptimizerTypeOK, CutSoFar
  PROVE  /\ curr_begin \in 0 .. N /\ Base \in Int /\ Saved(curr_begin) \in Int
         /\ Saved(curr_begin) <= Base
<1>1. N \in Nat /\ curr_begin \in Nat /\ Len(blocks) \in Nat
  BY GainFacts DEF OptimizerTypeOK
<1>2. curr_begin <= N
  BY <1>1 DEF CutSoFar, EndOf
<1>3. Saved(curr_begin) \in Int
  BY <1>1, <1>2, SavedFacts
<1>4. blocks = <<>> => curr_begin = 0 /\ Saved(0) = 0
  BY SavedFacts DEF CutSoFar, EndOf
<1> QED  BY <1>1, <1>2, <1>3, <1>4 DEF Base

LEMMA BitvectorIsWithin ==
  ASSUME OptimizerTypeOK, CutSoFar, gaps' = gaps, NEW end \in Nat,
         curr_begin < end, end <= N, PushBlock("bitvector", end),
         NEW K \in Int, Within(K), NEW L \in Int, L = K + FixCost - (Saved(end) - Base)
  PROVE  Within(L)' /\ Base' = Saved(end)
<1>1. /\ N \in Nat /\ end \in 0 .. N /\ FixCost \in Nat /\ curr_begin \in 0 .. N
      /\ Base \in Int /\ Saved(curr_begin) <= Base
  BY GainFacts, BaseFacts, FixCostIsNat
<1>2. /\ CutCost \in Nat /\ CutCost' \in Nat
      /\ CutCost' = CutCost + FixCost + (Total("bitvector", end) - Total("bitvector", curr_begin))
  BY PushBlockCosts
<1>3. /\ Total("bitvector", end) \in Nat /\ Total("bitvector", curr_begin) \in Nat
      /\ Total("encoder", end) \in Nat /\ Total("encoder", curr_begin) \in Nat
  BY <1>1, TotalFacts
<1>4. /\ Saved(end) = Total("encoder", end) - Total("bitvector", end)
      /\ Saved(curr_begin) = Total("encoder", curr_begin) - Total("bitvector", curr_begin)
  BY DEF Saved
<1>5. CutCost' <= Total("encoder", end) + L + 1
  BY <1>1, <1>2, <1>3, <1>4 DEF Within
<1>6. blocks' # <<>> /\ curr_begin' = end
  BY PushBlockKeepsTheCut
<1>7. Within(L)'
  BY <1>5, <1>6, SameList DEF Within
<1>8. Base' = Saved(end)
  BY <1>6, SameList DEF Base
<1> QED  BY <1>7, <1>8

LEMMA EncoderIsWithin ==
  ASSUME OptimizerTypeOK, CutSoFar, gaps' = gaps, NEW end \in Nat,
         curr_begin < end, end <= N, PushBlock("encoder", end),
         NEW K \in Int, Within(K), NEW L \in Int, L = K + FixCost
  PROVE  Within(L)' /\ Base' = Saved(end)
<1>1. /\ N \in Nat /\ end \in 0 .. N /\ FixCost \in Nat /\ curr_begin \in 0 .. N
  BY GainFacts, BaseFacts, FixCostIsNat
<1>2. /\ CutCost \in Nat /\ CutCost' \in Nat
      /\ CutCost' = CutCost + FixCost + (Total("encoder", end) - Total("encoder", curr_begin))
  BY PushBlockCosts
<1>3. /\ Total("encoder", end) \in Nat /\ Total("encoder", curr_begin) \in Nat
  BY <1>1, TotalFacts
<1>4. CutCost' <= Total("encoder", end) + L + 1
  BY <1>1, <1>2, <1>3 DEF Within
<1>5. blocks' # <<>> /\ curr_begin' = end
  BY PushBlockKeepsTheCut
<1>6. Within(L)'
  BY <1>4, <1>5, SameList DEF Within
<1>7. Base' = Saved(end)
  BY <1>5, SameList DEF Base
<1> QED  BY <1>6, <1>7

LEMMA SameCutCost == ASSUME gaps' = gaps, blocks' = blocks PROVE CutCost' = CutCost
<1>1. /\ \A t, b, e : BlockCost(t, b, e)' = BlockCost(t, b, e)
      /\ \A k : EndOf(k)' = EndOf(k)
  BY SameList, Zenon DEF BlockCost, EndOf
<1>2. (CutCost = SumFunctionOnSet(CostsOfBlocks, 1 .. Len(blocks)))'
  BY CutCostIsSum, PTL
<1>3. \A k : CostOfBlock(k)' = CostOfBlock(k)
  BY <1>1, Zenon DEF CostOfBlock
<1>4. CostsOfBlocks' = CostsOfBlocks
  BY <1>3, Zenon DEF CostsOfBlocks
<1> QED  BY <1>2, <1>4, CutCostIsSum

LEMMA SameBlocks ==
  ASSUME gaps' = gaps, blocks' = blocks, curr_begin' = curr_begin
  PROVE  Base' = Base /\ \A K : Within(K)' = Within(K)
BY SameList, SameCutCost DEF Base, Within

-----------------------------------------------------------------------------
(* The next posting: what it gains, and what is left to show of the state    *)
(* that it leads to.                                                         *)
LEMMA PostingIsCheap ==
  ASSUME OptimizerInv, step = "walk", it < N, Read,
         NEW K, NEW x, NEW y, Cheap(K, x, y),
         NEW g, g = Gain(gaps[it + 1]),
         NEW L \in Int, NEW u \in Int, NEW v \in Int, Within(L)',
         curr_gain' = Saved(it + 1) - Base', Measured', Ahead(L, u, v)',
         u <= x - g, u <= y + FixCost - g, v <= y, v <= x + FixCost
  PROVE  \E L2, u2, v2 : Cheap(L2, u2, v2)'
<1>1. /\ OptimizerTypeOK /\ it \in 0 .. N - 1 /\ it + 1 \in 1 .. N
      /\ x \in Int /\ y \in Int /\ Chained(it, x, y)
  <2>1. OptimizerTypeOK
    BY DEF OptimizerInv
  <2>2. N \in Nat /\ it \in 0 .. N
    BY <2>1, GainFacts DEF OptimizerTypeOK
  <2> QED  BY <2>1, <2>2 DEF Cheap
<1>2. g \in Int
  BY <1>1, GainFacts
<1>3. it' = it + 1 /\ gaps' = gaps /\ step' = "walk"
  BY DEF Read
<1>4. Chained(it + 1, u, v)
  BY <1>1, <1>2, ChainGoesOn
<1>5. \A n : Chained(n, u, v)' = Chained(n, u, v) /\ Saved(n)' = Saved(n)
  BY <1>3, SameList
<1>6. Chained(it, u, v)' /\ Saved(it)' = Saved(it + 1)
  <2>1. PICK n : n = it + 1
    OBVIOUS
  <2>2. Chained(it, u, v)' = Chained(n, u, v)' /\ Saved(it)' = Saved(n)'
    BY <1>3, <2>1, Zenon DEF Chained, IsChain, GoesOn, Saved, Total
  <2> QED  BY <1>4, <1>5, <2>1, <2>2
<1>7. Cheap(L, u, v)'
  BY <1>3, <1>6 DEF Cheap
<1> QED  BY <1>7

LEMMA PostingFacts ==
  ASSUME OptimizerInv, step = "walk", it < N, NEW K, NEW x, NEW y, Cheap(K, x, y),
         NEW g, g = Gain(gaps[it + 1])
  PROVE  /\ g \in Int /\ K \in Int /\ x \in Int /\ y \in Int
         /\ OptimizerTypeOK /\ CutSoFar /\ Signs /\ BestInside /\ GainBetweenBest
         /\ N \in Nat /\ FixCost \in Nat /\ it \in Nat
         /\ curr_gain \in Int /\ best_bv_gain \in Int /\ best_en_gain \in Int
         /\ Base \in Int /\ Saved(it) \in Int /\ Saved(it + 1) = Saved(it) + g
         /\ curr_gain = Saved(it) - Base
         /\ Chained(it, x, y) /\ Within(K) /\ Measured /\ Ahead(K, x, y)
         /\ it = 0 => g > 0
<1>1. OptimizerTypeOK /\ CutSoFar /\ Signs /\ BestInside /\ GainBetweenBest
  BY DEF OptimizerInv
<1>2. N \in Nat /\ it \in 0 .. N - 1 /\ it \in 0 .. N /\ it + 1 \in 1 .. N
  BY <1>1, GainFacts DEF OptimizerTypeOK
<1>3. g \in Int /\ (it = 0 => g > 0)
  BY <1>1, <1>2, GainFacts
<1>4. Base \in Int /\ Saved(it) \in Int /\ Saved(it + 1) = Saved(it) + g
  BY <1>1, <1>2, BaseFacts, SavedFacts
<1> QED  BY <1>1, <1>2, <1>3, <1>4, FixCostIsNat DEF Cheap, OptimizerTypeOK

LEMMA RisingIsCheap ==
  ASSUME OptimizerInv, step = "walk", it < N, Read,
         NEW gain \in Int, gain = curr_gain + Gain(gaps[it + 1]), GainRises(gain),
         NEW K, NEW x, NEW y, Cheap(K, x, y)
  PROVE  \E L, u, v : Cheap(L, u, v)'
<1> DEFINE g == Gain(gaps[it + 1])
<1>1. /\ g \in Int /\ K \in Int /\ x \in Int /\ y \in Int
      /\ OptimizerTypeOK /\ CutSoFar /\ Signs /\ BestInside /\ GainBetweenBest
      /\ N \in Nat /\ FixCost \in Nat /\ it \in Nat
      /\ curr_gain \in Int /\ best_bv_gain \in Int /\ best_en_gain \in Int
      /\ Base \in Int /\ Saved(it) \in Int /\ Saved(it + 1) = Saved(it) + g
      /\ curr_gain = Saved(it) - Base
      /\ Within(K) /\ Measured /\ Ahead(K, x, y)
      /\ it = 0 => g > 0
  BY PostingFacts
<1> HIDE DEF g
<1>2. gain = curr_gain + g /\ gain >= last_gain
  BY DEF g, GainRises
<1>3. it' = it + 1 /\ gaps' = gaps
  BY DEF Read
<1>4. it > 0 => g >= 0 /\ last_gain = curr_gain
  BY <1>1, <1>2 DEF Signs
<1>5. \A n : Saved(n)' = Saved(n)
  BY <1>3, SameList
<1>6. T \in Nat /\ (WorthBlock(-best_en_gain, -gain, T, 2 * FixCost) <=>
                     best_en_gain < -T /\ gain - best_en_gain > 2 * FixCost)
  <2>1. T \in Nat /\ T \in Int /\ 2 * FixCost \in Int
    BY <1>1 DEF OptimizerTypeOK
  <2>2. best_en_gain \in Int
    BY <1>1
  <2> QED  BY <2>1, <2>2 DEF WorthBlock
<1>7. CASE WorthBlock(-best_en_gain, -gain, T, 2 * FixCost)
  <2>1. EncodeWithEnc(gain, best_en_gain, curr_en_end, it + 1)
    BY <1>7 DEF GainRises
  <2>2. best_en_gain < -T /\ gain - best_en_gain > 2 * FixCost /\ T \in Nat
    BY <1>6, <1>7
  <2>3. curr_begin < curr_en_end /\ curr_en_end <= N /\ curr_en_end \in Nat
    BY <1>1, <2>2 DEF BestInside, OptimizerTypeOK
  <2>4. /\ PushBlock("encoder", curr_en_end)
        /\ curr_en_end' = curr_en_end /\ curr_gain' = gain - best_en_gain
        /\ best_en_gain' = 0 /\ best_bv_gain' = gain - best_en_gain
        /\ curr_bv_end' = it + 1 /\ T' = 2 * FixCost
    BY <2>1 DEF EncodeWithEnc, PushBlock, NextThreshold
  <2>5. PICK L \in Int, u \in Int, v \in Int :
          /\ L = K + FixCost
          /\ u = L + FixCost - (gain - best_en_gain)
          /\ v = L + 2 * FixCost - (gain - best_en_gain)
    BY <1>1
  <2>6. Within(L)' /\ Base' = Saved(curr_en_end)
    <3>1. L = K + FixCost
      BY <2>5
    <3> QED  BY <1>1, <1>3, <2>3, <2>4, <3>1, EncoderIsWithin
  <2>7. best_en_gain = Saved(curr_en_end) - Base /\ Saved(curr_en_end) \in Int
    <3>1. curr_en_end \in 0 .. N
      BY <1>1, <2>3
    <3> QED  BY <1>1, <2>2, <3>1, SavedFacts DEF Measured
  <2>8. curr_gain' = Saved(it + 1) - Base'
    BY <1>1, <1>2, <2>4, <2>6, <2>7
  <2>9. Measured'
    <3>1. Saved(curr_bv_end)' = Saved(it + 1)
      BY <1>5, <2>4
    <3> QED  BY <2>4, <2>8, <3>1 DEF Measured
  <2>10. Ahead(L, u, v)'
    <3>1. AfterEncoder(L, u, v)'
      BY <1>1, <2>2, <2>4, <2>5 DEF AfterEncoder
    <3> QED  BY <3>1 DEF Ahead
  <2>11. u <= x - g /\ u <= y + FixCost - g /\ v <= y /\ v <= x + FixCost
    <3>1. it > 0
      BY <1>1, <2>2 DEF Signs
    <3>2. CASE NoBlockYet(K, x, y)
      BY <1>1, <1>2, <1>4, <2>2, <2>5, <3>1, <3>2 DEF NoBlockYet, GainBetweenBest, Lower
    <3>3. CASE AfterBitvector(K, x, y)
      BY <1>1, <1>2, <1>4, <2>2, <2>5, <3>1, <3>3 DEF AfterBitvector, GainBetweenBest
    <3>4. CASE AfterEncoder(K, x, y)
      BY <1>1, <2>2, <2>5, <3>4 DEF AfterEncoder
    <3> QED  BY <1>1, <3>2, <3>3, <3>4 DEF Ahead
  <2> QED  BY <2>6, <2>8, <2>9, <2>10, <2>11, PostingIsCheap DEF g
<1>8. CASE ~WorthBlock(-best_en_gain, -gain, T, 2 * FixCost)
  <2>1. /\ curr_gain' = gain /\ curr_begin' = curr_begin /\ T' = T /\ blocks' = blocks
        /\ best_en_gain' = best_en_gain /\ curr_en_end' = curr_en_end
        /\ IF gain > best_bv_gain THEN best_bv_gain' = gain /\ curr_bv_end' = it + 1
           ELSE best_bv_gain' = best_bv_gain /\ curr_bv_end' = curr_bv_end
    BY <1>8 DEF GainRises, GoOn
  <2>2. T \in Nat /\ (best_en_gain < -T => gain - best_en_gain <= 2 * FixCost)
    BY <1>1, <1>6, <1>8
  <2>3. Within(K)' /\ Base' = Base
    BY <1>1, <1>3, <2>1, SameBlocks
  <2>4. curr_gain' = Saved(it + 1) - Base'
    BY <1>1, <1>2, <2>1, <2>3
  <2>5. Measured'
    <3>1. Saved(curr_en_end)' = Saved(curr_en_end)
      BY <1>5, <2>1
    <3>2. Saved(curr_bv_end)' = IF gain > best_bv_gain THEN Saved(it + 1) ELSE Saved(curr_bv_end)
      BY <1>5, <2>1
    <3> QED  BY <1>1, <2>1, <2>3, <2>4, <3>1, <3>2 DEF Measured
  <2>6. ASSUME NEW u \in Int, NEW v \in Int, Ahead(K, u, v)',
               u <= x - g, u <= y + FixCost - g, v <= y, v <= x + FixCost
        PROVE  \E L, u2, v2 : Cheap(L, u2, v2)'
    BY <1>1, <2>3, <2>4, <2>5, <2>6, PostingIsCheap DEF g
  <2>7. CASE NoBlockYet(K, x, y)
    <3>1. PICK u \in Int, v \in Int :
            /\ u = K + FixCost - gain + Lower(0, FixCost + best_en_gain)
            /\ v = K + FixCost + Lower(0, FixCost - best_bv_gain')
      BY <1>1, <2>1 DEF Lower
    <3>2. NoBlockYet(K, u, v)'
      BY <1>1, <1>2, <1>3, <1>4, <2>1, <2>2, <2>7, <3>1 DEF NoBlockYet, Signs, GainBetweenBest
    <3>3. u <= x - g /\ u <= y + FixCost - g /\ v <= y /\ v <= x + FixCost
      BY <1>1, <1>2, <1>4, <2>1, <2>2, <2>7, <3>1 DEF NoBlockYet, Signs, GainBetweenBest, Lower
    <3> QED  BY <2>6, <3>2, <3>3 DEF Ahead
  <2>8. CASE AfterBitvector(K, x, y)
    <3>1. PICK u \in Int, v \in Int :
            u = K - gain + 2 * FixCost + best_en_gain /\ v = K + FixCost
      BY <1>1
    <3>2. AfterBitvector(K, u, v)'
      BY <1>1, <1>2, <1>4, <2>1, <2>2, <2>8, <3>1 DEF AfterBitvector, Signs, GainBetweenBest
    <3>3. u <= x - g /\ u <= y + FixCost - g /\ v <= y /\ v <= x + FixCost
      BY <1>1, <1>2, <1>4, <2>1, <2>2, <2>8, <3>1 DEF AfterBitvector, Signs, GainBetweenBest
    <3> QED  BY <2>6, <3>2, <3>3 DEF Ahead
  <2>9. CASE AfterEncoder(K, x, y)
    <3>1. PICK u \in Int, v \in Int :
            u = K + FixCost - gain /\ v = K + 2 * FixCost - best_bv_gain'
      BY <1>1, <2>1
    <3>2. AfterEncoder(K, u, v)'
      BY <1>1, <1>2, <1>4, <2>1, <2>2, <2>9, <3>1 DEF AfterEncoder, Signs, GainBetweenBest
    <3>3. u <= x - g /\ u <= y + FixCost - g /\ v <= y /\ v <= x + FixCost
      BY <1>1, <1>2, <1>4, <2>1, <2>2, <2>9, <3>1 DEF AfterEncoder, Signs, GainBetweenBest
    <3> QED  BY <2>6, <3>2, <3>3 DEF Ahead
  <2> QED  BY <1>1, <2>7, <2>8, <2>9 DEF Ahead
<1> QED  BY <1>7, <1>8

LEMMA FallingIsCheap ==
  ASSUME OptimizerInv, step = "walk", it < N, Read,
         NEW gain \in Int, gain = curr_gain + Gain(gaps[it + 1]), GainFalls(gain),
         NEW K, NEW x, NEW y, Cheap(K, x, y)
  PROVE  \E L, u, v : Cheap(L, u, v)'
<1> DEFINE g == Gain(gaps[it + 1])
<1>1. /\ g \in Int /\ K \in Int /\ x \in Int /\ y \in Int
      /\ OptimizerTypeOK /\ CutSoFar /\ Signs /\ BestInside /\ GainBetweenBest
      /\ N \in Nat /\ FixCost \in Nat /\ it \in Nat
      /\ curr_gain \in Int /\ best_bv_gain \in Int /\ best_en_gain \in Int
      /\ Base \in Int /\ Saved(it) \in Int /\ Saved(it + 1) = Saved(it) + g
      /\ curr_gain = Saved(it) - Base
      /\ Within(K) /\ Measured /\ Ahead(K, x, y)
      /\ it = 0 => g > 0
  BY PostingFacts
<1> HIDE DEF g
<1>2. gain = curr_gain + g /\ gain < last_gain
  BY DEF g, GainFalls
<1>3. it' = it + 1 /\ gaps' = gaps
  BY DEF Read
<1>4. it > 0 /\ g < 0
  <2>1. it > 0
    BY <1>1, <1>2 DEF Signs
  <2> QED  BY <1>1, <1>2, <2>1 DEF Signs
<1>5. \A n : Saved(n)' = Saved(n)
  BY <1>3, SameList
<1>6. T \in Nat /\ (WorthBlock(best_bv_gain, gain, T, 2 * FixCost) <=>
                     best_bv_gain > T /\ best_bv_gain - gain > 2 * FixCost)
  BY <1>1 DEF OptimizerTypeOK, WorthBlock
<1>7. CASE WorthBlock(best_bv_gain, gain, T, 2 * FixCost)
  <2>1. EncodeBitvector(gain, best_bv_gain, curr_bv_end, it + 1)
    BY <1>7 DEF GainFalls
  <2>2. best_bv_gain > T /\ best_bv_gain - gain > 2 * FixCost /\ T \in Nat
    BY <1>6, <1>7
  <2>3. curr_begin < curr_bv_end /\ curr_bv_end <= N /\ curr_bv_end \in Nat
    BY <1>1, <2>2 DEF BestInside, OptimizerTypeOK
  <2>4. /\ PushBlock("bitvector", curr_bv_end)
        /\ curr_bv_end' = curr_bv_end /\ curr_gain' = gain - best_bv_gain
        /\ best_bv_gain' = 0 /\ best_en_gain' = gain - best_bv_gain
        /\ curr_en_end' = it + 1 /\ T' = 2 * FixCost
    BY <2>1 DEF EncodeBitvector, PushBlock, NextThreshold
  <2>5. best_bv_gain = Saved(curr_bv_end) - Base /\ Saved(curr_bv_end) \in Int
    <3>1. curr_bv_end \in 0 .. N
      BY <1>1, <2>3
    <3> QED  BY <1>1, <2>2, <3>1, SavedFacts DEF Measured
  <2>6. PICK L \in Int, u \in Int, v \in Int :
          /\ L = K + FixCost - best_bv_gain
          /\ u = L + 2 * FixCost
          /\ v = L + FixCost
    BY <1>1
  <2>7. Within(L)' /\ Base' = Saved(curr_bv_end)
    <3>1. L = K + FixCost - (Saved(curr_bv_end) - Base)
      BY <2>5, <2>6
    <3> QED  BY <1>1, <1>3, <2>3, <2>4, <3>1, BitvectorIsWithin
  <2>8. curr_gain' = Saved(it + 1) - Base'
    BY <1>1, <1>2, <2>4, <2>5, <2>7
  <2>9. Measured'
    <3>1. Saved(curr_en_end)' = Saved(it + 1)
      BY <1>5, <2>4
    <3> QED  BY <2>4, <2>8, <3>1 DEF Measured
  <2>10. Ahead(L, u, v)'
    <3>1. AfterBitvector(L, u, v)'
      BY <1>1, <2>2, <2>4, <2>6 DEF AfterBitvector
    <3> QED  BY <3>1 DEF Ahead
  <2>11. u <= x - g /\ u <= y + FixCost - g /\ v <= y /\ v <= x + FixCost
    <3>1. CASE NoBlockYet(K, x, y)
      BY <1>1, <1>2, <1>4, <2>2, <2>6, <3>1 DEF NoBlockYet, GainBetweenBest, Lower
    <3>2. CASE AfterBitvector(K, x, y)
      BY <1>1, <2>2, <3>2 DEF AfterBitvector
    <3>3. CASE AfterEncoder(K, x, y)
      BY <1>1, <1>2, <1>4, <2>2, <2>6, <3>3 DEF AfterEncoder, GainBetweenBest
    <3> QED  BY <1>1, <3>1, <3>2, <3>3 DEF Ahead
  <2> QED  BY <2>7, <2>8, <2>9, <2>10, <2>11, PostingIsCheap DEF g
<1>8. CASE ~WorthBlock(best_bv_gain, gain, T, 2 * FixCost)
  <2>1. /\ curr_gain' = gain /\ curr_begin' = curr_begin /\ T' = T /\ blocks' = blocks
        /\ best_bv_gain' = best_bv_gain /\ curr_bv_end' = curr_bv_end
        /\ IF gain <= best_en_gain THEN best_en_gain' = gain /\ curr_en_end' = it + 1
           ELSE best_en_gain' = best_en_gain /\ curr_en_end' = curr_en_end
    BY <1>8 DEF GainFalls, GoOn
  <2>2. T \in Nat /\ (best_bv_gain > T => best_bv_gain - gain <= 2 * FixCost)
    BY <1>1, <1>6, <1>8
  <2>3. Within(K)' /\ Base' = Base
    BY <1>1, <1>3, <2>1, SameBlocks
  <2>4. curr_gain' = Saved(it + 1) - Base'
    BY <1>1, <1>2, <2>1, <2>3
  <2>5. Measured'
    <3>1. Saved(curr_bv_end)' = Saved(curr_bv_end)
      BY <1>5, <2>1
    <3>2. Saved(curr_en_end)' = IF gain <= best_en_gain THEN Saved(it + 1) ELSE Saved(curr_en_end)
      BY <1>5, <2>1
    <3> QED  BY <1>1, <2>1, <2>3, <2>4, <3>1, <3>2 DEF Measured
  <2>6. ASSUME NEW u \in Int, NEW v \in Int, Ahead(K, u, v)',
               u <= x - g, u <= y + FixCost - g, v <= y, v <= x + FixCost
        PROVE  \E L, u2, v2 : Cheap(L, u2, v2)'
    BY <1>1, <2>3, <2>4, <2>5, <2>6, PostingIsCheap DEF g
  <2>7. CASE NoBlockYet(K, x, y)
    <3>1. PICK u \in Int, v \in Int :
            /\ u = K + FixCost - gain + Lower(0, FixCost + best_en_gain')
            /\ v = K + FixCost + Lower(0, FixCost - best_bv_gain)
      BY <1>1, <2>1 DEF Lower
    <3>2. NoBlockYet(K, u, v)'
      BY <1>1, <1>2, <1>3, <1>4, <2>1, <2>2, <2>7, <3>1 DEF NoBlockYet, Signs, GainBetweenBest
    <3>3. u <= x - g /\ u <= y + FixCost - g /\ v <= y /\ v <= x + FixCost
      BY <1>1, <1>2, <1>4, <2>1, <2>2, <2>7, <3>1 DEF NoBlockYet, Signs, GainBetweenBest, Lower
    <3> QED  BY <2>6, <3>2, <3>3 DEF Ahead
  <2>8. CASE AfterBitvector(K, x, y)
    <3>1. PICK u \in Int, v \in Int :
            u = K - gain + 2 * FixCost + best_en_gain' /\ v = K + FixCost
      BY <1>1, <2>1
    <3>2. AfterBitvector(K, u, v)'
      BY <1>1, <1>2, <1>4, <2>1, <2>2, <2>8, <3>1 DEF AfterBitvector, Signs, GainBetweenBest
    <3>3. u <= x - g /\ u <= y + FixCost - g /\ v <= y /\ v <= x + FixCost
      BY <1>1, <1>2, <1>4, <2>1, <2>2, <2>8, <3>1 DEF AfterBitvector, Signs, GainBetweenBest
    <3> QED  BY <2>6, <3>2, <3>3 DEF Ahead
  <2>9. CASE AfterEncoder(K, x, y)
    <3>1. PICK u \in Int, v \in Int :
            u = K + FixCost - gain /\ v = K + 2 * FixCost - best_bv_gain
      BY <1>1
    <3>2. AfterEncoder(K, u, v)'
      BY <1>1, <1>2, <1>4, <2>1, <2>2, <2>9, <3>1 DEF AfterEncoder, Signs, GainBetweenBest
    <3>3. u <= x - g /\ u <= y + FixCost - g /\ v <= y /\ v <= x + FixCost
      BY <1>1, <1>2, <1>4, <2>1, <2>2, <2>9, <3>1 DEF AfterEncoder, Signs, GainBetweenBest
    <3> QED  BY <2>6, <3>2, <3>3 DEF Ahead
  <2> QED  BY <1>1, <2>7, <2>8, <2>9 DEF Ahead
<1> QED  BY <1>7, <1>8

LEMMA WalkIsCheap ==
  ASSUME OptimizerInv, Walk, \E K, x, y : Cheap(K, x, y)
  PROVE  \E L, u, v : Cheap(L, u, v)'
<1> DEFINE gain == curr_gain + Gain(gaps[it + 1])
<1>1. step = "walk" /\ it < N /\ Read /\ (GainRises(gain) \/ GainFalls(gain))
  BY DEF Walk
<1>2. PICK K, x, y : Cheap(K, x, y)
  OBVIOUS
<1>3. gain \in Int
  <2>1. Gain(gaps[it + 1]) \in Int /\ curr_gain \in Int
    BY <1>1, <1>2, PostingFacts
  <2> QED  BY <2>1
<1> HIDE DEF gain
<1>4. gain = curr_gain + Gain(gaps[it + 1])
  BY DEF gain
<1>5. CASE GainRises(gain)
  BY <1>1, <1>2, <1>3, <1>4, <1>5, RisingIsCheap
<1>6. CASE GainFalls(gain)
  BY <1>1, <1>2, <1>3, <1>4, <1>6, FallingIsCheap
<1> QED  BY <1>1, <1>5, <1>6

-----------------------------------------------------------------------------
(* At first, and the steps of close().                                       *)

LEMMA CheapAtFirst ==
  ASSUME OptimizerStart, OptimizerInv  PROVE \E K, x, y : Cheap(K, x, y)
<1>1. PICK list \in GapLists : OptimizerInit(list)
  BY DEF OptimizerStart
<1>2. /\ it = 0 /\ curr_begin = 0 /\ curr_gain = -1 /\ best_bv_gain = 0 /\ best_en_gain = 0
      /\ T = FixCost /\ blocks = <<>> /\ step = "walk"
  BY <1>1 DEF OptimizerInit
<1>3. OptimizerTypeOK /\ CutSoFar /\ FixCost \in Nat
  BY FixCostIsNat DEF OptimizerInv
<1>4. Chained(0, FixCost, FixCost)
  <2> DEFINE p == [k \in 0 .. 0 |-> FixCost]
  <2>1. p[0] = FixCost /\ \A k \in 0 .. 0 : p[k] \in Int
    BY <1>3
  <2>2. IsChain(p, p, 0)
    <3> HIDE DEF p
    <3> QED  BY <1>3, <2>1 DEF IsChain
  <2> HIDE DEF p
  <2> QED  BY <2>1, <2>2 DEF Chained
<1>5. Within(-1)
  <2>1. CutCost = 0 /\ Total("encoder", 0) = 0
    BY <1>2, <1>3, BlocksCost, TotalFacts
  <2> QED  BY <1>2, <2>1 DEF Within
<1>6. curr_gain = Saved(it) - Base
  <2>1. Saved(0) = 0
    BY <1>3, SavedFacts
  <2> QED  BY <1>2, <2>1 DEF Base
<1>7. Measured /\ Ahead(-1, FixCost, FixCost)
  BY <1>2, <1>3 DEF Measured, Ahead, NoBlockYet
<1>8. Cheap(-1, FixCost, FixCost)
  BY <1>2, <1>3, <1>4, <1>5, <1>6, <1>7 DEF Cheap
<1> QED  BY <1>8

LEMMA WalkedIsCheap ==
  ASSUME OptimizerInv, Walked, NEW K, NEW x, NEW y, Cheap(K, x, y)
  PROVE  Cheap(K, x, y)'
<1>1. /\ step = "walk" /\ it = N /\ step' = "bitvector" /\ UNCHANGED <<gaps, T, blocks>>
      /\ UNCHANGED <<it, curr_begin, curr_bv_end, curr_en_end>>
      /\ UNCHANGED <<curr_gain, last_gain, best_bv_gain, best_en_gain>>
  BY DEF Walked, positions, gains
<1>2. Within(K)' /\ Base' = Base
  BY <1>1, SameBlocks DEF Cheap
<1>3. /\ Chained(it, x, y)' /\ Saved(it)' = Saved(it)
      /\ Saved(curr_bv_end)' = Saved(curr_bv_end) /\ Saved(curr_en_end)' = Saved(curr_en_end)
  BY <1>1, SameList DEF Cheap
<1>4. Measured' /\ Ahead(K, x, y)'
  <2>1. Measured'
    BY <1>1, <1>2, <1>3 DEF Cheap, Measured
  <2>2. Ahead(K, x, y)'
    BY <1>1 DEF Cheap, Ahead, NoBlockYet, AfterBitvector, AfterEncoder
  <2> QED  BY <2>1, <2>2
<1> QED  BY <1>1, <1>2, <1>3, <1>4 DEF Cheap

(* Before a step of close().                                                 *)
LEMMA ClosingFacts ==
  ASSUME OptimizerInv, step \notin {"walk", "done"}, NEW K, NEW x, NEW y, Cheap(K, x, y)
  PROVE  /\ K \in Int /\ x \in Int /\ y \in Int
         /\ OptimizerTypeOK /\ CutSoFar /\ Signs /\ GainBetweenBest /\ Closing
         /\ N \in Nat /\ N > 0 /\ FixCost \in Nat /\ it = N /\ it > 0
         /\ curr_gain \in Int /\ best_bv_gain \in Int /\ best_en_gain \in Int
         /\ best_en_gain <= curr_gain /\ curr_gain <= best_bv_gain
         /\ Base \in Int /\ Saved(it) \in Int
         /\ curr_gain = Saved(it) - Base
         /\ Chained(it, x, y) /\ Within(K)
<1>1. OptimizerTypeOK /\ CutSoFar /\ Signs /\ GainBetweenBest /\ Closing
  BY DEF OptimizerInv
<1>2. N \in Nat /\ N > 0 /\ it = N
  BY <1>1, GainFacts DEF Closing
<1>3. Base \in Int /\ Saved(it) \in Int
  <2>1. it \in 0 .. N
    BY <1>2
  <2> QED  BY <1>1, <2>1, BaseFacts, SavedFacts
<1>4. best_en_gain <= curr_gain /\ curr_gain <= best_bv_gain
  BY <1>1, <1>2 DEF GainBetweenBest
<1> QED  BY <1>1, <1>2, <1>3, <1>4, FixCostIsNat DEF Cheap, OptimizerTypeOK

LEMMA CloseBitvectorIsCheap ==
  ASSUME OptimizerInv, CloseBitvector, NEW K, NEW x, NEW y, Cheap(K, x, y)
  PROVE  \E L, u, v : Cheap(L, u, v)'
<1>1. step = "bitvector" /\ step' = "encoder" /\ gaps' = gaps /\ it' = it
  BY DEF CloseBitvector
<1>2. /\ K \in Int /\ x \in Int /\ y \in Int
      /\ OptimizerTypeOK /\ CutSoFar /\ Signs /\ Closing
      /\ N \in Nat /\ N > 0 /\ FixCost \in Nat /\ it = N /\ it > 0
      /\ curr_gain \in Int /\ best_bv_gain \in Int /\ best_en_gain \in Int
      /\ best_en_gain <= curr_gain /\ curr_gain <= best_bv_gain
      /\ Base \in Int /\ Saved(it) \in Int
      /\ curr_gain = Saved(it) - Base
      /\ Chained(it, x, y) /\ Within(K)
  BY <1>1, ClosingFacts
<1>3. Measured /\ Ahead(K, x, y) /\ BestInside
  BY <1>1 DEF Cheap, OptimizerInv
<1>4. Chained(it, x, y)' /\ Saved(it)' = Saved(it) /\ \A n : Saved(n)' = Saved(n)
  BY <1>1, <1>2, SameList
<1>5. WorthBlock(best_bv_gain, curr_gain, FixCost, FixCost) <=>
        best_bv_gain > FixCost /\ best_bv_gain - curr_gain > FixCost
  BY DEF WorthBlock
<1>6. CASE WorthBlock(best_bv_gain, curr_gain, FixCost, FixCost)
  <2>1. EncodeBitvector(curr_gain, best_bv_gain, curr_bv_end, it + 1)
    BY <1>6 DEF CloseBitvector
  <2>2. best_bv_gain > FixCost /\ best_bv_gain - curr_gain > FixCost
    BY <1>5, <1>6
  <2>3. curr_begin < curr_bv_end /\ curr_bv_end <= N /\ curr_bv_end \in Nat
    BY <1>2, <1>3, <2>2 DEF BestInside, OptimizerTypeOK
  <2>4. /\ PushBlock("bitvector", curr_bv_end)
        /\ curr_gain' = curr_gain - best_bv_gain /\ best_en_gain' = curr_gain - best_bv_gain
    BY <2>1 DEF EncodeBitvector
  <2>5. best_bv_gain = Saved(curr_bv_end) - Base /\ Saved(curr_bv_end) \in Int
    <3>1. curr_bv_end \in 0 .. N
      BY <1>2, <2>3
    <3> QED  BY <1>2, <1>3, <2>2, <3>1, SavedFacts DEF Measured
  <2>6. PICK L \in Int : L = K + FixCost - best_bv_gain
    BY <1>2
  <2>7. Within(L)' /\ Base' = Saved(curr_bv_end)
    <3>1. L = K + FixCost - (Saved(curr_bv_end) - Base)
      BY <2>5, <2>6
    <3> QED  BY <1>1, <1>2, <2>3, <2>4, <3>1, BitvectorIsWithin
  <2>8. (curr_gain = Saved(it) - Base)'
    BY <1>2, <1>4, <2>4, <2>5, <2>7
  <2>9. L + FixCost <= x /\ L + FixCost <= y
    <3>1. CASE NoBlockYet(K, x, y)
      BY <1>2, <2>2, <2>6, <3>1 DEF NoBlockYet, Lower
    <3>2. CASE AfterBitvector(K, x, y)
      BY <1>2, <2>2, <3>2 DEF AfterBitvector
    <3>3. CASE AfterEncoder(K, x, y)
      BY <1>2, <2>2, <2>6, <3>3 DEF AfterEncoder
    <3> QED  BY <1>3, <3>1, <3>2, <3>3 DEF Ahead
  <2>10. EncoderLeft(L, x, y)'
    BY <1>2, <2>2, <2>4, <2>9 DEF EncoderLeft
  <2>11. Cheap(L, x, y)'
    BY <1>1, <1>2, <1>4, <2>7, <2>8, <2>10 DEF Cheap
  <2> QED  BY <2>11
<1>7. CASE ~WorthBlock(best_bv_gain, curr_gain, FixCost, FixCost)
  <2>1. /\ UNCHANGED <<curr_begin, curr_bv_end, curr_en_end>>
        /\ UNCHANGED <<curr_gain, best_bv_gain, best_en_gain, T, blocks>>
    BY <1>7 DEF CloseBitvector
  <2>2. Within(K)' /\ Base' = Base
    BY <1>1, <1>2, <2>1, SameBlocks
  <2>3. Measured'
    <3>1. Saved(curr_bv_end)' = Saved(curr_bv_end) /\ Saved(curr_en_end)' = Saved(curr_en_end)
      BY <1>4, <2>1
    <3> QED  BY <1>3, <2>1, <2>2, <3>1 DEF Measured
  <2>4. Ahead(K, x, y)'
    BY <1>1, <1>3, <2>1 DEF Ahead, NoBlockYet, AfterBitvector, AfterEncoder
  <2>5. EncoderLeft(K, x, y)'
    <3>1. (best_bv_gain <= FixCost \/ best_bv_gain - curr_gain <= FixCost)'
      BY <1>2, <1>5, <1>7, <2>1
    <3> QED  BY <2>3, <2>4, <3>1 DEF EncoderLeft
  <2>6. Cheap(K, x, y)'
    BY <1>1, <1>2, <1>4, <2>1, <2>2, <2>5 DEF Cheap
  <2> QED  BY <2>6
<1> QED  BY <1>6, <1>7

LEMMA CloseEncoderIsCheap ==
  ASSUME OptimizerInv, CloseEncoder, NEW K, NEW x, NEW y, Cheap(K, x, y)
  PROVE  \E L, u, v : Cheap(L, u, v)'
<1>1. step = "encoder" /\ step' = "rest" /\ gaps' = gaps /\ it' = it
  BY DEF CloseEncoder
<1>2. /\ K \in Int /\ x \in Int /\ y \in Int
      /\ OptimizerTypeOK /\ CutSoFar /\ Signs /\ Closing
      /\ N \in Nat /\ N > 0 /\ FixCost \in Nat /\ it = N /\ it > 0
      /\ curr_gain \in Int /\ best_bv_gain \in Int /\ best_en_gain \in Int
      /\ best_en_gain <= curr_gain /\ curr_gain <= best_bv_gain
      /\ Base \in Int /\ Saved(it) \in Int
      /\ curr_gain = Saved(it) - Base
      /\ Chained(it, x, y) /\ Within(K)
  BY <1>1, ClosingFacts
<1>3. EncoderLeft(K, x, y)
  BY <1>1 DEF Cheap
<1>4. Chained(it, x, y)' /\ Saved(it)' = Saved(it) /\ \A n : Saved(n)' = Saved(n)
  BY <1>1, <1>2, SameList
<1>5. WorthBlock(-best_en_gain, -curr_gain, FixCost, FixCost) <=>
        best_en_gain < -FixCost /\ curr_gain - best_en_gain > FixCost
  BY <1>2 DEF WorthBlock
<1>6. CASE WorthBlock(-best_en_gain, -curr_gain, FixCost, FixCost)
  <2>1. EncodeWithEnc(curr_gain, best_en_gain, curr_en_end, it + 1)
    BY <1>6 DEF CloseEncoder
  <2>2. best_en_gain < -FixCost /\ curr_gain - best_en_gain > FixCost
    BY <1>5, <1>6
  <2>3. curr_begin < curr_en_end /\ curr_en_end <= N /\ curr_en_end \in Nat
    <3>1. best_en_gain < 0 /\ best_en_gain < curr_gain
      BY <1>2, <2>2
    <3>2. curr_en_end \in Nat
      BY <1>2 DEF OptimizerTypeOK
    <3> QED  BY <1>1, <1>2, <3>1, <3>2 DEF Closing
  <2>4. PushBlock("encoder", curr_en_end) /\ curr_gain' = curr_gain - best_en_gain
    BY <2>1 DEF EncodeWithEnc
  <2>5. /\ Measured /\ Ahead(K, x, y)
        /\ best_bv_gain <= FixCost \/ best_bv_gain - curr_gain <= FixCost
    BY <1>2, <1>3, <2>2 DEF EncoderLeft
  <2>6. best_en_gain = Saved(curr_en_end) - Base /\ Saved(curr_en_end) \in Int
    <3>1. curr_en_end \in 0 .. N
      BY <1>2, <2>3
    <3> QED  BY <1>2, <2>2, <2>5, <3>1, SavedFacts DEF Measured
  <2>7. PICK L \in Int : L = K + FixCost
    BY <1>2
  <2>8. Within(L)' /\ Base' = Saved(curr_en_end)
    BY <1>1, <1>2, <2>3, <2>4, <2>7, EncoderIsWithin
  <2>9. (curr_gain = Saved(it) - Base)'
    BY <1>2, <1>4, <2>4, <2>6, <2>8
  <2>10. RestLeft(L, x, y)'
    <3>1. L + FixCost - (curr_gain - best_en_gain) <= x /\ L + FixCost - (curr_gain - best_en_gain) <= y
      <4>1. CASE NoBlockYet(K, x, y)
        BY <1>2, <2>2, <2>5, <2>7, <4>1 DEF NoBlockYet, Lower
      <4>2. CASE AfterBitvector(K, x, y)
        BY <1>2, <2>2, <2>7, <4>2 DEF AfterBitvector
      <4>3. CASE AfterEncoder(K, x, y)
        BY <1>2, <2>2, <4>3 DEF AfterEncoder
      <4> QED  BY <2>5, <4>1, <4>2, <4>3 DEF Ahead
    <3> QED  BY <1>2, <2>2, <2>4, <3>1 DEF RestLeft
  <2>11. Cheap(L, x, y)'
    BY <1>1, <1>2, <1>4, <2>8, <2>9, <2>10 DEF Cheap
  <2> QED  BY <2>11
<1>7. CASE ~WorthBlock(-best_en_gain, -curr_gain, FixCost, FixCost)
  <2>1. /\ UNCHANGED <<curr_begin, curr_bv_end, curr_en_end>>
        /\ UNCHANGED <<curr_gain, best_bv_gain, best_en_gain, T, blocks>>
    BY <1>7 DEF CloseEncoder
  <2>2. Within(K)' /\ Base' = Base
    BY <1>1, <1>2, <2>1, SameBlocks
  <2>3. best_en_gain < -FixCost => curr_gain - best_en_gain <= FixCost
    BY <1>2, <1>5, <1>7
  <2>4. RestLeft(K, x, y)
    <3>1. CASE curr_gain <= 0 /\ K + FixCost <= x /\ K + FixCost <= y
      BY <3>1 DEF RestLeft
    <3>2. CASE /\ Ahead(K, x, y)
               /\ best_bv_gain <= FixCost \/ best_bv_gain - curr_gain <= FixCost
      <4>1. CASE NoBlockYet(K, x, y)
        BY <1>2, <2>3, <3>2, <4>1 DEF NoBlockYet, Lower, RestLeft, Signs
      <4>2. CASE AfterBitvector(K, x, y)
        BY <1>2, <2>3, <4>2 DEF AfterBitvector, RestLeft
      <4>3. CASE AfterEncoder(K, x, y)
        BY <1>2, <3>2, <4>3 DEF AfterEncoder, RestLeft
      <4> QED  BY <3>2, <4>1, <4>2, <4>3 DEF Ahead
    <3> QED  BY <1>3, <3>1, <3>2 DEF EncoderLeft
  <2>5. RestLeft(K, x, y)'
    BY <2>1, <2>4 DEF RestLeft
  <2>6. Cheap(K, x, y)'
    BY <1>1, <1>2, <1>4, <2>1, <2>2, <2>5 DEF Cheap
  <2> QED  BY <2>6
<1> QED  BY <1>6, <1>7

LEMMA SameLeastCut == ASSUME gaps' = gaps PROVE LeastCutCost' = LeastCutCost
<1>1. N' = N
  BY DEF N
<1>2. \A t, b, e : BlockCost(t, b, e)' = BlockCost(t, b, e)
  BY <1>1, Zenon DEF BlockCost
<1>3. ASSUME NEW before, NEW end  PROVE CostsTo(before, end)' = CostsTo(before, end)
  BY <1>2 DEF CostsTo
<1> QED  BY <1>1, <1>3, Zenon DEF LeastCutCost

(* The last block, and with it the whole cut.                                *)
LEMMA CloseRestIsCheap ==
  ASSUME OptimizerInv, CloseRest, NEW K, NEW x, NEW y, Cheap(K, x, y)
  PROVE  CutsAtLeastCost'
<1>1. step = "rest" /\ gaps' = gaps
  BY DEF CloseRest
<1>2. /\ K \in Int /\ x \in Int /\ y \in Int
      /\ OptimizerTypeOK /\ CutSoFar /\ Signs /\ Closing
      /\ N \in Nat /\ N > 0 /\ FixCost \in Nat /\ it = N /\ it > 0
      /\ curr_gain \in Int
      /\ Base \in Int /\ Saved(it) \in Int
      /\ curr_gain = Saved(it) - Base
      /\ Chained(it, x, y) /\ Within(K)
  BY <1>1, ClosingFacts
<1>3. RestLeft(K, x, y)
  BY <1>1 DEF Cheap
<1>4. curr_begin < N
  BY <1>1, <1>2 DEF Closing
<1>5. LeastCutCost \in Nat /\ Total("encoder", N) + Lower(x, y) <= LeastCutCost
  <2>1. PICK bvs, ens : IsChain(bvs, ens, N) /\ bvs[N] = x /\ ens[N] = y
    BY <1>2 DEF Chained
  <2>2. IsBelowCuts(Floor(bvs, ens))
    BY <1>2, <2>1, FloorIsBelowCuts
  <2>3. LeastCutCost \in Nat /\ Floor(bvs, ens)[N] <= LeastCutCost
    BY <1>2, <2>2, LeastCutIsAbove
  <2>4. Floor(bvs, ens)[N] = Total("encoder", N) + Lower(bvs[N], ens[N])
    BY <1>2 DEF Floor
  <2> QED  BY <2>1, <2>3, <2>4
<1>6. Total("encoder", N) \in Nat
  <2>1. N \in 0 .. N
    BY <1>2
  <2> QED  BY <1>2, <2>1, TotalFacts
<1>7. ASSUME NEW L \in Int, L <= x, L <= y, CutCost' \in Nat, Within(L)', curr_begin' = N
      PROVE  CutsAtLeastCost'
  <2>1. \A t, n : Total(t, n)' = Total(t, n)
    BY <1>1, SameList
  <2>2. CutCost' <= Total("encoder", N) + L + 1
    BY <1>7, <2>1 DEF Within
  <2>3. L <= Lower(x, y) /\ Lower(x, y) \in Int
    BY <1>2, <1>7 DEF Lower
  <2>4. CutCost' <= LeastCutCost + 1
    BY <1>5, <1>6, <1>7, <2>2, <2>3
  <2>5. LeastCutCost' = LeastCutCost
    BY <1>1, SameLeastCut
  <2> QED  BY <2>4, <2>5 DEF CutsAtLeastCost
<1>8. CASE curr_gain > 0
  <2>1. PushBlock("bitvector", N)
    BY <1>2, <1>8 DEF CloseRest, EncodeBitvector
  <2>2. PICK L \in Int : L = K + FixCost - curr_gain
    BY <1>2
  <2>3. L = K + FixCost - (Saved(N) - Base)
    BY <1>2, <2>2
  <2>4. Within(L)' /\ curr_begin' = N /\ CutCost' \in Nat
    BY <1>1, <1>2, <1>4, <2>1, <2>3, BitvectorIsWithin, PushBlockCosts, PushBlockKeepsTheCut
  <2>5. L <= x /\ L <= y
    BY <1>2, <1>3, <1>8, <2>2 DEF RestLeft
  <2> QED  BY <1>7, <2>4, <2>5
<1>9. CASE ~(curr_gain > 0)
  <2>1. PushBlock("encoder", N)
    BY <1>2, <1>9 DEF CloseRest, EncodeWithEnc
  <2>2. PICK L \in Int : L = K + FixCost
    BY <1>2
  <2>3. Within(L)' /\ curr_begin' = N /\ CutCost' \in Nat
    BY <1>1, <1>2, <1>4, <2>1, <2>2, EncoderIsWithin, PushBlockCosts, PushBlockKeepsTheCut
  <2>4. L <= x /\ L <= y
    BY <1>2, <1>3, <1>9, <2>2 DEF RestLeft
  <2> QED  BY <1>7, <2>3, <2>4
<1> QED  BY <1>8, <1>9

-----------------------------------------------------------------------------
LEMMA CheapInvKept ==
  OptimizerInv /\ CheapInv /\ [OptimizerNext]_optimizerVars => CheapInv'
<1> SUFFICES ASSUME OptimizerInv, CheapInv, [OptimizerNext]_optimizerVars  PROVE CheapInv'
  OBVIOUS
<1> USE DEF CheapInv
<1>1. CASE Walk
  <2>1. step = "walk" /\ step' = "walk"
    BY <1>1 DEF Walk, Read
  <2>2. \E K, x, y : Cheap(K, x, y)'
    BY <1>1, <2>1, WalkIsCheap
  <2> QED  BY <2>1, <2>2 DEF CutsAtLeastCost
<1>2. CASE Walked
  <2>1. step = "walk" /\ step' = "bitvector"
    BY <1>2 DEF Walked
  <2>2. \E K, x, y : Cheap(K, x, y)'
    BY <1>2, <2>1, WalkedIsCheap
  <2> QED  BY <2>1, <2>2 DEF CutsAtLeastCost
<1>3. CASE CloseBitvector
  <2>1. step = "bitvector" /\ step' = "encoder"
    BY <1>3 DEF CloseBitvector
  <2>2. \E K, x, y : Cheap(K, x, y)'
    BY <1>3, <2>1, CloseBitvectorIsCheap
  <2> QED  BY <2>1, <2>2 DEF CutsAtLeastCost
<1>4. CASE CloseEncoder
  <2>1. step = "encoder" /\ step' = "rest"
    BY <1>4 DEF CloseEncoder
  <2>2. \E K, x, y : Cheap(K, x, y)'
    BY <1>4, <2>1, CloseEncoderIsCheap
  <2> QED  BY <2>1, <2>2 DEF CutsAtLeastCost
<1>5. CASE CloseRest
  <2>1. step = "rest" /\ step' = "done"
    BY <1>5 DEF CloseRest
  <2>2. CutsAtLeastCost'
    BY <1>5, <2>1, CloseRestIsCheap
  <2> QED  BY <2>1, <2>2
<1>6. CASE UNCHANGED optimizerVars
  <2>1. /\ UNCHANGED <<gaps, T, blocks, step>>
        /\ UNCHANGED <<it, curr_begin, curr_bv_end, curr_en_end>>
        /\ UNCHANGED <<curr_gain, last_gain, best_bv_gain, best_en_gain>>
    BY <1>6 DEF optimizerVars, positions, gains
  <2>2. /\ Base' = Base /\ \A K : Within(K)' = Within(K)
        /\ \A n : Saved(n)' = Saved(n)
        /\ \A n, x, y : Chained(n, x, y)' = Chained(n, x, y)
    BY <2>1, SameBlocks, SameList
  <2>3. ASSUME NEW K, NEW x, NEW y, Cheap(K, x, y)  PROVE Cheap(K, x, y)'
    <3>1. Measured' = Measured
      BY <2>1, <2>2 DEF Measured
    <3>2. Ahead(K, x, y)' = Ahead(K, x, y)
      BY <2>1 DEF Ahead, NoBlockYet, AfterBitvector, AfterEncoder
    <3>3. EncoderLeft(K, x, y)' = EncoderLeft(K, x, y) /\ RestLeft(K, x, y)' = RestLeft(K, x, y)
      BY <2>1, <3>1, <3>2 DEF EncoderLeft, RestLeft
    <3>4. Chained(it, x, y)' = Chained(it, x, y) /\ Saved(it)' = Saved(it)
      BY <2>1, <2>2
    <3> QED  BY <2>1, <2>2, <2>3, <3>1, <3>2, <3>3, <3>4 DEF Cheap
  <2>4. CutsAtLeastCost'
    <3>1. CutCost' = CutCost
      BY <2>1, SameCutCost
    <3> QED  BY <2>1, <3>1, SameLeastCut DEF CutsAtLeastCost
  <2> QED  BY <2>1, <2>3, <2>4
<1> QED  BY <1>1, <1>2, <1>3, <1>4, <1>5, <1>6 DEF OptimizerNext

(* compute_partition cuts every list at the least cost there is, or one bit  *)
(* more, whatever the codes and the blocks cost: reading it once and looking *)
(* no further back than the best gains of the current block is enough.       *)
THEOREM CutIsCheapest == OptimizerSpec => []CutsAtLeastCost
<1>1. OptimizerStart /\ OptimizerInv => CheapInv
  BY CheapAtFirst DEF CheapInv, CutsAtLeastCost, OptimizerStart, OptimizerInit
<1>2. OptimizerInv /\ CheapInv /\ [OptimizerNext]_optimizerVars => CheapInv'
  BY CheapInvKept
<1>3. CheapInv => CutsAtLeastCost
  BY DEF CheapInv
<1> QED  BY <1>1, <1>2, <1>3, OptimizerInvAlways, PTL DEF OptimizerSpec

-----------------------------------------------------------------------------
(* What the cut of optimal_partition costs.                                  *)

Increasing == \A k \in 2 .. Size : vals[k - 1] < vals[k]

(* A window has the base and the last value of the block it stands for.      *)
Shows(window) ==
  /\ window.min_p = BaseOf(window.start)
  /\ window.end > 0 => window.max_p = vals[window.end]

WindowsShow == \A k \in 1 .. Len(windows) : Shows(windows[k])

(* Where a position was reached at less than one block for the whole list,   *)
(* its cost is that of the predecessor and a block, and was when that was    *)
(* looked from: the cost of a position passed does not change.               *)
Reached(j) ==
  /\ min_cost[j] <= SingleBlockCost
  /\ IF min_cost[j] < SingleBlockCost
     THEN min_cost[j] = min_cost[path[j]] + CutBlockCost(path[j], j)
     ELSE path[j] = 0

CostsAddUp ==
  /\ min_cost \in [0 .. Size -> Nat] /\ min_cost[0] = 0
  /\ \A j \in 1 .. Size : Reached(j)
  /\ phase \in {"windows", "reach", "relax"} => \A j \in 1 .. Size : path[j] <= i

FollowsPath == \A k \in 1 .. Len(partition) - 1 : partition[k + 1] = path[partition[k]]

CostInv == Increasing /\ WindowsShow /\ CostsAddUp /\ FollowsPath

(* All costs there are, are natural numbers.                                 *)
LEMMA ListFacts ==
  ASSUME CutTypeOK, Increasing
  PROVE  /\ Size \in 1 .. Universe
         /\ \A k \in 1 .. Size : vals[k] \in 0 .. Universe - 1
         /\ \A a \in 1 .. Size, b \in 1 .. Size : a < b => vals[a] < vals[b]
<1>1. Universe \in Nat /\ Size \in Nat /\ Size > 0
  BY SizeFacts, CutAssumption, Zenon DEF CutAssumption
<1>2. \A k \in 1 .. Size : vals[k] \in 0 .. Universe - 1
  <2>1. vals \in Seq(0 .. Universe - 1)
    BY DEF CutTypeOK
  <2> QED  BY <2>1, ElementsOfASequence, Zenon DEF Size
<1>3. ASSUME NEW a \in 1 .. Size  PROVE \A b \in a .. Size : vals[b] - vals[a] >= b - a
  <2> DEFINE Good == {b \in Nat : vals[b] - vals[a] >= b - a}
  <2>1. a \in Good
    BY <1>2
  <2>2. ASSUME NEW b \in a .. Size - 1, b \in Good  PROVE b + 1 \in Good
    <3>1. b \in 1 .. Size /\ b + 1 \in 2 .. Size /\ b + 1 \in 1 .. Size /\ (b + 1) - 1 = b
      BY <1>1
    <3>2. vals[b] < vals[b + 1]
      BY <3>1 DEF Increasing
    <3>3. vals[a] \in Int /\ vals[b] \in Int /\ vals[b + 1] \in Int
      BY <1>1, <1>2, <3>1
    <3> QED  BY <2>2, <3>1, <3>2, <3>3
  <2> HIDE DEF Good
  <2>3. \A b \in a .. Size : b \in Good
    BY <1>1, <2>1, <2>2, InductionFrom
  <2> QED  BY <2>3 DEF Good
<1>4. \A a \in 1 .. Size, b \in 1 .. Size : a < b => vals[a] < vals[b]
  BY <1>1, <1>2, <1>3
<1>5. Size <= Universe
  <2>1. vals[Size] - vals[1] >= Size - 1 /\ vals[Size] \in 0 .. Universe - 1 /\ vals[1] \in 0 .. Universe - 1
    BY <1>1, <1>2, <1>3
  <2> QED  BY <1>1, <2>1
<1> QED  BY <1>1, <1>2, <1>4, <1>5

LEMMA CutCostsAreNat ==
  ASSUME CutTypeOK, Increasing
  PROVE  /\ SingleBlockCost \in Nat
         /\ \A b \in 0 .. Size, e \in 1 .. Size : b < e => CutBlockCost(b, e) \in Nat
<1>1. /\ Universe \in Nat /\ Size \in 1 .. Universe
      /\ \A k \in 1 .. Size : vals[k] \in 0 .. Universe - 1
      /\ \A a \in 1 .. Size, b \in 1 .. Size : a < b => vals[a] < vals[b]
  BY ListFacts, CutAssumption DEF CutAssumption
<1>2. \A universe \in 1 .. Universe, n \in 1 .. Universe : CostFun(universe, n) \in Nat
  BY CutAssumption, Zenon DEF CutAssumption
<1>3. SingleBlockCost \in Nat
  <2>1. Universe \in 1 .. Universe
    BY <1>1
  <2> QED  BY <1>1, <1>2, <2>1 DEF SingleBlockCost
<1>4. ASSUME NEW b \in 0 .. Size, NEW e \in 1 .. Size, b < e  PROVE CutBlockCost(b, e) \in Nat
  <2>1. BaseOf(b) \in Nat /\ BaseOf(b) <= vals[e]
    <3>1. CASE b = 0
      <4>1. 1 \in 1 .. Size
        BY <1>1
      <4>2. vals[1] \in Nat /\ vals[1] <= vals[e]
        BY <1>1, <4>1
      <4> QED  BY <3>1, <4>2 DEF BaseOf
    <3>2. CASE b \in 1 .. Size
      <4>1. vals[b] < vals[e] /\ vals[b] \in Nat /\ vals[e] \in Nat
        BY <1>1, <1>4, <3>2
      <4> QED  BY <3>2, <4>1 DEF BaseOf
    <3> QED  BY <1>1, <3>1, <3>2
  <2>2. vals[e] - BaseOf(b) + 1 \in 1 .. Universe /\ e - b \in 1 .. Universe
    BY <1>1, <1>4, <2>1
  <2> QED  BY <1>2, <2>2 DEF CutBlockCost
<1> QED  BY <1>3, <1>4

-----------------------------------------------------------------------------
(* A window keeps what it shows.                                             *)
LEMMA NewWindowShows == ASSUME NEW bound PROVE Shows(NewWindow(bound))
BY DEF Shows, NewWindow, BaseOf

LEMMA AdvancedEndShows ==
  ASSUME NEW window \in Windows, window.end >= 0, Shows(window)
  PROVE  Shows(AdvancedEnd(window))
<1>1. /\ AdvancedEnd(window).start = window.start /\ AdvancedEnd(window).min_p = window.min_p
      /\ AdvancedEnd(window).end = window.end + 1
      /\ AdvancedEnd(window).max_p = vals[window.end + 1]
  BY DEF AdvancedEnd, Windows
<1> QED  BY <1>1 DEF Shows

LEMMA AdvancedStartShows ==
  ASSUME NEW window \in Windows, window.start >= 0, Shows(window)
  PROVE  Shows(AdvancedStart(window))
<1>1. /\ AdvancedStart(window).start = window.start + 1
      /\ AdvancedStart(window).min_p = vals[window.start + 1] + 1
      /\ AdvancedStart(window).end = window.end /\ AdvancedStart(window).max_p = window.max_p
  BY DEF AdvancedStart, Windows
<1>2. window.start \in Int /\ window.start + 1 # 0
  BY DEF Windows
<1> QED  BY <1>1, <1>2 DEF Shows, BaseOf

LEMMA ShownCost ==
  ASSUME NEW window \in Windows, window.end > 0, Shows(window)
  PROVE  WindowCost(window) = CutBlockCost(window.start, window.end)
BY DEF Shows, WindowCost, WindowUniverse, CutBlockCost

(* What does not change with the list.                                       *)
LEMMA SameVals ==
  ASSUME vals' = vals
  PROVE  /\ Size' = Size /\ Increasing' = Increasing /\ SingleBlockCost' = SingleBlockCost
         /\ \A window : Shows(window)' = Shows(window)
         /\ \A b, e : CutBlockCost(b, e)' = CutBlockCost(b, e)
<1>1. Size' = Size /\ \A b : BaseOf(b)' = BaseOf(b)
  BY DEF Size, BaseOf
<1> QED  BY <1>1, Zenon DEF Increasing, SingleBlockCost, Shows, CutBlockCost

LEMMA CostInvHoldsAtFirst == CutStart => CostInv
<1> SUFFICES ASSUME NEW list \in ValueLists, CutInit(list), CutInv
             PROVE CostInv
  BY CutInvHoldsAtFirst DEF CutStart
<1>1. /\ vals = list /\ windows = <<>> /\ i = 0 /\ partition = <<>>
      /\ min_cost = [j \in 0 .. Size |-> IF j = 0 THEN 0 ELSE SingleBlockCost]
      /\ path = [j \in 0 .. Size |-> 0]
  BY DEF CutInit, Size, SingleBlockCost
<1>2. Increasing
  BY <1>1, ValueAssumption DEF ValueAssumption, Increasing, Size
<1>3. Size \in Nat /\ SingleBlockCost \in Nat
  BY <1>2, SizeFacts, CutCostsAreNat DEF CutInv
<1>4. CostsAddUp
  BY <1>1, <1>3 DEF CostsAddUp, Reached
<1>5. WindowsShow /\ FollowsPath
  BY <1>1 DEF WindowsShow, FollowsPath
<1> QED  BY <1>2, <1>4, <1>5 DEF CostInv

LEMMA SameCosts ==
  ASSUME CostInv, vals' = vals, min_cost' = min_cost, path' = path
  PROVE  /\ Increasing' /\ Size' = Size
         /\ (min_cost \in [0 .. Size -> Nat] /\ min_cost[0] = 0)'
         /\ (\A j \in 1 .. Size : Reached(j))'
<1>1. /\ Size' = Size /\ Increasing' = Increasing /\ SingleBlockCost' = SingleBlockCost
      /\ \A b, e : CutBlockCost(b, e)' = CutBlockCost(b, e)
  BY SameVals
<1>2. \A j : Reached(j)' = Reached(j)
  BY <1>1, Zenon DEF Reached
<1> QED  BY <1>1, <1>2 DEF CostInv, CostsAddUp

LEMMA AddWindowKeepsCosts == ASSUME CutInv, CostInv, AddWindow PROVE CostInv'
<1>1. /\ windows' = Append(windows, NewWindow(CostBound))
      /\ UNCHANGED <<vals, i, w, last_end, min_cost, path, partition, phase>>
  BY DEF AddWindow
<1>2. /\ Increasing' /\ Size' = Size
      /\ (min_cost \in [0 .. Size -> Nat] /\ min_cost[0] = 0)'
      /\ (\A j \in 1 .. Size : Reached(j))'
  BY <1>1, SameCosts
<1>3. CostsAddUp'
  BY <1>1, <1>2 DEF CostInv, CostsAddUp
<1>4. WindowsShow'
  <2>1. /\ Len(windows) \in Nat /\ Len(windows') = Len(windows) + 1
        /\ \A k \in 1 .. Len(windows) : windows'[k] = windows[k]
        /\ windows'[Len(windows) + 1] = NewWindow(CostBound)
    <3>1. windows \in Seq(Windows)
      BY DEF CutInv, CutTypeOK
    <3> QED  BY <1>1, <3>1
  <2>2. ASSUME NEW k \in 1 .. Len(windows')  PROVE Shows(windows'[k])
    <3>1. CASE k = Len(windows) + 1
      BY <2>1, <3>1, NewWindowShows
    <3>2. CASE k \in 1 .. Len(windows)
      BY <2>1, <3>2 DEF CostInv, WindowsShow
    <3> QED  BY <2>1, <3>1, <3>2
  <2> QED  BY <1>1, <2>2, SameVals DEF WindowsShow
<1>5. FollowsPath'
  BY <1>1 DEF CostInv, FollowsPath
<1> QED  BY <1>2, <1>3, <1>4, <1>5 DEF CostInv

(* No window moves and no cost changes, and the position does not go back.   *)
LEMMA SameWindowsKeepCosts ==
  ASSUME CutInv, CostInv, UNCHANGED <<vals, windows, min_cost, path>>, FollowsPath',
         phase' \in {"windows", "reach", "relax"} =>
           phase \in {"windows", "reach", "relax"} /\ i' >= i /\ i' \in Nat
  PROVE  CostInv'
<1>1. /\ Increasing' /\ Size' = Size
      /\ (min_cost \in [0 .. Size -> Nat] /\ min_cost[0] = 0)'
      /\ (\A j \in 1 .. Size : Reached(j))'
  BY SameCosts
<1>2. CostsAddUp'
  <2>1. ASSUME NEW j \in 1 .. Size, phase' \in {"windows", "reach", "relax"}
        PROVE  path'[j] <= i'
    <3>1. path[j] <= i
      BY <2>1 DEF CostInv, CostsAddUp
    <3>2. path[j] \in Nat /\ i \in Nat
      BY DEF CutInv, CutTypeOK
    <3> QED  BY <2>1, <3>1, <3>2
  <2> QED  BY <1>1, <2>1 DEF CostsAddUp
<1>3. WindowsShow'
  BY SameVals DEF CostInv, WindowsShow
<1> QED  BY <1>1, <1>2, <1>3 DEF CostInv

LEMMA OneWindowKeepsShowing ==
  ASSUME CutInv, CostInv, vals' = vals, w \in 1 .. Len(windows), NEW window \in Windows,
         Shows(window), windows' = [windows EXCEPT ![w] = window]
  PROVE  WindowsShow'
<1>1. /\ Len(windows') = Len(windows)
      /\ \A m \in 1 .. Len(windows) : windows'[m] = IF m = w THEN window ELSE windows[m]
  BY AdvancedWindows DEF CutInv
<1>2. ASSUME NEW k \in 1 .. Len(windows')  PROVE Shows(windows'[k])
  BY <1>1 DEF CostInv, WindowsShow
<1> QED  BY <1>2, SameVals DEF WindowsShow

LEMMA ReachLastEndKeepsCosts == ASSUME CutInv, CostInv, ReachLastEnd PROVE CostInv'
<1>1. /\ phase = "reach" /\ i < Size /\ w <= Len(windows)
      /\ UNCHANGED <<vals, i, w, last_end, min_cost, path, partition>>
  BY DEF ReachLastEnd
<1>2. /\ w \in 1 .. Len(windows) /\ windows[w] \in Windows /\ windows[w].end \in Int
      /\ windows[w].end >= 0 /\ Shows(windows[w]) /\ i \in Nat
  BY <1>1, WindowFacts DEF CutInv, CutTypeOK, EndsInTheList, CostInv, WindowsShow
<1>3. FollowsPath'
  BY <1>1 DEF CostInv, FollowsPath
<1>4. CASE windows[w].end < last_end
  <2>1. windows' = [windows EXCEPT ![w] = AdvancedEnd(windows[w])] /\ phase' = phase
    BY <1>4 DEF ReachLastEnd
  <2>2. AdvancedEnd(windows[w]) \in Windows
    <3>1. windows[w].end \in 0 .. Size - 1
      BY <1>1, <1>2, <1>4, SizeFacts DEF CutInv, EndsInTheList, CutTypeOK
    <3> QED  BY <1>2, <3>1, AdvancedEndIsAWindow DEF CutInv
  <2>3. Shows(AdvancedEnd(windows[w]))
    BY <1>2, AdvancedEndShows
  <2>4. WindowsShow'
    BY <1>1, <1>2, <2>1, <2>2, <2>3, OneWindowKeepsShowing
  <2>5. /\ Increasing' /\ Size' = Size
        /\ (min_cost \in [0 .. Size -> Nat] /\ min_cost[0] = 0)'
        /\ (\A j \in 1 .. Size : Reached(j))'
    BY <1>1, SameCosts
  <2>6. CostsAddUp'
    BY <1>1, <2>1, <2>5 DEF CostInv, CostsAddUp
  <2> QED  BY <1>3, <2>4, <2>5, <2>6 DEF CostInv
<1>5. CASE ~(windows[w].end < last_end)
  <2>1. windows' = windows
    BY <1>5 DEF ReachLastEnd
  <2> QED  BY <1>1, <1>2, <1>3, <2>1, SameWindowsKeepCosts
<1> QED  BY <1>4, <1>5

(* A position passed keeps its cost, and the one relaxed gets it from there. *)
LEMMA RelaxKeepsCosts == ASSUME CutInv, CostInv, Relax PROVE CostInv'
<1> DEFINE window == windows[w]
           cost == min_cost[i] + WindowCost(window)
           cheaper == cost < min_cost[window.end]
<1>1. /\ min_cost' = [min_cost EXCEPT ![window.end] = IF cheaper THEN cost ELSE min_cost[window.end]]
      /\ path' = [path EXCEPT ![window.end] = IF cheaper THEN i ELSE path[window.end]]
      /\ IF MayOpen(window)
         THEN /\ windows' = [windows EXCEPT ![w] = AdvancedEnd(window)]
              /\ UNCHANGED <<w, phase>>
         ELSE /\ windows' = [windows EXCEPT ![w] = AdvancedStart(window)]
              /\ w' = w + 1
              /\ phase' = "reach"
      /\ UNCHANGED <<vals, i, partition>>
  BY DEF Relax
<1>2. /\ CutTypeOK /\ phase = "relax" /\ w \in 1 .. Len(windows)
      /\ window \in Windows /\ window.end \in Int /\ window.start \in Int
  <2>1. CutTypeOK /\ phase = "relax" /\ w \in 1 .. Len(windows)
    BY DEF CutInv, Relax, EndsInTheList, CutTypeOK
  <2> QED  BY <2>1, WindowFacts
<1>3. /\ i \in 0 .. Size /\ i < Size /\ i < window.end /\ window.end <= Size
      /\ window.start = i /\ Size \in Nat /\ Shows(window)
  BY <1>2, SizeFacts DEF CutInv, EndsInTheList, WindowsStartAt, CutTypeOK, CostInv, WindowsShow
<1>4. PICK end \in 1 .. Size : end = window.end
  BY <1>2, <1>3
<1>5. WindowCost(window) = CutBlockCost(i, end) /\ CutBlockCost(i, end) \in Nat
  <2>1. WindowCost(window) = CutBlockCost(i, end)
    BY <1>2, <1>3, <1>4, ShownCost
  <2> QED  BY <1>2, <1>3, <1>4, <2>1, CutCostsAreNat DEF CostInv
<1>6. /\ min_cost \in [0 .. Size -> Nat] /\ min_cost[0] = 0 /\ path \in [0 .. Size -> Nat]
      /\ \A j \in 1 .. Size : Reached(j) /\ path[j] <= i
      /\ SingleBlockCost \in Nat
  BY <1>2, CutCostsAreNat DEF CostInv, CostsAddUp, CutTypeOK
<1>7. /\ Size' = Size /\ Increasing' = Increasing /\ SingleBlockCost' = SingleBlockCost
      /\ \A b, e : CutBlockCost(b, e)' = CutBlockCost(b, e)
  BY <1>1, SameVals
<1>8. WindowsShow'
  <2>1. CASE MayOpen(window)
    <3>1. window.end \in 0 .. Size - 1
      BY <1>2, <1>3, <2>1 DEF MayOpen
    <3>2. AdvancedEnd(window) \in Windows /\ Shows(AdvancedEnd(window))
      BY <1>2, <1>3, <3>1, AdvancedEndIsAWindow, AdvancedEndShows
    <3> QED  BY <1>1, <1>2, <2>1, <3>2, OneWindowKeepsShowing
  <2>2. CASE ~MayOpen(window)
    <3>1. window.start \in 0 .. Size - 1
      BY <1>3
    <3>2. AdvancedStart(window) \in Windows /\ Shows(AdvancedStart(window))
      BY <1>2, <1>3, <3>1, AdvancedStartIsAWindow, AdvancedStartShows
    <3> QED  BY <1>1, <1>2, <2>2, <3>2, OneWindowKeepsShowing
  <2> QED  BY <2>1, <2>2
<1>9. ASSUME NEW c \in Nat, c = min_cost[i] + CutBlockCost(i, end),
             NEW h \in BOOLEAN, h <=> c < min_cost[end],
             min_cost' = [min_cost EXCEPT ![end] = IF h THEN c ELSE min_cost[end]],
             path' = [path EXCEPT ![end] = IF h THEN i ELSE path[end]]
      PROVE  CostsAddUp'
  <2>1. min_cost' \in [0 .. Size -> Nat] /\ min_cost'[0] = 0
    BY <1>6, <1>9
  <2>2. ASSUME NEW j \in 1 .. Size, j # end \/ ~h
        PROVE  min_cost'[j] = min_cost[j] /\ path'[j] = path[j]
    BY <1>6, <1>9, <2>2
  <2>3. ASSUME NEW j \in 0 .. Size, j <= i  PROVE min_cost'[j] = min_cost[j]
    BY <1>3, <1>4, <1>6, <1>9, <2>3
  <2>4. h => min_cost'[end] = c /\ path'[end] = i /\ c < min_cost[end]
    BY <1>6, <1>9
  <2>5. ASSUME NEW j \in 1 .. Size  PROVE Reached(j)' /\ path'[j] <= i
    <3>1. CASE j # end \/ ~h
      <4>1. min_cost'[j] = min_cost[j] /\ path'[j] = path[j]
        BY <2>2, <3>1
      <4>2. path[j] \in 0 .. Size /\ path[j] <= i /\ Reached(j)
        BY <1>3, <1>6
      <4>3. min_cost'[path[j]] = min_cost[path[j]]
        BY <2>3, <4>2
      <4>4. Reached(j)'
        BY <1>7, <4>1, <4>2, <4>3 DEF Reached
      <4> QED  BY <4>1, <4>2, <4>4
    <3>2. CASE j = end /\ h
      <4>1. min_cost'[end] = c /\ path'[end] = i /\ c < min_cost[end] /\ min_cost'[i] = min_cost[i]
        BY <1>3, <2>3, <2>4, <3>2
      <4>2. c < SingleBlockCost
        BY <1>6, <4>1 DEF Reached
      <4>3. Reached(end)'
        BY <1>6, <1>7, <1>9, <4>1, <4>2 DEF Reached
      <4> QED  BY <1>3, <3>2, <4>1, <4>3
    <3> QED  BY <3>1, <3>2
  <2> QED  BY <1>1, <1>7, <2>1, <2>5 DEF CostsAddUp
<1>10. CostsAddUp'
  <2>1. PICK c \in Nat : c = min_cost[i] + CutBlockCost(i, end)
    BY <1>3, <1>5, <1>6
  <2>2. PICK h \in BOOLEAN : h <=> c < min_cost[end]
    OBVIOUS
  <2>3. cost = c /\ (cheaper <=> h)
    BY <1>4, <1>5, <2>1, <2>2
  <2> HIDE DEF cost, cheaper
  <2>4. /\ min_cost' = [min_cost EXCEPT ![end] = IF h THEN c ELSE min_cost[end]]
        /\ path' = [path EXCEPT ![end] = IF h THEN i ELSE path[end]]
    BY <1>1, <1>4, <2>3
  <2> QED  BY <1>9, <2>1, <2>2, <2>4
<1>11. FollowsPath'
  <2>1. partition' = <<>>
    BY <1>1, <1>2 DEF CutInv, BlocksLeadBack
  <2> QED  BY <2>1 DEF FollowsPath
<1> QED  BY <1>7, <1>8, <1>10, <1>11 DEF CostInv

LEMMA FollowPathKeepsCosts == ASSUME CutInv, CostInv, FollowPath PROVE CostInv'
<1>1. /\ phase = "path" /\ UNCHANGED <<vals, windows, i, w, last_end, min_cost, path>>
      /\ IF CurrPos # 0 THEN partition' = Append(partition, CurrPos) /\ phase' = phase
         ELSE partition' = partition /\ phase' = "done"
  BY DEF FollowPath
<1>2. partition \in Seq(1 .. Size)
  BY DEF CutInv, CutTypeOK
<1>3. FollowsPath'
  <2>1. CASE CurrPos # 0
    <3>1. /\ Len(partition) \in Nat /\ Len(partition') = Len(partition) + 1
          /\ \A k \in 1 .. Len(partition) : partition'[k] = partition[k]
          /\ partition'[Len(partition) + 1] = CurrPos
      BY <1>1, <1>2, <2>1
    <3>2. ASSUME NEW k \in 1 .. Len(partition') - 1
          PROVE  partition'[k + 1] = path[partition'[k]]
      <4>1. CASE k = Len(partition)
        <5>1. partition # <<>>
          BY <3>1, <3>2, <4>1
        <5> QED  BY <3>1, <4>1, <5>1 DEF CurrPos
      <4>2. CASE k \in 1 .. Len(partition) - 1
        <5>1. k \in 1 .. Len(partition) /\ k + 1 \in 1 .. Len(partition)
          BY <3>1, <4>2
        <5>2. partition[k + 1] = path[partition[k]]
          BY <4>2 DEF CostInv, FollowsPath
        <5> QED  BY <3>1, <5>1, <5>2
      <4> QED  BY <3>1, <4>1, <4>2
    <3> QED  BY <1>1, <3>2 DEF FollowsPath
  <2>2. CASE CurrPos = 0
    BY <1>1, <2>2 DEF CostInv, FollowsPath
  <2> QED  BY <2>1, <2>2
<1>4. phase' \notin {"windows", "reach", "relax"}
  BY <1>1
<1> QED  BY <1>1, <1>3, <1>4, SameWindowsKeepCosts

LEMMA CostInvKept == CutInv /\ CostInv /\ [CutNext]_vars => CostInv'
<1> SUFFICES ASSUME CutInv, CostInv, [CutNext]_vars PROVE CostInv'
  OBVIOUS
<1>1. CASE AddWindow
  BY <1>1, AddWindowKeepsCosts
<1>2. CASE ReachLastEnd
  BY <1>2, ReachLastEndKeepsCosts
<1>3. CASE Relax
  BY <1>3, RelaxKeepsCosts
<1>4. CASE FollowPath
  BY <1>4, FollowPathKeepsCosts
<1>5. CASE StartRelaxing \/ NextPosition \/ StartPath \/ UNCHANGED vars
  <2>1. i \in Nat
    BY SizeFacts DEF CutInv, CutTypeOK
  <2>2. /\ UNCHANGED <<vals, windows, min_cost, path, partition>>
        /\ phase' \in {"windows", "reach", "relax"} =>
             phase \in {"windows", "reach", "relax"} /\ i' >= i /\ i' \in Nat
    BY <1>5, <2>1 DEF StartRelaxing, NextPosition, StartPath, vars
  <2>3. FollowsPath'
    BY <2>2 DEF CostInv, FollowsPath
  <2> QED  BY <2>2, <2>3, SameWindowsKeepCosts
<1> QED  BY <1>1, <1>2, <1>3, <1>4, <1>5 DEF CutNext

(* Along the path the costs of the blocks add up to that of the list.        *)
LEMMA FoundIsCost == ASSUME CutInv, CostInv PROVE CostIsFound
<1> SUFFICES ASSUME phase = "done"
             PROVE  IF min_cost[Size] < SingleBlockCost THEN min_cost[Size] = FoundCost
                    ELSE partition = <<Size>>
  BY DEF CostIsFound
<1>1. /\ CutTypeOK /\ PathLeadsBack /\ Increasing /\ CostsAddUp /\ FollowsPath
      /\ partition # <<>> /\ CurrPos = 0 /\ partition[1] = Size
  BY DEF CutInv, CostInv, BlocksLeadBack
<1>2. PICK L \in Nat \ {0} : L = Len(partition)
  BY <1>1 DEF CutTypeOK
<1>3. /\ \A k \in 1 .. L : partition[k] \in 1 .. Size
      /\ \A j \in 1 .. Size : path[j] \in 0 .. Size /\ path[j] < j
  <2>1. partition \in Seq(1 .. Size)
    BY <1>1 DEF CutTypeOK
  <2>2. \A k \in 1 .. L : partition[k] \in 1 .. Size
    BY <1>2, <2>1, ElementsOfASequence
  <2>3. ASSUME NEW j \in 1 .. Size  PROVE path[j] \in 0 .. Size /\ path[j] < j
    <3>1. path[j] < j
      BY <1>1 DEF PathLeadsBack
    <3>2. path \in [0 .. Size -> Nat]
      BY <1>1 DEF CutTypeOK
    <3>3. Size \in Nat
      BY <1>1, SizeFacts
    <3>4. path[j] \in Nat
      BY <3>2, <3>3
    <3> QED  BY <3>1, <3>3, <3>4
  <2> QED  BY <2>2, <2>3
<1>4. ASSUME NEW k \in 1 .. L  PROVE BeginOf(k) = path[partition[k]]
  <2>1. CASE k = L
    BY <1>1, <1>2, <2>1 DEF BeginOf, CurrPos
  <2>2. CASE k \in 1 .. L - 1
    BY <1>1, <1>2, <2>2 DEF BeginOf, FollowsPath
  <2> QED  BY <1>2, <2>1, <2>2
<1> DEFINE f == [k \in 1 .. Len(partition) |-> CutBlockCost(BeginOf(k), partition[k])]
<1>5. ASSUME NEW k \in 1 .. L
      PROVE  f[k] \in Nat /\ f[k] = CutBlockCost(path[partition[k]], partition[k])
  <2>1. partition[k] \in 1 .. Size /\ Size \in Nat
    BY <1>1, <1>3, SizeFacts
  <2>2. path[partition[k]] \in 0 .. Size /\ path[partition[k]] < partition[k]
    BY <1>3, <2>1
  <2>3. CutBlockCost(path[partition[k]], partition[k]) \in Nat
    BY <1>1, <2>1, <2>2, CutCostsAreNat
  <2>4. f[k] = CutBlockCost(path[partition[k]], partition[k])
    BY <1>2, <1>4
  <2> QED  BY <2>3, <2>4
<1>6. FoundCost = SumFunctionOnSet(f, 1 .. L)
  <2>1. FoundCost = SumFunctionOnSet(f, DOMAIN f)
    BY DEF FoundCost, SumFunction
  <2>2. DOMAIN f = 1 .. L
    BY <1>2
  <2> QED  BY <2>1, <2>2
<1> HIDE DEF f
<1>7. SummedUp(f, L)
  <2>1. \A k \in 1 .. L : f[k] \in Nat
    BY <1>5
  <2> QED  BY <2>1, SumsFromOne
<1>8. /\ \A j \in 0 .. Size : min_cost[j] \in Nat
      /\ min_cost[0] = 0 /\ SingleBlockCost \in Nat /\ Size \in Nat /\ Size > 0
      /\ \A j \in 1 .. Size : Reached(j)
  BY <1>1, CutCostsAreNat, SizeFacts DEF CostsAddUp
<1>9. CASE min_cost[Size] < SingleBlockCost
  <2> DEFINE sum(k) == SumFunctionOnSet(f, 1 .. k)
             Good == {k \in Nat \ {0} : /\ min_cost[partition[k]] < SingleBlockCost
                                        /\ min_cost[Size] = sum(k - 1) + min_cost[partition[k]]}
  <2>1. /\ sum(0) = 0 /\ \A k \in 0 .. L : sum(k) \in Nat
        /\ \A k \in 0 .. L - 1 : sum(k + 1) = sum(k) + f[k + 1]
    BY <1>7 DEF SummedUp
  <2> HIDE DEF sum
  <2>2. ASSUME NEW k \in 1 .. L, k \in Good
        PROVE  /\ min_cost[Size] = sum(k) + min_cost[path[partition[k]]]
               /\ min_cost[path[partition[k]]] < SingleBlockCost
    <3>1. partition[k] \in 1 .. Size /\ Reached(partition[k])
      BY <1>3, <1>8
    <3>2. min_cost[partition[k]] = min_cost[path[partition[k]]] + f[k] /\ f[k] \in Nat
      BY <1>5, <2>2, <3>1 DEF Reached
    <3>3. path[partition[k]] \in 0 .. Size
      BY <1>3, <3>1
    <3>4. min_cost[path[partition[k]]] \in Nat /\ min_cost[partition[k]] \in Nat
      BY <1>8, <3>1, <3>3
    <3>5. sum(k) = sum(k - 1) + f[k] /\ sum(k - 1) \in Nat
      <4>1. k - 1 \in 0 .. L - 1 /\ k - 1 \in 0 .. L /\ (k - 1) + 1 = k
        BY <1>2
      <4> QED  BY <2>1, <4>1
    <3> QED  BY <1>8, <2>2, <3>2, <3>4, <3>5
  <2>3. 1 \in Good
    BY <1>1, <1>8, <1>9, <2>1
  <2>4. ASSUME NEW k \in 1 .. L - 1, k \in Good  PROVE k + 1 \in Good
    <3>1. k \in 1 .. L /\ k + 1 \in Nat \ {0} /\ (k + 1) - 1 = k
      BY <1>2
    <3>2. partition[k + 1] = path[partition[k]]
      BY <1>1, <1>2 DEF FollowsPath
    <3> QED  BY <2>2, <2>4, <3>1, <3>2
  <2> HIDE DEF Good
  <2>5. \A k \in 1 .. L : k \in Good
    <3>1. L \in Int /\ 1 \in Int
      BY <1>2
    <3> QED  BY <2>3, <2>4, <3>1, InductionFrom
  <2>6. L \in 1 .. L /\ path[partition[L]] = 0
    BY <1>1, <1>2 DEF CurrPos
  <2>7. min_cost[Size] = sum(L) + min_cost[0]
    BY <2>2, <2>5, <2>6
  <2>8. min_cost[Size] = sum(L)
    BY <1>2, <1>8, <2>1, <2>7
  <2> QED  BY <1>6, <1>9, <2>8 DEF sum
<1>10. CASE ~(min_cost[Size] < SingleBlockCost)
  <2>1. path[Size] = 0
    BY <1>8, <1>10 DEF Reached
  <2>2. L = 1
    <3>1. CASE L > 1
      <4>1. partition[2] = path[Size]
        BY <1>1, <1>2, <3>1 DEF FollowsPath
      <4>2. partition[2] \in 1 .. Size
        BY <1>3, <3>1
      <4> QED  BY <2>1, <4>1, <4>2
    <3> QED  BY <3>1
  <2>3. partition = <<Size>>
    <3>1. partition \in Seq(1 .. Size) /\ Size \in 1 .. Size
      BY <1>1, <1>8 DEF CutTypeOK
    <3>2. <<Size>> \in Seq(1 .. Size) /\ Len(<<Size>>) = 1 /\ <<Size>>[1] = Size
      BY <3>1
    <3>3. Len(partition) = 1 /\ \A k \in 1 .. Len(partition) : partition[k] = <<Size>>[k]
      BY <1>1, <1>2, <2>2, <3>2
    <3> QED  BY <3>1, <3>2, <3>3, SeqEqual
  <2> QED  BY <1>10, <2>3
<1> QED  BY <1>9, <1>10

(* cost_opt is what the blocks found cost, for every list, every cost        *)
(* function and every choice of windows, unless one block for the whole      *)
(* universe was as cheap: the windows never lose count of what they show.    *)
THEOREM CostIsThatOfBlocks == CutSpec => []CostIsFound
<1>1. CutStart => CutInv /\ CostInv
  BY CutInvHoldsAtFirst, CostInvHoldsAtFirst
<1>2. CutInv /\ CostInv /\ [CutNext]_vars => CutInv' /\ CostInv'
  BY CutInvKept, CostInvKept
<1>3. CutInv /\ CostInv => CostIsFound
  BY FoundIsCost
<1> QED  BY <1>1, <1>2, <1>3, PTL DEF CutSpec
=============================================================================
