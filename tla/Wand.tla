-------------------------------- MODULE Wand --------------------------------
(***************************************************************************)
(* wand_query: the k best documents that have any of the terms, without    *)
(* looking at all of them.  The enumerators are kept by increasing docid.  *)
(* The pivot is the first at which the sum of the lists' maxima could      *)
(* enter the queue: no document before the pivot's can.  If the first      *)
(* enumerator is at the pivot's document too, that document is scored; if  *)
(* not, the last list before it jumps to it.                               *)
(***************************************************************************)
EXTENDS RankedQuery

-----------------------------------------------------------------------------
(* Plausible slips, as in SemiasyncQueue.                                    *)
NoBubble(s, n) == s
StayAtPivot(t) == docid[t]

-----------------------------------------------------------------------------
WandStart ==
  /\ NotEmpty
  /\ order' \in Sortings(docid)
  /\ topk' = Cleared(topk)
  /\ pc' = "loop"
  /\ UNCHANGED <<weight, k, docid>>

IsPivot(n) ==
  /\ \A m \in 1 .. n : docid[order[m]] # NumDocs
  /\ WouldEnter(topk, k, UpperBound(n))
  /\ \A m \in 1 .. n - 1 : ~WouldEnter(topk, k, UpperBound(m))

PivotDoc(n) == docid[order[n]]

(* The enumerators at the head of the order that are at the pivot.           *)
AtPivot(pivot) ==
  {n \in 1 .. Len(order) : \A m \in 1 .. n : docid[order[m]] = PivotDoc(pivot)}

AfterPivot(t) == After(t)

ScorePivot(pivot) ==
  /\ PivotDoc(pivot) = docid[order[1]]
  /\ LET matching == {order[n] : n \in AtPivot(pivot)}
         found == SumFunction([t \in matching |-> WeightOf(t, docid[t])])
     IN /\ topk' = Insert(topk, k, found)
        /\ docid' = [t \in QueryTerms |-> IF t \in matching THEN AfterPivot(t) ELSE docid[t]]
  /\ order' \in Sortings(docid')
  /\ UNCHANGED <<weight, k, pc>>

(* The list to move is the last before the pivot's document.                 *)
NextList(pivot) ==
  CHOOSE n \in 1 .. pivot :
    /\ docid[order[n]] # PivotDoc(pivot)
    /\ \A m \in n + 1 .. pivot : docid[order[m]] = PivotDoc(pivot)

(* Swapped towards the end while the next one is at an earlier document: s   *)
(* ends where what follows is not before it.                                 *)
BubbleDown(s, n) ==
  LET moved == s[n]
      before == {m \in n + 1 .. Len(s) :
                   \A j \in n + 1 .. m : docid'[s[j]] < docid'[moved]}
      last == n + Cardinality(before)
  IN SubSeq(s, 1, n - 1) \o SubSeq(s, n + 1, last) \o <<moved>>
       \o SubSeq(s, last + 1, Len(s))

WandJumpTo(t, doc) == Geq(t, doc)

AdvanceList(pivot) ==
  /\ PivotDoc(pivot) # docid[order[1]]
  /\ LET n == NextList(pivot) IN
       /\ docid' = [docid EXCEPT ![order[n]] = WandJumpTo(order[n], PivotDoc(pivot))]
       /\ order' = BubbleDown(order, n)
  /\ UNCHANGED <<weight, k, topk, pc>>

Pivots == {n \in 1 .. Len(order) : IsPivot(n)}

WandTurn == pc = "loop" /\ \E pivot \in Pivots : ScorePivot(pivot) \/ AdvanceList(pivot)

(* No pivot: an enumerator at its end comes first, or the maxima of all the  *)
(* lists that are left cannot enter.                                         *)
WandFinish == pc = "loop" /\ Pivots = {} /\ Finalize

WandNext == EmptyQuery \/ WandStart \/ WandTurn \/ WandFinish

-----------------------------------------------------------------------------
(* Properties.                                                               *)

WandTypeOK == QueryTypeOK

(* The early stops cost nothing: the queue ends with the k best scores of    *)
(* all the documents that have a term, as ranked_or_query would find them.   *)
WandFindsTheBest == pc = "done" => topk = Best(AnyTerm)

(* A document some enumerator has jumped over was scored or can enter no     *)
(* more: the queue holds the best of all that lies before the first          *)
(* enumerator, and what lies after it and was jumped over would not enter.   *)
JumpedOver(d) == \E t \in QueryTerms : d \in DocsOf(t) /\ d < docid[t]

WandSkippedCannotEnter ==
  pc = "loop" =>
    /\ topk = Best({d \in AnyTerm : d < docid[order[1]]})
    /\ \A d \in AnyTerm :
         d >= docid[order[1]] /\ JumpedOver(d) => ~WouldEnter(topk, k, Score(d))

(* The loop finds the enumerators by increasing docid, although only one of  *)
(* them was moved and bubbled down since they were sorted.                   *)
WandStaysSorted ==
  pc = "loop" =>
    \A n \in 1 .. Len(order) - 1 : docid[order[n]] <= docid[order[n + 1]]

(* next_geq is called forward.                                               *)
WandCallsForward ==
  pc = "loop" =>
    \A p \in Pivots : PivotDoc(p) # docid[order[1]] =>
      LET t == order[NextList(p)] IN docid[t] < NumDocs /\ ForwardFor(t, PivotDoc(p))
=============================================================================
