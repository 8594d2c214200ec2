------------------------------ MODULE Maxscore ------------------------------
(***************************************************************************)
(* maxscore_query: the k best documents that have any of the terms.  The   *)
(* enumerators are kept by increasing maximum.  Those at the front whose   *)
(* maxima together cannot enter the queue are non essential: a document    *)
(* must be in another list to be a candidate.  The essential lists are     *)
(* merged as ranked_or_query does; the non essential ones are then moved   *)
(* to the candidate, the last first, while its score may still enter.      *)
(***************************************************************************)
EXTENDS RankedQuery

VARIABLE non_essential   \* non_essential_lists: how many

maxscoreVars == <<non_essential, cur_doc, next_doc, score, i>>

MaxscoreInit == non_essential = 0

-----------------------------------------------------------------------------
(* Plausible slips, as in SemiasyncQueue.                                    *)
BoundOfTheRest(n) == UpperBound(n - 1)
NextTwice(t) == FirstGeq(DOMAIN weight[t], NumDocs, After(t) + 1)

-----------------------------------------------------------------------------
MaxscoreStart ==
  /\ NotEmpty
  /\ order' \in Sortings([t \in QueryTerms |-> MaxWeight(t)])
  /\ cur_doc' = MinDocid
  /\ topk' = Cleared(topk)
  /\ pc' = "essential"
  /\ UNCHANGED <<weight, k, docid, non_essential, next_doc, score, i>>

(* The loop's condition, tested before the first essential list of a         *)
(* document, and still true at the others.                                   *)
MaxscoreSearching == pc = "essential" /\ non_essential < Len(order) /\ cur_doc < NumDocs

MaxscoreAfterDoc(t) == After(t)

VisitEssential ==
  /\ MaxscoreSearching
  /\ i <= Len(order)
  /\ LET t == order[i] IN
       /\ IF docid[t] = cur_doc
            THEN /\ score' = score + WeightOf(t, cur_doc)
                 /\ docid' = [docid EXCEPT ![t] = MaxscoreAfterDoc(t)]
            ELSE UNCHANGED <<score, docid>>
       /\ next_doc' = IF docid'[t] < next_doc THEN docid'[t] ELSE next_doc
  /\ i' = i + 1
  /\ UNCHANGED <<weight, k, topk, pc, order, non_essential, cur_doc>>

(* The non essential lists are looked at from the last.                      *)
TurnBack ==
  /\ MaxscoreSearching
  /\ i > Len(order)
  /\ pc' = "complete"
  /\ i' = non_essential
  /\ UNCHANGED <<weight, k, topk, order, docid, non_essential, cur_doc, next_doc, score>>

(* upper_bounds of the lists not yet looked at.                              *)
BoundOfLists(n) == UpperBound(n)

MayStillEnter == i > 0 /\ WouldEnter(topk, k, score + BoundOfLists(i))

MaxscoreJumpTo(t, doc) == Geq(t, doc)

CompleteScore ==
  /\ pc = "complete"
  /\ MayStillEnter
  /\ LET t == order[i] IN
       /\ docid' = [docid EXCEPT ![t] = MaxscoreJumpTo(t, cur_doc)]
       /\ score' = IF docid'[t] = cur_doc THEN score + WeightOf(t, cur_doc) ELSE score
  /\ i' = i - 1
  /\ UNCHANGED <<weight, k, topk, pc, order, non_essential, cur_doc, next_doc>>

(* The first of the lists, from non_essential on, whose maxima with those of *)
(* the lists before it would enter the queue.                                *)
NonEssentialLists ==
  CHOOSE n \in non_essential .. Len(order) :
    /\ n = Len(order) \/ WouldEnter(topk', k, UpperBound(n + 1))
    /\ \A m \in non_essential .. n - 1 : ~WouldEnter(topk', k, UpperBound(m + 1))

MaxscoreEndDoc ==
  /\ pc = "complete"
  /\ ~MayStillEnter
  /\ topk' = Insert(topk, k, score)
  /\ non_essential' = IF WouldEnter(topk, k, score) THEN NonEssentialLists
                      ELSE non_essential
  /\ cur_doc' = next_doc
  /\ next_doc' = NumDocs
  /\ score' = 0
  /\ i' = non_essential' + 1
  /\ pc' = "essential"
  /\ UNCHANGED <<weight, k, order, docid>>

MaxscoreFinish ==
  /\ pc = "essential"
  /\ non_essential = Len(order) \/ cur_doc = NumDocs
  /\ Finalize
  /\ UNCHANGED maxscoreVars

MaxscoreEmpty == EmptyQuery /\ UNCHANGED maxscoreVars

MaxscoreNext ==
  \/ MaxscoreEmpty \/ MaxscoreStart \/ VisitEssential \/ TurnBack \/ CompleteScore \/ MaxscoreEndDoc \/ MaxscoreFinish

-----------------------------------------------------------------------------
(* Properties.                                                               *)

MaxscoreTypeOK ==
  /\ QueryTypeOK
  /\ non_essential \in 0 .. Cardinality(QueryTerms)
  /\ cur_doc \in 0 .. NumDocs
  /\ next_doc \in 0 .. NumDocs
  /\ score \in Nat
  /\ i \in 0 .. Cardinality(QueryTerms) + 1

(* The early stops cost nothing: the queue ends with the k best scores of    *)
(* all the documents that have a term, as ranked_or_query would find them.   *)
MaxscoreFindsTheBest == pc = "done" => topk = Best(AnyTerm)

(* At the head of the loop the queue holds the best of all that lies before  *)
(* cur_doc, the documents only non essential lists have included, and no     *)
(* essential list has passed cur_doc.                                        *)
AtHead == pc = "essential" /\ i = non_essential + 1

MaxscoreSkippedCannotEnter ==
  AtHead =>
    /\ topk = Best({d \in AnyTerm : d < cur_doc})
    /\ \A n \in non_essential + 1 .. Len(order) : docid[order[n]] = Geq(order[n], cur_doc)

(* A list becomes non essential after it was moved past cur_doc as an        *)
(* essential one, and is then asked for an earlier document.  Whether such a *)
(* call goes back or stays, it finds the same posting.                       *)
MaxscoreBackwardCallsAreHarmless ==
  pc = "complete" /\ MayStillEnter /\ docid[order[i]] > cur_doc =>
    Geq(order[i], cur_doc) = docid[order[i]]

(* The assertion of block_posting_list's next_geq, and the comment over it:  *)
(* "assume forward positions only".                                          *)
MaxscoreAsksForward ==
  pc = "complete" /\ MayStillEnter => ForwardFor(order[i], cur_doc)
=============================================================================
