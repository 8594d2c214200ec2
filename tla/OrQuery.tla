------------------------------ MODULE OrQuery -------------------------------
(***************************************************************************)
(* or_query and ranked_or_query: the documents that have any of the terms, *)
(* in increasing order.  Every enumerator is looked at for every document: *)
(* the ones at cur_doc are scored and moved on, and the smallest document  *)
(* any of them is at is the next one.                                      *)
(***************************************************************************)
EXTENDS RankedQuery

orVars == <<cur_doc, next_doc, i, score, results>>

-----------------------------------------------------------------------------
(* Plausible slips, as in SemiasyncQueue.                                    *)
LookedAtBefore(t) == docid[t]
KeepScore == score

-----------------------------------------------------------------------------
OrStart ==
  /\ NotEmpty
  /\ order' = SetToSeq(QueryTerms)
  /\ cur_doc' = MinDocid
  /\ next_doc' = NumDocs
  /\ topk' = Cleared(topk)
  /\ pc' = "loop"
  /\ UNCHANGED <<weight, k, docid, i, score, results>>

OrSearching == pc = "loop" /\ cur_doc < NumDocs

OrAfterDoc(t) == After(t)

(* The document the enumerator is at once the body has run for it.           *)
LookedAt(t) == docid'[t]

OrNextEnumerator == i + 1

Visit ==
  /\ OrSearching
  /\ i <= Len(order)
  /\ LET t == order[i] IN
       /\ IF docid[t] = cur_doc
            THEN /\ score' = score + WeightOf(t, cur_doc)
                 /\ docid' = [docid EXCEPT ![t] = OrAfterDoc(t)]
            ELSE UNCHANGED <<score, docid>>
       /\ next_doc' = IF LookedAt(t) < next_doc THEN LookedAt(t) ELSE next_doc
  /\ i' = OrNextEnumerator
  /\ UNCHANGED <<weight, k, topk, pc, order, cur_doc, results>>

ScoreForNext == 0

OrEndDoc ==
  /\ OrSearching
  /\ i > Len(order)
  /\ results' = results + 1
  /\ topk' = Insert(topk, k, score)
  /\ cur_doc' = next_doc
  /\ next_doc' = NumDocs
  /\ score' = ScoreForNext
  /\ i' = 1
  /\ UNCHANGED <<weight, k, pc, order, docid>>

OrFinish ==
  /\ pc = "loop"
  /\ cur_doc = NumDocs
  /\ Finalize
  /\ UNCHANGED orVars

OrEmpty == EmptyQuery /\ UNCHANGED orVars

OrNext == OrEmpty \/ OrStart \/ Visit \/ OrEndDoc \/ OrFinish

-----------------------------------------------------------------------------
(* Properties.                                                               *)

OrTypeOK ==
  /\ QueryTypeOK
  /\ cur_doc \in 0 .. NumDocs
  /\ next_doc \in 0 .. NumDocs
  /\ i \in 1 .. Cardinality(QueryTerms) + 1
  /\ score \in Nat
  /\ results \in 0 .. NumDocs

(* The count is that of the documents that have a term, and the queue holds  *)
(* the k best scores among them, nothing of an earlier query.                *)
FindsTheUnion ==
  pc = "done" => results = Cardinality(AnyTerm) /\ topk = Best(AnyTerm)

(* The enumerators advance together: between two documents, all of them are  *)
(* at their first posting from cur_doc on, one of them at cur_doc, and every *)
(* document before it has been counted.                                      *)
Frontier ==
  pc = "loop" /\ i = 1 =>
    /\ \A t \in QueryTerms : docid[t] = Geq(t, cur_doc)
    /\ cur_doc = MinDocid
    /\ results = Cardinality({d \in AnyTerm : d < cur_doc})
=============================================================================
