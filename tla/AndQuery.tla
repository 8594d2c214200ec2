------------------------------ MODULE AndQuery ------------------------------
(***************************************************************************)
(* and_query and ranked_and_query: the documents that have all the terms.  *)
(* The enumerators, shortest list first, chase a candidate document; each  *)
(* that skips it makes the document it landed on the candidate.            *)
(***************************************************************************)
EXTENDS RankedQuery

VARIABLE candidate

AndInit == candidate = NumDocs

-----------------------------------------------------------------------------
(* Plausible slips, as in SemiasyncQueue.                                    *)
FromSecond == 2
AlwaysSearching == pc = "loop"
NextDocument(t) == docid[t] + 1

-----------------------------------------------------------------------------
(* Sorted by increasing frequency.                                           *)
ListSize == [t \in QueryTerms |-> Cardinality(DocsOf(t))]

AndStart ==
  /\ NotEmpty
  /\ order' \in Sortings(ListSize)
  /\ candidate' = docid[order'[1]]
  /\ i' = 2
  /\ topk' = Cleared(topk)
  /\ pc' = "loop"
  /\ UNCHANGED <<weight, k, docid, results>>

AndSearching == pc = "loop" /\ candidate < NumDocs

(* Where the for loop restarts after a mismatch: the shortest list again.    *)
Restart == 1

AndNextEnumerator == i + 1

Probe ==
  /\ AndSearching
  /\ i <= Len(order)
  /\ docid' = [docid EXCEPT ![order[i]] = Geq(order[i], candidate)]
  /\ IF docid'[order[i]] # candidate
       THEN candidate' = docid'[order[i]] /\ i' = Restart
       ELSE UNCHANGED candidate /\ i' = AndNextEnumerator
  /\ UNCHANGED <<weight, k, topk, pc, order, results>>

(* The score is the sum of what every enumerator has where it is.            *)
ScoreOfMatch == SumFunction([t \in QueryTerms |-> WeightOf(t, docid[t])])

AfterMatch(t) == After(t)

Match ==
  /\ AndSearching
  /\ i > Len(order)
  /\ results' = results + 1
  /\ topk' = Insert(topk, k, ScoreOfMatch)
  /\ docid' = [docid EXCEPT ![order[1]] = AfterMatch(order[1])]
  /\ candidate' = docid'[order[1]]
  /\ i' = 2
  /\ UNCHANGED <<weight, k, pc, order>>

AndFinish ==
  /\ pc = "loop"
  /\ candidate = NumDocs
  /\ Finalize
  /\ UNCHANGED <<candidate, i, results>>

AndEmpty == EmptyQuery /\ UNCHANGED <<candidate, i, results>>

AndNext == AndEmpty \/ AndStart \/ Probe \/ Match \/ AndFinish

-----------------------------------------------------------------------------
(* Properties.                                                               *)

AndTypeOK ==
  /\ QueryTypeOK
  /\ candidate \in 0 .. NumDocs
  /\ i \in 1 .. Cardinality(QueryTerms) + 1
  /\ results \in 0 .. NumDocs

(* The count is that of the documents that have every term, and the queue    *)
(* holds the k best scores among them, nothing of an earlier query.          *)
FindsTheIntersection ==
  pc = "done" => results = Cardinality(AllTerms) /\ topk = Best(AllTerms)

(* The loop never leaves a match behind: what is counted is what lies before *)
(* the candidate, and the enumerators already moved are at the candidate.    *)
AndNothingSkipped ==
  pc = "loop" =>
    /\ results = Cardinality({d \in AllTerms : d < candidate})
    /\ candidate < NumDocs => \A j \in 2 .. i - 1 : docid[order[j]] = candidate
    /\ i > 1 => docid[order[1]] = candidate

(* The calls of next_geq are forward, and no enumerator past its end is      *)
(* moved or asked for a frequency.                                           *)
AndCallsForward ==
  AndSearching /\ i <= Len(order) =>
    docid[order[i]] < NumDocs /\ ForwardFor(order[i], candidate)
=============================================================================
