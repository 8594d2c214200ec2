---------------------------- MODULE RankedQuery -----------------------------
(***************************************************************************)
(* What the query operators of queries.hpp share: the terms of the query   *)
(* with one enumerator each, and the topk_queue of the query object.       *)
(*                                                                         *)
(* An enumerator is a PostingCursor, of which only docid() is kept here.   *)
(* next_geq is the one that can also go back, as Elias-Fano's does, so     *)
(* that a call that is not forward shows.  What a posting adds to a score, *)
(* q_weight * doc_term_weight, is a small positive integer: rounding is    *)
(* left out.                                                               *)
(***************************************************************************)
EXTENDS Postings, SequencesExt

CONSTANTS
  Terms,      \* the terms there are
  NumDocs,    \* index.num_docs()
  Lists,      \* the lists a term may have: documents |-> their weights
  Ks          \* the k the query object may be made with

ASSUME QueryAssumption ==
  /\ IsFiniteSet(Terms)
  /\ NumDocs \in Nat \ {0}
  /\ \A l \in Lists :
       /\ DOMAIN l \in (SUBSET (0 .. NumDocs - 1)) \ {{}}
       /\ \A d \in DOMAIN l : l[d] \in Nat \ {0}
  /\ Ks \subseteq Nat \ {0}

(***************************************************************************)
(* topk_queue: the k highest scores seen, in a heap whose front is the     *)
(* lowest of them.  Of the heap only its multiset and its front matter, so *)
(* it is kept as an ascending sequence.  k is at least 1: would_enter and  *)
(* insert read the front of a full queue.                                  *)
(***************************************************************************)
WouldEnter(queue, size, s) == Len(queue) < size \/ s > Head(queue)

InsertSorted(queue, s) ==
  LET below == {j \in 1 .. Len(queue) : queue[j] < s}
      n == Cardinality(below)
  IN SubSeq(queue, 1, n) \o <<s>> \o SubSeq(queue, n + 1, Len(queue))

Insert(queue, size, s) ==
  IF Len(queue) < size THEN InsertSorted(queue, s)
  ELSE IF s > Head(queue) THEN InsertSorted(Tail(queue), s)
  ELSE queue

-----------------------------------------------------------------------------
VARIABLES
  weight,     \* of each term of the query, its documents and their weights
  k,          \* m_k
  topk,       \* m_topk
  pc,         \* "start", "loop", "done", and the query's own
  order,      \* the enumerators in the order they are kept in
  docid       \* docs_enum.docid() of each term

(* The locals the loops have in common; an operator leaves alone the ones it *)
(* does not have.                                                            *)
VARIABLES
  i,          \* the enumerator to look at next, from 1
  results,    \* how many documents were found
  cur_doc,
  next_doc,
  score       \* of cur_doc, so far

queryVars == <<weight, k, topk, pc, order, docid>>

QueryTerms == DOMAIN weight

DocsOf(t) == DOMAIN weight[t]

WeightOf(t, d) == IF d \in DocsOf(t) THEN weight[t][d] ELSE 0

First(t) == FirstGeq(DocsOf(t), NumDocs, 0)

After(t) == FirstGeq(DocsOf(t), NumDocs, docid[t] + 1)

Geq(t, lower_bound) == FirstGeq(DocsOf(t), NumDocs, lower_bound)

(* The query object was used before: its queue may still hold what the last  *)
(* query found.                                                              *)
QueryInit ==
  /\ weight \in UNION {[terms -> Lists] : terms \in SUBSET Terms}
  /\ k \in Ks
  /\ topk \in {<<>>, [j \in 1 .. k |-> 100]}
  /\ pc = "start"
  /\ order = <<>>
  /\ docid = [t \in QueryTerms |-> First(t)]
  /\ i = 1
  /\ results = 0
  /\ cur_doc = NumDocs
  /\ next_doc = NumDocs
  /\ score = 0

(* The slip: another posting's weight.                                       *)
LeastWeight(t) == CHOOSE w \in Range(weight[t]) : \A v \in Range(weight[t]) : w <= v

(* wand_data's max_term_weight times the query weight: the most a posting of *)
(* the list adds.                                                            *)
MaxWeight(t) == CHOOSE w \in Range(weight[t]) : \A v \in Range(weight[t]) : w >= v

(* The sum of the maxima of the first n enumerators.                         *)
UpperBound(n) == SumFunction([j \in 1 .. n |-> MaxWeight(order[j])])

(* The enumerators in any order std::sort may leave, given what it sorts by. *)
Sortings(key) ==
  {s \in SetToSeqs(QueryTerms) : \A j \in 1 .. Len(s) - 1 : key[s[j]] <= key[s[j + 1]]}

MinDocid == CHOOSE d \in Range(docid) : \A t \in QueryTerms : d <= docid[t]

(* Plausible slips, as in SemiasyncQueue.                                    *)
KeepQueue(queue) == queue

Cleared(queue) == <<>>

(* The early return of an empty query, after m_topk.clear().                 *)
EmptyQuery ==
  /\ pc = "start"
  /\ QueryTerms = {}
  /\ topk' = Cleared(topk)
  /\ pc' = "done"
  /\ UNCHANGED <<weight, k, order, docid>>

NotEmpty == pc = "start" /\ QueryTerms # {}

(* finalize() only sorts the heap.                                           *)
Finalize ==
  /\ pc' = "done"
  /\ UNCHANGED <<weight, k, topk, order, docid>>

-----------------------------------------------------------------------------
(* What the queries promise.                                                 *)

AnyTerm == UNION {DocsOf(t) : t \in QueryTerms}

AllTerms == {d \in AnyTerm : \A t \in QueryTerms : d \in DocsOf(t)}

Score(d) == SumFunction([t \in QueryTerms |-> WeightOf(t, d)])

(* The k best scores of a set of documents, lowest first.                    *)
Best(docs) ==
  FoldSet(LAMBDA d, queue :
            LET all == InsertSorted(queue, Score(d))
            IN IF Len(all) > k THEN Tail(all) ELSE all,
          <<>>, docs)

QueryTypeOK ==
  /\ DOMAIN docid = QueryTerms
  /\ \A t \in QueryTerms : docid[t] \in DocsOf(t) \cup {NumDocs}
  /\ Len(topk) <= k
  /\ order = <<>> \/ (Len(order) = Cardinality(QueryTerms) /\ ToSet(order) = QueryTerms)

(* next_geq assumes forward positions only (block_posting_list asserts it):  *)
(* the bound is not before the document the enumerator is at, unless it is   *)
(* still at its first.                                                       *)
ForwardFor(t, lower_bound) == lower_bound >= docid[t] \/ docid[t] = First(t)
=============================================================================
