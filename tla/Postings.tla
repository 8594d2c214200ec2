------------------------------ MODULE Postings ------------------------------
(***************************************************************************)
(* A posting list is a set of document identifiers below the number of     *)
(* documents, num_docs.  What every enumerator of the repository offers is *)
(* a position in it; num_docs stands for the position after the last one.  *)
(***************************************************************************)
EXTENDS Integers, FiniteSets

(* The smallest posting that is at least lower_bound, or num_docs.           *)
FirstGeq(postings, num_docs, lower_bound) ==
  CHOOSE d \in postings \cup {num_docs} :
    /\ d >= lower_bound \/ d = num_docs
    /\ \A e \in postings : e >= lower_bound => d <= e

(* How many postings come before d: the position of d.                       *)
Rank(postings, d) == Cardinality({e \in postings : e < d})
=============================================================================
