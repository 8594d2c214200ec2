------------------------------ MODULE MCQueries -----------------------------
(* Queries over every query of at most three lists, each one of ten over     *)
(* four documents: long ones, ones that start at the first document, and one *)
(* that starts at the last.                                                  *)
(* One posting of a list weighs more than the others: the first or the last, *)
(* depending on the length, so that the maxima of the lists differ and are   *)
(* met early in some and late in others.                                     *)
EXTENDS Queries

MCTerms == {"a", "b", "c"}
MCKs == {1, 2}

Heaviest(docs) ==
  IF Cardinality(docs) % 2 = 0 THEN CHOOSE d \in docs : \A x \in docs : d <= x
  ELSE CHOOSE d \in docs : \A x \in docs : d >= x

MCLists ==
  {[d \in docs |-> IF d = Heaviest(docs) THEN 1 + Cardinality(docs) ELSE 1] :
     docs \in {x \in SUBSET (0 .. NumDocs - 1) :
                 Cardinality(x) >= 3 \/ 0 \in x \/ x = {NumDocs - 1}}}
=============================================================================
