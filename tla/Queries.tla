------------------------------ MODULE Queries -------------------------------
(***************************************************************************)
(* The query operators of queries.hpp side by side, over the same lists:   *)
(* a query is answered by one of them, chosen at the start.  Each has its  *)
(* own module; the variables of the others stay as they are.               *)
(***************************************************************************)
EXTENDS AndQuery, OrQuery, Wand, Maxscore

VARIABLE kind   \* which operator answers

vars == <<queryVars, kind, candidate, i, results, cur_doc, next_doc, score, non_essential>>

Init ==
  /\ kind \in {"and", "or", "wand", "maxscore"}
  /\ QueryInit
  /\ AndInit
  /\ MaxscoreInit

AndStep ==
  /\ kind = "and"
  /\ AndNext
  /\ UNCHANGED <<kind, cur_doc, next_doc, score, non_essential>>

OrStep ==
  /\ kind = "or"
  /\ OrNext
  /\ UNCHANGED <<kind, candidate, non_essential>>

WandStep ==
  /\ kind = "wand"
  /\ WandNext
  /\ UNCHANGED <<kind, candidate, i, results, cur_doc, next_doc, score, non_essential>>

MaxscoreStep ==
  /\ kind = "maxscore"
  /\ MaxscoreNext
  /\ UNCHANGED <<kind, candidate, results>>

Step == AndStep \/ OrStep \/ WandStep \/ MaxscoreStep

Returned == pc = "done" /\ UNCHANGED vars

Next == Step \/ Returned

(* One thread runs the query, and keeps running.                             *)
Spec == Init /\ [][Next]_vars /\ WF_vars(Step)

-----------------------------------------------------------------------------
(* Properties.                                                               *)

TypeOK ==
  /\ kind = "and" => AndTypeOK
  /\ kind = "or" => OrTypeOK
  /\ kind = "wand" => WandTypeOK
  /\ kind = "maxscore" => MaxscoreTypeOK

(* What a query returns is what a search of all the lists would return:      *)
(* exactly the intersection or the union, and the k best scores of it,       *)
(* however many documents wand and maxscore never look at and whatever the   *)
(* query object was used for before.                                         *)
FindsTheAnswer ==
  /\ kind = "and" => FindsTheIntersection
  /\ kind = "or" => FindsTheUnion
  /\ kind = "wand" => WandFindsTheBest
  /\ kind = "maxscore" => MaxscoreFindsTheBest

(* At every turn of their loops and_query and or_query have found exactly    *)
(* what lies before the candidate, and the enumerators are where the next    *)
(* turn needs them.                                                          *)
NothingSkipped ==
  /\ kind = "and" => AndNothingSkipped
  /\ kind = "or" => Frontier

(* At every turn of their loops what wand_query and maxscore_query have      *)
(* jumped over is in the queue or cannot enter it any more.                  *)
SkippedCannotEnter ==
  /\ kind = "wand" => WandSkippedCannotEnter
  /\ kind = "maxscore" => MaxscoreSkippedCannotEnter

(* wand_query finds its enumerators by increasing docid at every turn,       *)
(* although only one of them was moved and bubbled down.                     *)
StaysSorted == kind = "wand" => WandStaysSorted

(* and_query and wand_query only ask enumerators that are not past their end *)
(* to move forward, which next_geq assumes.                                  *)
CallsForward ==
  /\ kind = "and" => AndCallsForward
  /\ kind = "wand" => WandCallsForward

(* maxscore_query does ask lists for a document they are past; it is one     *)
(* they do not have, so that going back and staying find the same posting.   *)
BackwardCallsAreHarmless == kind = "maxscore" => MaxscoreBackwardCallsAreHarmless

(* So next_geq answers every call of the query operators, whichever posting  *)
(* list it is of, with the first posting not before the bound.               *)
CallsAreSafe == CallsForward /\ BackwardCallsAreHarmless

(* The assertion of next_geq, and the comment over it, "assume forward       *)
(* positions only", for the calls of maxscore_query.                         *)
MaxscoreCallsForward == kind = "maxscore" => MaxscoreAsksForward

(* Every query returns: each turn moves an enumerator.                       *)
Returns == <>(pc = "done")
=============================================================================
