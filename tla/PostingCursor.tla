--------------------------- MODULE PostingCursor ----------------------------
(***************************************************************************)
(* What a document_enumerator promises: a cursor over the postings of one  *)
(* list.  "call" is the call just answered, so that an implementation has  *)
(* to give the right answer to the same calls.                             *)
(***************************************************************************)
EXTENDS Postings

CONSTANT Universe   \* num_docs, the docid of the cursor past the last posting

VARIABLES
  postings,         \* the documents of the list
  docid,            \* where the cursor is; Universe past the end
  call              \* the last call and its argument

cursorVars == <<postings, docid, call>>

FirstFrom(lower_bound) == FirstGeq(postings, Universe, lower_bound)

Answer(op, arg, d) ==
  /\ docid' = d
  /\ call' = <<op, arg>>
  /\ UNCHANGED postings

CursorInit ==
  /\ docid = FirstFrom(0)
  /\ call = <<"reset", 0>>

CursorReset == Answer("reset", 0, FirstFrom(0))

CursorNext == docid < Universe /\ Answer("next", 0, FirstFrom(docid + 1))

(* next_geq goes forward only.                                               *)
CursorNextGeq(lb) ==
  Answer("next_geq", lb, IF lb > docid THEN FirstFrom(lb) ELSE docid)

(* next_geq_non_forward goes wherever the bound is.                          *)
CursorSeek(lb) == Answer("next_geq_non_forward", lb, FirstFrom(lb))

CursorMove(pos) ==
  \E d \in postings : Rank(postings, d) = pos /\ Answer("move", pos, d)

CursorFreq == Answer("freq", 0, docid)

CursorStep ==
  \/ CursorReset
  \/ CursorNext
  \/ CursorFreq
  \/ \E arg \in 0 .. Universe : CursorNextGeq(arg) \/ CursorSeek(arg) \/ CursorMove(arg)

CursorSpec == CursorInit /\ [][CursorStep]_cursorVars
=============================================================================
