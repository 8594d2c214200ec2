---------------------------- MODULE OrderedBuild ----------------------------
(***************************************************************************)
(* What an index builder promises to its caller, whatever threads it uses: *)
(* the lists handed over by successive calls are appended to the index one *)
(* by one, each exactly once, in the order of the calls, and the build     *)
(* only finishes when every accepted list has been appended.  A failure    *)
(* while a list is encoded ends the process; no index comes out of it.     *)
(*                                                                         *)
(* Lists are named by the number of the call that added them: 1, 2, ...    *)
(***************************************************************************)
EXTENDS Naturals, Sequences

VARIABLES
  accepted,   \* how many lists the caller has handed over
  appended,   \* the lists that are in the index, in index order
  status      \* "open", "built" or "aborted"

absVars == <<accepted, appended, status>>

AbsInit ==
  /\ accepted = 0
  /\ appended = <<>>
  /\ status = "open"

Accept ==
  /\ status = "open"
  /\ accepted' = accepted + 1
  /\ UNCHANGED <<appended, status>>

AppendNext ==
  /\ status = "open"
  /\ Len(appended) < accepted
  /\ appended' = Append(appended, Len(appended) + 1)
  /\ UNCHANGED <<accepted, status>>

Finish ==
  /\ status = "open"
  /\ Len(appended) = accepted
  /\ status' = "built"
  /\ UNCHANGED <<accepted, appended>>

Abort ==
  /\ status = "open"
  /\ status' = "aborted"
  /\ UNCHANGED <<accepted, appended>>

AbsNext == Accept \/ AppendNext \/ Finish \/ Abort

AbsSpec == AbsInit /\ [][AbsNext]_absVars
=============================================================================
