----------------------------- MODULE Publication -----------------------------
(***************************************************************************)
(* What one call of JobQueue.publish_job promises its caller, and what the *)
(* platform's model takes for granted of it: a call that returns has left  *)
(* the broker one copy of the message or two; a call that raises may have  *)
(* left none, one or two.                                                  *)
(***************************************************************************)
EXTENDS Naturals

VARIABLES
  phase,    \* where the call is
  taken     \* copies of its message the broker has accepted

publicationVars == <<phase, taken>>

MostCopies == 2

PublicationInit == phase = "out" /\ taken = 0

Begin == phase = "out" /\ phase' = "calling" /\ taken' = 0

Accept == phase = "calling" /\ taken < MostCopies /\ taken' = taken + 1 /\ UNCHANGED phase

\* A call that returns: its last copy is accepted by the step that ends it.
Return ==
  /\ phase = "calling" /\ phase' = "returned"
  /\ taken' \in 1 .. MostCopies /\ taken' = taken + 1

\* A call that raises; the last copy may have been taken, and its confirm lost.
Raise ==
  /\ phase = "calling" /\ phase' = "raised"
  /\ taken' \in {taken, taken + 1} /\ taken' <= MostCopies

End == phase \in {"returned", "raised"} /\ phase' = "out" /\ taken' = 0

PublicationNext == Begin \/ Accept \/ Return \/ Raise \/ End

PublicationSpec == PublicationInit /\ [][PublicationNext]_publicationVars

=============================================================================
