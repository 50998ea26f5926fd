--------------------------- MODULE MCConfirmFlow ---------------------------
(* Model values for ConfirmFlow.                                           *)
EXTENDS ConfirmFlow, TLC

CONSTANTS c1, c2, l1, l2, l3, s1

\* l1 and l2 are written by the script, l3 by a direct tool call.
MCAuthor == [l \in Locals |-> IF l \in {l1, l2} THEN s1 ELSE None]
=============================================================================
