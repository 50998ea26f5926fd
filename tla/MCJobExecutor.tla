--------------------------- MODULE MCJobExecutor ---------------------------
(* Instances of JobExecutor for TLC.                                       *)
EXTENDS JobExecutor, TLC

\* Requests of one kind are interchangeable, and so are fresh job ids.  Used
\* for safety only.
Symmetry == Permutations(Runs) \cup Permutations(Ctls) \cup Permutations(Jobs)
=============================================================================
