--------------------------- MODULE MCReviewRuns ---------------------------
(***************************************************************************)
(* Instances of ReviewRuns for TLC.                                        *)
(***************************************************************************)
EXTENDS ReviewRuns, TLC

Symmetry == Permutations(Worker) \cup Permutations(Run)
=============================================================================
