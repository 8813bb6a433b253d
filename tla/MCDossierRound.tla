--------------------------- MODULE MCDossierRound ---------------------------
(***************************************************************************)
(* Instances of DossierRound for TLC.                                      *)
(***************************************************************************)
EXTENDS DossierRound, TLC

\* Which recommendation is which makes no difference.
Symmetry == Permutations(Advice)
=============================================================================
