-------------------------- MODULE MCAttemptLedger --------------------------
(***************************************************************************)
(* Instances of AttemptLedger for TLC.                                     *)
(***************************************************************************)
EXTENDS AttemptLedger, TLC

Symmetry == Permutations(Worker)
=============================================================================
