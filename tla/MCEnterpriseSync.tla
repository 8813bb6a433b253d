-------------------------- MODULE MCEnterpriseSync --------------------------
(***************************************************************************)
(* Instances of EnterpriseSync for TLC.                                    *)
(***************************************************************************)
EXTENDS EnterpriseSync, TLC

\* Records that are mapped, and active ones that are not; the mapping of a
\* record with another identity or version is no different.
MCRecords ==
  {r \in Record :
     /\ r.deletion # "RESTRICTED"
     /\ r.mapping # "ACCEPT" => r.deletion = "ACTIVE" /\ r.mapping = "QUARANTINED"}

MCPageEnd == <<2, 3>>

Symmetry == Permutations(Version) \cup Permutations(Hash) \cup Permutations(Identity)
=============================================================================
