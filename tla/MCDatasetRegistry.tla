-------------------------- MODULE MCDatasetRegistry --------------------------
(* Instances of DatasetRegistry for TLC.                                   *)
EXTENDS RegistryLineage, TLC

\* Contents, names, uploads and admins are interchangeable (no action or
\* invariant tells two of them apart).
Symmetry ==
  Permutations(Fingerprints) \cup Permutations(Names) \cup Permutations(Uploads)
    \cup Permutations(Admins) \cup Permutations(Servers)

=============================================================================
