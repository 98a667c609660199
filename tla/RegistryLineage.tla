--------------------------- MODULE RegistryLineage ---------------------------
(***************************************************************************)
(* The Dataset Registry implements VersionLineage: the rows of             *)
(* master_datasets, read as numbered histories of their file names, only   *)
(* ever gain or lose a latest version.                                     *)
(***************************************************************************)
EXTENDS DatasetRegistry

HistoryOf(n) == {<<masters[f].version, f>> : f \in VersionsOf(n)}

Lineage == INSTANCE VersionLineage WITH history <- [n \in Names |-> HistoryOf(n)]

\* Every step of the registry is a step of the lineage or leaves it alone:
\* the lookup, the file and the insert of register() are three steps, and
\* deletions fall between them.
ImplementsLineage == Lineage!Spec

=============================================================================
