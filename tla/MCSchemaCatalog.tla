-------------------------- MODULE MCSchemaCatalog --------------------------
(* Uploads, names and servers are interchangeable. *)
EXTENDS SchemaCatalog, TLC

CatalogSymmetry == Permutations(Uploads) \cup Permutations(Names) \cup Permutations(Servers)

=============================================================================
