---------------------------- MODULE MCSchemaSync ----------------------------
(* Two databases of one table each. *)
EXTENDS SchemaSync, TLC
Symmetry == Permutations(Tables) \union Permutations(Versions)
=============================================================================
