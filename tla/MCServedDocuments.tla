------------------------- MODULE MCServedDocuments -------------------------
(* The whole way of one table's documents. *)
EXTENDS ServedDocuments, TLC
Symmetry == Permutations(Tables) \union Permutations(Bodies) \union Permutations(Contents)
=============================================================================
