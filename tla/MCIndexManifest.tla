-------------------------- MODULE MCIndexManifest --------------------------
(* Two documents; the names of two of their parts have the same key. *)
EXTENDS IndexManifest, TLC
CONSTANTS p1, p2, p3, k1, k2
OneKeyShared == (p1 :> k1) @@ (p2 :> k2) @@ (p3 :> k2)
Symmetry == Permutations(Documents) \union Permutations({p2, p3})
=============================================================================
