-------------------------- MODULE MCCandidateSync --------------------------
(* The candidate lifecycle on a small database. *)
EXTENDS CandidateSync, TLC
Symmetry == Permutations(Tables) \union Permutations(Bodies) \union Permutations(Contents)
            \union Permutations(Inputs) \union Permutations(Identities)
=============================================================================
