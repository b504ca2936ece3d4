----------------------------- MODULE MCMpmcRing -----------------------------
(* The ring with a symmetry for TLC: threads of a kind are interchangeable. *)
EXTENDS MpmcRingInvariant, MpmcRingRefinement, TLC

Symmetry == Permutations(Producers) \cup Permutations(Consumers)
=============================================================================
