--------------------------- MODULE MCSharedState ---------------------------
(* Two processes and two repositories; a day is two units, and everything  *)
(* ages within the bound on the clock.  The caches do not fit together.    *)
EXTENDS SharedState

MCSizes == [r \in Repos |-> 1]

Symmetry == Permutations(Processes) \union Permutations(Repos)
=============================================================================
