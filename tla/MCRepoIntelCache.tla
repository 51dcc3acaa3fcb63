-------------------------- MODULE MCRepoIntelCache --------------------------
(* Two paths of one language, a content that parses and one that does not; *)
(* in the rename instance the second path is not indexed.             *)
EXTENDS RepoIntelCache, TLC

CONSTANTS b1, b2, c1, bad, py, OneLanguage

MCLanguage == [x \in 1 .. NumPaths |-> IF OneLanguage \/ x = 1 THEN py ELSE None]

(* One file that parses, alone or beside one that does not. *)
MCRepositories == {[x \in 1 .. NumPaths |-> IF x = 1 THEN c1 ELSE c] : c \in {bad, None}}

Symmetry == Permutations({b1, b2})
=============================================================================
