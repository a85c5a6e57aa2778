-------------------------------- MODULE MCFiu --------------------------------
(***************************************************************************)
(* Instances of Fiu for TLC: one name and one wildcard that covers it.     *)
(***************************************************************************)
EXTENDS Fiu, TLC

CONSTANTS n1, w1

MCMatches == {<<w1, n1>>}

Symm == Permutations(Threads) \cup Permutations(Pfs)
==============================================================================
