----------------------------- MODULE MCHashTable -----------------------------
(***************************************************************************)
(* Instances of HashTable for TLC.  The hash values make three keys        *)
(* collide in a table of 4 slots and two of them in every table, and make  *)
(* the walks wrap around the end of the table.                             *)
(***************************************************************************)
EXTENDS HashTable, TLC

CONSTANTS k1, k2, k3, k4

MCKeys == {k1, k2, k3, k4}
MCHash == (k1 :> 3) @@ (k2 :> 3) @@ (k3 :> 7) @@ (k4 :> 2)

Symm == Permutations(Values)
==============================================================================
