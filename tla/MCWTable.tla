------------------------------ MODULE MCWTable ------------------------------
(***************************************************************************)
(* Instances of WTable for TLC.  w1 covers both names, so that they share  *)
(* an entry; w2 covers n1 only, which has nothing left for the '*', so     *)
(* that n1 has two candidates; w3 covers nothing, for it asks for more     *)
(* than n1 has, and makes the array grow.                                  *)
(***************************************************************************)
EXTENDS WTable, TLC

n1 == <<"a", "b">>
n2 == <<"a", "c">>
w1 == <<"*">>
w2 == <<"a", "b", "*">>
w3 == <<"a", "b", "c", "*">>

MCFinals == {n1, n2}
MCWildcards == {w1, w2, w3}
MCMatches == {<<w1, n1>>, <<w1, n2>>, <<w2, n1>>}
MCHash == (n1 :> 5) @@ (n2 :> 7)

MCIncarnations == (n1 :> {1, 2}) @@ (n2 :> {1}) @@ (w1 :> {1, 2})
                     @@ (w2 :> {1}) @@ (w3 :> {1})

ReaderSymm == Permutations(Readers)
=============================================================================
