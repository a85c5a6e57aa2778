----------------------------- MODULE PointNames -----------------------------
(***************************************************************************)
(* The names of points of failure and what a lookup may find.  A key of    *)
(* the table is either a final name or a wildcard, a string that ends in   *)
(* '*'; Matches says which wildcards cover which names.  (Candidates_bug   *)
(* is a faulty version of Candidates, to see that a property notices it.)  *)
(***************************************************************************)
CONSTANTS Finals,     \* names without a trailing '*'
          Wildcards,  \* names with one
          Matches,    \* <<w, n>> when wildcard w covers final name n
          NULL

ASSUME PointNamesAssumption ==
    /\ Finals \cap Wildcards = {}
    /\ Matches \subseteq Wildcards \X Finals

Keys == Finals \cup Wildcards

\* What a lookup of n in table tab (the value of every key, NULL when it has
\* none) may return: the final entry if there is one, else the value of any
\* wildcard that covers n (wtable.c:15 "If more than one entry matches, we do
\* not guarantee any order").
Covering(tab, n) == {w \in Wildcards : <<w, n>> \in Matches /\ tab[w] # NULL}

Candidates_bug(tab, n) ==
    IF Covering(tab, n) # {} THEN {tab[w] : w \in Covering(tab, n)} ELSE {tab[n]}

Candidates(tab, n) ==
    IF tab[n] # NULL THEN {tab[n]}
    ELSE IF Covering(tab, n) = {} THEN {NULL}
    ELSE {tab[w] : w \in Covering(tab, n)}
=============================================================================
