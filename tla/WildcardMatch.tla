--------------------------- MODULE WildcardMatch ---------------------------
(***************************************************************************)
(* How wtable.c compares the key of an entry with a name.  A string is the *)
(* sequence of its characters, without the one that ends it; it is not     *)
(* empty.  (ws_matches_s_bug is a faulty version of ws_matches_s, to see   *)
(* that a property notices it.)                                            *)
(***************************************************************************)
EXTENDS SequencesExt

\* The number of characters from the start on that are the same: the rounds
\* of its loop.
strlast(s1, s2) ==
    Cardinality({i \in DOMAIN s1 \cap DOMAIN s2 : \A j \in 1..i : s1[j] = s2[j]})

is_wildcard(s) == Last(s) = "*"

ws_matches_s_bug(ws, s, exact) ==
    IF exact \/ ~is_wildcard(ws) THEN ws = s ELSE strlast(ws, s) >= Len(ws)

ws_matches_s(ws, s, exact) ==
    IF exact \/ ~is_wildcard(ws) THEN ws = s
    ELSE strlast(ws, s) >= Len(ws) - 1

\* What wtable.c:8 promises, "keys can end in a wildcard ('*'), and then a
\* lookup will match them as expected": what comes before the '*' is a prefix.
Covers(w, n) == IsPrefix(Front(w), n)
=============================================================================
