------------------------ MODULE WildcardMatch_proofs ------------------------
(***************************************************************************)
(* The comparison of wtable.c is the one its documentation promises, for   *)
(* strings of any length over any characters.                              *)
(***************************************************************************)
EXTENDS WildcardMatch, FiniteSetTheorems, SequenceTheorems, TLAPS

\* strlast() counts at least m when the first m characters are the same, and
\* only then: the characters it counts are the first ones.
LEMMA StrlastCounts ==
    ASSUME NEW C, NEW s \in Seq(C), NEW t \in Seq(C),
           NEW m \in Nat, m <= Len(s)
    PROVE  strlast(s, t) >= m <=> m <= Len(t) /\ \A j \in 1..m : s[j] = t[j]
<1> DEFINE Same == {i \in DOMAIN s \cap DOMAIN t : \A j \in 1..i : s[j] = t[j]}
<1>1. Same \subseteq 1..Len(s) /\ Same \subseteq 1..Len(t)
  OBVIOUS
<1>2. IsFiniteSet(Same)
  <2>1. IsFiniteSet(1..Len(s))
    BY FS_Interval
  <2> QED BY <1>1, <2>1, FS_Subset
<1>3. Cardinality(Same) \in Nat
  BY <1>2, FS_CardinalityType
<1>4. ASSUME m <= Len(t), \A j \in 1..m : s[j] = t[j]
      PROVE  Cardinality(Same) >= m
  <2>1. 1..m \subseteq Same
    BY <1>4
  <2>2. Cardinality(1..m) = m
    BY FS_Interval
  <2>3. Cardinality(1..m) <= Cardinality(Same)
    BY <1>2, <2>1, FS_Subset
  <2> QED BY <1>3, <2>2, <2>3
<1>5. ASSUME Cardinality(Same) >= m,
             ~ (m <= Len(t) /\ \A j \in 1..m : s[j] = t[j])
      PROVE  FALSE
  <2>1. PICK k \in 0..(m - 1) : Same \subseteq 1..k
    <3>1. CASE m > Len(t)
      BY <3>1, <1>1
    <3>2. CASE m <= Len(t)
      <4>1. PICK j \in 1..m : s[j] # t[j]
        BY <1>5, <3>2
      <4>2. \A i \in Same : i \in Nat /\ i < j
        BY <4>1
      <4>3. Same \subseteq 1..(j - 1)
        BY <4>1, <4>2, <1>1
      <4> QED BY <4>1, <4>3
    <3> QED BY <3>1, <3>2
  <2>2. IsFiniteSet(1..k) /\ Cardinality(1..k) = k
    BY FS_Interval
  <2>3. Cardinality(Same) <= k
    BY <2>1, <2>2, FS_Subset
  <2> QED BY <1>3, <1>5, <2>1, <2>3
<1>6. strlast(s, t) = Cardinality(Same)
  BY DEF strlast
<1> HIDE DEF Same
<1> QED BY <1>3, <1>4, <1>5, <1>6

\* The first m elements of a sequence.
LEMMA FirstElements ==
    ASSUME NEW C, NEW s \in Seq(C), NEW m \in Nat, m <= Len(s)
    PROVE  /\ SubSeq(s, 1, m) \in Seq(C)
           /\ Len(SubSeq(s, 1, m)) = m
           /\ \A j \in 1..m : SubSeq(s, 1, m)[j] = s[j]
<1>1. \A i \in 1..m : s[i] \in C
  OBVIOUS
<1> QED BY <1>1, SubSeqProperties

\* wtable.c:8 "The keys can end in a wildcard ('*'), and then a lookup will
\* match them as expected": ws_matches_s(), as wtable_get() calls it, accepts
\* exactly the names that begin with what the key has before its '*'.
THEOREM WildcardMatchesPrefix ==
    ASSUME NEW C, NEW w \in Seq(C), w # <<>>, is_wildcard(w),
           NEW n \in Seq(C)
    PROVE  ws_matches_s(w, n, FALSE) <=> Covers(w, n)
<1> DEFINE m == Len(w) - 1
<1>1. m \in Nat /\ m <= Len(w)
  BY EmptySeq
<1>2. ws_matches_s(w, n, FALSE) <=> m <= Len(n) /\ \A j \in 1..m : w[j] = n[j]
  BY <1>1, StrlastCounts DEF ws_matches_s
<1> DEFINE f == SubSeq(w, 1, m)
           g == SubSeq(n, 1, m)
<1>3. Front(w) = f
  BY DEF Front
<1>4. f \in Seq(C) /\ Len(f) = m /\ \A j \in 1..m : f[j] = w[j]
  BY <1>1, FirstElements
<1>5. ASSUME m <= Len(n)
      PROVE  g \in Seq(C) /\ Len(g) = m /\ \A j \in 1..m : g[j] = n[j]
  BY <1>1, <1>5, FirstElements
<1>6. SubSeq(f, 1, m) = f
  BY <1>1, <1>4
<1>7. Covers(w, n) <=> m <= Len(n) /\ f = g
  BY <1>3, <1>4, <1>6 DEF Covers, IsPrefix
<1>8. ASSUME m <= Len(n)
      PROVE  f = g <=> \A j \in 1..m : f[j] = g[j]
  <2> HIDE DEF f, g, m
  <2> QED BY <1>4, <1>5, <1>8, SeqEqual
<1> HIDE DEF f, g, m
<1> QED BY <1>2, <1>4, <1>5, <1>7, <1>8
=============================================================================
