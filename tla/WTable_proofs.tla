---------------------------- MODULE WTable_proofs ----------------------------
(***************************************************************************)
(* The wildcard table with its cache: the array always has a free slot,    *)
(* every value has one owner, the cache never answers differently from a   *)
(* walk of the array, and the whole behaves as the abstract PointTable,    *)
(* for every set of names and wildcards, any number of readers, any hash   *)
(* function and any minimum size.                                          *)
(***************************************************************************)
EXTENDS WTable, WildcardMatch_proofs

\* A set of natural numbers that is not empty has a least element: the first
\* slot that a loop over the array stops at.
LEMMA LeastNumber ==
    ASSUME NEW S \in SUBSET Nat, S # {}
    PROVE  \E m \in S : \A j \in 0..(m - 1) : j \notin S
<1> PICK n \in S : TRUE
  OBVIOUS
<1> DEFINE U == {0..i : i \in {j \in S : j <= n}}
           R == StrictSubsetOrdering(0..n)
<1>1. IsFiniteSet(0..n)
  BY FS_Interval
<1>2. IsWellFoundedOn(R, SUBSET (0..n))
  BY <1>1, FS_FiniteSubsetsOfFinite, FS_StrictSubsetOrderingWellFounded
<1>3. U \subseteq SUBSET (0..n) /\ U # {}
  OBVIOUS
<1>4. PICK x \in U : \A y \in U : <<y, x>> \notin R
  <2> HIDE DEF U, R
  <2> QED BY <1>2, <1>3, WFMin
<1>5. PICK m \in S : m <= n /\ x = 0..m
  BY <1>4
<1>6. ASSUME NEW j \in 0..(m - 1), j \in S PROVE FALSE
  <2>1. 0..j \in U
    BY <1>5, <1>6
  <2>2. 0..j \subseteq 0..m /\ 0..j # 0..m /\ 0..m \subseteq 0..n
    <3>1. m \in 0..m /\ m \notin 0..j
      BY <1>6
    <3> QED BY <3>1, <1>5, <1>6
  <2>3. <<0..j, 0..m>> \in R
    BY <2>2 DEF StrictSubsetOrdering
  <2> QED BY <1>4, <1>5, <2>1, <2>3
<1> QED BY <1>6

\* SelectInSeq() finds the first element of a set of positions.
First(I) == IF I # {} THEN Min(I) ELSE 0

LEMMA FirstIs ==
    ASSUME NEW n \in Nat, NEW I \in SUBSET (1..n)
    PROVE  /\ I = {} => First(I) = 0
           /\ I # {} => First(I) \in I /\ First(I) # 0
<1>1. CASE I # {}
  <2>1. PICK m \in I : \A j \in 0..(m - 1) : j \notin I
    BY <1>1, LeastNumber
  <2>2. \A y \in I : m <= y
    BY <2>1
  <2>3. Min(I) \in I
    BY <2>1, <2>2 DEF Min
  <2> QED BY <2>3, <1>1 DEF First
<1> QED BY <1>1 DEF First

LEMMA FindExactIs ==
    ASSUME NEW ws \in Seq(Slot), NEW w \in Wildcards
    PROVE  /\ FindExact(ws, w) = 0 => \A i \in DOMAIN ws : ~Holds(ws, i, w)
           /\ FindExact(ws, w) # 0 => /\ FindExact(ws, w) \in DOMAIN ws
                                      /\ Holds(ws, FindExact(ws, w), w)
<1> DEFINE I == {i \in 1..Len(ws) : Holds(ws, i, w)}
<1>1. FindExact(ws, w) = First(I)
  BY DEF FindExact, SelectInSeq, First, Holds, ws_matches_s
<1>2. Len(ws) \in Nat /\ DOMAIN ws = 1..Len(ws)
  OBVIOUS
<1> QED BY <1>1, <1>2, FirstIs

LEMMA FirstFreeIs ==
    ASSUME NEW ws \in Seq(Slot)
    PROVE  /\ FirstFree(ws) = 0 => \A i \in DOMAIN ws : ws[i].in_use
           /\ FirstFree(ws) # 0 => /\ FirstFree(ws) \in DOMAIN ws
                                   /\ ~ws[FirstFree(ws)].in_use
<1> DEFINE I == {i \in 1..Len(ws) : ~ws[i].in_use}
<1>1. FirstFree(ws) = First(I)
  BY DEF FirstFree, SelectInSeq, First
<1>2. Len(ws) \in Nat /\ DOMAIN ws = 1..Len(ws)
  OBVIOUS
<1> QED BY <1>1, <1>2, FirstIs

LEMMA FindMatchIs ==
    ASSUME NEW ws \in Seq(Slot), NEW n \in Finals
    PROVE  /\ FindMatch(ws, n) = 0 =>
                 \A i \in DOMAIN ws :
                    ws[i].in_use => ~ws_matches_s(ws[i].key, n, FALSE)
           /\ FindMatch(ws, n) # 0 =>
                 /\ FindMatch(ws, n) \in DOMAIN ws
                 /\ ws[FindMatch(ws, n)].in_use
                 /\ ws_matches_s(ws[FindMatch(ws, n)].key, n, FALSE)
<1> DEFINE I == {i \in 1..Len(ws) : ws[i].in_use /\ ws_matches_s(ws[i].key, n, FALSE)}
<1>1. FindMatch(ws, n) = First(I)
  BY DEF FindMatch, SelectInSeq, First
<1>2. Len(ws) \in Nat /\ DOMAIN ws = 1..Len(ws)
  OBVIOUS
<1> HIDE DEF I
<1>3. I \in SUBSET (1..Len(ws))
  BY DEF I
<1>4. /\ I = {} => First(I) = 0
      /\ I # {} => First(I) \in I /\ First(I) # 0
  BY <1>2, <1>3, FirstIs
<1> QED BY <1>1, <1>2, <1>4 DEF I

\* What the strings say is what Matches says.
LEMMA MatchesIs ==
    ASSUME NEW w \in Wildcards, NEW n \in Finals
    PROVE  ws_matches_s(w, n, FALSE) <=> <<w, n>> \in Matches
<1> DEFINE C == {w[i] : i \in 1..Len(w)} \cup {n[i] : i \in 1..Len(n)}
<1>1. /\ Len(w) \in Nat \ {0} /\ w = [i \in 1..Len(w) |-> w[i]] /\ is_wildcard(w)
      /\ Len(n) \in Nat \ {0} /\ n = [i \in 1..Len(n) |-> n[i]]
  BY WTableAssumption DEF Keys
<1>2. w \in Seq(C) /\ n \in Seq(C)
  <2>1. w \in [1..Len(w) -> C] /\ n \in [1..Len(n) -> C]
    BY <1>1
  <2> QED BY <2>1, <1>1
<1>3. w # <<>>
  BY <1>1
<1>4. ws_matches_s(w, n, FALSE) <=> Covers(w, n)
  <2> HIDE DEF C
  <2> QED BY <1>1, <1>2, <1>3, WildcardMatchesPrefix
<1> QED BY <1>4, WTableAssumption
-----------------------------------------------------------------------------
(***************************************************************************)
(* The inductive invariant.                                                *)
(***************************************************************************)

\* An entry in use has a wildcard and a value created for it.
EntryOK(e) ==
    IF e.in_use THEN e.key \in Wildcards /\ e.value \in Values /\ e.value[1] = e.key
    ELSE e = FreeSlot

\* An array, and no two entries for one key.
Array(ws) ==
    /\ ws \in Seq(Slot)
    /\ \A i \in DOMAIN ws : EntryOK(ws[i])
    /\ \A i, j \in DOMAIN ws :
          ws[i].in_use /\ ws[j].in_use /\ ws[i].key = ws[j].key => i = j

\* The slots of the old array that are in use and not reinserted yet.
InUsePending(old, p) == {i \in DOMAIN old : i >= p /\ old[i].in_use}

\* What the array has for a wildcard is not in the old array any more.
Apart(ws, old, p) ==
    \A i \in DOMAIN ws, j \in InUsePending(old, p) :
        ws[i].in_use => ws[i].key # old[j].key

Arrays == /\ Array(wildcards)
          /\ Array(old_wildcards)
          /\ Apart(wildcards, old_wildcards, pos)

\* The writer's locals, and nobody else in the table during a resize.
Locals ==
    /\ wpc = "ready" => /\ old_wildcards = <<>>
                        /\ adding = NULL
    /\ wpc = "reinsert" => pos \in 1..(Len(old_wildcards) + 1)
    /\ wpc = "rehash" => old_wildcards = <<>>
    /\ wpc # "ready" => ~lost /\ \A r \in Readers : pc[r] = "idle"
    /\ adding # NULL => adding[2][1] = adding[1]

\* Room for everything that is still to be inserted, and for one entry more.
Room ==
    /\ ws_used_count = InUseCount(wildcards)
    /\ ws_used_count + Cardinality(InUsePending(old_wildcards, pos))
          + (IF adding = NULL THEN 0 ELSE 1) < Len(wildcards)

\* The values that are allocated are the ones that are stored; the one that is
\* being added is not in an array.
Owned ==
    /\ \A n \in Finals : finals[n] # NULL => finals[n][1] = n
    /\ StoredValues \ {NULL} = live
    /\ adding # NULL =>
          /\ \A i \in DOMAIN wildcards : wildcards[i].value # adding[2]
          /\ \A i \in Pending : old_wildcards[i].value # adding[2]

\* A reader that looks for a name has found no final entry for it, and what it
\* has found afterwards is what the walk of the array gives.
Lookups ==
    \A r \in Readers :
        /\ pc[r] # "idle" => name[r] \in Finals
        /\ pc[r] \in {"cache_get", "walk", "cache_set"} => finals[name[r]] = NULL
        /\ pc[r] \in {"idle", "cache_get", "walk"} => found[r] = NULL
        /\ pc[r] = "cache_set" => ~lost /\ found[r] = WalkResult(wildcards, name[r])
        /\ pc[r] = "found" /\ ~lost => found[r] \in live \cup {NULL}

WInv == /\ TypeOK
        /\ Arrays
        /\ Locals
        /\ Room
        /\ Owned
        /\ Lookups
        /\ CacheCoherent
-----------------------------------------------------------------------------
(***************************************************************************)
(* Arrays.                                                                 *)
(***************************************************************************)

\* The positions in use.
InUseSlots(ws) == {i \in DOMAIN ws : ws[i].in_use}

LEMMA InUseFinite ==
    ASSUME NEW ws \in Seq(Slot)
    PROVE  /\ IsFiniteSet(InUseSlots(ws))
           /\ InUseCount(ws) = Cardinality(InUseSlots(ws))
           /\ InUseCount(ws) \in Nat
<1>1. Len(ws) \in Nat /\ DOMAIN ws = 1..Len(ws)
  OBVIOUS
<1>2. IsFiniteSet(1..Len(ws))
  BY <1>1, FS_Interval
<1>3. IsFiniteSet(InUseSlots(ws))
  BY <1>1, <1>2, FS_Subset DEF InUseSlots
<1>4. InUseCount(ws) = Cardinality(InUseSlots(ws))
  BY DEF InUseCount, InUseSlots
<1> QED BY <1>3, <1>4, FS_CardinalityType

\* Fewer entries than slots: one of the slots is free.
LEMMA RoomMeansFree ==
    ASSUME NEW ws \in Seq(Slot), InUseCount(ws) < Len(ws)
    PROVE  FirstFree(ws) # 0
<1> SUFFICES ASSUME FirstFree(ws) = 0 PROVE FALSE
  OBVIOUS
<1>1. Len(ws) \in Nat /\ DOMAIN ws = 1..Len(ws)
  OBVIOUS
<1>2. InUseSlots(ws) = 1..Len(ws)
  BY <1>1, FirstFreeIs DEF InUseSlots
<1>3. Cardinality(1..Len(ws)) = Len(ws)
  BY <1>1, FS_Interval
<1> QED BY <1>2, <1>3, InUseFinite

\* Writing an entry into slot s.
LEMMA EntryWritten ==
    ASSUME NEW ws, Array(ws), NEW s \in DOMAIN ws, NEW w \in Wildcards,
           NEW v \in Values, v[1] = w,
           \A i \in DOMAIN ws : Holds(ws, i, w) => i = s
    PROVE  LET u == [ws EXCEPT ![s] = [in_use |-> TRUE, key |-> w, value |-> v]]
           IN  /\ Array(u)
               /\ Len(u) = Len(ws)
               /\ DOMAIN u = DOMAIN ws
               /\ InUseCount(u) = IF ws[s].in_use THEN InUseCount(ws)
                                  ELSE InUseCount(ws) + 1
<1> DEFINE e == [in_use |-> TRUE, key |-> w, value |-> v]
           u == [ws EXCEPT ![s] = e]
<1>1. ws \in Seq(Slot) /\ e \in Slot
  BY DEF Array, Slot
<1>2. u \in Seq(Slot) /\ Len(u) = Len(ws) /\ DOMAIN u = DOMAIN ws
  BY <1>1
<1>3. u[s] = e /\ \A i \in DOMAIN ws : i # s => u[i] = ws[i]
  BY <1>1
<1>4. EntryOK(e)
  BY DEF EntryOK
<1>5. e.in_use /\ e.key = w
  OBVIOUS
<1> HIDE DEF u, e
<1>6. \A i \in DOMAIN u : EntryOK(u[i])
  BY <1>2, <1>3, <1>4 DEF Array
<1>7. ASSUME NEW i \in DOMAIN u, NEW j \in DOMAIN u,
             u[i].in_use, u[j].in_use, u[i].key = u[j].key
      PROVE  i = j
  BY <1>2, <1>3, <1>5, <1>7 DEF Array, Holds
<1>8. Array(u)
  BY <1>2, <1>6, <1>7 DEF Array
<1>9. InUseSlots(u) = InUseSlots(ws) \cup {s}
  BY <1>2, <1>3, <1>5 DEF InUseSlots
<1>10. /\ InUseCount(u) = Cardinality(InUseSlots(u))
       /\ InUseCount(ws) = Cardinality(InUseSlots(ws))
       /\ IsFiniteSet(InUseSlots(ws))
  BY <1>1, <1>2, InUseFinite
<1>11. s \in InUseSlots(ws) <=> ws[s].in_use
  BY DEF InUseSlots
<1>12. InUseCount(u) = IF ws[s].in_use THEN InUseCount(ws) ELSE InUseCount(ws) + 1
  BY <1>9, <1>10, <1>11, FS_AddElement
<1> QED BY <1>2, <1>8, <1>12 DEF u, e

\* Freeing slot s.
LEMMA EntryFreed ==
    ASSUME NEW ws, Array(ws), NEW s \in DOMAIN ws, ws[s].in_use
    PROVE  LET u == [ws EXCEPT ![s] = FreeSlot]
           IN  /\ Array(u)
               /\ Len(u) = Len(ws)
               /\ DOMAIN u = DOMAIN ws
               /\ InUseCount(u) = InUseCount(ws) - 1
               /\ InUseCount(ws) \in Nat \ {0}
<1> DEFINE u == [ws EXCEPT ![s] = FreeSlot]
<1>1. ws \in Seq(Slot) /\ FreeSlot \in Slot
  BY DEF Array, Slot, FreeSlot
<1>2. u \in Seq(Slot) /\ Len(u) = Len(ws) /\ DOMAIN u = DOMAIN ws
  BY <1>1
<1>3. u[s] = FreeSlot /\ \A i \in DOMAIN ws : i # s => u[i] = ws[i]
  BY <1>1
<1>4. EntryOK(FreeSlot) /\ ~FreeSlot.in_use
  BY DEF EntryOK, FreeSlot
<1> HIDE DEF u
<1>5. \A i \in DOMAIN u : EntryOK(u[i])
  BY <1>2, <1>3, <1>4 DEF Array
<1>6. ASSUME NEW i \in DOMAIN u, NEW j \in DOMAIN u,
             u[i].in_use, u[j].in_use, u[i].key = u[j].key
      PROVE  i = j
  BY <1>2, <1>3, <1>4, <1>6 DEF Array
<1>7. Array(u)
  BY <1>2, <1>5, <1>6 DEF Array
<1>8. InUseSlots(u) = InUseSlots(ws) \ {s}
  BY <1>2, <1>3, <1>4 DEF InUseSlots
<1>9. /\ InUseCount(u) = Cardinality(InUseSlots(u))
      /\ InUseCount(ws) = Cardinality(InUseSlots(ws))
      /\ IsFiniteSet(InUseSlots(ws))
      /\ InUseCount(u) \in Nat
      /\ InUseCount(ws) \in Nat
  BY <1>1, <1>2, InUseFinite
<1>10. s \in InUseSlots(ws)
  BY DEF InUseSlots
<1>11. InUseCount(u) = InUseCount(ws) - 1
  BY <1>8, <1>9, <1>10, FS_RemoveElement
<1>12. InUseCount(ws) \in Nat \ {0}
  BY <1>9, <1>11
<1> QED BY <1>2, <1>7, <1>11, <1>12 DEF u

\* An array that resize_table() has just allocated.
LEMMA FreshArray ==
    ASSUME NEW n \in Nat
    PROVE  /\ Array(FreeSlots(n))
           /\ Len(FreeSlots(n)) = n
           /\ DOMAIN FreeSlots(n) = 1..n
           /\ InUseCount(FreeSlots(n)) = 0
           /\ \A i \in 1..n : FreeSlots(n)[i] = FreeSlot
<1>1. FreeSlot \in Slot /\ EntryOK(FreeSlot) /\ ~FreeSlot.in_use
  BY DEF Slot, FreeSlot, EntryOK
<1>2. FreeSlots(n) \in Seq(Slot) /\ Len(FreeSlots(n)) = n
  BY <1>1 DEF FreeSlots
<1>3. \A i \in 1..n : FreeSlots(n)[i] = FreeSlot
  BY DEF FreeSlots
<1>4. Array(FreeSlots(n))
  BY <1>1, <1>2, <1>3 DEF Array
<1>5. InUseSlots(FreeSlots(n)) = {}
  BY <1>1, <1>2, <1>3 DEF InUseSlots
<1>6. InUseCount(FreeSlots(n)) = 0
  BY <1>2, <1>5, InUseFinite, FS_EmptySet
<1> QED BY <1>2, <1>3, <1>4, <1>6

\* Which entries are pending when the loop starts, and after one round of it.
LEMMA PendingFinite ==
    ASSUME NEW old \in Seq(Slot), NEW p \in Nat
    PROVE  /\ IsFiniteSet(InUsePending(old, p))
           /\ Cardinality(InUsePending(old, p)) \in Nat
<1>1. InUsePending(old, p) \subseteq InUseSlots(old)
  BY DEF InUsePending, InUseSlots
<1> QED BY <1>1, InUseFinite, FS_Subset, FS_CardinalityType

LEMMA PendingAtFirst ==
    ASSUME NEW old \in Seq(Slot)
    PROVE  Cardinality(InUsePending(old, 1)) = InUseCount(old)
<1>1. InUsePending(old, 1) = InUseSlots(old)
  BY DEF InUsePending, InUseSlots
<1> QED BY <1>1, InUseFinite

LEMMA PendingNone ==
    ASSUME NEW old \in Seq(Slot), NEW p \in Nat, p > Len(old)
    PROVE  InUsePending(old, p) = {} /\ Cardinality(InUsePending(old, p)) = 0
<1>1. InUsePending(old, p) = {}
  BY DEF InUsePending
<1> QED BY <1>1, FS_EmptySet

LEMMA PendingNext ==
    ASSUME NEW old \in Seq(Slot), NEW p \in DOMAIN old
    PROVE  /\ InUsePending(old, p + 1) = InUsePending(old, p) \ {p}
           /\ p \in InUsePending(old, p) <=> old[p].in_use
           /\ Cardinality(InUsePending(old, p + 1)) =
                 IF old[p].in_use THEN Cardinality(InUsePending(old, p)) - 1
                 ELSE Cardinality(InUsePending(old, p))
           /\ old[p].in_use => Cardinality(InUsePending(old, p)) \in Nat \ {0}
<1>1. p \in Nat
  OBVIOUS
<1>2. /\ InUsePending(old, p + 1) = InUsePending(old, p) \ {p}
      /\ p \in InUsePending(old, p) <=> old[p].in_use
  BY <1>1 DEF InUsePending
<1>3. /\ IsFiniteSet(InUsePending(old, p)) /\ Cardinality(InUsePending(old, p)) \in Nat
      /\ Cardinality(InUsePending(old, p + 1)) \in Nat
  BY <1>1, PendingFinite
<1>4. Cardinality(InUsePending(old, p + 1)) =
         IF old[p].in_use THEN Cardinality(InUsePending(old, p)) - 1
         ELSE Cardinality(InUsePending(old, p))
  BY <1>2, <1>3, FS_RemoveElement
<1> QED BY <1>2, <1>3, <1>4

\* wildcards_set(), where there is a free slot.
LEMMA SetEffect ==
    ASSUME Array(wildcards), ws_used_count = InUseCount(wildcards),
           ws_used_count < Len(wildcards),
           NEW w \in Wildcards, NEW v \in Values, v[1] = w, NEW allocated,
           wildcards_set(w, v, allocated)
    PROVE  \E s \in DOMAIN wildcards :
              /\ wildcards' = [wildcards EXCEPT ![s] =
                                  [in_use |-> TRUE, key |-> w, value |-> v]]
              /\ Array(wildcards')
              /\ Len(wildcards') = Len(wildcards)
              /\ DOMAIN wildcards' = DOMAIN wildcards
              /\ ws_used_count' = InUseCount(wildcards')
              /\ \A i \in DOMAIN wildcards : Holds(wildcards, i, w) => i = s
              /\ \/ /\ Holds(wildcards, s, w)
                    /\ ws_used_count' = ws_used_count
                    /\ live' = allocated \ {wildcards[s].value}
                 \/ /\ ~wildcards[s].in_use
                    /\ ws_used_count' = ws_used_count + 1
                    /\ live' = allocated
<1> DEFINE s == SlotFor(wildcards, w)
           x == FindExact(wildcards, w)
<1>1. wildcards \in Seq(Slot)
  BY DEF Array
<1>2. FirstFree(wildcards) # 0 /\ FirstFree(wildcards) \in DOMAIN wildcards
      /\ ~wildcards[FirstFree(wildcards)].in_use
  BY <1>1, RoomMeansFree, FirstFreeIs
<1>3. /\ x = 0 => \A i \in DOMAIN wildcards : ~Holds(wildcards, i, w)
      /\ x # 0 => x \in DOMAIN wildcards /\ Holds(wildcards, x, w)
  BY <1>1, FindExactIs
<1>4. s = IF x # 0 THEN x ELSE FirstFree(wildcards)
  BY DEF SlotFor
<1>5. s \in DOMAIN wildcards /\ s # 0
  BY <1>2, <1>3, <1>4
<1>6. \A i \in DOMAIN wildcards : Holds(wildcards, i, w) => i = s
  BY <1>3, <1>4 DEF Array, Holds
<1>7. wildcards' = [wildcards EXCEPT ![s] = [in_use |-> TRUE, key |-> w, value |-> v]]
  BY <1>5 DEF wildcards_set, WildcardsSet
<1>8. \/ x # 0 /\ Holds(wildcards, s, w) /\ ws_used_count' = ws_used_count
         /\ live' = allocated \ {wildcards[s].value}
      \/ x = 0 /\ ~wildcards[s].in_use /\ ws_used_count' = ws_used_count + 1
         /\ live' = allocated
  BY <1>2, <1>3, <1>4 DEF wildcards_set, TakesFree, Overridden
<1> HIDE DEF s, x
<1>9. /\ Array(wildcards') /\ Len(wildcards') = Len(wildcards)
      /\ DOMAIN wildcards' = DOMAIN wildcards
      /\ InUseCount(wildcards') = IF wildcards[s].in_use THEN InUseCount(wildcards)
                                  ELSE InUseCount(wildcards) + 1
  <2> DEFINE u == [wildcards EXCEPT ![s] = [in_use |-> TRUE, key |-> w, value |-> v]]
  <2>1. /\ Array(u) /\ Len(u) = Len(wildcards) /\ DOMAIN u = DOMAIN wildcards
        /\ InUseCount(u) = IF wildcards[s].in_use THEN InUseCount(wildcards)
                           ELSE InUseCount(wildcards) + 1
    BY <1>5, <1>6, EntryWritten
  <2>2. wildcards' = u
    BY <1>7
  <2> HIDE DEF u
  <2> QED BY <2>1, <2>2
<1>10. ws_used_count' = InUseCount(wildcards')
  BY <1>8, <1>9 DEF Holds
<1> QED BY <1>5, <1>6, <1>7, <1>8, <1>9, <1>10
-----------------------------------------------------------------------------
(***************************************************************************)
(* The cache.                                                              *)
(***************************************************************************)

LEMMA CacheShape ==
    ASSUME NEW n \in Nat, NEW c, DOMAIN c = 0..(n - 1)
    PROVE  CacheSlots(c) = n
<1>1. Cardinality(0..(n - 1)) = n
  BY FS_Interval
<1> QED BY <1>1 DEF CacheSlots

LEMMA HomeInCache ==
    ASSUME NEW c, CacheSlots(c) \in Nat \ {0}, DOMAIN c = 0..(CacheSlots(c) - 1),
           NEW n \in Finals
    PROVE  Home(c, n) \in DOMAIN c
<1>1. Hash[n] \in Nat
  BY WTableAssumption
<1> QED BY <1>1 DEF Home

\* A cache is a function with an entry for each of its slots.
Cache(c) == /\ CacheSlots(c) \in Nat
            /\ c \in [0..(CacheSlots(c) - 1) -> Slots!Entry]

LEMMA EmptyCache ==
    ASSUME NEW n \in Nat
    PROVE  /\ Cache(Slots!Empty(n))
           /\ CacheSlots(Slots!Empty(n)) = n
           /\ Cache(Slots!NoEntries)
<1>1. Slots!NeverUsed \in Slots!Entry
  BY DEF Slots!NeverUsed, Slots!Entry, Slots!NEVER
<1>2. Slots!Empty(n) \in [0..(n - 1) -> Slots!Entry]
  BY <1>1 DEF Slots!Empty
<1>3. CacheSlots(Slots!Empty(n)) = n
  BY <1>2, CacheShape
<1>4. Slots!NoEntries \in [0..(0 - 1) -> Slots!Entry]
  BY DEF Slots!NoEntries
<1>5. CacheSlots(Slots!NoEntries) = 0
  BY <1>4, CacheShape
<1> QED BY <1>2, <1>3, <1>4, <1>5 DEF Cache

\* Invalidation leaves nothing to hit.
LEMMA CacheInvalidated ==
    ASSUME NEW c, Cache(c)
    PROVE  /\ Cache(CacheInvalidate(c))
           /\ CacheSlots(CacheInvalidate(c)) = CacheSlots(c)
           /\ CacheSlots(c) # 0 => \A n \in Finals : ~CacheHit(CacheInvalidate(c), n)
<1>1. Slots!NeverUsed \in Slots!Entry /\ Slots!NeverUsed.in_use # Slots!IN_USE
  BY DEF Slots!NeverUsed, Slots!Entry, Slots!NEVER, Slots!IN_USE
<1>2. /\ CacheInvalidate(c) \in [0..(CacheSlots(c) - 1) -> Slots!Entry]
      /\ \A i \in 0..(CacheSlots(c) - 1) :
            CacheInvalidate(c)[i].in_use # Slots!IN_USE
  BY <1>1 DEF CacheInvalidate, Cache
<1>3. CacheSlots(c) \in Nat
  BY DEF Cache
<1>4. CacheSlots(CacheInvalidate(c)) = CacheSlots(c)
  BY <1>2, <1>3, CacheShape
<1>5. ASSUME CacheSlots(c) # 0, NEW n \in Finals
      PROVE  ~CacheHit(CacheInvalidate(c), n)
  <2>1. Home(CacheInvalidate(c), n) \in 0..(CacheSlots(c) - 1)
    BY <1>2, <1>3, <1>4, <1>5, HomeInCache
  <2> QED BY <1>2, <2>1 DEF CacheHit
<1> QED BY <1>2, <1>3, <1>4, <1>5 DEF Cache

\* An insertion with probing writes one entry, if any.
LEMMA CachePut ==
    ASSUME NEW c, Cache(c), NEW e \in Slots!Entry
    PROVE  /\ Cache(Slots!Put(c, CacheSlots(c), e.key, e.value))
           /\ CacheSlots(Slots!Put(c, CacheSlots(c), e.key, e.value)) = CacheSlots(c)
<1> DEFINE d == Slots!Put(c, CacheSlots(c), e.key, e.value)
           f == Slots!InUse(e.key, e.value)
           p == Slots!Walk(c, CacheSlots(c), e.key)
<1>1. f \in Slots!Entry
  BY DEF Slots!InUse, Slots!Entry, Slots!IN_USE
<1>2. d = IF p = -1 THEN c ELSE [c EXCEPT ![p] = f]
  BY DEF Slots!Put
<1> HIDE DEF d, f, p
<1>3. c \in [0..(CacheSlots(c) - 1) -> Slots!Entry] /\ CacheSlots(c) \in Nat
  BY DEF Cache
<1>4. d \in [0..(CacheSlots(c) - 1) -> Slots!Entry]
  BY <1>1, <1>2, <1>3
<1>5. CacheSlots(d) = CacheSlots(c)
  BY <1>3, <1>4, CacheShape
<1> QED BY <1>3, <1>4, <1>5 DEF Cache, d
-----------------------------------------------------------------------------
(***************************************************************************)
(* Every step preserves the invariant.                                     *)
(***************************************************************************)

LEMMA WInvInit == Init => WInv
<1> SUFFICES ASSUME Init PROVE WInv
  OBVIOUS
<1>1. MIN_SIZE \in Nat \ {0}
  BY WTableAssumption
<1>2. /\ wildcards = FreeSlots(MIN_SIZE) /\ ws_used_count = 0
      /\ Array(wildcards) /\ Len(wildcards) = MIN_SIZE
      /\ DOMAIN wildcards = 1..MIN_SIZE /\ InUseCount(wildcards) = 0
      /\ \A i \in 1..MIN_SIZE : wildcards[i] = FreeSlot
  BY <1>1, FreshArray DEF Init
<1>3. /\ CacheSlots(cache) = MIN_SIZE /\ Cache(cache)
      /\ Cache(old_entries)
      /\ cache = Slots!Empty(MIN_SIZE)
  BY <1>1, EmptyCache DEF Init
<1>4. old_wildcards = <<>> /\ Array(old_wildcards)
  BY DEF Init, Array
<1>5. TypeOK
  <2>1. /\ wildcards \in Seq(Slot) /\ Len(wildcards) >= MIN_SIZE
        /\ ws_used_count \in 0..Len(wildcards)
        /\ old_wildcards \in Seq(Slot)
    BY <1>1, <1>2, <1>4 DEF Array
  <2>2. /\ CacheSlots(cache) \in Nat \ {0}
        /\ cache \in [0..(CacheSlots(cache) - 1) -> Slots!Entry]
        /\ CacheSlots(old_entries) \in Nat
        /\ old_entries \in [0..(CacheSlots(old_entries) - 1) -> Slots!Entry]
    BY <1>1, <1>3 DEF Cache
  <2>3. /\ finals \in [Finals -> Values \cup {NULL}]
        /\ pc \in [Readers -> {"idle", "cache_get", "walk", "cache_set", "found"}]
        /\ name \in [Readers -> Finals \cup {NULL}]
        /\ found \in [Readers -> Values \cup {NULL}]
    BY DEF Init
  <2>4. /\ cache_size \in Nat \cup {NULL} /\ live \subseteq Values /\ lost \in BOOLEAN
        /\ finals_lost \in BOOLEAN
        /\ wpc \in {"ready", "reinsert", "rehash"} /\ pos \in Nat
        /\ adding \in (Wildcards \X Values) \cup {NULL}
    BY DEF Init
  <2> QED BY <2>1, <2>2, <2>3, <2>4 DEF TypeOK
<1>6. InUsePending(old_wildcards, pos) = {} /\ Pending = {}
  BY <1>4 DEF InUsePending, Pending
<1>7. Arrays
  BY <1>2, <1>4, <1>6 DEF Arrays, Apart
<1>8. Locals
  BY <1>4 DEF Init, Locals
<1>9. Room
  <2>1. Cardinality(InUsePending(old_wildcards, pos)) = 0
    BY <1>6, FS_EmptySet
  <2>2. adding = NULL
    BY DEF Init
  <2> QED BY <1>1, <1>2, <2>1, <2>2 DEF Room
<1>10. Owned
  BY <1>2, <1>6 DEF Init, Owned, StoredValues, FreeSlot
<1>11. Lookups
  BY DEF Init, Lookups
<1>12. CacheCoherent
  <2>1. ASSUME NEW n \in Finals PROVE ~CacheHit(cache, n)
    <3>1. Home(cache, n) \in 0..(MIN_SIZE - 1)
      BY <1>1, <1>3, HomeInCache DEF Cache
    <3> QED BY <1>3, <3>1 DEF CacheHit, Slots!Empty, Slots!NeverUsed, Slots!NEVER,
                               Slots!IN_USE
  <2> QED BY <2>1 DEF CacheCoherent
<1> QED BY <1>5, <1>7, <1>8, <1>9, <1>10, <1>11, <1>12 DEF WInv

\* A lookup changes nothing but the reader and the cache.
LEMMA ReaderKeeps ==
    ASSUME WInv, wpc = "ready", UNCHANGED <<tableVars, resizeVars>>
    PROVE  Arrays' /\ Locals' /\ Room' /\ Owned'
<1>1. UNCHANGED <<finals, finals_lost, wildcards, ws_used_count, live, lost, wpc,
                  old_wildcards, old_entries, pos, adding>>
  BY DEF tableVars, resizeVars
<1>2. Pending' = Pending
  BY <1>1 DEF Pending
<1>3. StoredValues' = StoredValues
  BY <1>1, <1>2 DEF StoredValues
<1> QED BY <1>1, <1>2, <1>3 DEF WInv, Arrays, Locals, Room, Owned

LEMMA LookupsKept ==
    ASSUME WInv, NEW r \in Readers, UNCHANGED tableVars,
           NEW p, NEW n, NEW v,
           pc' = [pc EXCEPT ![r] = p],
           name' = [name EXCEPT ![r] = n],
           found' = [found EXCEPT ![r] = v],
           p # "idle" => n \in Finals,
           p \in {"cache_get", "walk", "cache_set"} => finals[n] = NULL,
           p \in {"idle", "cache_get", "walk"} => v = NULL,
           p = "cache_set" => ~lost /\ v = WalkResult(wildcards, n),
           p = "found" /\ ~lost => v \in live \cup {NULL}
    PROVE  Lookups'
<1>1. finals' = finals /\ wildcards' = wildcards /\ live' = live /\ lost' = lost
  BY DEF tableVars
<1> SUFFICES ASSUME NEW q \in Readers
             PROVE  /\ pc'[q] # "idle" => name'[q] \in Finals
                    /\ pc'[q] \in {"cache_get", "walk", "cache_set"}
                          => finals'[name'[q]] = NULL
                    /\ pc'[q] \in {"idle", "cache_get", "walk"} => found'[q] = NULL
                    /\ pc'[q] = "cache_set" =>
                          ~lost' /\ found'[q] = WalkResult(wildcards', name'[q])
                    /\ pc'[q] = "found" /\ ~lost' => found'[q] \in live' \cup {NULL}
  BY DEF Lookups
<1>2. CASE q # r
  <2>1. pc'[q] = pc[q] /\ name'[q] = name[q] /\ found'[q] = found[q]
    BY <1>2 DEF WInv, TypeOK
  <2> QED BY <1>1, <2>1 DEF WInv, Lookups
<1>3. CASE q = r
  <2>1. pc'[q] = p /\ name'[q] = n /\ found'[q] = v
    BY <1>3 DEF WInv, TypeOK
  <2> QED BY <1>1, <2>1
<1> QED BY <1>2, <1>3

\* What a hit in the cache gives is still allocated.
LEMMA WalkOwned ==
    ASSUME WInv, NEW n \in Finals
    PROVE  /\ WalkResult(wildcards, n) \in live \cup {NULL}
           /\ WalkResult(wildcards, n) \in Values \cup {NULL}
<1>1. wildcards \in Seq(Slot)
  BY DEF WInv, TypeOK
<1>2. ASSUME NEW i \in DOMAIN wildcards PROVE wildcards[i].value \in live \cup {NULL}
  BY <1>2 DEF WInv, Owned, StoredValues
<1>3. live \subseteq Values
  BY DEF WInv, TypeOK
<1> QED BY <1>1, <1>2, <1>3, FindMatchIs DEF WalkResult

LEMMA GetFinalKeeps ==
    ASSUME WInv, NEW r \in Readers, NEW n \in Finals, get_final(r, n)
    PROVE  WInv'
<1>1. /\ wpc = "ready" /\ UNCHANGED <<tableVars, resizeVars, cacheVars>>
      /\ pc[r] = "idle" /\ name' = [name EXCEPT ![r] = n]
  BY DEF get_final
<1>2. UNCHANGED <<finals, finals_lost, wildcards, ws_used_count, live, lost, cache, cache_size,
                  wpc, old_wildcards, old_entries, pos, adding>>
  BY <1>1 DEF tableVars, resizeVars, cacheVars
<1>3. \/ /\ finals[n] # NULL /\ found' = [found EXCEPT ![r] = finals[n]]
         /\ pc' = [pc EXCEPT ![r] = "found"]
      \/ /\ finals[n] = NULL /\ found' = found
         /\ pc' = [pc EXCEPT ![r] = "cache_get"]
  BY DEF get_final, Return, GoTo
<1>4. TypeOK'
  BY <1>1, <1>2, <1>3 DEF WInv, TypeOK
<1>5. finals[n] \in live \cup {NULL}
  BY DEF WInv, Owned, StoredValues
<1>6. found[r] = NULL
  BY <1>1 DEF WInv, Lookups
<1>7. found' = found => found' = [found EXCEPT ![r] = NULL]
  BY <1>6 DEF WInv, TypeOK
<1>8. Lookups'
  <2>1. CASE finals[n] # NULL
    BY <1>1, <1>3, <1>5, <2>1, LookupsKept
  <2>2. CASE finals[n] = NULL
    BY <1>1, <1>3, <1>7, <2>2, LookupsKept
  <2> QED BY <2>1, <2>2
<1>9. CacheCoherent'
  BY <1>2 DEF WInv, CacheCoherent
<1> QED BY <1>1, <1>4, <1>8, <1>9, ReaderKeeps DEF WInv

\* A reader that is in a lookup.
LEMMA ReaderInside ==
    ASSUME WInv, NEW r \in Readers, pc[r] # "idle"
    PROVE  wpc = "ready" /\ name[r] \in Finals
BY DEF WInv, Locals, Lookups

LEMMA CacheGetKeeps ==
    ASSUME WInv, NEW r \in Readers, cache_get(r)
    PROVE  WInv'
<1>1. /\ pc[r] = "cache_get" /\ UNCHANGED <<tableVars, resizeVars, cacheVars>>
      /\ name' = name
  BY DEF cache_get
<1>2. UNCHANGED <<finals, finals_lost, wildcards, ws_used_count, live, lost, cache, cache_size,
                  wpc, old_wildcards, old_entries, pos, adding>>
  BY <1>1 DEF tableVars, resizeVars, cacheVars
<1>3. wpc = "ready" /\ name[r] \in Finals
  BY <1>1, ReaderInside
<1> DEFINE e == cache[Home(cache, name[r])]
<1>4. e \in Slots!Entry
  BY <1>3, HomeInCache DEF WInv, TypeOK
<1>5. e.value \in Values \cup {NULL}
  BY <1>4 DEF Slots!Entry
<1>6. \/ /\ CacheHit(cache, name[r]) /\ found' = [found EXCEPT ![r] = e.value]
         /\ pc' = [pc EXCEPT ![r] = "found"]
      \/ /\ found' = found /\ pc' = [pc EXCEPT ![r] = "walk"]
  BY DEF cache_get, Return, GoTo
<1>7. ~lost /\ CacheHit(cache, name[r]) => e.value \in live \cup {NULL}
  BY <1>3, WalkOwned DEF WInv, CacheCoherent
<1> HIDE DEF e
<1>8. TypeOK'
  BY <1>1, <1>2, <1>5, <1>6 DEF WInv, TypeOK
<1>9. found[r] = NULL /\ finals[name[r]] = NULL
  BY <1>1 DEF WInv, Lookups
<1>10. /\ found' = found => found' = [found EXCEPT ![r] = NULL]
       /\ name' = [name EXCEPT ![r] = name[r]]
  BY <1>1, <1>9 DEF WInv, TypeOK
<1>11. Lookups'
  <2>1. CASE CacheHit(cache, name[r]) /\ found' = [found EXCEPT ![r] = e.value]
             /\ pc' = [pc EXCEPT ![r] = "found"]
    BY <1>1, <1>3, <1>7, <1>10, <2>1, LookupsKept
  <2>2. CASE found' = found /\ pc' = [pc EXCEPT ![r] = "walk"]
    BY <1>1, <1>3, <1>9, <1>10, <2>2, LookupsKept
  <2> QED BY <1>6, <2>1, <2>2
<1>12. CacheCoherent'
  BY <1>2 DEF WInv, CacheCoherent
<1> QED BY <1>1, <1>3, <1>8, <1>11, <1>12, ReaderKeeps DEF WInv

LEMMA WalkKeeps ==
    ASSUME WInv, NEW r \in Readers, walk(r)
    PROVE  WInv'
<1>1. /\ pc[r] = "walk" /\ UNCHANGED <<tableVars, resizeVars, cacheVars>>
      /\ ~lost /\ name' = name
      /\ found' = [found EXCEPT ![r] = WalkResult(wildcards, name[r])]
      /\ pc' = [pc EXCEPT ![r] = "cache_set"]
  BY DEF walk, GoTo
<1>2. UNCHANGED <<finals, finals_lost, wildcards, ws_used_count, live, lost, cache, cache_size,
                  wpc, old_wildcards, old_entries, pos, adding>>
  BY <1>1 DEF tableVars, resizeVars, cacheVars
<1>3. wpc = "ready" /\ name[r] \in Finals
  BY <1>1, ReaderInside
<1>4. WalkResult(wildcards, name[r]) \in Values \cup {NULL}
  BY <1>3, WalkOwned
<1>5. TypeOK'
  BY <1>1, <1>2, <1>4 DEF WInv, TypeOK
<1>6. finals[name[r]] = NULL
  BY <1>1 DEF WInv, Lookups
<1>7. name' = [name EXCEPT ![r] = name[r]]
  BY <1>1 DEF WInv, TypeOK
<1>8. Lookups'
  BY <1>1, <1>3, <1>6, <1>7, LookupsKept
<1>9. CacheCoherent'
  BY <1>2 DEF WInv, CacheCoherent
<1> QED BY <1>1, <1>3, <1>5, <1>8, <1>9, ReaderKeeps DEF WInv

\* What a reader writes into the cache is what the walk gave it, and the array
\* cannot have changed since: a writer would have waited for the reader.
LEMMA CacheSetKeeps ==
    ASSUME WInv, NEW r \in Readers, cache_set(r)
    PROVE  WInv'
<1> DEFINE h == Home(cache, name[r])
           e == Slots!InUse(name[r], found[r])
<1>1. /\ pc[r] = "cache_set" /\ UNCHANGED <<tableVars, resizeVars, cache_size>>
      /\ name' = name
      /\ cache' = [cache EXCEPT ![h] = e]
      /\ found' = [found EXCEPT ![r] = found[r]]
      /\ pc' = [pc EXCEPT ![r] = "found"]
  BY DEF cache_set, Return, GoTo, CacheSet
<1>2. UNCHANGED <<finals, finals_lost, wildcards, ws_used_count, live, lost, cache_size,
                  wpc, old_wildcards, old_entries, pos, adding>>
  BY <1>1 DEF tableVars, resizeVars
<1>3. wpc = "ready" /\ name[r] \in Finals
  BY <1>1, ReaderInside
<1>4. ~lost /\ found[r] = WalkResult(wildcards, name[r])
  BY <1>1 DEF WInv, Lookups
<1>5. found[r] \in Values \cup {NULL} /\ found[r] \in live \cup {NULL}
  BY <1>3, <1>4, WalkOwned
<1>6. /\ e \in Slots!Entry /\ e.key = name[r] /\ e.value = found[r]
  BY <1>3, <1>5 DEF Slots!InUse, Slots!Entry, Slots!IN_USE
<1>7. /\ CacheSlots(cache) \in Nat \ {0}
      /\ cache \in [0..(CacheSlots(cache) - 1) -> Slots!Entry]
  BY DEF WInv, TypeOK
<1>8. \A n \in Finals : Home(cache, n) \in DOMAIN cache
  BY <1>7, HomeInCache
<1> HIDE DEF h, e
<1>9. cache' \in [0..(CacheSlots(cache) - 1) -> Slots!Entry]
  BY <1>1, <1>6, <1>7
<1>10. CacheSlots(cache') = CacheSlots(cache)
  BY <1>7, <1>9, CacheShape
<1>11. TypeOK'
  BY <1>1, <1>2, <1>5, <1>7, <1>9, <1>10 DEF WInv, TypeOK
<1>12. name' = [name EXCEPT ![r] = name[r]]
  BY <1>1 DEF WInv, TypeOK
<1>13. Lookups'
  BY <1>1, <1>3, <1>5, <1>12, LookupsKept
<1>14. CacheCoherent'
  <2> SUFFICES ASSUME NEW n \in Finals, CacheHit(cache', n)
               PROVE  cache'[Home(cache', n)].value = WalkResult(wildcards', n)
    BY DEF CacheCoherent
  <2>1. Home(cache', n) = Home(cache, n)
    BY <1>10 DEF Home
  <2>2. cache'[Home(cache, n)].key = n
    BY <2>1 DEF CacheHit
  <2>3. CASE Home(cache, n) = h
    <3>1. cache'[Home(cache, n)] = e
      BY <1>1, <1>8, <2>3
    <3>2. n = name[r]
      BY <1>6, <2>2, <3>1
    <3> QED BY <1>2, <1>4, <1>6, <2>1, <3>1, <3>2
  <2>4. CASE Home(cache, n) # h
    <3>1. cache'[Home(cache, n)] = cache[Home(cache, n)]
      BY <1>1, <1>8, <2>4
    <3>2. CacheHit(cache, n)
      BY <2>1, <3>1 DEF CacheHit
    <3> QED BY <1>2, <1>3, <1>4, <2>1, <3>1, <3>2 DEF WInv, CacheCoherent
  <2> QED BY <2>3, <2>4
<1> QED BY <1>1, <1>3, <1>11, <1>13, <1>14, ReaderKeeps DEF WInv

LEMMA ReleaseKeeps ==
    ASSUME WInv, NEW r \in Readers, release(r)
    PROVE  WInv'
<1>1. /\ pc[r] = "found" /\ UNCHANGED <<tableVars, resizeVars, cacheVars>>
      /\ name' = [name EXCEPT ![r] = NULL]
      /\ found' = [found EXCEPT ![r] = NULL]
      /\ pc' = [pc EXCEPT ![r] = "idle"]
  BY DEF release, GoTo
<1>2. UNCHANGED <<finals, finals_lost, wildcards, ws_used_count, live, lost, cache, cache_size,
                  wpc, old_wildcards, old_entries, pos, adding>>
  BY <1>1 DEF tableVars, resizeVars, cacheVars
<1>3. wpc = "ready"
  BY <1>1, ReaderInside
<1>4. TypeOK'
  BY <1>1, <1>2 DEF WInv, TypeOK
<1>5. Lookups'
  BY <1>1, LookupsKept
<1>6. CacheCoherent'
  BY <1>2 DEF WInv, CacheCoherent
<1> QED BY <1>1, <1>3, <1>4, <1>5, <1>6, ReaderKeeps DEF WInv
-----------------------------------------------------------------------------
\* A writer has the table for itself.
LEMMA Alone ==
    ASSUME WInv, Exclusive
    PROVE  /\ wpc = "ready" /\ old_wildcards = <<>> /\ adding = NULL
           /\ \A r \in Readers : pc[r] = "idle"
           /\ Pending = {}
           /\ InUsePending(old_wildcards, pos) = {}
           /\ Cardinality(InUsePending(old_wildcards, pos)) = 0
<1>1. wpc = "ready" /\ \A r \in Readers : pc[r] = "idle"
  BY DEF Exclusive
<1>2. old_wildcards = <<>> /\ adding = NULL
  BY <1>1 DEF WInv, Locals
<1>3. Pending = {} /\ InUsePending(old_wildcards, pos) = {}
  BY <1>2 DEF Pending, InUsePending
<1> QED BY <1>1, <1>2, <1>3, FS_EmptySet

LEMMA IdleLookups ==
    ASSUME WInv, UNCHANGED readerVars, \A r \in Readers : pc[r] = "idle"
    PROVE  Lookups'
BY DEF WInv, Lookups, readerVars

\* The values in an array belong to wildcards, those of the final entries to
\* final names.
LEMMA ValueOfSlot ==
    ASSUME NEW ws, Array(ws), NEW i \in DOMAIN ws
    PROVE  IF ws[i].in_use THEN /\ ws[i].value \in Values /\ ws[i].value # NULL
                                /\ ws[i].key \in Wildcards
                                /\ ws[i].value[1] = ws[i].key
           ELSE ws[i].value = NULL
<1>1. EntryOK(ws[i])
  BY DEF Array
<1>2. NULL \notin Values
  BY WTableAssumption DEF Values
<1> QED BY <1>1, <1>2 DEF EntryOK, FreeSlot

LEMMA FinalsApart ==
    ASSUME NEW n \in Finals, NEW w \in Wildcards
    PROVE  n # w
BY PointNamesAssumption

\* The values held by the final entries and by an array.
HeldBy(f, ws) == {f[n] : n \in Finals} \cup {ws[i].value : i \in DOMAIN ws}

LEMMA AloneOwns ==
    ASSUME WInv, Exclusive
    PROVE  HeldBy(finals, wildcards) \ {NULL} = live
<1>1. StoredValues = HeldBy(finals, wildcards)
  BY Alone DEF StoredValues, HeldBy
<1> QED BY <1>1 DEF WInv, Owned

LEMMA SetFinalKeeps ==
    ASSUME WInv, NEW n \in Finals, NEW v \in Values, set_final(n, v)
    PROVE  WInv'
<1>1. /\ Exclusive /\ v \in Values \ live /\ v[1] = n
      /\ finals' = [finals EXCEPT ![n] = v]
      /\ live' = (live \ {finals[n]}) \cup {v}
      /\ finals_lost' \in BOOLEAN
      /\ UNCHANGED <<wildcards, ws_used_count, lost, cacheVars, resizeVars, readerVars>>
  BY DEF set_final
<1>2. UNCHANGED <<wildcards, ws_used_count, lost, cache, cache_size, wpc,
                  old_wildcards, old_entries, pos, adding, pc, name, found>>
  BY <1>1 DEF cacheVars, resizeVars, readerVars
<1>3. /\ wpc = "ready" /\ adding = NULL /\ Pending = {}
      /\ \A r \in Readers : pc[r] = "idle"
  BY <1>1, Alone
<1>4. TypeOK'
  BY <1>1, <1>2 DEF WInv, TypeOK
<1>5. Arrays' /\ Locals' /\ Room'
  BY <1>2 DEF WInv, Arrays, Locals, Room
<1>6. Owned'
  <2>1. finals \in [Finals -> Values \cup {NULL}] /\ v # NULL
    BY WTableAssumption DEF WInv, TypeOK, Values
  <2>2. \A m \in Finals : finals'[m] = IF m = n THEN v ELSE finals[m]
    BY <1>1, <2>1
  <2>3. \A m \in Finals : finals'[m] # NULL => finals'[m][1] = m
    BY <1>1, <2>2 DEF WInv, Owned
  <2>4. Pending' = {} /\ adding' = NULL
    BY <1>2, <1>3 DEF Pending
  <2>5. StoredValues' = HeldBy(finals', wildcards)
    BY <1>2, <2>4 DEF StoredValues, HeldBy
  <2>6. HeldBy(finals, wildcards) \ {NULL} = live
    BY <1>1, AloneOwns
  <2>7. ASSUME NEW m \in Finals, m # n, finals[m] # NULL PROVE finals[m] # finals[n]
    <3>1. finals[m][1] = m
      BY <2>7 DEF WInv, Owned
    <3>2. CASE finals[n] = NULL
      BY <2>7, <3>2
    <3>3. CASE finals[n] # NULL
      <4>1. finals[n][1] = n
        BY <3>3 DEF WInv, Owned
      <4> QED BY <2>7, <3>1, <4>1
    <3> QED BY <3>2, <3>3
  <2>8. ASSUME NEW i \in DOMAIN wildcards, wildcards[i].value # NULL
        PROVE  wildcards[i].value # finals[n]
    <3>1. wildcards[i].value[1] \in Wildcards
      BY <2>8, ValueOfSlot DEF WInv, Arrays
    <3>2. CASE finals[n] = NULL
      BY <2>8, <3>2
    <3>3. CASE finals[n] # NULL
      <4>1. finals[n][1] = n
        BY <3>3 DEF WInv, Owned
      <4> QED BY <3>1, <4>1, FinalsApart
    <3> QED BY <3>2, <3>3
  <2>9. HeldBy(finals', wildcards) \ {NULL} = live'
    <3>1. ASSUME NEW x, x \in HeldBy(finals', wildcards), x # NULL PROVE x \in live'
      <4>1. CASE \E m \in Finals : x = finals'[m]
        BY <1>1, <2>2, <2>6, <2>7, <3>1, <4>1 DEF HeldBy
      <4>2. CASE \E i \in DOMAIN wildcards : x = wildcards[i].value
        BY <1>1, <2>6, <2>8, <3>1, <4>2 DEF HeldBy
      <4> QED BY <3>1, <4>1, <4>2 DEF HeldBy
    <3>2. ASSUME NEW x \in live' PROVE x \in HeldBy(finals', wildcards) /\ x # NULL
      <4>1. CASE x = v
        BY <2>1, <2>2, <4>1 DEF HeldBy
      <4>2. CASE x \in live /\ x # finals[n]
        BY <2>2, <2>6, <4>2 DEF HeldBy
      <4> QED BY <1>1, <4>1, <4>2
    <3> QED BY <3>1, <3>2
  <2> QED BY <2>3, <2>4, <2>5, <2>9 DEF Owned
<1>7. Lookups'
  BY <1>1, <1>3, IdleLookups
<1>8. CacheCoherent'
  BY <1>2 DEF WInv, CacheCoherent
<1> QED BY <1>4, <1>5, <1>6, <1>7, <1>8 DEF WInv

LEMMA DelFinalKeeps ==
    ASSUME WInv, NEW n \in Finals, del_final(n)
    PROVE  WInv'
<1>1. /\ Exclusive /\ finals[n] # NULL
      /\ finals' = [finals EXCEPT ![n] = NULL]
      /\ live' = live \ {finals[n]}
      /\ finals_lost' \in BOOLEAN
      /\ UNCHANGED <<wildcards, ws_used_count, lost, cacheVars, resizeVars, readerVars>>
  BY DEF del_final
<1>2. UNCHANGED <<wildcards, ws_used_count, lost, cache, cache_size, wpc,
                  old_wildcards, old_entries, pos, adding, pc, name, found>>
  BY <1>1 DEF cacheVars, resizeVars, readerVars
<1>3. /\ wpc = "ready" /\ adding = NULL /\ Pending = {}
      /\ \A r \in Readers : pc[r] = "idle"
  BY <1>1, Alone
<1>4. TypeOK'
  BY <1>1, <1>2 DEF WInv, TypeOK
<1>5. Arrays' /\ Locals' /\ Room'
  BY <1>2 DEF WInv, Arrays, Locals, Room
<1>6. Owned'
  <2>1. finals \in [Finals -> Values \cup {NULL}]
    BY DEF WInv, TypeOK
  <2>2. \A m \in Finals : finals'[m] = IF m = n THEN NULL ELSE finals[m]
    BY <1>1, <2>1
  <2>3. \A m \in Finals : finals'[m] # NULL => finals'[m][1] = m
    BY <2>2 DEF WInv, Owned
  <2>4. Pending' = {} /\ adding' = NULL
    BY <1>2, <1>3 DEF Pending
  <2>5. StoredValues' = HeldBy(finals', wildcards)
    BY <1>2, <2>4 DEF StoredValues, HeldBy
  <2>6. HeldBy(finals, wildcards) \ {NULL} = live
    BY <1>1, AloneOwns
  <2>7. finals[n][1] = n
    BY <1>1 DEF WInv, Owned
  <2>8. ASSUME NEW m \in Finals, m # n, finals[m] # NULL PROVE finals[m] # finals[n]
    <3>1. finals[m][1] = m
      BY <2>8 DEF WInv, Owned
    <3> QED BY <2>7, <2>8, <3>1
  <2>9. ASSUME NEW i \in DOMAIN wildcards PROVE wildcards[i].value # finals[n]
    <3>1. CASE wildcards[i].value = NULL
      BY <1>1, <3>1
    <3>2. CASE wildcards[i].value # NULL
      <4>1. wildcards[i].value[1] \in Wildcards
        BY <3>2, ValueOfSlot DEF WInv, Arrays
      <4> QED BY <2>7, <4>1, FinalsApart
    <3> QED BY <3>1, <3>2
  <2>10. HeldBy(finals', wildcards) \ {NULL} = live'
    <3>1. ASSUME NEW x, x \in HeldBy(finals', wildcards), x # NULL PROVE x \in live'
      <4>1. CASE \E m \in Finals : x = finals'[m]
        BY <1>1, <2>2, <2>6, <2>8, <3>1, <4>1 DEF HeldBy
      <4>2. CASE \E i \in DOMAIN wildcards : x = wildcards[i].value
        BY <1>1, <2>6, <2>9, <3>1, <4>2 DEF HeldBy
      <4> QED BY <3>1, <4>1, <4>2 DEF HeldBy
    <3>2. ASSUME NEW x \in live' PROVE x \in HeldBy(finals', wildcards) /\ x # NULL
      BY <1>1, <2>2, <2>6, <3>2 DEF HeldBy
    <3> QED BY <3>1, <3>2
  <2> QED BY <2>3, <2>4, <2>5, <2>10 DEF Owned
<1>7. Lookups'
  BY <1>1, <1>3, IdleLookups
<1>8. CacheCoherent'
  BY <1>2 DEF WInv, CacheCoherent
<1> QED BY <1>4, <1>5, <1>6, <1>7, <1>8 DEF WInv

LEMMA SetFailsKeeps ==
    ASSUME WInv, NEW w \in Wildcards, set_wildcard_fails(w)
    PROVE  WInv'
<1>1. /\ Exclusive /\ lost' = TRUE
      /\ UNCHANGED <<finals, finals_lost, wildcards, ws_used_count, live, cache, cache_size, wpc,
                     old_wildcards, old_entries, pos, adding, pc, name, found>>
  BY DEF set_wildcard_fails, cacheVars, resizeVars, readerVars
<1>2. wpc = "ready" /\ \A r \in Readers : pc[r] = "idle"
  BY <1>1, Alone
<1>3. TypeOK' /\ Arrays' /\ Room'
  BY <1>1 DEF WInv, TypeOK, Arrays, Room
<1>4. Locals'
  BY <1>1, <1>2 DEF WInv, Locals
<1>5. StoredValues' = StoredValues /\ Pending' = Pending
  BY <1>1 DEF StoredValues, Pending
<1>6. Owned'
  BY <1>1, <1>5 DEF WInv, Owned
<1>7. Lookups'
  BY <1>1, <1>2, IdleLookups DEF readerVars
<1>8. CacheCoherent'
  BY <1>1 DEF CacheCoherent
<1> QED BY <1>3, <1>4, <1>6, <1>7, <1>8 DEF WInv
-----------------------------------------------------------------------------
\* Array u is ws with value v for wildcard w in slot s.
Written(ws, s, u, w, v) ==
    /\ DOMAIN u = DOMAIN ws
    /\ u[s].value = v
    /\ \A i \in DOMAIN ws : i # s => u[i] = ws[i]
    /\ \A i \in DOMAIN ws : Holds(ws, i, w) => i = s

\* The values held after wildcards_set() has put v in slot s.
LEMMA HeldAfterSet ==
    ASSUME NEW f, NEW ws, Array(ws), NEW s \in DOMAIN ws, NEW u,
           NEW w \in Wildcards, NEW v \in Values, v[1] = w,
           \A n \in Finals : f[n] # NULL => f[n][1] = n,
           Written(ws, s, u, w, v),
           NEW held, held = HeldBy(f, ws) \ {NULL}, v \notin held,
           NEW after,
           \/ Holds(ws, s, w) /\ after = (held \cup {v}) \ {ws[s].value}
           \/ ~ws[s].in_use /\ after = held \cup {v}
    PROVE  HeldBy(f, u) \ {NULL} = after
<1> USE DEF Written
<1>1. v # NULL
  BY WTableAssumption DEF Values
<1>2. ASSUME NEW n \in Finals, Holds(ws, s, w), f[n] # NULL PROVE f[n] # ws[s].value
  <2>1. ws[s].value[1] = w
    BY <1>2, ValueOfSlot DEF Holds
  <2> QED BY <1>2, <2>1, FinalsApart
<1>3. ASSUME NEW i \in DOMAIN ws, i # s, Holds(ws, s, w), ws[i].value # NULL
      PROVE  ws[i].value # ws[s].value
  <2>1. ws[s].value[1] = w
    BY <1>3, ValueOfSlot DEF Holds
  <2>2. ws[i].in_use /\ ws[i].value[1] = ws[i].key
    BY <1>3, ValueOfSlot
  <2> QED BY <1>3, <2>1, <2>2 DEF Holds
<1>4. Holds(ws, s, w) => ws[s].value # v /\ ws[s].value # NULL
  <2> SUFFICES ASSUME Holds(ws, s, w) PROVE ws[s].value # v /\ ws[s].value # NULL
    OBVIOUS
  <2>1. ws[s].value # NULL
    BY ValueOfSlot DEF Holds
  <2>2. ws[s].value \in held
    BY <2>1 DEF HeldBy
  <2> QED BY <2>1, <2>2
<1>5. ~ws[s].in_use => ws[s].value = NULL
  BY ValueOfSlot
<1>6. ASSUME NEW x, x \in HeldBy(f, u), x # NULL PROVE x \in after
  <2>1. CASE \E n \in Finals : x = f[n]
    BY <1>2, <1>6, <2>1 DEF HeldBy
  <2>2. CASE x = v
    BY <1>4, <2>2
  <2>3. CASE \E i \in DOMAIN ws : i # s /\ x = ws[i].value
    BY <1>3, <1>6, <2>3 DEF HeldBy
  <2>4. x = u[s].value \/ (\E n \in Finals : x = f[n])
           \/ \E i \in DOMAIN ws : i # s /\ x = ws[i].value
    BY <1>6 DEF HeldBy
  <2> QED BY <2>1, <2>2, <2>3, <2>4
<1>7. ASSUME NEW x \in after PROVE x \in HeldBy(f, u) /\ x # NULL
  <2>1. CASE x = v
    BY <1>1, <2>1 DEF HeldBy
  <2>2. CASE x # v
    <3>1. x \in held /\ x # ws[s].value
      BY <1>5, <1>7, <2>2
    <3>2. x # NULL /\ ((\E n \in Finals : x = f[n]) \/ \E i \in DOMAIN ws : x = ws[i].value)
      BY <3>1 DEF HeldBy
    <3>3. CASE \E n \in Finals : x = f[n]
      BY <3>2, <3>3 DEF HeldBy
    <3>4. CASE \E i \in DOMAIN ws : x = ws[i].value
      <4>1. PICK i \in DOMAIN ws : x = ws[i].value
        BY <3>4
      <4>2. i # s /\ u[i] = ws[i]
        BY <3>1, <4>1
      <4> QED BY <3>2, <4>1, <4>2 DEF HeldBy
    <3> QED BY <3>2, <3>3, <3>4
  <2> QED BY <2>1, <2>2
<1> QED BY <1>6, <1>7

\* The values held after wtable_del() has freed slot s.
LEMMA HeldAfterDel ==
    ASSUME NEW f, NEW ws, Array(ws), NEW s \in DOMAIN ws, ws[s].in_use, NEW u,
           \A n \in Finals : f[n] # NULL => f[n][1] = n,
           DOMAIN u = DOMAIN ws,
           u[s] = FreeSlot,
           \A i \in DOMAIN ws : i # s => u[i] = ws[i],
           NEW held, held = HeldBy(f, ws) \ {NULL}
    PROVE  HeldBy(f, u) \ {NULL} = held \ {ws[s].value}
<1> DEFINE after == held \ {ws[s].value}
<1>1. /\ ws[s].value # NULL /\ ws[s].value[1] = ws[s].key
      /\ ws[s].key \in Wildcards
  BY ValueOfSlot
<1>2. ASSUME NEW n \in Finals, f[n] # NULL PROVE f[n] # ws[s].value
  BY <1>1, <1>2, FinalsApart
<1>3. ASSUME NEW i \in DOMAIN ws, i # s, ws[i].value # NULL
      PROVE  ws[i].value # ws[s].value
  <2>1. ws[i].in_use /\ ws[i].value[1] = ws[i].key
    BY <1>3, ValueOfSlot
  <2> QED BY <1>1, <1>3, <2>1 DEF Array
<1>4. u[s].value = NULL
  BY DEF FreeSlot
<1>5. ASSUME NEW x, x \in HeldBy(f, u), x # NULL PROVE x \in after
  <2>1. (\E n \in Finals : x = f[n]) \/ \E i \in DOMAIN ws : i # s /\ x = ws[i].value
    BY <1>4, <1>5 DEF HeldBy
  <2> QED BY <1>2, <1>3, <1>5, <2>1 DEF HeldBy
<1>6. ASSUME NEW x \in after PROVE x \in HeldBy(f, u) /\ x # NULL
  <2>1. /\ x # NULL /\ x # ws[s].value
        /\ (\E n \in Finals : x = f[n]) \/ \E i \in DOMAIN ws : x = ws[i].value
    BY <1>6 DEF HeldBy
  <2>2. (\E n \in Finals : x = f[n]) \/ \E i \in DOMAIN ws : x = u[i].value
    BY <2>1
  <2> QED BY <2>1, <2>2 DEF HeldBy
<1> QED BY <1>5, <1>6

\* resize_table() up to its loop: what is stored is what was, in the array ws
\* or about to be added.
LEMMA ResizeStarts ==
    ASSUME WInv, Exclusive, ~lost, NEW ws, Array(ws), NEW n \in Nat, n >= MIN_SIZE,
           NEW args \in (Wildcards \X Values) \cup {NULL},
           InUseCount(ws) + (IF args = NULL THEN 0 ELSE 1) < n,
           args # NULL => /\ args[2][1] = args[1]
                          /\ \A i \in DOMAIN ws : ws[i].value # args[2],
           resize_table(n, ws, args), UNCHANGED readerVars,
           live' = (HeldBy(finals, ws) \ {NULL})
                     \cup (IF args = NULL THEN {} ELSE {args[2]}),
           live' \subseteq Values
    PROVE  WInv'
<1>1. /\ wpc' = "reinsert" /\ old_wildcards' = ws /\ pos' = 1
      /\ wildcards' = FreeSlots(n) /\ ws_used_count' = 0 /\ adding' = args
      /\ UNCHANGED <<finals, finals_lost, lost, cache, cache_size, old_entries, pc, name, found>>
  BY DEF resize_table, cacheVars, readerVars
<1>2. /\ Array(wildcards') /\ Len(wildcards') = n /\ DOMAIN wildcards' = 1..n
      /\ InUseCount(wildcards') = 0
      /\ \A i \in 1..n : wildcards'[i] = FreeSlot
  BY <1>1, FreshArray
<1>3. ws \in Seq(Slot) /\ Array(old_wildcards')
  BY <1>1 DEF Array
<1>4. \A r \in Readers : pc[r] = "idle"
  BY DEF Exclusive
<1>5. TypeOK'
  BY <1>1, <1>2, <1>3 DEF WInv, TypeOK, Array
<1>6. Arrays'
  <2>1. \A i \in 1..n : ~wildcards'[i].in_use
    BY <1>2 DEF FreeSlot
  <2> QED BY <1>2, <1>3, <2>1 DEF Arrays, Apart
<1>7. Locals'
  <2>1. Len(old_wildcards') \in Nat /\ pos' \in 1..(Len(old_wildcards') + 1)
    BY <1>1, <1>3
  <2> QED BY <1>1, <1>4, <2>1 DEF Locals
<1>8. Room'
  <2>1. Cardinality(InUsePending(old_wildcards', pos')) = InUseCount(ws)
    BY <1>1, <1>3, PendingAtFirst
  <2>2. InUseCount(ws) \in Nat
    BY <1>3, InUseFinite
  <2> QED BY <1>1, <1>2, <2>1, <2>2 DEF Room
<1>9. Owned'
  <2>1. Pending' = DOMAIN ws
    <3>1. DOMAIN ws = 1..Len(ws)
      BY <1>3
    <3>2. \A i \in DOMAIN ws : i >= 1
      BY <3>1
    <3> QED BY <1>1, <3>2 DEF Pending
  <2>2. StoredValues' = {finals[m] : m \in Finals}
                          \cup {wildcards'[i].value : i \in 1..n}
                          \cup {ws[i].value : i \in DOMAIN ws}
                          \cup (IF args = NULL THEN {} ELSE {args[2]})
    BY <1>1, <1>2, <2>1 DEF StoredValues
  <2>3. \A i \in 1..n : wildcards'[i].value = NULL
    BY <1>2 DEF FreeSlot
  <2>4. args # NULL => args[2] # NULL /\ args[2] \in Values
    BY WTableAssumption DEF Values
  <2>5. StoredValues' \ {NULL} = live'
    BY <2>2, <2>3, <2>4 DEF HeldBy
  <2>6. \A m \in Finals : finals'[m] # NULL => finals'[m][1] = m
    BY <1>1 DEF WInv, Owned
  <2>7. adding' # NULL => /\ \A i \in DOMAIN wildcards' : wildcards'[i].value # adding'[2]
                          /\ \A i \in Pending' : old_wildcards'[i].value # adding'[2]
    BY <1>1, <1>2, <2>1, <2>3, <2>4
  <2> QED BY <2>5, <2>6, <2>7 DEF Owned
<1>10. Lookups'
  BY <1>4, IdleLookups
<1>11. CacheCoherent'
  BY <1>1 DEF CacheCoherent
<1> QED BY <1>5, <1>6, <1>7, <1>8, <1>9, <1>10, <1>11 DEF WInv

\* The sizes resize_table() is called with.
LEMMA GrownSizeGrows ==
    ASSUME NEW n \in Nat
    PROVE  GrownSize(n) \in Nat /\ GrownSize(n) > n
BY DEF GrownSize

LEMMA SetWildcardKeeps ==
    ASSUME WInv, NEW w \in Wildcards, NEW v \in Values, set_wildcard(w, v)
    PROVE  WInv'
<1>1. /\ Exclusive /\ ~lost /\ v \in Values \ live /\ v[1] = w /\ UNCHANGED readerVars
  BY DEF set_wildcard
<1>2. /\ wpc = "ready" /\ adding = NULL /\ Pending = {} /\ old_wildcards = <<>>
      /\ \A r \in Readers : pc[r] = "idle"
      /\ Cardinality(InUsePending(old_wildcards, pos)) = 0
  BY <1>1, Alone
<1>3. /\ wildcards \in Seq(Slot) /\ Len(wildcards) \in Nat /\ Len(wildcards) >= MIN_SIZE
      /\ Array(wildcards)
      /\ ws_used_count = InUseCount(wildcards) /\ ws_used_count \in Nat
      /\ ws_used_count < Len(wildcards)
  BY <1>2 DEF WInv, TypeOK, Arrays, Room
<1>4. HeldBy(finals, wildcards) \ {NULL} = live
  BY <1>1, AloneOwns
<1>5. v # NULL /\ MIN_SIZE \in Nat /\ live \subseteq Values
  BY WTableAssumption DEF WInv, TypeOK, Values
<1>6. CASE MustGrow(wildcards, ws_used_count)
  <2>1. /\ live' = live \cup {v}
        /\ resize_table(GrownSize(Len(wildcards)), wildcards, <<w, v>>)
    BY <1>6 DEF set_wildcard
  <2> DEFINE n == GrownSize(Len(wildcards))
             args == <<w, v>>
  <2>2. n \in Nat /\ n > Len(wildcards) /\ n >= MIN_SIZE
    BY <1>3, <1>5, GrownSizeGrows
  <2>3. args \in Wildcards \X Values /\ args[1] = w /\ args[2] = v /\ args # NULL
    <3>1. args \in Wildcards \X Values /\ args[1] = w /\ args[2] = v
      OBVIOUS
    <3>2. args # NULL
      BY WTableAssumption
    <3> QED BY <3>1, <3>2
  <2>4. \A i \in DOMAIN wildcards : wildcards[i].value # v
    BY <1>1, <1>4, <1>5 DEF HeldBy
  <2>5. InUseCount(wildcards) + 1 < n
    BY <1>3, <2>2
  <2> HIDE DEF n, args
  <2> QED BY <1>1, <1>3, <1>4, <1>5, <2>1, <2>2, <2>3, <2>4, <2>5, ResizeStarts DEF n, args
<1>7. CASE ~MustGrow(wildcards, ws_used_count)
  <2>1. /\ cache' = CacheInvalidate(cache)
        /\ wildcards_set(w, v, live \cup {v})
        /\ UNCHANGED <<finals, finals_lost, lost, cache_size, wpc, old_wildcards, old_entries,
                       pos, adding, pc, name, found>>
    BY <1>1, <1>7 DEF set_wildcard, resizeVars, readerVars
  <2>2. PICK s \in DOMAIN wildcards :
              /\ wildcards' = [wildcards EXCEPT ![s] =
                                  [in_use |-> TRUE, key |-> w, value |-> v]]
              /\ Array(wildcards')
              /\ Len(wildcards') = Len(wildcards)
              /\ DOMAIN wildcards' = DOMAIN wildcards
              /\ ws_used_count' = InUseCount(wildcards')
              /\ \A i \in DOMAIN wildcards : Holds(wildcards, i, w) => i = s
              /\ \/ /\ Holds(wildcards, s, w)
                    /\ ws_used_count' = ws_used_count
                    /\ live' = (live \cup {v}) \ {wildcards[s].value}
                 \/ /\ ~wildcards[s].in_use
                    /\ ws_used_count' = ws_used_count + 1
                    /\ live' = live \cup {v}
    BY <1>1, <1>3, <2>1, SetEffect
  <2>3. /\ Cache(cache') /\ CacheSlots(cache') = CacheSlots(cache)
        /\ CacheSlots(cache) \in Nat \ {0}
        /\ \A n \in Finals : ~CacheHit(cache', n)
    BY <2>1, CacheInvalidated DEF WInv, TypeOK, Cache
  <2>4. ws_used_count' \in Nat /\ ws_used_count' < Len(wildcards')
    BY <1>3, <1>7, <2>2 DEF MustGrow
  <2>5. wildcards' \in Seq(Slot) /\ live' \subseteq Values
    BY <1>5, <2>2 DEF Array
  <2>6. TypeOK'
    BY <1>3, <2>1, <2>2, <2>3, <2>4, <2>5 DEF WInv, TypeOK, Cache
  <2>7. Pending' = {} /\ InUsePending(old_wildcards', pos') = {}
    BY <1>2, <2>1 DEF Pending, InUsePending
  <2>8. Arrays'
    BY <2>1, <2>2, <2>7 DEF WInv, Arrays, Apart
  <2>9. Locals'
    BY <2>1 DEF WInv, Locals
  <2>10. Room'
    BY <1>2, <2>1, <2>2, <2>4 DEF Room
  <2>11. Owned'
    <3>1. StoredValues' = HeldBy(finals, wildcards')
      BY <1>2, <2>1, <2>7 DEF StoredValues, HeldBy
    <3>2. \A m \in Finals : finals[m] # NULL => finals[m][1] = m
      BY DEF WInv, Owned
    <3>3. /\ wildcards'[s].value = v
          /\ \A i \in DOMAIN wildcards : i # s => wildcards'[i] = wildcards[i]
      BY <1>3, <2>2
    <3>4. HeldBy(finals, wildcards') \ {NULL} = live'
      <4>1. live = HeldBy(finals, wildcards) \ {NULL} /\ v \notin live /\ v[1] = w
        BY <1>1, <1>4
      <4>2. \/ Holds(wildcards, s, w) /\ live' = (live \cup {v}) \ {wildcards[s].value}
            \/ ~wildcards[s].in_use /\ live' = live \cup {v}
        BY <2>2
      <4>3. Written(wildcards, s, wildcards', w, v)
        BY <2>2, <3>3 DEF Written
      <4>4. Array(wildcards)
        BY <1>3
      <4> QED BY <3>2, <4>1, <4>2, <4>3, <4>4, HeldAfterSet
    <3> QED BY <1>2, <2>1, <3>1, <3>2, <3>4 DEF Owned
  <2>12. Lookups'
    BY <1>1, <1>2, IdleLookups
  <2>13. CacheCoherent'
    BY <2>3 DEF CacheCoherent
  <2> QED BY <2>6, <2>8, <2>9, <2>10, <2>11, <2>12, <2>13 DEF WInv
<1> QED BY <1>6, <1>7

LEMMA DelWildcardKeeps ==
    ASSUME WInv, NEW w \in Wildcards, del_wildcard(w)
    PROVE  WInv'
<1> DEFINE x == FindExact(wildcards, w)
           u == wildcards[x].value
           ws == [wildcards EXCEPT ![x] = FreeSlot]
           used == ws_used_count - 1
<1>1. /\ Exclusive /\ ~lost /\ x # 0 /\ live' = live \ {u}
      /\ ShrinkAndInvalidate(ws, used) /\ UNCHANGED readerVars
  BY DEF del_wildcard
<1>2. /\ wpc = "ready" /\ adding = NULL /\ Pending = {} /\ old_wildcards = <<>>
      /\ \A r \in Readers : pc[r] = "idle"
      /\ Cardinality(InUsePending(old_wildcards, pos)) = 0
  BY <1>1, Alone
<1>3. /\ wildcards \in Seq(Slot) /\ Len(wildcards) \in Nat /\ Len(wildcards) >= MIN_SIZE
      /\ Array(wildcards)
      /\ ws_used_count = InUseCount(wildcards) /\ ws_used_count \in Nat
      /\ ws_used_count < Len(wildcards)
      /\ MIN_SIZE \in Nat /\ live \subseteq Values
  BY <1>2, WTableAssumption DEF WInv, TypeOK, Arrays, Room
<1>4. HeldBy(finals, wildcards) \ {NULL} = live
  BY <1>1, AloneOwns
<1>5. x \in DOMAIN wildcards /\ Holds(wildcards, x, w) /\ wildcards[x].in_use
  BY <1>1, <1>3, FindExactIs DEF Holds
<1>6. /\ Array(ws) /\ Len(ws) = Len(wildcards) /\ DOMAIN ws = DOMAIN wildcards
      /\ InUseCount(ws) = used /\ used \in Nat
  BY <1>3, <1>5, EntryFreed
<1>7. /\ ws[x] = FreeSlot
      /\ \A i \in DOMAIN wildcards : i # x => ws[i] = wildcards[i]
  BY <1>3, <1>5
<1>8. \A m \in Finals : finals[m] # NULL => finals[m][1] = m
  BY DEF WInv, Owned
<1> HIDE DEF x, ws, used
<1>9. HeldBy(finals, ws) \ {NULL} = live'
  <2>1. live = HeldBy(finals, wildcards) \ {NULL} /\ DOMAIN ws = DOMAIN wildcards
    BY <1>4, <1>6
  <2>2. HeldBy(finals, ws) \ {NULL} = live \ {wildcards[x].value}
    BY <1>3, <1>5, <1>7, <1>8, <2>1, HeldAfterDel
  <2> QED BY <1>1, <2>2
<1>10. live' \subseteq Values
  BY <1>1, <1>3
<1>11. ASSUME resize_table(used + 3, ws, NULL), used + 3 >= MIN_SIZE
       PROVE  WInv'
  <2>1. used + 3 \in Nat /\ InUseCount(ws) + (IF NULL = NULL THEN 0 ELSE 1) < used + 3
    BY <1>6
  <2>2. live' = (HeldBy(finals, ws) \ {NULL}) \cup (IF NULL = NULL THEN {} ELSE {NULL[2]})
    BY <1>9
  <2> QED BY <1>1, <1>6, <1>10, <1>11, <2>1, <2>2, ResizeStarts
<1>12. ASSUME wildcards' = ws, ws_used_count' = used,
              UNCHANGED <<finals, finals_lost, cache_size, resizeVars>>,
              \/ lost' = lost /\ cache' = CacheInvalidate(cache)
              \/ lost' = TRUE /\ cache' = cache
       PROVE  WInv'
  <2>1. UNCHANGED <<finals, finals_lost, cache_size, wpc, old_wildcards, old_entries, pos, adding,
                    pc, name, found>>
    BY <1>1, <1>12 DEF resizeVars, readerVars
  <2>2. Pending' = {} /\ InUsePending(old_wildcards', pos') = {}
    BY <1>2, <2>1 DEF Pending, InUsePending
  <2>3. /\ Cache(cache') /\ CacheSlots(cache') \in Nat \ {0}
        /\ lost' \/ \A n \in Finals : ~CacheHit(cache', n)
    BY <1>12, CacheInvalidated DEF WInv, TypeOK, Cache
  <2>4. ws \in Seq(Slot) /\ ws_used_count' \in 0..Len(wildcards')
    BY <1>3, <1>6, <1>12 DEF Array, used
  <2>5. TypeOK'
    BY <1>3, <1>6, <1>10, <1>12, <2>1, <2>3, <2>4 DEF WInv, TypeOK, Cache
  <2>6. Arrays'
    BY <1>6, <1>12, <2>1, <2>2 DEF WInv, Arrays, Apart
  <2>7. Locals'
    BY <1>2, <1>12, <2>1 DEF WInv, Locals
  <2>8. Room'
    <3>1. used < Len(ws)
      BY <1>3, <1>6 DEF used
    <3> QED BY <1>2, <1>6, <1>12, <2>1, <2>2, <3>1 DEF Room
  <2>9. Owned'
    <3>1. StoredValues' = HeldBy(finals, ws)
      BY <1>2, <1>12, <2>1, <2>2 DEF StoredValues, HeldBy
    <3> QED BY <1>2, <1>8, <1>9, <2>1, <3>1 DEF Owned
  <2>10. Lookups'
    BY <1>1, <1>2, IdleLookups
  <2>11. CacheCoherent'
    BY <2>3 DEF CacheCoherent
  <2> QED BY <2>5, <2>6, <2>7, <2>8, <2>9, <2>10, <2>11 DEF WInv
<1>13. \/ resize_table(used + 3, ws, NULL) /\ used + 3 >= MIN_SIZE
       \/ /\ wildcards' = ws /\ ws_used_count' = used
          /\ UNCHANGED <<finals, finals_lost, cache_size, resizeVars>>
          /\ \/ lost' = lost /\ cache' = CacheInvalidate(cache)
             \/ lost' = TRUE /\ cache' = cache
  BY <1>1 DEF ShrinkAndInvalidate, cacheVars
<1> QED BY <1>11, <1>12, <1>13

\* An entry that is reinserted takes a free slot: the new array does not have
\* its key yet.
LEMMA ReinsertKeeps ==
    ASSUME WInv, reinsert
    PROVE  WInv'
<1> DEFINE e == old_wildcards[pos]
<1>1. /\ wpc = "reinsert" /\ pos' = pos + 1
      /\ UNCHANGED <<finals, finals_lost, lost, cache, cache_size, wpc, old_wildcards, old_entries,
                     adding, pc, name, found>>
      /\ pos <= Len(old_wildcards)
  BY DEF reinsert, cacheVars, readerVars
<1>2. /\ ~lost /\ \A r \in Readers : pc[r] = "idle"
      /\ pos \in Nat /\ pos >= 1
  BY <1>1 DEF WInv, Locals, TypeOK
<1>3. /\ old_wildcards \in Seq(Slot) /\ wildcards \in Seq(Slot)
      /\ Array(wildcards) /\ Array(old_wildcards)
      /\ Apart(wildcards, old_wildcards, pos)
      /\ Len(wildcards) \in Nat
  BY DEF WInv, TypeOK, Arrays
<1>4. pos \in DOMAIN old_wildcards
  BY <1>1, <1>2, <1>3
<1>5. /\ InUsePending(old_wildcards, pos + 1) = InUsePending(old_wildcards, pos) \ {pos}
      /\ pos \in InUsePending(old_wildcards, pos) <=> e.in_use
      /\ Cardinality(InUsePending(old_wildcards, pos + 1)) =
            IF e.in_use THEN Cardinality(InUsePending(old_wildcards, pos)) - 1
            ELSE Cardinality(InUsePending(old_wildcards, pos))
      /\ e.in_use => Cardinality(InUsePending(old_wildcards, pos)) \in Nat \ {0}
  BY <1>3, <1>4, PendingNext
<1>6. /\ ws_used_count = InUseCount(wildcards) /\ ws_used_count \in Nat
      /\ ws_used_count + Cardinality(InUsePending(old_wildcards, pos))
            + (IF adding = NULL THEN 0 ELSE 1) < Len(wildcards)
      /\ Cardinality(InUsePending(old_wildcards, pos)) \in Nat
  BY <1>2, <1>3, PendingFinite DEF WInv, TypeOK, Room
<1>7. /\ Pending = Pending' \cup {pos} /\ Pending' = Pending \ {pos}
  BY <1>1, <1>2, <1>3, <1>4 DEF Pending
<1>8. Lookups' /\ CacheCoherent'
  BY <1>1, <1>2, IdleLookups DEF CacheCoherent, readerVars
<1>9. pos' \in 1..(Len(old_wildcards') + 1)
  BY <1>1, <1>2, <1>3
<1>10. Locals'
  BY <1>1, <1>2, <1>9 DEF WInv, Locals
<1>11. IF e.in_use THEN /\ e.value \in Values /\ e.value # NULL /\ e.key \in Wildcards
                        /\ e.value[1] = e.key
       ELSE e.value = NULL
  BY <1>3, <1>4, ValueOfSlot
<1>12. CASE ~e.in_use
  <2>1. UNCHANGED <<wildcards, ws_used_count, live>>
    BY <1>12 DEF reinsert
  <2>2. TypeOK'
    BY <1>1, <1>2, <2>1 DEF WInv, TypeOK
  <2>3. InUsePending(old_wildcards', pos') = InUsePending(old_wildcards, pos)
    BY <1>1, <1>5, <1>12
  <2>4. Arrays' /\ Room'
    BY <1>1, <2>1, <2>3 DEF WInv, Arrays, Apart, Room
  <2>5. StoredValues' \ {NULL} = StoredValues \ {NULL}
    BY <1>1, <1>7, <1>11, <1>12, <2>1 DEF StoredValues
  <2>6. Owned'
    BY <1>1, <1>7, <2>1, <2>5 DEF WInv, Owned
  <2> QED BY <1>8, <1>10, <2>2, <2>4, <2>6 DEF WInv
<1>13. CASE e.in_use
  <2>1. wildcards_set(e.key, e.value, live)
    BY <1>13 DEF reinsert
  <2>2. e.key \in Wildcards /\ e.value \in Values /\ e.value[1] = e.key
    BY <1>11, <1>13
  <2>3. ws_used_count < Len(wildcards)
    BY <1>6
  <2> HIDE DEF e
  <2>4. PICK s \in DOMAIN wildcards :
              /\ wildcards' = [wildcards EXCEPT ![s] =
                                  [in_use |-> TRUE, key |-> e.key, value |-> e.value]]
              /\ Array(wildcards')
              /\ Len(wildcards') = Len(wildcards)
              /\ DOMAIN wildcards' = DOMAIN wildcards
              /\ ws_used_count' = InUseCount(wildcards')
              /\ \A i \in DOMAIN wildcards : Holds(wildcards, i, e.key) => i = s
              /\ \/ /\ Holds(wildcards, s, e.key)
                    /\ ws_used_count' = ws_used_count
                    /\ live' = live \ {wildcards[s].value}
                 \/ /\ ~wildcards[s].in_use
                    /\ ws_used_count' = ws_used_count + 1
                    /\ live' = live
    BY <1>3, <1>6, <2>1, <2>2, <2>3, SetEffect
  <2>5. /\ wildcards'[s] = [in_use |-> TRUE, key |-> e.key, value |-> e.value]
        /\ \A i \in DOMAIN wildcards : i # s => wildcards'[i] = wildcards[i]
    BY <1>3, <2>4
  <2>6. ~Holds(wildcards, s, e.key)
    BY <1>3, <1>5, <1>13 DEF Apart, Holds, e
  <2>7. ~wildcards[s].in_use /\ ws_used_count' = ws_used_count + 1 /\ live' = live
    BY <2>4, <2>6
  <2>8. wildcards' \in Seq(Slot) /\ ws_used_count' \in 0..Len(wildcards')
    BY <1>3, <1>6, <2>3, <2>4, <2>7 DEF Array
  <2>9. TypeOK'
    BY <1>1, <1>2, <2>4, <2>7, <2>8 DEF WInv, TypeOK
  <2>10. Apart(wildcards', old_wildcards', pos')
    <3> SUFFICES ASSUME NEW i \in DOMAIN wildcards',
                        NEW j \in InUsePending(old_wildcards', pos'), wildcards'[i].in_use
                 PROVE  wildcards'[i].key # old_wildcards'[j].key
      BY DEF Apart
    <3>1. j \in InUsePending(old_wildcards, pos) /\ j # pos
      BY <1>1, <1>5
    <3>2. CASE i = s
      <4>1. wildcards'[i].key = e.key
        BY <2>5, <3>2
      <4>2. old_wildcards[j].key # e.key
        BY <1>3, <1>4, <1>13, <3>1 DEF Array, InUsePending, e
      <4> QED BY <1>1, <4>1, <4>2
    <3>3. CASE i # s
      BY <1>1, <1>3, <2>4, <2>5, <3>1, <3>3 DEF Apart
    <3> QED BY <3>2, <3>3
  <2>11. Arrays'
    BY <1>1, <1>3, <2>4, <2>10 DEF Arrays
  <2>12. Room'
    <3>1. Cardinality(InUsePending(old_wildcards', pos')) =
             Cardinality(InUsePending(old_wildcards, pos)) - 1
      BY <1>1, <1>5, <1>13 DEF e
    <3>2. (IF adding = NULL THEN 0 ELSE 1) \in {0, 1} /\ adding' = adding
      BY <1>1
    <3>3. ws_used_count' + Cardinality(InUsePending(old_wildcards', pos'))
             + (IF adding' = NULL THEN 0 ELSE 1) < Len(wildcards')
      BY <1>6, <2>4, <2>7, <3>1, <3>2
    <3> QED BY <2>4, <3>3 DEF Room
  <2>13. Owned'
    <3>1. wildcards[s].value = NULL
      BY <1>3, <2>7, ValueOfSlot
    <3>2. {wildcards'[i].value : i \in DOMAIN wildcards'} \ {NULL}
             = ({wildcards[i].value : i \in DOMAIN wildcards} \cup {e.value}) \ {NULL}
      BY <2>4, <2>5, <3>1
    <3>3. {old_wildcards[i].value : i \in Pending}
             = {old_wildcards'[i].value : i \in Pending'} \cup {e.value}
      BY <1>1, <1>7 DEF e
    <3>4. StoredValues' \ {NULL} = StoredValues \ {NULL}
      BY <1>1, <3>2, <3>3 DEF StoredValues
    <3>5. adding # NULL => e.value # adding[2]
      BY <1>7 DEF WInv, Owned, e
    <3>6. \A i \in DOMAIN wildcards' : adding # NULL => wildcards'[i].value # adding[2]
      BY <2>4, <2>5, <3>5 DEF WInv, Owned
    <3>7. \A i \in Pending' : adding # NULL => old_wildcards[i].value # adding[2]
      BY <1>7 DEF WInv, Owned
    <3> QED BY <1>1, <2>7, <3>4, <3>6, <3>7 DEF WInv, Owned
  <2> QED BY <1>8, <1>10, <2>9, <2>11, <2>12, <2>13 DEF WInv
<1> QED BY <1>12, <1>13

LEMMA CacheResizeKeeps ==
    ASSUME WInv, cache_resize
    PROVE  WInv'
<1>1. /\ wpc = "reinsert" /\ wpc' = "rehash" /\ pos > Len(old_wildcards)
      /\ old_wildcards' = <<>> /\ pos' = 0 /\ cache' = Slots!Empty(Len(wildcards))
      /\ UNCHANGED <<finals, finals_lost, wildcards, ws_used_count, live, lost, cache_size,
                     adding, pc, name, found>>
      /\ old_entries' \in {cache, CacheInvalidate(cache)}
  BY DEF cache_resize, tableVars, readerVars
<1>2. /\ ~lost /\ \A r \in Readers : pc[r] = "idle"
      /\ pos \in Nat /\ old_wildcards \in Seq(Slot) /\ Len(old_wildcards) \in Nat
      /\ Len(wildcards) \in Nat \ {0}
  BY <1>1, WTableAssumption DEF WInv, Locals, TypeOK
<1>3. Pending = {} /\ Pending' = {}
  BY <1>1, <1>2 DEF Pending
<1>4. /\ InUsePending(old_wildcards, pos) = {}
      /\ InUsePending(old_wildcards', pos') = {}
  BY <1>1, <1>2 DEF InUsePending
<1>5. /\ CacheSlots(cache') = Len(wildcards) /\ Cache(cache')
      /\ Cache(old_entries')
  BY <1>1, <1>2, EmptyCache, CacheInvalidated DEF WInv, TypeOK, Cache
<1>6. TypeOK'
  <2>1. old_wildcards' \in Seq(Slot)
    BY <1>1
  <2> QED BY <1>1, <1>2, <1>5, <2>1 DEF WInv, TypeOK, Cache
<1>7. Arrays'
  <2>1. Array(old_wildcards')
    BY <1>1 DEF Array
  <2> QED BY <1>1, <1>4, <2>1 DEF WInv, Arrays, Apart
<1>8. Locals'
  BY <1>1, <1>2 DEF WInv, Locals
<1>9. Room'
  BY <1>1, <1>4 DEF WInv, Room
<1>10. StoredValues' = StoredValues
  BY <1>1, <1>3 DEF StoredValues
<1>11. Owned'
  BY <1>1, <1>3, <1>10 DEF WInv, Owned
<1>12. Lookups' /\ CacheCoherent'
  BY <1>1, <1>2, IdleLookups DEF CacheCoherent, readerVars
<1> QED BY <1>6, <1>7, <1>8, <1>9, <1>11, <1>12 DEF WInv

LEMMA RehashKeeps ==
    ASSUME WInv, rehash
    PROVE  WInv'
<1> DEFINE e == old_entries[pos]
<1>1. /\ wpc = "rehash" /\ pos' = pos + 1 /\ pos < CacheSlots(old_entries)
      /\ cache' \in {cache, Slots!Put(cache, CacheSlots(cache), e.key, e.value)}
      /\ UNCHANGED <<finals, finals_lost, wildcards, ws_used_count, live, lost, cache_size, wpc,
                     old_wildcards, old_entries, adding, pc, name, found>>
  BY DEF rehash, tableVars, readerVars
<1>2. /\ ~lost /\ \A r \in Readers : pc[r] = "idle"
      /\ old_wildcards = <<>>
      /\ pos \in Nat
  BY <1>1 DEF WInv, Locals, TypeOK
<1>3. e \in Slots!Entry
  <2>1. pos \in 0..(CacheSlots(old_entries) - 1)
    BY <1>1, <1>2 DEF WInv, TypeOK
  <2> QED BY <2>1 DEF WInv, TypeOK
<1> HIDE DEF e
<1>4. Cache(cache') /\ CacheSlots(cache') = CacheSlots(cache)
  BY <1>1, <1>3, CachePut DEF WInv, TypeOK, Cache
<1>5. Pending' = Pending
  BY <1>1, <1>2 DEF Pending
<1>6. InUsePending(old_wildcards', pos') = InUsePending(old_wildcards, pos)
  BY <1>1, <1>2 DEF InUsePending
<1>7. TypeOK'
  BY <1>1, <1>2, <1>4 DEF WInv, TypeOK, Cache
<1>8. Arrays' /\ Room'
  BY <1>1, <1>6 DEF WInv, Arrays, Apart, Room
<1>9. Locals'
  BY <1>1 DEF WInv, Locals
<1>10. StoredValues' = StoredValues
  BY <1>1, <1>5 DEF StoredValues
<1>11. Owned'
  BY <1>1, <1>5, <1>10 DEF WInv, Owned
<1>12. Lookups' /\ CacheCoherent'
  BY <1>1, <1>2, IdleLookups DEF CacheCoherent, readerVars
<1> QED BY <1>7, <1>8, <1>9, <1>11, <1>12 DEF WInv

LEMMA ResizeDoneKeeps ==
    ASSUME WInv, resize_done
    PROVE  WInv'
<1>1. /\ wpc = "rehash" /\ wpc' = "ready" /\ pos' = 0 /\ adding' = NULL
      /\ old_entries' = Slots!NoEntries
      /\ cache_size' = Len(wildcards)
      /\ cache' = CacheInvalidate(cache)
      /\ UNCHANGED <<finals, finals_lost, lost, old_wildcards, pc, name, found>>
  BY DEF resize_done, readerVars
<1>2. /\ ~lost /\ \A r \in Readers : pc[r] = "idle"
      /\ old_wildcards = <<>>
      /\ wildcards \in Seq(Slot) /\ Len(wildcards) \in Nat /\ Array(wildcards)
      /\ Len(wildcards) >= MIN_SIZE
      /\ ws_used_count = InUseCount(wildcards) /\ ws_used_count \in Nat
      /\ live \subseteq Values
  BY <1>1 DEF WInv, Locals, TypeOK, Arrays, Room
<1>3. Pending = {} /\ Pending' = {}
  BY <1>1, <1>2 DEF Pending
<1>4. /\ InUsePending(old_wildcards, pos) = {}
      /\ InUsePending(old_wildcards', pos') = {}
      /\ Cardinality(InUsePending(old_wildcards, pos)) = 0
  BY <1>1, <1>2, FS_EmptySet DEF InUsePending
<1>5. ws_used_count + (IF adding = NULL THEN 0 ELSE 1) < Len(wildcards)
  <2>1. (IF adding = NULL THEN 0 ELSE 1) \in {0, 1}
    OBVIOUS
  <2> QED BY <1>2, <1>4, <2>1 DEF WInv, Room
<1>6. /\ Cache(cache') /\ CacheSlots(cache') \in Nat \ {0}
      /\ \A n \in Finals : ~CacheHit(cache', n)
      /\ Cache(old_entries')
  BY <1>1, CacheInvalidated, EmptyCache DEF WInv, TypeOK, Cache
<1>7. /\ \A m \in Finals : finals[m] # NULL => finals[m][1] = m
      /\ StoredValues \ {NULL} = live
  BY DEF WInv, Owned
<1>8. CacheCoherent' /\ Lookups'
  BY <1>1, <1>2, <1>6, IdleLookups DEF CacheCoherent, readerVars
<1>9. Locals'
  BY <1>1, <1>2 DEF Locals
<1>10. CASE adding = NULL
  <2>1. UNCHANGED <<wildcards, ws_used_count, live>>
    BY <1>10 DEF resize_done
  <2>2. TypeOK'
    BY <1>1, <1>2, <1>6, <2>1 DEF WInv, TypeOK, Cache
  <2>3. Arrays' /\ Room'
    BY <1>1, <1>4, <1>10, <2>1 DEF WInv, Arrays, Apart, Room
  <2>4. StoredValues' = StoredValues
    BY <1>1, <1>3, <1>10, <2>1 DEF StoredValues
  <2>5. Owned'
    BY <1>1, <1>7, <2>1, <2>4 DEF Owned
  <2> QED BY <1>8, <1>9, <2>2, <2>3, <2>5 DEF WInv
<1>11. CASE adding # NULL
  <2> DEFINE w == adding[1]
             v == adding[2]
  <2>1. w \in Wildcards /\ v \in Values /\ v[1] = w
    BY <1>11 DEF WInv, TypeOK, Locals
  <2>2. wildcards_set(w, v, live)
    BY <1>11 DEF resize_done
  <2>3. v # NULL
    BY <2>1, WTableAssumption DEF Values
  <2>4. StoredValues = HeldBy(finals, wildcards) \cup {v}
    BY <1>3, <1>11 DEF StoredValues, HeldBy
  <2>5. v \notin HeldBy(finals, wildcards)
    <3>1. \A i \in DOMAIN wildcards : wildcards[i].value # v
      BY <1>11 DEF WInv, Owned
    <3>2. \A m \in Finals : finals[m] # v
      BY <1>7, <2>1, <2>3, FinalsApart
    <3> QED BY <3>1, <3>2 DEF HeldBy
  <2> DEFINE held == HeldBy(finals, wildcards) \ {NULL}
  <2>6. live = held \cup {v} /\ v \notin held
    BY <1>7, <2>3, <2>4, <2>5
  <2>7. ws_used_count + 1 < Len(wildcards)
    BY <1>5, <1>11
  <2>8. ws_used_count < Len(wildcards)
    BY <1>2, <2>7
  <2> HIDE DEF w, v
  <2>9. PICK s \in DOMAIN wildcards :
              /\ wildcards' = [wildcards EXCEPT ![s] =
                                  [in_use |-> TRUE, key |-> w, value |-> v]]
              /\ Array(wildcards')
              /\ Len(wildcards') = Len(wildcards)
              /\ DOMAIN wildcards' = DOMAIN wildcards
              /\ ws_used_count' = InUseCount(wildcards')
              /\ \A i \in DOMAIN wildcards : Holds(wildcards, i, w) => i = s
              /\ \/ /\ Holds(wildcards, s, w)
                    /\ ws_used_count' = ws_used_count
                    /\ live' = live \ {wildcards[s].value}
                 \/ /\ ~wildcards[s].in_use
                    /\ ws_used_count' = ws_used_count + 1
                    /\ live' = live
    BY <1>2, <2>1, <2>2, <2>8, SetEffect
  <2>10. wildcards' \in Seq(Slot) /\ ws_used_count' \in Nat
         /\ ws_used_count' < Len(wildcards') /\ live' \subseteq Values
    BY <1>2, <2>7, <2>8, <2>9 DEF Array
  <2>11. TypeOK'
    BY <1>1, <1>2, <1>6, <2>9, <2>10 DEF WInv, TypeOK, Cache
  <2>12. Arrays'
    BY <1>1, <1>4, <2>9 DEF WInv, Arrays, Apart
  <2>13. Room'
    <3>1. Cardinality(InUsePending(old_wildcards', pos')) = 0
      BY <1>4, FS_EmptySet
    <3> QED BY <1>1, <2>9, <2>10, <3>1 DEF Room
  <2>14. Owned'
    <3>1. StoredValues' = HeldBy(finals, wildcards')
      BY <1>1, <1>3 DEF StoredValues, HeldBy
    <3>2. Written(wildcards, s, wildcards', w, v)
      BY <1>2, <2>9 DEF Written
    <3>3. \/ Holds(wildcards, s, w) /\ live' = (held \cup {v}) \ {wildcards[s].value}
          \/ ~wildcards[s].in_use /\ live' = held \cup {v}
      BY <2>6, <2>9
    <3>4. HeldBy(finals, wildcards') \ {NULL} = live'
      <4> held = HeldBy(finals, wildcards) \ {NULL}
        OBVIOUS
      <4> HIDE DEF held
      <4> QED BY <1>2, <1>7, <2>1, <2>6, <3>2, <3>3, HeldAfterSet
    <3> QED BY <1>1, <1>7, <3>1, <3>4 DEF Owned
  <2> QED BY <1>8, <1>9, <2>11, <2>12, <2>13, <2>14 DEF WInv
<1> QED BY <1>10, <1>11

LEMMA WInvNext == WInv /\ [Next]_vars => WInv'
<1> SUFFICES ASSUME WInv, [Next]_vars PROVE WInv'
  OBVIOUS
<1>1. CASE UNCHANGED vars
  <2>1. UNCHANGED <<finals, finals_lost, wildcards, ws_used_count, live, lost, cache, cache_size, wpc,
                    old_wildcards, old_entries, pos, adding, pc, name, found>>
    BY <1>1 DEF vars, tableVars, cacheVars, resizeVars, readerVars
  <2>2. TypeOK' /\ Arrays' /\ Locals' /\ Room'
    BY <2>1 DEF WInv, TypeOK, Arrays, Locals, Room
  <2>3. StoredValues' = StoredValues /\ Pending' = Pending
    BY <2>1 DEF StoredValues, Pending
  <2>4. Owned' /\ Lookups' /\ CacheCoherent'
    BY <2>1, <2>3 DEF WInv, Owned, Lookups, CacheCoherent
  <2> QED BY <2>2, <2>4 DEF WInv
<1>2. ASSUME NEW r \in Readers, NEW n \in Finals, get_final(r, n) PROVE WInv'
  BY <1>2, GetFinalKeeps
<1>3. ASSUME NEW r \in Readers, cache_get(r) \/ walk(r) \/ cache_set(r) \/ release(r)
      PROVE  WInv'
  BY <1>3, CacheGetKeeps, WalkKeeps, CacheSetKeeps, ReleaseKeeps
<1>4. ASSUME NEW n \in Finals, del_final(n) \/ \E v \in Values : set_final(n, v)
      PROVE  WInv'
  BY <1>4, DelFinalKeeps, SetFinalKeeps
<1>5. ASSUME NEW w \in Wildcards, \/ del_wildcard(w) \/ set_wildcard_fails(w)
                                  \/ \E v \in Values : set_wildcard(w, v)
      PROVE  WInv'
  BY <1>5, DelWildcardKeeps, SetFailsKeeps, SetWildcardKeeps
<1>6. ASSUME reinsert \/ cache_resize \/ rehash \/ resize_done PROVE WInv'
  BY <1>6, ReinsertKeeps, CacheResizeKeeps, RehashKeeps, ResizeDoneKeeps
<1> QED BY <1>1, <1>2, <1>3, <1>4, <1>5, <1>6 DEF Next

THEOREM WInvariance == Spec => []WInv
BY WInvInit, WInvNext, PTL DEF Spec

\* The fields of struct wtable and the locals of its operations keep their
\* types; ws_used_count never exceeds the number of slots.
THEOREM WTypeCorrect == Spec => []TypeOK
<1>1. WInv => TypeOK
  BY DEF WInv
<1> QED BY <1>1, WInvariance, PTL

\* A cached result is what a walk of the array would give, whatever lookups,
\* insertions, removals and resizes went before (wtable.c:307, wtable.c:347).
THEOREM CacheIsCoherent == Spec => []CacheCoherent
<1>1. WInv => CacheCoherent
  BY DEF WInv
<1> QED BY <1>1, WInvariance, PTL

\* wtable.c:252 "This should never happen, as we should always have space by
\* the time this function is called".
THEOREM SpaceIsLeft == Spec => []AlwaysSpace
<1>1. ASSUME WInv PROVE AlwaysSpace
  <2>1. /\ wildcards \in Seq(Slot) /\ Len(wildcards) \in Nat
        /\ old_wildcards \in Seq(Slot) /\ pos \in Nat
        /\ ws_used_count = InUseCount(wildcards) /\ ws_used_count \in Nat
    BY <1>1 DEF WInv, TypeOK, Room
  <2>2. Cardinality(InUsePending(old_wildcards, pos)) \in Nat
    BY <2>1, PendingFinite
  <2>3. (IF adding = NULL THEN 0 ELSE 1) \in {0, 1}
    OBVIOUS
  <2>4. InUseCount(wildcards) < Len(wildcards)
    BY <1>1, <2>1, <2>2, <2>3 DEF WInv, Room
  <2> QED BY <2>1, <2>4, RoomMeansFree DEF AlwaysSpace
<1> QED BY <1>1, WInvariance, PTL

\* Every value has one owner: what is allocated is stored, and a reader never
\* holds a value that was destroyed.
THEOREM ValuesOwned == Spec => []Ownership
<1>1. ASSUME WInv PROVE Ownership
  <2> SUFFICES ASSUME ~Lost, NEW r \in Readers PROVE found[r] \in live \cup {NULL}
    BY <1>1 DEF WInv, Owned, Ownership, Lost
  <2>1. pc[r] \in {"idle", "cache_get", "walk", "cache_set", "found"}
    BY <1>1 DEF WInv, TypeOK
  <2>. ~lost
    BY DEF Lost
  <2>2. CASE pc[r] = "cache_set"
    BY <1>1, <2>2, ReaderInside, WalkOwned DEF WInv, Lookups
  <2>3. CASE pc[r] = "found"
    BY <1>1, <2>3 DEF WInv, Lookups, Lost
  <2>4. CASE pc[r] \in {"idle", "cache_get", "walk"}
    BY <1>1, <2>4 DEF WInv, Lookups
  <2> QED BY <2>1, <2>2, <2>3, <2>4
<1> QED BY <1>1, WInvariance, PTL
-----------------------------------------------------------------------------
(***************************************************************************)
(* The table behaves as PointTable.                                        *)
(***************************************************************************)

\* What wildcard k is bound to in the array and the positions P of the old one.
BoundTo(ws, old, P, k) ==
    IF \E i \in DOMAIN ws : Holds(ws, i, k)
    THEN ws[CHOOSE i \in DOMAIN ws : Holds(ws, i, k)].value
    ELSE IF \E i \in P : Holds(old, i, k)
    THEN old[CHOOSE i \in P : Holds(old, i, k)].value
    ELSE NULL

LEMMA ContentsIs ==
    /\ DOMAIN Contents = Keys
    /\ \A k \in Keys : Contents[k] =
          IF Lost THEN NULL
          ELSE IF k \in Finals THEN finals[k]
          ELSE BoundTo(wildcards, old_wildcards, Pending, k)
BY DEF Contents, BoundTo

LEMMA ContentsWillBe ==
    /\ DOMAIN Contents' = Keys
    /\ \A k \in Keys : Contents'[k] =
          IF Lost' THEN NULL
          ELSE IF k \in Finals THEN finals'[k]
          ELSE BoundTo(wildcards', old_wildcards', Pending', k)
BY DEF Contents, BoundTo

LEMMA BoundToIs ==
    ASSUME NEW ws, Array(ws), NEW old, Array(old), NEW p, Apart(ws, old, p),
           NEW P, P = {i \in DOMAIN old : i >= p}, NEW k
    PROVE  /\ \A i \in DOMAIN ws : Holds(ws, i, k) => BoundTo(ws, old, P, k) = ws[i].value
           /\ \A i \in P : Holds(old, i, k) => BoundTo(ws, old, P, k) = old[i].value
           /\ \/ \E i \in DOMAIN ws : Holds(ws, i, k)
              \/ \E i \in P : Holds(old, i, k)
              \/ BoundTo(ws, old, P, k) = NULL
<1>1. ASSUME NEW i \in DOMAIN ws, Holds(ws, i, k)
      PROVE  BoundTo(ws, old, P, k) = ws[i].value
  <2> DEFINE c == CHOOSE j \in DOMAIN ws : Holds(ws, j, k)
  <2>1. c \in DOMAIN ws /\ Holds(ws, c, k)
    BY <1>1
  <2>2. c = i
    <3> HIDE DEF c
    <3> QED BY <1>1, <2>1 DEF Array, Holds
  <2>3. BoundTo(ws, old, P, k) = ws[c].value
    BY <1>1 DEF BoundTo
  <2> QED BY <2>2, <2>3
<1>2. ASSUME NEW i \in P, Holds(old, i, k)
      PROVE  BoundTo(ws, old, P, k) = old[i].value
  <2> DEFINE c == CHOOSE j \in P : Holds(old, j, k)
  <2>1. c \in P /\ Holds(old, c, k)
    BY <1>2
  <2>2. c = i
    <3> HIDE DEF c
    <3> QED BY <1>2, <2>1 DEF Array, Holds
  <2>3. ~ \E j \in DOMAIN ws : Holds(ws, j, k)
    BY <1>2 DEF Apart, Holds, InUsePending
  <2>4. BoundTo(ws, old, P, k) = old[c].value
    BY <1>2, <2>3 DEF BoundTo
  <2> QED BY <2>2, <2>4
<1>3. \/ \E i \in DOMAIN ws : Holds(ws, i, k)
      \/ \E i \in P : Holds(old, i, k)
      \/ BoundTo(ws, old, P, k) = NULL
  BY DEF BoundTo
<1> QED BY <1>1, <1>2, <1>3

\* The bindings of the present state.
LEMMA Bindings ==
    ASSUME WInv, NEW k
    PROVE  /\ \A i \in DOMAIN wildcards : Holds(wildcards, i, k) =>
                 BoundTo(wildcards, old_wildcards, Pending, k) = wildcards[i].value
           /\ \A i \in Pending : Holds(old_wildcards, i, k) =>
                 BoundTo(wildcards, old_wildcards, Pending, k) = old_wildcards[i].value
           /\ \/ \E i \in DOMAIN wildcards : Holds(wildcards, i, k)
              \/ \E i \in Pending : Holds(old_wildcards, i, k)
              \/ BoundTo(wildcards, old_wildcards, Pending, k) = NULL
<1>1. Pending = {i \in DOMAIN old_wildcards : i >= pos}
  BY DEF Pending
<1>2. Array(wildcards) /\ Array(old_wildcards) /\ Apart(wildcards, old_wildcards, pos)
  BY DEF WInv, Arrays
<1> QED BY <1>1, <1>2, BoundToIs

LEMMA NextBindings ==
    ASSUME WInv', NEW k
    PROVE  /\ \A i \in DOMAIN wildcards' : Holds(wildcards', i, k) =>
                 BoundTo(wildcards', old_wildcards', Pending', k) = wildcards'[i].value
           /\ \A i \in Pending' : Holds(old_wildcards', i, k) =>
                 BoundTo(wildcards', old_wildcards', Pending', k) = old_wildcards'[i].value
           /\ \/ \E i \in DOMAIN wildcards' : Holds(wildcards', i, k)
              \/ \E i \in Pending' : Holds(old_wildcards', i, k)
              \/ BoundTo(wildcards', old_wildcards', Pending', k) = NULL
<1>1. Pending' = {i \in DOMAIN old_wildcards' : i >= pos'}
  BY DEF Pending
<1>2. Array(wildcards') /\ Array(old_wildcards') /\ Apart(wildcards', old_wildcards', pos')
  BY DEF WInv, Arrays
<1> QED BY <1>1, <1>2, BoundToIs

LEMMA WildcardIsNotFinal ==
    ASSUME NEW w \in Wildcards
    PROVE  w \in Keys /\ w \notin Finals
BY PointNamesAssumption DEF Keys

LEMMA FinalIsKey ==
    ASSUME NEW n \in Finals
    PROVE  n \in Keys
BY DEF Keys

\* Everything the abstract table holds is allocated, and is not what is being
\* added.
LEMMA ContentsLive ==
    ASSUME WInv, NEW k \in Keys
    PROVE  /\ Contents[k] \in live \cup {NULL}
           /\ adding # NULL => Contents[k] # adding[2]
<1>1. adding # NULL => adding[2] # NULL /\ adding[2] \in Values
                       /\ adding[2][1] = adding[1] /\ adding[1] \in Wildcards
  BY WTableAssumption DEF WInv, TypeOK, Locals, Values
<1>2. StoredValues \ {NULL} = live
  BY DEF WInv, Owned
<1>3. CASE Lost
  BY <1>1, <1>3, ContentsIs
<1>4. CASE ~Lost /\ k \in Finals
  <2>1. Contents[k] = finals[k]
    BY <1>4, ContentsIs
  <2>2. finals[k] \in live \cup {NULL}
    BY <1>2, <1>4 DEF StoredValues
  <2>3. adding # NULL => finals[k] # adding[2]
    BY <1>1, <1>4, FinalsApart DEF WInv, Owned
  <2> QED BY <2>1, <2>2, <2>3
<1>5. CASE ~Lost /\ k \notin Finals
  <2>1. Contents[k] = BoundTo(wildcards, old_wildcards, Pending, k)
    BY <1>5, ContentsIs
  <2>2. CASE \E i \in DOMAIN wildcards : Holds(wildcards, i, k)
    <3>1. PICK i \in DOMAIN wildcards : Holds(wildcards, i, k)
      BY <2>2
    <3>2. Contents[k] = wildcards[i].value
      BY <2>1, <3>1, Bindings
    <3> QED BY <1>2, <3>2 DEF WInv, Owned, StoredValues
  <2>3. CASE \E i \in Pending : Holds(old_wildcards, i, k)
    <3>1. PICK i \in Pending : Holds(old_wildcards, i, k)
      BY <2>3
    <3>2. Contents[k] = old_wildcards[i].value
      BY <2>1, <3>1, Bindings
    <3> QED BY <1>2, <3>2 DEF WInv, Owned, StoredValues
  <2>4. CASE BoundTo(wildcards, old_wildcards, Pending, k) = NULL
    BY <1>1, <2>1, <2>4
  <2> QED BY <2>2, <2>3, <2>4, Bindings
<1> QED BY <1>3, <1>4, <1>5

\* What a walk finds is what some wildcard that covers the name is bound to.
LEMMA WalkIsCandidate ==
    ASSUME WInv, ~Lost, wpc = "ready", NEW n \in Finals, finals[n] = NULL
    PROVE  WalkResult(wildcards, n) \in Table!Candidates(Contents, n)
<1>1. wildcards \in Seq(Slot) /\ Array(wildcards) /\ Pending = {}
  BY DEF WInv, TypeOK, Arrays, Locals, Pending
<1>2. Contents[n] = NULL
  BY ContentsIs, FinalIsKey
<1>3. ASSUME NEW i \in DOMAIN wildcards, wildcards[i].in_use
      PROVE  /\ wildcards[i].key \in Wildcards
             /\ wildcards[i].value # NULL
             /\ Contents[wildcards[i].key] = wildcards[i].value
  <2> DEFINE w == wildcards[i].key
  <2>1. w \in Wildcards /\ wildcards[i].value # NULL
    BY <1>1, <1>3, ValueOfSlot
  <2>2. Holds(wildcards, i, w)
    BY <1>3 DEF Holds
  <2> HIDE DEF w
  <2>3. BoundTo(wildcards, old_wildcards, Pending, w) = wildcards[i].value
    BY <2>2, Bindings
  <2>4. Contents[w] = wildcards[i].value
    BY <2>1, <2>3, ContentsIs, WildcardIsNotFinal
  <2> QED BY <2>1, <2>4 DEF w
<1>4. ASSUME NEW w \in Wildcards, Contents[w] # NULL
      PROVE  \E i \in DOMAIN wildcards : Holds(wildcards, i, w)
  <2>1. Contents[w] = BoundTo(wildcards, old_wildcards, Pending, w)
    BY ContentsIs, WildcardIsNotFinal
  <2> QED BY <1>1, <1>4, <2>1, Bindings
<1> DEFINE i == FindMatch(wildcards, n)
<1>5. CASE i # 0
  <2>1. i \in DOMAIN wildcards /\ wildcards[i].in_use
        /\ ws_matches_s(wildcards[i].key, n, FALSE)
    BY <1>1, <1>5, FindMatchIs
  <2>2. WalkResult(wildcards, n) = wildcards[i].value
    BY <1>5 DEF WalkResult
  <2> DEFINE w == wildcards[i].key
  <2> HIDE DEF i
  <2>3. w \in Wildcards /\ Contents[w] # NULL /\ Contents[w] = wildcards[i].value
    BY <1>3, <2>1
  <2>4. <<w, n>> \in Matches
    BY <2>1, <2>3, MatchesIs
  <2> HIDE DEF w
  <2>5. w \in Table!Covering(Contents, n)
    BY <2>3, <2>4 DEF Table!Covering
  <2>6. Contents[w] \in Table!Candidates(Contents, n)
    BY <1>2, <2>5 DEF Table!Candidates
  <2> QED BY <2>2, <2>3, <2>6
<1>6. CASE i = 0
  <2>1. WalkResult(wildcards, n) = NULL
    BY <1>6 DEF WalkResult
  <2>2. ASSUME NEW w \in Wildcards, <<w, n>> \in Matches, Contents[w] # NULL PROVE FALSE
    <3>1. PICK j \in DOMAIN wildcards : Holds(wildcards, j, w)
      BY <1>4, <2>2
    <3>2. ws_matches_s(w, n, FALSE)
      BY <2>2, MatchesIs
    <3> QED BY <1>1, <1>6, <3>1, <3>2, FindMatchIs DEF Holds
  <2>3. Table!Covering(Contents, n) = {}
    BY <2>2 DEF Table!Covering
  <2> QED BY <1>2, <2>1, <2>3 DEF Table!Candidates
<1> QED BY <1>5, <1>6
-----------------------------------------------------------------------------
LEMMA HoldingKept ==
    ASSUME pc' = pc, name' = name, found' = found
    PROVE  Holding' = Holding
BY DEF Holding

\* A step of reader r.
LEMMA HoldingSet ==
    ASSUME WInv, NEW r \in Readers, NEW p, NEW n, NEW v,
           pc' = [pc EXCEPT ![r] = p],
           name' = [name EXCEPT ![r] = n],
           found' = [found EXCEPT ![r] = v]
    PROVE  Holding' = [Holding EXCEPT ![r] =
                          IF p = "found" THEN <<n, v>> ELSE <<NULL, NULL>>]
<1> DEFINE H == [Holding EXCEPT ![r] =
                    IF p = "found" THEN <<n, v>> ELSE <<NULL, NULL>>]
           G(q) == IF pc'[q] = "found" THEN <<name'[q], found'[q]>> ELSE <<NULL, NULL>>
<1>1. Holding' = [q \in Readers |-> G(q)]
  BY DEF Holding
<1>2. H = [q \in Readers |-> H[q]]
  BY DEF Holding
<1>3. ASSUME NEW q \in Readers PROVE G(q) = H[q]
  <2>1. CASE q = r
    <3>1. pc'[q] = p /\ name'[q] = n /\ found'[q] = v
      BY <2>1 DEF WInv, TypeOK
    <3>2. H[q] = IF p = "found" THEN <<n, v>> ELSE <<NULL, NULL>>
      BY <2>1 DEF Holding
    <3> QED BY <3>1, <3>2
  <2>2. CASE q # r
    <3>1. pc'[q] = pc[q] /\ name'[q] = name[q] /\ found'[q] = found[q]
      BY <2>2 DEF WInv, TypeOK
    <3>2. H[q] = IF pc[q] = "found" THEN <<name[q], found[q]>> ELSE <<NULL, NULL>>
      BY <2>2 DEF Holding
    <3> QED BY <3>1, <3>2
  <2> QED BY <2>1, <2>2
<1> HIDE DEF H, G
<1>4. Holding' = H
  BY <1>1, <1>2, <1>3
<1> QED BY <1>4 DEF H

LEMMA NotHolding ==
    ASSUME NEW r \in Readers, pc[r] # "found"
    PROVE  Holding[r] = Table!None
BY DEF Holding, Table!None

\* A lookup ends: the abstract reader gets v for n.
LEMMA GetStep ==
    ASSUME WInv, NEW r \in Readers, pc[r] # "found", NEW n \in Finals,
           NEW v \in Values \cup {NULL},
           ~Lost => v \in Table!Candidates(Contents, n),
           UNCHANGED <<tableVars, resizeVars>>,
           pc' = [pc EXCEPT ![r] = "found"],
           name' = [name EXCEPT ![r] = n],
           found' = [found EXCEPT ![r] = v]
    PROVE  Table!Next
<1>1. Contents' = Contents /\ Lost' = Lost
  BY DEF Contents, Lost, Pending, tableVars, resizeVars
<1>2. Holding' = [Holding EXCEPT ![r] = <<n, v>>]
  BY HoldingSet
<1>3. Holding[r] = Table!None
  BY NotHolding
<1>4. CASE ~Lost
  <2>1. Table!Get(r, n)
    BY <1>1, <1>2, <1>3, <1>4 DEF Table!Get
  <2> QED BY <2>1 DEF Table!Next
<1>5. CASE Lost
  <2>1. Table!Unreliable(r, n)
    BY <1>1, <1>2, <1>5 DEF Table!Unreliable
  <2> QED BY <2>1 DEF Table!Next
<1> QED BY <1>4, <1>5

\* A step inside a lookup changes nothing that the abstract table shows.
LEMMA SilentReader ==
    ASSUME WInv, NEW r \in Readers, pc[r] # "found", NEW p, p # "found", NEW n, NEW v,
           UNCHANGED <<tableVars, resizeVars>>,
           pc' = [pc EXCEPT ![r] = p],
           name' = [name EXCEPT ![r] = n],
           found' = [found EXCEPT ![r] = v]
    PROVE  UNCHANGED Table!vars
<1>1. Contents' = Contents /\ Lost' = Lost
  BY DEF Contents, Lost, Pending, tableVars, resizeVars
<1>2. Holding' = [Holding EXCEPT ![r] = <<NULL, NULL>>]
  BY HoldingSet
<1>3. Holding[r] = <<NULL, NULL>>
  BY DEF Holding
<1>4. Holding' = Holding
  BY <1>2, <1>3 DEF Holding
<1> QED BY <1>1, <1>4 DEF Table!vars

LEMMA ReaderSteps ==
    ASSUME WInv, NEW r \in Readers,
           \/ \E n \in Finals : get_final(r, n)
           \/ cache_get(r) \/ walk(r) \/ cache_set(r) \/ release(r)
    PROVE  Table!Next \/ UNCHANGED Table!vars
<1>1. ASSUME NEW n \in Finals, get_final(r, n) PROVE Table!Next \/ UNCHANGED Table!vars
  <2>1. /\ pc[r] = "idle" /\ UNCHANGED <<tableVars, resizeVars>>
        /\ name' = [name EXCEPT ![r] = n]
    BY <1>1 DEF get_final
  <2>2. finals[n] \in Values \cup {NULL}
    BY DEF WInv, TypeOK
  <2>3. CASE finals[n] # NULL
    <3>1. /\ pc' = [pc EXCEPT ![r] = "found"]
          /\ found' = [found EXCEPT ![r] = finals[n]]
      BY <1>1, <2>3 DEF get_final, Return, GoTo
    <3>2. ~Lost => finals[n] \in Table!Candidates(Contents, n)
      <4>1. ~Lost => Contents[n] = finals[n]
        BY ContentsIs, FinalIsKey
      <4> QED BY <2>3, <4>1 DEF Table!Candidates
    <3> QED BY <2>1, <2>2, <3>1, <3>2, GetStep
  <2>4. CASE finals[n] = NULL
    <3>1. /\ pc' = [pc EXCEPT ![r] = "cache_get"] /\ found' = found
      BY <1>1, <2>4 DEF get_final, Return, GoTo
    <3>2. found' = [found EXCEPT ![r] = found[r]]
      BY <3>1 DEF WInv, TypeOK
    <3> QED BY <2>1, <3>1, <3>2, SilentReader
  <2> QED BY <2>3, <2>4
<1>2. ASSUME cache_get(r) PROVE Table!Next \/ UNCHANGED Table!vars
  <2>1. /\ pc[r] = "cache_get" /\ UNCHANGED <<tableVars, resizeVars>> /\ name' = name
    BY <1>2 DEF cache_get
  <2>2. /\ name' = [name EXCEPT ![r] = name[r]]
        /\ found' = found => found' = [found EXCEPT ![r] = found[r]]
    BY <2>1 DEF WInv, TypeOK
  <2>3. wpc = "ready" /\ name[r] \in Finals /\ finals[name[r]] = NULL
    BY <2>1, ReaderInside DEF WInv, Lookups
  <2> DEFINE v == cache[Home(cache, name[r])].value
  <2>4. v \in Values \cup {NULL}
    <3>1. cache[Home(cache, name[r])] \in Slots!Entry
      BY <2>3, HomeInCache DEF WInv, TypeOK
    <3> QED BY <3>1 DEF Slots!Entry
  <2>5. CASE CacheHit(cache, name[r])
    <3>1. /\ pc' = [pc EXCEPT ![r] = "found"] /\ found' = [found EXCEPT ![r] = v]
      BY <1>2, <2>5 DEF cache_get, Return, GoTo
    <3>2. ~Lost => v \in Table!Candidates(Contents, name[r])
      BY <2>3, <2>5, WalkIsCandidate DEF WInv, CacheCoherent, Lost
    <3> HIDE DEF v
    <3> QED BY <2>1, <2>2, <2>3, <2>4, <3>1, <3>2, GetStep
  <2>6. CASE ~CacheHit(cache, name[r])
    <3>1. /\ pc' = [pc EXCEPT ![r] = "walk"] /\ found' = found
      BY <1>2, <2>6 DEF cache_get, Return, GoTo
    <3>2. found' = [found EXCEPT ![r] = found[r]]
      BY <2>2, <3>1
    <3>3. /\ pc[r] # "found" /\ "walk" # "found"
          /\ pc' = [pc EXCEPT ![r] = "walk"]
          /\ name' = [name EXCEPT ![r] = name[r]]
          /\ UNCHANGED <<tableVars, resizeVars>>
      BY <2>1, <2>2, <3>1
    <3> QED BY ONLY WInv, r \in Readers, <3>2, <3>3, SilentReader
  <2> QED BY <2>5, <2>6
<1>3. ASSUME walk(r) PROVE Table!Next \/ UNCHANGED Table!vars
  <2>1. /\ pc[r] = "walk" /\ UNCHANGED <<tableVars, resizeVars>> /\ name' = name
        /\ found' = [found EXCEPT ![r] = WalkResult(wildcards, name[r])]
        /\ pc' = [pc EXCEPT ![r] = "cache_set"]
    BY <1>3 DEF walk, GoTo
  <2>2. name' = [name EXCEPT ![r] = name[r]]
    BY <2>1 DEF WInv, TypeOK
  <2> QED BY <2>1, <2>2, SilentReader
<1>4. ASSUME cache_set(r) PROVE Table!Next \/ UNCHANGED Table!vars
  <2>1. /\ pc[r] = "cache_set" /\ UNCHANGED <<tableVars, resizeVars>> /\ name' = name
        /\ found' = [found EXCEPT ![r] = found[r]]
        /\ pc' = [pc EXCEPT ![r] = "found"]
    BY <1>4 DEF cache_set, Return, GoTo
  <2>2. name' = [name EXCEPT ![r] = name[r]] /\ found[r] \in Values \cup {NULL}
    BY <2>1 DEF WInv, TypeOK
  <2>3. /\ wpc = "ready" /\ name[r] \in Finals /\ finals[name[r]] = NULL
        /\ found[r] = WalkResult(wildcards, name[r])
    BY <2>1, ReaderInside DEF WInv, Lookups
  <2>4. ~Lost => found[r] \in Table!Candidates(Contents, name[r])
    BY <2>3, WalkIsCandidate
  <2> QED BY <2>1, <2>2, <2>3, <2>4, GetStep
<1>5. ASSUME release(r) PROVE Table!Next \/ UNCHANGED Table!vars
  <2>1. /\ pc[r] = "found" /\ UNCHANGED <<tableVars, resizeVars>>
        /\ name' = [name EXCEPT ![r] = NULL]
        /\ found' = [found EXCEPT ![r] = NULL]
        /\ pc' = [pc EXCEPT ![r] = "idle"]
    BY <1>5 DEF release, GoTo
  <2>2. Contents' = Contents /\ Lost' = Lost
    BY <2>1 DEF Contents, Lost, Pending, tableVars, resizeVars
  <2>3. Holding' = [Holding EXCEPT ![r] = <<NULL, NULL>>]
    BY <2>1, HoldingSet
  <2>4. Holding[r] # <<NULL, NULL>>
    <3>1. Holding[r] = <<name[r], found[r]>>
      BY <2>1 DEF Holding
    <3>2. name[r] # NULL
      BY <2>1, ReaderInside, WTableAssumption DEF Keys
    <3> QED BY <3>1, <3>2
  <2>5. Table!Release(r)
    BY <2>2, <2>3, <2>4 DEF Table!Release, Table!None
  <2> QED BY <2>5 DEF Table!Next
<1> QED BY <1>1, <1>2, <1>3, <1>4, <1>5
-----------------------------------------------------------------------------
\* Nobody holds anything while a writer has the table.
LEMMA NobodyHolds ==
    ASSUME \A r \in Readers : pc[r] = "idle"
    PROVE  Table!Unheld
BY NotHolding DEF Table!Unheld

\* A Lost table stays empty.
LEMMA LostStep ==
    ASSUME Lost, Lost', UNCHANGED readerVars
    PROVE  UNCHANGED Table!vars
<1>1. Holding' = Holding
  BY HoldingKept DEF readerVars
<1>2. Contents' = Contents
  BY DEF Contents
<1> QED BY <1>1, <1>2 DEF Table!vars

\* The loss itself.
LEMMA LoseStep ==
    ASSUME ~Lost, Lost', UNCHANGED readerVars
    PROVE  Table!Next
<1>1. Holding' = Holding
  BY HoldingKept DEF readerVars
<1>2. Contents' = [k \in Keys |-> NULL]
  BY DEF Contents
<1>3. Table!Lose
  BY <1>1, <1>2 DEF Table!Lose, Table!Keys, Keys
<1> QED BY <1>3 DEF Table!Next

\* The abstract Set and Del, from what becomes of every key.
LEMMA SetStep ==
    ASSUME WInv, ~Lost, Lost' = Lost, \A r \in Readers : pc[r] = "idle",
           UNCHANGED readerVars, NEW k \in Keys, NEW v \in Values,
           \A j \in Keys : Contents[j] # v,
           \A j \in Keys : Contents'[j] = IF j = k THEN v ELSE Contents[j]
    PROVE  Table!Next
<1>1. Holding' = Holding
  BY HoldingKept DEF readerVars
<1>2. DOMAIN Contents = Keys /\ DOMAIN Contents' = Keys
      /\ Contents = [j \in Keys |-> Contents[j]]
      /\ Contents' = [j \in Keys |-> Contents'[j]]
  BY DEF Contents
<1>3. Contents' = [Contents EXCEPT ![k] = v]
  BY <1>2
<1>4. v \notin {Contents[j] : j \in Keys}
  OBVIOUS
<1>5. Table!Set(k, v)
  BY <1>1, <1>3, <1>4, NobodyHolds DEF Table!Set, Table!Keys, Keys
<1> QED BY <1>5 DEF Table!Next, Table!Keys, Keys

LEMMA DelStep ==
    ASSUME WInv, ~Lost, Lost' = Lost, \A r \in Readers : pc[r] = "idle",
           UNCHANGED readerVars, NEW k \in Keys, Contents[k] # NULL,
           \A j \in Keys : Contents'[j] = IF j = k THEN NULL ELSE Contents[j]
    PROVE  Table!Next
<1>1. Holding' = Holding
  BY HoldingKept DEF readerVars
<1>2. DOMAIN Contents = Keys /\ DOMAIN Contents' = Keys
      /\ Contents = [j \in Keys |-> Contents[j]]
      /\ Contents' = [j \in Keys |-> Contents'[j]]
  BY DEF Contents
<1>3. Contents' = [Contents EXCEPT ![k] = NULL]
  BY <1>2
<1>4. Table!Del(k)
  BY <1>1, <1>3, NobodyHolds DEF Table!Del
<1> QED BY <1>4 DEF Table!Next, Table!Keys, Keys

LEMMA SameStep ==
    ASSUME Lost' = Lost, UNCHANGED readerVars,
           \A j \in Keys : Contents'[j] = Contents[j]
    PROVE  UNCHANGED Table!vars
<1>1. Holding' = Holding
  BY HoldingKept DEF readerVars
<1>2. Contents' = Contents
  <2>1. /\ Contents = [j \in Keys |-> Contents[j]]
        /\ Contents' = [j \in Keys |-> Contents'[j]]
    BY DEF Contents
  <2> QED BY <2>1
<1> QED BY <1>1, <1>2 DEF Table!vars
-----------------------------------------------------------------------------
\* Wildcard k is bound to v: in the array, or in what is pending.
Binds(ws, old, P, k, v) ==
    \/ \E i \in DOMAIN ws : Holds(ws, i, k) /\ ws[i].value = v
    \/ \E i \in P : Holds(old, i, k) /\ old[i].value = v

LEMMA BindsIs ==
    ASSUME WInv, NEW k
    PROVE  /\ \A v : Binds(wildcards, old_wildcards, Pending, k, v) =>
                        BoundTo(wildcards, old_wildcards, Pending, k) = v
           /\ (\A v : ~Binds(wildcards, old_wildcards, Pending, k, v)) =>
                        BoundTo(wildcards, old_wildcards, Pending, k) = NULL
<1> DEFINE b == BoundTo(wildcards, old_wildcards, Pending, k)
<1>1. /\ \A i \in DOMAIN wildcards : Holds(wildcards, i, k) => b = wildcards[i].value
      /\ \A i \in Pending : Holds(old_wildcards, i, k) => b = old_wildcards[i].value
      /\ \/ \E i \in DOMAIN wildcards : Holds(wildcards, i, k)
         \/ \E i \in Pending : Holds(old_wildcards, i, k)
         \/ b = NULL
  BY Bindings
<1> HIDE DEF b
<1>2. \A v : Binds(wildcards, old_wildcards, Pending, k, v) => b = v
  BY <1>1 DEF Binds
<1>3. (\A v : ~Binds(wildcards, old_wildcards, Pending, k, v)) => b = NULL
  BY <1>1 DEF Binds
<1> QED BY <1>2, <1>3 DEF b

LEMMA NextBindsIs ==
    ASSUME WInv', NEW k
    PROVE  /\ \A v : Binds(wildcards', old_wildcards', Pending', k, v) =>
                        BoundTo(wildcards', old_wildcards', Pending', k) = v
           /\ (\A v : ~Binds(wildcards', old_wildcards', Pending', k, v)) =>
                        BoundTo(wildcards', old_wildcards', Pending', k) = NULL
<1> DEFINE b == BoundTo(wildcards', old_wildcards', Pending', k)
<1>1. /\ \A i \in DOMAIN wildcards' : Holds(wildcards', i, k) => b = wildcards'[i].value
      /\ \A i \in Pending' : Holds(old_wildcards', i, k) => b = old_wildcards'[i].value
      /\ \/ \E i \in DOMAIN wildcards' : Holds(wildcards', i, k)
         \/ \E i \in Pending' : Holds(old_wildcards', i, k)
         \/ b = NULL
  BY NextBindings
<1> HIDE DEF b
<1>2. \A v : Binds(wildcards', old_wildcards', Pending', k, v) => b = v
  BY <1>1 DEF Binds
<1>3. (\A v : ~Binds(wildcards', old_wildcards', Pending', k, v)) => b = NULL
  BY <1>1 DEF Binds
<1> QED BY <1>2, <1>3 DEF b

\* A wildcard whose bindings stay keeps its value, and one that has none has no
\* value.
LEMMA SameBinds ==
    ASSUME WInv, WInv', ~Lost, ~Lost', NEW k \in Wildcards,
           \A v : Binds(wildcards', old_wildcards', Pending', k, v)
                     <=> Binds(wildcards, old_wildcards, Pending, k, v)
    PROVE  Contents'[k] = Contents[k]
<1>1. BoundTo(wildcards', old_wildcards', Pending', k)
         = BoundTo(wildcards, old_wildcards, Pending, k)
  <2>1. CASE \E v : Binds(wildcards, old_wildcards, Pending, k, v)
    BY <2>1, BindsIs, NextBindsIs
  <2>2. CASE \A v : ~Binds(wildcards, old_wildcards, Pending, k, v)
    BY <2>2, BindsIs, NextBindsIs
  <2> QED BY <2>1, <2>2
<1> QED BY <1>1, ContentsIs, ContentsWillBe, WildcardIsNotFinal

LEMMA NoBinds ==
    ASSUME WInv', ~Lost', NEW k \in Wildcards,
           \A v : ~Binds(wildcards', old_wildcards', Pending', k, v)
    PROVE  Contents'[k] = NULL
<1>1. BoundTo(wildcards', old_wildcards', Pending', k) = NULL
  BY NextBindsIs
<1> QED BY <1>1, ContentsWillBe, WildcardIsNotFinal

LEMMA NewBinds ==
    ASSUME WInv', ~Lost', NEW k \in Wildcards, NEW v,
           Binds(wildcards', old_wildcards', Pending', k, v)
    PROVE  Contents'[k] = v
<1>1. BoundTo(wildcards', old_wildcards', Pending', k) = v
  BY NextBindsIs
<1> QED BY <1>1, ContentsWillBe, WildcardIsNotFinal

\* The final names, when no final entry changes.
LEMMA SameFinals ==
    ASSUME ~Lost, ~Lost', finals' = finals, NEW k \in Finals
    PROVE  Contents'[k] = Contents[k]
BY ContentsIs, ContentsWillBe, FinalIsKey

\* An entry put into slot s of an array with nothing pending.
LEMMA EntryAdded ==
    ASSUME WInv, WInv', ~Lost, ~Lost', finals' = finals,
           Pending = {}, Pending' = {},
           NEW s \in DOMAIN wildcards, NEW w \in Wildcards, NEW v,
           DOMAIN wildcards' = DOMAIN wildcards,
           wildcards'[s] = [in_use |-> TRUE, key |-> w, value |-> v],
           \A i \in DOMAIN wildcards : i # s => wildcards'[i] = wildcards[i],
           Holds(wildcards, s, w) \/ ~wildcards[s].in_use
    PROVE  \A j \in Keys : Contents'[j] = IF j = w THEN v ELSE Contents[j]
<1> SUFFICES ASSUME NEW j \in Keys
             PROVE  Contents'[j] = IF j = w THEN v ELSE Contents[j]
  OBVIOUS
<1>1. CASE j \in Finals
  BY <1>1, SameFinals, WildcardIsNotFinal
<1>2. CASE j = w
  <2>1. Binds(wildcards', old_wildcards', Pending', w, v)
    BY DEF Binds, Holds
  <2> QED BY <1>2, <2>1, NewBinds
<1>3. CASE j \in Wildcards /\ j # w
  <2>1. ASSUME NEW x
        PROVE  Binds(wildcards', old_wildcards', Pending', j, x)
                  <=> Binds(wildcards, old_wildcards, Pending, j, x)
    <3>1. ~Holds(wildcards', s, j) /\ ~Holds(wildcards, s, j)
      BY <1>3 DEF Holds
    <3>2. \A i \in DOMAIN wildcards : i # s =>
             /\ Holds(wildcards', i, j) <=> Holds(wildcards, i, j)
             /\ wildcards'[i].value = wildcards[i].value
      BY DEF Holds
    <3> QED BY <3>1, <3>2 DEF Binds
  <2>2. Contents'[j] = Contents[j]
    BY <1>3, <2>1, SameBinds
  <2> QED BY <1>3, <2>2
<1> QED BY <1>1, <1>2, <1>3 DEF Keys
-----------------------------------------------------------------------------
LEMMA SetFinalStep ==
    ASSUME WInv, NEW n \in Finals, NEW v \in Values, set_final(n, v)
    PROVE  Table!Next \/ UNCHANGED Table!vars
<1>1. /\ Exclusive /\ v \notin live /\ finals' = [finals EXCEPT ![n] = v]
      /\ Lost => Lost'
      /\ UNCHANGED readerVars
      /\ UNCHANGED <<wildcards, old_wildcards, pos>>
  BY DEF set_final, resizeVars, Lost
<1>2. \A r \in Readers : pc[r] = "idle"
  BY <1>1, Alone
<1>3. CASE Lost
  BY <1>1, <1>3, LostStep
<1>4. CASE ~Lost /\ Lost'
  BY <1>1, <1>4, LoseStep
<1>5. CASE ~Lost /\ ~Lost'
  <2>1. \A j \in Keys : Contents[j] # v
    <3>1. v # NULL
      BY WTableAssumption DEF Values
    <3> QED BY <1>1, <3>1, ContentsLive
  <2>2. \A m \in Finals : finals'[m] = IF m = n THEN v ELSE finals[m]
    BY <1>1 DEF WInv, TypeOK
  <2>3. Pending' = Pending
    BY <1>1 DEF Pending
  <2>4. \A j \in Keys : Contents'[j] = IF j = n THEN v ELSE Contents[j]
    BY <1>1, <1>5, <2>2, <2>3, ContentsIs, ContentsWillBe
  <2>5. Lost' = Lost
    BY <1>5 DEF Lost
  <2> QED BY <1>1, <1>2, <1>5, <2>1, <2>4, <2>5, SetStep, FinalIsKey
<1> QED BY <1>3, <1>4, <1>5

LEMMA DelFinalStep ==
    ASSUME WInv, NEW n \in Finals, del_final(n)
    PROVE  Table!Next \/ UNCHANGED Table!vars
<1>1. /\ Exclusive /\ finals[n] # NULL /\ finals' = [finals EXCEPT ![n] = NULL]
      /\ Lost => Lost'
      /\ UNCHANGED readerVars
      /\ UNCHANGED <<wildcards, old_wildcards, pos>>
  BY DEF del_final, resizeVars, Lost
<1>2. \A r \in Readers : pc[r] = "idle"
  BY <1>1, Alone
<1>3. CASE Lost
  BY <1>1, <1>3, LostStep
<1>4. CASE ~Lost /\ Lost'
  BY <1>1, <1>4, LoseStep
<1>5. CASE ~Lost /\ ~Lost'
  <2>1. Contents[n] # NULL
    BY <1>1, <1>5, ContentsIs, FinalIsKey
  <2>2. \A m \in Finals : finals'[m] = IF m = n THEN NULL ELSE finals[m]
    BY <1>1 DEF WInv, TypeOK
  <2>3. Pending' = Pending
    BY <1>1 DEF Pending
  <2>4. \A j \in Keys : Contents'[j] = IF j = n THEN NULL ELSE Contents[j]
    BY <1>1, <1>5, <2>2, <2>3, ContentsIs, ContentsWillBe
  <2>5. Lost' = Lost
    BY <1>5 DEF Lost
  <2> QED BY <1>1, <1>2, <1>5, <2>1, <2>4, <2>5, DelStep, FinalIsKey
<1> QED BY <1>3, <1>4, <1>5

\* The start of a resize: what was in the array is pending.
LEMMA AllPending ==
    ASSUME NEW n \in Nat, NEW ws, Array(ws), NEW args, resize_table(n, ws, args)
    PROVE  /\ finals' = finals /\ Lost' = Lost
           /\ \A k, v : Binds(wildcards', old_wildcards', Pending', k, v)
                           <=> \E i \in DOMAIN ws : Holds(ws, i, k) /\ ws[i].value = v
<1>1. /\ wildcards' = FreeSlots(n) /\ old_wildcards' = ws /\ pos' = 1
      /\ finals' = finals /\ Lost' = Lost
  BY DEF resize_table, Lost
<1>2. \A i \in DOMAIN wildcards' : ~wildcards'[i].in_use
  BY <1>1, FreshArray DEF FreeSlot
<1>3. Pending' = DOMAIN ws
  <2>1. DOMAIN ws = 1..Len(ws)
    BY DEF Array
  <2>2. \A i \in DOMAIN ws : i >= 1
    BY <2>1
  <2> QED BY <1>1, <2>2 DEF Pending
<1> QED BY <1>1, <1>2, <1>3 DEF Binds, Holds

LEMMA SetWildcardStep ==
    ASSUME WInv, WInv', NEW w \in Wildcards, NEW v \in Values, set_wildcard(w, v)
    PROVE  Table!Next \/ UNCHANGED Table!vars
<1>. SUFFICES ASSUME ~finals_lost
              PROVE  Table!Next \/ UNCHANGED Table!vars
  <2>1. UNCHANGED <<finals_lost, readerVars>>
    BY DEF set_wildcard, resize_table, tableVars
  <2> QED BY <2>1, LostStep DEF Lost
<1>1. /\ Exclusive /\ ~Lost /\ v \in Values \ live /\ v[1] = w /\ UNCHANGED readerVars
  BY DEF set_wildcard, Lost
<1>2. /\ \A r \in Readers : pc[r] = "idle"
      /\ Pending = {} /\ old_wildcards = <<>>
      /\ wpc = "ready"
  BY <1>1, Alone
<1>3. /\ wildcards \in Seq(Slot) /\ Len(wildcards) \in Nat /\ Array(wildcards)
      /\ ws_used_count = InUseCount(wildcards) /\ ws_used_count \in Nat
  BY DEF WInv, TypeOK, Arrays, Room
<1>4. CASE MustGrow(wildcards, ws_used_count)
  <2>1. resize_table(GrownSize(Len(wildcards)), wildcards, <<w, v>>)
    BY <1>4 DEF set_wildcard
  <2>2. GrownSize(Len(wildcards)) \in Nat
    BY <1>3, GrownSizeGrows
  <2>3. /\ finals' = finals /\ Lost' = Lost
        /\ \A k, x : Binds(wildcards', old_wildcards', Pending', k, x)
                        <=> \E i \in DOMAIN wildcards :
                               Holds(wildcards, i, k) /\ wildcards[i].value = x
    BY <1>3, <2>1, <2>2, AllPending
  <2>4. \A k, x : Binds(wildcards', old_wildcards', Pending', k, x)
                     <=> Binds(wildcards, old_wildcards, Pending, k, x)
    BY <1>2, <2>3 DEF Binds
  <2>5. \A j \in Keys : Contents'[j] = Contents[j]
    BY <1>1, <2>3, <2>4, SameBinds, SameFinals DEF Keys
  <2> QED BY <1>1, <2>3, <2>5, SameStep
<1>5. CASE ~MustGrow(wildcards, ws_used_count)
  <2>1. /\ wildcards_set(w, v, live \cup {v})
        /\ UNCHANGED <<finals, Lost, old_wildcards, pos>>
    BY <1>5 DEF set_wildcard, resizeVars, Lost
  <2>2. ws_used_count < Len(wildcards)
    BY <1>3, <1>5 DEF MustGrow
  <2>3. PICK s \in DOMAIN wildcards :
              /\ wildcards' = [wildcards EXCEPT ![s] =
                                  [in_use |-> TRUE, key |-> w, value |-> v]]
              /\ DOMAIN wildcards' = DOMAIN wildcards
              /\ Holds(wildcards, s, w) \/ ~wildcards[s].in_use
    BY <1>1, <1>3, <2>1, <2>2, SetEffect
  <2>4. /\ wildcards'[s] = [in_use |-> TRUE, key |-> w, value |-> v]
        /\ \A i \in DOMAIN wildcards : i # s => wildcards'[i] = wildcards[i]
    BY <1>3, <2>3
  <2>5. Pending' = {}
    BY <1>2, <2>1 DEF Pending
  <2>6. \A j \in Keys : Contents'[j] = IF j = w THEN v ELSE Contents[j]
    BY <1>1, <1>2, <2>1, <2>3, <2>4, <2>5, EntryAdded
  <2>7. \A j \in Keys : Contents[j] # v
    <3>1. v # NULL
      BY WTableAssumption DEF Values
    <3> QED BY <1>1, <3>1, ContentsLive
  <2> QED BY <1>1, <1>2, <2>1, <2>6, <2>7, SetStep, WildcardIsNotFinal
<1> QED BY <1>4, <1>5

LEMMA DelWildcardStep ==
    ASSUME WInv, WInv', NEW w \in Wildcards, del_wildcard(w)
    PROVE  Table!Next \/ UNCHANGED Table!vars
<1>. SUFFICES ASSUME ~finals_lost
              PROVE  Table!Next \/ UNCHANGED Table!vars
  <2>1. UNCHANGED <<finals_lost, readerVars>>
    BY DEF del_wildcard, ShrinkAndInvalidate, resize_table
  <2> QED BY <2>1, LostStep DEF Lost
<1> DEFINE x == FindExact(wildcards, w)
           ws == [wildcards EXCEPT ![x] = FreeSlot]
           used == ws_used_count - 1
<1>1. /\ Exclusive /\ ~Lost /\ x # 0
      /\ ShrinkAndInvalidate(ws, used) /\ UNCHANGED readerVars
  BY DEF del_wildcard, Lost
<1>2. /\ \A r \in Readers : pc[r] = "idle"
      /\ Pending = {} /\ old_wildcards = <<>>
  BY <1>1, Alone
<1>3. /\ wildcards \in Seq(Slot) /\ Array(wildcards)
      /\ ws_used_count = InUseCount(wildcards)
  BY DEF WInv, TypeOK, Arrays, Room
<1>4. x \in DOMAIN wildcards /\ Holds(wildcards, x, w) /\ wildcards[x].in_use
  BY <1>1, <1>3, FindExactIs DEF Holds
<1>5. /\ Array(ws) /\ DOMAIN ws = DOMAIN wildcards
      /\ used \in Nat
  BY <1>3, <1>4, EntryFreed
<1>6. /\ ws[x] = FreeSlot
      /\ \A i \in DOMAIN wildcards : i # x => ws[i] = wildcards[i]
  BY <1>3, <1>4
<1>7. /\ \A i \in DOMAIN ws : ~Holds(ws, i, w)
      /\ \A k, v : k # w =>
            ((\E i \in DOMAIN ws : Holds(ws, i, k) /\ ws[i].value = v)
                <=> Binds(wildcards, old_wildcards, Pending, k, v))
  <2>1. \A i \in DOMAIN wildcards : Holds(wildcards, i, w) => i = x
    BY <1>3, <1>4 DEF Array, Holds
  <2>2. \A k : ~Holds(ws, x, k)
    BY <1>6 DEF Holds, FreeSlot
  <2>3. \A k : k # w => ~Holds(wildcards, x, k)
    BY <1>4 DEF Holds
  <2>4. \A k : \A i \in DOMAIN wildcards : i # x => (Holds(ws, i, k) <=> Holds(wildcards, i, k))
    BY <1>6 DEF Holds
  <2> HIDE DEF ws, x
  <2>5. \A i \in DOMAIN ws : ~Holds(ws, i, w)
    BY <1>5, <2>1, <2>2, <2>4
  <2>6. \A k, v : k # w =>
            ((\E i \in DOMAIN ws : Holds(ws, i, k) /\ ws[i].value = v)
                <=> Binds(wildcards, old_wildcards, Pending, k, v))
    BY <1>2, <1>5, <1>6, <2>2, <2>3, <2>4 DEF Binds
  <2> QED BY <2>5, <2>6
<1> HIDE DEF ws, x, used
<1>8. Contents[w] # NULL
  <2>1. wildcards[x].value # NULL
    BY <1>3, <1>4, ValueOfSlot
  <2>2. Binds(wildcards, old_wildcards, Pending, w, wildcards[x].value)
    BY <1>4 DEF Binds
  <2>3. BoundTo(wildcards, old_wildcards, Pending, w) = wildcards[x].value
    BY <2>2, BindsIs
  <2> QED BY <1>1, <2>1, <2>3, ContentsIs, WildcardIsNotFinal
<1>9. ASSUME Lost' = Lost, finals' = finals,
             \A k, v : Binds(wildcards', old_wildcards', Pending', k, v)
                          <=> \E i \in DOMAIN ws : Holds(ws, i, k) /\ ws[i].value = v
      PROVE  Table!Next
  <2>1. Contents'[w] = NULL
    BY <1>1, <1>7, <1>9, NoBinds
  <2>2. ASSUME NEW k \in Wildcards, k # w PROVE Contents'[k] = Contents[k]
    <3>1. \A v : Binds(wildcards', old_wildcards', Pending', k, v)
                    <=> Binds(wildcards, old_wildcards, Pending, k, v)
      BY <1>7, <1>9, <2>2
    <3> QED BY <1>1, <1>9, <3>1, SameBinds
  <2>3. ASSUME NEW k \in Finals PROVE Contents'[k] = Contents[k] /\ k # w
    BY <1>1, <1>9, <2>3, SameFinals, FinalsApart
  <2>4. \A j \in Keys : Contents'[j] = IF j = w THEN NULL ELSE Contents[j]
    BY <2>1, <2>2, <2>3 DEF Keys
  <2> QED BY <1>1, <1>2, <1>8, <1>9, <2>4, DelStep, WildcardIsNotFinal
<1>10. \/ resize_table(used + 3, ws, NULL)
       \/ /\ wildcards' = ws /\ finals' = finals
          /\ UNCHANGED <<old_wildcards, pos>>
          /\ Lost' = Lost \/ Lost'
  BY <1>1 DEF ShrinkAndInvalidate, resizeVars, Lost
<1>11. CASE resize_table(used + 3, ws, NULL)
  <2>1. used + 3 \in Nat
    BY <1>5
  <2> QED BY <1>5, <1>9, <1>11, <2>1, AllPending
<1>12. CASE /\ wildcards' = ws /\ finals' = finals
            /\ UNCHANGED <<old_wildcards, pos>> /\ Lost' = Lost
  <2>1. Pending' = {}
    BY <1>2, <1>12 DEF Pending
  <2> QED BY <1>9, <1>12, <2>1 DEF Binds
<1>13. CASE Lost'
  BY <1>1, <1>13, LoseStep
<1> QED BY <1>10, <1>11, <1>12, <1>13

LEMMA ReinsertStep ==
    ASSUME WInv, WInv', reinsert
    PROVE  Table!Next \/ UNCHANGED Table!vars
<1>. SUFFICES ASSUME ~finals_lost
              PROVE  Table!Next \/ UNCHANGED Table!vars
  BY LostStep DEF reinsert, Lost
<1> DEFINE e == old_wildcards[pos]
<1>1. /\ wpc = "reinsert" /\ pos' = pos + 1
      /\ UNCHANGED <<finals, Lost, old_wildcards>> /\ UNCHANGED readerVars
      /\ pos <= Len(old_wildcards)
  BY DEF reinsert, Lost
<1>2. ~Lost /\ pos \in Nat /\ pos >= 1 /\ ~Lost'
  BY <1>1 DEF WInv, Locals, TypeOK, Lost
<1>3. /\ old_wildcards \in Seq(Slot) /\ wildcards \in Seq(Slot)
      /\ Array(wildcards) /\ Array(old_wildcards)
      /\ Apart(wildcards, old_wildcards, pos)
  BY DEF WInv, TypeOK, Arrays
<1>4. pos \in DOMAIN old_wildcards
  BY <1>1, <1>2, <1>3
<1>5. /\ Pending = Pending' \cup {pos} /\ Pending' = Pending \ {pos}
  BY <1>1, <1>2, <1>3, <1>4 DEF Pending
<1>6. \A k, v : Binds(wildcards', old_wildcards', Pending', k, v)
                   <=> Binds(wildcards, old_wildcards, Pending, k, v)
  <2>1. CASE ~e.in_use
    <3>1. wildcards' = wildcards
      BY <2>1 DEF reinsert
    <3>2. \A k : ~Holds(old_wildcards, pos, k)
      BY <2>1 DEF Holds
    <3> QED BY <1>1, <1>5, <3>1, <3>2 DEF Binds
  <2>2. CASE e.in_use
    <3>1. wildcards_set(e.key, e.value, live)
      BY <2>2 DEF reinsert
    <3>2. e.key \in Wildcards /\ e.value \in Values /\ e.value[1] = e.key
      BY <1>3, <1>4, <2>2, ValueOfSlot
    <3>3. /\ ws_used_count = InUseCount(wildcards) /\ ws_used_count < Len(wildcards)
      <4>1. /\ ws_used_count \in Nat /\ Len(wildcards) \in Nat
            /\ Cardinality(InUsePending(old_wildcards, pos)) \in Nat
        BY <1>2, <1>3, PendingFinite DEF WInv, TypeOK
      <4>2. (IF adding = NULL THEN 0 ELSE 1) \in {0, 1}
        OBVIOUS
      <4> QED BY <4>1, <4>2 DEF WInv, Room
    <3> HIDE DEF e
    <3>4. PICK s \in DOMAIN wildcards :
                /\ wildcards' = [wildcards EXCEPT ![s] =
                                    [in_use |-> TRUE, key |-> e.key, value |-> e.value]]
                /\ DOMAIN wildcards' = DOMAIN wildcards
                /\ Holds(wildcards, s, e.key) \/ ~wildcards[s].in_use
      BY <1>3, <3>1, <3>2, <3>3, SetEffect
    <3>5. /\ wildcards'[s] = [in_use |-> TRUE, key |-> e.key, value |-> e.value]
          /\ \A i \in DOMAIN wildcards : i # s => wildcards'[i] = wildcards[i]
      BY <1>3, <3>4
    <3>6. ~wildcards[s].in_use
      <4>1. pos \in InUsePending(old_wildcards, pos)
        BY <1>2, <1>4, <2>2 DEF InUsePending, e
      <4> QED BY <1>3, <3>4, <4>1 DEF Apart, Holds, e
    <3>7. \A k : ~Holds(wildcards, s, k)
      BY <3>6 DEF Holds
    <3>8. \A k : Holds(wildcards', s, k) <=> k = e.key
      BY <3>5 DEF Holds
    <3>9. \A k : Holds(old_wildcards, pos, k) <=> k = e.key
      BY <2>2 DEF Holds, e
    <3>10. wildcards'[s].value = old_wildcards[pos].value
      BY <3>5 DEF e
    <3>11. \A k : \A i \in DOMAIN wildcards : i # s =>
              /\ Holds(wildcards', i, k) <=> Holds(wildcards, i, k)
              /\ wildcards'[i].value = wildcards[i].value
      BY <3>5 DEF Holds
    <3> SUFFICES ASSUME NEW k, NEW v
                 PROVE  Binds(wildcards', old_wildcards', Pending', k, v)
                           <=> Binds(wildcards, old_wildcards, Pending, k, v)
      OBVIOUS
    <3>12. (\E i \in Pending : Holds(old_wildcards, i, k) /\ old_wildcards[i].value = v)
              <=> \/ k = e.key /\ old_wildcards[pos].value = v
                  \/ \E i \in Pending' : Holds(old_wildcards, i, k) /\ old_wildcards[i].value = v
      BY <1>5, <3>9
    <3>13. (\E i \in DOMAIN wildcards : Holds(wildcards', i, k) /\ wildcards'[i].value = v)
              <=> \/ k = e.key /\ old_wildcards[pos].value = v
                  \/ \E i \in DOMAIN wildcards : Holds(wildcards, i, k) /\ wildcards[i].value = v
      BY <3>7, <3>8, <3>10, <3>11
    <3> QED BY <1>1, <3>4, <3>12, <3>13 DEF Binds
  <2> QED BY <2>1, <2>2
<1>7. \A j \in Keys : Contents'[j] = Contents[j]
  BY <1>1, <1>2, <1>6, SameBinds, SameFinals DEF Keys
<1> QED BY <1>1, <1>7, SameStep

LEMMA CacheStep ==
    ASSUME WInv, cache_resize \/ rehash
    PROVE  UNCHANGED Table!vars
<1>1. /\ UNCHANGED tableVars /\ UNCHANGED readerVars
      /\ Pending = {} /\ Pending' = {}
  <2>1. CASE cache_resize
    BY <2>1 DEF cache_resize, Pending, WInv, TypeOK
  <2>2. CASE rehash
    <3>1. old_wildcards = <<>> /\ old_wildcards' = old_wildcards
      BY <2>2 DEF rehash, WInv, Locals
    <3> QED BY <2>2, <3>1 DEF rehash, Pending
  <2> QED BY <2>1, <2>2
<1>2. finals' = finals /\ wildcards' = wildcards /\ Lost' = Lost
  BY <1>1 DEF tableVars, Lost
<1>3. Contents' = Contents
  BY <1>1, <1>2 DEF Contents
<1>4. Holding' = Holding
  BY <1>1, HoldingKept DEF readerVars
<1> QED BY <1>2, <1>3, <1>4 DEF Table!vars

LEMMA ResizeDoneStep ==
    ASSUME WInv, WInv', resize_done
    PROVE  Table!Next \/ UNCHANGED Table!vars
<1>. SUFFICES ASSUME ~finals_lost
              PROVE  Table!Next \/ UNCHANGED Table!vars
  BY LostStep DEF resize_done, Lost
<1>1. /\ wpc = "rehash"
      /\ UNCHANGED <<finals, Lost, old_wildcards>> /\ UNCHANGED readerVars
  BY DEF resize_done, Lost
<1>2. ~Lost /\ (\A r \in Readers : pc[r] = "idle") /\ old_wildcards = <<>>
  BY <1>1 DEF WInv, Locals, Lost
<1>3. Pending = {} /\ Pending' = {}
  BY <1>1, <1>2 DEF Pending
<1>4. CASE adding = NULL
  <2>1. wildcards' = wildcards
    BY <1>4 DEF resize_done
  <2>2. Contents' = Contents
    BY <1>1, <1>3, <2>1 DEF Contents
  <2> QED BY <1>1, <2>2, SameStep
<1>5. CASE adding # NULL
  <2> DEFINE w == adding[1]
             v == adding[2]
  <2>1. w \in Wildcards /\ v \in Values /\ v[1] = w
    BY <1>5 DEF WInv, TypeOK, Locals
  <2>2. wildcards_set(w, v, live)
    BY <1>5 DEF resize_done
  <2>3. \A j \in Keys : Contents[j] # v
    BY <1>5, ContentsLive
  <2>4. /\ ws_used_count = InUseCount(wildcards) /\ ws_used_count < Len(wildcards)
        /\ Array(wildcards) /\ wildcards \in Seq(Slot)
    <3>1. InUsePending(old_wildcards, pos) = {}
      BY <1>2 DEF InUsePending
    <3>2. Cardinality(InUsePending(old_wildcards, pos)) = 0
      BY <3>1, FS_EmptySet
    <3>3. ws_used_count \in Nat /\ Len(wildcards) \in Nat
      BY DEF WInv, TypeOK
    <3> QED BY <1>5, <3>2, <3>3 DEF WInv, Room, Arrays, TypeOK
  <2> HIDE DEF w, v
  <2>5. PICK s \in DOMAIN wildcards :
              /\ wildcards' = [wildcards EXCEPT ![s] =
                                  [in_use |-> TRUE, key |-> w, value |-> v]]
              /\ DOMAIN wildcards' = DOMAIN wildcards
              /\ Holds(wildcards, s, w) \/ ~wildcards[s].in_use
    BY <2>1, <2>2, <2>4, SetEffect
  <2>6. /\ wildcards'[s] = [in_use |-> TRUE, key |-> w, value |-> v]
        /\ \A i \in DOMAIN wildcards : i # s => wildcards'[i] = wildcards[i]
    BY <2>4, <2>5
  <2>7. \A j \in Keys : Contents'[j] = IF j = w THEN v ELSE Contents[j]
    BY <1>1, <1>2, <1>3, <2>1, <2>5, <2>6, EntryAdded
  <2> QED BY <1>1, <1>2, <2>1, <2>3, <2>7, SetStep, WildcardIsNotFinal
<1> QED BY <1>4, <1>5

\* The wildcard table answers lookups as wtable.h promises fiu.c.
THEOREM TableCorrect == Spec => TableSpec
<1>1. Init => Table!Init
  <2> SUFFICES ASSUME Init PROVE Table!Init
    OBVIOUS
  <2>1. WInv
    BY WInvInit
  <2>2. /\ ~Lost /\ finals = [n \in Finals |-> NULL]
        /\ wildcards = FreeSlots(MIN_SIZE) /\ old_wildcards = <<>>
        /\ \A r \in Readers : pc[r] = "idle"
    BY DEF Init, Lost
  <2>3. \A i \in DOMAIN wildcards : ~wildcards[i].in_use
    BY <2>2, FreshArray, WTableAssumption DEF FreeSlot
  <2>4. Pending = {}
    BY <2>2 DEF Pending
  <2>5. ASSUME NEW k \in Keys PROVE Contents[k] = NULL
    <3>1. \A v : ~Binds(wildcards, old_wildcards, Pending, k, v)
      BY <2>3, <2>4 DEF Binds, Holds
    <3>2. BoundTo(wildcards, old_wildcards, Pending, k) = NULL
      BY <2>1, <3>1, BindsIs
    <3> QED BY <2>2, <3>2, ContentsIs
  <2>6. Contents = [k \in Keys |-> NULL]
    <3>1. Contents = [k \in Keys |-> Contents[k]]
      BY DEF Contents
    <3> QED BY <2>5, <3>1
  <2>7. Holding = [r \in Readers |-> Table!None]
    BY <2>2 DEF Holding, Table!None
  <2> QED BY <2>2, <2>6, <2>7 DEF Table!Init, Table!Keys, Keys
<1>2. WInv /\ WInv' /\ [Next]_vars => [Table!Next]_(Table!vars)
  <2> SUFFICES ASSUME WInv, WInv', [Next]_vars
               PROVE  Table!Next \/ UNCHANGED Table!vars
    OBVIOUS
  <2>1. CASE UNCHANGED vars
    <3>1. /\ UNCHANGED <<finals, wildcards, Lost, old_wildcards, pos>>
          /\ UNCHANGED readerVars
      BY <2>1 DEF vars, tableVars, resizeVars, Lost
    <3>2. Contents' = Contents
      BY <3>1 DEF Contents, Pending
    <3> QED BY <3>1, <3>2, SameStep
  <2>2. ASSUME NEW r \in Readers, \/ \E n \in Finals : get_final(r, n)
                                  \/ cache_get(r) \/ walk(r) \/ cache_set(r) \/ release(r)
        PROVE  Table!Next \/ UNCHANGED Table!vars
    BY <2>2, ReaderSteps
  <2>3. ASSUME NEW n \in Finals, del_final(n) \/ \E v \in Values : set_final(n, v)
        PROVE  Table!Next \/ UNCHANGED Table!vars
    BY <2>3, DelFinalStep, SetFinalStep
  <2>4. ASSUME NEW w \in Wildcards, set_wildcard_fails(w)
        PROVE  Table!Next \/ UNCHANGED Table!vars
    <3>1. Lost' /\ UNCHANGED readerVars
      BY <2>4 DEF set_wildcard_fails, Lost
    <3> QED BY <3>1, LoseStep, LostStep
  <2>5. ASSUME NEW w \in Wildcards, del_wildcard(w) \/ \E v \in Values : set_wildcard(w, v)
        PROVE  Table!Next \/ UNCHANGED Table!vars
    BY <2>5, DelWildcardStep, SetWildcardStep
  <2>6. CASE reinsert \/ cache_resize \/ rehash \/ resize_done
    BY <2>6, ReinsertStep, CacheStep, ResizeDoneStep
  <2> QED BY <2>1, <2>2, <2>3, <2>4, <2>5, <2>6 DEF Next
<1> QED BY <1>1, <1>2, WInvariance, PTL DEF Spec, TableSpec, Table!Spec
=============================================================================
