--------------------------- MODULE HashTable_proofs ---------------------------
(***************************************************************************)
(* Proofs about HashTable, for any keys, values, hash function and minimum *)
(* size, and so for tables of any size and any sequence of calls.          *)
(*                                                                         *)
(* Everything rests on where the entries are: an entry is Placed when the  *)
(* walk for its key ends at it.  An insertion and a removal keep all the   *)
(* entries placed, because what they change in a slot never ends the walk  *)
(* for another key, and a slot that walks may have ended at is taken only  *)
(* by the key whose walk ends there.                                       *)
(*                                                                         *)
(* The inductive invariant IInv adds that the counters count the slots,    *)
(* that there is room (while a table is rebuilt: for what is still to be   *)
(* reinserted, too), that no key is at two places of the new and the old   *)
(* slots, and that every allocated value is at one.  What the users of the *)
(* table rely on follows from it: that hash_get() returns the latest       *)
(* binding, and that the table, resizes included, implements KVMap.        *)
(***************************************************************************)
EXTENDS HashTable, FiniteSetTheorems, TLAPS

\* The tables of n slots.
Table(n) == [0..(n - 1) -> Entry]

\* Every round of a walk looks at a slot of the table (pos, kept below
\* table_size in the loops of hash.c:149, 182 and 296).
LEMMA ProbeRange ==
    ASSUME NEW n \in Nat \ {0}, NEW k \in Keys, NEW i \in 0..(n - 1)
    PROVE  Probe(k, n, i) \in 0..(n - 1)
<1>1. Hash[k] % n \in 0..(n - 1)
  BY LinearProbingAssumption
<1> QED BY <1>1 DEF Probe

\* No two rounds of a walk look at the same slot.
LEMMA ProbeInjective ==
    ASSUME NEW n \in Nat \ {0}, NEW k \in Keys,
           NEW i \in 0..(n - 1), NEW j \in 0..(n - 1), i # j
    PROVE  Probe(k, n, i) # Probe(k, n, j)
<1>1. Hash[k] % n \in 0..(n - 1)
  BY LinearProbingAssumption
<1> QED BY <1>1 DEF Probe

\* A walk of table_size rounds looks at every slot.
LEMMA ProbeSurjective ==
    ASSUME NEW n \in Nat \ {0}, NEW k \in Keys, NEW p \in 0..(n - 1)
    PROVE  \E i \in 0..(n - 1) : Probe(k, n, i) = p
<1> DEFINE h == Hash[k] % n
<1>1. h \in 0..(n - 1)
  BY LinearProbingAssumption
<1>2. CASE p >= h
  <2>1. p - h \in 0..(n - 1) /\ Probe(k, n, p - h) = p
    BY <1>1, <1>2 DEF Probe
  <2> QED BY <2>1
<1>3. CASE p < h
  <2>1. p - h + n \in 0..(n - 1) /\ Probe(k, n, p - h + n) = p
    BY <1>1, <1>3 DEF Probe
  <2> QED BY <2>1
<1> QED BY <1>1, <1>2, <1>3

\* A set of natural numbers that is not empty has a least element.  This is
\* where the first round at which a walk can end comes from.
LEMMA LeastNumber ==
    ASSUME NEW S \in SUBSET Nat, S # {}
    PROVE  \E m \in S : \A j \in 0..(m - 1) : j \notin S
<1> PICK n \in S : TRUE
  OBVIOUS
<1> DEFINE U == {0..i : i \in {j \in S : j <= n}}
           R == StrictSubsetOrdering(0..n)
<1>1. IsFiniteSet(0..n)
  BY FS_Interval
<1>2. IsWellFoundedOn(R, SUBSET (0..n))
  BY <1>1, FS_FiniteSubsetsOfFinite, FS_StrictSubsetOrderingWellFounded
<1>3. U \subseteq SUBSET (0..n) /\ U # {}
  OBVIOUS
<1>4. PICK x \in U : \A y \in U : <<y, x>> \notin R
  <2> HIDE DEF U, R
  <2> QED BY <1>2, <1>3, WFMin
<1>5. PICK m \in S : m <= n /\ x = 0..m
  BY <1>4
<1>6. ASSUME NEW j \in 0..(m - 1), j \in S PROVE FALSE
  <2>1. 0..j \in U
    BY <1>5, <1>6
  <2>2. 0..j \subseteq 0..m /\ 0..j # 0..m /\ 0..m \subseteq 0..n
    <3>1. m \in 0..m /\ m \notin 0..j
      BY <1>6
    <3> QED BY <3>1, <1>5, <1>6
  <2>3. <<0..j, 0..m>> \in R
    BY <2>2 DEF StrictSubsetOrdering
  <2> QED BY <1>4, <1>5, <2>1, <2>3
<1> QED BY <1>6

\* A walk ends in the first round that finds a slot to end at.
LEMMA FirstStopIsWalk ==
    ASSUME NEW n \in Nat \ {0}, NEW t, NEW k \in Keys,
           NEW i \in 0..(n - 1), FirstStop(t, n, k, i)
    PROVE  Walk(t, n, k) = Probe(k, n, i)
<1>1. ASSUME NEW j \in 0..(n - 1), FirstStop(t, n, k, j), j # i PROVE FALSE
  BY <1>1 DEF FirstStop
<1> QED BY <1>1 DEF Walk

\* The other way round: a walk that ends does so in such a round.
LEMMA WalkIsFirstStop ==
    ASSUME NEW n \in Nat \ {0}, NEW t, NEW k \in Keys, Walk(t, n, k) # -1
    PROVE  \E i \in 0..(n - 1) :
              FirstStop(t, n, k, i) /\ Walk(t, n, k) = Probe(k, n, i)
BY DEF Walk

\* One slot at which the walk for k can end is enough for it to end.
LEMMA WalkEnds ==
    ASSUME NEW n \in Nat \ {0}, NEW t, NEW k \in Keys,
           NEW p \in 0..(n - 1), StopsAt(t, p, k)
    PROVE  Walk(t, n, k) \in 0..(n - 1) /\ Walk(t, n, k) # -1
<1> DEFINE S == {i \in 0..(n - 1) : StopsAt(t, Probe(k, n, i), k)}
<1>1. S \in SUBSET Nat /\ S # {}
  <2>1. PICK i \in 0..(n - 1) : Probe(k, n, i) = p
    BY ProbeSurjective
  <2>2. i \in S
    BY <2>1
  <2> QED BY <2>2
<1>2. PICK m \in S : \A j \in 0..(m - 1) : j \notin S
  <2> HIDE DEF S
  <2> QED BY <1>1, LeastNumber
<1>3. m \in 0..(n - 1) /\ FirstStop(t, n, k, m)
  BY <1>2 DEF FirstStop
<1>4. Walk(t, n, k) = Probe(k, n, m)
  BY <1>3, FirstStopIsWalk
<1> QED BY <1>3, <1>4, ProbeRange

\* A walk that ends does so at a slot of the table that was never used, or
\* that the key itself uses.
LEMMA WalkStops ==
    ASSUME NEW n \in Nat \ {0}, NEW t, NEW k \in Keys, Walk(t, n, k) # -1
    PROVE  Walk(t, n, k) \in 0..(n - 1) /\ StopsAt(t, Walk(t, n, k), k)
BY WalkIsFirstStop, ProbeRange DEF FirstStop

\* Every entry is where the walk for its key ends.
Placed(t, n) ==
    \A p \in 0..(n - 1) : t[p].in_use = IN_USE =>
        /\ t[p].key \in Keys
        /\ t[p].value \in Values
        /\ Walk(t, n, t[p].key) = p

\* A walk does not see a change of a slot it only passes.
LEMMA WalkPasses ==
    ASSUME NEW n \in Nat \ {0}, NEW t, NEW u, NEW k \in Keys, NEW w,
           \A p \in 0..(n - 1) : p # w => u[p] = t[p],
           Walk(t, n, k) # -1, Walk(t, n, k) # w, ~StopsAt(u, w, k)
    PROVE  Walk(u, n, k) = Walk(t, n, k)
<1>1. PICK i \in 0..(n - 1) : FirstStop(t, n, k, i) /\ Walk(t, n, k) = Probe(k, n, i)
  BY WalkIsFirstStop
<1>2. \A j \in 0..i : Probe(k, n, j) \in 0..(n - 1)
  BY ProbeRange
<1>3. FirstStop(u, n, k, i)
  <2>1. StopsAt(u, Probe(k, n, i), k)
    BY <1>1, <1>2 DEF FirstStop, StopsAt
  <2>2. ASSUME NEW j \in 0..(i - 1) PROVE ~StopsAt(u, Probe(k, n, j), k)
    BY <1>1, <1>2 DEF FirstStop, StopsAt
  <2> QED BY <2>1, <2>2 DEF FirstStop
<1> QED BY <1>1, <1>3, FirstStopIsWalk

\* The walk for k still ends where it did when the slot there becomes k's.
LEMMA WalkToOwn ==
    ASSUME NEW n \in Nat \ {0}, NEW t, NEW u, NEW k \in Keys,
           Walk(t, n, k) # -1,
           \A p \in 0..(n - 1) : p # Walk(t, n, k) => u[p] = t[p],
           StopsAt(u, Walk(t, n, k), k)
    PROVE  Walk(u, n, k) = Walk(t, n, k)
<1>1. PICK i \in 0..(n - 1) : FirstStop(t, n, k, i) /\ Walk(t, n, k) = Probe(k, n, i)
  BY WalkIsFirstStop
<1>2. ASSUME NEW j \in 0..(i - 1) PROVE ~StopsAt(u, Probe(k, n, j), k)
  <2>1. Probe(k, n, j) \in 0..(n - 1) /\ Probe(k, n, j) # Probe(k, n, i)
    BY ProbeRange, ProbeInjective
  <2> QED BY <1>1, <2>1 DEF FirstStop, StopsAt
<1>3. FirstStop(u, n, k, i)
  BY <1>1, <1>2 DEF FirstStop
<1> QED BY <1>1, <1>3, FirstStopIsWalk

\* _hash_set() leaves every entry in its place, hash.c:175.
LEMMA PutPlaced ==
    ASSUME NEW n \in Nat \ {0}, NEW t \in Table(n), Placed(t, n),
           NEW k \in Keys, NEW v \in Values
    PROVE  /\ Put(t, n, k, v) \in Table(n)
           /\ Placed(Put(t, n, k, v), n)
<1> DEFINE w == Walk(t, n, k)
           u == Put(t, n, k, v)
<1>1. CASE w = -1
  BY <1>1 DEF Put
<1>2. CASE w # -1
  <2>1. w \in 0..(n - 1) /\ StopsAt(t, w, k)
    BY <1>2, WalkStops
  <2>2. InUse(k, v) \in Entry
    BY DEF InUse, Entry
  <2>3. u = [t EXCEPT ![w] = InUse(k, v)]
    BY <1>2 DEF Put
  <2>4. u \in Table(n)
    BY <2>2, <2>3 DEF Table
  <2>5. u[w] = InUse(k, v) /\ \A p \in 0..(n - 1) : p # w => u[p] = t[p]
    BY <2>1, <2>3 DEF Table
  <2>6. StopsAt(u, w, k)
    BY <2>5 DEF StopsAt, InUse
  <2>7. Walk(u, n, k) = w
    <3> HIDE DEF u
    <3> QED BY <1>2, <2>5, <2>6, WalkToOwn
  <2>8. ASSUME NEW p \in 0..(n - 1), u[p].in_use = IN_USE
        PROVE  u[p].key \in Keys /\ u[p].value \in Values /\ Walk(u, n, u[p].key) = p
    <3>1. CASE p = w
      BY <3>1, <2>5, <2>7 DEF InUse
    <3>2. CASE p # w
      <4> DEFINE j == t[p].key
      <4>1. u[p] = t[p] /\ Walk(t, n, j) = p /\ p # -1
        BY <2>5, <2>8, <3>2 DEF Placed
      <4>2. j \in Keys /\ t[p].value \in Values
        BY <2>5, <2>8, <3>2 DEF Placed
      <4>3. j # k
        BY <4>1, <3>2
      <4>4. ~StopsAt(u, w, j)
        BY <2>5, <4>3 DEF StopsAt, InUse, IN_USE, NEVER
      <4> HIDE DEF u, w
      <4>5. Walk(u, n, j) = Walk(t, n, j)
        BY <2>5, <3>2, <4>1, <4>2, <4>4, WalkPasses
      <4> QED BY <4>1, <4>2, <4>5
    <3> QED BY <3>1, <3>2
  <2> QED BY <2>4, <2>8 DEF Placed
<1> QED BY <1>1, <1>2

\* So does a removal, hash.c:288: the slot it leaves behind ends no walk.
LEMMA RemovePlaced ==
    ASSUME NEW n \in Nat \ {0}, NEW t \in Table(n), Placed(t, n),
           NEW w \in 0..(n - 1)
    PROVE  /\ [t EXCEPT ![w] = Removed] \in Table(n)
           /\ Placed([t EXCEPT ![w] = Removed], n)
<1> DEFINE u == [t EXCEPT ![w] = Removed]
<1>1. u \in Table(n)
  BY DEF Table, Entry, Removed
<1>2. u[w] = Removed /\ \A p \in 0..(n - 1) : p # w => u[p] = t[p]
  BY DEF Table
<1>3. ASSUME NEW p \in 0..(n - 1), u[p].in_use = IN_USE
      PROVE  /\ u[p].key \in Keys
             /\ u[p].value \in Values
             /\ Walk(u, n, u[p].key) = p
  <2>1. p # w
    BY <1>2, <1>3 DEF Removed, REMOVED, IN_USE
  <2> DEFINE j == t[p].key
  <2>2. u[p] = t[p] /\ j \in Keys /\ t[p].value \in Values /\ Walk(t, n, j) = p
    BY <1>2, <1>3, <2>1 DEF Placed
  <2>3. ~StopsAt(u, w, j)
    BY <1>2 DEF StopsAt, Removed, REMOVED, IN_USE, NEVER
  <2> HIDE DEF u
  <2>4. Walk(u, n, j) = Walk(t, n, j)
    BY <1>2, <2>1, <2>2, <2>3, WalkPasses
  <2> QED BY <2>2, <2>4
<1> QED BY <1>1, <1>3 DEF Placed

\* In a table of which every entry is in its place, a walk finds the entry
\* of its key whenever there is one.
LEMMA FindsEntry ==
    ASSUME NEW n \in Nat \ {0}, NEW t, Placed(t, n), NEW k \in Keys
    PROVE  /\ Finds(t, n, k) => /\ Walk(t, n, k) \in 0..(n - 1)
                                /\ Uses(t, Walk(t, n, k), k)
           /\ \A p \in 0..(n - 1) : Uses(t, p, k) =>
                 Walk(t, n, k) = p /\ Finds(t, n, k)
<1>1. ASSUME Finds(t, n, k)
      PROVE  Walk(t, n, k) \in 0..(n - 1) /\ Uses(t, Walk(t, n, k), k)
  BY <1>1, WalkStops DEF Finds, StopsAt, Uses, IN_USE, NEVER
<1>2. ASSUME NEW p \in 0..(n - 1), Uses(t, p, k)
      PROVE  Walk(t, n, k) = p /\ Finds(t, n, k)
  <2>1. Walk(t, n, k) = p
    BY <1>2 DEF Placed, Uses
  <2>2. p # -1
    OBVIOUS
  <2> QED BY <1>2, <2>1, <2>2 DEF Finds, Uses
<1> QED BY <1>1, <1>2
------------------------------------------------------------------------------
\* The slots of one kind.
Filled(t, n, u) == {p \in 0..(n - 1) : t[p].in_use = u}

\* They can be counted.
LEMMA FilledFinite ==
    ASSUME NEW n \in Nat, NEW t, NEW u
    PROVE  /\ IsFiniteSet(Filled(t, n, u))
           /\ Cardinality(Filled(t, n, u)) \in Nat
<1>1. IsFiniteSet(0..(n - 1))
  BY FS_Interval
<1>2. Filled(t, n, u) \in SUBSET (0..(n - 1))
  BY DEF Filled
<1> QED BY <1>1, <1>2, FS_Subset, FS_CardinalityType

\* Every slot is of one of three kinds.
LEMMA SlotsAddUp ==
    ASSUME NEW n \in Nat, NEW t \in Table(n)
    PROVE  Cardinality(Filled(t, n, NEVER)) =
              n - Cardinality(Filled(t, n, IN_USE)) - Cardinality(Filled(t, n, REMOVED))
<1> DEFINE A == Filled(t, n, NEVER)
           B == Filled(t, n, IN_USE)
           C == Filled(t, n, REMOVED)
<1>1. IsFiniteSet(A) /\ IsFiniteSet(B) /\ IsFiniteSet(C)
  BY FilledFinite
<1>2. A \cup B \cup C = 0..(n - 1)
  BY DEF Filled, Table, Entry
<1>3. A \cap B = {} /\ (A \cup B) \cap C = {}
  BY DEF Filled, NEVER, IN_USE, REMOVED
<1>4. Cardinality(0..(n - 1)) = n
  BY FS_Interval
<1> HIDE DEF A, B, C
<1>5. IsFiniteSet(A \cup B) /\ Cardinality(A \cup B) = Cardinality(A) + Cardinality(B) - Cardinality({})
  BY <1>1, <1>3, FS_Union
<1>6. Cardinality(0..(n - 1)) = Cardinality(A \cup B) + Cardinality(C) - Cardinality({})
  <2> DEFINE D == A \cup B
  <2>1. IsFiniteSet(D) /\ D \cup C = 0..(n - 1) /\ D \cap C = {}
    BY <1>2, <1>3, <1>5
  <2> HIDE DEF D
  <2>2. Cardinality(D \cup C) = Cardinality(D) + Cardinality(C) - Cardinality(D \cap C)
    BY <1>1, <2>1, FS_Union
  <2> QED BY <2>1, <2>2 DEF D
<1>7. Cardinality(A) \in Nat /\ Cardinality(B) \in Nat /\ Cardinality(C) \in Nat
  BY <1>1, FS_CardinalityType
<1>8. n = Cardinality(A) + Cardinality(B) + Cardinality(C)
  BY <1>4, <1>5, <1>6, <1>7, FS_EmptySet
<1> QED BY <1>7, <1>8 DEF A, B, C

\* While fewer slots are taken than there are, every walk ends.
LEMMA RoomMeansWalksEnd ==
    ASSUME NEW n \in Nat \ {0}, NEW t \in Table(n),
           Cardinality(Filled(t, n, IN_USE)) + Cardinality(Filled(t, n, REMOVED)) < n,
           NEW k \in Keys
    PROVE  Walk(t, n, k) # -1
<1>1. Cardinality(Filled(t, n, NEVER)) # 0
  BY SlotsAddUp, FilledFinite
<1>2. PICK p \in 0..(n - 1) : t[p].in_use = NEVER
  BY <1>1, FS_EmptySet DEF Filled
<1> QED BY <1>2, WalkEnds DEF StopsAt

\* Counting after one slot has changed from the kind a to the kind b.
LEMMA CountMoved ==
    ASSUME NEW n \in Nat, NEW t, NEW u, NEW w \in 0..(n - 1),
           \A p \in 0..(n - 1) : p # w => u[p] = t[p],
           NEW x
    PROVE  Cardinality(Filled(u, n, x)) =
             Cardinality(Filled(t, n, x))
             - (IF t[w].in_use = x THEN 1 ELSE 0)
             + (IF u[w].in_use = x THEN 1 ELSE 0)
<1> DEFINE F == Filled(t, n, x)
           G == Filled(u, n, x)
           H == F \ {w}
<1>1. IsFiniteSet(F) /\ Cardinality(F) \in Nat
  BY FilledFinite
<1>2. w \in F <=> t[w].in_use = x
  BY DEF Filled
<1>3. G = IF u[w].in_use = x THEN H \cup {w} ELSE H
  BY DEF Filled
<1> HIDE DEF F, G
<1>4. IsFiniteSet(H) /\ Cardinality(H) = IF w \in F THEN Cardinality(F) - 1 ELSE Cardinality(F)
  BY <1>1, FS_RemoveElement
<1>5. Cardinality(H \cup {w}) = Cardinality(H) + 1
  BY <1>4, FS_AddElement
<1>6. Cardinality(G) = Cardinality(F) - (IF t[w].in_use = x THEN 1 ELSE 0)
                        + (IF u[w].in_use = x THEN 1 ELSE 0)
  BY <1>1, <1>2, <1>3, <1>4, <1>5
<1> QED BY <1>6 DEF F, G
------------------------------------------------------------------------------
\* The old slots whose entries are still to be reinserted.
Pending == {p \in PendingSlots : old_entries[p].in_use = IN_USE}

\* Nobody but resize_table() has old slots.
OldSlots ==
    IF pc = "resizing" THEN old_entries \in Table(old_size)
                       ELSE old_size = 0 /\ old_pos = 0 /\ old_entries = NoEntries

\* The new slots: every entry in its place, and counted.
NewSlots ==
    IF Alive
    THEN /\ entries \in Table(table_size)
         /\ Placed(entries, table_size)
         /\ nentries = Cardinality(Filled(entries, table_size, IN_USE))
         /\ nremoved = Cardinality(Filled(entries, table_size, REMOVED))
    ELSE entries = NoEntries

\* There is room, also for what is to be reinserted.
Room ==
    /\ pc = "ready" => 10 * (table_size - nentries - nremoved) >= 3 * table_size
    /\ pc = "resizing" => /\ nremoved = 0
                          /\ 2 * (nentries + Cardinality(Pending)) <= table_size

\* No key is at two places.
KeysOnce ==
    /\ \A p \in Pending : old_entries[p].key \in Keys /\ old_entries[p].value \in Values
    /\ \A p, q \in Pending : old_entries[p].key = old_entries[q].key => p = q
    /\ \A p \in Pending, k \in Keys : old_entries[p].key = k => ~Finds(entries, table_size, k)

\* A value that is allocated is at one place.
OwnedOnce ==
    pc # "lost" => \A v \in Values :
       IF v \in pool THEN Owner(v) = {} ELSE \E x : Owner(v) = {x}

\* The inductive invariant.
IInv == TypeOK /\ OldSlots /\ NewSlots /\ Room /\ KeysOnce /\ OwnedOnce
------------------------------------------------------------------------------
\* The slots that hold v.
Holders(t, n, v) == {p \in 0..(n - 1) : t[p].in_use = IN_USE /\ t[p].value = v}

\* A table with its counters and the values that are not allocated, outside
\* resize_table().
Sound(t, n, ne, nr, pl) ==
    /\ t \in Table(n)
    /\ Placed(t, n)
    /\ ne = Cardinality(Filled(t, n, IN_USE))
    /\ nr = Cardinality(Filled(t, n, REMOVED))
    /\ pl \subseteq Values
    /\ \A v \in Values :
          IF v \in pl THEN Holders(t, n, v) = {} ELSE \E p : Holders(t, n, v) = {p}

\* _hash_set() keeps a table sound.
LEMMA PutSound ==
    ASSUME NEW n \in Nat \ {0}, NEW t, NEW ne, NEW nr, NEW pl, Sound(t, n, ne, nr, pl),
           NEW k \in Keys, NEW v \in pl, Walk(t, n, k) # -1
    PROVE  Sound(Put(t, n, k, v), n,
                 IF TakesFresh(t, n, k) THEN ne + 1 ELSE ne, nr,
                 (pl \ {v}) \cup Overridden(t, n, k))
<1> DEFINE w == Walk(t, n, k)
           u == Put(t, n, k, v)
           pl2 == (pl \ {v}) \cup Overridden(t, n, k)
<1>0. t \in Table(n) /\ Placed(t, n) /\ v \in Values /\ pl \subseteq Values
  BY DEF Sound
<1>1. u \in Table(n) /\ Placed(u, n)
  BY <1>0, PutPlaced
<1>2. w \in 0..(n - 1) /\ StopsAt(t, w, k)
  BY WalkStops
<1>3. u[w] = InUse(k, v) /\ \A p \in 0..(n - 1) : p # w => u[p] = t[p]
  BY <1>0, <1>2 DEF Put, Table
<1>4. u[w].in_use = IN_USE /\ u[w].value = v
  BY <1>3 DEF InUse
<1>5. /\ t[w].in_use = NEVER => TakesFresh(t, n, k) /\ Overridden(t, n, k) = {}
      /\ t[w].in_use = IN_USE => /\ ~TakesFresh(t, n, k)
                                 /\ Overridden(t, n, k) = {t[w].value}
                                 /\ t[w].value \in Values
      /\ t[w].in_use \in {NEVER, IN_USE}
  BY <1>0, <1>2 DEF TakesFresh, Overridden, Finds, StopsAt, Placed, IN_USE, NEVER
<1>6. \A x : Cardinality(Filled(u, n, x)) =
               Cardinality(Filled(t, n, x))
               - (IF t[w].in_use = x THEN 1 ELSE 0)
               + (IF u[w].in_use = x THEN 1 ELSE 0)
  <2> HIDE DEF u, w
  <2>1. w \in 0..(n - 1) /\ \A p \in 0..(n - 1) : p # w => u[p] = t[p]
    BY <1>2, <1>3
  <2> QED BY <2>1, CountMoved
<1>7. \A x : Cardinality(Filled(t, n, x)) \in Nat
  BY FilledFinite
<1>8. /\ (IF TakesFresh(t, n, k) THEN ne + 1 ELSE ne) = Cardinality(Filled(u, n, IN_USE))
      /\ nr = Cardinality(Filled(u, n, REMOVED))
  <2> HIDE DEF u, w
  <2> QED BY <1>4, <1>5, <1>6, <1>7 DEF Sound, NEVER, IN_USE, REMOVED
<1>9. pl2 \subseteq Values
  BY <1>0, <1>5
<1>10. ASSUME NEW x \in Values
       PROVE  IF x \in pl2 THEN Holders(u, n, x) = {} ELSE \E p : Holders(u, n, x) = {p}
  <2> HIDE DEF u, w
  <2>1. IF x \in pl THEN Holders(t, n, x) = {} ELSE \E p : Holders(t, n, x) = {p}
    BY DEF Sound
  <2>2. Holders(t, n, v) = {}
    BY <1>0 DEF Sound
  <2>3. Holders(u, n, x) = (Holders(t, n, x) \ {w}) \cup (IF x = v THEN {w} ELSE {})
    BY <1>2, <1>3, <1>4 DEF Holders
  <2>4. w \in Holders(t, n, x) <=> x \in Overridden(t, n, k)
    BY <1>2, <1>5 DEF Holders, NEVER, IN_USE
  <2>5. CASE x = v
    BY <2>2, <2>3, <2>4, <2>5
  <2>6. CASE x # v
    BY <2>1, <2>3, <2>4, <2>6
  <2> QED BY <2>5, <2>6
<1> HIDE DEF u, w, pl2
<1>11. Sound(u, n, IF TakesFresh(t, n, k) THEN ne + 1 ELSE ne, nr, pl2)
  BY <1>1, <1>8, <1>9, <1>10 DEF Sound
<1> QED BY <1>11 DEF u, pl2

\* hash_del() does, when the key is there.
LEMMA RemoveSound ==
    ASSUME NEW n \in Nat \ {0}, NEW t, NEW ne, NEW nr, NEW pl, Sound(t, n, ne, nr, pl),
           NEW k \in Keys, Finds(t, n, k)
    PROVE  Sound([t EXCEPT ![Walk(t, n, k)] = Removed], n, ne - 1, nr + 1,
                 pl \cup {Lookup(t, n, k)})
<1> DEFINE w == Walk(t, n, k)
           u == [t EXCEPT ![w] = Removed]
           pl2 == pl \cup {Lookup(t, n, k)}
<1>0. t \in Table(n) /\ Placed(t, n) /\ pl \subseteq Values
  BY DEF Sound
<1>1. w \in 0..(n - 1) /\ t[w].in_use = IN_USE
  BY <1>0, FindsEntry DEF Uses
<1>2. u \in Table(n) /\ Placed(u, n)
  BY <1>0, <1>1, RemovePlaced
<1>3. u[w] = Removed /\ \A p \in 0..(n - 1) : p # w => u[p] = t[p]
  BY <1>0, <1>1 DEF Table
<1>4. u[w].in_use = REMOVED
  BY <1>3 DEF Removed
<1>5. Lookup(t, n, k) = t[w].value /\ t[w].value \in Values
  BY <1>0, <1>1 DEF Lookup, Placed
<1>6. \A x : Cardinality(Filled(u, n, x)) =
               Cardinality(Filled(t, n, x))
               - (IF t[w].in_use = x THEN 1 ELSE 0)
               + (IF u[w].in_use = x THEN 1 ELSE 0)
  <2> HIDE DEF u, w
  <2> QED BY <1>1, <1>3, CountMoved
<1>7. \A x : Cardinality(Filled(t, n, x)) \in Nat
  BY FilledFinite
<1>8. /\ ne - 1 = Cardinality(Filled(u, n, IN_USE))
      /\ nr + 1 = Cardinality(Filled(u, n, REMOVED))
  <2> HIDE DEF u, w
  <2> QED BY <1>1, <1>4, <1>6, <1>7 DEF Sound, IN_USE, REMOVED
<1>9. ASSUME NEW x \in Values
      PROVE  IF x \in pl2 THEN Holders(u, n, x) = {} ELSE \E p : Holders(u, n, x) = {p}
  <2> HIDE DEF u, w
  <2>1. IF x \in pl THEN Holders(t, n, x) = {} ELSE \E p : Holders(t, n, x) = {p}
    BY DEF Sound
  <2>2. Holders(u, n, x) = Holders(t, n, x) \ {w}
    BY <1>1, <1>3, <1>4 DEF Holders, IN_USE, REMOVED
  <2>3. w \in Holders(t, n, x) <=> x = t[w].value
    BY <1>1 DEF Holders
  <2> QED BY <1>5, <2>1, <2>2, <2>3
<1> HIDE DEF u, w
<1>10. Sound(u, n, ne - 1, nr + 1, pl2)
  BY <1>0, <1>2, <1>5, <1>8, <1>9 DEF Sound
<1> QED BY <1>10 DEF u, w

\* A table of empty slots.
LEMMA EmptyTable ==
    ASSUME NEW n \in Nat \ {0}
    PROVE  /\ Empty(n) \in Table(n)
           /\ \A p \in 0..(n - 1) : Empty(n)[p].in_use = NEVER
           /\ Placed(Empty(n), n)
           /\ Cardinality(Filled(Empty(n), n, IN_USE)) = 0
           /\ Cardinality(Filled(Empty(n), n, REMOVED)) = 0
<1>1. NeverUsed \in Entry
  BY DEF NeverUsed, Entry
<1>2. Empty(n) \in Table(n)
  BY <1>1 DEF Empty, Table
<1>3. \A p \in 0..(n - 1) : Empty(n)[p].in_use = NEVER
  BY DEF Empty, NeverUsed
<1>4. Filled(Empty(n), n, IN_USE) = {} /\ Filled(Empty(n), n, REMOVED) = {}
  BY <1>3 DEF Filled, NEVER, IN_USE, REMOVED
<1>5. Placed(Empty(n), n)
  BY <1>3 DEF Placed, NEVER, IN_USE
<1> QED BY <1>2, <1>3, <1>4, <1>5, FS_EmptySet
------------------------------------------------------------------------------
\* Owner(v), of slots t and old slots o from pos on.
OwnerIn(t, o, pos, v) ==
    {<<"new", p>> : p \in {q \in DOMAIN t : t[q].in_use = IN_USE /\ t[q].value = v}}
    \cup
    {<<"old", p>> : p \in {q \in {r \in DOMAIN o : r >= pos} :
                              o[q].in_use = IN_USE /\ o[q].value = v}}

\* OwnedOnce, of the same and the values pl that are not allocated.
Owned(t, o, pos, pl) ==
    \A v \in Values :
       IF v \in pl THEN OwnerIn(t, o, pos, v) = {} ELSE \E x : OwnerIn(t, o, pos, v) = {x}

\* The two say the same, before a step and after it.
LEMMA OwnedIs ==
    /\ OwnedOnce <=> (pc # "lost" => Owned(entries, old_entries, old_pos, pool))
    /\ OwnedOnce' <=> (pc' # "lost" => Owned(entries', old_entries', old_pos', pool'))
BY DEF OwnedOnce, Owned, Owner, OwnerIn, TableSlots, PendingSlots

\* The places of Owner(v), from the slots.
Tagged(tag, H) == {<<tag, p>> : p \in H}

\* As many places as slots: none, or one.
LEMMA TaggedSet ==
    ASSUME NEW H, NEW tag
    PROVE  /\ Tagged(tag, H) = {} <=> H = {}
           /\ (\E x : Tagged(tag, H) = {x}) <=> \E p : H = {p}
<1> DEFINE O == Tagged(tag, H)
<1> USE DEF Tagged
<1>1. ASSUME NEW p, H = {p} PROVE O = {<<tag, p>>}
  BY <1>1
<1>2. ASSUME NEW x, O = {x} PROVE \E p : H = {p}
  <2>1. PICK p \in H : x = <<tag, p>>
    BY <1>2
  <2>2. ASSUME NEW q \in H PROVE q = p
    <3>1. <<tag, q>> \in O
      OBVIOUS
    <3> QED BY <3>1, <2>1, <1>2
  <2> HIDE DEF O
  <2> QED BY <2>1, <2>2
<1> QED BY <1>1, <1>2

\* Who owns what, of a table that is not being resized.
LEMMA OwnedNew ==
    ASSUME NEW n \in Nat, NEW t \in Table(n), NEW pos, NEW pl
    PROVE  Owned(t, NoEntries, pos, pl) <=>
              \A v \in Values :
                 IF v \in pl THEN Holders(t, n, v) = {} ELSE \E p : Holders(t, n, v) = {p}
<1>1. ASSUME NEW v
      PROVE  OwnerIn(t, NoEntries, pos, v) = Tagged("new", Holders(t, n, v))
  BY DEF OwnerIn, NoEntries, Holders, Table, Tagged
<1>2. ASSUME NEW v
      PROVE  /\ OwnerIn(t, NoEntries, pos, v) = {} <=> Holders(t, n, v) = {}
             /\ (\E x : OwnerIn(t, NoEntries, pos, v) = {x}) <=> \E p : Holders(t, n, v) = {p}
  <2> DEFINE O == OwnerIn(t, NoEntries, pos, v)
             H == Holders(t, n, v)
  <2>1. O = Tagged("new", H)
    BY <1>1
  <2> HIDE DEF O, H
  <2>2. /\ Tagged("new", H) = {} <=> H = {}
        /\ (\E x : Tagged("new", H) = {x}) <=> \E p : H = {p}
    BY TaggedSet
  <2>3. (O = {} <=> H = {}) /\ ((\E x : O = {x}) <=> \E p : H = {p})
    BY <2>1, <2>2, Zenon
  <2> QED BY <2>3 DEF O, H
<1> QED BY <1>2 DEF Owned

\* The same at the beginning of a resize, with all the entries in old slots.
LEMMA OwnedOld ==
    ASSUME NEW n \in Nat, NEW o \in Table(n), NEW m \in Nat \ {0}, NEW pl
    PROVE  Owned(Empty(m), o, 0, pl) <=>
              \A v \in Values :
                 IF v \in pl THEN Holders(o, n, v) = {} ELSE \E p : Holders(o, n, v) = {p}
<1>1. ASSUME NEW v
      PROVE  OwnerIn(Empty(m), o, 0, v) = Tagged("old", Holders(o, n, v))
  <2>1. \A q \in DOMAIN Empty(m) : Empty(m)[q].in_use # IN_USE
    BY EmptyTable DEF Table, NEVER, IN_USE
  <2>2. {q \in {r \in DOMAIN o : r >= 0} : o[q].in_use = IN_USE /\ o[q].value = v}
           = Holders(o, n, v)
    BY DEF Holders, Table
  <2> QED BY <2>1, <2>2 DEF OwnerIn, Tagged
<1>2. ASSUME NEW v
      PROVE  /\ OwnerIn(Empty(m), o, 0, v) = {} <=> Holders(o, n, v) = {}
             /\ (\E x : OwnerIn(Empty(m), o, 0, v) = {x}) <=> \E p : Holders(o, n, v) = {p}
  <2> DEFINE O == OwnerIn(Empty(m), o, 0, v)
             H == Holders(o, n, v)
  <2>1. O = Tagged("old", H)
    BY <1>1
  <2> HIDE DEF O, H
  <2>2. /\ Tagged("old", H) = {} <=> H = {}
        /\ (\E x : Tagged("old", H) = {x}) <=> \E p : H = {p}
    BY TaggedSet
  <2>3. (O = {} <=> H = {}) /\ ((\E x : O = {x}) <=> \E p : H = {p})
    BY <2>1, <2>2, Zenon
  <2> QED BY <2>3 DEF O, H
<1> QED BY <1>2 DEF Owned
------------------------------------------------------------------------------
\* Between two calls the table is sound.
LEMMA ReadySound ==
    ASSUME IInv, pc = "ready"
    PROVE  /\ Sound(entries, table_size, nentries, nremoved, pool)
           /\ table_size \in Nat \ {0}
           /\ \A k \in Keys : Walk(entries, table_size, k) # -1
<1>1. table_size \in Nat \ {0} /\ pool \subseteq Values
  BY DEF IInv, TypeOK
<1>2. old_entries = NoEntries
  BY DEF IInv, OldSlots
<1>3. /\ entries \in Table(table_size)
      /\ Placed(entries, table_size)
      /\ nentries = Cardinality(Filled(entries, table_size, IN_USE))
      /\ nremoved = Cardinality(Filled(entries, table_size, REMOVED))
  BY DEF IInv, NewSlots, Alive
<1>4. Owned(entries, NoEntries, old_pos, pool)
  BY <1>2, OwnedIs DEF IInv
<1>5. Sound(entries, table_size, nentries, nremoved, pool)
  <2>1. \A v \in Values :
           IF v \in pool THEN Holders(entries, table_size, v) = {}
                        ELSE \E p : Holders(entries, table_size, v) = {p}
    BY <1>1, <1>3, <1>4, OwnedNew
  <2> QED BY <1>1, <1>3, <2>1 DEF Sound
<1>6. nentries \in Nat /\ nremoved \in Nat /\ nentries + nremoved < table_size
  <2>1. 10 * (table_size - nentries - nremoved) >= 3 * table_size
    BY DEF IInv, Room
  <2> QED BY <1>1, <2>1 DEF IInv, TypeOK
<1> QED BY <1>1, <1>3, <1>5, <1>6, RoomMeansWalksEnd

\* The tail of a call, also when it begins or fails to resize.
LEMMA AutoResizeKeeps ==
    ASSUME IInv, pc = "ready",
           NEW t, NEW ne, NEW nr, NEW o, NEW k, NEW r,
           Sound(t, table_size, ne, nr, pool'),
           AutoResize(t, ne, nr, o, k, r)
    PROVE  IInv'
<1>1. table_size \in Nat \ {0} /\ old_size = 0 /\ old_pos = 0 /\ old_entries = NoEntries
  BY DEF IInv, TypeOK, OldSlots
<1>2. ne \in Nat /\ nr \in Nat
  BY <1>1, FilledFinite DEF Sound
<1>3. t \in Table(table_size) /\ pool' \subseteq Values
  BY DEF Sound
<1>4. CASE ~NeedsResize(table_size, ne, nr)
  <2>1. /\ entries' = t /\ nentries' = ne /\ nremoved' = nr
        /\ UNCHANGED <<table_size, old_entries, old_size, old_pos, pc>>
    BY <1>4 DEF AutoResize, resizeVars
  <2>2. TypeOK'
    BY <1>1, <1>2, <1>3, <2>1 DEF TypeOK, Alive, Table, NoEntries
  <2>3. OldSlots' /\ NewSlots'
    BY <1>1, <2>1 DEF OldSlots, NewSlots, Sound, Alive
  <2>4. Room'
    BY <1>1, <1>2, <1>4, <2>1 DEF Room, NeedsResize
  <2>5. KeysOnce'
    BY <1>1, <2>1 DEF KeysOnce, Pending, PendingSlots, NoEntries
  <2>6. OwnedOnce'
    BY <1>1, <1>3, <2>1, OwnedIs, OwnedNew DEF Sound
  <2> QED BY <2>2, <2>3, <2>4, <2>5, <2>6 DEF IInv
<1>5. CASE /\ NeedsResize(table_size, ne, nr)
           /\ pc' = "resizing"
  <2> DEFINE m == NewSize(ne)
  <2>1. /\ old_entries' = t /\ old_size' = table_size /\ old_pos' = 0
        /\ entries' = Empty(m) /\ table_size' = m
        /\ nentries' = 0 /\ nremoved' = 0
    BY <1>5 DEF AutoResize
  <2>2. m \in Nat \ {0} /\ m >= 2 * ne
    BY <1>2, MinSizeAssumption DEF NewSize
  <2> HIDE DEF m
  <2>3. TypeOK'
    BY <1>1, <1>3, <1>5, <2>1, <2>2, EmptyTable DEF TypeOK, Alive, Table
  <2>4. OldSlots' /\ NewSlots'
    BY <1>3, <1>5, <2>1, <2>2, EmptyTable DEF OldSlots, NewSlots, Alive
  <2>5. Pending' = Filled(t, table_size, IN_USE)
    BY <1>1, <1>3, <2>1 DEF Pending, PendingSlots, Filled, Table
  <2>6. Room'
    BY <1>2, <1>5, <2>1, <2>2, <2>5 DEF Room, Sound
  <2>7. KeysOnce'
    <3>1. \A p \in Pending' : /\ t[p].key \in Keys /\ t[p].value \in Values
                              /\ Walk(t, table_size, t[p].key) = p
      BY <2>5 DEF Sound, Placed, Filled
    <3>2. \A j \in Keys : ~Finds(Empty(m), m, j)
      BY <2>2, EmptyTable, FindsEntry DEF Uses, NEVER, IN_USE
    <3> QED BY <2>1, <3>1, <3>2 DEF KeysOnce
  <2>8. OwnedOnce'
    BY <1>1, <1>3, <2>1, <2>2, OwnedIs, OwnedOld DEF Sound
  <2> QED BY <2>3, <2>4, <2>6, <2>7, <2>8 DEF IInv
<1>6. CASE pc' = "lost"
  <2>1. /\ entries' = NoEntries /\ nentries' = ne /\ nremoved' = nr
        /\ UNCHANGED <<table_size, old_entries, old_size, old_pos>>
    BY <1>6 DEF AutoResize, resizeVars
  <2>2. TypeOK'
    BY <1>1, <1>2, <1>3, <1>6, <2>1 DEF TypeOK, Alive, NoEntries
  <2>3. OldSlots' /\ NewSlots' /\ Room' /\ OwnedOnce'
    BY <1>1, <1>6, <2>1, OwnedIs DEF OldSlots, NewSlots, Room, Alive
  <2>4. KeysOnce'
    BY <1>1, <2>1 DEF KeysOnce, Pending, PendingSlots, NoEntries
  <2> QED BY <2>2, <2>3, <2>4 DEF IInv
<1> QED BY <1>4, <1>5, <1>6 DEF AutoResize
------------------------------------------------------------------------------
\* One lemma for each action: hash_get() keeps the invariant, hash.c:142.
LEMMA GetKeeps ==
    ASSUME IInv, NEW k \in Keys, hash_get(k)
    PROVE  IInv'
<1>1. UNCHANGED <<entries, table_size, nentries, nremoved, old_entries, old_size,
                  old_pos, pc, pool>>
  BY DEF hash_get, resizeVars
<1> QED BY <1>1 DEF IInv, TypeOK, OldSlots, NewSlots, Room, KeysOnce, OwnedOnce,
                    Alive, Pending, PendingSlots, Owner, TableSlots

\* hash_set() does, hash.c:277.
LEMMA SetKeeps ==
    ASSUME IInv, NEW k \in Keys, NEW v \in Values, hash_set(k, v)
    PROVE  IInv'
<1>1. pc = "ready" /\ v \in pool
  BY DEF hash_set
<1>2. /\ Sound(entries, table_size, nentries, nremoved, pool)
      /\ table_size \in Nat \ {0}
      /\ Walk(entries, table_size, k) # -1
  BY <1>1, ReadySound
<1> DEFINE t == Put(entries, table_size, k, v)
           ne == IF TakesFresh(entries, table_size, k) THEN nentries + 1 ELSE nentries
<1>3. pool' = (pool \ {v}) \cup Overridden(entries, table_size, k)
  BY DEF hash_set
<1>4. Sound(t, table_size, ne, nremoved, pool')
  BY <1>1, <1>2, <1>3, PutSound
<1>5. AutoResize(t, ne, nremoved, "set", k, Walk(entries, table_size, k) # -1)
  BY DEF hash_set
<1> HIDE DEF t, ne
<1> QED BY <1>1, <1>4, <1>5, AutoResizeKeeps

\* hash_del() does, hash.c:288.
LEMMA DelKeeps ==
    ASSUME IInv, NEW k \in Keys, hash_del(k)
    PROVE  IInv'
<1>1. pc = "ready"
  BY DEF hash_del
<1>2. CASE ~Finds(entries, table_size, k)
  <2>1. UNCHANGED <<entries, table_size, nentries, nremoved, old_entries,
                    old_size, old_pos, pc, pool>>
    BY <1>2 DEF hash_del, resizeVars
  <2> QED BY <2>1 DEF IInv, TypeOK, OldSlots, NewSlots, Room, KeysOnce,
               OwnedOnce, Alive, Pending, PendingSlots, Owner, TableSlots
<1>3. CASE Finds(entries, table_size, k)
  <2> DEFINE t == [entries EXCEPT ![Walk(entries, table_size, k)] = Removed]
  <2>1. Sound(entries, table_size, nentries, nremoved, pool) /\ table_size \in Nat \ {0}
    BY <1>1, ReadySound
  <2>2. pool' = pool \cup {Lookup(entries, table_size, k)}
    BY <1>3 DEF hash_del
  <2>3. Sound(t, table_size, nentries - 1, nremoved + 1, pool')
    BY <1>3, <2>1, <2>2, RemoveSound
  <2>4. AutoResize(t, nentries - 1, nremoved + 1, "del", k, TRUE)
    BY <1>3 DEF hash_del
  <2> HIDE DEF t
  <2> QED BY <1>1, <2>3, <2>4, AutoResizeKeeps
<1> QED BY <1>2, <1>3

\* A round of the loop of resize_table() takes the next old slot.
LEMMA PendingStep ==
    ASSUME IInv, resize_table_step
    PROVE  /\ old_entries[old_pos].in_use = IN_USE =>
                 /\ old_pos \in Pending
                 /\ Pending' = Pending \ {old_pos}
                 /\ Cardinality(Pending) \in Nat \ {0}
                 /\ Cardinality(Pending') = Cardinality(Pending) - 1
           /\ old_entries[old_pos].in_use # IN_USE => Pending' = Pending
           /\ \A p \in DOMAIN old_entries : p >= old_pos + 1 <=> p >= old_pos /\ p # old_pos
           /\ old_pos \in 0..(old_size - 1)
<1>1. /\ old_entries \in Table(old_size) /\ old_size \in Nat
      /\ old_pos \in 0..(old_size - 1)
      /\ old_pos' = old_pos + 1 /\ old_entries' = old_entries
  BY DEF IInv, TypeOK, OldSlots, resize_table_step
<1>2. Pending = {p \in old_pos..(old_size - 1) : old_entries[p].in_use = IN_USE}
  BY <1>1 DEF Pending, PendingSlots, Table
<1>3. Pending' = {p \in (old_pos + 1)..(old_size - 1) : old_entries[p].in_use = IN_USE}
  BY <1>1 DEF Pending, PendingSlots, Table
<1>4. \A p \in DOMAIN old_entries : p >= old_pos + 1 <=> p >= old_pos /\ p # old_pos
  BY <1>1 DEF Table
<1>5. ASSUME old_entries[old_pos].in_use = IN_USE
      PROVE  old_pos \in Pending /\ Pending' = Pending \ {old_pos}
  BY <1>1, <1>2, <1>3, <1>5
<1>6. ASSUME old_entries[old_pos].in_use # IN_USE PROVE Pending' = Pending
  BY <1>1, <1>2, <1>3, <1>6
<1>7. IsFiniteSet(Pending)
  <2>1. IsFiniteSet(old_pos..(old_size - 1))
    BY <1>1, FS_Interval
  <2>2. Pending \in SUBSET (old_pos..(old_size - 1))
    BY <1>2
  <2> QED BY <2>1, <2>2, FS_Subset
<1>8. ASSUME old_pos \in Pending
      PROVE  /\ Cardinality(Pending) \in Nat \ {0}
             /\ Cardinality(Pending \ {old_pos}) = Cardinality(Pending) - 1
  BY <1>7, <1>8, FS_RemoveElement, FS_CardinalityType, FS_EmptySet
<1> QED BY <1>1, <1>4, <1>5, <1>6, <1>8

\* While the table is being resized every walk through the new slots ends.
LEMMA ResizingWalks ==
    ASSUME IInv, pc = "resizing", NEW k \in Keys,
           Cardinality(Pending) \in Nat
    PROVE  Walk(entries, table_size, k) # -1
<1>1. /\ entries \in Table(table_size) /\ table_size \in Nat \ {0}
      /\ nentries = Cardinality(Filled(entries, table_size, IN_USE))
      /\ Cardinality(Filled(entries, table_size, REMOVED)) = 0
      /\ nentries \in Nat
  BY DEF IInv, NewSlots, TypeOK, Room, Alive
<1>2. 2 * (nentries + Cardinality(Pending)) <= table_size
  BY DEF IInv, Room
<1>3. nentries < table_size
  BY <1>1, <1>2
<1> QED BY <1>1, <1>3, RoomMeansWalksEnd

\* A round of the loop of resize_table() does, hash.c:239: the entry it moves
\* takes a slot that was never used, so nothing is handed to the destructor.
LEMMA ReinsertKeeps ==
    ASSUME IInv, resize_table_step
    PROVE  IInv'
<1> DEFINE e == old_entries[old_pos]
<1>1. /\ pc = "resizing" /\ old_pos' = old_pos + 1
      /\ UNCHANGED <<table_size, nremoved, old_entries, old_size, pc>>
  BY DEF resize_table_step
<1>2. /\ table_size \in Nat \ {0}
      /\ entries \in Table(table_size)
      /\ Placed(entries, table_size)
      /\ nentries = Cardinality(Filled(entries, table_size, IN_USE))
      /\ nremoved = Cardinality(Filled(entries, table_size, REMOVED))
      /\ old_entries \in Table(old_size)
      /\ nentries \in Nat
      /\ old_size \in Nat /\ old_pos \in 0..(old_size - 1)
      /\ pool \subseteq Values
  BY <1>1, PendingStep DEF IInv, NewSlots, OldSlots, TypeOK, Alive
<1>3. CASE e.in_use # IN_USE
  <2>1. UNCHANGED <<entries, nentries, pool>>
    BY <1>3 DEF resize_table_step
  <2>2. Pending' = Pending
    BY <1>3, PendingStep
  <2>3. TypeOK'
    BY <1>1, <1>2, <2>1 DEF IInv, TypeOK, Alive
  <2>4. OldSlots' /\ NewSlots' /\ Room' /\ KeysOnce'
    BY <1>1, <2>1, <2>2 DEF IInv, OldSlots, NewSlots, Room, KeysOnce, Alive
  <2>5. OwnedOnce'
    <3>1. ASSUME NEW v PROVE OwnerIn(entries', old_entries', old_pos', v)
                               = OwnerIn(entries, old_entries, old_pos, v)
      BY <1>1, <1>3, <2>1, PendingStep DEF OwnerIn
    <3>2. Owned(entries, old_entries, old_pos, pool)
      BY <1>1, OwnedIs DEF IInv
    <3>3. Owned(entries', old_entries', old_pos', pool')
      BY <2>1, <3>1, <3>2 DEF Owned
    <3> QED BY <3>3, OwnedIs
  <2> QED BY <2>3, <2>4, <2>5 DEF IInv
<1>4. CASE e.in_use = IN_USE
  <2> DEFINE k == e.key
             v == e.value
             w == Walk(entries, table_size, k)
  <2>1. /\ old_pos \in Pending /\ Pending' = Pending \ {old_pos}
        /\ Cardinality(Pending) \in Nat \ {0}
        /\ Cardinality(Pending') = Cardinality(Pending) - 1
    BY <1>4, PendingStep
  <2>2. /\ k \in Keys /\ v \in Values
        /\ ~Finds(entries, table_size, k)
        /\ \A p \in Pending' : old_entries[p].key # k
    BY <2>1 DEF IInv, KeysOnce
  <2>3. w \in 0..(table_size - 1) /\ w # -1 /\ entries[w].in_use = NEVER
    <3>1. w # -1
      BY <1>1, <2>1, <2>2, ResizingWalks
    <3>2. w \in 0..(table_size - 1) /\ StopsAt(entries, w, k)
      BY <1>2, <2>2, <3>1, WalkStops
    <3> QED BY <2>2, <3>1, <3>2 DEF StopsAt, Finds
  <2>4. /\ TakesFresh(entries, table_size, k)
        /\ Overridden(entries, table_size, k) = {}
    BY <2>2, <2>3 DEF TakesFresh, Overridden
  <2>5. entries' = Put(entries, table_size, k, v) /\ nentries' = nentries + 1 /\ pool' = pool
    BY <1>4, <2>4 DEF resize_table_step
  <2>6. entries'[w] = InUse(k, v) /\ \A p \in 0..(table_size - 1) : p # w => entries'[p] = entries[p]
    BY <1>2, <2>3, <2>5 DEF Put, Table
  <2>7. entries' \in Table(table_size) /\ Placed(entries', table_size)
    BY <1>2, <2>2, <2>5, PutPlaced
  <2>8. /\ nentries' = Cardinality(Filled(entries', table_size, IN_USE))
        /\ nremoved = Cardinality(Filled(entries', table_size, REMOVED))
    <3>1. entries'[w].in_use = IN_USE
      BY <2>6 DEF InUse
    <3> HIDE DEF w
    <3>2. \A x : Cardinality(Filled(entries', table_size, x)) =
               Cardinality(Filled(entries, table_size, x))
               - (IF entries[w].in_use = x THEN 1 ELSE 0)
               + (IF entries'[w].in_use = x THEN 1 ELSE 0)
      <4>1. table_size \in Nat /\ w \in 0..(table_size - 1)
        BY <1>2, <2>3
      <4>2. \A p \in 0..(table_size - 1) : p # w => entries'[p] = entries[p]
        BY <2>6
      <4> QED BY <4>1, <4>2, CountMoved
    <3> QED BY <1>2, <2>3, <2>5, <3>1, <3>2, FilledFinite DEF NEVER, IN_USE, REMOVED
  <2>9. TypeOK'
    BY <1>1, <1>2, <2>5, <2>7 DEF IInv, TypeOK, Alive, Table
  <2>10. OldSlots' /\ NewSlots'
    BY <1>1, <2>7, <2>8 DEF IInv, OldSlots, NewSlots, Alive
  <2>11. Room'
    BY <1>1, <1>2, <2>1, <2>5 DEF IInv, Room
  <2>12. KeysOnce'
    <3>1. \A p \in Pending' : old_entries[p].key \in Keys /\ old_entries[p].value \in Values
      BY <2>1 DEF IInv, KeysOnce
    <3>2. \A p, q \in Pending' : old_entries[p].key = old_entries[q].key => p = q
      BY <2>1 DEF IInv, KeysOnce
    <3>3. ASSUME NEW p \in Pending', NEW j \in Keys, old_entries[p].key = j,
                 Finds(entries', table_size, j)
          PROVE  FALSE
      <4>1. ~Finds(entries, table_size, j) /\ j # k
        BY <2>1, <2>2, <3>3 DEF IInv, KeysOnce
      <4> DEFINE q == Walk(entries', table_size, j)
      <4>2. q \in 0..(table_size - 1) /\ Uses(entries', q, j)
        BY <1>2, <2>7, <3>3, FindsEntry
      <4>3. q # w
        BY <2>6, <4>1, <4>2 DEF Uses, InUse
      <4>4. Uses(entries, q, j)
        BY <2>6, <4>2, <4>3 DEF Uses
      <4> HIDE DEF q
      <4> QED BY <1>2, <4>1, <4>2, <4>4, FindsEntry
    <3> QED BY <1>1, <3>1, <3>2, <3>3 DEF KeysOnce
  <2>13. OwnedOnce'
    <3>1. Owned(entries, old_entries, old_pos, pool)
      BY <1>1, OwnedIs DEF IInv
    <3>2. entries'[w].in_use = IN_USE /\ entries'[w].value = v
      BY <2>6 DEF InUse
    <3>3. DOMAIN entries' = 0..(table_size - 1) /\ DOMAIN entries = 0..(table_size - 1)
      BY <1>2, <2>7 DEF Table
    <3>4. old_pos \in DOMAIN old_entries /\ old_pos >= old_pos
      BY <1>2 DEF Table
    <3>5. ASSUME NEW x
          PROVE  OwnerIn(entries', old_entries', old_pos', x) =
                   IF x = v THEN (OwnerIn(entries, old_entries, old_pos, x)
                                    \ {<<"old", old_pos>>}) \cup {<<"new", w>>}
                            ELSE OwnerIn(entries, old_entries, old_pos, x)
      <4> HIDE DEF w
      <4> DEFINE N(t) == {p \in 0..(table_size - 1) : t[p].in_use = IN_USE /\ t[p].value = x}
                 O(i) == {p \in {r \in DOMAIN old_entries : r >= i} :
                              old_entries[p].in_use = IN_USE /\ old_entries[p].value = x}
      <4>1. N(entries') = IF x = v THEN N(entries) \cup {w} ELSE N(entries)
        BY <2>3, <2>6, <3>2 DEF NEVER, IN_USE
      <4>2. O(old_pos + 1) = IF x = v THEN O(old_pos) \ {old_pos} ELSE O(old_pos)
        BY <1>4, <3>4, PendingStep
      <4>3. OwnerIn(entries', old_entries', old_pos', x)
              = Tagged("new", N(entries')) \cup Tagged("old", O(old_pos + 1))
        BY <1>1, <3>3 DEF OwnerIn, Tagged
      <4>4. OwnerIn(entries, old_entries, old_pos, x)
              = Tagged("new", N(entries)) \cup Tagged("old", O(old_pos))
        BY <3>3 DEF OwnerIn, Tagged
      <4> HIDE DEF N, O, v
      <4>5. ASSUME NEW A, NEW B
            PROVE  /\ Tagged("new", A \cup {w}) = Tagged("new", A) \cup {<<"new", w>>}
                   /\ Tagged("old", B \ {old_pos}) = Tagged("old", B) \ {<<"old", old_pos>>}
                   /\ Tagged("new", A) \ {<<"old", old_pos>>} = Tagged("new", A)
        BY DEF Tagged
      <4>6. Tagged("new", N(entries)) \ {<<"old", old_pos>>} = Tagged("new", N(entries))
        BY <4>5
      <4> QED BY <4>1, <4>2, <4>3, <4>4, <4>5, <4>6
    <3>6. OwnerIn(entries, old_entries, old_pos, v) = {<<"old", old_pos>>} /\ v \notin pool
      <4>1. <<"old", old_pos>> \in OwnerIn(entries, old_entries, old_pos, v)
        BY <1>4, <3>4 DEF OwnerIn
      <4> QED BY <2>2, <3>1, <4>1 DEF Owned
    <3>7. Owned(entries', old_entries', old_pos', pool')
      <4> HIDE DEF v, w
      <4>1. OwnerIn(entries', old_entries', old_pos', v) = {<<"new", w>>}
        BY <3>5, <3>6
      <4> QED BY <2>5, <3>1, <3>5, <3>6, <4>1 DEF Owned
    <3> QED BY <3>7, OwnedIs
  <2> QED BY <2>9, <2>10, <2>11, <2>12, <2>13 DEF IInv
<1> QED BY <1>3, <1>4

\* The end of resize_table() does: with no entry left the room kept for
\* them is the room the comment of hash.c:256 promises.
LEMMA DoneKeeps ==
    ASSUME IInv, resize_table_done
    PROVE  IInv'
<1>1. /\ pc = "resizing" /\ old_pos = old_size /\ pc' = "ready"
      /\ old_entries' = NoEntries /\ old_size' = 0 /\ old_pos' = 0
      /\ UNCHANGED <<entries, table_size, nentries, nremoved, pool>>
  BY DEF resize_table_done
<1>2. /\ table_size \in Nat \ {0} /\ nentries \in Nat
      /\ entries \in Table(table_size)
      /\ old_entries \in Table(old_size) /\ old_size \in Nat
  BY <1>1 DEF IInv, NewSlots, OldSlots, TypeOK, Alive
<1>3. PendingSlots = {}
  BY <1>1, <1>2 DEF PendingSlots, Table
<1>4. Cardinality(Pending) = 0
  BY <1>3, FS_EmptySet DEF Pending
<1>5. TypeOK'
  BY <1>1, <1>2 DEF IInv, TypeOK, Alive, Table, NoEntries
<1>6. OldSlots' /\ NewSlots'
  BY <1>1 DEF IInv, OldSlots, NewSlots, Alive
<1>7. Room'
  BY <1>1, <1>2, <1>4 DEF IInv, Room
<1>8. KeysOnce'
  BY <1>1 DEF KeysOnce, Pending, PendingSlots, NoEntries
<1>9. OwnedOnce'
  <2>1. Owned(entries, old_entries, old_pos, pool)
    BY <1>1, OwnedIs DEF IInv
  <2>2. ASSUME NEW v PROVE OwnerIn(entries', old_entries', old_pos', v)
                             = OwnerIn(entries, old_entries, old_pos, v)
    BY <1>1, <1>3 DEF OwnerIn, PendingSlots, NoEntries
  <2>3. Owned(entries', old_entries', old_pos', pool')
    BY <1>1, <2>1, <2>2 DEF Owned
  <2> QED BY <2>3, OwnedIs
<1> QED BY <1>5, <1>6, <1>7, <1>8, <1>9 DEF IInv

\* hash_free() does, hash.c:125: every value is given back.
LEMMA FreeKeeps ==
    ASSUME IInv, hash_free
    PROVE  IInv'
<1>1. /\ pc = "ready" /\ pc' = "freed" /\ entries' = NoEntries
      /\ UNCHANGED <<table_size, nentries, nremoved, old_entries, old_size, old_pos>>
      /\ pool' = pool \cup {entries[p].value :
                              p \in {q \in DOMAIN entries : entries[q].in_use = IN_USE}}
  BY DEF hash_free, resizeVars
<1>2. old_entries = NoEntries /\ old_size = 0 /\ old_pos = 0
  BY <1>1 DEF IInv, OldSlots
<1>3. Sound(entries, table_size, nentries, nremoved, pool) /\ table_size \in Nat \ {0}
  BY <1>1, ReadySound
<1>4. pool' \subseteq Values
  BY <1>1, <1>3 DEF Sound, Placed, Table
<1>5. TypeOK'
  BY <1>1, <1>2, <1>4 DEF IInv, TypeOK, Alive, NoEntries
<1>6. OldSlots' /\ NewSlots' /\ Room'
  BY <1>1, <1>2 DEF OldSlots, NewSlots, Room, Alive
<1>7. KeysOnce'
  BY <1>1, <1>2 DEF KeysOnce, Pending, PendingSlots, NoEntries
<1>8. OwnedOnce'
  <2>1. ASSUME NEW v \in Values PROVE v \in pool'
    <3>1. CASE v \in pool
      BY <1>1, <3>1
    <3>2. CASE v \notin pool
      <4>1. PICK p : Holders(entries, table_size, v) = {p}
        BY <1>3, <3>2 DEF Sound
      <4>2. p \in Holders(entries, table_size, v)
        BY <4>1
      <4> QED BY <1>1, <1>3, <4>2 DEF Holders, Sound, Table
    <3> QED BY <3>1, <3>2
  <2>2. \A v : OwnerIn(entries', old_entries', old_pos', v) = {}
    BY <1>1, <1>2 DEF OwnerIn, NoEntries
  <2>3. Owned(entries', old_entries', old_pos', pool')
    BY <2>1, <2>2 DEF Owned
  <2> QED BY <2>3, OwnedIs
<1> QED BY <1>5, <1>6, <1>7, <1>8 DEF IInv
------------------------------------------------------------------------------
\* The empty table satisfies the invariant.
LEMMA IInvInit == Init => IInv
<1> SUFFICES ASSUME Init PROVE IInv
  OBVIOUS
<1>1. /\ entries = Empty(MIN_SIZE) /\ table_size = MIN_SIZE
      /\ nentries = 0 /\ nremoved = 0
      /\ old_entries = NoEntries /\ old_size = 0 /\ old_pos = 0
      /\ pc = "ready" /\ pool = Values
  BY DEF Init, hash_create
<1>2. table_size \in Nat \ {0} /\ entries \in Table(table_size)
  BY <1>1, MinSizeAssumption, EmptyTable
<1>3. TypeOK
  BY <1>1, <1>2 DEF TypeOK, Alive, Table, NoEntries
<1>4. OldSlots /\ NewSlots
  BY <1>1, <1>2, EmptyTable DEF OldSlots, NewSlots, Alive
<1>5. Room
  BY <1>1, <1>2 DEF Room
<1>6. KeysOnce
  BY <1>1 DEF KeysOnce, Pending, PendingSlots, NoEntries
<1>7. OwnedOnce
  <2>1. \A p \in 0..(table_size - 1) : entries[p].in_use = NEVER
    BY <1>1, <1>2, EmptyTable
  <2>2. \A v : OwnerIn(entries, old_entries, old_pos, v) = {}
    BY <1>1, <1>2, <2>1 DEF OwnerIn, Table, NoEntries, NEVER, IN_USE
  <2>3. Owned(entries, old_entries, old_pos, pool)
    BY <1>1, <2>2 DEF Owned
  <2> QED BY <2>3, OwnedIs
<1> QED BY <1>3, <1>4, <1>5, <1>6, <1>7 DEF IInv

\* Every step keeps it.
LEMMA IInvNext == IInv /\ [Next]_vars => IInv'
<1> SUFFICES ASSUME IInv, [Next]_vars PROVE IInv'
  OBVIOUS
<1>1. CASE UNCHANGED vars
  BY <1>1 DEF vars, IInv, TypeOK, OldSlots, NewSlots, Room, KeysOnce, OwnedOnce,
              Alive, Pending, PendingSlots, Owner, TableSlots
<1>2. CASE Next
  BY <1>2, GetKeeps, SetKeeps, DelKeeps, ReinsertKeeps, DoneKeeps, FreeKeeps DEF Next
<1> QED BY <1>1, <1>2

\* The inductive invariant holds in every reachable state of the hash table.
THEOREM Invariance == Spec => []IInv
BY IInvInit, IInvNext, PTL DEF Spec

\* The counters stay natural numbers and the table keeps its shape, whatever
\* the calls of hash.c, in whatever order.
THEOREM TypeCorrect == Spec => []TypeOK
<1>1. IInv => TypeOK
  BY DEF IInv
<1> QED BY <1>1, Invariance, PTL

\* hash.c:256 "always resizes to <number of entries> * 2, which preserves the
\* "at least 30% usable" property both when growing and shrinking", for every
\* minimum size and every hash function; and the walk of hash.c:182 always ends
\* at a slot, so that the case of hash.c:206 never happens.
THEOREM UsableSlotsCorrect == Spec => []UsableSlots
<1>1. ASSUME IInv PROVE UsableSlots
  <2>1. ASSUME pc = "ready"
        PROVE  /\ 10 * Cardinality(SlotsThatAre(NEVER)) >= 3 * table_size
               /\ nentries = Cardinality(SlotsThatAre(IN_USE))
               /\ nremoved = Cardinality(SlotsThatAre(REMOVED))
    <3>1. entries \in Table(table_size) /\ table_size \in Nat
      BY <1>1, <2>1 DEF IInv, NewSlots, TypeOK, Alive
    <3>2. \A u : SlotsThatAre(u) = Filled(entries, table_size, u)
      BY <3>1 DEF SlotsThatAre, TableSlots, Filled, Table
    <3>3. /\ nentries = Cardinality(Filled(entries, table_size, IN_USE))
          /\ nremoved = Cardinality(Filled(entries, table_size, REMOVED))
          /\ nentries \in Nat /\ nremoved \in Nat
          /\ 10 * (table_size - nentries - nremoved) >= 3 * table_size
      BY <1>1, <2>1 DEF IInv, NewSlots, Room, TypeOK, Alive
    <3> QED BY <3>1, <3>2, <3>3, SlotsAddUp
  <2>2. ASSUME Alive, NEW k \in Keys PROVE Walk(entries, table_size, k) # -1
    <3>1. CASE pc = "ready"
      BY <1>1, <3>1, ReadySound
    <3>2. CASE pc = "resizing"
      <4>1. IsFiniteSet(0..(old_size - 1))
        BY <1>1, FS_Interval DEF IInv, TypeOK
      <4>2. Pending \in SUBSET (0..(old_size - 1))
        BY <1>1 DEF IInv, TypeOK, Pending, PendingSlots
      <4>3. Cardinality(Pending) \in Nat
        BY <4>1, <4>2, FS_Subset, FS_CardinalityType
      <4> QED BY <1>1, <3>2, <4>3, ResizingWalks
    <3> QED BY <2>2, <3>1, <3>2 DEF Alive
  <2> QED BY <2>1, <2>2 DEF UsableSlots
<1> QED BY <1>1, Invariance, PTL

\* Every value that was handed to hash_set() and not yet destroyed is in one
\* slot, and a value in a slot is not destroyed: no double free and no leak in
\* hash.c, as long as resize_table() finds memory.
THEOREM OwnershipCorrect == Spec => []Ownership
<1>1. ASSUME IInv PROVE Ownership
  <2> SUFFICES ASSUME pc # "lost", NEW v \in Values
               PROVE  Cardinality(Owner(v)) = IF v \in pool THEN 0 ELSE 1
    BY DEF Ownership
  <2>1. IF v \in pool THEN Owner(v) = {} ELSE \E x : Owner(v) = {x}
    BY <1>1 DEF IInv, OwnedOnce
  <2> QED BY <2>1, FS_EmptySet, FS_Singleton
<1> QED BY <1>1, Invariance, PTL
------------------------------------------------------------------------------
\* Contents, of slots t and old slots o from pos on.
ContentIn(t, o, pos) ==
    [k \in Keys |->
        IF \E p \in DOMAIN t : Uses(t, p, k)
        THEN t[CHOOSE p \in DOMAIN t : Uses(t, p, k)].value
        ELSE IF \E p \in {r \in DOMAIN o : r >= pos} : Uses(o, p, k)
        THEN o[CHOOSE p \in {r \in DOMAIN o : r >= pos} : Uses(o, p, k)].value
        ELSE NULL]

\* The two say the same, before a step and after it.
LEMMA ContentsIs ==
    /\ Contents = ContentIn(entries, old_entries, old_pos)
    /\ Contents' = ContentIn(entries', old_entries', old_pos')
BY DEF Contents, ContentIn, TableSlots, PendingSlots

\* What hash_get() returns for every key.
Bindings(t, n) == [k \in Keys |-> Lookup(t, n, k)]

\* Outside resize_table() the contents are what hash_get() returns.
LEMMA ContentNew ==
    ASSUME NEW n \in Nat \ {0}, NEW t \in Table(n), Placed(t, n), NEW pos
    PROVE  ContentIn(t, NoEntries, pos) = Bindings(t, n)
<1>1. DOMAIN t = 0..(n - 1) /\ {r \in DOMAIN NoEntries : r >= pos} = {}
  BY DEF Table, NoEntries
<1>2. ASSUME NEW k \in Keys
      PROVE  ContentIn(t, NoEntries, pos)[k] = Lookup(t, n, k)
  <2>1. CASE \E p \in 0..(n - 1) : Uses(t, p, k)
    <3> DEFINE q == CHOOSE p \in 0..(n - 1) : Uses(t, p, k)
    <3>1. q \in 0..(n - 1) /\ Uses(t, q, k)
      BY <2>1
    <3>2. ContentIn(t, NoEntries, pos)[k] = t[q].value
      BY <1>1, <2>1 DEF ContentIn
    <3> HIDE DEF q
    <3>3. Walk(t, n, k) = q /\ Finds(t, n, k)
      BY <3>1, FindsEntry
    <3> QED BY <3>2, <3>3 DEF Lookup
  <2>2. CASE ~\E p \in 0..(n - 1) : Uses(t, p, k)
    <3>1. ContentIn(t, NoEntries, pos)[k] = NULL
      BY <1>1, <2>2 DEF ContentIn
    <3>2. ~Finds(t, n, k)
      BY <2>2, FindsEntry
    <3> QED BY <3>1, <3>2 DEF Lookup
  <2> QED BY <2>1, <2>2
<1> QED BY <1>2 DEF ContentIn, Bindings

\* At the beginning of resize_table() they are what it returned before.
LEMMA ContentOld ==
    ASSUME NEW n \in Nat \ {0}, NEW o \in Table(n), Placed(o, n), NEW m \in Nat \ {0}
    PROVE  ContentIn(Empty(m), o, 0) = Bindings(o, n)
<1>1. {r \in DOMAIN o : r >= 0} = 0..(n - 1)
  BY DEF Table
<1>2. \A p \in DOMAIN Empty(m), k \in Keys : ~Uses(Empty(m), p, k)
  BY EmptyTable DEF Table, Uses, NEVER, IN_USE
<1>3. ASSUME NEW k \in Keys
      PROVE  ContentIn(Empty(m), o, 0)[k] = Lookup(o, n, k)
  <2>1. CASE \E p \in 0..(n - 1) : Uses(o, p, k)
    <3> DEFINE q == CHOOSE p \in 0..(n - 1) : Uses(o, p, k)
    <3>1. q \in 0..(n - 1) /\ Uses(o, q, k)
      BY <2>1
    <3>2. ContentIn(Empty(m), o, 0)[k] = o[q].value
      BY <1>1, <1>2, <2>1 DEF ContentIn
    <3> HIDE DEF q
    <3>3. Walk(o, n, k) = q /\ Finds(o, n, k)
      BY <3>1, FindsEntry
    <3> QED BY <3>2, <3>3 DEF Lookup
  <2>2. CASE ~\E p \in 0..(n - 1) : Uses(o, p, k)
    <3>1. ContentIn(Empty(m), o, 0)[k] = NULL
      BY <1>1, <1>2, <2>2 DEF ContentIn
    <3>2. ~Finds(o, n, k)
      BY <2>2, FindsEntry
    <3> QED BY <3>1, <3>2 DEF Lookup
  <2> QED BY <2>1, <2>2
<1> QED BY <1>3 DEF ContentIn, Bindings

\* _hash_set() changes what is returned for its key, and for no other one.
LEMMA PutBindings ==
    ASSUME NEW n \in Nat \ {0}, NEW t \in Table(n), Placed(t, n),
           NEW k \in Keys, NEW v \in Values, Walk(t, n, k) # -1
    PROVE  Bindings(Put(t, n, k, v), n) = [Bindings(t, n) EXCEPT ![k] = v]
<1> DEFINE u == Put(t, n, k, v)
           w == Walk(t, n, k)
<1>1. w \in 0..(n - 1) /\ StopsAt(t, w, k)
  BY WalkStops
<1>2. u[w] = InUse(k, v) /\ \A p \in 0..(n - 1) : p # w => u[p] = t[p]
  BY <1>1 DEF Put, Table
<1>3. Placed(u, n)
  BY PutPlaced
<1>4. Uses(u, w, k) /\ u[w].value = v
  BY <1>2 DEF Uses, InUse
<1> HIDE DEF u, w
<1>5. Lookup(u, n, k) = v
  BY <1>1, <1>3, <1>4, FindsEntry DEF Lookup
<1>6. ASSUME NEW j \in Keys, j # k PROVE Lookup(u, n, j) = Lookup(t, n, j)
  <2>1. ~Uses(u, w, j) /\ ~Uses(t, w, j)
    BY <1>1, <1>4, <1>6 DEF Uses, StopsAt, NEVER, IN_USE
  <2>2. \A p \in 0..(n - 1) : Uses(u, p, j) <=> Uses(t, p, j)
    BY <1>2, <2>1 DEF Uses
  <2>3. CASE \E p \in 0..(n - 1) : Uses(t, p, j)
    <3>1. PICK p \in 0..(n - 1) : Uses(t, p, j)
      BY <2>3
    <3>2. Lookup(t, n, j) = t[p].value /\ Lookup(u, n, j) = u[p].value
      BY <1>3, <2>2, <3>1, FindsEntry DEF Lookup
    <3> QED BY <1>2, <2>1, <3>1, <3>2
  <2>4. CASE ~\E p \in 0..(n - 1) : Uses(t, p, j)
    BY <1>3, <2>2, <2>4, FindsEntry DEF Lookup
  <2> QED BY <2>3, <2>4
<1> QED BY <1>5, <1>6 DEF Bindings, u

\* hash_del() makes its key unknown, and no other one.
LEMMA RemoveBindings ==
    ASSUME NEW n \in Nat \ {0}, NEW t \in Table(n), Placed(t, n),
           NEW k \in Keys, Finds(t, n, k)
    PROVE  Bindings([t EXCEPT ![Walk(t, n, k)] = Removed], n)
             = [Bindings(t, n) EXCEPT ![k] = NULL]
<1> DEFINE w == Walk(t, n, k)
           u == [t EXCEPT ![w] = Removed]
<1>1. w \in 0..(n - 1) /\ Uses(t, w, k)
  BY FindsEntry
<1>2. u[w] = Removed /\ \A p \in 0..(n - 1) : p # w => u[p] = t[p]
  BY <1>1 DEF Table
<1>3. Placed(u, n)
  BY <1>1, RemovePlaced
<1> HIDE DEF u, w
<1>4. \A j \in Keys : ~Uses(u, w, j)
  BY <1>2 DEF Uses, Removed, IN_USE, REMOVED
<1>5. Lookup(u, n, k) = NULL
  <2>1. ASSUME NEW p \in 0..(n - 1), Uses(u, p, k) PROVE FALSE
    <3>1. p # w
      BY <1>4, <2>1
    <3>2. Uses(t, p, k)
      BY <1>2, <2>1, <3>1 DEF Uses
    <3> QED BY <3>1, <3>2, FindsEntry DEF w
  <2> QED BY <1>3, <2>1, FindsEntry DEF Lookup
<1>6. ASSUME NEW j \in Keys, j # k PROVE Lookup(u, n, j) = Lookup(t, n, j)
  <2>1. ~Uses(u, w, j) /\ ~Uses(t, w, j)
    BY <1>1, <1>4, <1>6 DEF Uses
  <2>2. \A p \in 0..(n - 1) : Uses(u, p, j) <=> Uses(t, p, j)
    BY <1>2, <2>1 DEF Uses
  <2>3. CASE \E p \in 0..(n - 1) : Uses(t, p, j)
    <3>1. PICK p \in 0..(n - 1) : Uses(t, p, j)
      BY <2>3
    <3>2. Lookup(t, n, j) = t[p].value /\ Lookup(u, n, j) = u[p].value
      BY <1>3, <2>2, <3>1, FindsEntry DEF Lookup
    <3> QED BY <1>2, <2>1, <3>1, <3>2
  <2>4. CASE ~\E p \in 0..(n - 1) : Uses(t, p, j)
    BY <1>3, <2>2, <2>4, FindsEntry DEF Lookup
  <2> QED BY <2>3, <2>4
<1> QED BY <1>5, <1>6 DEF Bindings, u, w
------------------------------------------------------------------------------
\* Between two calls the contents are what hash_get() returns.
LEMMA ReadyContents ==
    ASSUME IInv, pc = "ready"
    PROVE  /\ Contents = Bindings(entries, table_size)
           /\ table_size \in Nat \ {0}
           /\ entries \in Table(table_size)
           /\ Placed(entries, table_size)
<1>1. /\ table_size \in Nat \ {0} /\ entries \in Table(table_size)
      /\ Placed(entries, table_size) /\ old_entries = NoEntries
  BY DEF IInv, TypeOK, NewSlots, OldSlots, Alive
<1> QED BY <1>1, ContentsIs, ContentNew

\* hash_get() returns the latest binding of every key, hash.c:142, whatever
\* removals and resizes came before: it stops short of no entry and finds no
\* stale one.
THEOREM LookupCorrect == Spec => []LookupFindsContents
<1>1. ASSUME IInv PROVE LookupFindsContents
  BY <1>1, ReadyContents DEF LookupFindsContents, Bindings
<1> QED BY <1>1, Invariance, PTL

\* What the tail of a call does to the contents.
LEMMA AutoResizeContents ==
    ASSUME IInv, pc = "ready",
           NEW t, NEW ne, NEW nr, NEW o, NEW k, NEW r,
           t \in Table(table_size), Placed(t, table_size), ne \in Nat,
           AutoResize(t, ne, nr, o, k, r)
    PROVE  \/ /\ Alive'
              /\ Contents' = Bindings(t, table_size)
              /\ last' = [op |-> o, key |-> k, ret |-> r]
           \/ /\ ~Alive'
              /\ Contents' = [j \in Keys |-> NULL]
              /\ last' = [op |-> o, key |-> k, ret |-> FALSE]
<1>1. table_size \in Nat \ {0} /\ old_entries = NoEntries
  BY DEF IInv, TypeOK, OldSlots
<1>2. CASE /\ entries' = t
           /\ last' = [op |-> o, key |-> k, ret |-> r]
           /\ UNCHANGED <<table_size, resizeVars, pc>>
  BY <1>1, <1>2, ContentsIs, ContentNew DEF Alive, resizeVars
<1>3. CASE /\ old_entries' = t /\ old_pos' = 0
           /\ entries' = Empty(NewSize(ne))
           /\ pc' = "resizing"
           /\ last' = [op |-> o, key |-> k, ret |-> r]
  <2>1. NewSize(ne) \in Nat \ {0}
    BY MinSizeAssumption DEF NewSize
  <2> QED BY <1>1, <1>3, <2>1, ContentsIs, ContentOld DEF Alive
<1>4. CASE /\ entries' = NoEntries
           /\ pc' = "lost"
           /\ last' = [op |-> o, key |-> k, ret |-> FALSE]
           /\ UNCHANGED <<table_size, resizeVars>>
  <2>1. old_entries' = NoEntries
    BY <1>1, <1>4 DEF resizeVars
  <2>2. ContentIn(NoEntries, NoEntries, old_pos') = [j \in Keys |-> NULL]
    BY DEF ContentIn, NoEntries
  <2> QED BY <1>4, <2>1, <2>2, ContentsIs DEF Alive
<1> QED BY <1>2, <1>3, <1>4 DEF AutoResize
------------------------------------------------------------------------------
\* What Contents says of a key, by where the key is.
LEMMA ContentCases ==
    ASSUME NEW n \in Nat \ {0}, NEW t \in Table(n), Placed(t, n),
           NEW o, NEW pos, NEW k \in Keys,
           \A p, q \in {r \in DOMAIN o : r >= pos} :
              Uses(o, p, k) /\ Uses(o, q, k) => p = q
    PROVE  /\ \A p \in 0..(n - 1) : Uses(t, p, k) => ContentIn(t, o, pos)[k] = t[p].value
           /\ ~Finds(t, n, k) =>
                 /\ \A p \in {r \in DOMAIN o : r >= pos} :
                       Uses(o, p, k) => ContentIn(t, o, pos)[k] = o[p].value
                 /\ (\A p \in {r \in DOMAIN o : r >= pos} : ~Uses(o, p, k))
                       => ContentIn(t, o, pos)[k] = NULL
<1> DEFINE A == {r \in DOMAIN o : r >= pos}
<1>1. DOMAIN t = 0..(n - 1)
  BY DEF Table
<1>2. ASSUME NEW p \in 0..(n - 1), Uses(t, p, k)
      PROVE  ContentIn(t, o, pos)[k] = t[p].value
  <2> DEFINE q == CHOOSE r \in 0..(n - 1) : Uses(t, r, k)
  <2>1. q \in 0..(n - 1) /\ Uses(t, q, k)
    BY <1>2
  <2>2. ContentIn(t, o, pos)[k] = t[q].value
    BY <1>1, <1>2 DEF ContentIn
  <2> HIDE DEF q
  <2>3. Walk(t, n, k) = q /\ Walk(t, n, k) = p
    BY <1>2, <2>1, FindsEntry
  <2> QED BY <2>2, <2>3
<1>3. ASSUME ~Finds(t, n, k), NEW p \in A, Uses(o, p, k)
      PROVE  ContentIn(t, o, pos)[k] = o[p].value
  <2> DEFINE q == CHOOSE r \in A : Uses(o, r, k)
  <2>1. q \in A /\ Uses(o, q, k)
    BY <1>3
  <2>2. \A r \in 0..(n - 1) : ~Uses(t, r, k)
    BY <1>3, FindsEntry
  <2>3. ContentIn(t, o, pos)[k] = o[q].value
    BY <1>1, <1>3, <2>2 DEF ContentIn
  <2> HIDE DEF q
  <2> QED BY <1>3, <2>1, <2>3
<1>4. ASSUME ~Finds(t, n, k), \A p \in A : ~Uses(o, p, k)
      PROVE  ContentIn(t, o, pos)[k] = NULL
  <2>1. \A r \in 0..(n - 1) : ~Uses(t, r, k)
    BY <1>4, FindsEntry
  <2> QED BY <1>1, <1>4, <2>1 DEF ContentIn
<1> QED BY <1>2, <1>3, <1>4

\* A round of resize_table() changes no binding.
LEMMA ReinsertContents ==
    ASSUME IInv, resize_table_step
    PROVE  Contents' = Contents
<1> DEFINE e == old_entries[old_pos]
           n == table_size
           P == {r \in DOMAIN old_entries : r >= old_pos}
           Q == {r \in DOMAIN old_entries : r >= old_pos + 1}
           C == ContentIn(entries, old_entries, old_pos)
           D == ContentIn(entries', old_entries, old_pos + 1)
<1>0. IInv'
  BY ReinsertKeeps
<1>1. /\ pc = "resizing" /\ old_pos' = old_pos + 1
      /\ UNCHANGED <<table_size, old_entries, old_size, pc>>
  BY DEF resize_table_step
<1>2. /\ n \in Nat \ {0}
      /\ entries \in Table(n) /\ Placed(entries, n)
      /\ entries' \in Table(n) /\ Placed(entries', n)
  BY <1>0, <1>1 DEF IInv, NewSlots, TypeOK, Alive
<1>3. Q = P \ {old_pos} /\ old_pos \in P
  <2>1. old_pos \in DOMAIN old_entries /\ old_pos >= old_pos
    BY <1>1, PendingStep DEF IInv, OldSlots, Table
  <2> QED BY <2>1, PendingStep
<1>4. \A p, q \in P, k \in Keys :
         Uses(old_entries, p, k) /\ Uses(old_entries, q, k) => p = q
  BY DEF IInv, KeysOnce, Pending, PendingSlots, Uses
<1>5. \A p \in P, k \in Keys : Uses(old_entries, p, k) => ~Finds(entries, n, k)
  BY DEF IInv, KeysOnce, Pending, PendingSlots, Uses
<1>6. \A p \in Q, k \in Keys : Uses(old_entries, p, k) => ~Finds(entries', n, k)
  <2>1. Q = PendingSlots'
    BY <1>1 DEF PendingSlots
  <2> HIDE DEF Q
  <2> QED BY <1>0, <1>1, <2>1 DEF IInv, KeysOnce, Pending, Uses
<1>7. ASSUME NEW k \in Keys
      PROVE  /\ \A p \in 0..(n - 1) : Uses(entries, p, k) => C[k] = entries[p].value
             /\ \A p \in 0..(n - 1) : Uses(entries', p, k) => D[k] = entries'[p].value
             /\ ~Finds(entries, n, k) =>
                   /\ \A p \in P : Uses(old_entries, p, k) => C[k] = old_entries[p].value
                   /\ (\A p \in P : ~Uses(old_entries, p, k)) => C[k] = NULL
             /\ ~Finds(entries', n, k) =>
                   /\ \A p \in Q : Uses(old_entries, p, k) => D[k] = old_entries[p].value
                   /\ (\A p \in Q : ~Uses(old_entries, p, k)) => D[k] = NULL
  <2>1. \A p, q \in Q : Uses(old_entries, p, k) /\ Uses(old_entries, q, k) => p = q
    BY <1>3, <1>4
  <2> HIDE DEF n
  <2>2. /\ \A p \in 0..(n - 1) : Uses(entries, p, k) => C[k] = entries[p].value
        /\ ~Finds(entries, n, k) =>
              /\ \A p \in P : Uses(old_entries, p, k) => C[k] = old_entries[p].value
              /\ (\A p \in P : ~Uses(old_entries, p, k)) => C[k] = NULL
    BY <1>2, <1>4, ContentCases
  <2>3. /\ \A p \in 0..(n - 1) : Uses(entries', p, k) => D[k] = entries'[p].value
        /\ ~Finds(entries', n, k) =>
              /\ \A p \in Q : Uses(old_entries, p, k) => D[k] = old_entries[p].value
              /\ (\A p \in Q : ~Uses(old_entries, p, k)) => D[k] = NULL
    <3> DEFINE u == entries'
               i == old_pos + 1
    <3>1. u \in Table(n) /\ Placed(u, n)
      BY <1>2
    <3> HIDE DEF u, i
    <3>2. ASSUME NEW o, \A p, q \in {r \in DOMAIN o : r >= i} :
                           Uses(o, p, k) /\ Uses(o, q, k) => p = q
          PROVE  /\ \A p \in 0..(n - 1) : Uses(u, p, k) => ContentIn(u, o, i)[k] = u[p].value
                 /\ ~Finds(u, n, k) =>
                     /\ \A p \in {r \in DOMAIN o : r >= i} :
                          Uses(o, p, k) => ContentIn(u, o, i)[k] = o[p].value
                     /\ (\A p \in {r \in DOMAIN o : r >= i} : ~Uses(o, p, k))
                          => ContentIn(u, o, i)[k] = NULL
      BY <1>2, <3>1, <3>2, ContentCases
    <3> QED BY <2>1, <3>2 DEF u, i
  <2> QED BY <2>2, <2>3
<1>8. ASSUME NEW k \in Keys PROVE D[k] = C[k]
  <2> HIDE DEF C, D, P, Q
  <2>1. CASE e.in_use # IN_USE
    <3>1. entries' = entries
      BY <2>1 DEF resize_table_step
    <3>2. ~Uses(old_entries, old_pos, k)
      BY <2>1 DEF Uses
    <3>3. CASE Finds(entries, n, k)
      BY <1>2, <1>7, <3>1, <3>3, FindsEntry
    <3>4. CASE ~Finds(entries, n, k)
      BY <1>3, <1>7, <3>1, <3>2, <3>4
    <3> QED BY <3>3, <3>4
  <2>2. CASE e.in_use = IN_USE
    <3> DEFINE w == Walk(entries, n, e.key)
    <3>1. Uses(old_entries, old_pos, e.key) /\ e.key \in Keys
      BY <2>2, PendingStep DEF Uses, IInv, KeysOnce
    <3>2. w \in 0..(n - 1) /\ w # -1 /\ entries[w].in_use = NEVER
      <4>1. w # -1
        BY <1>1, <2>2, <3>1, PendingStep, ResizingWalks
      <4>2. w \in 0..(n - 1) /\ StopsAt(entries, w, e.key)
        BY <1>2, <3>1, <4>1, WalkStops
      <4>3. ~Finds(entries, n, e.key)
        BY <1>3, <1>5, <3>1
      <4> QED BY <4>1, <4>2, <4>3 DEF StopsAt, Finds
    <3>3. entries' = Put(entries, n, e.key, e.value)
      BY <2>2 DEF resize_table_step
    <3>4. entries'[w] = InUse(e.key, e.value)
          /\ \A p \in 0..(n - 1) : p # w => entries'[p] = entries[p]
      BY <1>2, <3>2, <3>3 DEF Put, Table
    <3>5. CASE k = e.key
      <4>1. Uses(entries', w, k) /\ entries'[w].value = e.value
        BY <3>4, <3>5 DEF Uses, InUse
      <4>2. C[k] = e.value
        BY <1>3, <1>5, <1>7, <3>1, <3>5
      <4>3. D[k] = e.value
        BY <1>7, <3>2, <4>1
      <4> QED BY <4>2, <4>3
    <3>6. CASE k # e.key
      <4>1. ~Uses(entries', w, k) /\ ~Uses(entries, w, k) /\ ~Uses(old_entries, old_pos, k)
        BY <3>2, <3>4, <3>6 DEF Uses, InUse, IN_USE, NEVER
      <4> HIDE DEF w
      <4>2. \A p \in 0..(n - 1) : Uses(entries', p, k) <=> Uses(entries, p, k)
        BY <3>4, <4>1 DEF Uses
      <4>3. CASE Finds(entries, n, k)
        <5>1. PICK p \in 0..(n - 1) : Uses(entries, p, k)
          BY <1>2, <4>3, FindsEntry
        <5>2. C[k] = entries[p].value /\ D[k] = entries'[p].value
          BY <1>7, <4>2, <5>1
        <5> QED BY <3>4, <4>1, <5>1, <5>2
      <4>4. CASE ~Finds(entries, n, k)
        <5>1. ~Finds(entries', n, k)
          <6>1. \A p \in 0..(n - 1) : ~Uses(entries', p, k)
            BY <1>2, <4>2, <4>4, FindsEntry
          <6> QED BY <1>2, <6>1, FindsEntry
        <5>2. \A p \in P : Uses(old_entries, p, k) => p \in Q
          BY <1>3, <4>1
        <5> QED BY <1>3, <1>7, <4>4, <5>1, <5>2
      <4> QED BY <4>3, <4>4
    <3> QED BY <3>5, <3>6
  <2> QED BY <2>1, <2>2
<1>9. D = C
  BY <1>8 DEF ContentIn
<1> QED BY <1>1, <1>9, ContentsIs
------------------------------------------------------------------------------
\* No binding is NULL by accident, and none is a value the caller may pass.
LEMMA BindingOwned ==
    ASSUME IInv, pc = "ready", NEW j \in Keys
    PROVE  /\ Finds(entries, table_size, j) => /\ Contents[j] \in Values \ pool
                                               /\ Contents[j] # NULL
           /\ ~Finds(entries, table_size, j) => Contents[j] = NULL
<1> DEFINE n == table_size
           w == Walk(entries, n, j)
<1>1. Contents[j] = Lookup(entries, n, j)
  BY ReadyContents DEF Bindings
<1>2. CASE Finds(entries, n, j)
  <2>1. w \in 0..(n - 1) /\ Uses(entries, w, j)
    BY <1>2, ReadyContents, FindsEntry
  <2>2. Contents[j] = entries[w].value /\ entries[w].value \in Values
    BY <1>1, <1>2, <2>1, ReadyContents DEF Lookup, Placed, Uses
  <2>3. w \in Holders(entries, n, entries[w].value)
    BY <2>1 DEF Holders, Uses
  <2>4. entries[w].value \notin pool
    BY <2>2, <2>3, ReadySound DEF Sound
  <2> QED BY <1>2, <2>2, <2>4, LinearProbingAssumption
<1>3. CASE ~Finds(entries, n, j)
  BY <1>1, <1>3 DEF Lookup
<1> QED BY <1>2, <1>3

\* A call that reports that the table is gone.
LEMMA LosesMap ==
    ASSUME NEW j \in Keys, NEW o \in {"set", "del"},
           Alive, ~Alive', Contents' = [i \in Keys |-> NULL],
           last' = [op |-> o, key |-> j, ret |-> FALSE]
    PROVE  Map!Lose
<1>1. Alive' = FALSE
  BY DEF Alive
<1>2. \E i \in Keys, x \in {"set", "del"} :
         last' = [op |-> x, key |-> i, ret |-> FALSE]
  OBVIOUS
<1> QED BY <1>1, <1>2, Zenon DEF Map!Lose

\* hash_set() binds its key and no other.
LEMMA SetImplements ==
    ASSUME IInv, NEW k \in Keys, NEW v \in Values, hash_set(k, v)
    PROVE  Map!Set(k, v) \/ Map!Lose
<1> DEFINE t == Put(entries, table_size, k, v)
           ne == IF TakesFresh(entries, table_size, k) THEN nentries + 1 ELSE nentries
<1>1. pc = "ready" /\ v \in pool /\ Alive
  BY DEF hash_set, Alive
<1>2. /\ table_size \in Nat \ {0} /\ entries \in Table(table_size)
      /\ Placed(entries, table_size) /\ Contents = Bindings(entries, table_size)
  BY <1>1, ReadyContents
<1>3. Walk(entries, table_size, k) # -1
  BY <1>1, ReadySound
<1>4. AutoResize(t, ne, nremoved, "set", k, TRUE)
  BY <1>3 DEF hash_set
<1>5. t \in Table(table_size) /\ Placed(t, table_size) /\ ne \in Nat
  <2>1. nentries \in Nat
    BY DEF IInv, TypeOK
  <2> QED BY <1>2, <2>1, PutPlaced
<1>6. Bindings(t, table_size) = [Contents EXCEPT ![k] = v]
  BY <1>2, <1>3, PutBindings
<1>7. \A j \in Keys : Contents[j] # v
  BY <1>1, BindingOwned, LinearProbingAssumption
<1> HIDE DEF t, ne
<1>8. \/ /\ Alive'
         /\ Contents' = [Contents EXCEPT ![k] = v]
         /\ last' = [op |-> "set", key |-> k, ret |-> TRUE]
      \/ /\ ~Alive'
         /\ Contents' = [j \in Keys |-> NULL]
         /\ last' = [op |-> "set", key |-> k, ret |-> FALSE]
  BY <1>1, <1>4, <1>5, <1>6, AutoResizeContents
<1>9. CASE ~Alive' /\ Contents' = [j \in Keys |-> NULL]
             /\ last' = [op |-> "set", key |-> k, ret |-> FALSE]
  BY <1>1, <1>9, LosesMap
<1> QED BY <1>1, <1>7, <1>8, <1>9 DEF Map!Set

\* hash_del() unbinds its key and no other.
LEMMA DelImplements ==
    ASSUME IInv, NEW k \in Keys, hash_del(k)
    PROVE  Map!Del(k) \/ Map!Lose
<1>1. pc = "ready" /\ Alive
  BY DEF hash_del, Alive
<1>2. /\ table_size \in Nat \ {0} /\ entries \in Table(table_size)
      /\ Placed(entries, table_size) /\ Contents = Bindings(entries, table_size)
  BY <1>1, ReadyContents
<1>3. CASE ~Finds(entries, table_size, k)
  <2>1. /\ last' = [op |-> "del", key |-> k, ret |-> FALSE]
        /\ UNCHANGED <<entries, old_entries, old_pos, pc>>
    BY <1>3 DEF hash_del, resizeVars
  <2>2. Contents' = Contents /\ Alive'
    BY <1>1, <2>1, ContentsIs DEF Alive
  <2>3. Contents[k] = NULL
    BY <1>1, <1>3, BindingOwned
  <2>4. Contents = [Contents EXCEPT ![k] = NULL]
    BY <2>3 DEF Contents
  <2> QED BY <1>1, <2>1, <2>2, <2>3, <2>4 DEF Map!Del
<1>4. CASE Finds(entries, table_size, k)
  <2> DEFINE w == Walk(entries, table_size, k)
             t == [entries EXCEPT ![w] = Removed]
  <2>1. AutoResize(t, nentries - 1, nremoved + 1, "del", k, TRUE)
    BY <1>4 DEF hash_del
  <2>2. w \in 0..(table_size - 1) /\ Uses(entries, w, k)
    BY <1>2, <1>4, FindsEntry
  <2>3. t \in Table(table_size) /\ Placed(t, table_size)
    <3> HIDE DEF w
    <3> QED BY <1>2, <2>2, RemovePlaced
  <2>4. nentries - 1 \in Nat
    <3>1. Sound(t, table_size, nentries - 1, nremoved + 1,
                pool \cup {Lookup(entries, table_size, k)})
      BY <1>1, <1>2, <1>4, ReadySound, RemoveSound
    <3> HIDE DEF t
    <3> QED BY <1>2, <3>1, FilledFinite DEF Sound
  <2>5. Bindings(t, table_size) = [Contents EXCEPT ![k] = NULL]
    BY <1>2, <1>4, RemoveBindings
  <2>6. Contents[k] # NULL
    BY <1>1, <1>4, BindingOwned
  <2> DEFINE ne == nentries - 1
             nr == nremoved + 1
  <2> HIDE DEF t, ne, nr
  <2>7. \/ /\ Alive'
           /\ Contents' = [Contents EXCEPT ![k] = NULL]
           /\ last' = [op |-> "del", key |-> k, ret |-> TRUE]
        \/ /\ ~Alive'
           /\ Contents' = [j \in Keys |-> NULL]
           /\ last' = [op |-> "del", key |-> k, ret |-> FALSE]
    <3>1. AutoResize(t, ne, nr, "del", k, TRUE) /\ ne \in Nat
      BY <2>1, <2>4 DEF ne, nr
    <3>2. \/ /\ Alive'
             /\ Contents' = Bindings(t, table_size)
             /\ last' = [op |-> "del", key |-> k, ret |-> TRUE]
          \/ /\ ~Alive'
             /\ Contents' = [j \in Keys |-> NULL]
             /\ last' = [op |-> "del", key |-> k, ret |-> FALSE]
      <4>1. t \in Table(table_size) /\ Placed(t, table_size)
        BY <2>3 DEF t
      <4> QED BY <1>1, <3>1, <4>1, AutoResizeContents
    <3>3. Bindings(t, table_size) = [Contents EXCEPT ![k] = NULL]
      BY <2>5 DEF t
    <3> QED BY <3>2, <3>3
  <2>8. CASE ~Alive' /\ Contents' = [j \in Keys |-> NULL]
               /\ last' = [op |-> "del", key |-> k, ret |-> FALSE]
    BY <1>1, <2>8, LosesMap
  <2> QED BY <1>1, <2>6, <2>7, <2>8 DEF Map!Del
<1> QED BY <1>3, <1>4

\* A new table is an empty map.
LEMMA MapInit == Init => Map!Init
<1> SUFFICES ASSUME Init PROVE Map!Init
  OBVIOUS
<1>1. pc = "ready" /\ last = [op |-> "create", key |-> NULL, ret |-> NULL]
  BY DEF Init, hash_create
<1>2. Contents = [k \in Keys |-> NULL]
  <2>1. IInv
    BY IInvInit
  <2>2. \A k \in Keys : ~Finds(entries, table_size, k)
    BY MinSizeAssumption, EmptyTable, FindsEntry DEF Init, hash_create, Uses, NEVER, IN_USE
  <2>3. \A k \in Keys : Contents[k] = NULL
    BY <1>1, <2>1, <2>2, BindingOwned
  <2> QED BY <2>3 DEF Contents
<1> QED BY <1>1, <1>2 DEF Map!Init, Alive

\* Every step of the table is a step of the map or none: a resize, which
\* rebuilds the table one entry at a time, is none.
LEMMA MapNext == IInv /\ [Next]_vars => [Map!Next]_(Map!vars)
<1> SUFFICES ASSUME IInv, [Next]_vars PROVE [Map!Next]_(Map!vars)
  OBVIOUS
<1>1. CASE UNCHANGED vars
  BY <1>1, ContentsIs DEF vars, Map!vars, Alive
<1>2. ASSUME NEW k \in Keys, hash_get(k) PROVE Map!Get(k)
  <2>1. /\ pc = "ready" /\ last' = [op |-> "get", key |-> k,
                                     ret |-> Lookup(entries, table_size, k)]
        /\ UNCHANGED <<entries, old_entries, old_pos, pc>>
    BY <1>2 DEF hash_get, resizeVars
  <2>2. Lookup(entries, table_size, k) = Contents[k]
    BY <2>1, ReadyContents DEF Bindings
  <2> QED BY <2>1, <2>2, ContentsIs DEF Map!Get, Alive
<1>3. ASSUME NEW k \in Keys, hash_del(k) PROVE Map!Del(k) \/ Map!Lose
  BY <1>3, DelImplements
<1>4. ASSUME NEW k \in Keys, NEW v \in Values, hash_set(k, v)
      PROVE  Map!Set(k, v) \/ Map!Lose
  BY <1>4, SetImplements
<1>5. ASSUME resize_table_step PROVE UNCHANGED Map!vars
  BY <1>5, ReinsertContents DEF resize_table_step, Map!vars, Alive
<1>6. ASSUME resize_table_done PROVE UNCHANGED Map!vars
  <2>1. /\ pc = "resizing" /\ pc' = "ready" /\ old_pos = old_size
        /\ old_entries' = NoEntries /\ UNCHANGED <<entries, last>>
    BY <1>6 DEF resize_table_done
  <2>2. {r \in DOMAIN old_entries : r >= old_pos} = {}
    BY <2>1 DEF IInv, TypeOK, OldSlots, Table
  <2>3. {r \in DOMAIN NoEntries : r >= old_pos'} = {}
    BY DEF NoEntries
  <2>4. Contents' = Contents
    BY <2>1, <2>2, <2>3, ContentsIs DEF ContentIn
  <2> QED BY <2>1, <2>4 DEF Map!vars, Alive
<1>7. ASSUME hash_free PROVE Map!Lose
  <2>1. /\ pc = "ready" /\ pc' = "freed" /\ entries' = NoEntries
        /\ last' = [op |-> "free", key |-> NULL, ret |-> NULL]
        /\ UNCHANGED <<old_entries, old_pos>>
    BY <1>7 DEF hash_free, resizeVars
  <2>2. old_entries = NoEntries
    BY <2>1 DEF IInv, OldSlots
  <2>3. Contents' = [k \in Keys |-> NULL]
    <3>1. ContentIn(NoEntries, NoEntries, old_pos) = [j \in Keys |-> NULL]
      BY DEF ContentIn, NoEntries
    <3> QED BY <2>1, <2>2, <3>1, ContentsIs
  <2> QED BY <2>1, <2>3 DEF Map!Lose, Alive
<1> QED BY <1>1, <1>2, <1>3, <1>4, <1>5, <1>6, <1>7 DEF Next, Map!Next

\* The table implements the finite map that its users (wtable.c, fiu.c and
\* the ferror set of posix.custom.c) take it for, see KVMap.
THEOREM MapCorrect == Spec => MapSpec
<1>1. ASSUME IInv, [Next]_vars PROVE [Map!Next]_(Map!vars)
  BY <1>1, MapNext
<1> QED BY <1>1, MapInit, Invariance, PTL DEF Spec, MapSpec, Map!Spec
==============================================================================
