------------------------------ MODULE HashTable ------------------------------
(***************************************************************************)
(* The hash table of libfiu/hash.c: open addressing with linear probing,   *)
(* in which a removed entry leaves a slot that is never used again until a *)
(* resize rebuilds the table.  The calls are sequential: both users of the *)
(* table serialise them with a lock (enabled_fails_lock in fiu.c,          *)
(* ferror_hash_table_mutex in posix.custom.c).                             *)
(*                                                                         *)
(* resize_table() reinserts one old entry per step, so that what the loop  *)
(* preserves can be stated, and no other call runs until it is done.       *)
(*                                                                         *)
(* When strdup() fails, or in any call after the table is lost, the        *)
(* process dies on a null pointer: the behaviour simply ends.              *)
(*                                                                         *)
(* An operator whose name ends in _bug is a faulty version of a definition *)
(* below it.  No action uses it: it is there to see that the properties    *)
(* notice the fault.                                                       *)
(***************************************************************************)
EXTENDS LinearProbing, FiniteSets

CONSTANT MIN_SIZE  \* minimum table size (10 in the code)

ASSUME MinSizeAssumption == MIN_SIZE \in Nat \ {0}

VARIABLES
    entries,      \* h->entries, the slots 0 .. table_size-1
    table_size,
    nentries,
    nremoved,
    old_entries,  \* the locals of resize_table() while it runs
    old_size,
    old_pos,      \* its loop index i
    pc,           \* "ready", "resizing", "lost" (h->entries == NULL)
                  \* or "freed"
    pool,         \* the values that are not allocated: a caller passes one of
                  \* them to hash_set(), the destructor gives it back
    last          \* the latest call and what it returns

vars == <<entries, table_size, nentries, nremoved,
          old_entries, old_size, old_pos, pc, pool, last>>

resizeVars == <<old_entries, old_size, old_pos>>
------------------------------------------------------------------------------
(***************************************************************************)
(* Resizing.                                                               *)
(***************************************************************************)

NeedsResize_bug(n, ne, nr) ==
    \/ 10 * (n - ne) < 3 * n
    \/ n > MIN_SIZE /\ 10 * ne < 3 * n

\* auto_resize_table(): less than 30% of the slots usable, or a table above
\* the minimum size with less than 30% of its slots in use.  The code compares
\* a float with the double 0.3; the float nearest to 3/10 is above that
\* double, so a ratio of exactly 30% is not below it.
NeedsResize(n, ne, nr) ==
    \/ 10 * (n - ne - nr) < 3 * n
    \/ n > MIN_SIZE /\ 10 * ne < 3 * n

NewSize_bug(ne) == IF ne < MIN_SIZE THEN MIN_SIZE ELSE ne

\* The size resize_table() gives the new table when called with ne * 2.
NewSize(ne) == IF 2 * ne < MIN_SIZE THEN MIN_SIZE ELSE 2 * ne

\* The tail of hash_set() and hash_del(): the call has left table t with ne
\* entries and nr removed ones, and returns r unless a resize fails.
AutoResize(t, ne, nr, o, k, r) ==
    \/ /\ ~NeedsResize(table_size, ne, nr)
       /\ entries' = t
       /\ nentries' = ne
       /\ nremoved' = nr
       /\ last' = [op |-> o, key |-> k, ret |-> r]
       /\ UNCHANGED <<table_size, resizeVars, pc>>
    \/ /\ NeedsResize(table_size, ne, nr)
       /\ old_entries' = t
       /\ old_size' = table_size
       /\ old_pos' = 0
       /\ entries' = Empty(NewSize(ne))
       /\ table_size' = NewSize(ne)
       /\ nentries' = 0
       /\ nremoved' = 0
       /\ pc' = "resizing"
       /\ last' = [op |-> o, key |-> k, ret |-> r]
    \/ /\ NeedsResize(table_size, ne, nr)
       /\ entries' = NoEntries
       /\ nentries' = ne
       /\ nremoved' = nr
       /\ pc' = "lost"
       /\ last' = [op |-> o, key |-> k, ret |-> FALSE]
       /\ UNCHANGED <<table_size, resizeVars>>

\* One round of the reinsertion loop of resize_table().
resize_table_step ==
    /\ pc = "resizing"
    /\ old_pos < old_size
    /\ LET e == old_entries[old_pos]
       IN  \/ /\ e.in_use = IN_USE
              /\ entries' = Put(entries, table_size, e.key, e.value)
              /\ nentries' = IF TakesFresh(entries, table_size, e.key)
                             THEN nentries + 1 ELSE nentries
              /\ pool' = pool \cup Overridden(entries, table_size, e.key)
           \/ /\ e.in_use # IN_USE
              /\ UNCHANGED <<entries, nentries, pool>>
    /\ old_pos' = old_pos + 1
    /\ UNCHANGED <<table_size, nremoved, old_entries, old_size, pc, last>>

resize_table_done_bug ==
    /\ pc = "resizing"
    /\ old_pos >= old_size - 1
    /\ old_entries' = NoEntries
    /\ old_size' = 0
    /\ old_pos' = 0
    /\ pc' = "ready"
    /\ UNCHANGED <<entries, table_size, nentries, nremoved, pool, last>>

\* The end of resize_table(): the old slots are freed and the call returns.
resize_table_done ==
    /\ pc = "resizing"
    /\ old_pos = old_size
    /\ old_entries' = NoEntries
    /\ old_size' = 0
    /\ old_pos' = 0
    /\ pc' = "ready"
    /\ UNCHANGED <<entries, table_size, nentries, nremoved, pool, last>>
------------------------------------------------------------------------------
(***************************************************************************)
(* The operations.                                                         *)
(***************************************************************************)

hash_create ==
    /\ entries = Empty(MIN_SIZE)
    /\ table_size = MIN_SIZE
    /\ nentries = 0
    /\ nremoved = 0
    /\ old_entries = NoEntries
    /\ old_size = 0
    /\ old_pos = 0
    /\ pc = "ready"
    /\ pool = Values
    /\ last = [op |-> "create", key |-> NULL, ret |-> NULL]

hash_get(k) ==
    /\ pc = "ready"
    /\ last' = [op |-> "get", key |-> k, ret |-> Lookup(entries, table_size, k)]
    /\ UNCHANGED <<entries, table_size, nentries, nremoved, resizeVars, pc, pool>>

hash_set(k, v) ==
    /\ pc = "ready"
    /\ v \in pool
    /\ pool' = (pool \ {v}) \cup Overridden(entries, table_size, k)
    /\ AutoResize(Put(entries, table_size, k, v),
                  IF TakesFresh(entries, table_size, k)
                  THEN nentries + 1 ELSE nentries,
                  nremoved, "set", k, Walk(entries, table_size, k) # -1)

hash_del_bug(k) ==
    /\ pc = "ready"
    /\ pool' = pool \cup {Lookup(entries, table_size, k)}
    /\ AutoResize([entries EXCEPT ![Walk(entries, table_size, k)] = Removed],
                  nentries - 1, nremoved + 1, "del", k, TRUE)

hash_del(k) ==
    /\ pc = "ready"
    /\ \/ /\ ~Finds(entries, table_size, k)
          /\ last' = [op |-> "del", key |-> k, ret |-> FALSE]
          /\ UNCHANGED <<entries, table_size, nentries, nremoved,
                         resizeVars, pc, pool>>
       \/ /\ Finds(entries, table_size, k)
          /\ pool' = pool \cup {Lookup(entries, table_size, k)}
          /\ AutoResize([entries EXCEPT ![Walk(entries, table_size, k)] = Removed],
                        nentries - 1, nremoved + 1, "del", k, TRUE)

hash_free ==
    /\ pc = "ready"
    /\ pool' = pool \cup {entries[p].value :
                            p \in {q \in DOMAIN entries :
                                     entries[q].in_use = IN_USE}}
    /\ entries' = NoEntries
    /\ pc' = "freed"
    /\ last' = [op |-> "free", key |-> NULL, ret |-> NULL]
    /\ UNCHANGED <<table_size, nentries, nremoved, resizeVars>>

Init == hash_create

Next == \/ \E k \in Keys : hash_get(k) \/ hash_del(k)
        \/ \E k \in Keys, v \in Values : hash_set(k, v)
        \/ resize_table_step
        \/ resize_table_done
        \/ hash_free

Spec == Init /\ [][Next]_vars
------------------------------------------------------------------------------
(***************************************************************************)
(* The contents of the table: its slots and, while it is being resized,    *)
(* the old slots that are still to be reinserted.                          *)
(***************************************************************************)
Uses(t, p, k) == t[p].in_use = IN_USE /\ t[p].key = k

TableSlots   == DOMAIN entries
PendingSlots == {p \in DOMAIN old_entries : p >= old_pos}

Contents ==
    [k \in Keys |->
        IF \E p \in TableSlots : Uses(entries, p, k)
        THEN entries[CHOOSE p \in TableSlots : Uses(entries, p, k)].value
        ELSE IF \E p \in PendingSlots : Uses(old_entries, p, k)
        THEN old_entries[CHOOSE p \in PendingSlots : Uses(old_entries, p, k)].value
        ELSE NULL]

Alive == pc \in {"ready", "resizing"}
------------------------------------------------------------------------------
(***************************************************************************)
(* Properties.                                                             *)
(***************************************************************************)

\* The types of the fields of struct hash and of resize_table()'s locals.
TypeOK ==
    /\ table_size \in Nat \ {0}
    /\ nentries \in Nat
    /\ nremoved \in Nat
    /\ old_size \in Nat
    /\ old_pos \in 0..old_size
    /\ pc \in {"ready", "resizing", "lost", "freed"}
    /\ entries \in [(IF Alive THEN 0..(table_size - 1) ELSE {}) -> Entry]
    /\ old_entries \in [0..(old_size - 1) -> Entry]
    /\ pool \subseteq Values

\* A lookup in a quiet table finds exactly the latest binding of every key:
\* no removal, override or resize makes hash_get() stop short of an entry or
\* find a stale one.
LookupFindsContents ==
    pc = "ready" =>
        \A k \in Keys : Lookup(entries, table_size, k) = Contents[k]

SlotsThatAre(u) == {p \in TableSlots : entries[p].in_use = u}

\* hash.c:256 "always resizes to <number of entries> * 2, which preserves the
\* "at least 30% usable" property both when growing and shrinking": that many
\* slots have never been used whenever a call returns, the two counters have
\* lost no slot over any number of overrides and resizes, and so the
\* pathological case of hash.c:206 never happens: also during a resize the
\* walk of every insertion ends at a slot.
UsableSlots ==
    /\ pc = "ready" =>
          /\ 10 * Cardinality(SlotsThatAre(NEVER)) >= 3 * table_size
          /\ nentries = Cardinality(SlotsThatAre(IN_USE))
          /\ nremoved = Cardinality(SlotsThatAre(REMOVED))
    /\ Alive => \A k \in Keys : Walk(entries, table_size, k) # -1

\* Each stored object has one owner: it is in one slot and was not destroyed,
\* and an object that is in no slot was destroyed (no double free, no use of
\* a destroyed object, no leak), through overrides, removals, resizes and
\* hash_free().
Owner(v) == {<<"new", p>> : p \in {q \in TableSlots :
                 entries[q].in_use = IN_USE /\ entries[q].value = v}}
            \cup
            {<<"old", p>> : p \in {q \in PendingSlots :
                 old_entries[q].in_use = IN_USE /\ old_entries[q].value = v}}

Ownership ==
    pc # "lost" => \A v \in Values :
                Cardinality(Owner(v)) = IF v \in pool THEN 0 ELSE 1

\* The table implements a map (see KVMap).
Map == INSTANCE KVMap WITH map <- Contents, last <- last, alive <- Alive

MapSpec == Map!Spec
==============================================================================
