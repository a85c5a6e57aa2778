------------------------------- MODULE WTable -------------------------------
(***************************************************************************)
(* The wildcard table of libfiu/wtable.c with its lookup cache (the second *)
(* half of libfiu/hash.c), used the way fiu.c uses it: threads look names  *)
(* up together under enabled_fails_lock held for reading, and an insertion *)
(* or a removal has the table for itself.                                  *)
(*                                                                         *)
(* The final entries are a map, which is what HashTable implements (its    *)
(* property MapSpec).  A value is a struct pf_info: it carries the key it  *)
(* was created with, and an incarnation to tell apart the ones of one key. *)
(*                                                                         *)
(* A lookup is one step per lock region of the cache, so that the lookups  *)
(* of several readers interleave there.  A resize reinserts one entry per  *)
(* step, in the array and then in the cache, so that what its two loops    *)
(* preserve can be stated; no other call runs until it is done.            *)
(*                                                                         *)
(* Where a null pointer is used (after strdup() or an allocation of the    *)
(* cache has failed, by a wildcard operation once the array is lost, or by *)
(* an operation that looks at the final entries once theirs is) the        *)
(* process dies, and the behaviour simply ends.                            *)
(*                                                                         *)
(* An operator whose name ends in _bug is a faulty version of a definition *)
(* below it.  No action uses it: it is there to see that the properties    *)
(* notice the fault.                                                       *)
(***************************************************************************)
EXTENDS PointNames, WildcardMatch

CONSTANTS Readers,
          Incarnations,  \* of every key
          Hash,          \* murmurhash2() of the final names
          MIN_SIZE       \* minimum size of the wildcards array (10 in the code)

Values == UNION {{k} \X Incarnations[k] : k \in Keys}

ASSUME WTableAssumption ==
    /\ \A k \in Keys : /\ Len(k) \in Nat \ {0}
                       /\ k = [i \in 1..Len(k) |-> k[i]]
                       /\ k \in Wildcards <=> is_wildcard(k)
    /\ Matches = {m \in Wildcards \X Finals : Covers(m[1], m[2])}
    /\ Hash \in [Finals -> Nat]
    /\ MIN_SIZE \in Nat \ {0}
    /\ NULL \notin Keys \cup Values \cup (Wildcards \X Values)

VARIABLES
    finals,         \* the final entries
    finals_lost,    \* t->finals->entries == NULL: an allocation has failed,
                    \* and nobody finds the entries any more
    wildcards,      \* the slots of the array; ws_size is its length
    ws_used_count,
    cache,          \* the slots of wcache->hash
    cache_size,     \* wcache->size, NULL while it is uninitialised
    live,           \* the values that are allocated
    lost,           \* t->wildcards == NULL: an allocation has failed
    wpc,            \* "ready", or the loop of a resize that runs: "reinsert"
                    \* for the array, "rehash" for the cache
    old_wildcards,  \* the locals of the two resize_table()
    old_entries,
    pos,            \* their loop index i
    adding,         \* the arguments of wtable_set() during its resize; NULL
                    \* during the one of wtable_del()
    pc, name, found \* the lookup of every reader

tableVars  == <<finals, finals_lost, wildcards, ws_used_count, live, lost>>
cacheVars  == <<cache, cache_size>>
resizeVars == <<wpc, old_wildcards, old_entries, pos, adding>>
readerVars == <<pc, name, found>>
vars == <<tableVars, cacheVars, resizeVars, readerVars>>
-----------------------------------------------------------------------------
(***************************************************************************)
(* The array of wildcards.                                                 *)
(***************************************************************************)
FreeSlot == [in_use |-> FALSE, key |-> NULL, value |-> NULL]
FreeSlots(n) == [i \in 1..n |-> FreeSlot]

\* wildcards_find_entry(): the first slot whose key matches n, 0 when there
\* is none.
FindMatch(ws, n) ==
    SelectInSeq(ws, LAMBDA e : e.in_use /\ ws_matches_s(e.key, n, FALSE))

\* What the walk of wtable_get() finds.
WalkResult(ws, n) == LET i == FindMatch(ws, n)
                     IN  IF i = 0 THEN NULL ELSE ws[i].value

\* The same with exact == true, and the first free slot before it.
FindExact(ws, w) ==
    SelectInSeq(ws, LAMBDA e : e.in_use /\ ws_matches_s(e.key, w, TRUE))
FirstFree(ws) == SelectInSeq(ws, LAMBDA e : ~e.in_use)

\* The slot wildcards_set() writes, 0 in the case its comment rules out.
SlotFor(ws, w) ==
    IF FindExact(ws, w) # 0 THEN FindExact(ws, w) ELSE FirstFree(ws)

\* wildcards_set(): the array afterwards, whether it took a free slot, and the
\* values it handed to the destructor.
WildcardsSet(ws, w, v) ==
    IF SlotFor(ws, w) = 0 THEN ws
    ELSE [ws EXCEPT ![SlotFor(ws, w)] =
                        [in_use |-> TRUE, key |-> w, value |-> v]]

TakesFree(ws, w) == FindExact(ws, w) = 0 /\ FirstFree(ws) # 0

Overridden(ws, w) ==
    IF FindExact(ws, w) = 0 THEN {} ELSE {ws[FindExact(ws, w)].value}

InUseCount(ws) == Cardinality({i \in DOMAIN ws : ws[i].in_use})

GrownSize_bug(n) == (13 * n) \div 10

\* t->ws_size * 1.3 + 1, truncated.
GrownSize(n) == (13 * n) \div 10 + 1

\* wtable_set() grows the array when at most one slot is free.
MustGrow(ws, used) == Len(ws) - used <= 1

\* wtable_del() shrinks it below 60% occupation (the float nearest to 6/10 is
\* above the double 0.6: exactly 60% is not below).
MustShrink(ws, used) == Len(ws) > MIN_SIZE /\ 10 * used < 6 * Len(ws)
-----------------------------------------------------------------------------
(***************************************************************************)
(* The cache: a hash table without probing, in which an entry is looked    *)
(* for in its home slot only.  Only a resize of it probes, with the        *)
(* insertion of the hash table.                                            *)
(***************************************************************************)
Slots == INSTANCE LinearProbing WITH Keys <- Finals

CacheSlots(c) == Cardinality(DOMAIN c)
Home(c, n) == Hash[n] % CacheSlots(c)

CacheHit(c, n) == /\ c[Home(c, n)].in_use = Slots!IN_USE
                  /\ c[Home(c, n)].key = n

CacheSet(c, n, v) == [c EXCEPT ![Home(c, n)] = Slots!InUse(n, v)]

CacheInvalidate_bug(c) == c

CacheInvalidate(c) ==
    [i \in DOMAIN c |->
        IF c[i].in_use = Slots!IN_USE THEN Slots!NeverUsed ELSE c[i]]

\* c->size is not set by cache_create(): the first comparison with it can go
\* either way.
MayCompare(n, more) == cache_size # NULL => more = (n > cache_size)
-----------------------------------------------------------------------------
\* wtable_create().
Init ==
    /\ finals = [n \in Finals |-> NULL]
    /\ finals_lost = FALSE
    /\ wildcards = FreeSlots(MIN_SIZE)
    /\ ws_used_count = 0
    /\ cache = Slots!Empty(MIN_SIZE)
    /\ cache_size = NULL
    /\ live = {}
    /\ lost = FALSE
    /\ wpc = "ready"
    /\ old_wildcards = <<>>
    /\ old_entries = Slots!NoEntries
    /\ pos = 0
    /\ adding = NULL
    /\ pc = [r \in Readers |-> "idle"]
    /\ name = [r \in Readers |-> NULL]
    /\ found = [r \in Readers |-> NULL]

(***************************************************************************)
(* wtable_get(), under the lock for reading.                               *)
(***************************************************************************)
GoTo(r, p) == pc' = [pc EXCEPT ![r] = p]

Return(r, v) == found' = [found EXCEPT ![r] = v] /\ GoTo(r, "found")

get_final_bug(r, n) ==
    /\ ~finals_lost
    /\ wpc = "ready"
    /\ pc[r] = "idle"
    /\ name' = [name EXCEPT ![r] = n]
    /\ GoTo(r, "cache_get")
    /\ UNCHANGED <<found, tableVars, cacheVars, resizeVars>>

\* The exact lookup.
get_final(r, n) ==
    /\ ~finals_lost
    /\ wpc = "ready"
    /\ pc[r] = "idle"
    /\ name' = [name EXCEPT ![r] = n]
    /\ \/ finals[n] # NULL /\ Return(r, finals[n])
       \/ finals[n] = NULL /\ GoTo(r, "cache_get") /\ UNCHANGED found
    /\ UNCHANGED <<tableVars, cacheVars, resizeVars>>

cache_get(r) ==
    /\ pc[r] = "cache_get"
    /\ \/ /\ CacheHit(cache, name[r])
          /\ Return(r, cache[Home(cache, name[r])].value)
       \/ /\ ~CacheHit(cache, name[r])
          /\ GoTo(r, "walk")
          /\ UNCHANGED found
    /\ UNCHANGED <<tableVars, cacheVars, resizeVars, name>>

\* The walk over the array.  Once the table is lost the process dies here.
walk(r) ==
    /\ ~lost
    /\ pc[r] = "walk"
    /\ found' = [found EXCEPT ![r] = WalkResult(wildcards, name[r])]
    /\ GoTo(r, "cache_set")
    /\ UNCHANGED <<tableVars, cacheVars, resizeVars, name>>

\* Negative results are cached too.
cache_set(r) ==
    /\ pc[r] = "cache_set"
    /\ cache' = CacheSet(cache, name[r], found[r])
    /\ Return(r, found[r])
    /\ UNCHANGED <<tableVars, cache_size, resizeVars, name>>

\* The caller is done with the value and releases the lock.
release(r) ==
    /\ pc[r] = "found"
    /\ GoTo(r, "idle")
    /\ name' = [name EXCEPT ![r] = NULL]
    /\ found' = [found EXCEPT ![r] = NULL]
    /\ UNCHANGED <<tableVars, cacheVars, resizeVars>>

(***************************************************************************)
(* wtable_set() and wtable_del(), under the lock for writing.              *)
(***************************************************************************)
Exclusive_bug == wpc = "ready"

Exclusive == wpc = "ready" /\ \A r \in Readers : pc[r] = "idle"

\* hash_set() and hash_del() may resize the final entries at their end, when
\* the call has done its work; if that fails they are lost with what they hold.
set_final(n, v) ==
    /\ Exclusive
    /\ ~finals_lost
    /\ v \in Values \ live /\ v[1] = n
    /\ finals' = [finals EXCEPT ![n] = v]
    /\ live' = (live \ {finals[n]}) \cup {v}
    /\ finals_lost' \in BOOLEAN
    /\ UNCHANGED <<wildcards, ws_used_count, lost, cacheVars, resizeVars,
                   readerVars>>

del_final(n) ==
    /\ Exclusive
    /\ ~finals_lost
    /\ finals[n] # NULL
    /\ finals' = [finals EXCEPT ![n] = NULL]
    /\ live' = live \ {finals[n]}
    /\ finals_lost' \in BOOLEAN
    /\ UNCHANGED <<wildcards, ws_used_count, lost, cacheVars, resizeVars,
                   readerVars>>

\* wildcards_set(), called when the values in allocated are.
wildcards_set(w, v, allocated) ==
    /\ wildcards' = WildcardsSet(wildcards, w, v)
    /\ ws_used_count' = IF TakesFree(wildcards, w) THEN ws_used_count + 1
                        ELSE ws_used_count
    /\ live' = allocated \ Overridden(wildcards, w)

\* resize_table(n) up to its loop.  The array is ws by now; args is what is
\* still to be added to it.
resize_table(n, ws, args) ==
    /\ wpc' = "reinsert"
    /\ old_wildcards' = ws
    /\ pos' = 1
    /\ wildcards' = FreeSlots(n)
    /\ ws_used_count' = 0
    /\ adding' = args
    /\ UNCHANGED <<finals, finals_lost, lost, cacheVars, old_entries>>

\* One round of its loop.
reinsert ==
    /\ wpc = "reinsert"
    /\ pos <= Len(old_wildcards)
    /\ LET e == old_wildcards[pos]
       IN  \/ e.in_use /\ wildcards_set(e.key, e.value, live)
           \/ ~e.in_use /\ UNCHANGED <<wildcards, ws_used_count, live>>
    /\ pos' = pos + 1
    /\ UNCHANGED <<finals, finals_lost, lost, cacheVars, wpc, old_wildcards,
                   old_entries, adding, readerVars>>

\* Its end: the old array is freed, and cache_resize() runs up to the loop of
\* the resize_table() of hash.c.
cache_resize ==
    /\ wpc = "reinsert"
    /\ pos > Len(old_wildcards)
    /\ wpc' = "rehash"
    /\ old_wildcards' = <<>>
    /\ \E more \in BOOLEAN :
          /\ MayCompare(Len(wildcards), more)
          /\ old_entries' = IF more THEN cache ELSE CacheInvalidate(cache)
    /\ pos' = 0
    /\ cache' = Slots!Empty(Len(wildcards))
    /\ UNCHANGED <<tableVars, cache_size, adding, readerVars>>

\* One round of that loop.
rehash ==
    /\ wpc = "rehash"
    /\ pos < CacheSlots(old_entries)
    /\ LET e == old_entries[pos]
       IN  cache' = IF e.in_use = Slots!IN_USE
                    THEN Slots!Put(cache, CacheSlots(cache), e.key, e.value)
                    ELSE cache
    /\ pos' = pos + 1
    /\ UNCHANGED <<tableVars, cache_size, wpc, old_wildcards, old_entries,
                   adding, readerVars>>

\* The end of cache_resize(), and the tail of the call that resizes: it
\* invalidates the cache, and wtable_set() puts its entry in the array.
resize_done ==
    /\ wpc = "rehash"
    /\ pos = CacheSlots(old_entries)
    /\ wpc' = "ready"
    /\ old_entries' = Slots!NoEntries
    /\ pos' = 0
    /\ cache_size' = Len(wildcards)
    /\ cache' = CacheInvalidate(cache)
    /\ \/ adding # NULL /\ wildcards_set(adding[1], adding[2], live)
       \/ adding = NULL /\ UNCHANGED <<wildcards, ws_used_count, live>>
    /\ adding' = NULL
    /\ UNCHANGED <<finals, finals_lost, lost, old_wildcards, readerVars>>

set_wildcard(w, v) ==
    /\ Exclusive
    /\ ~lost
    /\ v \in Values \ live /\ v[1] = w
    /\ UNCHANGED readerVars
    /\ \/ /\ ~MustGrow(wildcards, ws_used_count)
          /\ cache' = CacheInvalidate(cache)
          /\ wildcards_set(w, v, live \cup {v})
          /\ UNCHANGED <<finals, finals_lost, lost, cache_size, resizeVars>>
       \/ /\ MustGrow(wildcards, ws_used_count)
          /\ live' = live \cup {v}
          /\ resize_table(GrownSize(Len(wildcards)), wildcards, <<w, v>>)

\* The entry wtable_del() has freed is gone from ws, which has used entries.
ShrinkAndInvalidate(ws, used) ==
    \/ /\ ~MustShrink(ws, used) \/ used + 3 < MIN_SIZE
       /\ wildcards' = ws
       /\ ws_used_count' = used
       /\ cache' = CacheInvalidate(cache)
       /\ UNCHANGED <<finals, finals_lost, lost, cache_size, resizeVars>>
    \/ /\ MustShrink(ws, used) /\ used + 3 >= MIN_SIZE
       /\ resize_table(used + 3, ws, NULL)
    \/ /\ MustShrink(ws, used) /\ used + 3 >= MIN_SIZE  \* malloc() fails
       /\ wildcards' = ws
       /\ ws_used_count' = used
       /\ lost' = TRUE
       /\ UNCHANGED <<finals, finals_lost, cacheVars, resizeVars>>

del_wildcard_bug(w) ==
    /\ Exclusive
    /\ ~lost
    /\ ShrinkAndInvalidate([i \in DOMAIN wildcards |->
                               IF i = FindExact(wildcards, w) THEN FreeSlot
                               ELSE wildcards[i]],
                           ws_used_count - 1)
    /\ UNCHANGED <<live, readerVars>>

del_wildcard(w) ==
    /\ Exclusive
    /\ ~lost
    /\ FindExact(wildcards, w) # 0
    /\ live' = live \ {wildcards[FindExact(wildcards, w)].value}
    /\ ShrinkAndInvalidate(
          [wildcards EXCEPT ![FindExact(wildcards, w)] = FreeSlot],
          ws_used_count - 1)
    /\ UNCHANGED readerVars

\* malloc() fails while wtable_set() grows the array: it returns false with
\* t->wildcards == NULL, and the value it was given stays with nobody.
set_wildcard_fails(w) ==
    /\ Exclusive
    /\ ~lost
    /\ MustGrow(wildcards, ws_used_count)
    /\ lost' = TRUE
    /\ UNCHANGED <<finals, finals_lost, wildcards, ws_used_count, live, cacheVars,
                   resizeVars, readerVars>>

Next ==
    \/ \E r \in Readers : \/ \E n \in Finals : get_final(r, n)
                          \/ cache_get(r) \/ walk(r) \/ cache_set(r) \/ release(r)
    \/ \E n \in Finals : del_final(n) \/ \E v \in Values : set_final(n, v)
    \/ \E w \in Wildcards : \/ del_wildcard(w) \/ set_wildcard_fails(w)
                            \/ \E v \in Values : set_wildcard(w, v)
    \/ reinsert \/ cache_resize \/ rehash \/ resize_done

Spec == Init /\ [][Next]_vars
-----------------------------------------------------------------------------
(***************************************************************************)
(* Properties.                                                             *)
(***************************************************************************)
Slot == [in_use : BOOLEAN, key : Wildcards \cup {NULL},
         value : Values \cup {NULL}]

TypeOK ==
    /\ finals \in [Finals -> Values \cup {NULL}]
    /\ finals_lost \in BOOLEAN
    /\ wildcards \in Seq(Slot)
    /\ Len(wildcards) >= MIN_SIZE
    /\ ws_used_count \in 0..Len(wildcards)
    /\ CacheSlots(cache) \in Nat \ {0}
    /\ cache \in [0..(CacheSlots(cache) - 1) -> Slots!Entry]
    /\ cache_size \in Nat \cup {NULL}
    /\ live \subseteq Values
    /\ lost \in BOOLEAN
    /\ wpc \in {"ready", "reinsert", "rehash"}
    /\ old_wildcards \in Seq(Slot)
    /\ CacheSlots(old_entries) \in Nat
    /\ old_entries \in [0..(CacheSlots(old_entries) - 1) -> Slots!Entry]
    /\ pos \in Nat
    /\ adding \in (Wildcards \X Values) \cup {NULL}
    /\ pc \in [Readers -> {"idle", "cache_get", "walk", "cache_set", "found"}]
    /\ name \in [Readers -> Finals \cup {NULL}]
    /\ found \in [Readers -> Values \cup {NULL}]

\* A cached result, positive or negative, is the one a walk of the array would
\* give: no insertion, removal or resize leaves a stale entry behind for the
\* lookups that follow, and no reader writes one into the cache after the
\* table has changed.
CacheCoherent ==
    ~lost /\ wpc = "ready" =>
        \A n \in Finals : CacheHit(cache, n) =>
            cache[Home(cache, n)].value = WalkResult(wildcards, n)

\* wtable.c:252 "This should never happen, as we should always have space by
\* the time this function is called": a free slot remains at all times, also
\* during the loop of a resize.
AlwaysSpace ==
    ~lost => /\ ws_used_count = InUseCount(wildcards)
             /\ FirstFree(wildcards) # 0

Lost == lost \/ finals_lost

\* The old slots that are still to be reinserted.
Pending == {i \in DOMAIN old_wildcards : i >= pos}

\* The values that are allocated are the ones the table holds (or wtable_set()
\* does, during its resize), so nothing is freed twice or leaked, and what a
\* reader holds is still allocated; until an array is lost, when what it holds
\* leaks.
StoredValues == {finals[n] : n \in Finals}
                \cup {wildcards[i].value : i \in DOMAIN wildcards}
                \cup {old_wildcards[i].value : i \in Pending}
                \cup (IF adding = NULL THEN {} ELSE {adding[2]})

Ownership ==
    ~Lost => /\ StoredValues \ {NULL} = live
             /\ \A r \in Readers : found[r] \in live \cup {NULL}

\* The table behaves as the abstract one, in which a resize changes nothing.
Holds(ws, i, k) == ws[i].in_use /\ ws[i].key = k

Contents ==
    [k \in Keys |->
        IF Lost THEN NULL
        ELSE IF k \in Finals THEN finals[k]
        ELSE IF \E i \in DOMAIN wildcards : Holds(wildcards, i, k)
        THEN wildcards[CHOOSE i \in DOMAIN wildcards : Holds(wildcards, i, k)].value
        ELSE IF \E i \in Pending : Holds(old_wildcards, i, k)
        THEN old_wildcards[CHOOSE i \in Pending : Holds(old_wildcards, i, k)].value
        ELSE NULL]

Holding == [r \in Readers |->
               IF pc[r] = "found" THEN <<name[r], found[r]>> ELSE <<NULL, NULL>>]

Table == INSTANCE PointTable
            WITH table <- Contents, holding <- Holding, alive <- ~Lost

TableSpec == Table!Spec
=============================================================================
