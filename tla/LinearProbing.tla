---------------------------- MODULE LinearProbing ----------------------------
(***************************************************************************)
(* The slots of the hash table of libfiu/hash.c and the walk over them: a  *)
(* key is looked for from its home slot on, with wraparound, until a slot  *)
(* that was never used.  A removed entry does not end a walk.              *)
(*                                                                         *)
(* An operator whose name ends in _bug is a faulty version of a definition *)
(* below it.  No action uses it: it is there to see that the properties    *)
(* notice the fault.                                                       *)
(***************************************************************************)
EXTENDS Integers

CONSTANTS Keys,    \* the names in use
          Values,  \* the objects that can be stored; the table owns them
          NULL,
          Hash     \* murmurhash2(), as a function of the key

ASSUME LinearProbingAssumption ==
    /\ NULL \notin Keys \cup Values
    /\ Hash \in [Keys -> Nat]

NEVER   == "NEVER"
IN_USE  == "IN_USE"
REMOVED == "REMOVED"

Entry == [in_use : {NEVER, IN_USE, REMOVED},
          key    : Keys \cup {NULL},
          value  : Values \cup {NULL}]

NeverUsed == [in_use |-> NEVER, key |-> NULL, value |-> NULL]
Removed   == [in_use |-> REMOVED, key |-> NULL, value |-> NULL]
InUse(k, v) == [in_use |-> IN_USE, key |-> k, value |-> v]

Empty(n)  == [p \in 0..(n - 1) |-> NeverUsed]
NoEntries == [p \in {} |-> NeverUsed]
------------------------------------------------------------------------------
(***************************************************************************)
(* Linear probing.                                                         *)
(***************************************************************************)

\* The slot the walk for k looks at in its round i, in a table of n slots.
Probe(k, n, i) ==
    LET pos == Hash[k] % n
    IN  IF pos + i < n THEN pos + i ELSE pos + i - n

StopsAt_bug(t, p, k) == t[p].in_use # IN_USE \/ t[p].key = k

\* The walk for k ends at slot p: never used, or in use by k itself.
StopsAt(t, p, k) == \/ t[p].in_use = NEVER
                    \/ t[p].in_use = IN_USE /\ t[p].key = k

\* i is the first round in which the walk for k ends.
FirstStop(t, n, k, i) ==
    /\ StopsAt(t, Probe(k, n, i), k)
    /\ \A j \in 0..(i - 1) : ~StopsAt(t, Probe(k, n, j), k)

\* The loop of hash_get(), _hash_set() and hash_del(): the slot it ends at,
\* or -1 when it goes through the whole table.
Walk(t, n, k) ==
    IF \E i \in 0..(n - 1) : FirstStop(t, n, k, i)
    THEN Probe(k, n, CHOOSE i \in 0..(n - 1) : FirstStop(t, n, k, i))
    ELSE -1

\* The walk for k ends at a slot that k uses.
Finds(t, n, k) == /\ Walk(t, n, k) # -1
                  /\ t[Walk(t, n, k)].in_use = IN_USE

\* The value hash_get() returns.
Lookup(t, n, k) == IF Finds(t, n, k) THEN t[Walk(t, n, k)].value ELSE NULL

\* _hash_set(): the table afterwards, whether it took a fresh slot, and the
\* values it handed to the destructor.
Put(t, n, k, v) ==
    IF Walk(t, n, k) = -1 THEN t ELSE [t EXCEPT ![Walk(t, n, k)] = InUse(k, v)]

TakesFresh_bug(t, n, k) == Walk(t, n, k) # -1

TakesFresh(t, n, k) == /\ Walk(t, n, k) # -1
                       /\ t[Walk(t, n, k)].in_use = NEVER

Overridden_bug(t, n, k) == {}

Overridden(t, n, k) ==
    IF Finds(t, n, k) THEN {t[Walk(t, n, k)].value} ELSE {}
==============================================================================
