-------------------------------- MODULE KVMap --------------------------------
(***************************************************************************)
(* What libfiu/hash.h promises its callers (wtable.c and the ferror set of *)
(* posix.custom.c): a finite map from names to values.  A set binds        *)
(* exactly the given key, a delete unbinds exactly the given key and says  *)
(* whether it was bound, a get returns the latest binding.  The table goes *)
(* when it is freed or when an allocation fails.                           *)
(***************************************************************************)
CONSTANTS Keys, Values, NULL

VARIABLES map,   \* the binding of every key, NULL when it has none
          last,  \* the latest call and the result it returns
          alive  \* FALSE once the table is gone

vars == <<map, last, alive>>

Init == /\ map = [k \in Keys |-> NULL]
        /\ last = [op |-> "create", key |-> NULL, ret |-> NULL]
        /\ alive = TRUE

\* Every value handed to the table is a fresh object, which it then owns.
Set(k, v) ==
    /\ alive
    /\ \A j \in Keys : map[j] # v
    /\ map' = [map EXCEPT ![k] = v]
    /\ last' = [op |-> "set", key |-> k, ret |-> TRUE]
    /\ UNCHANGED alive

Del(k) ==
    /\ alive
    /\ map' = [map EXCEPT ![k] = NULL]
    /\ last' = [op |-> "del", key |-> k, ret |-> map[k] # NULL]
    /\ UNCHANGED alive

Get(k) ==
    /\ alive
    /\ last' = [op |-> "get", key |-> k, ret |-> map[k]]
    /\ UNCHANGED <<map, alive>>

\* The table goes: freed, in a call that reports failure, or by a crash.
Lose ==
    /\ alive
    /\ alive' = FALSE
    /\ map' = [k \in Keys |-> NULL]
    /\ \/ UNCHANGED last
       \/ last' = [op |-> "free", key |-> NULL, ret |-> NULL]
       \/ \E k \in Keys, o \in {"set", "del"} :
             last' = [op |-> o, key |-> k, ret |-> FALSE]

Next == \/ \E k \in Keys : Del(k) \/ Get(k)
        \/ \E k \in Keys, v \in Values : Set(k, v)
        \/ Lose

Spec == Init /\ [][Next]_vars
==============================================================================
