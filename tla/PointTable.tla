------------------------------ MODULE PointTable ------------------------------
(***************************************************************************)
(* What wtable.h promises fiu.c: a table from keys to values that answers  *)
(* a lookup with the final entry of the name or, failing that, with some   *)
(* wildcard entry that covers it, as the table is at that moment.  The     *)
(* entry stays in the table for as long as the reader holds on to it.      *)
(***************************************************************************)
EXTENDS PointNames

CONSTANTS Readers,  \* the threads that look names up
          Values

VARIABLES table,    \* the value of every key, NULL when it has none
          holding,  \* the name every reader has looked up and what it got
          alive     \* FALSE once an allocation failure has cost the table

vars == <<table, holding, alive>>

None == <<NULL, NULL>>

Init == /\ table = [k \in Keys |-> NULL]
        /\ holding = [r \in Readers |-> None]
        /\ alive = TRUE

Unheld == \A r \in Readers : holding[r] = None

Set(k, v) == /\ alive
             /\ Unheld
             /\ v \notin {table[j] : j \in Keys}
             /\ table' = [table EXCEPT ![k] = v]
             /\ UNCHANGED <<holding, alive>>

Del(k) == /\ alive
          /\ Unheld
          /\ table[k] # NULL
          /\ table' = [table EXCEPT ![k] = NULL]
          /\ UNCHANGED <<holding, alive>>

Get(r, n) == /\ alive
             /\ holding[r] = None
             /\ \E v \in Candidates(table, n) :
                   holding' = [holding EXCEPT ![r] = <<n, v>>]
             /\ UNCHANGED <<table, alive>>

Release(r) == /\ holding[r] # None
              /\ holding' = [holding EXCEPT ![r] = None]
              /\ UNCHANGED <<table, alive>>

Lose == /\ alive
        /\ alive' = FALSE
        /\ table' = [k \in Keys |-> NULL]
        /\ UNCHANGED holding

\* A table that was lost promises nothing.
Unreliable(r, n) ==
    /\ ~alive
    /\ \E v \in Values \cup {NULL} : holding' = [holding EXCEPT ![r] = <<n, v>>]
    /\ UNCHANGED <<table, alive>>

Next == \/ \E k \in Keys : Del(k) \/ \E v \in Values : Set(k, v)
        \/ \E r \in Readers : \/ Release(r)
                              \/ \E n \in Finals : Get(r, n) \/ Unreliable(r, n)
        \/ Lose

Spec == Init /\ [][Next]_vars
==============================================================================
