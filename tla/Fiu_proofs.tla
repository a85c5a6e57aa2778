------------------------------ MODULE Fiu_proofs ------------------------------
(***************************************************************************)
(* Proofs about Fiu, for any number of threads, names, points of failure   *)
(* and calls.                                                              *)
(*                                                                         *)
(* The inductive invariant Inv says who holds enabled_fails_lock at every  *)
(* point of the code, what the arguments of the call in progress are, and  *)
(* who refers to a struct pf_info: the table under the key it was created  *)
(* with, a thread that has just created it, or the readers that have       *)
(* looked it up and hold the lock.  It is proved action by action, one     *)
(* lemma per conjunct.  What depends on the contents of a point            *)
(* (OnetimeExclusive, FailinfoOfOnetime) rests on Inv, and holds when the  *)
(* external callbacks leave the flags as they are: they may change the     *)
(* failnum and the failinfo.  The last result, that Fiu implements FiuAPI, *)
(* is for callbacks that change nothing; it needs also where every call is *)
(* on its way to its result (Places), that a call works on a point its     *)
(* name may find (Chosen), and what the points contain (Contents).         *)
(***************************************************************************)
EXTENDS Fiu, TLAPS

\* Between pf_create() and the insertion only the creator knows the point.
PendingAt == {"insert_pf", "insert_wlock", "insert"}

\* The lock for reading or writing is held exactly where the code says so, and
\* a writer is alone.
Locks ==
    /\ \A t \in Threads : t \in readers <=> pc[t] \in ReaderAt
    /\ \A t \in Threads : writer = t <=> pc[t] \in WriterAt
    /\ writer # NULL => readers = {}

Args ==
    \A t \in Threads :
        /\ pc[t] \in PendingAt \cup {"create"} =>
              /\ arg[t].key \in Keys
              /\ arg[t].info \in Infos
              /\ arg[t].method \in Methods
        /\ pc[t] \in {"rlock", "lookup"} => arg[t].key \in Finals
        /\ pc[t] \in {"disable_wlock", "delete"} => arg[t].key \in Keys

\* A point that is not in the table yet is allocated and has one owner.
Pending ==
    \A t \in Threads : pc[t] \in PendingAt =>
        /\ cur[t] \in Pfs
        /\ heap[cur[t]].name = arg[t].key
        /\ \A k \in Keys : enabled[k] # cur[t]
        /\ \A u \in Threads \ {t} : pc[u] \in PendingAt => cur[u] # cur[t]

Inv == TypeOK /\ Locks /\ Args /\ Pending /\ NoUseAfterFree /\ RecursionGuard

USE FiuAssumption, PointNamesAssumption
USE DEF Goto, Enter, Leave, Answer, shared, lock, local
USE DEF NoCall, Request, NewPf, Freed
USE DEF UsesPf, ReaderAt, WriterAt, OutsideAt, PendingAt
------------------------------------------------------------------------------
\* What wtable_get() finds is an entry of the table.
LEMMA CandidateIsEnabled ==
  ASSUME NEW tab, NEW n \in Finals, NEW p \in Candidates(tab, n) \ {NULL}
  PROVE  \E k \in Keys : tab[k] = p
BY DEF Candidates, Covering, Keys

\* The point a reader works on is an allocated one.
LEMMA UsedPf ==
  ASSUME Inv, NEW t \in Threads, pc[t] \in UsesPf
  PROVE  cur[t] \in Pfs /\ heap[cur[t]] \in PfInfo
<1>1. PICK k \in Keys : enabled[k] = cur[t]
  BY DEF Inv, NoUseAfterFree
<1>2. enabled[k] # NULL
  BY <1>1 DEF Inv, NoUseAfterFree
<1>. QED BY <1>1, <1>2 DEF Inv, TypeOK, NoUseAfterFree

\* Every step of a thread keeps the types.
LEMMA TypeStep ==
  ASSUME Inv, NEW t \in Threads, Start(t) \/ Step(t)
  PROVE  TypeOK'
<1>1. ASSUME NEW n \in Finals,
              fail_call(t, n)
       PROVE  TypeOK'
  BY <1>1 DEF Inv, TypeOK, Args, RecursionGuard, PfInfo, Keys, fail_call, Call
<1>2. ASSUME NEW k \in Keys,
              disable_call(t, k)
       PROVE  TypeOK'
  BY <1>2 DEF Inv, TypeOK, Args, RecursionGuard, PfInfo, Keys, disable_call,
       Call
<1>3. ASSUME NEW k \in Keys, NEW i \in Infos, NEW o \in BOOLEAN,
              NEW m \in Methods,
              enable_call(t, k, i, o, m)
       PROVE  TypeOK'
  BY <1>3 DEF Inv, TypeOK, Args, RecursionGuard, PfInfo, Keys, enable_call,
       Call
<1>4. CASE init_call(t)
  BY <1>4 DEF Inv, TypeOK, Args, RecursionGuard, PfInfo, Keys, init_call, Call
<1>5. CASE init_wlock(t)
  BY <1>5 DEF Inv, TypeOK, Args, RecursionGuard, PfInfo, Keys, init_wlock,
       ef_wlock
<1>6. CASE init(t)
  <2>1. enabled' \in [Keys -> Pfs \cup {NULL}]
    BY <1>6 DEF init, Inv, TypeOK
  <2>2. initialized' \in BOOLEAN /\ table' \in {"none", "usable", "lost"}
    BY <1>6 DEF init, Inv, TypeOK
  <2>. QED BY <1>6, <2>1, <2>2 DEF init, Inv, TypeOK
<1>7. CASE ef_wunlock(t)
  BY <1>7 DEF Inv, TypeOK, Args, RecursionGuard, PfInfo, Keys, ef_wunlock,
       Return
<1>8. CASE fail_rlock(t)
  BY <1>8 DEF Inv, TypeOK, Args, RecursionGuard, PfInfo, Keys, fail_rlock,
       ef_rlock
<1>9. CASE lookup_none(t)
  BY <1>9 DEF Inv, TypeOK, Args, RecursionGuard, PfInfo, Keys, lookup_none
<1>10. CASE lookup(t)
  <2>1. PICK p \in Candidates(enabled, arg[t].key) \ {NULL} :
           /\ cur' = [cur EXCEPT ![t] = p]
           /\ pc' = [pc EXCEPT ![t] =
                       IF heap[p].onetime THEN "onetime" ELSE "decide"]
    BY <1>10 DEF lookup
  <2>2. arg[t].key \in Finals
    BY <1>10 DEF lookup, Inv, Args
  <2>3. \E k \in Keys : enabled[k] = p
    BY <2>2, CandidateIsEnabled
  <2>. QED BY <1>10, <2>1, <2>3 DEF lookup, Inv, TypeOK
<1>11. CASE onetime_spent(t)
  BY <1>11 DEF Inv, TypeOK, Args, RecursionGuard, PfInfo, Keys, onetime_spent
<1>12. CASE onetime_lock(t)
  BY <1>12 DEF Inv, TypeOK, Args, RecursionGuard, PfInfo, Keys, onetime_lock
<1>13. CASE decide(t)
  BY <1>13 DEF Inv, TypeOK, Args, RecursionGuard, PfInfo, Keys, decide
<1>14. CASE external_cb(t)
  <2>1. cur[t] \in Pfs /\ heap[cur[t]] \in PfInfo
    BY <1>14, UsedPf DEF external_cb
  <2>2. PICK i \in Infos, f \in BOOLEAN :
           heap' = [heap EXCEPT ![cur[t]] = Changed(heap[cur[t]], i, f)]
    BY <1>14 DEF external_cb
  <2>3. Changed(heap[cur[t]], i, f) \in PfInfo
    BY <2>1 DEF Changed, PfInfo
  <2>4. heap \in [Pfs -> PfInfo \cup {Freed}]
    BY DEF Inv, TypeOK
  <2>5. heap' \in [Pfs -> PfInfo \cup {Freed}]
    BY <2>1, <2>2, <2>3, <2>4
  <2>6. pc' = [pc EXCEPT ![t] = "set_failinfo"] \/ pc' = [pc EXCEPT ![t] = "not_failing"]
    BY <1>14 DEF external_cb
  <2>7. /\ UNCHANGED <<initialized, table, enabled, mutex, readers, writer>>
        /\ UNCHANGED <<rec_count, last_failinfo, arg, cur, ret, calls>>
    BY <1>14 DEF external_cb
  <2>. QED BY <2>5, <2>6, <2>7 DEF Inv, TypeOK
<1>15. CASE not_failing(t)
  BY <1>15 DEF Inv, TypeOK, Args, RecursionGuard, PfInfo, Keys, not_failing,
       onetime_unlock
<1>16. CASE set_failinfo(t)
  <2>1. cur[t] \in Pfs /\ heap[cur[t]] \in PfInfo
    BY <1>16, UsedPf DEF set_failinfo
  <2>. QED BY <1>16, <2>1 DEF set_failinfo, Inv, TypeOK, PfInfo
<1>17. CASE get_failnum(t)
  <2>1. cur[t] \in Pfs /\ heap[cur[t]] \in PfInfo
    BY <1>17, UsedPf DEF get_failnum
  <2>. QED BY <1>17, <2>1 DEF get_failnum, Inv, TypeOK, PfInfo
<1>18. CASE spend(t)
  <2>1. cur[t] \in Pfs /\ heap[cur[t]] \in PfInfo
    BY <1>18, UsedPf DEF spend
  <2>. QED BY <1>18, <2>1 DEF spend, onetime_unlock, Spent, Inv, TypeOK, PfInfo
<1>19. CASE fail_exit(t)
  BY <1>19 DEF Inv, TypeOK, Args, RecursionGuard, PfInfo, Keys, fail_exit,
       Return
<1>20. CASE pf_create(t)
  BY <1>20 DEF Inv, TypeOK, Args, RecursionGuard, PfInfo, Keys, pf_create
<1>21. CASE pf_create_fails(t)
  BY <1>21 DEF Inv, TypeOK, RecursionGuard, pf_create_fails
<1>22. CASE enable_refused(t)
  BY <1>22 DEF Inv, TypeOK, Args, RecursionGuard, PfInfo, Keys, enable_refused
<1>23. CASE insert_pf(t)
  BY <1>23 DEF Inv, TypeOK, Args, RecursionGuard, PfInfo, Keys, insert_pf
<1>24. CASE insert_wlock(t)
  BY <1>24 DEF Inv, TypeOK, Args, RecursionGuard, PfInfo, Keys, insert_wlock,
       ef_wlock
<1>25. CASE wtable_set(t)
  BY <1>25 DEF Inv, TypeOK, Args, RecursionGuard, PfInfo, Keys, wtable_set,
       pf_free
<1>26. CASE disable_wlock(t)
  BY <1>26 DEF Inv, TypeOK, Args, RecursionGuard, PfInfo, Keys, disable_wlock,
       ef_wlock
<1>27. CASE wtable_del(t)
  BY <1>27 DEF Inv, TypeOK, Args, RecursionGuard, PfInfo, Keys, wtable_del,
       pf_free
<1>28. CASE wtable_set_fails(t)
  BY <1>28 DEF Inv, TypeOK, Args, RecursionGuard, PfInfo, Keys,
       wtable_set_fails, Lose, pf_free
<1>29. CASE wtable_del_fails(t)
  BY <1>29 DEF Inv, TypeOK, Args, RecursionGuard, PfInfo, Keys,
       wtable_del_fails, Lose, pf_free
<1>. QED BY <1>1, <1>2, <1>3, <1>4, <1>5, <1>6, <1>7, <1>8, <1>9, <1>10,
           <1>11, <1>12, <1>13, <1>14, <1>15, <1>16, <1>17, <1>18, <1>19,
           <1>20, <1>21, <1>22, <1>23, <1>24, <1>25, <1>26, <1>27, <1>28,
           <1>29 DEF Start, Step

\* Every step keeps the lock where the code says it is held.
LEMMA LocksStep ==
  ASSUME TypeOK, Locks, NEW t \in Threads, Start(t) \/ Step(t)
  PROVE  Locks'
<1>1. ASSUME NEW n \in Finals,
              fail_call(t, n)
       PROVE  Locks'
  BY <1>1 DEF TypeOK, Locks, fail_call, Call
<1>2. ASSUME NEW k \in Keys,
              disable_call(t, k)
       PROVE  Locks'
  BY <1>2 DEF TypeOK, Locks, disable_call, Call
<1>3. ASSUME NEW k \in Keys, NEW i \in Infos, NEW o \in BOOLEAN,
              NEW m \in Methods,
              enable_call(t, k, i, o, m)
       PROVE  Locks'
  BY <1>3 DEF TypeOK, Locks, enable_call, Call
<1>4. CASE init_call(t)
  BY <1>4 DEF TypeOK, Locks, init_call, Call
<1>5. CASE init_wlock(t)
  BY <1>5 DEF TypeOK, Locks, init_wlock, ef_wlock
<1>6. CASE init(t)
  BY <1>6 DEF TypeOK, Locks, init
<1>7. CASE ef_wunlock(t)
  BY <1>7 DEF TypeOK, Locks, ef_wunlock, Return
<1>8. CASE fail_rlock(t)
  BY <1>8 DEF TypeOK, Locks, fail_rlock, ef_rlock
<1>9. CASE lookup_none(t)
  BY <1>9 DEF TypeOK, Locks, lookup_none
<1>10. CASE lookup(t)
  BY <1>10 DEF TypeOK, Locks, lookup
<1>11. CASE onetime_spent(t)
  BY <1>11 DEF TypeOK, Locks, onetime_spent
<1>12. CASE onetime_lock(t)
  BY <1>12 DEF TypeOK, Locks, onetime_lock
<1>13. CASE decide(t)
  BY <1>13 DEF TypeOK, Locks, decide
<1>14. CASE external_cb(t)
  BY <1>14 DEF TypeOK, Locks, external_cb, Changed
<1>15. CASE not_failing(t)
  BY <1>15 DEF TypeOK, Locks, not_failing, onetime_unlock
<1>16. CASE set_failinfo(t)
  BY <1>16 DEF TypeOK, Locks, set_failinfo
<1>17. CASE get_failnum(t)
  BY <1>17 DEF TypeOK, Locks, get_failnum
<1>18. CASE spend(t)
  BY <1>18 DEF TypeOK, Locks, spend, onetime_unlock, Spent
<1>19. CASE fail_exit(t)
  BY <1>19 DEF TypeOK, Locks, fail_exit, Return
<1>20. CASE pf_create(t)
  BY <1>20 DEF TypeOK, Locks, pf_create
<1>21. CASE pf_create_fails(t)
  BY <1>21 DEF TypeOK, Locks, pf_create_fails
<1>22. CASE enable_refused(t)
  BY <1>22 DEF TypeOK, Locks, enable_refused
<1>23. CASE insert_pf(t)
  BY <1>23 DEF TypeOK, Locks, insert_pf
<1>24. CASE insert_wlock(t)
  BY <1>24 DEF TypeOK, Locks, insert_wlock, ef_wlock
<1>25. CASE wtable_set(t)
  BY <1>25 DEF TypeOK, Locks, wtable_set, pf_free
<1>26. CASE disable_wlock(t)
  BY <1>26 DEF TypeOK, Locks, disable_wlock, ef_wlock
<1>27. CASE wtable_del(t)
  BY <1>27 DEF TypeOK, Locks, wtable_del, pf_free
<1>28. CASE wtable_set_fails(t)
  BY <1>28 DEF TypeOK, Locks, wtable_set_fails, Lose, pf_free
<1>29. CASE wtable_del_fails(t)
  BY <1>29 DEF TypeOK, Locks, wtable_del_fails, Lose, pf_free
<1>. QED BY <1>1, <1>2, <1>3, <1>4, <1>5, <1>6, <1>7, <1>8, <1>9, <1>10,
           <1>11, <1>12, <1>13, <1>14, <1>15, <1>16, <1>17, <1>18, <1>19,
           <1>20, <1>21, <1>22, <1>23, <1>24, <1>25, <1>26, <1>27, <1>28,
           <1>29 DEF Start, Step

\* Every step keeps the arguments of the calls in progress.
LEMMA ArgsStep ==
  ASSUME TypeOK, Args, NEW t \in Threads, Start(t) \/ Step(t)
  PROVE  Args'
<1>1. ASSUME NEW n \in Finals,
              fail_call(t, n)
       PROVE  Args'
  BY <1>1 DEF TypeOK, Args, Keys, fail_call, Call
<1>2. ASSUME NEW k \in Keys,
              disable_call(t, k)
       PROVE  Args'
  BY <1>2 DEF TypeOK, Args, Keys, disable_call, Call
<1>3. ASSUME NEW k \in Keys, NEW i \in Infos, NEW o \in BOOLEAN,
              NEW m \in Methods,
              enable_call(t, k, i, o, m)
       PROVE  Args'
  BY <1>3 DEF TypeOK, Args, Keys, enable_call, Call
<1>4. CASE init_call(t)
  BY <1>4 DEF TypeOK, Args, Keys, init_call, Call
<1>5. CASE init_wlock(t)
  BY <1>5 DEF TypeOK, Args, Keys, init_wlock, ef_wlock
<1>6. CASE init(t)
  BY <1>6 DEF TypeOK, Args, Keys, init
<1>7. CASE ef_wunlock(t)
  BY <1>7 DEF TypeOK, Args, Keys, ef_wunlock, Return
<1>8. CASE fail_rlock(t)
  BY <1>8 DEF TypeOK, Args, Keys, fail_rlock, ef_rlock
<1>9. CASE lookup_none(t)
  BY <1>9 DEF TypeOK, Args, Keys, lookup_none
<1>10. CASE lookup(t)
  BY <1>10 DEF TypeOK, Args, Keys, lookup
<1>11. CASE onetime_spent(t)
  BY <1>11 DEF TypeOK, Args, Keys, onetime_spent
<1>12. CASE onetime_lock(t)
  BY <1>12 DEF TypeOK, Args, Keys, onetime_lock
<1>13. CASE decide(t)
  BY <1>13 DEF TypeOK, Args, Keys, decide
<1>14. CASE external_cb(t)
  BY <1>14 DEF TypeOK, Args, Keys, external_cb, Changed
<1>15. CASE not_failing(t)
  BY <1>15 DEF TypeOK, Args, Keys, not_failing, onetime_unlock
<1>16. CASE set_failinfo(t)
  BY <1>16 DEF TypeOK, Args, Keys, set_failinfo
<1>17. CASE get_failnum(t)
  BY <1>17 DEF TypeOK, Args, Keys, get_failnum
<1>18. CASE spend(t)
  BY <1>18 DEF TypeOK, Args, Keys, spend, onetime_unlock, Spent
<1>19. CASE fail_exit(t)
  BY <1>19 DEF TypeOK, Args, Keys, fail_exit, Return
<1>20. CASE pf_create(t)
  BY <1>20 DEF TypeOK, Args, Keys, pf_create
<1>21. CASE pf_create_fails(t)
  BY <1>21 DEF TypeOK, Args, Keys, pf_create_fails
<1>22. CASE enable_refused(t)
  BY <1>22 DEF TypeOK, Args, Keys, enable_refused
<1>23. CASE insert_pf(t)
  BY <1>23 DEF TypeOK, Args, Keys, insert_pf
<1>24. CASE insert_wlock(t)
  BY <1>24 DEF TypeOK, Args, Keys, insert_wlock, ef_wlock
<1>25. CASE wtable_set(t)
  BY <1>25 DEF TypeOK, Args, Keys, wtable_set, pf_free
<1>26. CASE disable_wlock(t)
  BY <1>26 DEF TypeOK, Args, Keys, disable_wlock, ef_wlock
<1>27. CASE wtable_del(t)
  BY <1>27 DEF TypeOK, Args, Keys, wtable_del, pf_free
<1>28. CASE wtable_set_fails(t)
  BY <1>28 DEF TypeOK, Args, Keys, wtable_set_fails, Lose, pf_free
<1>29. CASE wtable_del_fails(t)
  BY <1>29 DEF TypeOK, Args, Keys, wtable_del_fails, Lose, pf_free
<1>. QED BY <1>1, <1>2, <1>3, <1>4, <1>5, <1>6, <1>7, <1>8, <1>9, <1>10,
           <1>11, <1>12, <1>13, <1>14, <1>15, <1>16, <1>17, <1>18, <1>19,
           <1>20, <1>21, <1>22, <1>23, <1>24, <1>25, <1>26, <1>27, <1>28,
           <1>29 DEF Start, Step

\* Every step balances rec_count with its place in the code.
LEMMA RecursionGuardStep ==
  ASSUME TypeOK, RecursionGuard, NEW t \in Threads, Start(t) \/ Step(t)
  PROVE  RecursionGuard'
<1>1. ASSUME NEW n \in Finals,
              fail_call(t, n)
       PROVE  RecursionGuard'
  BY <1>1 DEF TypeOK, RecursionGuard, fail_call, Call
<1>2. ASSUME NEW k \in Keys,
              disable_call(t, k)
       PROVE  RecursionGuard'
  BY <1>2 DEF TypeOK, RecursionGuard, disable_call, Call
<1>3. ASSUME NEW k \in Keys, NEW i \in Infos, NEW o \in BOOLEAN,
              NEW m \in Methods,
              enable_call(t, k, i, o, m)
       PROVE  RecursionGuard'
  BY <1>3 DEF TypeOK, RecursionGuard, enable_call, Call
<1>4. CASE init_call(t)
  BY <1>4 DEF TypeOK, RecursionGuard, init_call, Call
<1>5. CASE init_wlock(t)
  BY <1>5 DEF TypeOK, RecursionGuard, init_wlock, ef_wlock
<1>6. CASE init(t)
  BY <1>6 DEF TypeOK, RecursionGuard, init
<1>7. CASE ef_wunlock(t)
  BY <1>7 DEF TypeOK, RecursionGuard, ef_wunlock, Return
<1>8. CASE fail_rlock(t)
  BY <1>8 DEF TypeOK, RecursionGuard, fail_rlock, ef_rlock
<1>9. CASE lookup_none(t)
  BY <1>9 DEF TypeOK, RecursionGuard, lookup_none
<1>10. CASE lookup(t)
  BY <1>10 DEF TypeOK, RecursionGuard, lookup
<1>11. CASE onetime_spent(t)
  BY <1>11 DEF TypeOK, RecursionGuard, onetime_spent
<1>12. CASE onetime_lock(t)
  BY <1>12 DEF TypeOK, RecursionGuard, onetime_lock
<1>13. CASE decide(t)
  BY <1>13 DEF TypeOK, RecursionGuard, decide
<1>14. CASE external_cb(t)
  BY <1>14 DEF TypeOK, RecursionGuard, external_cb, Changed
<1>15. CASE not_failing(t)
  BY <1>15 DEF TypeOK, RecursionGuard, not_failing, onetime_unlock
<1>16. CASE set_failinfo(t)
  BY <1>16 DEF TypeOK, RecursionGuard, set_failinfo
<1>17. CASE get_failnum(t)
  BY <1>17 DEF TypeOK, RecursionGuard, get_failnum
<1>18. CASE spend(t)
  BY <1>18 DEF TypeOK, RecursionGuard, spend, onetime_unlock, Spent
<1>19. CASE fail_exit(t)
  BY <1>19 DEF TypeOK, RecursionGuard, fail_exit, Return
<1>20. CASE pf_create(t)
  BY <1>20 DEF TypeOK, RecursionGuard, pf_create
<1>21. CASE pf_create_fails(t)
  BY <1>21 DEF TypeOK, RecursionGuard, pf_create_fails
<1>22. CASE enable_refused(t)
  BY <1>22 DEF TypeOK, RecursionGuard, enable_refused
<1>23. CASE insert_pf(t)
  BY <1>23 DEF TypeOK, RecursionGuard, insert_pf
<1>24. CASE insert_wlock(t)
  BY <1>24 DEF TypeOK, RecursionGuard, insert_wlock, ef_wlock
<1>25. CASE wtable_set(t)
  BY <1>25 DEF TypeOK, RecursionGuard, wtable_set, pf_free
<1>26. CASE disable_wlock(t)
  BY <1>26 DEF TypeOK, RecursionGuard, disable_wlock, ef_wlock
<1>27. CASE wtable_del(t)
  BY <1>27 DEF TypeOK, RecursionGuard, wtable_del, pf_free
<1>28. CASE wtable_set_fails(t)
  BY <1>28 DEF TypeOK, RecursionGuard, wtable_set_fails, Lose, pf_free
<1>29. CASE wtable_del_fails(t)
  BY <1>29 DEF TypeOK, RecursionGuard, wtable_del_fails, Lose, pf_free
<1>. QED BY <1>1, <1>2, <1>3, <1>4, <1>5, <1>6, <1>7, <1>8, <1>9, <1>10,
           <1>11, <1>12, <1>13, <1>14, <1>15, <1>16, <1>17, <1>18, <1>19,
           <1>20, <1>21, <1>22, <1>23, <1>24, <1>25, <1>26, <1>27, <1>28,
           <1>29 DEF Start, Step

\* No step gives a point that is being inserted a second owner: pf_create()
\* takes a free one, and the table drops only points it holds.
LEMMA PendingStep ==
  ASSUME Inv, NEW t \in Threads, Start(t) \/ Step(t)
  PROVE  Pending'
<1>1. ASSUME NEW n \in Finals,
              fail_call(t, n)
       PROVE  Pending'
  BY <1>1 DEF Inv, TypeOK, Locks, Args, Pending, NoUseAfterFree, PfInfo,
       fail_call, Call
<1>2. ASSUME NEW k \in Keys,
              disable_call(t, k)
       PROVE  Pending'
  BY <1>2 DEF Inv, TypeOK, Locks, Args, Pending, NoUseAfterFree, PfInfo,
       disable_call, Call
<1>3. ASSUME NEW k \in Keys, NEW i \in Infos, NEW o \in BOOLEAN,
              NEW m \in Methods,
              enable_call(t, k, i, o, m)
       PROVE  Pending'
  BY <1>3 DEF Inv, TypeOK, Locks, Args, Pending, NoUseAfterFree, PfInfo,
       enable_call, Call
<1>4. CASE init_call(t)
  BY <1>4 DEF Inv, TypeOK, Locks, Args, Pending, NoUseAfterFree, PfInfo,
       init_call, Call
<1>5. CASE init_wlock(t)
  BY <1>5 DEF Inv, TypeOK, Locks, Args, Pending, NoUseAfterFree, PfInfo,
       init_wlock, ef_wlock
<1>6. CASE init(t)
  BY <1>6 DEF Inv, TypeOK, Locks, Args, Pending, NoUseAfterFree, PfInfo, init
<1>7. CASE ef_wunlock(t)
  BY <1>7 DEF Inv, TypeOK, Locks, Args, Pending, NoUseAfterFree, PfInfo,
       ef_wunlock, Return
<1>8. CASE fail_rlock(t)
  BY <1>8 DEF Inv, TypeOK, Locks, Args, Pending, NoUseAfterFree, PfInfo,
       fail_rlock, ef_rlock
<1>9. CASE lookup_none(t)
  BY <1>9 DEF Inv, TypeOK, Locks, Args, Pending, NoUseAfterFree, PfInfo,
       lookup_none
<1>10. CASE lookup(t)
  BY <1>10 DEF Inv, TypeOK, Locks, Args, Pending, NoUseAfterFree, PfInfo,
       lookup
<1>11. CASE onetime_spent(t)
  BY <1>11 DEF Inv, TypeOK, Locks, Args, Pending, NoUseAfterFree, PfInfo,
       onetime_spent
<1>12. CASE onetime_lock(t)
  BY <1>12 DEF Inv, TypeOK, Locks, Args, Pending, NoUseAfterFree, PfInfo,
       onetime_lock
<1>13. CASE decide(t)
  BY <1>13 DEF Inv, TypeOK, Locks, Args, Pending, NoUseAfterFree, PfInfo,
       decide
<1>14. CASE external_cb(t)
  BY <1>14 DEF Inv, TypeOK, Locks, Args, Pending, NoUseAfterFree, PfInfo,
       external_cb, Changed
<1>15. CASE not_failing(t)
  BY <1>15 DEF Inv, TypeOK, Locks, Args, Pending, NoUseAfterFree, PfInfo,
       not_failing, onetime_unlock
<1>16. CASE set_failinfo(t)
  BY <1>16 DEF Inv, TypeOK, Locks, Args, Pending, NoUseAfterFree, PfInfo,
       set_failinfo
<1>17. CASE get_failnum(t)
  BY <1>17 DEF Inv, TypeOK, Locks, Args, Pending, NoUseAfterFree, PfInfo,
       get_failnum
<1>18. CASE spend(t)
  BY <1>18 DEF Inv, TypeOK, Locks, Args, Pending, NoUseAfterFree, PfInfo,
       spend, onetime_unlock, Spent
<1>19. CASE fail_exit(t)
  BY <1>19 DEF Inv, TypeOK, Locks, Args, Pending, NoUseAfterFree, PfInfo,
       fail_exit, Return
<1>20. CASE pf_create(t)
  BY <1>20 DEF Inv, TypeOK, Locks, Args, Pending, NoUseAfterFree, PfInfo,
       pf_create
<1>21. CASE pf_create_fails(t)
  BY <1>21 DEF Inv, TypeOK, Locks, Args, Pending, NoUseAfterFree, PfInfo,
       pf_create_fails
<1>22. CASE enable_refused(t)
  BY <1>22 DEF Inv, TypeOK, Locks, Args, Pending, NoUseAfterFree, PfInfo,
       enable_refused
<1>23. CASE insert_pf(t)
  BY <1>23 DEF Inv, TypeOK, Locks, Args, Pending, NoUseAfterFree, PfInfo,
       insert_pf
<1>24. CASE insert_wlock(t)
  BY <1>24 DEF Inv, TypeOK, Locks, Args, Pending, NoUseAfterFree, PfInfo,
       insert_wlock, ef_wlock
<1>25. CASE wtable_set(t)
  BY <1>25 DEF Inv, TypeOK, Locks, Args, Pending, NoUseAfterFree, PfInfo,
       wtable_set, pf_free
<1>26. CASE disable_wlock(t)
  BY <1>26 DEF Inv, TypeOK, Locks, Args, Pending, NoUseAfterFree, PfInfo,
       disable_wlock, ef_wlock
<1>27. CASE wtable_del(t)
  BY <1>27 DEF Inv, TypeOK, Locks, Args, Pending, NoUseAfterFree, PfInfo,
       wtable_del, pf_free
<1>28. CASE wtable_set_fails(t)
  BY <1>28 DEF Inv, TypeOK, Locks, Args, Pending, NoUseAfterFree, PfInfo,
       wtable_set_fails, Lose, pf_free
<1>29. CASE wtable_del_fails(t)
  BY <1>29 DEF Inv, TypeOK, Locks, Args, Pending, NoUseAfterFree, PfInfo,
       wtable_del_fails, Lose, pf_free
<1>. QED BY <1>1, <1>2, <1>3, <1>4, <1>5, <1>6, <1>7, <1>8, <1>9, <1>10,
           <1>11, <1>12, <1>13, <1>14, <1>15, <1>16, <1>17, <1>18, <1>19,
           <1>20, <1>21, <1>22, <1>23, <1>24, <1>25, <1>26, <1>27, <1>28,
           <1>29 DEF Start, Step

\* Points leave the table only under the lock for writing, when no reader
\* holds one.
LEMMA NoUseAfterFreeStep ==
  ASSUME Inv, NEW t \in Threads, Start(t) \/ Step(t)
  PROVE  NoUseAfterFree'
<1>1. ASSUME NEW n \in Finals,
              fail_call(t, n)
       PROVE  NoUseAfterFree'
  BY <1>1 DEF Inv, TypeOK, Locks, Args, Pending, NoUseAfterFree, fail_call,
       Call
<1>2. ASSUME NEW k \in Keys,
              disable_call(t, k)
       PROVE  NoUseAfterFree'
  BY <1>2 DEF Inv, TypeOK, Locks, Args, Pending, NoUseAfterFree, disable_call,
       Call
<1>3. ASSUME NEW k \in Keys, NEW i \in Infos, NEW o \in BOOLEAN,
              NEW m \in Methods,
              enable_call(t, k, i, o, m)
       PROVE  NoUseAfterFree'
  BY <1>3 DEF Inv, TypeOK, Locks, Args, Pending, NoUseAfterFree, enable_call,
       Call
<1>4. CASE init_call(t)
  BY <1>4 DEF Inv, TypeOK, Locks, Args, Pending, NoUseAfterFree, init_call,
       Call
<1>5. CASE init_wlock(t)
  BY <1>5 DEF Inv, TypeOK, Locks, Args, Pending, NoUseAfterFree, init_wlock,
       ef_wlock
<1>6. CASE init(t)
  BY <1>6 DEF Inv, TypeOK, Locks, Args, Pending, NoUseAfterFree, init
<1>7. CASE ef_wunlock(t)
  BY <1>7 DEF Inv, TypeOK, Locks, Args, Pending, NoUseAfterFree, ef_wunlock,
       Return
<1>8. CASE fail_rlock(t)
  BY <1>8 DEF Inv, TypeOK, Locks, Args, Pending, NoUseAfterFree, fail_rlock,
       ef_rlock
<1>9. CASE lookup_none(t)
  BY <1>9 DEF Inv, TypeOK, Locks, Args, Pending, NoUseAfterFree, lookup_none
<1>10. CASE lookup(t)
  <2>1. PICK p \in Candidates(enabled, arg[t].key) \ {NULL} :
           /\ cur' = [cur EXCEPT ![t] = p]
           /\ pc' = [pc EXCEPT ![t] =
                       IF heap[p].onetime THEN "onetime" ELSE "decide"]
    BY <1>10 DEF lookup
  <2>2. arg[t].key \in Finals
    BY <1>10 DEF lookup, Inv, Args
  <2>3. \E k \in Keys : enabled[k] = p
    BY <2>2, CandidateIsEnabled
  <2>. QED BY <1>10, <2>1, <2>3 DEF lookup, Inv, TypeOK, NoUseAfterFree
<1>11. CASE onetime_spent(t)
  BY <1>11 DEF Inv, TypeOK, Locks, Args, Pending, NoUseAfterFree, onetime_spent
<1>12. CASE onetime_lock(t)
  BY <1>12 DEF Inv, TypeOK, Locks, Args, Pending, NoUseAfterFree, onetime_lock
<1>13. CASE decide(t)
  BY <1>13 DEF Inv, TypeOK, Locks, Args, Pending, NoUseAfterFree, decide
<1>14. CASE external_cb(t)
  BY <1>14 DEF Inv, TypeOK, Locks, Args, Pending, NoUseAfterFree, external_cb,
       Changed
<1>15. CASE not_failing(t)
  BY <1>15 DEF Inv, TypeOK, Locks, Args, Pending, NoUseAfterFree, not_failing,
       onetime_unlock
<1>16. CASE set_failinfo(t)
  BY <1>16 DEF Inv, TypeOK, Locks, Args, Pending, NoUseAfterFree, set_failinfo
<1>17. CASE get_failnum(t)
  BY <1>17 DEF Inv, TypeOK, Locks, Args, Pending, NoUseAfterFree, get_failnum
<1>18. CASE spend(t)
  BY <1>18 DEF Inv, TypeOK, Locks, Args, Pending, NoUseAfterFree, spend,
       onetime_unlock, Spent
<1>19. CASE fail_exit(t)
  BY <1>19 DEF Inv, TypeOK, Locks, Args, Pending, NoUseAfterFree, fail_exit,
       Return
<1>20. CASE pf_create(t)
  BY <1>20 DEF Inv, TypeOK, Locks, Args, Pending, NoUseAfterFree, pf_create
<1>21. CASE pf_create_fails(t)
  BY <1>21 DEF Inv, TypeOK, Locks, Args, Pending, NoUseAfterFree,
       pf_create_fails
<1>22. CASE enable_refused(t)
  BY <1>22 DEF Inv, TypeOK, Locks, Args, Pending, NoUseAfterFree,
       enable_refused
<1>23. CASE insert_pf(t)
  BY <1>23 DEF Inv, TypeOK, Locks, Args, Pending, NoUseAfterFree, insert_pf
<1>24. CASE insert_wlock(t)
  BY <1>24 DEF Inv, TypeOK, Locks, Args, Pending, NoUseAfterFree, insert_wlock,
       ef_wlock
<1>25. CASE wtable_set(t)
  BY <1>25 DEF Inv, TypeOK, Locks, Args, Pending, NoUseAfterFree, wtable_set,
       pf_free
<1>26. CASE disable_wlock(t)
  BY <1>26 DEF Inv, TypeOK, Locks, Args, Pending, NoUseAfterFree,
       disable_wlock, ef_wlock
<1>27. CASE wtable_del(t)
  BY <1>27 DEF Inv, TypeOK, Locks, Args, Pending, NoUseAfterFree, wtable_del,
       pf_free
<1>28. CASE wtable_set_fails(t)
  BY <1>28 DEF Inv, TypeOK, Locks, Args, Pending, NoUseAfterFree,
       wtable_set_fails, Lose, pf_free
<1>29. CASE wtable_del_fails(t)
  BY <1>29 DEF Inv, TypeOK, Locks, Args, Pending, NoUseAfterFree,
       wtable_del_fails, Lose, pf_free
<1>. QED BY <1>1, <1>2, <1>3, <1>4, <1>5, <1>6, <1>7, <1>8, <1>9, <1>10,
           <1>11, <1>12, <1>13, <1>14, <1>15, <1>16, <1>17, <1>18, <1>19,
           <1>20, <1>21, <1>22, <1>23, <1>24, <1>25, <1>26, <1>27, <1>28,
           <1>29 DEF Start, Step

\* No other thread's callback is given the point that t works on.
Kept(t) == heap[cur[t]].method = "external" => heap[cur[t]].onetime

\* While fiu_fail() is on its way out with a failure, the failinfo it has
\* stored goes with the failnum it returns, and the point is still enabled.
Saved ==
    /\ \A p \in Pfs : heap[p].failnum = heap[p].failinfo
    /\ \A t \in Threads :
          /\ pc[t] = "get_failnum" /\ Kept(t)
                => last_failinfo[t] = heap[cur[t]].failinfo
          /\ pc[t] = "spend" /\ Kept(t) => last_failinfo[t] = ret[t]
          /\ pc[t] = "exit" /\ ret[t] # 0 =>
                cur[t] \in Pfs /\ \E k \in Keys : enabled[k] = cur[t]

\* Every step keeps the ONETIME lock with the one thread that decides.
LEMMA OnetimeStep ==
  ASSUME "flags" \notin CallbackChanges, Inv, OnetimeExclusive, NEW t \in Threads,
         Start(t) \/ Step(t)
  PROVE  OnetimeExclusive'
<1>1. ASSUME NEW n \in Finals,
              fail_call(t, n)
       PROVE  OnetimeExclusive'
  BY <1>1 DEF Inv, TypeOK, Locks, NoUseAfterFree, OnetimeExclusive, fail_call,
       Call
<1>2. ASSUME NEW k \in Keys,
              disable_call(t, k)
       PROVE  OnetimeExclusive'
  BY <1>2 DEF Inv, TypeOK, Locks, NoUseAfterFree, OnetimeExclusive,
       disable_call, Call
<1>3. ASSUME NEW k \in Keys, NEW i \in Infos, NEW o \in BOOLEAN,
              NEW m \in Methods,
              enable_call(t, k, i, o, m)
       PROVE  OnetimeExclusive'
  BY <1>3 DEF Inv, TypeOK, Locks, NoUseAfterFree, OnetimeExclusive,
       enable_call, Call
<1>4. CASE init_call(t)
  BY <1>4 DEF Inv, TypeOK, Locks, NoUseAfterFree, OnetimeExclusive, init_call,
       Call
<1>5. CASE init_wlock(t)
  BY <1>5 DEF Inv, TypeOK, Locks, NoUseAfterFree, OnetimeExclusive, init_wlock,
       ef_wlock
<1>6. CASE init(t)
  BY <1>6 DEF Inv, TypeOK, Locks, NoUseAfterFree, OnetimeExclusive, init
<1>7. CASE ef_wunlock(t)
  BY <1>7 DEF Inv, TypeOK, Locks, NoUseAfterFree, OnetimeExclusive, ef_wunlock,
       Return
<1>8. CASE fail_rlock(t)
  BY <1>8 DEF Inv, TypeOK, Locks, NoUseAfterFree, OnetimeExclusive, fail_rlock,
       ef_rlock
<1>9. CASE lookup_none(t)
  BY <1>9 DEF Inv, TypeOK, Locks, NoUseAfterFree, OnetimeExclusive, lookup_none
<1>10. CASE lookup(t)
  BY <1>10 DEF Inv, TypeOK, Locks, NoUseAfterFree, OnetimeExclusive, lookup
<1>11. CASE onetime_spent(t)
  BY <1>11 DEF Inv, TypeOK, Locks, NoUseAfterFree, OnetimeExclusive,
       onetime_spent
<1>12. CASE onetime_lock(t)
  BY <1>12 DEF Inv, TypeOK, Locks, NoUseAfterFree, OnetimeExclusive,
       onetime_lock
<1>13. CASE decide(t)
  BY <1>13 DEF Inv, TypeOK, Locks, NoUseAfterFree, OnetimeExclusive, decide
<1>14. CASE external_cb(t)
  BY <1>14 DEF Inv, TypeOK, Locks, NoUseAfterFree, OnetimeExclusive,
       external_cb, Changed
<1>15. CASE not_failing(t)
  BY <1>15 DEF Inv, TypeOK, Locks, NoUseAfterFree, OnetimeExclusive,
       not_failing, onetime_unlock
<1>16. CASE set_failinfo(t)
  BY <1>16 DEF Inv, TypeOK, Locks, NoUseAfterFree, OnetimeExclusive,
       set_failinfo
<1>17. CASE get_failnum(t)
  BY <1>17 DEF Inv, TypeOK, Locks, NoUseAfterFree, OnetimeExclusive,
       get_failnum
<1>18. CASE spend(t)
  BY <1>18 DEF Inv, TypeOK, Locks, NoUseAfterFree, OnetimeExclusive, spend,
       onetime_unlock, Spent
<1>19. CASE fail_exit(t)
  BY <1>19 DEF Inv, TypeOK, Locks, NoUseAfterFree, OnetimeExclusive, fail_exit,
       Return
<1>20. CASE pf_create(t)
  BY <1>20 DEF Inv, TypeOK, Locks, NoUseAfterFree, OnetimeExclusive, pf_create
<1>21. CASE pf_create_fails(t)
  BY <1>21 DEF Inv, TypeOK, Locks, NoUseAfterFree, OnetimeExclusive,
       pf_create_fails
<1>22. CASE enable_refused(t)
  BY <1>22 DEF Inv, TypeOK, Locks, NoUseAfterFree, OnetimeExclusive,
       enable_refused
<1>23. CASE insert_pf(t)
  BY <1>23 DEF Inv, TypeOK, Locks, NoUseAfterFree, OnetimeExclusive, insert_pf
<1>24. CASE insert_wlock(t)
  BY <1>24 DEF Inv, TypeOK, Locks, NoUseAfterFree, OnetimeExclusive,
       insert_wlock, ef_wlock
<1>25. CASE wtable_set(t)
  BY <1>25 DEF Inv, TypeOK, Locks, NoUseAfterFree, OnetimeExclusive,
       wtable_set, pf_free
<1>26. CASE disable_wlock(t)
  BY <1>26 DEF Inv, TypeOK, Locks, NoUseAfterFree, OnetimeExclusive,
       disable_wlock, ef_wlock
<1>27. CASE wtable_del(t)
  BY <1>27 DEF Inv, TypeOK, Locks, NoUseAfterFree, OnetimeExclusive,
       wtable_del, pf_free
<1>28. CASE wtable_set_fails(t)
  BY <1>28 DEF Inv, TypeOK, Locks, NoUseAfterFree, OnetimeExclusive,
       wtable_set_fails, Lose, pf_free
<1>29. CASE wtable_del_fails(t)
  BY <1>29 DEF Inv, TypeOK, Locks, NoUseAfterFree, OnetimeExclusive,
       wtable_del_fails, Lose, pf_free
<1>. QED BY <1>1, <1>2, <1>3, <1>4, <1>5, <1>6, <1>7, <1>8, <1>9, <1>10,
           <1>11, <1>12, <1>13, <1>14, <1>15, <1>16, <1>17, <1>18, <1>19,
           <1>20, <1>21, <1>22, <1>23, <1>24, <1>25, <1>26, <1>27, <1>28,
           <1>29 DEF Start, Step

\* Every step keeps the saved failinfo in agreement with the point that fails.
LEMMA SavedStep ==
  ASSUME "flags" \notin CallbackChanges, Inv, OnetimeExclusive, Saved,
         FailinfoOfOnetime, NEW t \in Threads, Start(t) \/ Step(t)
  PROVE  (Saved /\ FailinfoOfOnetime)'
<1>1. ASSUME NEW n \in Finals,
              fail_call(t, n)
       PROVE  (Saved /\ FailinfoOfOnetime)'
  BY <1>1 DEF Inv, TypeOK, Locks, NoUseAfterFree, Saved, Kept, FailinfoOfOnetime,
       fail_call, Call
<1>2. ASSUME NEW k \in Keys,
              disable_call(t, k)
       PROVE  (Saved /\ FailinfoOfOnetime)'
  BY <1>2 DEF Inv, TypeOK, Locks, NoUseAfterFree, Saved, Kept, FailinfoOfOnetime,
       disable_call, Call
<1>3. ASSUME NEW k \in Keys, NEW i \in Infos, NEW o \in BOOLEAN,
              NEW m \in Methods,
              enable_call(t, k, i, o, m)
       PROVE  (Saved /\ FailinfoOfOnetime)'
  BY <1>3 DEF Inv, TypeOK, Locks, NoUseAfterFree, Saved, Kept, FailinfoOfOnetime,
       enable_call, Call
<1>4. CASE init_call(t)
  BY <1>4 DEF Inv, TypeOK, Locks, NoUseAfterFree, Saved, Kept, FailinfoOfOnetime,
       init_call, Call
<1>5. CASE init_wlock(t)
  BY <1>5 DEF Inv, TypeOK, Locks, NoUseAfterFree, Saved, Kept, FailinfoOfOnetime,
       init_wlock, ef_wlock
<1>6. CASE init(t)
  BY <1>6 DEF Inv, TypeOK, Locks, NoUseAfterFree, Saved, Kept, FailinfoOfOnetime, init
<1>7. CASE ef_wunlock(t)
  BY <1>7 DEF Inv, TypeOK, Locks, NoUseAfterFree, Saved, Kept, FailinfoOfOnetime,
       ef_wunlock, Return
<1>8. CASE fail_rlock(t)
  BY <1>8 DEF Inv, TypeOK, Locks, NoUseAfterFree, Saved, Kept, FailinfoOfOnetime,
       fail_rlock, ef_rlock
<1>9. CASE lookup_none(t)
  BY <1>9 DEF Inv, TypeOK, Locks, NoUseAfterFree, Saved, Kept, FailinfoOfOnetime,
       lookup_none
<1>10. CASE lookup(t)
  BY <1>10 DEF Inv, TypeOK, Locks, NoUseAfterFree, Saved, Kept, FailinfoOfOnetime,
       lookup
<1>11. CASE onetime_spent(t)
  BY <1>11 DEF Inv, TypeOK, Locks, NoUseAfterFree, Saved, Kept, FailinfoOfOnetime,
       onetime_spent
<1>12. CASE onetime_lock(t)
  BY <1>12 DEF Inv, TypeOK, Locks, NoUseAfterFree, Saved, Kept, FailinfoOfOnetime,
       onetime_lock
<1>13. CASE decide(t)
  BY <1>13 DEF Inv, TypeOK, Locks, NoUseAfterFree, Saved, Kept, FailinfoOfOnetime,
       decide
<1>14. CASE external_cb(t)
  <2>1. PICK i \in Infos :
           heap' = [heap EXCEPT ![cur[t]] =
                       Changed(heap[cur[t]], i, heap[cur[t]].onetime)]
    BY <1>14 DEF external_cb
  <2>2. pc[t] = "decide" /\ heap[cur[t]].method = "external" /\ cur[t] \in Pfs
    BY <1>14, UsedPf DEF external_cb
  <2>3. /\ pc' = [pc EXCEPT ![t] = pc'[t]] /\ pc'[t] \in {"set_failinfo", "not_failing"}
        /\ UNCHANGED <<cur, ret, last_failinfo, enabled>>
    BY <1>14 DEF external_cb, Inv, TypeOK
  <2>4. \A q \in Pfs : /\ heap'[q].method = heap[q].method
                       /\ heap'[q].onetime = heap[q].onetime
                       /\ heap'[q].failnum = heap'[q].failinfo
    BY <2>1, <2>2 DEF Changed, Inv, TypeOK, Saved
  <2>5. ASSUME NEW u \in Threads, pc'[u] = "get_failnum", Kept(u)'
        PROVE  last_failinfo'[u] = heap'[cur'[u]].failinfo
    <3>1. u # t /\ pc[u] = "get_failnum" /\ cur[u] \in Pfs
      BY <2>3, <2>5, UsedPf DEF Inv, TypeOK
    <3>2. Kept(u)
      BY <2>3, <2>4, <2>5, <3>1 DEF Kept
    <3>3. cur[u] # cur[t]
      BY <2>2, <3>1, <3>2 DEF Kept, OnetimeExclusive
    <3>. QED BY <2>1, <2>2, <2>3, <3>1, <3>2, <3>3 DEF Saved, Inv, TypeOK
  <2>6. ASSUME NEW u \in Threads, pc'[u] = "spend", Kept(u)'
        PROVE  last_failinfo'[u] = ret'[u]
    <3>1. u # t /\ pc[u] = "spend" /\ cur[u] \in Pfs
      BY <2>3, <2>6, UsedPf DEF Inv, TypeOK
    <3>2. Kept(u)
      BY <2>3, <2>4, <2>6, <3>1 DEF Kept
    <3>. QED BY <2>3, <3>1, <3>2 DEF Saved
  <2>7. ASSUME NEW u \in Threads, pc'[u] = "exit", ret'[u] # 0
        PROVE  /\ cur'[u] \in Pfs /\ \E k \in Keys : enabled'[k] = cur'[u]
               /\ Kept(u)' => last_failinfo'[u] = ret'[u]
    <3>1. u # t /\ pc[u] = "exit" /\ ret[u] # 0 /\ cur[u] \in Pfs
      BY <2>3, <2>7 DEF Inv, TypeOK, Saved
    <3>2. Kept(u)' => Kept(u)
      BY <2>3, <2>4, <3>1 DEF Kept
    <3>. QED BY <2>3, <3>1, <3>2 DEF Saved, FailinfoOfOnetime, Kept
  <2>. QED BY <2>4, <2>5, <2>6, <2>7 DEF Saved, FailinfoOfOnetime, Kept
<1>15. CASE not_failing(t)
  BY <1>15 DEF Inv, TypeOK, Locks, NoUseAfterFree, Saved, Kept, FailinfoOfOnetime,
       not_failing, onetime_unlock
<1>16. CASE set_failinfo(t)
  BY <1>16 DEF Inv, TypeOK, Locks, NoUseAfterFree, Saved, Kept, FailinfoOfOnetime,
       set_failinfo
<1>17. CASE get_failnum(t)
  BY <1>17 DEF Inv, TypeOK, Locks, NoUseAfterFree, Saved, Kept, FailinfoOfOnetime,
       get_failnum
<1>18. CASE spend(t)
  BY <1>18 DEF Inv, TypeOK, Locks, NoUseAfterFree, Saved, Kept, FailinfoOfOnetime,
       spend, onetime_unlock, Spent
<1>19. CASE fail_exit(t)
  BY <1>19 DEF Inv, TypeOK, Locks, NoUseAfterFree, Saved, Kept, FailinfoOfOnetime,
       fail_exit, Return
<1>20. CASE pf_create(t)
  <2>1. PICK p \in Pfs :
           /\ heap[p] = Freed
           /\ cur' = [cur EXCEPT ![t] = p]
           /\ heap' = [heap EXCEPT ![p] = NewPf(arg[t].key, arg[t].info,
                                                arg[t].onetime, arg[t].method)]
    BY <1>20 DEF pf_create
  <2>2. /\ pc[t] = "create" /\ pc' = [pc EXCEPT ![t] = "insert_pf"]
        /\ UNCHANGED <<enabled, ret, last_failinfo>>
    BY <1>20 DEF pf_create
  <2>3. \A k \in Keys : enabled[k] # p
    BY <2>1 DEF Inv, NoUseAfterFree
  <2>4. pc'[t] = "insert_pf" /\ \A u \in Threads \ {t} : pc'[u] = pc[u]
    BY <2>2 DEF Inv, TypeOK
  <2>5. \A u \in Threads \ {t} : cur'[u] = cur[u]
    BY <2>1 DEF Inv, TypeOK
  <2>6. \A q \in Pfs \ {p} : heap'[q] = heap[q]
    BY <2>1 DEF Inv, TypeOK
  <2>7. ASSUME NEW u \in Threads, pc'[u] \in UsesPf \/ (pc'[u] = "exit" /\ ret'[u] # 0)
        PROVE  /\ u # t /\ cur'[u] = cur[u] /\ cur[u] \in Pfs
               /\ heap'[cur[u]] = heap[cur[u]]
    <3>1. u # t /\ pc'[u] = pc[u] /\ cur'[u] = cur[u]
      BY <2>4, <2>5, <2>7
    <3>2. cur[u] \in Pfs /\ \E k \in Keys : enabled[k] = cur[u]
      BY <2>2, <2>7, <3>1 DEF Inv, NoUseAfterFree, Saved
    <3>. QED BY <2>3, <2>6, <3>1, <3>2
  <2>8. \A q \in Pfs : heap'[q].failnum = heap'[q].failinfo
    BY <2>1 DEF Inv, TypeOK, Saved
  <2>9. ASSUME NEW u \in Threads, pc'[u] \in UsesPf \/ (pc'[u] = "exit" /\ ret'[u] # 0)
        PROVE  (Kept(u)' <=> Kept(u)) /\ pc'[u] = pc[u]
    BY <2>4, <2>7, <2>9 DEF Kept
  <2>10. ASSUME NEW u \in Threads
         PROVE  /\ pc'[u] = "get_failnum" /\ Kept(u)'
                      => last_failinfo'[u] = heap'[cur'[u]].failinfo
                /\ pc'[u] = "spend" /\ Kept(u)' => last_failinfo'[u] = ret'[u]
    BY <2>2, <2>7, <2>9 DEF Saved
  <2>11. ASSUME NEW u \in Threads, pc'[u] = "exit", ret'[u] # 0
         PROVE  /\ cur'[u] \in Pfs /\ \E k \in Keys : enabled'[k] = cur'[u]
                /\ Kept(u)' => last_failinfo'[u] = ret'[u]
    BY <2>2, <2>7, <2>9, <2>11 DEF Saved, FailinfoOfOnetime, Kept
  <2>. QED BY <2>8, <2>10, <2>11 DEF Saved, FailinfoOfOnetime, Kept
<1>21. CASE pf_create_fails(t)
  BY <1>21 DEF Inv, TypeOK, Locks, NoUseAfterFree, Saved, Kept, FailinfoOfOnetime,
       pf_create_fails
<1>22. CASE enable_refused(t)
  BY <1>22 DEF Inv, TypeOK, Locks, NoUseAfterFree, Saved, Kept, FailinfoOfOnetime,
       enable_refused
<1>23. CASE insert_pf(t)
  BY <1>23 DEF Inv, TypeOK, Locks, NoUseAfterFree, Saved, Kept, FailinfoOfOnetime,
       insert_pf
<1>24. CASE insert_wlock(t)
  BY <1>24 DEF Inv, TypeOK, Locks, NoUseAfterFree, Saved, Kept, FailinfoOfOnetime,
       insert_wlock, ef_wlock
<1>25. CASE wtable_set(t)
  BY <1>25 DEF Inv, TypeOK, Locks, NoUseAfterFree, Saved, Kept, FailinfoOfOnetime,
       wtable_set, pf_free
<1>26. CASE disable_wlock(t)
  BY <1>26 DEF Inv, TypeOK, Locks, NoUseAfterFree, Saved, Kept, FailinfoOfOnetime,
       disable_wlock, ef_wlock
<1>27. CASE wtable_del(t)
  BY <1>27 DEF Inv, TypeOK, Locks, NoUseAfterFree, Saved, Kept, FailinfoOfOnetime,
       wtable_del, pf_free
<1>28. CASE wtable_set_fails(t)
  BY <1>28 DEF Inv, TypeOK, Locks, NoUseAfterFree, Saved, Kept, FailinfoOfOnetime,
       wtable_set_fails, Lose, pf_free
<1>29. CASE wtable_del_fails(t)
  BY <1>29 DEF Inv, TypeOK, Locks, NoUseAfterFree, Saved, Kept, FailinfoOfOnetime,
       wtable_del_fails, Lose, pf_free
<1>. QED BY <1>1, <1>2, <1>3, <1>4, <1>5, <1>6, <1>7, <1>8, <1>9, <1>10,
           <1>11, <1>12, <1>13, <1>14, <1>15, <1>16, <1>17, <1>18, <1>19,
           <1>20, <1>21, <1>22, <1>23, <1>24, <1>25, <1>26, <1>27, <1>28,
           <1>29 DEF Start, Step

\* The invariant holds before any call.
LEMMA InvInit == Init => Inv /\ OnetimeExclusive /\ Saved /\ FailinfoOfOnetime
<1>. SUFFICES ASSUME Init
              PROVE  Inv /\ OnetimeExclusive /\ Saved /\ FailinfoOfOnetime
  OBVIOUS
<1>1. TypeOK
  <2>1. arg \in [Threads -> [op : {"none", "init", "fail", "enable", "disable"},
                            key : Keys \cup {NULL}, info : Infos \cup {NULL},
                            onetime : BOOLEAN, method : Methods \cup {NULL}]]
    BY DEF Init
  <2>2. heap \in [Pfs -> PfInfo \cup {Freed}]
    BY DEF Init
  <2>3. calls \in [Threads -> 0..MaxCalls]
    BY DEF Init
  <2>4. pc \in [Threads -> OutsideAt]
    BY DEF Init
  <2>. QED BY <2>1, <2>2, <2>3, <2>4 DEF Init, TypeOK
<1>2. Locks /\ Args /\ Pending /\ NoUseAfterFree /\ RecursionGuard
  BY DEF Init, Locks, Args, Pending, NoUseAfterFree, RecursionGuard
<1>3. OnetimeExclusive /\ Saved /\ FailinfoOfOnetime
  BY DEF Init, OnetimeExclusive, Saved, FailinfoOfOnetime
<1>. QED BY <1>1, <1>2, <1>3 DEF Inv

\* It is inductive.
LEMMA InvNext == Inv /\ [Next]_vars => Inv'
<1>. SUFFICES ASSUME Inv, [Next]_vars PROVE Inv'
  OBVIOUS
<1>1. CASE UNCHANGED vars
  BY <1>1 DEF vars, Inv, TypeOK, Locks, Args, Pending, NoUseAfterFree,
              RecursionGuard
<1>2. ASSUME NEW t \in Threads, Start(t) \/ Step(t) PROVE Inv'
  BY <1>2, TypeStep, LocksStep, ArgsStep, PendingStep, NoUseAfterFreeStep,
     RecursionGuardStep DEF Inv
<1>. QED BY <1>1, <1>2 DEF Next

\* The invariant holds throughout.
THEOREM Invariance == Spec => []Inv
BY InvInit, InvNext, PTL DEF Spec

\* Every variable of the library keeps its type.
THEOREM TypeCorrect == Spec => []TypeOK
<1>1. Inv => TypeOK
  BY DEF Inv
<1>. QED BY <1>1, Invariance, PTL

\* However many threads enable, disable and check points of failure, fiu_fail()
\* never works on a struct pf_info that has been freed.
THEOREM NoUseAfterFreeCorrect == Spec => []NoUseAfterFree
<1>1. Inv => NoUseAfterFree
  BY DEF Inv
<1>. QED BY <1>1, Invariance, PTL

\* rec_count is 1 wherever the library can call out or block, and 0 outside.
THEOREM RecursionGuardCorrect == Spec => []RecursionGuard
<1>1. Inv => RecursionGuard
  BY DEF Inv
<1>. QED BY <1>1, Invariance, PTL

\* Callbacks that leave the flags alone keep the mutex with the thread that
\* decides about a ONETIME point.
LEMMA OnetimeNext ==
  ASSUME "flags" \notin CallbackChanges
  PROVE  Inv /\ OnetimeExclusive /\ [Next]_vars => OnetimeExclusive'
<1>. SUFFICES ASSUME Inv, OnetimeExclusive, [Next]_vars PROVE OnetimeExclusive'
  OBVIOUS
<1>1. CASE UNCHANGED vars
  BY <1>1 DEF vars, OnetimeExclusive
<1>. QED BY <1>1, OnetimeStep DEF Next

\* And what fiu_fail() has saved for its caller.
LEMMA SavedNext ==
  ASSUME "flags" \notin CallbackChanges
  PROVE  Inv /\ OnetimeExclusive /\ Saved /\ FailinfoOfOnetime /\ [Next]_vars
            => Saved' /\ FailinfoOfOnetime'
<1>. SUFFICES ASSUME Inv, OnetimeExclusive, Saved, FailinfoOfOnetime, [Next]_vars
              PROVE  Saved' /\ FailinfoOfOnetime'
  OBVIOUS
<1>1. CASE UNCHANGED vars
  BY <1>1 DEF vars, Saved, Kept, FailinfoOfOnetime
<1>. QED BY <1>1, SavedStep DEF Next

\* A ONETIME point is decided by one thread at a time, and by none once it has
\* failed, provided that callbacks do not change the flags.
THEOREM OnetimeCorrect ==
  ASSUME "flags" \notin CallbackChanges PROVE Spec => []OnetimeExclusive
BY OnetimeNext, InvInit, Invariance, PTL DEF Spec

\* The failnum that fiu_fail() returns and what fiu_failinfo() gives after it
\* were set together, whatever callbacks of other threads do to them meanwhile,
\* for a ONETIME point and for one without a callback; provided that callbacks
\* do not change the flags.
THEOREM FailinfoCorrect ==
  ASSUME "flags" \notin CallbackChanges PROVE Spec => []FailinfoOfOnetime
<1>1. Spec => []OnetimeExclusive
  BY OnetimeCorrect
<1>. QED BY <1>1, SavedNext, InvInit, Invariance, PTL DEF Spec
------------------------------------------------------------------------------
(***************************************************************************)
(* Fiu implements FiuAPI.                                                  *)
(***************************************************************************)
\* What a call is and whether it has its result, at every place of the code.
Places ==
    \A t \in Threads :
        /\ pc[t] = "idle" => arg[t] = NoCall
        /\ pc[t] \in {"init_wlock", "init"} => arg[t].op = "init"
        /\ pc[t] \in {"rlock", "lookup"} \cup UsesPf => arg[t].op = "fail"
        /\ pc[t] \in {"create"} \cup PendingAt => arg[t].op = "enable"
        /\ pc[t] \in {"disable_wlock", "delete"} => arg[t].op = "disable"
        /\ ret[t] # NULL <=> pc[t] \in {"spend", "exit", "wunlock", "refused"}

\* Nothing is enabled before fiu_init(), nor being enabled.
Unready ==
    /\ table # "usable" => \A k \in Keys : enabled[k] = NULL
    /\ ~initialized =>
          /\ \A k \in Keys : enabled[k] = NULL
          /\ \A t \in Threads : pc[t] \notin {"create"} \cup PendingAt

\* The point that a call of fiu_fail() works on is still one that a lookup of
\* its name may find, and a method that always fails has not been passed over.
Chosen ==
    \A t \in Threads : pc[t] \in UsesPf =>
        /\ arg[t].key \in Finals
        /\ cur[t] \in Candidates(enabled, arg[t].key) \ {NULL}
        /\ pc[t] = "not_failing" => heap[cur[t]].method # "always"

\* A new point is what the call asked for, and only ONETIME points are spent.
Contents ==
    /\ \A t \in Threads : pc[t] \in PendingAt =>
          heap[cur[t]] = NewPf(arg[t].key, arg[t].info, arg[t].onetime,
                               arg[t].method)
    /\ \A p \in Pfs : heap[p].failed_once => heap[p].onetime

RInv == Places /\ Unready /\ Chosen /\ Contents

\* Every step keeps the call and its result with the place in the code.
LEMMA PlacesStep ==
  ASSUME Inv, Places, NEW t \in Threads,
         Start(t) \/ Step(t)
  PROVE  Places'
<1>1. ASSUME NEW n \in Finals,
              fail_call(t, n)
       PROVE  Places'
  BY <1>1 DEF Inv, TypeOK, Places, fail_call, Call
<1>2. ASSUME NEW k \in Keys,
              disable_call(t, k)
       PROVE  Places'
  BY <1>2 DEF Inv, TypeOK, Places, disable_call, Call
<1>3. ASSUME NEW k \in Keys, NEW i \in Infos, NEW o \in BOOLEAN,
              NEW m \in Methods,
              enable_call(t, k, i, o, m)
       PROVE  Places'
  BY <1>3 DEF Inv, TypeOK, Places, enable_call, Call
<1>4. CASE init_call(t)
  BY <1>4 DEF Inv, TypeOK, Places, init_call, Call
<1>5. CASE init_wlock(t)
  BY <1>5 DEF Inv, TypeOK, Places, init_wlock, ef_wlock
<1>6. CASE init(t)
  <2>1. /\ pc[t] = "init" /\ pc' = [pc EXCEPT ![t] = "wunlock"]
        /\ UNCHANGED arg
        /\ \E r \in {0, -1} : ret' = [ret EXCEPT ![t] = r]
    BY <1>6 DEF init
  <2>. QED BY <2>1 DEF Inv, TypeOK, Places
<1>7. CASE ef_wunlock(t)
  BY <1>7 DEF Inv, TypeOK, Places, ef_wunlock, Return
<1>8. CASE fail_rlock(t)
  BY <1>8 DEF Inv, TypeOK, Places, fail_rlock, ef_rlock
<1>9. CASE lookup_none(t)
  BY <1>9 DEF Inv, TypeOK, Places, lookup_none
<1>10. CASE lookup(t)
  BY <1>10 DEF Inv, TypeOK, Places, lookup
<1>11. CASE onetime_spent(t)
  BY <1>11 DEF Inv, TypeOK, Places, onetime_spent
<1>12. CASE onetime_lock(t)
  BY <1>12 DEF Inv, TypeOK, Places, onetime_lock
<1>13. CASE decide(t)
  BY <1>13 DEF Inv, TypeOK, Places, decide
<1>14. CASE external_cb(t)
  <2>1. PICK to \in {"set_failinfo", "not_failing"} :
           pc[t] = "decide" /\ pc' = [pc EXCEPT ![t] = to]
    BY <1>14 DEF external_cb
  <2>2. UNCHANGED arg /\ UNCHANGED ret
    BY <1>14 DEF external_cb
  <2>. QED BY <2>1, <2>2 DEF Inv, TypeOK, Places
<1>15. CASE not_failing(t)
  BY <1>15 DEF Inv, TypeOK, Places, not_failing, onetime_unlock
<1>16. CASE set_failinfo(t)
  BY <1>16 DEF Inv, TypeOK, Places, set_failinfo
<1>17. CASE get_failnum(t)
  <2>1. heap[cur[t]].failnum \in Infos
    BY <1>17, UsedPf DEF get_failnum, PfInfo
  <2>2. PICK r \in Infos : ret' = [ret EXCEPT ![t] = r]
    BY <1>17, <2>1 DEF get_failnum
  <2>3. pc[t] = "get_failnum" /\ pc' = [pc EXCEPT ![t] = "spend"] /\ UNCHANGED arg
    BY <1>17 DEF get_failnum
  <2>. QED BY <2>2, <2>3 DEF Inv, TypeOK, Places
<1>18. CASE spend(t)
  BY <1>18 DEF Inv, TypeOK, Places, spend, onetime_unlock, Spent
<1>19. CASE fail_exit(t)
  BY <1>19 DEF Inv, TypeOK, Places, fail_exit, Return
<1>20. CASE pf_create(t)
  BY <1>20 DEF Inv, TypeOK, Places, pf_create
<1>21. CASE pf_create_fails(t)
  BY <1>21 DEF Inv, TypeOK, Places, pf_create_fails
<1>22. CASE enable_refused(t)
  BY <1>22 DEF Inv, TypeOK, Places, enable_refused
<1>23. CASE insert_pf(t)
  BY <1>23 DEF Inv, TypeOK, Places, insert_pf
<1>24. CASE insert_wlock(t)
  BY <1>24 DEF Inv, TypeOK, Places, insert_wlock, ef_wlock
<1>25. CASE wtable_set(t)
  BY <1>25 DEF Inv, TypeOK, Places, wtable_set, pf_free
<1>26. CASE disable_wlock(t)
  BY <1>26 DEF Inv, TypeOK, Places, disable_wlock, ef_wlock
<1>27. CASE wtable_del(t)
  BY <1>27 DEF Inv, TypeOK, Places, wtable_del, pf_free
<1>28. CASE wtable_set_fails(t)
  BY <1>28 DEF Inv, TypeOK, Places, wtable_set_fails, Lose, pf_free
<1>29. CASE wtable_del_fails(t)
  BY <1>29 DEF Inv, TypeOK, Places, wtable_del_fails, Lose, pf_free
<1>. QED BY <1>1, <1>2, <1>3, <1>4, <1>5, <1>6, <1>7, <1>8, <1>9, <1>10,
           <1>11, <1>12, <1>13, <1>14, <1>15, <1>16, <1>17, <1>18, <1>19,
           <1>20, <1>21, <1>22, <1>23, <1>24, <1>25, <1>26, <1>27, <1>28,
           <1>29 DEF Start, Step

\* Every step keeps the table empty until fiu_init() has succeeded.
LEMMA UnreadyStep ==
  ASSUME Inv, Unready, NEW t \in Threads,
         Start(t) \/ Step(t)
  PROVE  Unready'
<1>1. ASSUME NEW n \in Finals,
              fail_call(t, n)
       PROVE  Unready'
  BY <1>1 DEF Inv, TypeOK, Unready, fail_call, Call
<1>2. ASSUME NEW k \in Keys,
              disable_call(t, k)
       PROVE  Unready'
  BY <1>2 DEF Inv, TypeOK, Unready, disable_call, Call
<1>3. ASSUME NEW k \in Keys, NEW i \in Infos, NEW o \in BOOLEAN,
              NEW m \in Methods,
              enable_call(t, k, i, o, m)
       PROVE  Unready'
  BY <1>3 DEF Inv, TypeOK, Unready, enable_call, Call
<1>4. CASE init_call(t)
  BY <1>4 DEF Inv, TypeOK, Unready, init_call, Call
<1>5. CASE init_wlock(t)
  BY <1>5 DEF Inv, TypeOK, Unready, init_wlock, ef_wlock
<1>6. CASE init(t)
  BY <1>6 DEF Inv, TypeOK, Unready, init
<1>7. CASE ef_wunlock(t)
  BY <1>7 DEF Inv, TypeOK, Unready, ef_wunlock, Return
<1>8. CASE fail_rlock(t)
  BY <1>8 DEF Inv, TypeOK, Unready, fail_rlock, ef_rlock
<1>9. CASE lookup_none(t)
  BY <1>9 DEF Inv, TypeOK, Unready, lookup_none
<1>10. CASE lookup(t)
  BY <1>10 DEF Inv, TypeOK, Unready, lookup
<1>11. CASE onetime_spent(t)
  BY <1>11 DEF Inv, TypeOK, Unready, onetime_spent
<1>12. CASE onetime_lock(t)
  BY <1>12 DEF Inv, TypeOK, Unready, onetime_lock
<1>13. CASE decide(t)
  BY <1>13 DEF Inv, TypeOK, Unready, decide
<1>14. CASE external_cb(t)
  BY <1>14 DEF Inv, TypeOK, Unready, external_cb, Changed
<1>15. CASE not_failing(t)
  BY <1>15 DEF Inv, TypeOK, Unready, not_failing, onetime_unlock
<1>16. CASE set_failinfo(t)
  BY <1>16 DEF Inv, TypeOK, Unready, set_failinfo
<1>17. CASE get_failnum(t)
  BY <1>17 DEF Inv, TypeOK, Unready, get_failnum
<1>18. CASE spend(t)
  BY <1>18 DEF Inv, TypeOK, Unready, spend, onetime_unlock, Spent
<1>19. CASE fail_exit(t)
  BY <1>19 DEF Inv, TypeOK, Unready, fail_exit, Return
<1>20. CASE pf_create(t)
  BY <1>20 DEF Inv, TypeOK, Unready, pf_create
<1>21. CASE pf_create_fails(t)
  BY <1>21 DEF Inv, TypeOK, Unready, pf_create_fails
<1>22. CASE enable_refused(t)
  BY <1>22 DEF Inv, TypeOK, Unready, enable_refused
<1>23. CASE insert_pf(t)
  BY <1>23 DEF Inv, TypeOK, Unready, insert_pf
<1>24. CASE insert_wlock(t)
  BY <1>24 DEF Inv, TypeOK, Unready, insert_wlock, ef_wlock
<1>25. CASE wtable_set(t)
  BY <1>25 DEF Inv, TypeOK, Unready, wtable_set, pf_free
<1>26. CASE disable_wlock(t)
  BY <1>26 DEF Inv, TypeOK, Unready, disable_wlock, ef_wlock
<1>27. CASE wtable_del(t)
  BY <1>27 DEF Inv, TypeOK, Unready, wtable_del, pf_free
<1>28. CASE wtable_set_fails(t)
  BY <1>28 DEF Inv, TypeOK, Unready, wtable_set_fails, Lose, pf_free
<1>29. CASE wtable_del_fails(t)
  BY <1>29 DEF Inv, TypeOK, Unready, wtable_del_fails, Lose, pf_free
<1>. QED BY <1>1, <1>2, <1>3, <1>4, <1>5, <1>6, <1>7, <1>8, <1>9, <1>10,
           <1>11, <1>12, <1>13, <1>14, <1>15, <1>16, <1>17, <1>18, <1>19,
           <1>20, <1>21, <1>22, <1>23, <1>24, <1>25, <1>26, <1>27, <1>28,
           <1>29 DEF Start, Step

\* Every step keeps the point of a call among those its name may find.
LEMMA ChosenStep ==
  ASSUME CallbackChanges = {}, Inv, Chosen, NEW t \in Threads,
         Start(t) \/ Step(t)
  PROVE  Chosen'
<1>1. ASSUME NEW n \in Finals,
              fail_call(t, n)
       PROVE  Chosen'
  BY <1>1 DEF Inv, TypeOK, Locks, Args, NoUseAfterFree, Chosen, fail_call,
       Call
<1>2. ASSUME NEW k \in Keys,
              disable_call(t, k)
       PROVE  Chosen'
  BY <1>2 DEF Inv, TypeOK, Locks, Args, NoUseAfterFree, Chosen,
       disable_call, Call
<1>3. ASSUME NEW k \in Keys, NEW i \in Infos, NEW o \in BOOLEAN,
              NEW m \in Methods,
              enable_call(t, k, i, o, m)
       PROVE  Chosen'
  BY <1>3 DEF Inv, TypeOK, Locks, Args, NoUseAfterFree, Chosen, enable_call,
       Call
<1>4. CASE init_call(t)
  BY <1>4 DEF Inv, TypeOK, Locks, Args, NoUseAfterFree, Chosen, init_call,
       Call
<1>5. CASE init_wlock(t)
  BY <1>5 DEF Inv, TypeOK, Locks, Args, NoUseAfterFree, Chosen, init_wlock,
       ef_wlock
<1>6. CASE init(t)
  BY <1>6 DEF Inv, TypeOK, Locks, Args, NoUseAfterFree, Chosen, init
<1>7. CASE ef_wunlock(t)
  BY <1>7 DEF Inv, TypeOK, Locks, Args, NoUseAfterFree, Chosen, ef_wunlock,
       Return
<1>8. CASE fail_rlock(t)
  BY <1>8 DEF Inv, TypeOK, Locks, Args, NoUseAfterFree, Chosen, fail_rlock,
       ef_rlock
<1>9. CASE lookup_none(t)
  BY <1>9 DEF Inv, TypeOK, Locks, Args, NoUseAfterFree, Chosen, lookup_none
<1>10. CASE lookup(t)
  BY <1>10 DEF Inv, TypeOK, Locks, Args, NoUseAfterFree, Chosen, lookup
<1>11. CASE onetime_spent(t)
  BY <1>11 DEF Inv, TypeOK, Locks, Args, NoUseAfterFree, Chosen, onetime_spent
<1>12. CASE onetime_lock(t)
  BY <1>12 DEF Inv, TypeOK, Locks, Args, NoUseAfterFree, Chosen, onetime_lock
<1>13. CASE decide(t)
  BY <1>13 DEF Inv, TypeOK, Locks, Args, NoUseAfterFree, Chosen, decide
<1>14. CASE external_cb(t)
  BY <1>14 DEF Inv, TypeOK, Locks, Args, NoUseAfterFree, Chosen,
       external_cb, Changed
<1>15. CASE not_failing(t)
  BY <1>15 DEF Inv, TypeOK, Locks, Args, NoUseAfterFree, Chosen,
       not_failing, onetime_unlock
<1>16. CASE set_failinfo(t)
  BY <1>16 DEF Inv, TypeOK, Locks, Args, NoUseAfterFree, Chosen, set_failinfo
<1>17. CASE get_failnum(t)
  BY <1>17 DEF Inv, TypeOK, Locks, Args, NoUseAfterFree, Chosen, get_failnum
<1>18. CASE spend(t)
  BY <1>18 DEF Inv, TypeOK, Locks, Args, NoUseAfterFree, Chosen, spend,
       onetime_unlock, Spent
<1>19. CASE fail_exit(t)
  BY <1>19 DEF Inv, TypeOK, Locks, Args, NoUseAfterFree, Chosen, fail_exit,
       Return
<1>20. CASE pf_create(t)
  BY <1>20 DEF Inv, TypeOK, Locks, Args, NoUseAfterFree, Chosen, pf_create
<1>21. CASE pf_create_fails(t)
  BY <1>21 DEF Inv, TypeOK, Locks, Args, NoUseAfterFree, Chosen,
       pf_create_fails
<1>22. CASE enable_refused(t)
  BY <1>22 DEF Inv, TypeOK, Locks, Args, NoUseAfterFree, Chosen,
       enable_refused
<1>23. CASE insert_pf(t)
  BY <1>23 DEF Inv, TypeOK, Locks, Args, NoUseAfterFree, Chosen, insert_pf
<1>24. CASE insert_wlock(t)
  BY <1>24 DEF Inv, TypeOK, Locks, Args, NoUseAfterFree, Chosen,
       insert_wlock, ef_wlock
<1>25. CASE wtable_set(t)
  BY <1>25 DEF Inv, TypeOK, Locks, Args, NoUseAfterFree, Chosen, wtable_set,
       pf_free
<1>26. CASE disable_wlock(t)
  BY <1>26 DEF Inv, TypeOK, Locks, Args, NoUseAfterFree, Chosen,
       disable_wlock, ef_wlock
<1>27. CASE wtable_del(t)
  BY <1>27 DEF Inv, TypeOK, Locks, Args, NoUseAfterFree, Chosen, wtable_del,
       pf_free
<1>28. CASE wtable_set_fails(t)
  BY <1>28 DEF Inv, TypeOK, Locks, Args, NoUseAfterFree, Chosen,
       wtable_set_fails, Lose, pf_free
<1>29. CASE wtable_del_fails(t)
  BY <1>29 DEF Inv, TypeOK, Locks, Args, NoUseAfterFree, Chosen,
       wtable_del_fails, Lose, pf_free
<1>. QED BY <1>1, <1>2, <1>3, <1>4, <1>5, <1>6, <1>7, <1>8, <1>9, <1>10,
           <1>11, <1>12, <1>13, <1>14, <1>15, <1>16, <1>17, <1>18, <1>19,
           <1>20, <1>21, <1>22, <1>23, <1>24, <1>25, <1>26, <1>27, <1>28,
           <1>29 DEF Start, Step

\* Every step keeps new points as they were asked for, and only ONETIME
\* ones spent.
LEMMA ContentsStep ==
  ASSUME CallbackChanges = {}, Inv, Contents, NEW t \in Threads,
         Start(t) \/ Step(t)
  PROVE  Contents'
<1>. HIDE DEF NewPf
<1>1. ASSUME NEW n \in Finals,
              fail_call(t, n)
       PROVE  Contents'
  BY <1>1 DEF Inv, TypeOK, Contents, fail_call, Call
<1>2. ASSUME NEW k \in Keys,
              disable_call(t, k)
       PROVE  Contents'
  BY <1>2 DEF Inv, TypeOK, Contents, disable_call, Call
<1>3. ASSUME NEW k \in Keys, NEW i \in Infos, NEW o \in BOOLEAN,
              NEW m \in Methods,
              enable_call(t, k, i, o, m)
       PROVE  Contents'
  BY <1>3 DEF Inv, TypeOK, Contents, enable_call, Call
<1>4. CASE init_call(t)
  BY <1>4 DEF Inv, TypeOK, Contents, init_call, Call
<1>5. CASE init_wlock(t)
  BY <1>5 DEF Inv, TypeOK, Contents, init_wlock, ef_wlock
<1>6. CASE init(t)
  BY <1>6 DEF Inv, TypeOK, Contents, init
<1>7. CASE ef_wunlock(t)
  BY <1>7 DEF Inv, TypeOK, Contents, ef_wunlock, Return
<1>8. CASE fail_rlock(t)
  BY <1>8 DEF Inv, TypeOK, Contents, fail_rlock, ef_rlock
<1>9. CASE lookup_none(t)
  BY <1>9 DEF Inv, TypeOK, Contents, lookup_none
<1>10. CASE lookup(t)
  BY <1>10 DEF Inv, TypeOK, Contents, lookup
<1>11. CASE onetime_spent(t)
  BY <1>11 DEF Inv, TypeOK, Contents, onetime_spent
<1>12. CASE onetime_lock(t)
  BY <1>12 DEF Inv, TypeOK, Contents, onetime_lock
<1>13. CASE decide(t)
  BY <1>13 DEF Inv, TypeOK, Contents, decide
<1>14. CASE external_cb(t)
  BY <1>14 DEF Inv, TypeOK, Contents, Locks, Pending, NoUseAfterFree, PfInfo,
       external_cb, Changed
<1>15. CASE not_failing(t)
  BY <1>15 DEF Inv, TypeOK, Contents, not_failing, onetime_unlock
<1>16. CASE set_failinfo(t)
  BY <1>16 DEF Inv, TypeOK, Contents, set_failinfo
<1>17. CASE get_failnum(t)
  BY <1>17 DEF Inv, TypeOK, Contents, get_failnum
<1>18. CASE spend(t)
  BY <1>18 DEF Inv, TypeOK, Contents, Locks, Pending, NoUseAfterFree, PfInfo,
       spend, onetime_unlock, Spent
<1>19. CASE fail_exit(t)
  BY <1>19 DEF Inv, TypeOK, Contents, fail_exit, Return
<1>20. CASE pf_create(t)
  <2>1. PICK p \in Pfs :
           /\ heap[p] = Freed
           /\ cur' = [cur EXCEPT ![t] = p]
           /\ heap' = [heap EXCEPT ![p] = NewPf(arg[t].key, arg[t].info,
                                                arg[t].onetime, arg[t].method)]
    BY <1>20 DEF pf_create
  <2>2. pc' = [pc EXCEPT ![t] = "insert_pf"] /\ UNCHANGED arg
    BY <1>20 DEF pf_create
  <2>3. \A u \in Threads \ {t} : pc[u] \in PendingAt => cur[u] # p
    <3>1. Freed.name \notin Keys
      BY DEF NewPf
    <3>. HIDE DEF Freed
    <3>. QED BY <2>1, <3>1 DEF Inv, Pending, Args
  <2>4. ~heap'[p].failed_once
    BY <2>1 DEF NewPf, Inv, TypeOK
  <2>5. \A q \in Pfs \ {p} : heap'[q] = heap[q]
    BY <2>1 DEF Inv, TypeOK
  <2>6. \A u \in Threads : pc'[u] \in PendingAt =>
           heap'[cur'[u]] = NewPf(arg'[u].key, arg'[u].info, arg'[u].onetime,
                                  arg'[u].method)
    <3>. SUFFICES ASSUME NEW u \in Threads, pc'[u] \in PendingAt
                  PROVE  heap'[cur'[u]] =
                            NewPf(arg'[u].key, arg'[u].info, arg'[u].onetime,
                                  arg'[u].method)
      OBVIOUS
    <3>1. CASE u = t
      BY <3>1, <2>1, <2>2 DEF Inv, TypeOK
    <3>2. CASE u # t
      <4>1. pc[u] \in PendingAt /\ cur'[u] = cur[u] /\ cur[u] \in Pfs \ {p}
        BY <3>2, <2>1, <2>2, <2>3 DEF Inv, TypeOK, Pending
      <4>2. heap'[cur'[u]] = heap[cur[u]]
        BY <4>1, <2>5
      <4>. QED BY <4>1, <4>2, <2>2 DEF Contents
    <3>. QED BY <3>1, <3>2
  <2>7. \A q \in Pfs : heap'[q].failed_once => heap'[q].onetime
    BY <2>4, <2>5 DEF Contents
  <2>. QED BY <2>6, <2>7 DEF Contents
<1>21. CASE pf_create_fails(t)
  BY <1>21 DEF Inv, TypeOK, Contents, pf_create_fails
<1>22. CASE enable_refused(t)
  BY <1>22 DEF Inv, TypeOK, Contents, enable_refused
<1>23. CASE insert_pf(t)
  BY <1>23 DEF Inv, TypeOK, Contents, insert_pf
<1>24. CASE insert_wlock(t)
  BY <1>24 DEF Inv, TypeOK, Contents, insert_wlock, ef_wlock
<1>25. CASE wtable_set(t)
  <2>1. /\ pc[t] = "insert" /\ pc' = [pc EXCEPT ![t] = "wunlock"]
        /\ UNCHANGED <<arg, cur>>
        /\ heap' = pf_free(heap, enabled[arg[t].key]) /\ arg[t].key \in Keys
    BY <1>25 DEF wtable_set, Inv, Args
  <2>2. \A p \in Pfs : heap'[p] = heap[p] \/ heap'[p] = Freed
    BY <2>1 DEF pf_free, Inv, TypeOK
  <2>3. \A u \in Threads : pc'[u] \in PendingAt =>
           pc[u] \in PendingAt /\ heap'[cur[u]] = heap[cur[u]]
    BY <2>1 DEF pf_free, Inv, TypeOK, Pending
  <2>4. ~Freed.failed_once
    BY DEF NewPf
  <2>. HIDE DEF PendingAt, Freed
  <2>. QED BY <2>1, <2>2, <2>3, <2>4 DEF Contents
<1>26. CASE disable_wlock(t)
  BY <1>26 DEF Inv, TypeOK, Contents, disable_wlock, ef_wlock
<1>27. CASE wtable_del(t)
  <2>1. /\ pc[t] = "delete" /\ pc' = [pc EXCEPT ![t] = "wunlock"]
        /\ UNCHANGED <<arg, cur>>
        /\ heap' = pf_free(heap, enabled[arg[t].key]) /\ arg[t].key \in Keys
    BY <1>27 DEF wtable_del, Inv, Args
  <2>2. \A p \in Pfs : heap'[p] = heap[p] \/ heap'[p] = Freed
    BY <2>1 DEF pf_free, Inv, TypeOK
  <2>3. \A u \in Threads : pc'[u] \in PendingAt =>
           pc[u] \in PendingAt /\ heap'[cur[u]] = heap[cur[u]]
    BY <2>1 DEF pf_free, Inv, TypeOK, Pending
  <2>4. ~Freed.failed_once
    BY DEF NewPf
  <2>. HIDE DEF PendingAt, Freed
  <2>. QED BY <2>1, <2>2, <2>3, <2>4 DEF Contents
<1>28. CASE wtable_set_fails(t)
  <2>1. /\ pc[t] = "insert" /\ pc' = [pc EXCEPT ![t] = "wunlock"]
        /\ UNCHANGED <<arg, cur>>
        /\ heap' = pf_free(heap, enabled[arg[t].key]) \/ heap' = heap
        /\ arg[t].key \in Keys
    BY <1>28 DEF wtable_set_fails, Lose, Inv, Args
  <2>2. \A p \in Pfs : heap'[p] = heap[p] \/ heap'[p] = Freed
    BY <2>1 DEF pf_free, Inv, TypeOK
  <2>3. \A u \in Threads : pc'[u] \in PendingAt =>
           pc[u] \in PendingAt /\ heap'[cur[u]] = heap[cur[u]]
    <3>1. CASE heap' = heap
      BY <2>1, <3>1 DEF Inv, TypeOK
    <3>2. CASE heap' = pf_free(heap, enabled[arg[t].key])
      BY <2>1, <3>2 DEF pf_free, Inv, TypeOK, Pending
    <3>. QED BY <2>1, <3>1, <3>2
  <2>4. ~Freed.failed_once
    BY DEF NewPf
  <2>. HIDE DEF PendingAt, Freed
  <2>. QED BY <2>1, <2>2, <2>3, <2>4 DEF Contents
<1>29. CASE wtable_del_fails(t)
  <2>1. /\ pc[t] = "delete" /\ pc' = [pc EXCEPT ![t] = "wunlock"]
        /\ UNCHANGED <<arg, cur>>
        /\ heap' = pf_free(heap, enabled[arg[t].key]) /\ arg[t].key \in Keys
    BY <1>29 DEF wtable_del_fails, Lose, Inv, Args
  <2>2. \A p \in Pfs : heap'[p] = heap[p] \/ heap'[p] = Freed
    BY <2>1 DEF pf_free, Inv, TypeOK
  <2>3. \A u \in Threads : pc'[u] \in PendingAt =>
           pc[u] \in PendingAt /\ heap'[cur[u]] = heap[cur[u]]
    BY <2>1 DEF pf_free, Inv, TypeOK, Pending
  <2>4. ~Freed.failed_once
    BY DEF NewPf
  <2>. HIDE DEF PendingAt, Freed
  <2>. QED BY <2>1, <2>2, <2>3, <2>4 DEF Contents
<1>. QED BY <1>1, <1>2, <1>3, <1>4, <1>5, <1>6, <1>7, <1>8, <1>9, <1>10,
           <1>11, <1>12, <1>13, <1>14, <1>15, <1>16, <1>17, <1>18, <1>19,
           <1>20, <1>21, <1>22, <1>23, <1>24, <1>25, <1>26, <1>27, <1>28,
           <1>29 DEF Start, Step

LEMMA RInvInit == Init => RInv
<1>. SUFFICES ASSUME Init PROVE RInv
  OBVIOUS
<1>1. Places
  BY DEF Init, Places
<1>2. Unready /\ Chosen
  BY DEF Init, Unready, Chosen
<1>3. Contents
  BY DEF Init, Contents
<1>. QED BY <1>1, <1>2, <1>3 DEF RInv

LEMMA RInvNext ==
  ASSUME CallbackChanges = {}
  PROVE  Inv /\ RInv /\ [Next]_vars => RInv'
<1>. SUFFICES ASSUME Inv, RInv, [Next]_vars PROVE RInv'
  OBVIOUS
<1>1. CASE UNCHANGED vars
  BY <1>1 DEF vars, RInv, Places, Unready, Chosen, Contents
<1>2. ASSUME NEW t \in Threads, Start(t) \/ Step(t) PROVE RInv'
  BY <1>2, PlacesStep, UnreadyStep, ChosenStep, ContentsStep DEF RInv
<1>. QED BY <1>1, <1>2 DEF Next
------------------------------------------------------------------------------
Failing == {"get_failnum", "spend"}

\* What a step of t leaves alone.
OthersStay(t) ==
    \A u \in Threads \ {t} :
        pc'[u] = pc[u] /\ cur'[u] = cur[u] /\ ret'[u] = ret[u]

\* The points promised do not change when neither the table nor a point in it
\* does, and nobody begins or ceases to be failing.
LEMMA PointsStay ==
  ASSUME TypeOK, NEW t \in Threads, OthersStay(t),
         pc[t] \notin Failing, pc'[t] \notin Failing, enabled' = enabled,
         \A k \in Keys : enabled[k] # NULL =>
            heap'[enabled[k]] = heap[enabled[k]]
  PROVE  APIPoints' = APIPoints
<1>1. \A p \in Pfs : Spending(p)' <=> Spending(p)
  BY DEF Spending, OthersStay, Failing
<1>2. \A p \in Pfs : heap'[p] = heap[p] => APIPoint(p)' = APIPoint(p)
  BY <1>1 DEF APIPoint
<1>. QED BY <1>2 DEF APIPoints, TypeOK

\* The result of a call is its thread's own.
LEMMA ResultStays ==
  ASSUME TypeOK, NEW t \in Threads, OthersStay(t),
         \A u \in Threads \ {t} : pc[u] = "get_failnum" =>
            heap'[cur[u]].failnum = heap[cur[u]].failnum
  PROVE  APIResult' = [APIResult EXCEPT ![t] =
                          IF pc'[t] = "get_failnum" THEN heap'[cur'[t]].failnum
                          ELSE ret'[t]]
<1>1. \A u \in Threads \ {t} :
         (IF pc'[u] = "get_failnum" THEN heap'[cur'[u]].failnum ELSE ret'[u])
            = APIResult[u]
  BY DEF APIResult, OthersStay
<1>2. APIResult' = [u \in Threads |->
                       IF pc'[u] = "get_failnum" THEN heap'[cur'[u]].failnum
                       ELSE ret'[u]]
  BY DEF APIResult
<1>3. DOMAIN APIResult = Threads
  BY DEF APIResult
<1>. QED BY <1>1, <1>2, <1>3

\* Both together, for the steps that leave the table and the points alone.
LEMMA Quiet ==
  ASSUME Inv, NEW t \in Threads, OthersStay(t),
         pc[t] \notin Failing, pc'[t] \notin Failing, enabled' = enabled,
         \A k \in Keys : enabled[k] # NULL =>
            heap'[enabled[k]] = heap[enabled[k]]
  PROVE  /\ APIPoints' = APIPoints
         /\ APIResult' = [APIResult EXCEPT ![t] = ret'[t]]
         /\ APIResult[t] = ret[t]
<1>0. \A u \in Threads \ {t} : pc[u] = "get_failnum" =>
         heap'[cur[u]].failnum = heap[cur[u]].failnum
  BY DEF Inv, NoUseAfterFree
<1>1. APIResult' = [APIResult EXCEPT ![t] =
                       IF pc'[t] = "get_failnum" THEN heap'[cur'[t]].failnum
                       ELSE ret'[t]]
  BY <1>0, ResultStays DEF Inv
<1>2. APIResult[t] = ret[t]
  BY DEF APIResult, Failing
<1>3. APIPoints' = APIPoints
  BY PointsStay DEF Inv
<1>. QED BY <1>1, <1>2, <1>3 DEF Failing

\* An enabled point is a record.
LEMMA EnabledPoint ==
  ASSUME Inv, NEW k \in Keys
  PROVE  APIPoints[k] = NULL <=> enabled[k] = NULL
<1>1. ASSUME enabled[k] # NULL PROVE APIPoint(enabled[k]) # NULL
  <2>1. heap[enabled[k]] \in PfInfo
    BY <1>1 DEF Inv, TypeOK, NoUseAfterFree
  <2>2. APIPoint(enabled[k]) \in
           [failnum : Infos, failinfo : Infos, onetime : BOOLEAN,
            method : Methods, spent : BOOLEAN]
    BY <2>1 DEF APIPoint, PfInfo
  <2>. QED BY <2>2
<1>. QED BY <1>1 DEF APIPoints

\* The keys at which a lookup may end are the same here and there.
LEMMA CandidateKeysAre ==
  ASSUME Inv, NEW n \in Finals
  PROVE  API!CandidateKeys(n) = IF enabled[n] # NULL THEN {n}
                                ELSE Covering(enabled, n)
<1>1. \A k \in Keys : APIPoints[k] = NULL <=> enabled[k] = NULL
  BY EnabledPoint
<1>2. n \in Keys /\ Wildcards \subseteq Keys
  BY DEF Keys
<1>. QED BY <1>1, <1>2 DEF API!CandidateKeys, API!Covering, Covering

\* The point a call works on is at one of them.
LEMMA ChosenKey ==
  ASSUME Inv, Chosen, NEW t \in Threads, pc[t] \in UsesPf
  PROVE  \E k \in Keys : /\ k \in API!CandidateKeys(arg[t].key)
                         /\ enabled[k] = cur[t]
                         /\ APIPoints[k] = APIPoint(cur[t])
<1>1. /\ arg[t].key \in Finals
      /\ cur[t] \in Candidates(enabled, arg[t].key) \ {NULL}
  BY DEF Chosen
<1>2. PICK k \in Keys : /\ enabled[k] = cur[t]
                        /\ k \in IF enabled[arg[t].key] # NULL THEN {arg[t].key}
                                 ELSE Covering(enabled, arg[t].key)
  BY <1>1 DEF Candidates, Covering, Keys
<1>3. k \in API!CandidateKeys(arg[t].key)
  BY <1>1, <1>2, CandidateKeysAre
<1>. QED BY <1>1, <1>2, <1>3 DEF APIPoints

USE DEF API!vars

\* A step that only moves the thread on is not seen.
LEMMA Unseen ==
  ASSUME Inv, NEW t \in Threads, OthersStay(t),
         pc[t] \notin Failing, pc'[t] \notin Failing, enabled' = enabled,
         \A k \in Keys : enabled[k] # NULL =>
            heap'[enabled[k]] = heap[enabled[k]],
         ret' = ret, arg' = arg, initialized' = initialized, table' = table,
         last_failinfo' = last_failinfo
  PROVE  UNCHANGED API!vars
<1>1. /\ APIPoints' = APIPoints
      /\ APIResult' = [APIResult EXCEPT ![t] = ret'[t]]
      /\ APIResult[t] = ret[t]
  BY Quiet
<1>2. APIResult' = APIResult
  BY <1>1 DEF APIResult
<1>. QED BY <1>1, <1>2

\* The beginning of a call is an invocation.
LEMMA InvokeStep ==
  ASSUME Inv, Places, NEW t \in Threads, NEW c \in API!Call,
         NEW to \in {"init_wlock", "rlock", "create", "disable_wlock"},
         Call(t, c, to)
  PROVE  API!Invoke(t)
<1>1. OthersStay(t)
  BY DEF Call, OthersStay, Inv, TypeOK
<1>2. pc[t] \notin Failing /\ pc'[t] \notin Failing
  BY DEF Call, Inv, TypeOK, Failing
<1>3. /\ enabled' = enabled /\ heap' = heap /\ ret' = ret
      /\ initialized' = initialized /\ table' = table /\ last_failinfo' = last_failinfo
  BY DEF Call
<1>4. /\ APIPoints' = APIPoints
      /\ APIResult' = [APIResult EXCEPT ![t] = ret'[t]]
      /\ APIResult[t] = ret[t]
  BY <1>1, <1>2, <1>3, Quiet
<1>5. APIResult' = APIResult
  BY <1>3, <1>4 DEF APIResult
<1>6. arg[t] = API!NoCall
  BY DEF Call, Places, API!NoCall
<1>7. arg' = [arg EXCEPT ![t] = c]
  BY DEF Call
<1>. QED BY <1>3, <1>4, <1>5, <1>6, <1>7 DEF API!Invoke

\* The end of a call returns its result.
LEMMA ReturnStep ==
  ASSUME Inv, Places, NEW t \in Threads, OthersStay(t),
         pc[t] \in {"wunlock", "exit", "refused"}, pc'[t] = "idle",
         ret' = [ret EXCEPT ![t] = NULL], arg' = [arg EXCEPT ![t] = NoCall],
         enabled' = enabled, heap' = heap, initialized' = initialized, table' = table,
         last_failinfo' = last_failinfo
  PROVE  API!Return(t)
<1>1. pc[t] \notin Failing /\ pc'[t] \notin Failing
  BY DEF Failing
<1>2. /\ APIPoints' = APIPoints
      /\ APIResult' = [APIResult EXCEPT ![t] = ret'[t]]
      /\ APIResult[t] = ret[t]
  BY <1>1, Quiet
<1>3. ret'[t] = NULL /\ ret[t] # NULL
  BY DEF Places, Inv, TypeOK
<1>. QED BY <1>2, <1>3 DEF API!Return, API!NoCall

\* A call of fiu_fail() gives up: nothing was found, the point is spent, or it
\* decided not to fail.
LEMMA DoesNotFailStep ==
  ASSUME Inv, RInv, NEW t \in Threads,
         lookup_none(t) \/ onetime_spent(t) \/ not_failing(t)
  PROVE  API!DoFail(t)
<1>1. /\ pc[t] \in {"lookup", "onetime", "not_failing"}
      /\ pc' = [pc EXCEPT ![t] = "exit"]
      /\ ret' = [ret EXCEPT ![t] = 0]
      /\ UNCHANGED <<arg, cur>>
      /\ enabled' = enabled /\ heap' = heap /\ initialized' = initialized /\ table' = table
      /\ last_failinfo' = last_failinfo
  BY DEF lookup_none, onetime_spent, not_failing
<1>2. OthersStay(t) /\ pc[t] \notin Failing /\ pc'[t] \notin Failing /\ ret'[t] = 0
  BY <1>1 DEF OthersStay, Inv, TypeOK, Failing
<1>3. /\ APIPoints' = APIPoints
      /\ APIResult' = [APIResult EXCEPT ![t] = ret'[t]]
      /\ APIResult[t] = ret[t]
  BY <1>1, <1>2, Quiet
<1>4. API!Finish(t, 0)
  BY <1>1, <1>2, <1>3 DEF API!Finish
<1>5. API!Pending(t, "fail")
  BY <1>1, <1>3 DEF API!Pending, RInv, Places
<1>6. \/ API!CandidateKeys(arg[t].key) = {}
      \/ \E k \in API!CandidateKeys(arg[t].key) :
            APIPoints[k].spent \/ APIPoints[k].method # "always"
  <2>1. CASE lookup_none(t)
    <3>1. arg[t].key \in Finals
      BY <1>1, <2>1 DEF lookup_none, Inv, Args
    <3>2. enabled[arg[t].key] = NULL /\ Covering(enabled, arg[t].key) = {}
      <4>1. CASE table = "none"
        BY <3>1, <4>1 DEF RInv, Unready, Covering, Keys
      <4>2. CASE NULL \in Candidates(enabled, arg[t].key)
        BY <4>2 DEF Candidates, Covering
      <4>. QED BY <2>1, <4>1, <4>2 DEF lookup_none
    <3>. QED BY <3>1, <3>2, CandidateKeysAre
  <2>2. CASE onetime_spent(t)
    <3>1. PICK k \in Keys : /\ k \in API!CandidateKeys(arg[t].key)
                            /\ APIPoints[k] = APIPoint(cur[t])
      BY <2>2, ChosenKey DEF onetime_spent, RInv
    <3>2. /\ heap[cur[t]].failed_once
          /\ APIPoints[k].spent = (heap[cur[t]].failed_once \/
                (heap[cur[t]].onetime /\ Spending(cur[t])))
      BY <2>2, <3>1 DEF onetime_spent, APIPoint
    <3>3. APIPoints[k].spent
      BY ONLY <3>2
    <3>. QED BY <3>1, <3>3
  <2>3. CASE not_failing(t)
    <3>1. PICK k \in Keys : /\ k \in API!CandidateKeys(arg[t].key)
                            /\ APIPoints[k] = APIPoint(cur[t])
      BY <2>3, ChosenKey DEF not_failing, RInv
    <3>2. APIPoints[k].method # "always"
      BY <2>3, <3>1 DEF not_failing, APIPoint, RInv, Chosen
    <3>. QED BY <3>1, <3>2
  <2>. QED BY <2>1, <2>2, <2>3
<1>. QED BY <1>1, <1>3, <1>4, <1>5, <1>6 DEF API!DoFail, API!DoesNotFail

\* A call of fiu_fail() fails when it stores the failinfo.  A ONETIME point is
\* not spent then: its flag is not set, and the mutex keeps other threads away
\* from setting it.
LEMMA FailsStep ==
  ASSUME Inv, OnetimeExclusive, RInv, NEW t \in Threads, set_failinfo(t)
  PROVE  API!DoFail(t)
<1>. DEFINE p == cur[t]
<1>1. /\ pc[t] = "set_failinfo"
      /\ pc' = [pc EXCEPT ![t] = "get_failnum"]
      /\ last_failinfo' = [last_failinfo EXCEPT ![t] = heap[p].failinfo]
      /\ UNCHANGED <<arg, cur, ret, enabled, heap, mutex, initialized, table>>
  BY DEF set_failinfo
<1>2. p \in Pfs /\ heap[p] \in PfInfo
  BY <1>1, UsedPf
<1>3. PICK k \in Keys : /\ k \in API!CandidateKeys(arg[t].key)
                        /\ enabled[k] = p
                        /\ APIPoints[k] = APIPoint(p)
  BY <1>1, ChosenKey DEF RInv
<1>4. heap[p].onetime => ~heap[p].failed_once /\ ~Spending(p)
  <2>. SUFFICES ASSUME heap[p].onetime
                PROVE  ~heap[p].failed_once /\ ~Spending(p)
    OBVIOUS
  <2>1. mutex[p] = t /\ ~heap[p].failed_once
    BY <1>1 DEF OnetimeExclusive
  <2>2. ASSUME NEW u \in Threads, cur[u] = p, pc[u] \in {"get_failnum", "spend"}
        PROVE  FALSE
    BY <1>1, <2>1, <2>2 DEF OnetimeExclusive
  <2>. QED BY <2>1, <2>2 DEF Spending
<1>5. ~(heap[p].failed_once \/ (heap[p].onetime /\ Spending(p)))
  BY <1>2, <1>4 DEF RInv, Contents
<1>6. ~APIPoints[k].spent
  <2>1. APIPoints[k].spent =
           (heap[p].failed_once \/ (heap[p].onetime /\ Spending(p)))
    BY <1>3 DEF APIPoint
  <2>. QED BY ONLY <1>5, <2>1
<1>7. API!Pending(t, "fail")
  BY <1>1 DEF API!Pending, RInv, Places, APIResult
<1>8. API!Finish(t, APIPoints[k].failnum)
  <2>1. OthersStay(t)
    BY <1>1 DEF OthersStay, Inv, TypeOK
  <2>2. \A u \in Threads \ {t} : pc[u] = "get_failnum" =>
           heap'[cur[u]].failnum = heap[cur[u]].failnum
    BY <1>1
  <2>3. APIResult' = [APIResult EXCEPT ![t] =
                         IF pc'[t] = "get_failnum" THEN heap'[cur'[t]].failnum
                         ELSE ret'[t]]
    BY <2>1, <2>2, ResultStays DEF Inv
  <2>4. pc'[t] = "get_failnum" /\ heap'[cur'[t]].failnum = APIPoints[k].failnum
    BY <1>1, <1>3 DEF Inv, TypeOK, APIPoint
  <2>. QED BY <1>1, <2>3, <2>4 DEF API!Finish
<1>9. last_failinfo' = [last_failinfo EXCEPT ![t] = APIPoints[k].failinfo]
  BY <1>1, <1>3 DEF APIPoint
<1>10. \A q \in Pfs \ {p} : Spending(q)' <=> Spending(q)
  BY <1>1 DEF Spending, Inv, TypeOK
<1>11. Spending(p)'
  BY <1>1 DEF Spending, Inv, TypeOK
<1>12. APIPoint(p)' = IF heap[p].onetime THEN API!Spent(APIPoint(p))
                      ELSE APIPoint(p)
  <2>1. CASE heap[p].onetime
    <3>1. (heap'[p].failed_once \/ (heap'[p].onetime /\ Spending(p)')) = TRUE
      BY <1>1, <1>11, <2>1
    <3>. QED BY <1>1, <2>1, <3>1 DEF APIPoint, API!Spent
  <2>2. CASE ~heap[p].onetime
    <3>1. (heap'[p].failed_once \/ (heap'[p].onetime /\ Spending(p)'))
             = (heap[p].failed_once \/ (heap[p].onetime /\ Spending(p)))
      BY <1>1, <2>2
    <3>. QED BY <1>1, <2>2, <3>1 DEF APIPoint
  <2>. QED BY <2>1, <2>2
<1>13. \A q \in Pfs \ {p} : APIPoint(q)' = APIPoint(q)
  <2>. SUFFICES ASSUME NEW q \in Pfs \ {p} PROVE APIPoint(q)' = APIPoint(q)
    OBVIOUS
  <2>1. (heap'[q].failed_once \/ (heap'[q].onetime /\ Spending(q)'))
           = (heap[q].failed_once \/ (heap[q].onetime /\ Spending(q)))
    BY <1>1, <1>10
  <2>. QED BY <1>1, <2>1 DEF APIPoint
<1>14. \A j \in Keys \ {k} : enabled[j] # p
  BY <1>3, <1>2 DEF Inv, NoUseAfterFree
<1>15. APIPoints' = [APIPoints EXCEPT ![k] = IF @.onetime THEN API!Spent(@) ELSE @]
  <2>1. APIPoints[k].onetime = heap[p].onetime
    BY <1>3 DEF APIPoint
  <2>2. APIPoints'[k] = IF APIPoints[k].onetime THEN API!Spent(APIPoints[k])
                        ELSE APIPoints[k]
    BY <1>1, <1>2, <1>3, <1>12, <2>1 DEF APIPoints
  <2>3. \A j \in Keys \ {k} : APIPoints'[j] = APIPoints[j]
    BY <1>1, <1>13, <1>14 DEF APIPoints, Inv, TypeOK
  <2>4. DOMAIN APIPoints = Keys /\ APIPoints' = [j \in Keys |-> APIPoints'[j]]
    BY DEF APIPoints
  <2>. QED BY ONLY <2>2, <2>3, <2>4
<1>16. API!Fails(t, k)
  BY <1>1, <1>3, <1>6, <1>8, <1>9, <1>15 DEF API!Fails
<1>17. k \in API!Keys
  BY DEF API!Keys, Keys
<1>. QED BY <1>7, <1>16, <1>17 DEF API!DoFail

\* The failnum is read after the call has taken effect.
LEMMA GetFailnumStep ==
  ASSUME Inv, NEW t \in Threads, get_failnum(t)
  PROVE  UNCHANGED API!vars
<1>1. /\ pc[t] = "get_failnum" /\ pc' = [pc EXCEPT ![t] = "spend"]
      /\ ret' = [ret EXCEPT ![t] = heap[cur[t]].failnum]
      /\ UNCHANGED <<initialized, table, enabled, heap, last_failinfo, arg, cur>>
  BY DEF get_failnum
<1>2. \A p \in Pfs : Spending(p)' <=> Spending(p)
  BY <1>1 DEF Spending, Inv, TypeOK
<1>3. \A p \in Pfs : APIPoint(p)' = APIPoint(p)
  BY <1>1, <1>2 DEF APIPoint
<1>4. APIPoints' = APIPoints
  BY <1>1, <1>3 DEF APIPoints, Inv, TypeOK
<1>5. OthersStay(t) /\ pc'[t] = "spend" /\ ret'[t] = heap[cur[t]].failnum
  BY <1>1 DEF OthersStay, Inv, TypeOK
<1>6. APIResult' = [APIResult EXCEPT ![t] = ret'[t]]
  BY <1>1, <1>5, ResultStays DEF Inv
<1>7. APIResult[t] = ret'[t]
  BY <1>1, <1>5 DEF APIResult
<1>8. APIResult' = APIResult
  BY <1>6, <1>7 DEF APIResult
<1>. QED BY <1>1, <1>4, <1>8

\* A ONETIME point that is failing counts as spent before its flag is set.
LEMMA SpendStep ==
  ASSUME Inv, NEW t \in Threads, spend(t)
  PROVE  UNCHANGED API!vars
<1>. DEFINE p == cur[t]
<1>1. /\ pc[t] = "spend" /\ pc' = [pc EXCEPT ![t] = "exit"]
      /\ heap' = IF heap[p].onetime THEN [heap EXCEPT ![p] = Spent(heap[p])]
                 ELSE heap
      /\ UNCHANGED <<initialized, table, enabled, last_failinfo, arg, cur, ret>>
  BY DEF spend
<1>2. p \in Pfs /\ heap[p] \in PfInfo
  BY <1>1, UsedPf
<1>3. \A q \in Pfs \ {p} : heap'[q] = heap[q] /\ (Spending(q)' <=> Spending(q))
  BY <1>1, <1>2 DEF Spending, Inv, TypeOK
<1>4. \A q \in Pfs \ {p} : APIPoint(q)' = APIPoint(q)
  BY <1>3 DEF APIPoint
<1>5. APIPoint(p)' = APIPoint(p)
  <2>1. CASE heap[p].onetime
    <3>1. heap'[p] = Spent(heap[p])
      BY <1>1, <1>2, <2>1 DEF Inv, TypeOK
    <3>2. Spending(p)
      BY <1>1 DEF Spending
    <3>3. (heap'[p].failed_once \/ (heap'[p].onetime /\ Spending(p)'))
             = (heap[p].failed_once \/ (heap[p].onetime /\ Spending(p)))
      BY <2>1, <3>1, <3>2 DEF Spent
    <3>. QED BY <1>1, <3>1, <3>3 DEF APIPoint, Spent
  <2>2. CASE ~heap[p].onetime
    <3>1. heap' = heap
      BY <1>1, <2>2
    <3>2. (heap'[p].failed_once \/ (heap'[p].onetime /\ Spending(p)'))
             = (heap[p].failed_once \/ (heap[p].onetime /\ Spending(p)))
      BY <2>2, <3>1
    <3>. QED BY <1>1, <3>1, <3>2 DEF APIPoint
  <2>. QED BY <2>1, <2>2
<1>6. APIPoints' = APIPoints
  BY <1>1, <1>4, <1>5 DEF APIPoints, Inv, TypeOK
<1>7. OthersStay(t) /\ pc'[t] = "exit" /\ ret'[t] = ret[t]
  BY <1>1 DEF OthersStay, Inv, TypeOK
<1>8. \A u \in Threads \ {t} : pc[u] = "get_failnum" =>
         heap'[cur[u]].failnum = heap[cur[u]].failnum
  BY <1>1, <1>2 DEF Spent, Inv, TypeOK
<1>9. APIResult' = [APIResult EXCEPT ![t] = ret[t]]
  BY <1>7, <1>8, ResultStays DEF Inv
<1>10. APIResult' = APIResult
  BY <1>1, <1>9 DEF APIResult
<1>. QED BY <1>1, <1>6, <1>10

\* The new point is not in the table yet.
LEMMA CreateStep ==
  ASSUME Inv, NEW t \in Threads, pf_create(t)
  PROVE  UNCHANGED API!vars
<1>1. PICK p \in Pfs :
         /\ heap[p] = Freed
         /\ cur' = [cur EXCEPT ![t] = p]
         /\ heap' = [heap EXCEPT ![p] = NewPf(arg[t].key, arg[t].info,
                                              arg[t].onetime, arg[t].method)]
  BY DEF pf_create
<1>2. /\ pc[t] = "create" /\ pc' = [pc EXCEPT ![t] = "insert_pf"]
      /\ initialized' = initialized /\ table' = table /\ enabled' = enabled
      /\ last_failinfo' = last_failinfo /\ arg' = arg /\ ret' = ret
  BY DEF pf_create
<1>3. OthersStay(t) /\ pc[t] \notin Failing /\ pc'[t] \notin Failing
  BY <1>1, <1>2 DEF OthersStay, Inv, TypeOK, Failing
<1>4. \A k \in Keys : enabled[k] # NULL => heap'[enabled[k]] = heap[enabled[k]]
  <2>1. Freed.name \notin Keys
    OBVIOUS
  <2>2. \A k \in Keys : enabled[k] # NULL => enabled[k] \in Pfs \ {p}
    BY <1>1, <2>1 DEF Inv, TypeOK, NoUseAfterFree
  <2>. QED BY <1>1, <2>2 DEF Inv, TypeOK
<1>. QED BY <1>2, <1>3, <1>4, Unseen

\* An allocation that fails leaves everything as it was.
LEMMA CreateFailsStep ==
  ASSUME Inv, Places, NEW t \in Threads, pf_create_fails(t)
  PROVE  API!DoEnable(t)
<1>1. /\ pc[t] = "create" /\ pc' = [pc EXCEPT ![t] = "refused"]
      /\ ret' = [ret EXCEPT ![t] = -1]
      /\ UNCHANGED <<arg, cur>>
      /\ enabled' = enabled /\ heap' = heap /\ initialized' = initialized /\ table' = table
      /\ last_failinfo' = last_failinfo
  BY DEF pf_create_fails
<1>2. /\ OthersStay(t) /\ pc[t] \notin Failing /\ pc'[t] \notin Failing
      /\ ret'[t] = -1
  BY <1>1 DEF OthersStay, Inv, TypeOK, Failing
<1>3. /\ APIPoints' = APIPoints
      /\ APIResult' = [APIResult EXCEPT ![t] = ret'[t]]
      /\ APIResult[t] = ret[t]
  BY <1>1, <1>2, Quiet
<1>4. API!Pending(t, "enable")
  BY <1>1, <1>3 DEF API!Pending, Places
<1>. QED BY <1>1, <1>2, <1>3, <1>4 DEF API!DoEnable, API!Finish

\* A writer is alone: nobody is failing.
LEMMA Alone ==
  ASSUME Inv, NEW t \in Threads, pc[t] \in WriterAt
  PROVE  \A u \in Threads : pc[u] \notin UsesPf
BY DEF Inv, Locks

\* A set puts the point that was asked for in the place of the old one.
LEMMA SetStep ==
  ASSUME Inv, RInv, NEW t \in Threads, wtable_set(t)
  PROVE  API!DoEnable(t)
<1>. DEFINE k0 == arg[t].key
            p  == cur[t]
<1>1. /\ pc[t] = "insert" /\ pc' = [pc EXCEPT ![t] = "wunlock"]
      /\ enabled' = [enabled EXCEPT ![k0] = p]
      /\ heap' = pf_free(heap, enabled[k0])
      /\ ret' = [ret EXCEPT ![t] = 0]
      /\ cur' = cur /\ arg' = arg
      /\ initialized' = initialized /\ last_failinfo' = last_failinfo
      /\ table = "usable" /\ table' = table
  BY DEF wtable_set
<1>2. /\ k0 \in Keys /\ p \in Pfs /\ \A k \in Keys : enabled[k] # p
      /\ heap[p] = NewPf(arg[t].key, arg[t].info, arg[t].onetime, arg[t].method)
  BY <1>1 DEF Inv, Args, Pending, RInv, Contents
<1>3. \A u \in Threads : pc[u] \notin Failing /\ pc'[u] \notin Failing
  BY <1>1, Alone DEF Failing, Inv, TypeOK
<1>4. \A q : ~Spending(q) /\ ~Spending(q)'
  BY <1>3 DEF Spending, Failing
<1>5. heap'[p] = heap[p]
  BY <1>1, <1>2 DEF pf_free, Inv, TypeOK
<1>6. APIPoint(p)' = API!Point(arg[t])
  <2>1. (heap'[p].failed_once \/ (heap'[p].onetime /\ Spending(p)')) = FALSE
    BY <1>1, <1>2, <1>4, <1>5
  <2>2. APIPoint(p)' =
           [failnum |-> heap'[p].failnum, failinfo |-> heap'[p].failinfo,
            onetime |-> heap'[p].onetime, method |-> heap'[p].method,
            spent |-> heap'[p].failed_once
                         \/ (heap'[p].onetime /\ Spending(p)')]
    BY <1>1 DEF APIPoint
  <2>3. /\ heap'[p].failnum = arg[t].info /\ heap'[p].failinfo = arg[t].info
        /\ heap'[p].onetime = arg[t].onetime /\ heap'[p].method = arg[t].method
    BY <1>2, <1>5
  <2>. QED BY ONLY <2>1, <2>2, <2>3 DEF API!Point
<1>7. ASSUME NEW k \in Keys \ {k0} PROVE APIPoints'[k] = APIPoints[k]
  <2>1. enabled'[k] = enabled[k]
    BY <1>1 DEF Inv, TypeOK
  <2>2. CASE enabled[k] = NULL
    BY <2>1, <2>2 DEF APIPoints
  <2>3. CASE enabled[k] # NULL
    <3>. DEFINE q == enabled[k]
    <3>1. q \in Pfs /\ q # enabled[k0]
      BY <1>2, <2>3 DEF Inv, TypeOK, NoUseAfterFree
    <3>2. heap'[q] = heap[q]
      BY <1>1, <3>1 DEF pf_free, Inv, TypeOK
    <3>3. (heap'[q].failed_once \/ (heap'[q].onetime /\ Spending(q)'))
             = (heap[q].failed_once \/ (heap[q].onetime /\ Spending(q)))
      BY <1>4, <3>2
    <3>. QED BY <2>1, <2>3, <3>2, <3>3 DEF APIPoints, APIPoint
  <2>. QED BY <2>2, <2>3
<1>8. APIPoints'[k0] = API!Point(arg[t])
  <2>1. enabled'[k0] = p /\ p # NULL
    BY <1>1, <1>2 DEF Inv, TypeOK
  <2>. QED BY <1>1, <1>2, <1>6, <2>1 DEF APIPoints
<1>9. APIPoints' = [APIPoints EXCEPT ![k0] = API!Point(arg[t])]
  <2>1. DOMAIN APIPoints = Keys /\ APIPoints' = [j \in Keys |-> APIPoints'[j]]
    BY DEF APIPoints
  <2>. QED BY <1>7, <1>8, <2>1
<1>10. OthersStay(t) /\ pc'[t] = "wunlock" /\ ret'[t] = 0 /\ ret[t] = NULL
  BY <1>1 DEF OthersStay, Inv, TypeOK, RInv, Places
<1>11. APIResult' = [APIResult EXCEPT ![t] = 0]
  BY <1>3, <1>10, ResultStays DEF Inv, Failing
<1>12. API!Pending(t, "enable")
  BY <1>1, <1>10 DEF API!Pending, APIResult, RInv, Places
<1>. QED BY <1>1, <1>9, <1>11, <1>12 DEF API!DoEnable, API!Finish

\* A delete takes the point out, if there is one.
LEMMA DeleteStep ==
  ASSUME Inv, RInv, NEW t \in Threads, wtable_del(t)
  PROVE  API!DoDisable(t)
<1>. DEFINE k0 == arg[t].key
            r  == IF enabled[k0] = NULL THEN -1 ELSE 0
<1>1. /\ pc[t] = "delete" /\ pc' = [pc EXCEPT ![t] = "wunlock"]
      /\ enabled' = [enabled EXCEPT ![k0] = NULL]
      /\ heap' = pf_free(heap, enabled[k0])
      /\ ret' = [ret EXCEPT ![t] = r]
      /\ cur' = cur /\ arg' = arg
      /\ initialized' = initialized /\ last_failinfo' = last_failinfo
      /\ table = "usable" /\ table' = table
  BY DEF wtable_del
<1>2. k0 \in Keys
  BY <1>1 DEF Inv, Args
<1>3. \A u \in Threads : pc[u] \notin Failing /\ pc'[u] \notin Failing
  BY <1>1, Alone DEF Failing, Inv, TypeOK
<1>4. \A q : ~Spending(q) /\ ~Spending(q)'
  BY <1>3 DEF Spending, Failing
<1>5. ASSUME NEW k \in Keys \ {k0} PROVE APIPoints'[k] = APIPoints[k]
  <2>1. enabled'[k] = enabled[k]
    BY <1>1 DEF Inv, TypeOK
  <2>2. CASE enabled[k] = NULL
    BY <2>1, <2>2 DEF APIPoints
  <2>3. CASE enabled[k] # NULL
    <3>. DEFINE q == enabled[k]
    <3>1. q \in Pfs /\ q # enabled[k0]
      BY <1>2, <2>3 DEF Inv, TypeOK, NoUseAfterFree
    <3>2. heap'[q] = heap[q]
      BY <1>1, <3>1 DEF pf_free, Inv, TypeOK
    <3>3. (heap'[q].failed_once \/ (heap'[q].onetime /\ Spending(q)'))
             = (heap[q].failed_once \/ (heap[q].onetime /\ Spending(q)))
      BY <1>4, <3>2
    <3>. QED BY <2>1, <2>3, <3>2, <3>3 DEF APIPoints, APIPoint
  <2>. QED BY <2>2, <2>3
<1>6. APIPoints'[k0] = NULL
  BY <1>1, <1>2 DEF APIPoints, Inv, TypeOK
<1>7. APIPoints' = [APIPoints EXCEPT ![k0] = NULL]
  <2>1. DOMAIN APIPoints = Keys /\ APIPoints' = [j \in Keys |-> APIPoints'[j]]
    BY DEF APIPoints
  <2>. QED BY <1>5, <1>6, <2>1
<1>8. OthersStay(t) /\ pc'[t] = "wunlock" /\ ret'[t] = r /\ ret[t] = NULL
  BY <1>1 DEF OthersStay, Inv, TypeOK, RInv, Places
<1>9. APIResult' = [APIResult EXCEPT ![t] = r]
  BY <1>3, <1>8, ResultStays DEF Inv, Failing
<1>10. API!Pending(t, "disable")
  BY <1>1, <1>8 DEF API!Pending, APIResult, RInv, Places
<1>11. r = IF APIPoints[k0] = NULL THEN -1 ELSE 0
  BY <1>2, EnabledPoint
<1>12. API!Finish(t, IF APIPoints[k0] = NULL THEN -1 ELSE 0)
  BY <1>1, <1>9, <1>11 DEF API!Finish
<1>. QED BY <1>1, <1>7, <1>10, <1>12 DEF API!DoDisable

\* A failed resize loses every point, and the call answers -1.
LEMMA LoseStep ==
  ASSUME Inv, RInv, NEW t \in Threads,
         Goto(t, "insert", "wunlock") \/ Goto(t, "delete", "wunlock"), Lose(t)
  PROVE  /\ API!Lose(t)
         /\ arg' = arg /\ initialized' = initialized
         /\ last_failinfo' = last_failinfo /\ ret[t] = NULL
<1>1. /\ pc[t] \in {"insert", "delete"} /\ pc' = [pc EXCEPT ![t] = "wunlock"]
      /\ enabled' = [k \in Keys |-> NULL]
      /\ ret' = [ret EXCEPT ![t] = -1]
      /\ cur' = cur /\ arg' = arg /\ table' = "lost"
      /\ initialized' = initialized /\ last_failinfo' = last_failinfo
  BY DEF Lose
<1>2. \A u \in Threads : pc[u] \notin Failing /\ pc'[u] \notin Failing
  BY <1>1, Alone DEF Failing, Inv, TypeOK
<1>3. APIPoints' = [k \in Keys |-> NULL]
  BY <1>1 DEF APIPoints
<1>4. OthersStay(t) /\ pc'[t] = "wunlock" /\ ret'[t] = -1 /\ ret[t] = NULL
  BY <1>1 DEF OthersStay, Inv, TypeOK, RInv, Places
<1>5. APIResult' = [APIResult EXCEPT ![t] = -1]
  BY <1>2, <1>4, ResultStays DEF Inv, Failing
<1>6. API!Keys = Keys
  BY DEF API!Keys, Keys
<1>. QED BY <1>1, <1>3, <1>4, <1>5, <1>6 DEF API!Lose, API!Finish

\* The set that loses the table.
LEMMA SetFailsStep ==
  ASSUME Inv, RInv, NEW t \in Threads, wtable_set_fails(t)
  PROVE  API!DoEnable(t)
<1>1. /\ pc[t] = "insert" /\ table = "usable"
      /\ Goto(t, "insert", "wunlock") /\ Lose(t)
  BY DEF wtable_set_fails, Lose
<1>2. /\ API!Lose(t) /\ arg' = arg /\ initialized' = initialized
      /\ last_failinfo' = last_failinfo /\ ret[t] = NULL
  BY <1>1, LoseStep
<1>3. API!Pending(t, "enable")
  BY <1>1, <1>2 DEF API!Pending, APIResult, RInv, Places
<1>. QED BY <1>1, <1>2, <1>3 DEF API!DoEnable

\* The delete that does.
LEMMA DeleteFailsStep ==
  ASSUME Inv, RInv, NEW t \in Threads, wtable_del_fails(t)
  PROVE  API!DoDisable(t)
<1>1. /\ pc[t] = "delete" /\ table = "usable" /\ enabled[arg[t].key] # NULL
      /\ Goto(t, "delete", "wunlock") /\ Lose(t)
  BY DEF wtable_del_fails, Lose
<1>2. /\ API!Lose(t) /\ arg' = arg /\ initialized' = initialized
      /\ last_failinfo' = last_failinfo /\ ret[t] = NULL
  BY <1>1, LoseStep
<1>3. API!Pending(t, "disable")
  BY <1>1, <1>2 DEF API!Pending, APIResult, RInv, Places
<1>4. APIPoints[arg[t].key] # NULL
  BY <1>1, EnabledPoint DEF Inv, Args
<1>. QED BY <1>1, <1>2, <1>3, <1>4 DEF API!DoDisable

\* fiu_init() makes a new table only before the first has been used.
LEMMA InitStep ==
  ASSUME Inv, RInv, NEW t \in Threads, init(t)
  PROVE  API!DoInit(t)
<1>1. /\ pc[t] = "init" /\ pc' = [pc EXCEPT ![t] = "wunlock"]
      /\ cur' = cur /\ arg' = arg /\ heap' = heap
      /\ last_failinfo' = last_failinfo
      /\ enabled' = enabled \/ (~initialized /\ enabled' = [k \in Keys |-> NULL])
  BY DEF init
<1>2. enabled' = enabled
  BY <1>1 DEF RInv, Unready, Inv, TypeOK
<1>3. PICK r \in {0, -1} :
         /\ ret' = [ret EXCEPT ![t] = r]
         /\ \/ r = 0 /\ initialized' = TRUE
            \/ r = -1 /\ ~initialized /\ initialized' = initialized
         /\ initialized => r = 0 /\ table' = table
  BY DEF init, Inv, TypeOK
<1>4. /\ OthersStay(t) /\ pc[t] \notin Failing /\ pc'[t] \notin Failing
      /\ ret'[t] = r
  BY <1>1, <1>3 DEF OthersStay, Inv, TypeOK, Failing
<1>5. /\ APIPoints' = APIPoints
      /\ APIResult' = [APIResult EXCEPT ![t] = ret'[t]]
      /\ APIResult[t] = ret[t]
  BY <1>1, <1>2, <1>4, Quiet
<1>6. API!Pending(t, "init")
  BY <1>1, <1>5 DEF API!Pending, RInv, Places
<1>7. API!Finish(t, r)
  BY <1>1, <1>4, <1>5 DEF API!Finish
<1>8. (table = "usable")' \in BOOLEAN
  OBVIOUS
<1>. QED BY <1>1, <1>3, <1>5, <1>6, <1>7, <1>8 DEF API!DoInit

\* Every step of a thread is a step of FiuAPI, or is not seen there.
LEMMA APIStep ==
  ASSUME CallbackChanges = {}, Inv, OnetimeExclusive, Saved, RInv,
         NEW t \in Threads, Start(t) \/ Step(t)
  PROVE  API!Next \/ UNCHANGED API!vars
<1>. SUFFICES \/ API!Invoke(t) \/ API!Return(t) \/ API!DoInit(t)
              \/ API!DoFail(t) \/ API!DoEnable(t) \/ API!DoDisable(t)
              \/ UNCHANGED API!vars
  BY DEF API!Next
<1>1. CASE Start(t)
  <2>1. ASSUME NEW n \in Finals, fail_call(t, n) PROVE API!Invoke(t)
    <3>1. Request("fail", n) \in API!Call
      BY DEF API!Call, API!Keys, Keys
    <3>. QED BY <2>1, <3>1, InvokeStep DEF fail_call, RInv
  <2>2. ASSUME NEW k \in Keys, disable_call(t, k) PROVE API!Invoke(t)
    <3>1. Request("disable", k) \in API!Call
      BY DEF API!Call, API!Keys, Keys
    <3>. QED BY <2>2, <3>1, InvokeStep DEF disable_call, RInv
  <2>3. ASSUME NEW k \in Keys, NEW i \in Infos, NEW o \in BOOLEAN,
               NEW m \in Methods, enable_call(t, k, i, o, m)
        PROVE  API!Invoke(t)
    <3>. DEFINE c == [op |-> "enable", key |-> k, info |-> i, onetime |-> o,
                      method |-> m]
    <3>1. c \in API!Call
      BY DEF API!Call, API!Keys, Keys
    <3>2. Call(t, c, "create")
      BY <2>3 DEF enable_call
    <3>. HIDE DEF c
    <3>. QED BY <3>1, <3>2, InvokeStep DEF RInv
  <2>4. ASSUME init_call(t) PROVE API!Invoke(t)
    <3>1. Request("init", NULL) \in API!Call
      BY DEF API!Call, API!Keys, Keys
    <3>. QED BY <2>4, <3>1, InvokeStep DEF init_call, RInv
  <2>. QED BY <1>1, <2>1, <2>2, <2>3, <2>4 DEF Start
<1>2. CASE \/ init_wlock(t) \/ fail_rlock(t) \/ insert_wlock(t)
           \/ disable_wlock(t) \/ insert_pf(t)
           \/ lookup(t) \/ onetime_lock(t) \/ decide(t)
  <2>1. /\ enabled' = enabled /\ heap' = heap
        /\ ret' = ret /\ arg' = arg /\ initialized' = initialized /\ table' = table
        /\ last_failinfo' = last_failinfo
    BY <1>2 DEF init_wlock, fail_rlock, insert_wlock, disable_wlock, insert_pf,
                lookup, onetime_lock, decide, ef_wlock, ef_rlock
  <2>2. /\ pc[t] \notin Failing
        /\ \E to \in UsesPf \cup ReaderAt \cup WriterAt \cup {"insert_wlock"} :
              to \notin Failing /\ pc' = [pc EXCEPT ![t] = to]
        /\ cur' = cur \/ \E p : cur' = [cur EXCEPT ![t] = p]
    BY <1>2 DEF init_wlock, fail_rlock, insert_wlock, disable_wlock, insert_pf,
                lookup, onetime_lock, decide, ef_wlock, ef_rlock, Failing
  <2>3. OthersStay(t) /\ pc[t] \notin Failing /\ pc'[t] \notin Failing
    BY <2>1, <2>2 DEF OthersStay, Inv, TypeOK
  <2>. QED BY <2>1, <2>3, Unseen
<1>3. CASE external_cb(t)
  <2>1. /\ pc[t] = "decide"
        /\ \E to \in {"set_failinfo", "not_failing"} :
              pc' = [pc EXCEPT ![t] = to]
        /\ enabled' = enabled /\ ret' = ret /\ arg' = arg /\ cur' = cur
        /\ initialized' = initialized /\ table' = table /\ last_failinfo' = last_failinfo
    BY <1>3 DEF external_cb
  <2>2. heap' = heap
    <3>1. heap[cur[t]] \in PfInfo /\ cur[t] \in Pfs
      BY <2>1, UsedPf
    <3>2. heap' = [heap EXCEPT ![cur[t]] =
                      Changed(heap[cur[t]], heap[cur[t]].failnum,
                              heap[cur[t]].onetime)]
      BY <1>3 DEF external_cb
    <3>3. Changed(heap[cur[t]], heap[cur[t]].failnum, heap[cur[t]].onetime)
             = heap[cur[t]]
      <4>1. heap[cur[t]].failinfo = heap[cur[t]].failnum
        BY <3>1 DEF Saved
      <4>. QED BY <3>1, <4>1 DEF Changed, PfInfo
    <3>. QED BY <3>1, <3>2, <3>3 DEF Inv, TypeOK
  <2>3. OthersStay(t) /\ pc[t] \notin Failing /\ pc'[t] \notin Failing
    BY <2>1 DEF OthersStay, Inv, TypeOK, Failing
  <2>. QED BY <2>1, <2>2, <2>3, Unseen
<1>4. CASE ef_wunlock(t) \/ fail_exit(t) \/ enable_refused(t)
  <2>1. /\ pc[t] \in {"wunlock", "exit", "refused"}
        /\ pc' = [pc EXCEPT ![t] = "idle"]
        /\ ret' = [ret EXCEPT ![t] = NULL]
        /\ arg' = [arg EXCEPT ![t] = NoCall]
        /\ cur' = cur \/ cur' = [cur EXCEPT ![t] = NULL]
        /\ enabled' = enabled /\ heap' = heap /\ initialized' = initialized /\ table' = table
        /\ last_failinfo' = last_failinfo
    BY <1>4 DEF ef_wunlock, fail_exit, enable_refused, Return
  <2>2. OthersStay(t) /\ pc'[t] = "idle"
    BY <2>1 DEF OthersStay, Inv, TypeOK
  <2>3. API!Return(t)
    <3>. HIDE DEF NoCall
    <3>. QED BY <2>1, <2>2, ReturnStep DEF RInv
  <2>. QED BY <2>3
<1>5. CASE init(t)
  BY <1>5, InitStep
<1>6. CASE lookup_none(t) \/ onetime_spent(t) \/ not_failing(t)
  BY <1>6, DoesNotFailStep
<1>7. CASE set_failinfo(t)
  BY <1>7, FailsStep
<1>8. CASE get_failnum(t)
  BY <1>8, GetFailnumStep
<1>9. CASE spend(t)
  BY <1>9, SpendStep
<1>10. CASE pf_create(t)
  BY <1>10, CreateStep
<1>11. CASE pf_create_fails(t)
  BY <1>11, CreateFailsStep DEF RInv
<1>12. CASE wtable_set(t)
  BY <1>12, SetStep
<1>13. CASE wtable_del(t)
  BY <1>13, DeleteStep
<1>14. CASE wtable_set_fails(t)
  BY <1>14, SetFailsStep
<1>15. CASE wtable_del_fails(t)
  BY <1>15, DeleteFailsStep
<1>. QED BY <1>1, <1>2, <1>3, <1>4, <1>5, <1>6, <1>7, <1>8, <1>9, <1>10,
           <1>11, <1>12, <1>13, <1>14, <1>15 DEF Step

\* Threads that call the library at the same time see every call take effect at
\* one instant, as FiuAPI has it, the ones whose allocations fail and the ones
\* that lose the table included, provided that callbacks leave the point of
\* failure as it is.
THEOREM APICorrect ==
  ASSUME CallbackChanges = {} PROVE Spec => APISpec
<1>1. Init => API!Init
  <2>. SUFFICES ASSUME Init PROVE API!Init
    OBVIOUS
  <2>1. APIPoints = [k \in Keys |-> NULL] /\ API!Keys = Keys
    BY DEF Init, APIPoints, API!Keys, Keys
  <2>2. APIResult = [t \in Threads |-> NULL]
    BY DEF Init, APIResult
  <2>. QED BY <2>1, <2>2 DEF Init, API!Init, API!NoCall
<1>2. Inv /\ OnetimeExclusive /\ Saved /\ RInv /\ [Next]_vars => [API!Next]_API!vars
  <2>. SUFFICES ASSUME Inv, OnetimeExclusive, Saved, RInv, [Next]_vars
                PROVE  [API!Next]_API!vars
    OBVIOUS
  <2>1. CASE UNCHANGED vars
    <3>1. /\ initialized' = initialized /\ table' = table /\ enabled' = enabled /\ heap' = heap
          /\ pc' = pc /\ cur' = cur /\ ret' = ret /\ arg' = arg
          /\ last_failinfo' = last_failinfo
      BY <2>1 DEF vars
    <3>2. APIPoints' = APIPoints /\ APIResult' = APIResult
      BY <3>1 DEF APIPoints, APIPoint, Spending, APIResult
    <3>. QED BY <3>1, <3>2
  <2>. QED BY <2>1, APIStep DEF Next
<1>3. Inv /\ OnetimeExclusive /\ [Next]_vars => OnetimeExclusive'
  BY OnetimeNext
<1>4. Inv /\ OnetimeExclusive /\ Saved /\ FailinfoOfOnetime /\ [Next]_vars
         => Saved' /\ FailinfoOfOnetime'
  BY SavedNext
<1>5. Inv /\ RInv /\ [Next]_vars => RInv'
  BY RInvNext
<1>6. Spec => [](Inv /\ OnetimeExclusive /\ Saved /\ RInv)
  BY <1>3, <1>4, <1>5, InvInit, RInvInit, Invariance, PTL DEF Spec
<1>. QED BY <1>1, <1>2, <1>6, PTL DEF Spec, APISpec, API!Spec
==============================================================================
