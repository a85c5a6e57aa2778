--------------------------------- MODULE Fiu ---------------------------------
(***************************************************************************)
(* The core of the library, libfiu/fiu.c: threads that call fiu_init(),    *)
(* fiu_fail(), the fiu_enable*() functions and fiu_disable() at the same   *)
(* time.  The table of enabled points is the abstract one of PointTable,   *)
(* which WTable implements; a step of this module is what a thread does    *)
(* between two accesses to state it shares with the others.  Once a resize *)
(* of the table has failed, a call that needs it uses a null pointer: the  *)
(* process dies, and the behaviour ends there.  (What the cache, or the    *)
(* half of the table that is left, may still answer is WTable's.)          *)
(*                                                                         *)
(* enabled_fails_lock is a reader/writer lock that lets a reader in        *)
(* whenever no writer holds it, as glibc's does by default.                *)
(*                                                                         *)
(* An operator whose name ends in _bug is a faulty version of a definition *)
(* below it.  No action uses it: it is there to see that the properties    *)
(* notice the fault.                                                       *)
(***************************************************************************)
EXTENDS PointNames, Integers

CONSTANTS Threads,
          Pfs,              \* the addresses of struct pf_info
          Infos,            \* values of failnum and of the failinfo with it
          Methods,          \* a subset of {"always", "prob", "external", "stack"}
          CallbackChanges,  \* what external callbacks modify: a subset of
                            \* {"info", "flags"}
          MaxCalls          \* how many calls a thread makes

ASSUME FiuAssumption ==
    /\ NULL \notin Keys \cup Pfs \cup Threads
    /\ NULL \notin Int
    /\ NULL \notin Methods
    /\ Infos \subseteq Nat \ {0}
    /\ Methods \subseteq {"always", "prob", "external", "stack"}
    /\ CallbackChanges \subseteq {"info", "flags"}
    /\ MaxCalls \in Nat
    /\ NULL \notin [failnum : Infos, failinfo : Infos, onetime : BOOLEAN,
                 method : Methods, spent : BOOLEAN]

VARIABLES
    initialized,    \* the static variable of fiu_init()
    table,          \* enabled_fails: "none" while it is NULL, "usable", or
                    \* "lost" once one of its arrays is a null pointer
    enabled,        \* the table enabled_fails: the pf of every key
    heap,           \* the contents of every struct pf_info, Freed if not allocated
    mutex,          \* pf->lock: the thread that holds it
    readers,        \* the threads that hold enabled_fails_lock for reading
    writer,         \* the thread that holds it for writing
    rec_count,      \* thread-local
    last_failinfo,  \* thread-local (last_failinfo_key)
    pc,             \* where every thread is
    arg,            \* the call it is in, with its arguments
    cur,            \* its local pf
    ret,            \* what its call is going to return
    calls           \* how many calls it has made

shared == <<initialized, table, enabled, heap, mutex>>
lock   == <<readers, writer>>
local  == <<arg, cur, ret, calls>>
vars   == <<shared, lock, rec_count, last_failinfo, pc, local>>

\* A call without arguments beyond the key, and no call at all.
Request(op, k) == [op |-> op, key |-> k, info |-> NULL,
                   onetime |-> FALSE, method |-> NULL]
NoCall == Request("none", NULL)

\* struct pf_info, as pf_create() fills it.
NewPf(k, i, o, m) ==
    [name |-> k, failnum |-> i, failinfo |-> i, onetime |-> o, method |-> m,
     failed_once |-> FALSE]

PfInfo == [name : Keys, failnum : Infos, failinfo : Infos, onetime : BOOLEAN,
           method : Methods, failed_once : BOOLEAN]

Freed == NewPf(NULL, NULL, FALSE, NULL)

Init ==
    /\ initialized = FALSE
    /\ table = "none"
    /\ enabled = [k \in Keys |-> NULL]
    /\ heap = [p \in Pfs |-> Freed]
    /\ mutex = [p \in Pfs |-> NULL]
    /\ readers = {}
    /\ writer = NULL
    /\ rec_count = [t \in Threads |-> 0]
    /\ last_failinfo = [t \in Threads |-> NULL]
    /\ pc = [t \in Threads |-> "idle"]
    /\ arg = [t \in Threads |-> NoCall]
    /\ cur = [t \in Threads |-> NULL]
    /\ ret = [t \in Threads |-> NULL]
    /\ calls = [t \in Threads |-> 0]
------------------------------------------------------------------------------
Goto(t, from, to) == pc[t] = from /\ pc' = [pc EXCEPT ![t] = to]

Enter_bug(t) == UNCHANGED rec_count

Enter(t) == rec_count' = [rec_count EXCEPT ![t] = @ + 1]
Leave(t) == rec_count' = [rec_count EXCEPT ![t] = @ - 1]

Answer(t, r) == ret' = [ret EXCEPT ![t] = r] /\ UNCHANGED <<arg, cur, calls>>

\* A thread calls the library.
Call(t, c, to) ==
    /\ calls[t] < MaxCalls
    /\ Goto(t, "idle", to)
    /\ Enter(t)
    /\ arg' = [arg EXCEPT ![t] = c]
    /\ calls' = [calls EXCEPT ![t] = @ + 1]
    /\ UNCHANGED <<shared, lock, last_failinfo, cur, ret>>

\* The call returns; its locals are gone.
Return(t) ==
    /\ Leave(t)
    /\ arg' = [arg EXCEPT ![t] = NoCall]
    /\ cur' = [cur EXCEPT ![t] = NULL]
    /\ ret' = [ret EXCEPT ![t] = NULL]
    /\ UNCHANGED calls

ef_rlock(t, from, to) ==
    /\ writer = NULL
    /\ Goto(t, from, to)
    /\ readers' = readers \cup {t}
    /\ UNCHANGED <<shared, writer, rec_count, last_failinfo, local>>

ef_wlock(t, from, to) ==
    /\ writer = NULL
    /\ readers = {}
    /\ Goto(t, from, to)
    /\ writer' = t
    /\ UNCHANGED <<shared, readers, rec_count, last_failinfo, local>>

\* The end of every call that changes the table.
ef_wunlock(t) ==
    /\ Goto(t, "wunlock", "idle")
    /\ writer' = NULL
    /\ Return(t)
    /\ UNCHANGED <<shared, readers, last_failinfo>>
------------------------------------------------------------------------------
(***************************************************************************)
(* fiu_init().                                                             *)
(***************************************************************************)
init_call(t) == Call(t, Request("init", NULL), "init_wlock")

init_wlock(t) == ef_wlock(t, "init_wlock", "init")

\* The result of wtable_create() is not looked at.  pthread_atfork() may fail,
\* and leaves the new table behind.
init(t) ==
    /\ Goto(t, "init", "wunlock")
    /\ \/ initialized /\ Answer(t, 0) /\ UNCHANGED shared
       \/ /\ ~initialized
          /\ table' \in {"usable", "none"}
          /\ enabled' = [k \in Keys |-> NULL]
          /\ \/ initialized' = TRUE /\ Answer(t, 0)
             \/ Answer(t, -1) /\ UNCHANGED initialized
          /\ UNCHANGED <<heap, mutex>>
    /\ UNCHANGED <<lock, rec_count, last_failinfo>>
------------------------------------------------------------------------------
(***************************************************************************)
(* fiu_fail().  A call made inside the library (rec_count is above 0: from *)
(* an external callback, or from a wrapped malloc()) returns 0 at once and *)
(* changes nothing; RecursionGuard is about those.                         *)
(***************************************************************************)
fail_call(t, n) ==
    /\ rec_count[t] + 1 <= 1
    /\ Call(t, Request("fail", n), "rlock")

fail_rlock(t) == ef_rlock(t, "rlock", "lookup")

\* wtable_get(), and the tests of its result up to the ONETIME lock.
lookup_none(t) ==
    /\ Goto(t, "lookup", "exit")
    /\ \/ table = "none"
       \/ table = "usable" /\ NULL \in Candidates(enabled, arg[t].key)
    /\ Answer(t, 0)
    /\ UNCHANGED <<shared, lock, rec_count, last_failinfo>>

lookup(t) ==
    /\ pc[t] = "lookup"
    /\ table = "usable"
    /\ \E p \in Candidates(enabled, arg[t].key) \ {NULL} :
          /\ cur' = [cur EXCEPT ![t] = p]
          /\ Goto(t, "lookup", IF heap[p].onetime THEN "onetime" ELSE "decide")
    /\ UNCHANGED <<shared, lock, rec_count, last_failinfo, arg, ret, calls>>

\* pthread_mutex_lock(&pf->lock); a point that has failed is let go again.
onetime_spent(t) ==
    /\ Goto(t, "onetime", "exit")
    /\ mutex[cur[t]] = NULL
    /\ heap[cur[t]].failed_once
    /\ Answer(t, 0)
    /\ UNCHANGED <<shared, lock, rec_count, last_failinfo>>

onetime_lock_bug(t) ==
    /\ Goto(t, "onetime", "decide")
    /\ ~heap[cur[t]].failed_once
    /\ UNCHANGED <<shared, lock, rec_count, last_failinfo, local>>

onetime_lock(t) ==
    /\ Goto(t, "onetime", "decide")
    /\ mutex[cur[t]] = NULL
    /\ ~heap[cur[t]].failed_once
    /\ mutex' = [mutex EXCEPT ![cur[t]] = t]
    /\ UNCHANGED <<initialized, table, enabled, heap, lock, rec_count,
                   last_failinfo, local>>

\* The switch on the method.  PF_PROB and PF_STACK depend on the random number
\* and on the caller's stack: either outcome.
decide(t) ==
    /\ pc[t] = "decide"
    /\ heap[cur[t]].method # "external"
    /\ \/ Goto(t, "decide", "set_failinfo")
       \/ heap[cur[t]].method # "always" /\ Goto(t, "decide", "not_failing")
    /\ UNCHANGED <<shared, lock, rec_count, last_failinfo, local>>

Changed(pf, i, f) ==
    [name |-> pf.name, failnum |-> i, failinfo |-> i, onetime |-> f,
     method |-> pf.method, failed_once |-> pf.failed_once]

\* PF_EXTERNAL: the user's callback runs, with the table locked for reading and
\* a ONETIME point with its mutex; it gets pointers to three of its fields.
external_cb(t) ==
    /\ pc[t] = "decide"
    /\ heap[cur[t]].method = "external"
    /\ \/ Goto(t, "decide", "set_failinfo")
       \/ Goto(t, "decide", "not_failing")
    /\ \E i \in Infos, f \in BOOLEAN :
          /\ "info" \in CallbackChanges \/ i = heap[cur[t]].failnum
          /\ "flags" \in CallbackChanges \/ f = heap[cur[t]].onetime
          /\ heap' = [heap EXCEPT ![cur[t]] = Changed(heap[cur[t]], i, f)]
    /\ UNCHANGED <<initialized, table, enabled, mutex, lock, rec_count,
                   last_failinfo, local>>

\* pthread_mutex_unlock(&pf->lock) when the flags say ONETIME.  Nothing checks
\* that the caller is the one who locked it.
onetime_unlock(t) ==
    mutex' = IF heap[cur[t]].onetime THEN [mutex EXCEPT ![cur[t]] = NULL] ELSE mutex

not_failing_bug(t) ==
    /\ Goto(t, "not_failing", "exit")
    /\ Answer(t, 0)
    /\ UNCHANGED <<shared, lock, rec_count, last_failinfo>>

not_failing(t) ==
    /\ Goto(t, "not_failing", "exit")
    /\ onetime_unlock(t)
    /\ Answer(t, 0)
    /\ UNCHANGED <<initialized, table, enabled, heap, lock, rec_count,
                   last_failinfo>>

set_failinfo(t) ==
    /\ Goto(t, "set_failinfo", "get_failnum")
    /\ last_failinfo' = [last_failinfo EXCEPT ![t] = heap[cur[t]].failinfo]
    /\ UNCHANGED <<shared, lock, rec_count, local>>

get_failnum(t) ==
    /\ Goto(t, "get_failnum", "spend")
    /\ Answer(t, heap[cur[t]].failnum)
    /\ UNCHANGED <<shared, lock, rec_count, last_failinfo>>

Spent(pf) ==
    [name |-> pf.name, failnum |-> pf.failnum, failinfo |-> pf.failinfo,
     onetime |-> pf.onetime, method |-> pf.method, failed_once |-> TRUE]

spend_bug(t) ==
    /\ Goto(t, "spend", "exit")
    /\ onetime_unlock(t)
    /\ UNCHANGED <<initialized, table, enabled, heap, lock, rec_count,
                   last_failinfo, local>>

spend(t) ==
    /\ Goto(t, "spend", "exit")
    /\ heap' = IF heap[cur[t]].onetime
               THEN [heap EXCEPT ![cur[t]] = Spent(heap[cur[t]])] ELSE heap
    /\ onetime_unlock(t)
    /\ UNCHANGED <<initialized, table, enabled, lock, rec_count,
                   last_failinfo, local>>

fail_exit(t) ==
    /\ Goto(t, "exit", "idle")
    /\ readers' = readers \ {t}
    /\ Return(t)
    /\ UNCHANGED <<shared, writer, last_failinfo>>
------------------------------------------------------------------------------
(***************************************************************************)
(* fiu_enable() and its variants: pf_create(), then insert_pf().  They and *)
(* fiu_disable() may only be called once fiu_init() has returned (fiu.h:23 *)
(* "Must be called before any other library function").                    *)
(***************************************************************************)
enable_call(t, k, i, o, m) ==
    /\ initialized
    /\ Call(t, [op |-> "enable", key |-> k, info |-> i, onetime |-> o,
                method |-> m], "create")

pf_create(t) ==
    /\ Goto(t, "create", "insert_pf")
    /\ \E p \in Pfs :
          /\ heap[p] = Freed
          /\ cur' = [cur EXCEPT ![t] = p]
          /\ heap' = [heap EXCEPT ![p] = NewPf(arg[t].key, arg[t].info,
                                               arg[t].onetime, arg[t].method)]
          /\ mutex' = [mutex EXCEPT ![p] = NULL]
    /\ Leave(t)
    /\ UNCHANGED <<initialized, table, enabled, lock, last_failinfo,
                   arg, ret, calls>>

\* malloc() or strdup() fails: the call returns -1.
pf_create_fails(t) ==
    /\ Goto(t, "create", "refused")
    /\ Answer(t, -1)
    /\ Leave(t)
    /\ UNCHANGED <<shared, lock, last_failinfo>>

enable_refused(t) ==
    /\ Goto(t, "refused", "idle")
    /\ arg' = [arg EXCEPT ![t] = NoCall]
    /\ ret' = [ret EXCEPT ![t] = NULL]
    /\ UNCHANGED <<shared, lock, rec_count, last_failinfo, cur, calls>>

insert_pf_bug(t) ==
    /\ Goto(t, "insert_pf", "insert_wlock")
    /\ UNCHANGED <<shared, lock, rec_count, last_failinfo, local>>

insert_pf(t) ==
    /\ Goto(t, "insert_pf", "insert_wlock")
    /\ Enter(t)
    /\ UNCHANGED <<shared, lock, last_failinfo, local>>

insert_wlock(t) == ef_wlock(t, "insert_wlock", "insert")

\* The destructor pf_free() of the value a set or a delete takes out.
pf_free(h, p) == IF p = NULL THEN h ELSE [h EXCEPT ![p] = Freed]

wtable_set(t) ==
    /\ table = "usable"
    /\ Goto(t, "insert", "wunlock")
    /\ enabled' = [enabled EXCEPT ![arg[t].key] = cur[t]]
    /\ heap' = pf_free(heap, enabled[arg[t].key])
    /\ Answer(t, 0)
    /\ UNCHANGED <<initialized, table, mutex, lock, rec_count, last_failinfo>>

\* An allocation of a resize fails, and its array is gone with every point in
\* it.  Which calls resize is up to the slots of the table: any may.
Lose(t) ==
    /\ table = "usable"
    /\ table' = "lost"
    /\ enabled' = [k \in Keys |-> NULL]
    /\ Answer(t, -1)
    /\ UNCHANGED <<initialized, mutex, lock, rec_count, last_failinfo>>

\* The new point stays with nobody.  The array of wildcards grows before the
\* insertion, the table of final names after it has freed the old point.
wtable_set_fails(t) ==
    /\ Goto(t, "insert", "wunlock")
    /\ Lose(t)
    /\ heap' = IF arg[t].key \in Finals
               THEN pf_free(heap, enabled[arg[t].key]) ELSE heap

(***************************************************************************)
(* fiu_disable().                                                          *)
(***************************************************************************)
disable_call(t, k) ==
    /\ initialized
    /\ Call(t, Request("disable", k), "disable_wlock")

disable_wlock_bug(t) ==
    /\ Goto(t, "disable_wlock", "delete")
    /\ writer = NULL
    /\ writer' = t
    /\ UNCHANGED <<shared, readers, rec_count, last_failinfo, local>>

disable_wlock(t) == ef_wlock(t, "disable_wlock", "delete")

wtable_del(t) ==
    /\ table = "usable"
    /\ Goto(t, "delete", "wunlock")
    /\ enabled' = [enabled EXCEPT ![arg[t].key] = NULL]
    /\ heap' = pf_free(heap, enabled[arg[t].key])
    /\ Answer(t, IF enabled[arg[t].key] = NULL THEN -1 ELSE 0)
    /\ UNCHANGED <<initialized, table, mutex, lock, rec_count, last_failinfo>>

\* A removal shrinks the table when the point is gone already.
wtable_del_fails(t) ==
    /\ Goto(t, "delete", "wunlock")
    /\ enabled[arg[t].key] # NULL
    /\ Lose(t)
    /\ heap' = pf_free(heap, enabled[arg[t].key])
------------------------------------------------------------------------------
Start(t) == \/ init_call(t)
            \/ \E n \in Finals : fail_call(t, n)
            \/ \E k \in Keys : disable_call(t, k)
            \/ \E k \in Keys, i \in Infos, o \in BOOLEAN, m \in Methods :
                  enable_call(t, k, i, o, m)

\* What a thread does inside the library.
Step(t) ==
    \/ init_wlock(t) \/ init(t) \/ ef_wunlock(t)
    \/ fail_rlock(t) \/ lookup_none(t) \/ lookup(t)
    \/ onetime_spent(t) \/ onetime_lock(t)
    \/ decide(t) \/ external_cb(t) \/ not_failing(t)
    \/ set_failinfo(t) \/ get_failnum(t) \/ spend(t) \/ fail_exit(t)
    \/ pf_create(t) \/ pf_create_fails(t) \/ enable_refused(t)
    \/ insert_pf(t) \/ insert_wlock(t) \/ wtable_set(t) \/ wtable_set_fails(t)
    \/ disable_wlock(t) \/ wtable_del(t) \/ wtable_del_fails(t)

Next == \E t \in Threads : Start(t) \/ Step(t)

Spec == Init /\ [][Next]_vars

\* The system's scheduler runs every thread that can go on.  No fairness among
\* the waiters of a lock is assumed: with a finite number of calls they are
\* all served in the end.
FairSpec == Spec /\ \A t \in Threads : WF_vars(Step(t))
------------------------------------------------------------------------------
(***************************************************************************)
(* Properties.                                                             *)
(***************************************************************************)
UsesPf == {"onetime", "decide", "not_failing", "set_failinfo", "get_failnum",
           "spend"}

ReaderAt == UsesPf \cup {"lookup", "exit"}
WriterAt == {"init", "insert", "delete", "wunlock"}
OutsideAt == {"idle", "insert_pf", "refused"}

TypeOK ==
    /\ initialized \in BOOLEAN
    /\ table \in {"none", "usable", "lost"}
    /\ enabled \in [Keys -> Pfs \cup {NULL}]
    /\ heap \in [Pfs -> PfInfo \cup {Freed}]
    /\ mutex \in [Pfs -> Threads \cup {NULL}]
    /\ readers \subseteq Threads
    /\ writer \in Threads \cup {NULL}
    /\ rec_count \in [Threads -> Nat]
    /\ last_failinfo \in [Threads -> Infos \cup {NULL}]
    /\ pc \in [Threads -> ReaderAt \cup WriterAt \cup OutsideAt \cup
                {"init_wlock", "rlock", "create", "insert_wlock", "disable_wlock"}]
    /\ arg \in [Threads -> [op : {"none", "init", "fail", "enable", "disable"},
                            key : Keys \cup {NULL}, info : Infos \cup {NULL},
                            onetime : BOOLEAN, method : Methods \cup {NULL}]]
    /\ cur \in [Threads -> Pfs \cup {NULL}]
    /\ ret \in [Threads -> Infos \cup {0, -1, NULL}]
    /\ calls \in [Threads -> 0..MaxCalls]

\* No thread looks at a point of failure that another one has freed, and the
\* table holds only allocated points, each under its own name: the read lock
\* is held from the lookup until the last use of the point.
NoUseAfterFree ==
    /\ \A k \in Keys : enabled[k] # NULL => heap[enabled[k]].name = k
    /\ \A t \in Threads : pc[t] \in UsesPf =>
          cur[t] \in Pfs /\ \E k \in Keys : enabled[k] = cur[t]

\* A ONETIME point lets one thread at a time decide, and none once it has
\* failed: threads that race for it cannot both fail.
OnetimeExclusive ==
    \A t \in Threads :
        pc[t] \in UsesPf \ {"onetime"} /\ heap[cur[t]].onetime =>
            /\ mutex[cur[t]] = t
            /\ ~heap[cur[t]].failed_once

\* fiu.c:135 "To prevent unwanted recursive calls that would deadlock": a
\* thread is counted as inside the library wherever the library holds
\* enabled_fails_lock, runs a callback or allocates, and is counted out again
\* when it leaves, so that its later calls can fail.  (The checks that
\* fiu_enable_stack*() makes before it calls pf_create(), with no lock held and
\* the thread not counted in, have no step of their own.)
RecursionGuard ==
    \A t \in Threads :
        rec_count[t] = IF pc[t] \in OutsideAt THEN 0 ELSE 1

\* fiu.h:55 "the information returned will be for the last failure in the
\* same thread": the failinfo and the failnum of a failure belong together, also
\* while callbacks of other threads change both (fiu-control.h:49), for a point
\* with FIU_ONETIME, whose mutex is held until both have been read, and for one
\* that no callback is given.
FailinfoOfOnetime ==
    \A t \in Threads :
        /\ pc[t] = "exit"
        /\ ret[t] # 0
        /\ heap[cur[t]].method = "external" => heap[cur[t]].onetime
        => last_failinfo[t] = ret[t]

\* Every call returns: nobody waits for ever for the table, for a point or for
\* itself, as long as there is a table to work on.
EveryCallReturns ==
    \A t \in Threads :
        pc[t] # "idle" ~> pc[t] = "idle" \/ (initialized /\ table # "usable")

(***************************************************************************)
(* The library implements FiuAPI.  A call of fiu_fail() that fails takes   *)
(* effect when it stores the failinfo: from then on a ONETIME point counts *)
(* as spent, though its flag is only set two steps later.                  *)
(***************************************************************************)
Spending(p) == \E t \in Threads : /\ cur[t] = p
                                  /\ pc[t] \in {"get_failnum", "spend"}

APIPoint(p) ==
    [failnum |-> heap[p].failnum, failinfo |-> heap[p].failinfo,
     onetime |-> heap[p].onetime, method |-> heap[p].method,
     spent |-> heap[p].failed_once \/ (heap[p].onetime /\ Spending(p))]

APIPoints == [k \in Keys |-> IF enabled[k] = NULL THEN NULL
                             ELSE APIPoint(enabled[k])]

APIResult == [t \in Threads |-> IF pc[t] = "get_failnum"
                                THEN heap[cur[t]].failnum ELSE ret[t]]

API == INSTANCE FiuAPI WITH ready <- initialized,
                            usable <- (table = "usable"), points <- APIPoints,
                            call <- arg, result <- APIResult,
                            failinfo <- last_failinfo

APISpec == API!Spec
==============================================================================
