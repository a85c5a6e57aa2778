-------------------------------- MODULE PyFiu --------------------------------
(***************************************************************************)
(* The Python bindings: bindings/python/fiu.py, which keeps references to  *)
(* the objects that libfiu has pointers to, on top of fiu_ll.c, which      *)
(* calls libfiu without giving up the interpreter lock (GIL).              *)
(*                                                                         *)
(* Every Python statement runs with the GIL, and between two statements    *)
(* the interpreter may pass it on: a statement is a step that finds the    *)
(* GIL free, and gil is the thread that keeps it while it is in a C        *)
(* function.  Threads that are not of Python, such as the one of the       *)
(* remote control, call libfiu without it.                                 *)
(*                                                                         *)
(* Every enabling call is given an object of its own, to which the program *)
(* keeps no other reference.  The core is as FiuAPI has it: enabled is the *)
(* table of points, and readers the threads with enabled_fails_lock for    *)
(* reading while they are in a callback; nobody holds it for writing from  *)
(* one step to the next.  Any enabling call may be refused, and once a     *)
(* resize has lost the table, or an object is gone, the process dies where *)
(* it is used, and the behaviour ends there.                               *)
(*                                                                         *)
(* An operator whose name ends in _bug is a faulty version of a definition *)
(* below it, there to see that the properties notice the fault.            *)
(***************************************************************************)
EXTENDS Sequences, Integers

CONSTANTS
    NULL,
    Python,       \* the threads of the interpreter
    Others,       \* the other threads
    Names,
    Programs      \* the programs: for each thread, the choices of each call

Threads == Python \cup Others

VARIABLES
    program,
    calls,        \* the calls each thread has begun
    call,         \* the current one, or NULL
    pc,
    gil,
    fi_table,     \* _fi_table: name -> object
    enabled,      \* name -> point of failure, or NULL
    usable,       \* FALSE once an allocation has cost the table of points
    readers,
    last_failinfo,
    disturbed,    \* the names whose calls have disturbed each other or raised
                  \* (of no consequence: for the properties to speak of)
    r             \* what the function of fiu_ll returned

vars == <<program, calls, call, pc, gil, fi_table, enabled, readers,
          usable, last_failinfo, disturbed, r>>

Enabling    == {"enable", "enable_random", "enable_external",
                "enable_stack_by_name"}
Controlling == Enabling \cup {"disable"}
Ops         == [op : Controlling \cup {"fail", "failinfo"}, name : Names]

ASSUME PyFiuAssumption ==
    /\ Python \cap Others = {}
    /\ NULL \notin Threads \cup Names \cup Ops
    /\ Programs \subseteq [Threads -> Seq(SUBSET Ops)]
    /\ \A p \in Programs : \A t \in Others : \A i \in DOMAIN p[t] : \A o \in p[t][i] :
          o.op \in {"enable", "disable", "fail"}

Init ==
    /\ program \in Programs
    /\ calls = [t \in Threads |-> 0]
    /\ call = [t \in Threads |-> NULL]
    /\ pc = [t \in Threads |-> "idle"]
    /\ gil = NULL
    /\ fi_table = [n \in Names |-> NULL]
    /\ enabled = [n \in Names |-> NULL]
    /\ usable = TRUE
    /\ readers = {}
    /\ disturbed = {}
    /\ last_failinfo = [t \in Threads |-> NULL]
    /\ r = [t \in Threads |-> 0]
------------------------------------------------------------------------------
\* The object given to the current call of t.
Object(t) == <<t, calls[t]>>

\* An object lives while the table, or a call it was given to, refers to it.
Alive(o) ==
    \/ \E n \in Names : fi_table[n] = o
    \/ \E t \in Python :
          call[t] # NULL /\ call[t].op \in Enabling /\ Object(t) = o

External(n) == enabled[n] # NULL /\ enabled[n].external

At(t, where) == pc[t] = where

Goto(t, where) == pc' = [pc EXCEPT ![t] = where]

End(t) == Goto(t, "idle") /\ call' = [call EXCEPT ![t] = NULL]

\* The next call of a thread.
Begin(t, o) ==
    /\ At(t, "idle")
    /\ t \in Python => gil = NULL
    /\ calls[t] < Len(program[t])
    /\ o \in program[t][calls[t] + 1]
    /\ calls' = [calls EXCEPT ![t] = @ + 1]
    /\ UNCHANGED program
------------------------------------------------------------------------------
(***************************************************************************)
(* fiu.py: enable*() and disable().                                        *)
(***************************************************************************)
\* No call of Python that controls the point is at work.
Quiet(n) == \A t \in Python :
               call[t] # NULL => call[t].op \notin Controlling \/ call[t].name # n

\* A call begins: alone, it makes a new start; otherwise it disturbs another.
Joins(n) == disturbed' = IF Quiet(n) THEN disturbed \ {n} ELSE disturbed \cup {n}

Raises(n) == disturbed' = disturbed \cup {n}

fi_table_update_bug(t, o) ==
    /\ t \in Python
    /\ o.op \in Controlling
    /\ Begin(t, o)
    /\ call' = [call EXCEPT ![t] = o]
    /\ Joins(o.name)
    /\ \/ /\ o.op \in Enabling
          /\ fi_table' = [fi_table EXCEPT ![o.name] =
                            IF o.op = "enable_external" THEN NULL
                            ELSE <<t, calls'[t]>>]
          /\ Goto(t, "ll")
       \/ /\ o.op = "disable"
          /\ Goto(t, IF fi_table[o.name] = NULL THEN "ll" ELSE "del")
          /\ UNCHANGED fi_table
    /\ UNCHANGED <<gil, enabled, usable, readers, last_failinfo, r>>

\* The first statement: _fi_table[name] = ..., or the test of disable().
fi_table_update(t, o) ==
    /\ t \in Python
    /\ o.op \in Controlling
    /\ Begin(t, o)
    /\ call' = [call EXCEPT ![t] = o]
    /\ Joins(o.name)
    /\ \/ /\ o.op \in Enabling
          /\ fi_table' = [fi_table EXCEPT ![o.name] = <<t, calls'[t]>>]
          /\ Goto(t, "ll")
       \/ /\ o.op = "disable"
          /\ Goto(t, IF fi_table[o.name] = NULL THEN "ll" ELSE "del")
          /\ UNCHANGED fi_table
    /\ UNCHANGED <<gil, enabled, usable, readers, last_failinfo, r>>

\* del _fi_table[name] in disable(): a KeyError when another thread has done it.
fi_table_del(t) ==
    /\ At(t, "del")
    /\ gil = NULL
    /\ fi_table' = [fi_table EXCEPT ![call[t].name] = NULL]
    /\ \/ /\ fi_table[call[t].name] # NULL
          /\ Goto(t, "ll")
          /\ UNCHANGED <<call, disturbed>>
       \/ /\ fi_table[call[t].name] = NULL
          /\ End(t)
          /\ Raises(call[t].name)
    /\ UNCHANGED <<program, calls, gil, enabled, usable, readers, last_failinfo, r>>

\* The second one calls into libfiu.  An enabling call may be refused before it
\* takes the lock: pf_create() fails, or the stack cannot be looked at.
ll_call(t) ==
    /\ At(t, "ll")
    /\ gil = NULL
    /\ \/ /\ gil' = t
          /\ Goto(t, "wlock")
          /\ UNCHANGED r
       \/ /\ call[t].op \in Enabling
          /\ r' = [r EXCEPT ![t] = -1]
          /\ Goto(t, "check")
          /\ UNCHANGED gil
    /\ UNCHANGED <<program, calls, call, fi_table, enabled, usable, readers,
                   last_failinfo, disturbed>>

\* fiu_ll does not get that far: an argument has not the type it asks for, or
\* the callback is not callable.  The exception goes to the caller at once.
ll_raises(t) ==
    /\ At(t, "ll")
    /\ gil = NULL
    /\ call[t].op \in Enabling
    /\ End(t)
    /\ Raises(call[t].name)
    /\ UNCHANGED <<program, calls, gil, fi_table, enabled, usable, readers,
                   last_failinfo, r>>

\* What fiu_enable*() or fiu_disable() does to the table under its lock.  A
\* resize may fail (FiuAPI!Lose).
Update(t, o, fi) ==
    /\ usable
    /\ readers = {}
    /\ \/ /\ enabled' = [enabled EXCEPT ![o.name] =
                           IF o.op = "disable" THEN NULL
                           ELSE [external |-> o.op = "enable_external", fi |-> fi]]
          /\ r' = [r EXCEPT ![t] =
                     IF o.op = "disable" /\ enabled[o.name] = NULL THEN -1 ELSE 0]
          /\ UNCHANGED usable
       \/ /\ o.op = "disable" => enabled[o.name] # NULL
          /\ enabled' = [n \in Names |-> NULL]
          /\ r' = [r EXCEPT ![t] = -1]
          /\ usable' = FALSE

ll_control(t) ==
    /\ At(t, "wlock")
    /\ Update(t, call[t], Object(t))
    /\ gil' = NULL
    /\ Goto(t, "check")
    /\ UNCHANGED <<program, calls, call, fi_table, readers, last_failinfo,
                   disturbed>>

check_bug(t) ==
    /\ At(t, "check")
    /\ gil = NULL
    /\ IF call[t].op \in Enabling
       THEN fi_table' = [fi_table EXCEPT ![call[t].name] = NULL]
       ELSE UNCHANGED fi_table
    /\ End(t)
    /\ UNCHANGED <<program, calls, gil, enabled, usable, readers, last_failinfo,
                   disturbed, r>>

\* The last one: if r != 0, the entry is deleted and an exception raised.  (When
\* another thread has deleted it, that is a KeyError.)
check(t) ==
    /\ At(t, "check")
    /\ gil = NULL
    /\ \/ /\ r[t] # 0
          /\ call[t].op \in Enabling
          /\ fi_table' = [fi_table EXCEPT ![call[t].name] = NULL]
          /\ Raises(call[t].name)
       \/ /\ r[t] = 0 \/ call[t].op = "disable"
          /\ UNCHANGED <<fi_table, disturbed>>
    /\ End(t)
    /\ UNCHANGED <<program, calls, gil, enabled, usable, readers, last_failinfo, r>>

\* Another thread controls a point, with a failinfo that is not an object.
control(t, o) ==
    /\ t \in Others
    /\ o.op \in Controlling
    /\ Begin(t, o)
    /\ \/ Update(t, o, NULL)
       \/ o.op \in Enabling /\ UNCHANGED <<enabled, usable, r>>
    /\ UNCHANGED <<call, pc, gil, fi_table, readers, last_failinfo, disturbed>>
------------------------------------------------------------------------------
(***************************************************************************)
(* fail() and failinfo().                                                  *)
(***************************************************************************)
Failed(t, fi) == last_failinfo' = [last_failinfo EXCEPT ![t] = fi]

\* No point, or one that decides by itself.
fail(t, o) ==
    /\ o.op = "fail"
    /\ usable
    /\ ~External(o.name)
    /\ Begin(t, o)
    /\ \/ UNCHANGED last_failinfo
       \/ enabled[o.name] # NULL /\ Failed(t, enabled[o.name].fi)
    /\ UNCHANGED <<call, pc, gil, fi_table, enabled, usable, readers, disturbed,
                   r>>

\* An external one: the thread is on its way to external_callback(), with the
\* GIL if it is one of Python.
fail_external(t, o) ==
    /\ o.op = "fail"
    /\ usable
    /\ External(o.name)
    /\ Begin(t, o)
    /\ call' = [call EXCEPT ![t] = o]
    /\ readers' = readers \cup {t}
    /\ gil' = IF t \in Python THEN t ELSE gil
    /\ Goto(t, "ensure")
    /\ UNCHANGED <<fi_table, enabled, usable, last_failinfo, disturbed, r>>

\* PyGILState_Ensure(), and the call of the object.
external_callback(t) ==
    /\ At(t, "ensure")
    /\ Alive(enabled[call[t].name].fi)
    /\ gil = IF t \in Python THEN t ELSE NULL
    /\ gil' = NULL
    /\ Goto(t, "callback")
    /\ UNCHANGED <<program, calls, call, fi_table, enabled, usable, readers,
                   last_failinfo, disturbed, r>>


\* The function of Python returns, and so does fiu_fail().
callback_returns(t) ==
    /\ At(t, "callback")
    /\ gil = NULL
    /\ Failed(t, enabled[call[t].name].fi) \/ UNCHANGED last_failinfo
    /\ readers' = readers \ {t}
    /\ End(t)
    /\ UNCHANGED <<program, calls, gil, fi_table, enabled, usable,
                   disturbed, r>>

\* The object of the last failure; an exception when there is a null pointer.
failinfo(t, o) ==
    /\ o.op = "failinfo"
    /\ last_failinfo[t] = NULL \/ Alive(last_failinfo[t])
    /\ Begin(t, o)
    /\ UNCHANGED <<call, pc, gil, fi_table, enabled, usable, readers,
                   last_failinfo, disturbed, r>>
------------------------------------------------------------------------------
Step(t) == \/ fi_table_del(t) \/ ll_call(t) \/ ll_raises(t) \/ ll_control(t)
           \/ check(t)
           \/ external_callback(t) \/ callback_returns(t)

Next == \E t \in Threads :
            \/ Step(t)
            \/ \E o \in Ops : \/ fi_table_update(t, o) \/ control(t, o)
                              \/ fail(t, o) \/ fail_external(t, o)
                              \/ failinfo(t, o)

Spec == Init /\ [][Next]_vars

\* The interpreter hands the GIL to every thread that waits for it, once it is
\* free; a callback returns.
FairSpec == Spec /\ \A t \in Threads : SF_vars(Step(t))
------------------------------------------------------------------------------
(***************************************************************************)
(* Properties.                                                             *)
(***************************************************************************)
\* fiu.py:38 "To be sure failinfo doesn't dissapear from under our feet" and
\* fiu_ll.c:154 "assuming the caller will take care of making sure it doesn't
\* dissapear": the object that a point refers to, its callback included, is in
\* the table under its name.  It is for a name whose calls are made one at a
\* time and do not raise, whatever other threads, calls of other names and the
\* remote control do, and for such a name again from the next call that is
\* alone and succeeds.
TableCovers ==
    \A n \in Names \ disturbed :
        Quiet(n) /\ enabled[n] # NULL /\ enabled[n].fi # NULL
        => fi_table[n] = enabled[n].fi

\* A callback is about to be called, and its object is gone.
Dangling == \E t \in Threads :
                At(t, "ensure") /\ ~Alive(enabled[call[t].name].fi)

\* fiu_ll.c:103 "The solution is to ensure we're safe to run Python code": no
\* thread waits for ever for the GIL, or for the lock of libfiu with the GIL,
\* as long as there are a table and the callbacks it refers to.
EveryCallReturns ==
    \A t \in Threads :
        pc[t] # "idle" ~> pc[t] = "idle" \/ ~usable \/ Dangling
==============================================================================
