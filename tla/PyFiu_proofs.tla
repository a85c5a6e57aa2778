----------------------------- MODULE PyFiu_proofs -----------------------------
(***************************************************************************)
(* The Python bindings keep what libfiu has pointers to, for every program *)
(* and whatever its calls are answered: the names that the statement       *)
(* leaves out are the ones that disturbed has at that moment.              *)
(*                                                                         *)
(* The inductive invariant follows the one call that is at work on a name  *)
(* that is not disturbed (Single) through fiu.py: the object is in the     *)
(* table before libfiu gets it, and when the call returns libfiu has no    *)
(* other object for the name (Progress).                                   *)
(***************************************************************************)
EXTENDS PyFiu, TLAPS

Objects == Threads \X Nat
Points  == [external : BOOLEAN, fi : Objects \cup {NULL}]

\* Where a controlling call is.
Places == {"del", "ll", "wlock", "check"}

Types ==
    /\ calls \in [Threads -> Nat]
    /\ call \in [Threads -> Ops \cup {NULL}]
    /\ pc \in [Threads -> Places \cup {"idle", "ensure", "callback"}]
    /\ fi_table \in [Names -> Objects \cup {NULL}]
    /\ enabled \in [Names -> Points \cup {NULL}]
    /\ disturbed \subseteq Names
    /\ r \in [Threads -> {0, -1}]

\* The call each thread is in.
AtWork ==
    \A t \in Threads :
        /\ At(t, "idle") => call[t] = NULL
        /\ pc[t] \in {"ensure", "callback"} => call[t] \in Ops /\ call[t].op = "fail"
        /\ pc[t] \in Places => t \in Python /\ call[t] \in Ops /\ call[t].op \in Controlling
        /\ At(t, "del") => call[t].op = "disable"

Busy(t, n) == pc[t] \in Places /\ call[t].name = n

\* libfiu has a pointer to an object for the name.
Pointed(n) == enabled[n] # NULL /\ enabled[n].fi # NULL

Covered(n) == Pointed(n) => fi_table[n] = enabled[n].fi

\* One call is at work on a name that is not disturbed.
Single ==
    \A n \in Names \ disturbed : \A t, u \in Python :
        Busy(t, n) /\ Busy(u, n) => t = u

\* What it has done so far.
DoneBy(t, n) ==
    /\ call[t].op \in Enabling /\ pc[t] \in {"ll", "wlock"} => fi_table[n] = Object(t)
    /\ call[t].op \in Enabling /\ At(t, "check") /\ r[t] = 0 =>
           fi_table[n] = Object(t) /\ Covered(n)
    /\ call[t].op = "disable" /\ At(t, "check") => ~Pointed(n)

Progress ==
    \A n \in Names \ disturbed : \A t \in Python : Busy(t, n) => DoneBy(t, n)

Resting ==
    \A n \in Names \ disturbed :
        (\A t \in Python : ~Busy(t, n)) => Covered(n)

PInv == Types /\ AtWork /\ Single /\ Progress /\ Resting

USE PyFiuAssumption
-------------------------------------------------------------------------------
LEMMA OpIs ==
    ASSUME NEW o \in Ops
    PROVE  /\ o # NULL
           /\ o.name \in Names
           /\ o.op \in Controlling \cup {"fail", "failinfo"}
BY DEF Ops

LEMMA OpsApart ==
    /\ "fail" \notin Controlling /\ "failinfo" \notin Controlling
    /\ "disable" \notin Enabling
    /\ \A x \in Controlling : x \in Enabling \/ x = "disable"
BY DEF Controlling, Enabling

LEMMA PythonThreads == \A t \in Python : t \in Threads
BY DEF Threads

\* Quiet, in terms of where the threads are.
LEMMA QuietIs ==
    ASSUME Types, AtWork, NEW n
    PROVE  Quiet(n) <=> \A t \in Python : ~Busy(t, n)
<1>1. ASSUME NEW t \in Python
      PROVE  (call[t] # NULL /\ call[t].op \in Controlling /\ call[t].name = n) <=> Busy(t, n)
  <2>1. t \in Threads /\ pc[t] \in Places \cup {"idle", "ensure", "callback"}
    BY PythonThreads DEF Types
  <2>2. CASE pc[t] \in Places
    BY <2>1, <2>2, OpIs DEF AtWork, Busy
  <2>3. CASE pc[t] = "idle"
    BY <2>1, <2>3 DEF AtWork, At, Busy, Places
  <2>4. CASE pc[t] \in {"ensure", "callback"}
    BY <2>1, <2>4, OpsApart DEF AtWork, Busy, Places
  <2> QED BY <2>1, <2>2, <2>3, <2>4
<1> QED BY <1>1 DEF Quiet

LEMMA BeginIs ==
    ASSUME Types, NEW t \in Threads, NEW o, Begin(t, o)
    PROVE  /\ pc[t] = "idle"
           /\ calls' \in [Threads -> Nat]
           /\ \A u \in Threads : u # t => calls'[u] = calls[u]
BY DEF Begin, At, Types

\* What a call does to the points: it loses objects, and it gets its own.
LEMMA UpdateIs ==
    ASSUME Types, NEW t \in Threads, NEW o \in Ops, NEW fi \in Objects \cup {NULL},
           Update(t, o, fi)
    PROVE  /\ enabled' \in [Names -> Points \cup {NULL}]
           /\ r' \in [Threads -> {0, -1}]
           /\ \A u \in Threads : u # t => r'[u] = r[u]
           /\ \A m \in Names :
                 m # o.name \/ o.op = "disable" \/ fi = NULL =>
                     (Pointed(m)' => Pointed(m) /\ enabled'[m] = enabled[m])
           /\ o.op = "disable" => ~Pointed(o.name)'
           /\ o.op # "disable" => r'[t] = -1 \/ enabled'[o.name].fi = fi
<1>1. o.name \in Names /\ t \in Threads
  BY OpIs
<1>2. /\ enabled \in [Names -> Points \cup {NULL}]
      /\ r \in [Threads -> {0, -1}]
  BY DEF Types, Points
<1>3. CASE enabled' = [n \in Names |-> NULL] /\ r' = [r EXCEPT ![t] = -1]
  BY <1>1, <1>2, <1>3 DEF Pointed
<1>4. CASE /\ enabled' = [enabled EXCEPT ![o.name] =
                            IF o.op = "disable" THEN NULL
                            ELSE [external |-> o.op = "enable_external", fi |-> fi]]
           /\ r' = [r EXCEPT ![t] =
                      IF o.op = "disable" /\ enabled[o.name] = NULL THEN -1 ELSE 0]
  <2> DEFINE p == IF o.op = "disable" THEN NULL
                  ELSE [external |-> o.op = "enable_external", fi |-> fi]
  <2>1. (o.op = "enable_external") \in BOOLEAN
    OBVIOUS
  <2>2. [external |-> o.op = "enable_external", fi |-> fi] \in Points
    BY <2>1 DEF Points
  <2>3. /\ p \in Points \cup {NULL}
        /\ o.op = "disable" => p = NULL
        /\ o.op # "disable" => p.fi = fi
        /\ fi = NULL => p = NULL \/ p.fi = NULL
    BY <2>2
  <2>4. enabled' = [enabled EXCEPT ![o.name] = p]
    BY <1>4
  <2> HIDE DEF p
  <2>5. /\ enabled' \in [Names -> Points \cup {NULL}]
        /\ enabled'[o.name] = p
        /\ \A m \in Names : m # o.name => enabled'[m] = enabled[m]
    BY <1>1, <1>2, <2>3, <2>4
  <2>6. r' \in [Threads -> {0, -1}] /\ \A u \in Threads : u # t => r'[u] = r[u]
    BY <1>1, <1>2, <1>4
  <2>7. o.op = "disable" \/ fi = NULL => ~Pointed(o.name)'
    BY <2>3, <2>5 DEF Pointed
  <2>8. \A m \in Names : m # o.name =>
            (Pointed(m)' => Pointed(m) /\ enabled'[m] = enabled[m])
    BY <2>5 DEF Pointed
  <2> QED BY <2>3, <2>5, <2>6, <2>7, <2>8
<1> QED BY <1>3, <1>4 DEF Update

LEMMA PInvInit == Init => PInv
<1> SUFFICES ASSUME Init PROVE PInv
  OBVIOUS
<1>1. Types
  BY DEF Init, Types
<1>2. AtWork
  BY DEF Init, AtWork, At, Places
<1>3. \A n \in Names : ~Pointed(n)
  BY DEF Init, Pointed
<1>4. \A t \in Python : pc[t] = "idle"
  BY DEF Init, Threads
<1> QED BY <1>1, <1>2, <1>3, <1>4
        DEF PInv, Single, Progress, Resting, Busy, Places, Covered
-------------------------------------------------------------------------------
(***************************************************************************)
(* The types, and the calls.                                               *)
(***************************************************************************)
LEMMA TypesNext ==
    ASSUME PInv, NEW t \in Threads,
           \/ Step(t)
           \/ \E o \in Ops : \/ fi_table_update(t, o) \/ control(t, o)
                             \/ fail(t, o) \/ fail_external(t, o)
                             \/ failinfo(t, o)
    PROVE  Types' /\ AtWork'
<1>0. Types /\ AtWork
  BY DEF PInv
<1>1. ASSUME NEW o \in Ops, fi_table_update(t, o)
      PROVE  Types' /\ AtWork'
  <2>1. calls' \in [Threads -> Nat]
    BY <1>0, <1>1, BeginIs DEF fi_table_update
  <2>2. <<t, calls'[t]>> \in Objects
    BY <2>1 DEF Objects
  <2>3. /\ call' = [call EXCEPT ![t] = o]
        /\ o.name \in Names /\ o.op \in Controlling /\ t \in Python
        /\ r' = r /\ enabled' = enabled
        /\ disturbed' = disturbed \cup {o.name} \/ disturbed' = disturbed \ {o.name}
        /\ \/ fi_table' = [fi_table EXCEPT ![o.name] = <<t, calls'[t]>>]
           \/ fi_table' = fi_table
        /\ \/ pc' = [pc EXCEPT ![t] = "ll"]
           \/ pc' = [pc EXCEPT ![t] = "del"] /\ o.op = "disable"
    BY <1>1, OpIs DEF fi_table_update, Joins, Goto
  <2>4. /\ pc' \in [Threads -> Places \cup {"idle", "ensure", "callback"}]
        /\ call' \in [Threads -> Ops \cup {NULL}]
        /\ call'[t] = o /\ pc'[t] \in {"ll", "del"}
        /\ pc'[t] = "del" => o.op = "disable"
        /\ \A u \in Threads : u # t => pc'[u] = pc[u] /\ call'[u] = call[u]
    BY <1>0, <2>3 DEF Types, Places
  <2>5. fi_table' \in [Names -> Objects \cup {NULL}]
    <3>1. fi_table \in [Names -> Objects \cup {NULL}]
      BY <1>0 DEF Types
    <3> QED BY <2>2, <2>3, <3>1
  <2>6. AtWork'
    BY <1>0, <2>3, <2>4 DEF AtWork, At, Places
  <2> QED BY <1>0, <2>1, <2>3, <2>4, <2>5, <2>6 DEF Types
<1>2. ASSUME NEW o \in Ops, control(t, o)
      PROVE  Types' /\ AtWork'
  <2>1. calls' \in [Threads -> Nat]
    BY <1>0, <1>2, BeginIs DEF control
  <2>2. /\ UNCHANGED <<call, pc, fi_table, disturbed>>
        /\ \/ Update(t, o, NULL)
           \/ UNCHANGED <<enabled, r>>
    BY <1>2 DEF control
  <2>3. r' \in [Threads -> {0, -1}] /\ enabled' \in [Names -> Points \cup {NULL}]
    BY <1>0, <2>2, UpdateIs DEF Types, Points
  <2> QED BY <1>0, <2>1, <2>2, <2>3 DEF Types, Points, AtWork, At
<1>3. ASSUME NEW o \in Ops, fail(t, o) \/ failinfo(t, o)
      PROVE  Types' /\ AtWork'
  <2>1. calls' \in [Threads -> Nat]
    BY <1>0, <1>3, BeginIs DEF fail, failinfo
  <2> QED BY <1>0, <1>3, <2>1 DEF fail, failinfo, Types, AtWork, At
<1>4. ASSUME NEW o \in Ops, fail_external(t, o)
      PROVE  Types' /\ AtWork'
  <2>1. calls' \in [Threads -> Nat]
    BY <1>0, <1>4, BeginIs DEF fail_external
  <2>2. /\ UNCHANGED <<fi_table, enabled, disturbed, r>> /\ o.op = "fail"
        /\ call' = [call EXCEPT ![t] = o] /\ pc' = [pc EXCEPT ![t] = "ensure"]
    BY <1>4 DEF fail_external, Goto
  <2> QED BY <1>0, <2>1, <2>2 DEF Types, AtWork, At, Places
<1>5. CASE fi_table_del(t)
  <2>1. pc[t] = "del" /\ call[t] \in Ops /\ call[t].name \in Names /\ t \in Python
        /\ call[t].op \in Controlling
    BY <1>0, <1>5, OpIs DEF fi_table_del, At, AtWork, Places
  <2>2. /\ UNCHANGED <<calls, enabled, r>>
        /\ fi_table' \in [Names -> Objects \cup {NULL}]
    BY <1>0, <1>5 DEF fi_table_del, Types
  <2>3. CASE pc' = [pc EXCEPT ![t] = "ll"] /\ UNCHANGED <<call, disturbed>>
    BY <1>0, <2>1, <2>2, <2>3 DEF Types, AtWork, At, Places
  <2>4. CASE End(t) /\ Raises(call[t].name)
    BY <1>0, <2>1, <2>2, <2>4 DEF Goto, End, Raises, Types, AtWork, At, Places
  <2> QED BY <1>5, <2>3, <2>4 DEF fi_table_del, Goto
<1>6. CASE ll_call(t)
  <2>1. pc[t] = "ll" /\ call[t] \in Ops /\ t \in Python /\ call[t].op \in Controlling
    BY <1>0, <1>6 DEF ll_call, At, AtWork, Places
  <2> QED BY <1>0, <1>6, <2>1 DEF ll_call, Goto, Types, AtWork, At, Places
<1>7. CASE ll_raises(t)
  <2>1. pc[t] = "ll" /\ call[t] \in Ops /\ call[t].name \in Names
    BY <1>0, <1>7, OpIs DEF ll_raises, At, AtWork, Places
  <2> QED BY <1>0, <1>7, <2>1
          DEF ll_raises, Goto, End, Raises, Types, AtWork, At, Places
<1>8. CASE ll_control(t)
  <2>1. pc[t] = "wlock" /\ call[t] \in Ops /\ t \in Python /\ call[t].op \in Controlling
    BY <1>0, <1>8 DEF ll_control, At, AtWork, Places
  <2>2. Object(t) \in Objects
    BY <1>0 DEF Object, Objects, Types
  <2>3. r' \in [Threads -> {0, -1}] /\ enabled' \in [Names -> Points \cup {NULL}]
    BY <1>0, <1>8, <2>1, <2>2, UpdateIs DEF ll_control
  <2> QED BY <1>0, <1>8, <2>1, <2>3
          DEF ll_control, Goto, Types, Points, AtWork, At, Places
<1>9. CASE check(t)
  <2>1. pc[t] = "check" /\ call[t] \in Ops /\ call[t].name \in Names
    BY <1>0, <1>9, OpIs DEF check, At, AtWork, Places
  <2> QED BY <1>0, <1>9, <2>1 DEF check, Goto, End, Raises, Types, AtWork, At, Places
<1>10. CASE external_callback(t) \/ callback_returns(t)
  <2>1. pc[t] \in {"ensure", "callback"} /\ call[t] \in Ops /\ call[t].op = "fail"
    BY <1>0, <1>10 DEF external_callback, callback_returns, At, AtWork
  <2> QED BY <1>0, <1>10, <2>1
          DEF external_callback, callback_returns, Goto, End, Types, AtWork, At, Places
<1> QED BY <1>1, <1>2, <1>3, <1>4, <1>5, <1>6, <1>7, <1>8, <1>9, <1>10 DEF Step
-------------------------------------------------------------------------------
(***************************************************************************)
(* The calls at work on the names.                                         *)
(***************************************************************************)
Works == Single /\ Progress /\ Resting

\* A step of a thread that is not in a controlling call: libfiu may lose the
\* objects it has, and gets none.
LEMMA Aside ==
    ASSUME PInv, NEW t \in Threads, pc[t] \notin Places, pc'[t] \notin Places,
           \A u \in Threads : u # t => /\ pc'[u] = pc[u] /\ call'[u] = call[u]
                                       /\ calls'[u] = calls[u] /\ r'[u] = r[u],
           UNCHANGED <<fi_table, disturbed>>,
           \A n \in Names : Pointed(n)' => Pointed(n) /\ enabled'[n] = enabled[n]
    PROVE  Works'
<1>1. \A n \in Names : Covered(n) => Covered(n)'
  BY DEF Covered
<1>2. \A u \in Python : \A n : (Busy(u, n)' <=> Busy(u, n)) /\ (Busy(u, n) => u # t)
  BY PythonThreads DEF Busy
<1>3. ASSUME NEW u \in Python, NEW n \in Names, Busy(u, n), DoneBy(u, n)
      PROVE  DoneBy(u, n)'
  BY <1>1, <1>2, <1>3, PythonThreads DEF DoneBy, At, Object
<1> QED BY <1>1, <1>2, <1>3 DEF Works, PInv, Single, Progress, Resting

\* Nothing is done to the other names, except that libfiu may lose their objects.
OthersKept(n) ==
    \A m \in Names \ {n} : /\ fi_table'[m] = fi_table[m]
                           /\ Pointed(m)' => Pointed(m) /\ enabled'[m] = enabled[m]

\* A step of a controlling call that goes on, from the state of its name.
LEMMA Onward ==
    ASSUME PInv, NEW t \in Python, NEW n \in Names, Busy(t, n), Busy(t, n)',
           n \notin disturbed => DoneBy(t, n)',
           \A u \in Threads : u # t => /\ pc'[u] = pc[u] /\ call'[u] = call[u]
                                       /\ r'[u] = r[u],
           UNCHANGED <<calls, disturbed>>,
           OthersKept(n)
    PROVE  Works'
<1>1. \A m \in Names \ {n} : Covered(m) => Covered(m)'
  BY DEF Covered, OthersKept
<1>2. \A u \in Python : \A m : Busy(u, m)' <=> Busy(u, m)
  <2> SUFFICES ASSUME NEW u \in Python, NEW m PROVE Busy(u, m)' <=> Busy(u, m)
    OBVIOUS
  <2>1. CASE u = t
    BY <2>1 DEF Busy
  <2>2. CASE u # t
    BY <2>2, PythonThreads DEF Busy
  <2> QED BY <2>1, <2>2
<1>3. ASSUME NEW u \in Python, NEW m \in Names \ disturbed, Busy(u, m)
      PROVE  DoneBy(u, m)'
  <2>1. DoneBy(u, m)
    BY <1>3 DEF PInv, Progress
  <2>2. CASE u = t
    <3>1. m = n
      BY <1>3, <2>2 DEF Busy
    <3> QED BY <1>3, <2>2, <3>1
  <2>3. CASE u # t
    <3>1. m # n
      BY <1>3, <2>3 DEF PInv, Single
    <3>2. /\ fi_table'[m] = fi_table[m]
          /\ Covered(m) => Covered(m)'
          /\ Pointed(m)' => Pointed(m)
      BY <1>1, <1>3, <3>1 DEF OthersKept
    <3>3. /\ pc'[u] = pc[u] /\ call'[u] = call[u] /\ r'[u] = r[u]
          /\ Object(u)' = Object(u)
      BY <2>3, PythonThreads DEF Object
    <3> QED BY <2>1, <3>2, <3>3 DEF DoneBy, At
  <2> QED BY <2>2, <2>3
<1>4. ASSUME NEW m \in Names \ disturbed, \A u \in Python : ~Busy(u, m)
      PROVE  Covered(m)'
  BY <1>1, <1>4 DEF PInv, Resting
<1> QED BY <1>2, <1>3, <1>4 DEF Works, PInv, Single, Progress, Resting

\* The end of a controlling call.
LEMMA Ends ==
    ASSUME PInv, NEW t \in Python, NEW n \in Names, Busy(t, n), pc'[t] \notin Places,
           \A u \in Threads : u # t => /\ pc'[u] = pc[u] /\ call'[u] = call[u],
           UNCHANGED <<calls, r, enabled>>,
           disturbed \subseteq disturbed', n \in disturbed' \/ Covered(n)',
           \A m \in Names \ {n} : fi_table'[m] = fi_table[m]
    PROVE  Works'
<1>1. \A m \in Names \ {n} : Covered(m)' <=> Covered(m)
  BY DEF Covered, Pointed
<1>2. \A u \in Python : u # t => \A m : Busy(u, m)' <=> Busy(u, m)
  BY PythonThreads DEF Busy
<1>3. \A m : ~Busy(t, m)'
  BY DEF Busy
<1>4. ASSUME NEW u \in Python, NEW m \in Names \ disturbed', Busy(u, m)'
      PROVE  DoneBy(u, m)'
  <2>1. u # t /\ Busy(u, m) /\ m \notin disturbed
    BY <1>2, <1>3, <1>4
  <2>2. DoneBy(u, m) /\ m # n
    BY <2>1 DEF PInv, Progress, Single
  <2> QED BY <1>1, <2>1, <2>2, PythonThreads DEF DoneBy, At, Object, Pointed
<1>5. ASSUME NEW m \in Names \ disturbed', \A u \in Python : ~Busy(u, m)'
      PROVE  Covered(m)'
  <2>1. CASE m = n
    BY <1>5, <2>1
  <2>2. CASE m # n
    <3>1. \A u \in Python : ~Busy(u, m)
      BY <1>2, <1>5, <2>2 DEF Busy
    <3> QED BY <1>1, <1>5, <2>2, <3>1 DEF PInv, Resting
  <2> QED BY <2>1, <2>2
<1> QED BY <1>2, <1>3, <1>4, <1>5 DEF Works, PInv, Single, Progress, Resting

\* The beginning of one.
LEMMA Begins ==
    ASSUME PInv, NEW t \in Python, NEW o \in Ops, fi_table_update(t, o)
    PROVE  Works'
<1> DEFINE n == o.name
<1>1. /\ Types /\ AtWork /\ pc[t] = "idle" /\ t \in Threads /\ n \in Names
      /\ \A u \in Threads : u # t => calls'[u] = calls[u]
      /\ calls' \in [Threads -> Nat]
  BY BeginIs, PythonThreads, OpIs DEF PInv, fi_table_update
<1>2. /\ call' = [call EXCEPT ![t] = o] /\ o.op \in Controlling
      /\ UNCHANGED <<enabled, r>>
      /\ pc' = [pc EXCEPT ![t] = "ll"] \/ pc' = [pc EXCEPT ![t] = "del"]
      /\ \/ /\ o.op \in Enabling
            /\ fi_table' = [fi_table EXCEPT ![n] = <<t, calls'[t]>>]
         \/ o.op = "disable" /\ fi_table' = fi_table
  BY DEF fi_table_update, Goto
<1>3. disturbed' = IF \A u \in Python : ~Busy(u, n) THEN disturbed \ {n}
                   ELSE disturbed \cup {n}
  BY <1>1, QuietIs DEF fi_table_update, Joins
<1>4. /\ \A u \in Threads : u # t => pc'[u] = pc[u] /\ call'[u] = call[u]
      /\ pc'[t] \in {"ll", "del"} /\ call'[t] = o
      /\ \A m \in Names : m # n => fi_table'[m] = fi_table[m]
  BY <1>1, <1>2 DEF Types
<1>5. \A m \in Names \ {n} : Covered(m)' <=> Covered(m)
  BY <1>2, <1>4 DEF Covered, Pointed
<1>6. /\ \A u \in Python : u # t => \A m : Busy(u, m)' <=> Busy(u, m)
      /\ \A m : ~Busy(t, m) /\ (Busy(t, m)' <=> m = n)
  BY <1>1, <1>4, PythonThreads DEF Busy, Places
<1> HIDE DEF n
<1>7. \A m \in Names : m # n => (m \in disturbed' <=> m \in disturbed)
  BY <1>3
<1>8. n \notin disturbed' => \A u \in Python : ~Busy(u, n)
  BY <1>3
<1>9. DoneBy(t, n)'
  <2>1. CASE o.op \in Enabling
    <3>1. fi_table'[n] = <<t, calls'[t]>>
      BY <1>1, <1>2, <2>1, OpsApart DEF Types
    <3> QED BY <1>4, <2>1, <3>1, OpsApart DEF DoneBy, At, Object
  <2>2. CASE o.op = "disable"
    BY <1>4, <2>2, OpsApart DEF DoneBy, At
  <2> QED BY <1>2, <2>1, <2>2
<1>10. ASSUME NEW u \in Python, NEW m \in Names \ disturbed', Busy(u, m)'
       PROVE  DoneBy(u, m)'
  <2>1. CASE u = t
    BY <1>6, <1>9, <1>10, <2>1
  <2>2. CASE u # t
    <3>1. Busy(u, m) /\ m # n /\ m \notin disturbed
      BY <1>6, <1>7, <1>8, <1>10, <2>2
    <3>2. DoneBy(u, m)
      BY <3>1 DEF PInv, Progress
    <3> QED BY <1>2, <1>4, <1>5, <1>1, <2>2, <3>1, <3>2, PythonThreads
            DEF DoneBy, At, Object, Pointed
  <2> QED BY <2>1, <2>2
<1>11. ASSUME NEW m \in Names \ disturbed', \A u \in Python : ~Busy(u, m)'
       PROVE  Covered(m)'
  <2>1. m # n /\ m \notin disturbed
    BY <1>6, <1>7, <1>11
  <2>2. \A u \in Python : ~Busy(u, m)
    BY <1>6, <1>11
  <2> QED BY <1>5, <2>1, <2>2 DEF PInv, Resting
<1>12. ASSUME NEW m \in Names \ disturbed', NEW u1 \in Python, NEW u2 \in Python,
              Busy(u1, m)', Busy(u2, m)'
       PROVE  u1 = u2
  BY <1>6, <1>7, <1>8, <1>12 DEF PInv, Single
<1> QED BY <1>10, <1>11, <1>12 DEF Works, Single, Progress, Resting
-------------------------------------------------------------------------------
\* The steps of a controlling call.
LEMMA CallStep ==
    ASSUME PInv, NEW t \in Threads,
           \/ fi_table_del(t) \/ ll_call(t) \/ ll_raises(t) \/ ll_control(t) \/ check(t)
    PROVE  Works'
<1>0. /\ pc[t] \in Places /\ t \in Python /\ call[t] \in Ops
      /\ call[t].op \in Controlling /\ call[t].name \in Names
  BY OpIs DEF fi_table_del, ll_call, ll_raises, ll_control, check, At, PInv, AtWork, Places
<1> PICK n \in Names : n = call[t].name
  BY <1>0
<1>1. /\ pc[t] \in Places /\ t \in Python /\ call[t] \in Ops
      /\ call[t].op \in Controlling /\ n \in Names /\ n = call[t].name
  BY <1>0
<1>2. Busy(t, n)
  BY <1>1 DEF Busy
<1>3. n \notin disturbed => DoneBy(t, n)
  BY <1>1, <1>2 DEF PInv, Progress
<1>4. Types
  BY DEF PInv
<1>5. CASE fi_table_del(t)
  <2>1. /\ pc[t] = "del" /\ UNCHANGED <<calls, enabled, r>>
        /\ fi_table' = [fi_table EXCEPT ![n] = NULL]
    BY <1>5 DEF fi_table_del, At
  <2>2. \A m \in Names \ {n} : fi_table'[m] = fi_table[m]
    BY <1>4, <2>1 DEF Types
  <2>3. CASE pc' = [pc EXCEPT ![t] = "ll"] /\ UNCHANGED <<call, disturbed>>
    <3>1. /\ pc'[t] = "ll"
          /\ \A u \in Threads : u # t => pc'[u] = pc[u] /\ call'[u] = call[u] /\ r'[u] = r[u]
      BY <1>4, <2>1, <2>3 DEF Types
    <3>2. Busy(t, n)'
      BY <2>3, <3>1 DEF Busy, Places
    <3>3. call[t].op = "disable" /\ call'[t] = call[t]
      BY <1>1, <2>1, <2>3 DEF PInv, AtWork, At
    <3>4. DoneBy(t, n)'
      BY <3>1, <3>3, OpsApart DEF DoneBy, At
    <3>5. OthersKept(n)
      BY <2>1, <2>2 DEF OthersKept, Pointed
    <3>6. UNCHANGED <<calls, disturbed>> /\ t \in Python /\ n \in Names
      BY <1>1, <2>1, <2>3
    <3> QED BY <1>2, <3>1, <3>2, <3>4, <3>5, <3>6, Onward
  <2>4. CASE End(t) /\ Raises(n)
    <3>1. /\ pc'[t] = "idle" /\ n \in disturbed' /\ disturbed \subseteq disturbed'
          /\ \A u \in Threads : u # t => pc'[u] = pc[u] /\ call'[u] = call[u]
      BY <1>4, <2>4 DEF End, Goto, Raises, Types
    <3> QED BY <1>1, <1>2, <2>1, <2>2, <3>1, Ends DEF Places
  <2> QED BY <1>5, <2>3, <2>4 DEF fi_table_del, Goto
<1>6. CASE ll_call(t)
  <2>1. pc[t] = "ll" /\ UNCHANGED <<calls, call, fi_table, enabled, disturbed>>
    BY <1>6 DEF ll_call, At
  <2>2. \/ pc' = [pc EXCEPT ![t] = "wlock"] /\ r' = r
        \/ /\ pc' = [pc EXCEPT ![t] = "check"] /\ r' = [r EXCEPT ![t] = -1]
           /\ call[t].op \in Enabling
    BY <1>6 DEF ll_call, Goto
  <2>3. \A u \in Threads : u # t => pc'[u] = pc[u] /\ call'[u] = call[u] /\ r'[u] = r[u]
    BY <1>4, <2>1, <2>2 DEF Types
  <2>4. \/ pc'[t] = "wlock"
        \/ pc'[t] = "check" /\ r'[t] = -1 /\ call[t].op \in Enabling
    BY <1>4, <2>2 DEF Types
  <2>5. Busy(t, n)'
    BY <2>1, <2>4 DEF Busy, Places
  <2>6. n \notin disturbed => DoneBy(t, n)'
    BY <1>3, <2>1, <2>4, OpsApart DEF DoneBy, At, Object
  <2>7. OthersKept(n)
    BY <2>1 DEF OthersKept, Pointed
  <2>8. UNCHANGED <<calls, disturbed>> /\ t \in Python /\ n \in Names
    BY <1>1, <2>1
  <2> QED BY <1>2, <2>3, <2>5, <2>6, <2>7, <2>8, Onward
<1>7. CASE ll_raises(t)
  <2>1. /\ UNCHANGED <<calls, enabled, r, fi_table>>
        /\ pc'[t] = "idle" /\ n \in disturbed' /\ disturbed \subseteq disturbed'
        /\ \A u \in Threads : u # t => pc'[u] = pc[u] /\ call'[u] = call[u]
    BY <1>4, <1>7 DEF ll_raises, End, Goto, Raises, Types
  <2> QED BY <1>1, <1>2, <2>1, Ends DEF Places
<1>8. CASE ll_control(t)
  <2>1. /\ pc[t] = "wlock" /\ UNCHANGED <<calls, call, fi_table, disturbed>>
        /\ pc' = [pc EXCEPT ![t] = "check"] /\ Update(t, call[t], Object(t))
    BY <1>8 DEF ll_control, At, Goto
  <2>2. Object(t) \in Objects \cup {NULL}
    BY <1>1, <1>4, PythonThreads DEF Object, Objects, Types
  <2>3. /\ pc'[t] = "check"
        /\ \A u \in Threads : u # t => pc'[u] = pc[u] /\ call'[u] = call[u] /\ r'[u] = r[u]
    BY <1>1, <1>4, <2>1, <2>2, UpdateIs DEF Types
  <2>4. Busy(t, n)'
    BY <2>1, <2>3 DEF Busy, Places
  <2>5. OthersKept(n)
    BY <1>1, <1>4, <2>1, <2>2, UpdateIs DEF OthersKept
  <2>6. UNCHANGED <<calls, disturbed>> /\ t \in Python /\ n \in Names
    BY <1>1, <2>1
  <2>7. CASE call[t].op = "disable"
    <3>1. ~Pointed(n)'
      BY <1>1, <1>4, <2>1, <2>2, <2>7, UpdateIs DEF Pointed
    <3>2. DoneBy(t, n)'
      BY <2>1, <2>3, <2>7, <3>1, OpsApart DEF DoneBy, At
    <3> QED BY <1>2, <2>3, <2>4, <2>5, <2>6, <3>2, Onward
  <2>8. CASE call[t].op \in Enabling
    <3>1. r'[t] = -1 \/ enabled'[n].fi = Object(t)
      BY <1>1, <1>4, <2>1, <2>2, <2>8, OpsApart, UpdateIs
    <3>2. Object(t)' = Object(t)
      BY <2>1 DEF Object
    <3>3. n \notin disturbed => fi_table'[n] = Object(t)
      BY <1>3, <2>1, <2>8 DEF DoneBy
    <3>4. n \notin disturbed => DoneBy(t, n)'
      BY <2>1, <2>3, <2>8, <3>1, <3>2, <3>3, OpsApart DEF DoneBy, At, Covered
    <3> QED BY <1>2, <2>3, <2>4, <2>5, <2>6, <3>4, Onward
  <2> QED BY <1>1, <2>7, <2>8, OpsApart
<1>9. CASE check(t)
  <2>1. /\ pc[t] = "check" /\ UNCHANGED <<calls, enabled, r>>
        /\ pc'[t] = "idle"
        /\ \A u \in Threads : u # t => pc'[u] = pc[u] /\ call'[u] = call[u]
    BY <1>4, <1>9 DEF check, At, End, Goto, Types
  <2>2. CASE Raises(n) /\ fi_table' = [fi_table EXCEPT ![n] = NULL]
    <3>1. n \in disturbed' /\ disturbed \subseteq disturbed'
      BY <2>2 DEF Raises
    <3>2. \A m \in Names \ {n} : fi_table'[m] = fi_table[m]
      BY <1>4, <2>2 DEF Types
    <3> QED BY <1>1, <1>2, <2>1, <3>1, <3>2, Ends DEF Places
  <2>3. CASE (r[t] = 0 \/ call[t].op = "disable") /\ UNCHANGED <<fi_table, disturbed>>
    <3>1. n \notin disturbed => Covered(n)
      BY <1>1, <1>3, <2>1, <2>3, OpsApart DEF DoneBy, At, Covered
    <3>2. t \in Python /\ n \in Names /\ UNCHANGED <<enabled, fi_table, disturbed>>
      BY <1>1, <2>1, <2>3
    <3>3. Covered(n)' <=> Covered(n)
      BY <3>2 DEF Covered, Pointed
    <3>4. n \in disturbed' \/ Covered(n)'
      BY <3>1, <3>2, <3>3
    <3> QED BY <1>2, <2>1, <3>2, <3>4, Ends DEF Places
  <2> QED BY <1>9, <2>2, <2>3 DEF check
<1> QED BY <1>5, <1>6, <1>7, <1>8, <1>9

\* Threads that check points, that are in a callback, or that are not of Python.
LEMMA OtherStep ==
    ASSUME PInv, NEW t \in Threads,
           \/ external_callback(t) \/ callback_returns(t)
           \/ \E o \in Ops : \/ control(t, o) \/ fail(t, o)
                             \/ fail_external(t, o) \/ failinfo(t, o)
    PROVE  Works'
<1>1. Types
  BY DEF PInv
<1>2. CASE external_callback(t) \/ callback_returns(t)
  <2>1. /\ pc[t] \in {"ensure", "callback"} /\ pc'[t] \in {"idle", "callback"}
        /\ UNCHANGED <<calls, r, fi_table, disturbed, enabled>>
        /\ \A u \in Threads : u # t => pc'[u] = pc[u] /\ call'[u] = call[u]
    BY <1>1, <1>2 DEF external_callback, callback_returns, At, Goto, End, Types
  <2> QED BY <2>1, Aside DEF Places, Pointed
<1>3. ASSUME NEW o \in Ops, fail(t, o) \/ fail_external(t, o) \/ failinfo(t, o)
      PROVE  Works'
  <2>1. /\ pc[t] = "idle" /\ \A u \in Threads : u # t => calls'[u] = calls[u]
    BY <1>1, <1>3, BeginIs DEF fail, fail_external, failinfo
  <2>2. /\ pc'[t] \in {"idle", "ensure"}
        /\ UNCHANGED <<r, fi_table, disturbed, enabled>>
        /\ \A u \in Threads : u # t => pc'[u] = pc[u] /\ call'[u] = call[u]
    BY <1>1, <1>3, <2>1 DEF fail, fail_external, failinfo, Goto, Types
  <2> QED BY <2>1, <2>2, Aside DEF Places, Pointed
<1>4. ASSUME NEW o \in Ops, control(t, o)
      PROVE  Works'
  <2>1. /\ pc[t] = "idle" /\ \A u \in Threads : u # t => calls'[u] = calls[u]
    BY <1>1, <1>4, BeginIs DEF control
  <2>2. /\ UNCHANGED <<call, pc, fi_table, disturbed>>
        /\ Update(t, o, NULL) \/ UNCHANGED <<enabled, r>>
    BY <1>4 DEF control
  <2>3. \A u \in Threads : u # t => r'[u] = r[u]
    BY <1>1, <2>2 DEF Update, Types
  <2>4. \A n \in Names : Pointed(n)' => Pointed(n) /\ enabled'[n] = enabled[n]
    BY <1>1, <2>2, UpdateIs DEF Pointed
  <2> QED BY <2>1, <2>2, <2>3, <2>4, Aside DEF Places
<1> QED BY <1>2, <1>3, <1>4

LEMMA PInvNext == PInv /\ [Next]_vars => PInv'
<1> SUFFICES ASSUME PInv, [Next]_vars PROVE PInv'
  OBVIOUS
<1>1. CASE UNCHANGED vars
  BY <1>1 DEF vars, PInv, Types, AtWork, At, Single, Progress, Resting, Busy, DoneBy,
              Covered, Pointed, Object
<1>2. ASSUME NEW t \in Threads, Step(t) PROVE PInv'
  BY <1>2, TypesNext, CallStep, OtherStep DEF Step, PInv, Works
<1>3. ASSUME NEW t \in Threads, NEW o \in Ops,
             fi_table_update(t, o)
      PROVE  PInv'
  <2>1. t \in Python
    BY <1>3 DEF fi_table_update
  <2> QED BY <1>3, <2>1, TypesNext, Begins DEF PInv, Works
<1>4. ASSUME NEW t \in Threads, NEW o \in Ops,
             \/ control(t, o) \/ fail(t, o) \/ fail_external(t, o) \/ failinfo(t, o)
      PROVE  PInv'
  BY <1>4, TypesNext, OtherStep DEF PInv, Works
<1> QED BY <1>1, <1>2, <1>3, <1>4 DEF Next

\* Whatever the program does, and whichever of its calls are refused or raise,
\* an object that libfiu has a pointer to is in _fi_table, for every name whose
\* controlling calls have not disturbed each other since the last one that was
\* alone and succeeded.
THEOREM TableCoversCorrect == Spec => []TableCovers
<1>1. PInv => TableCovers
  BY QuietIs DEF PInv, Resting, TableCovers, Covered, Pointed
<1> QED BY <1>1, PInvInit, PInvNext, PTL DEF Spec
===============================================================================
