----------------------------- MODULE PosixPreload -----------------------------
(***************************************************************************)
(* The POSIX preloader: the wrappers that preload/posix/codegen.h expands  *)
(* to, as the module files, the generator and modules/posix.custom.c use   *)
(* it, and the set of streams behind ferror().                             *)
(*                                                                         *)
(* A wrapper may be entered again while it is at work, by fiu_fail(), by   *)
(* the dynamic linker or by libc, so a thread is a stack of frames: one    *)
(* for each wrapper it is in, the innermost one last.                      *)
(*                                                                         *)
(* The state is that after the constructors, which run in the main thread: *)
(* only that thread has resolved the functions of libc, for the pointers   *)
(* to them are per thread.                                                 *)
(*                                                                         *)
(* An operator whose name ends in _bug is a faulty version of a definition *)
(* below it, there to see that the properties notice the fault.            *)
(***************************************************************************)
EXTENDS SequencesExt, Integers

CONSTANTS
    NULL,
    Threads, Main,
    Streams, stdin, stdout,  \* the addresses a FILE can have
    Program,     \* for each thread, the functions its next call may be of
    Callees,     \* the functions fiu_fail(), dlsym(), libc and hash.c call
    Callbacks,   \* those that external callbacks call, within fiu_fail()
    Counts,      \* the sizes of reads and writes
    MaxNested    \* bound: nested calls of each thread

VARIABLES
    called,      \* _fiu_called, per thread
    orig,        \* the functions with _fiu_orig_NAME set, per thread
    stack,       \* the frames of every thread
    once,        \* ferror_hash_table_is_initialized
    mutex,       \* ferror_hash_table_mutex: the thread that holds it
    ferror_set,  \* ferror_hash_table
    file,        \* what the program has at each address
    calls, nested,
    injected,    \* history: streams with an injected failure since opened
    owed,        \* history: streams whose failure the program has seen, and
                 \* has not begun to clear since
    overlapped   \* history: threads that another one's clearing overlaps

setVars  == <<once, mutex, ferror_set>>
bounds   == <<calls, nested>>
history  == <<injected, owed, overlapped>>
vars     == <<called, orig, stack, setVars, file, bounds, history>>
------------------------------------------------------------------------------
(***************************************************************************)
(* The wrappers.  orig is the function of libc that the wrapper calls, and *)
(* nested the one it checks and calls in a nested call; uses is the stream *)
(* it works on, declared the one a later ferror() shall fail for, sets the *)
(* one it does mark when it is made to fail: NULL for none, "arg" for the  *)
(* one it is given.                                                        *)
(***************************************************************************)
Wrapper(f, nested_f, uses, sets) ==
    [orig |-> f, nested |-> nested_f, uses |-> uses, declared |-> sets,
     sets |-> sets, reduce |-> FALSE]

\* The generator: the declaration "ferror:" has an effect only together with
\* "valid errnos:".
generate_to(f, uses, valid_errnos, declared, reduce) ==
    [orig |-> f, nested |-> f, uses |-> uses, declared |-> declared,
     sets |-> IF valid_errnos THEN declared ELSE NULL, reduce |-> reduce]

malloc  == generate_to("malloc", NULL, TRUE, NULL, FALSE)
read    == generate_to("read", NULL, TRUE, NULL, TRUE)
fopen   == generate_to("fopen", NULL, TRUE, NULL, FALSE)
popen   == generate_to("popen", NULL, TRUE, NULL, FALSE)
pclose  == generate_to("pclose", "arg", TRUE, NULL, FALSE)
fread   == generate_to("fread", "arg", TRUE, "arg", FALSE)
ungetc  == generate_to("ungetc", "arg", FALSE, "arg", FALSE)

open     == Wrapper("open", "open", NULL, NULL)
open64   == Wrapper("open64", "open", NULL, NULL)
ferror   == Wrapper("ferror", "ferror", "arg", NULL)
clearerr == Wrapper("clearerr", "clearerr", "arg", NULL)
fclose   == Wrapper("fclose", "fclose", "arg", NULL)

fprintf == Wrapper("vfprintf", "vfprintf", "arg", "arg")
printf  == Wrapper("vprintf", "vprintf", stdout, stdout)
dprintf == Wrapper("vdprintf", "vdprintf", NULL, NULL)
fscanf  == Wrapper("vfscanf", "vfscanf", "arg", "arg")
scanf   == Wrapper("vscanf", "vscanf", stdin, stdin)

Wrapped ==
    [malloc |-> malloc, read |-> read, fopen |-> fopen, popen |-> popen,
     pclose |-> pclose, fread |-> fread,
     ungetc |-> ungetc, open |-> open, open64 |-> open64, ferror |-> ferror,
     clearerr |-> clearerr, fclose |-> fclose, fprintf |-> fprintf,
     printf |-> printf, dprintf |-> dprintf, fscanf |-> fscanf, scanf |-> scanf]

Openers == {"fopen", "popen"}
Closers == {"fclose", "pclose"}

\* Where control goes when fiu_fail() lets the call pass, after the function of
\* libc, and after the access to the set of streams.
After_bug(f, where) ==
    CASE f = "fclose" ->
            [fiu_fail |-> "orig", orig |-> "once", hash |-> "exit"][where]
      [] f \in {"ferror", "clearerr"} ->
            [fiu_fail |-> "orig", orig |-> "once", hash |-> "exit"][where]
      [] OTHER -> [fiu_fail |-> "orig", orig |-> "exit", hash |-> "exit"][where]

After(f, where) ==
    CASE f = "fclose" ->
            [fiu_fail |-> "once", hash |-> "orig", orig |-> "exit"][where]
      [] f \in {"ferror", "clearerr"} ->
            [fiu_fail |-> "orig", orig |-> "once", hash |-> "exit"][where]
      [] OTHER -> [fiu_fail |-> "orig", orig |-> "exit", hash |-> "exit"][where]

ASSUME PosixAssumption ==
    /\ Main \in Threads
    /\ {stdin, stdout} \subseteq Streams
    /\ NULL \notin Streams \cup Threads \cup {"done"} /\ "done" \notin Threads
    /\ Program \in [Threads -> Seq(SUBSET DOMAIN Wrapped)]
    /\ Callees \cup Callbacks \subseteq DOMAIN Wrapped
    /\ Counts \subseteq Nat
    /\ MaxNested \in [Threads -> Nat]

Init ==
    /\ called = [t \in Threads |-> 0]
    /\ orig = [t \in Threads |->
                 IF t = Main THEN {Wrapped[f].orig : f \in DOMAIN Wrapped} ELSE {}]
    /\ stack = [t \in Threads |-> <<>>]
    /\ once = NULL
    /\ mutex = NULL
    /\ ferror_set = {}
    /\ file = [s \in Streams |-> IF s \in {stdin, stdout} THEN "fopen" ELSE "none"]
    /\ calls = [t \in Threads |-> 0]
    /\ nested = [t \in Threads |-> 0]
    /\ injected = {}
    /\ owed = {}
    /\ overlapped = {}
------------------------------------------------------------------------------
Top(t) == Last(stack[t])

At(t, where) == stack[t] # <<>> /\ Top(t).pc = where

Frame(f, sym, s, n, counted, where) ==
    [fn |-> f, sym |-> sym, stream |-> s, count |-> n, counted |-> counted,
     pc |-> where, r |-> 0, owed |-> s \in owed]

Push(t, frame) == stack' = [stack EXCEPT ![t] = Append(@, frame)]

Goto(t, where) == stack' = [stack EXCEPT ![t][Len(stack[t])].pc = where]

\* To the end of the wrapper, with what it returns: 0, or 1 for a failure.
Finish(t, r) ==
    stack' = [stack EXCEPT ![t][Len(stack[t])].pc = "exit",
                           ![t][Len(stack[t])].r = r]

rec_add(t, n) == called' = [called EXCEPT ![t] = @ + n]

\* The functions with _fiu_in_init_NAME set.
InInit(t) == {fr.sym : fr \in {x \in ToSet(stack[t]) : x.pc = "init"}}

\* On to the next part of the wrapper; before the first call of a function of
\* libc _fiu_init_NAME() looks it up, counted as one more level.
Continue(t, where) ==
    IF After(Top(t).fn, where) = "orig" /\ Top(t).sym \notin orig[t]
    THEN Goto(t, "init") /\ rec_add(t, 1)
    ELSE Goto(t, After(Top(t).fn, where)) /\ UNCHANGED called
------------------------------------------------------------------------------
(***************************************************************************)
(* Entering a wrapper.                                                     *)
(***************************************************************************)
mkwrap_body_called_bug(t, f, s, n) ==
    LET w == Wrapped[f]  known == w.nested \in orig[t] IN
    /\ called[t] > 0
    /\ Push(t, Frame(f, w.nested, s, n, FALSE, IF known THEN "orig" ELSE "init"))
    /\ rec_add(t, IF known THEN 0 ELSE 1)

\* In a nested call: straight to libc.  dlsym() itself may end up here, to be
\* refused.
mkwrap_body_called(t, f, s, n) ==
    LET w == Wrapped[f]
        Nested(where) == Push(t, Frame(f, w.nested, s, n, FALSE, where))
    IN
    /\ called[t] > 0
    /\ IF w.nested \in orig[t] THEN Nested("orig") /\ UNCHANGED called
       ELSE IF w.nested \in InInit(t) THEN Nested("exit") /\ UNCHANGED called
       ELSE Nested("init") /\ rec_add(t, 1)

mkwrap_top_bug(t, f, s, n) ==
    LET w == Wrapped[f] IN
    /\ called[t] = 0
    /\ Push(t, Frame(f, w.orig, s, n, TRUE, IF w.reduce THEN "reduce" ELSE "fiu_fail"))
    /\ UNCHANGED called

mkwrap_top(t, f, s, n) ==
    LET w == Wrapped[f] IN
    /\ called[t] = 0
    /\ Push(t, Frame(f, w.orig, s, n, TRUE, IF w.reduce THEN "reduce" ELSE "fiu_fail"))
    /\ rec_add(t, 1)

\* clearerr() counts itself also in a nested call, and asks nobody.
clearerr_call(t, s) ==
    /\ Push(t, Frame("clearerr", "clearerr", s, 0, TRUE,
                     IF "clearerr" \in orig[t] THEN "orig" ELSE "init"))
    /\ rec_add(t, IF "clearerr" \in orig[t] THEN 1 ELSE 2)

\* The program uses a stream only while it has it open, and closes it with the
\* function that goes with the one that opened it, when nobody is using it.
InUse(s) == \E t \in Threads : \E fr \in ToSet(stack[t]) : fr.stream = s

MayUse(f, s) ==
    IF Wrapped[f].uses # "arg"
    THEN s = Wrapped[f].uses /\ (s # NULL => file[s] \in Openers)
    ELSE /\ s # NULL
         /\ IF f = "fclose" THEN file[s] = "fopen" /\ ~InUse(s)
            ELSE IF f = "pclose" THEN file[s] = "popen" /\ ~InUse(s)
            ELSE file[s] \in Openers

Clearing(u, s) == \E fr \in ToSet(stack[u]) : fr.fn = "clearerr" /\ fr.stream = s

\* What a call on a stream means to the program.
Begins(t, f, s) ==
    /\ file' = IF f \in Closers THEN [file EXCEPT ![s] = "closing"] ELSE file
    /\ owed' = IF f \in Closers \cup {"clearerr"} THEN owed \ {s} ELSE owed
    /\ overlapped' = overlapped \cup
          (IF f = "clearerr"
           THEN {u \in Threads : \E fr \in ToSet(stack[u]) : fr.stream = s} ELSE {})
          \cup (IF \E u \in Threads : Clearing(u, s) THEN {t} ELSE {})
    /\ UNCHANGED injected

Enter(t, f) ==
    \E s \in Streams \cup {NULL}, n \in (IF Wrapped[f].reduce THEN Counts ELSE {0}) :
        /\ MayUse(f, s)
        /\ IF f = "clearerr" THEN clearerr_call(t, s)
           ELSE mkwrap_body_called(t, f, s, n) \/ mkwrap_top(t, f, s, n)
        /\ Begins(t, f, s)
        /\ UNCHANGED <<orig, setVars>>

\* A call by the program.
Call(t) ==
    /\ stack[t] = <<>>
    /\ calls[t] < Len(Program[t])
    /\ calls' = [calls EXCEPT ![t] = @ + 1]
    /\ \E f \in Program[t][calls'[t]] : Enter(t, f)
    /\ UNCHANGED nested

\* codegen.h:123 "fiu_fail() may call anything"; the dynamic linker, libc and
\* the hash table allocate.
NestedCall(t) ==
    /\ nested[t] < MaxNested[t]
    /\ nested' = [nested EXCEPT ![t] = @ + 1]
    /\ \/ At(t, "fiu_fail") /\ \E f \in Callbacks : Enter(t, f)
       \/ /\ At(t, "init") \/ At(t, "orig") \/ At(t, "create") \/ At(t, "hash")
          /\ \E f \in Callees : Enter(t, f)
    /\ UNCHANGED calls
------------------------------------------------------------------------------
(***************************************************************************)
(* The body.                                                               *)
(***************************************************************************)
mkwrap_body_reduce_bug(t) ==
    /\ At(t, "reduce")
    /\ \E k \in 0..Top(t).count :
          stack' = [stack EXCEPT ![t][Len(stack[t])].pc = "fiu_fail",
                                 ![t][Len(stack[t])].count = @ - k]
    /\ UNCHANGED <<called, orig, setVars, file, bounds, history>>

\* When FIU_NAME/reduce fails, or leaves the count alone when k = 0.  The
\* division by a count of 0 ends the process: the thread does not go on.
mkwrap_body_reduce(t) ==
    /\ At(t, "reduce")
    /\ \E k \in 0..(Top(t).count - 1) :
          stack' = [stack EXCEPT ![t][Len(stack[t])].pc = "fiu_fail",
                                 ![t][Len(stack[t])].count = @ - k]
    /\ UNCHANGED <<called, orig, setVars, file, bounds, history>>

\* The point of failure is enabled and fails: mkwrap_body_errno(),
\* mkwrap_body_errno_ferror(), mkwrap_body_hardcoded().
mkwrap_body_fails(t) ==
    /\ At(t, "fiu_fail")
    /\ IF Wrapped[Top(t).fn].sets = NULL
       THEN Finish(t, 1) /\ UNCHANGED injected
       ELSE /\ stack' = [stack EXCEPT ![t][Len(stack[t])].pc = "once",
                                      ![t][Len(stack[t])].r = 1]
            /\ injected' = injected \cup {Top(t).stream}
    /\ UNCHANGED <<called, orig, setVars, file, bounds, owed, overlapped>>

mkwrap_body_passes_bug(t) ==
    /\ At(t, "fiu_fail")
    /\ IF Top(t).sym \in orig[t] THEN Goto(t, "orig") /\ UNCHANGED called
       ELSE Goto(t, "init") /\ rec_add(t, 1)
    /\ UNCHANGED <<orig, setVars, file, bounds, history>>

\* It does not fail.  fclose() removes the stream from the set first.
mkwrap_body_passes(t) ==
    /\ At(t, "fiu_fail")
    /\ Continue(t, "fiu_fail")
    /\ UNCHANGED <<orig, setVars, file, bounds, history>>

\* The rest of _fiu_init_NAME().
mkwrap_init(t) ==
    /\ At(t, "init")
    /\ orig' = [orig EXCEPT ![t] = @ \cup {Top(t).sym}]
    /\ Goto(t, "orig")
    /\ rec_add(t, -1)
    /\ UNCHANGED <<setVars, file, bounds, history>>

\* The program learns of an injected failure when the outermost wrapper returns.
Learns(t) ==
    IF Top(t).r = 1 /\ Wrapped[Top(t).fn].declared # NULL /\ t \notin overlapped
    THEN {Top(t).stream} ELSE {}

exit_bug(t) ==
    /\ At(t, "exit")
    /\ stack' = [stack EXCEPT ![t] = Front(@)]
    /\ rec_add(t, IF Top(t).counted /\ Top(t).r = 0 THEN -1 ELSE 0)
    /\ owed' = owed \cup Learns(t)
    /\ overlapped' = IF Len(stack[t]) = 1 THEN overlapped \ {t} ELSE overlapped
    /\ UNCHANGED <<orig, setVars, file, bounds, injected>>

\* The wrapper returns.
exit(t) ==
    /\ At(t, "exit")
    /\ stack' = [stack EXCEPT ![t] = Front(@)]
    /\ rec_add(t, IF Top(t).counted THEN -1 ELSE 0)
    /\ owed' = owed \cup Learns(t)
    /\ overlapped' = IF Len(stack[t]) = 1 THEN overlapped \ {t} ELSE overlapped
    /\ UNCHANGED <<orig, setVars, file, bounds, injected>>
------------------------------------------------------------------------------
(***************************************************************************)
(* The function of libc.                                                   *)
(***************************************************************************)
AtLibc(t, fs) == At(t, "orig") /\ Top(t).fn \in fs

\* A nested call is over; the others go on.
Return(t) ==
    IF Top(t).counted THEN Goto(t, After(Top(t).fn, "orig")) ELSE Finish(t, 0)

\* A new stream, at any address that is free; or none.
orig_open(t) ==
    /\ AtLibc(t, Openers)
    /\ \/ UNCHANGED file
       \/ \E s \in Streams \ {stdin, stdout} :
             file[s] = "none" /\ file' = [file EXCEPT ![s] = Top(t).fn]
    /\ Return(t)
    /\ UNCHANGED <<called, orig, setVars, bounds, history>>

\* The address is free from here on.
orig_close(t) ==
    /\ AtLibc(t, Closers)
    /\ file' = [file EXCEPT ![Top(t).stream] = "none"]
    /\ injected' = injected \ {Top(t).stream}
    /\ Return(t)
    /\ UNCHANGED <<called, orig, setVars, bounds, owed, overlapped>>

orig_clearerr(t) ==
    /\ AtLibc(t, {"clearerr"})
    /\ Return(t)
    /\ UNCHANGED <<called, orig, setVars, file, bounds, history>>

\* libc's own error indicator may be set: its answer is not the preloader's.
orig_ferror(t) ==
    /\ AtLibc(t, {"ferror"})
    /\ Finish(t, 1) \/ Return(t)
    /\ UNCHANGED <<called, orig, setVars, file, bounds, history>>

\* Anything else.
orig_other(t) ==
    /\ At(t, "orig")
    /\ Top(t).fn \notin Openers \cup Closers \cup {"clearerr", "ferror"}
    /\ Return(t)
    /\ UNCHANGED <<called, orig, setVars, file, bounds, history>>
------------------------------------------------------------------------------
(***************************************************************************)
(* The set of streams: set_ferror(), get_ferror(), clear_ferror().         *)
(***************************************************************************)
\* The first one runs _fiu_init_ferror_hash_table(), which locks the mutex
\* too; the others wait for it to finish.
pthread_once(t) ==
    /\ At(t, "once")
    /\ \/ /\ once = "done"
          /\ Goto(t, "lock")
          /\ UNCHANGED <<called, once, mutex>>
       \/ /\ once = NULL
          /\ mutex = NULL
          /\ once' = t
          /\ mutex' = t
          /\ Goto(t, "create")
          /\ rec_add(t, 1)
    /\ UNCHANGED <<orig, ferror_set, file, bounds, history>>

hash_create(t) ==
    /\ At(t, "create")
    /\ ferror_set' = {}
    /\ mutex' = NULL
    /\ once' = "done"
    /\ Goto(t, "lock")
    /\ rec_add(t, -1)
    /\ UNCHANGED <<orig, file, bounds, history>>

ferror_lock(t) ==
    /\ At(t, "lock")
    /\ mutex = NULL
    /\ mutex' = t
    /\ Goto(t, "hash")
    /\ UNCHANGED <<called, orig, once, ferror_set, file, bounds, history>>

\* The call of hash.c, and the unlocking.
set_ferror_bug(t) ==
    LET fr == Top(t)  w == Wrapped[fr.fn] IN
    /\ At(t, "hash")
    /\ fr.r = 1
    /\ ferror_set' = ferror_set \cup {IF w.sets = "arg" THEN fr.stream ELSE w.sets}
    /\ Goto(t, "exit")
    /\ UNCHANGED <<called, orig, once, mutex, file, bounds, history>>

set_ferror(t) ==
    LET fr == Top(t)  w == Wrapped[fr.fn] IN
    /\ At(t, "hash")
    /\ fr.r = 1
    /\ ferror_set' = ferror_set \cup {IF w.sets = "arg" THEN fr.stream ELSE w.sets}
    /\ mutex' = NULL
    /\ Goto(t, "exit")
    /\ UNCHANGED <<called, orig, once, file, bounds, history>>

get_ferror(t) ==
    /\ At(t, "hash")
    /\ Top(t).fn = "ferror"
    /\ Finish(t, IF Top(t).stream \in ferror_set THEN 1 ELSE 0)
    /\ mutex' = NULL
    /\ UNCHANGED <<called, orig, once, ferror_set, file, bounds, history>>

clear_ferror(t) ==
    /\ At(t, "hash")
    /\ Top(t).fn \in {"fclose", "clearerr"}
    /\ ferror_set' = ferror_set \ {Top(t).stream}
    /\ mutex' = NULL
    /\ Continue(t, "hash")
    /\ UNCHANGED <<orig, once, file, bounds, history>>
------------------------------------------------------------------------------
\* What a thread does inside a wrapper.
Step(t) ==
    \/ mkwrap_body_reduce(t) \/ mkwrap_body_fails(t) \/ mkwrap_body_passes(t)
    \/ mkwrap_init(t) \/ exit(t)
    \/ orig_open(t) \/ orig_close(t) \/ orig_clearerr(t)
    \/ orig_ferror(t) \/ orig_other(t)
    \/ pthread_once(t) \/ hash_create(t) \/ ferror_lock(t)
    \/ set_ferror(t) \/ get_ferror(t) \/ clear_ferror(t)

Next == \E t \in Threads : Call(t) \/ NestedCall(t) \/ Step(t)

Spec == Init /\ [][Next]_vars

\* The scheduler runs every thread that can go on; nothing makes a program call
\* a wrapper, nor a callback a second one.
FairSpec == Spec /\ \A t \in Threads : WF_vars(Step(t))
------------------------------------------------------------------------------
(***************************************************************************)
(* Properties.                                                             *)
(***************************************************************************)
Places == {"reduce", "fiu_fail", "init", "orig", "once", "create", "lock",
           "hash", "exit"}

\* A shortened read or write still asks for something: with 0 a read would
\* look like the end of the file.
TypeOK ==
    /\ called \in [Threads -> Nat]
    /\ orig \in [Threads -> SUBSET {Wrapped[f].orig : f \in DOMAIN Wrapped}]
    /\ \A t \in Threads : \A fr \in ToSet(stack[t]) :
          /\ fr.fn \in DOMAIN Wrapped
          /\ fr.pc \in Places
          /\ fr.stream \in Streams \cup {NULL}
          /\ fr.r \in {0, 1}
          /\ fr.count \in Nat
          /\ Wrapped[fr.fn].reduce /\ fr.counted /\ fr.pc # "reduce" => fr.count > 0
    /\ once \in Threads \cup {NULL, "done"}
    /\ mutex \in Threads \cup {NULL}
    /\ {ferror_set, injected, owed} \subseteq SUBSET Streams
    /\ file \in [Streams -> {"none", "closing"} \cup Openers]
    /\ calls \in [Threads -> Nat]
    /\ nested \in [Threads -> Nat]
    /\ overlapped \subseteq Threads

\* A call that libfiu, the linker, libc or the hash table makes of a wrapped
\* function never asks fiu_fail(): it can neither be made to fail nor enter
\* the library a second time, whichever thread resolves what when.
FailsOnlyAtTop ==
    \A t \in Threads : \A i \in 2..Len(stack[t]) :
        stack[t][i].pc \notin {"reduce", "fiu_fail"}

\* test-ferror.c "bugs we've had, such as forgetting to decrement the recursion
\* counter": whatever the way out of the wrappers, the next call of the
\* program can fail again.
CountedOut == \A t \in Threads : stack[t] = <<>> => called[t] = 0

\* dlsym() is never called for a function whose dlsym() is in progress in the
\* same thread: what it allocates is refused instead.
InitNeverRecurses ==
    \A t \in Threads : \A i, j \in DOMAIN stack[t] :
        /\ stack[t][i].pc = "init" /\ stack[t][j].pc = "init"
        /\ stack[t][i].sym = stack[t][j].sym
        => i = j

\* posix.custom.c:282 "return 1 if we previously returned an error for this
\* file": once a thread has been told of an injected failure, ferror() answers
\* 1 to every thread until one clears the error or closes the stream; another
\* thread that closes the stream before it, at the same address, is no excuse.
FerrorKeepsFailures ==
    \A t \in Threads : \A fr \in ToSet(stack[t]) :
        /\ fr.fn = "ferror" /\ fr.counted /\ fr.owed
        /\ fr.pc = "exit"
        /\ t \notin overlapped
        => fr.r = 1

\* posix.custom.c:360 "to prevent stale entries in ferror_hash_table": a stream
\* is in the set only if an operation on it was made to fail since it was
\* opened, not because of one that had the same address before.
NoStaleEntries == ferror_set \subseteq injected

\* Every wrapped call returns: nobody waits for ever for the set's mutex or for
\* its creation, a thread that is inside the set and allocates included.
EveryCallReturns == \A t \in Threads : stack[t] # <<>> ~> stack[t] = <<>>
==============================================================================
