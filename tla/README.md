# A TLA+ development for libfiu

libfiu injects failures into programs: a program asks `fiu_fail("name")` at its
points of failure, a test enables and disables those points, from inside the
process or over a named pipe. This directory models the library in TLA+,
checks the models with TLC and proves theorems about them with TLAPS. The
modules are translated from the C code; each definition that models code is
listed with its lines in `PROJECT.json` ("map").

## 1. Inventory

| Part | Source | State | Operations |
|---|---|---|---|
| Hash table | `libfiu/hash.c` 20-330 | slots (never used, in use, removed), size, two counters | create, get, set, del, free; a set or a del may resize |
| Lookup cache | `libfiu/hash.c` 332-497 | a hash table used without probing, its size, a rwlock | create, get, set, invalidate, resize |
| Wildcard table | `libfiu/wtable.c` | hash table of final names, array of wildcards, cache | get, set, del |
| Core | `libfiu/fiu.c` | the table of enabled points under `enabled_fails_lock`; per point a mutex and `failed_once` (ONETIME); per thread `rec_count` and the last failinfo; the random number | `fiu_init`, `fiu_fail`, `fiu_failinfo`, `fiu_enable*`, `fiu_disable` |
| Backtrace | `libfiu/backtrace.c` | none | queries about the stack and the symbols |
| Remote control | `libfiu/fiu-rc.c` | fifo names, a thread, an error count, what is registered for exit and fork | commands from a fifo or a string; creation and removal of the fifos; fork |
| Clients | `utils/fiu-ctrl`, `bindings/python/fiu_ctrl.in.py` | none | send commands, read replies |
| POSIX preloader | `preload/posix/` | per thread a recursion count and the pointers to libc; the set of failed `FILE*` with its mutex | one wrapper per libc function, from `codegen.h`, the generator or by hand (`posix.custom.c`) |
| fiu-run | `preload/run/` | none | applies commands at start-up |
| Python bindings | `bindings/python/fiu_ll.c`, `fiu.py` | `_fi_table`, references to callbacks and failinfo objects | the API under the interpreter lock (GIL) |

How they interact. `fiu_fail()` may be called by any thread at any time. It
takes `enabled_fails_lock` for reading, looks the name up in the wildcard
table (exact entry, then the cache, then a walk over the wildcards), and
decides; a ONETIME point has a mutex that is held over the decision. An
external point calls back into the program with the read lock held. The
control functions take the lock for writing. With the preloader, the
library's own `malloc()` calls `fiu_fail()` again: `rec_count` stops that.

What is hard here: threads that race on one point while it is replaced or
disabled (and freed); a cache that readers write; linear probing with removed
slots and resizes; locks held over calls to user code; a process that forks
while a thread holds a lock or has pipes open; the reopening of the pipes
between clients; wrappers that are entered again from whatever they call;
addresses of streams that are used again; a lock of the interpreter around a
lock of the library, and the other way round in a callback.
`PROJECT.json` lists these under "hazards", each at its line.

What makes each part correct: the hash table is a map and always has room; the
wildcard table answers from its present contents; every call of the API acts
at one instant, a ONETIME point fails once, nothing freed is used, every call
returns; a command that is sent to the remote control is executed once and
answered, every process has pipes of its own that go when it exits; a wrapper
never makes a call of the library itself fail, `ferror()` agrees with what was
injected; what Python has given to the library stays alive while it is there.

## 2. Modules

| Module | Models | Variables ↔ code |
|---|---|---|
| `LinearProbing` | the slots of the hash table, the probing walk, `_hash_set()` | - (operators) |
| `HashTable` | `hash.c`, operations and resizing | `entries`, `table_size`, `nentries`, `nremoved` are the fields of `struct hash`; `old_*` are the locals of `resize_table()`; `pool` are the values not allocated |
| `HashTable_proofs` | theorems about `HashTable`, and that it implements `KVMap` | |
| `KVMap` | what the hash table promises: a map | |
| `WildcardMatch` | `strlast()`, `is_wildcard()`, `ws_matches_s()` on strings, and `Covers`, what they promise | - |
| `WildcardMatch_proofs` | a theorem about them | |
| `PointNames` | keys, wildcards and the entries a lookup may return | - |
| `WTable` | `wtable.c` and the cache, readers in steps, writers alone | `finals` (`finals_lost` once a resize of it has failed), `wildcards`, `ws_used_count`, `cache`, `cache_size` (`c->size`); `live` are the values not freed; `wpc`, `pos`, `old_*`, `adding` are the loops and locals of a resize |
| `WTable_proofs` | theorems about `WTable`, and that it implements `PointTable` | |
| `PointTable` | what the wildcard table promises | |
| `Fiu` | `fiu.c`: threads calling the API | `table` (whether there is one, and whether a resize has lost it), `enabled`, `heap` (contents of every `struct pf_info`), `mutex` (`pf->lock`), `readers`/`writer` (`enabled_fails_lock`), `rec_count`, `last_failinfo`, `pc` and locals |
| `FiuAPI` | the API as its callers see it: calls that take effect at one instant. It is what the code does; where `fiu-control.h` and `libfiu.3` say more (section 3) it follows the code | |
| `Fiu_proofs` | theorems about `Fiu`, and that it implements `FiuAPI` | |
| `Fifo` | named pipes: `open()` that waits for the other end, `read()`, `write()`, `close()` (external) | the processes that have each end open or wait, the contents |
| `RCString` | `fiu_rc_string()` | - |
| `FiuRC` | `rc_fifo_thread()`, `fiu_run_init()`, and the two clients, `fiu-ctrl` and `PipeControl` | `pc`, `job`, `result`, `errcount` of the thread; `preset` of the start-up; `replies` of the clients; `points` is the table of the core |
| `FiuRC_proofs` | theorems about `FiuRC` | |
| `RCProcesses` | `_fiu_rc_fifo()`, `fifo_atexit()`, `fifo_atfork_child()`, processes that fork, exit and are killed, `rc_fifo_thread()` with commands that are all alike, `fiu-ctrl` | `names` are the files; `path` is `npipe_path_in` and `_out`; `atexits` and `atfork` what is registered; `lock` is `enabled_fails_lock`; `main`, `thread`, `client` are places in the code; `left`, `spoilt` are history |
| `RCProcesses_proofs` | theorems about `RCProcesses` | |
| `PosixPreload` | the macros of `codegen.h` as the generator and `posix.custom.c` use them, and the set behind `ferror()` | `called` (`_fiu_called`), `orig` (`_fiu_orig_*`), `stack` (the wrappers each thread is in), `once`, `mutex`, `ferror_set`; `file` is what the program has open; `injected`, `owed`, `overlapped` are history |
| `PosixPreload_proofs` | theorems about `PosixPreload` | |
| `PyFiu` | `fiu.py` and `fiu_ll.c` over the API | `fi_table`, `gil`, `enabled`, `usable` and `readers` of the core, `last_failinfo`, `pc`, `call` and `r` of the threads; `disturbed` is history |
| `PyFiu_proofs` | theorems about `PyFiu` | |
| `MC*` | instances for TLC | |

They compose by abstraction. `HashTable` implements `KVMap` (property
`MapSpec`), so `WTable` uses a map for its final entries. `WTable` implements
`PointTable` (`TableSpec`), so `Fiu` looks points up with `Candidates`, one of
the entries `PointTable` allows. `Fiu` implements `FiuAPI` (`APISpec`).

`Fiu` takes from an abstract `Matches` which wildcard covers which name;
`WTable` has strings and compares them as the code does, and `PointTable`, for
which `Matches` is `Covers`, is what it must agree with.

`FiuRC` is about the other end of the API: each command is one call of
`FiuAPI`, so it keeps only the table and what the calls answer. `RCProcesses`
uses the same `Fifo` as `FiuRC` for the pipes of several processes, and keeps of
a command that it takes the lock of the core. `PyFiu` is over `FiuAPI` too: a
call of the library is a step, except that a callback runs between its two
ends with the lock held for reading. `PosixPreload` calls `fiu_fail()`, which
may answer anything and call any wrapper; its set is a set, which is what
`KVMap` is when the values are all the same.

Granularity. The hash table is used under a lock by all its callers, so its
calls are steps; only the reinsertion loop of a resize is split, one entry per
step, to say what it preserves. A lookup in `WTable` is one step per lock
region of the cache; a set or a delete is one step because its lock excludes
the readers, except that a resize of the array, and then of the cache, is
split in the same way. In `Fiu` a step lies between two accesses to shared state: taking
a lock, the lookup, the ONETIME lock, the decision or the callback, and on the
way out the reads of failinfo and failnum and the store of `failed_once`, each
by itself.

Abstractions. Names are model values, except in `WTable`, where they are
sequences of characters. `Hash` stands for `murmurhash2()`; the proofs and runs assume nothing about
it. failnum and failinfo of a point are given as a pair by one value of
`Infos`. A point decided by the random number or by the stack may fail or not.
An allocation can fail: in `HashTable` and `WTable` a failed resize loses the
array, or the final entries, as in the code (`h->entries` and `t->wildcards` are
overwritten before the test), after the entry has been set or removed, or
before. In `Fiu` a set or a delete may fail in the same way (`Lose`): it
answers -1, every point is gone and the new one leaks; `wtable_create()` may
leave no table at all, which `fiu_init()` does not notice; and `pf_create()` may
fail. Where the code then uses a null pointer the behaviour ends.

`fiu_enable_stack()`'s refusals return -1 without touching any state and are not
separate actions. A nested call of `fiu_fail()` changes nothing when
`rec_count` is above 0; `RecursionGuard` says that it is, wherever the library
holds a lock, runs a callback or allocates. It does not cover the checks that
`fiu_enable_stack*()` makes first (`fiu.c:458,463,486,489`): they call into the
backtrace code with no lock held and `rec_count` at 0.

In `FiuRC` every system call on a pipe is a step. A command is one `write()` of
less than `PIPE_BUF` bytes, so `read_line()`, which reads byte by byte, takes a
whole line at a time or, beyond `MAX_LINE`, a chunk of it. A pipe never fills
up. `log`, `asked` and `outcome` are history. The parser works on words and
options, not on characters; a command that lacks a name is left out (the
library would dereference NULL).

In `RCProcesses` the number of a process is used again, but not while somebody
has the pipes of the old one open or `fiu-ctrl` is at work on it. A command
that reaches a process through a pipe somebody else has created is like any
other. Left out: the ordinary file the shell makes when the pipe is gone
between the checks of `fiu-ctrl` and its `echo`; `exec`; a second
`fiu_rc_fifo()` in one process; a fork by another thread between `atexit()` and
`pthread_atfork()`.

In `PosixPreload` the wrapper that a module file describes is the operator
`generate_to` with what the file declares; there is one of each form. The
program uses a stream while it has it open and closes it once, when nobody is
using it; libc may give any free address to a new stream. What a thread knows
of a stream is history: `owed` has the streams for which a call that was made
to fail has returned, unless another thread was clearing the error at the same
time (`overlapped`). The constructors have run in the main thread.

In `PyFiu` a Python statement is a step, for the GIL can change hands between
two of them, and a call of `fiu_ll` keeps the GIL until it returns or a
callback runs Python code. Every enabling call gets an object of its own. A
thread that is not Python's controls and checks points without the GIL. Any
enabling call may be refused before it takes the lock (`ll_call`), lose the table
(`Update`), or raise in `fiu_ll` (`ll_raises`: an argument of the wrong type, a
callback that is not callable), and `del` may raise `KeyError`. `disturbed` has
the names of which two controlling calls have overlapped or one has raised; a
name leaves it when a call begins while no other is at work on it.

Operators ending in `_bug` are faulty versions of definitions. No
specification uses them; "mutants" in `PROJECT.json` pairs each with the
property that must reject it.

## 3. Runs

| Run | Instance | Checks | Result |
|---|---|---|---|
| `hash_table` | 4 keys (three share a home slot in a table of 4, two of them always), 5 values, MIN_SIZE 4 | `MapSpec`, `LookupFindsContents`, `UsableSlots`, `Ownership` | holds |
| `wildcard_table` | 2 readers, 2 names, 3 wildcards, MIN_SIZE 2 | `TableSpec`, `CacheCoherent`, `AlwaysSpace`, `Ownership` | holds |
| `core_race` | 3 threads, 2 calls each, a name and a wildcard over it, 3 points that always fail | `APISpec`, `OnetimeExclusive`, `NoUseAfterFree`, `RecursionGuard` | holds |
| `core_liveness` | 2 threads, 2 calls each, 1 name, random and external points, 2 values of failnum and failinfo that callbacks change | `FailinfoOfOnetime`, `EveryCallReturns` | holds |
| `rc_fiu_ctrl` | `fiu-ctrl`, 3 commands, 8 kinds of line, 1 signal | `ReportIsTrue`, `LatestCommandHolds`, `EveryCommandAnswered`, `ProcessSurvives`, `EveryCommandReturns` | holds |
| `rc_pipecontrol` | `PipeControl`, 2 commands, a preset, 1 kill, 2 signals | `ExecutedInOrder`, `EveryCommandReturns` | holds |
| `rc_consecutive` | `PipeControl`, 2 commands | `EveryCommandAnswered` | violated |
| `rc_processes` | 2 process numbers, 2 forks, 1 fault (a failed step or a kill), 2 commands | `OwnPipes`, `RemovedAtExit`, `NoDeadEnds`, `EveryCommandReturns` | holds |
| `posix_wrappers` | 2 threads, 3 calls each, one with 2 nested calls, 2 addresses | `FailsOnlyAtTop`, `CountedOut`, `InitNeverRecurses`, `FerrorKeepsFailures`, `NoStaleEntries`, `EveryCallReturns`, and with `TypeOK` that a reduced count is never 0 | holds |
| `posix_stale` | 1 thread: `popen`, `fprintf`, `pclose`, `fopen`, `ferror` | `NoStaleEntries` | violated |
| `python` | 2 threads of Python and 1 other, up to 4 calls each, 5 programs | `TableCovers`, `EveryCallReturns` | holds |
| `python_callback` | 2 threads of Python, an external point | `EveryCallReturns` | violated |

Bounds. With MIN_SIZE 4 and four keys the table passes through every kind of
resize: growth (3 of 4 slots in use), rebuilding at the same size (removed
slots), shrinking (8 to 4), and the walks wrap around. The fifth value lets a
key be overridden in a full table. In `wildcard_table` the array goes through
the sizes 2 to 5, up and down, and both names share a slot of the cache in
some of them. The keys are `*`, `ab*` and `abc*` and the names `ab` and `ac`: the
shortest wildcard, one with nothing left for its `*`, and one that is longer
than the name. In the core three threads are the least for two that race on a
point while a third replaces it; two calls each suffice to initialise, enable,
disable and check. The points of `core_race` always fail, so that an answer of 0
has to come from the table or from a spent point; those of `core_liveness` may
fail or not. Two values of `Infos` are the least that can be mixed.
`MaxCalls` bounds the calls of a thread.

In the remote control runs one client sends its commands one after the other:
two show what is left over from the first, the third of `fiu-ctrl` what is left
over from a round of reopening. The lines enable a point in two ways, disable
it, are refused by the parser or by the library, are empty, exactly as long as
`MAX_LINE` or longer. `MAX_ERRORS` is 0 or 1 in the place of 10, so that two
signals reach it. `sigpipe_ignored` takes both values.

In `rc_processes` two numbers and two forks let a child have a child and a number
come back; two commands leave something over from the first one, also in
another process. In `posix_wrappers` the first thread opens, reads and closes
the only address there is besides a standard stream, which the second may get
next; that one uses, clears and asks for the error of either, is entered again
twice, and has resolved no function of libc. The wrappers of the same form (all
those that fail with an errno, for example) differ in nothing the model has; the
ones in no run are `open`, `printf`, `dprintf`, `fscanf`, `scanf` and `ungetc`;
`popen` and `pclose` are in `posix_stale` only. No wrapper is asked for a count
of 0, by which `mkwrap_body_reduce` divides. In `python` one program controls a
point while another thread checks it and the third controls one as well
(`Plain`), the next has all three in the callback of one point (`Callback`), in
the third the thread that calls a callback replaces it, with refusals and
exceptions, while another disables the point (`Own`), and the last two have
refused calls on an enabled point (`Refused`) and two threads on one name
(`Shared`). In all of them any enabling call may be refused, raise or lose the
table. None controls a point while another thread of Python may be in its
callback: that is `python_callback`.

Fairness. `FairSpec` asks that every thread that can take a step inside the
library eventually takes one, which is what the system's scheduler does. No
fairness of the locks is assumed. glibc's reader/writer lock prefers readers
and can starve a writer as long as new readers keep coming; with finitely many
calls that ends, so `EveryCallReturns` is about blocking, not about starvation.
A callback is taken to return.

`FairSpec` of `FiuRC` has the same weak fairness for the thread, the start-up
and each client in the middle of a command; nothing makes a client start one,
a signal come or a client be killed. `EveryCommandReturns` is asked only while
the thread is there: after a signal has ended it (`fiu-rc.c:252,256`) a client
does wait for ever.

`FairSpec` of `RCProcesses` and of `PosixPreload` has weak fairness for each
thread, and for `fiu-ctrl` in the middle of a command; nothing makes a process
fork, exit or fail, nor a program or a callback call anything. That of `PyFiu`
is strong for each thread: the GIL is handed over between the statements of
threads that do not stop on their own, and the interpreter sees to it that
each one that waits gets it. `EveryCommandReturns` of `RCProcesses` is asked
while the process serves its pipes, so not of a command that began during a
start-up which then fails nor when the process exits, and not of a process in
`spoilt`: one that forked while its thread had pipes open, which the child
inherits, or a child whose parent's thread held the lock of the core at the
fork. `EveryCallReturns` of `Fiu` and `PyFiu` is asked while there is a table, and
in `PyFiu` as long as no thread is about to call an object that is gone
(`Dangling`): the process dies there.

Deadlock checking is off in all runs: a hash table may be freed or lost, and
threads stop after `MaxCalls` calls. `EveryCallReturns` says what deadlock
freedom would.

### What the violated runs show

* `rc_consecutive`. After a client has closed, the thread closes its two ends
  and opens them again. `PipeControl` opens both pipes before it writes: its
  next command can get hold of the old ends, and then fails to be written, or
  is written and never answered; it may also be executed late, its reply taken
  for the one to the command after it, or written to a closed pipe, which ends
  the process by SIGPIPE. `fiu-ctrl` is not affected (`rc_fiu_ctrl`): it waits
  for the end of file of the reply pipe, which the thread closes last. With
  the opposite order (`FirstClosed_bug`) it would be.
* `posix_stale`. `fclose()` takes the stream out of the set of failed ones
  before it closes it (`posix.custom.c:360`). `pclose()` is a generated wrapper
  and does not: the next stream at the address has failed from the start.
* `python_callback`. A callback runs Python code with the read lock held
  (`fiu_ll.c:107`), so that the GIL can pass to a thread that calls
  `fiu.enable()` or `fiu.disable()`, which waits for the write lock with the GIL
  held (`fiu_ll.c:62,156,185`). Neither goes on, nor does any other thread of
  Python.

### Divergences without a run

Seen while modelling, but not part of the runs. Where a property is named, TLC
finds it violated when the constant that is named, or the program of a
configuration, is changed accordingly; the others are read from the code.

* `fiu-control.h:49` lets a callback modify failnum, failinfo and flags. They
  are fields of the shared point, and `fiu_fail()` reads two of them after the
  callback returned (`fiu.c:367-368`) while another thread's callback may write.
  A point with `FIU_ONETIME` is safe, for its mutex is held until then
  (`FailinfoOfOnetime`). Any other external point is not: with two threads in its
  callback one failnum is returned with the failinfo of another, against
  `fiu.h:55` (`core_liveness` without the last condition of
  `FailinfoOfOnetime`: the second thread's callback writes between the two
  reads of the first).
* It locks and unlocks `pf->lock` according to the flags before and after the
  callback (`fiu.c:322,353,370`): a callback that clears `FIU_ONETIME` leaves the
  mutex locked (`EveryCallReturns` with `CallbackChanges = {"flags"}`), and one
  that changes both lets the pair be mixed (`FailinfoOfOnetime` with
  `{"info", "flags"}`).
* A ONETIME point that has failed is not removed: it answers 0 and hides a
  wildcard that covers its name, unlike a disabled point. `libfiu.3:148`,
  `fiu-control.h:18` and `fiu.py:32` say it is disabled. `FiuAPI` has it as the
  code does (`spent`), and so `APISpec` does not say otherwise.
* A resize that cannot allocate loses every point of failure in its array
  (`hash.c:228`, `wtable.c:271`), and the new point leaks (`fiu.c:399`); the next
  call that needs the array dies. `wtable_del()` then returns without
  invalidating the cache (`wtable.c:343`), where the point it has just freed may
  still be found. `FiuAPI` and `PointTable` have the loss; the freed point in the
  cache is not modelled, for `WTable` asks nothing of its contents once they are lost.
* `fiu_init()` does not look at what `wtable_create()` returns (`fiu.c:261`).
* The thread runs before `fiu_run_init()` has applied `FIU_ENABLE`, whose
  commands can undo one that was answered (`LatestCommandHolds` with
  `fiu-ctrl` and a preset).
* Two `fiu-ctrl` at once: one reads both replies, the other waits for ever.
* A fork while the thread of the remote control has pipes open gives the child
  their ends, for nothing closes them: `fiu-ctrl` on the parent waits for an end
  of file that does not come while the child lives, or its command stays in a
  pipe that only the child has open. A fork while it holds the lock of the core
  leaves the child's remote control waiting for ever (`RCProcesses`, without
  `spoilt` in `EveryCommandReturns`).
* `fiu.py:38` ("To be sure failinfo doesn't dissapear from under our feet") and
  `fiu_ll.c:154` ("assuming the caller will take care of making sure it doesn't
  dissapear") do not hold for the names in `disturbed` (`TableCovers` with
  `Names` for `Names \ disturbed`, in each of these programs):
  an enabling call on an enabled point that is refused deletes the entry, and one
  that raises in `fiu_ll` leaves it replaced, while libfiu still points to the
  old object (`Refused`, `Plain`); two threads that enable one name can leave the
  object of one in the table and that of the other in libfiu (`Shared`).
  A thread that checks the point then calls, or hands out, an object that is
  gone (`~Dangling` is violated in `Refused`).
* `disable()` and `enable*()` of `fiu.py` drop their reference before libfiu has
  dropped its own, so also without an overlap of such calls a callback may be
  freed as another thread is about to call it (`~Dangling`, with one thread that
  enables an external point and disables it, and another that checks it).
* The generator uses `ferror:` only together with `valid errnos:`, so that a
  failure of `ungetc()`, which declares the one without the other, is not seen
  by `ferror()` (`FerrorKeepsFailures`).
* `freopen()`, like `pclose()`, leaves the set alone.
* `fiu-control.h:41` lets a probability of -1 always fail. The comparison
  `probability > randd()` makes it never fail, and one of 1 not fail when the
  generator is at its maximum (`fiu.c:337`).

## 4. Theorems

Each holds for every value of the constants that satisfies the assumptions of
the module, and the hypotheses named here. Constants are assumed to have their
types, no more: nothing of the hash function, the order of threads or the
number of calls.

### Core (`Fiu_proofs`)

For every set of threads, names, points and callbacks and every `MaxCalls`:

* `TypeCorrect`, `NoUseAfterFreeCorrect`, `RecursionGuardCorrect`:
  `TypeOK`, `NoUseAfterFree` and `RecursionGuard` are invariants of `Spec`;
* `OnetimeCorrect`, `FailinfoCorrect`: if callbacks do not change the flags, so
  are `OnetimeExclusive` and `FailinfoOfOnetime`, whatever they do to failnum and
  failinfo, and whatever allocations fail;
* `APICorrect`: with `CallbackChanges = {}`, `Spec` implements `FiuAPI`
  (`APISpec`): every call takes effect at one instant, calls that are refused or
  lose the table included. (A callback's changes to a shared point are not
  instants of anybody's call.)

None of the invariants is inductive alone. `Inv` adds `Locks` (who holds
`enabled_fails_lock` at each place of the code), `Args` (the arguments of the
call in progress) and `Pending` (a point that has been created and not yet
inserted has one owner and is not in the table). A point is freed only by a
writer, a writer is alone by `Locks`, and so no reader holds the point; and a
point that is inserted is not the one being freed by `Pending`. `OnetimeExclusive` is
inductive relative to `Inv`: the thread that takes the mutex finds it free,
and so no other thread is past it. `FailinfoOfOnetime` needs `Saved`, what is in
the thread's failinfo while it is on its way out; that the point has not changed
between the two reads comes from `OnetimeExclusive`, for only a callback of the
thread with the mutex could do it.

The refinement goes step by step. A call of `fiu_fail()` takes effect when it
stores the failinfo or decides not to fail, an enabling or disabling one when
the table changes; the other steps are not seen. What `FiuAPI` demands at that
instant comes from `RInv`: the point is still one that a lookup of the name may
find, because nobody can write since the lookup (`Chosen`); it is not spent,
because its thread has the mutex; a new point is what was asked for
(`Contents`); and `fiu_init()` empties only a table that is empty (`Unready`). A
call that loses the table takes effect when it does.

### Hash table (`HashTable_proofs`)

For any keys, values, hash function and minimum size: `TypeCorrect`,
`UsableSlotsCorrect`, `OwnershipCorrect`, `LookupCorrect` and `MapCorrect`,
that is `TypeOK`, `UsableSlots`, `Ownership`, `LookupFindsContents`, and that
the table implements `KVMap` (`MapSpec`), resizes included.

An entry is `Placed` when the walk for its key ends at it. Insertions and
removals keep every entry placed: a slot changes only from never used to used,
between used and removed, or at the key's own entry, and none of these makes
the walk for another key end earlier or later. The inductive invariant `IInv`
adds that the counters count the slots; that there is always a slot never used
(in the middle of a resize: one for every entry still to be reinserted, too),
so that every walk ends; and that no key and no value is at two places of the
old and new slots.

### Wildcard table (`WTable_proofs`)

For any names and wildcards, any number of readers, any hash function and
minimum size: `WTypeCorrect`, `CacheIsCoherent`, `SpaceIsLeft`, `ValuesOwned`,
that is `TypeOK`, `CacheCoherent`, `AlwaysSpace`, `Ownership`, and
`TableCorrect`: the table implements `PointTable` (`TableSpec`).

The inductive invariant `WInv` has, besides the types and `CacheCoherent`:
`Arrays`, no key is at two places of the old and new array, and each value
has the key of its slot; `Locals`, the readers are idle during a resize;
`Room`, there is a free slot beyond those for all that is still to be
reinserted and added; `Owned`, what is allocated is what the arrays and the
writer hold; and `Lookups`: what a reader is about to store in the cache is
what a walk of the array gives *now*, because no writer has come in since.
That is why readers who overwrite each other's slots of the cache do no harm,
and why the invalidation at the end of a set or delete is needed.

`PointTable` has a lookup return the exact entry or, failing that, any wildcard that
covers the name. For the steps of the refinement the contents of the table
are read off both arrays (`Binds`): a step of a resize moves an entry from one
to the other and leaves `Binds` as it is; a step that loses the array, or the
final entries, is the abstract table's failure. That the walk and the cached answers are allowed
comes from `CacheCoherent` and `WildcardMatchesPrefix` (below).

### Remote control (`FiuRC_proofs`)

* `TypeCorrect`, `ExecutedInOrderCorrect`: any clients of both kinds, lines,
  presets, numbers of clients killed and signals. `OInv` follows every command
  from the pipe to the thread's `job` to the log, and says that those of one
  client are in the order in which they were written, each at one place.
* `ProcessSurvivesCorrect`, when all clients are `fiu-ctrl` and none is killed
  (`Patient`): somebody reads from the reply pipe whenever the thread may write
  to it (`Heard`). The hypothesis is needed: a client that goes away between
  its command and the reply is what kills the process.
* `EveryCommandAnsweredCorrect`, `ReportIsTrueCorrect`, for a single `fiu-ctrl`
  that is not killed (`Alone`), and `LatestCommandHoldsCorrect`, without a
  `FIU_ENABLE`, whose commands may come after the answer (section 3). Two clients at once take each
  other's replies (section 3). `InStep` has the thread and its client in
  lockstep: who has which end open (`Holding`), whose turn it is (`Turns`),
  what is in the pipes (`Contents`), what became of the current command
  (`Current`) and of those before (`Past`).

### Life of the pipes (`RCProcesses_proofs`)

`TypeCorrect`, `OwnPipesCorrect`, `RemovedAtExitCorrect` and
`NoDeadEndsCorrect`, for any number of processes that fork, exit, fail and are
killed. The invariant says of each process alone (`Proc`) at which place of
`_fiu_rc_fifo()` it has which of its two files, and whether a function that
removes them is registered.

### POSIX preloader (`PosixPreload_proofs`)

* `TypeCorrect`, `FailsOnlyAtTopCorrect`, `CountedOutCorrect`: any threads,
  programs and nesting. What a wrapper has added to `_fiu_called` can be read
  off its frame (`Weight`); the counter of a thread is the sum over its frames.
* `InitNeverRecursesCorrect`, if nothing inside libfiu, libc or the linker
  calls `clearerr()`: its wrapper looks its function up in a nested call too,
  where the others go straight to libc.
* `FerrorKeepsFailuresCorrect`, if every wrapper that is called marks the
  stream it declares to mark: `ungetc()` does not (section 3).
* `NoStaleEntriesCorrect`, if streams are closed by the program's own
  `fclose()` only: `pclose()` leaves its stream in the set, and so does an
  `fclose()` made inside another wrapper.

The last two rest on `SInv` and `YInv`: who else may use a stream while a
wrapper is closing or clearing it, and that what is in the set is about the
stream that is open now.

### Python bindings (`PyFiu_proofs`)

`TableCoversCorrect`: `TableCovers` is an invariant for any threads of both
kinds, names and programs, whichever calls are refused, raise or lose the table.
It has no hypotheses: the names of which it says nothing are the ones in
`disturbed` at that moment.

`PInv` follows a controlling call through its statements. No two calls are at
work on a name that is not disturbed (`Single`); the one that is has put its
object into the table before libfiu gets it, and once libfiu has accepted it, has
the latter point to that object or, after a `disable()`, to none (`Progress`);
a name nobody is at work on is covered (`Resting`). Threads without the GIL only
make libfiu forget objects (`Aside`).

### Comparison of wildcards (`WildcardMatch_proofs`)

`WildcardMatchesPrefix`: for strings of any length over any characters
`ws_matches_s()` accepts exactly the names of which the part of the wildcard
before its `*` is a prefix. It rests on `StrlastCounts`: the positions that the
loop of `strlast()` counts are an initial interval, so that there are at least
m of them just when the first m characters agree.

### Only model-checked

* Liveness (`EveryCallReturns`, `EveryCommandReturns`): the prover does not
  reason about fairness and `ENABLED`.

## 5. Plan

Done: hash table, wildcard table with its cache and comparison, core, remote
control with the life of its pipes, POSIX preloader, Python bindings; every
safety property of a passing run is proved, under the hypotheses of section 4
where there are any, and so are the refinements of `KVMap`, `PointTable` and
`FiuAPI`.

Left: `Prng`, the random number generator with its width, seeding, and
probabilities at their edges.

Not modelled and not planned: `backtrace.c` (reads the stack and the symbol
tables of the process); `fiu-run` and `fiu-ls` (start-up and a list of files);
the text processing of the wrapper generator; errno and the values that the
wrappers of libc pass on.
