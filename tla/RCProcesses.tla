----------------------------- MODULE RCProcesses -----------------------------
(***************************************************************************)
(* The life of the pipes of the remote control: _fiu_rc_fifo() creates     *)
(* them in every process that starts under fiu-run and in every child that *)
(* it forks, the function given to atexit() removes them, and fiu-ctrl     *)
(* uses them meanwhile.                                                    *)
(*                                                                         *)
(* A process is its number: the kernel gives it to another one later.  It  *)
(* has a main thread, which starts it, forks and exits, and a thread of    *)
(* the remote control, whose work is that of FiuRC with commands that are  *)
(* all alike.  A child has a copy of everything but the second thread: of  *)
(* the static variables, the functions registered, the lock of the core    *)
(* and the open ends of pipes.                                             *)
(*                                                                         *)
(* An operator whose name ends in _bug is a faulty version of a definition *)
(* below it, there to see that the properties notice the fault.            *)
(***************************************************************************)
EXTENDS Sequences, Integers

CONSTANTS
    NULL,
    Pids, First,   \* the numbers, and that of the first process
    Client,        \* fiu-ctrl
    MaxForks, MaxFaults, MaxCmds   \* bounds

Pipes == Pids \X {"in", "out"}

VARIABLES
    rd, wr, buf, waiting,  \* the pipes that are open, see Fifo
    names,     \* the pipes that have a name in the file system
    left,      \* history: those a killed process has left there
    spoilt,    \* history: processes whose remote control a fork has spoilt
    main,      \* where the main thread is; "none": there is no such process
    path,      \* npipe_path_in, npipe_path_out: the number in them
    atfork,    \* npipe_basename, and fifo_atfork_child registered
    atexits,   \* how many times fifo_atexit is registered
    thread,    \* where the thread of the remote control is
    lock,      \* who has enabled_fails_lock for writing
    client, target,
    forks, faults, cmds

Fifo == INSTANCE Fifo WITH Fifos <- Pipes, Procs <- Pids \cup {Client}

fifoVars   == <<rd, wr, buf, waiting>>
fileVars   == <<names, left, spoilt>>
mainVars   == <<main, path, atfork, atexits>>
threadVars == <<thread, lock>>
clientVars == <<client, target, cmds>>
bounds     == <<forks, faults>>

vars == <<fifoVars, fileVars, mainVars, threadVars, clientVars, bounds>>

ASSUME RCProcessesAssumption ==
    /\ First \in Pids
    /\ Client \notin Pids
    /\ NULL \notin Pids
    /\ {MaxForks, MaxFaults, MaxCmds} \subseteq Nat

Init ==
    /\ Fifo!FifoInit
    /\ names = {}
    /\ left = {}
    /\ spoilt = {}
    /\ main = [p \in Pids |-> IF p = First THEN "mkfifo_in" ELSE "none"]
    /\ path = [p \in Pids |-> NULL]
    /\ atfork = [p \in Pids |-> FALSE]
    /\ atexits = [p \in Pids |-> 0]
    /\ thread = [p \in Pids |-> "none"]
    /\ lock = [p \in Pids |-> NULL]
    /\ client = "idle"
    /\ target = NULL
    /\ forks = 0
    /\ faults = 0
    /\ cmds = 0

In(p)  == <<p, "in">>
Out(p) == <<p, "out">>

MainAt(p, where) == main' = [main EXCEPT ![p] = where]

ThreadAt(p, where) == thread' = [thread EXCEPT ![p] = where]

Create(f) == names' = names \cup {f} /\ left' = left \ {f} /\ UNCHANGED spoilt

Unlink(F) == names' = names \ F /\ left' = left \ F /\ UNCHANGED spoilt

Fault == faults < MaxFaults /\ faults' = faults + 1
------------------------------------------------------------------------------
(***************************************************************************)
(* _fiu_rc_fifo(), by fiu_run_init() or fifo_atfork_child().  When it      *)
(* fails the process goes on without remote control.                       *)
(***************************************************************************)

mkfifo_in_bug(p) ==
    /\ main[p] = "mkfifo_in"
    /\ \/ /\ Create(In(p))
          /\ path' = [path EXCEPT ![p] = p]
          /\ MainAt(p, "mkfifo_out")
          /\ UNCHANGED faults
       \/ /\ In(p) \notin names
          /\ Fault
          /\ path' = [path EXCEPT ![p] = NULL]
          /\ MainAt(p, "running")
          /\ UNCHANGED fileVars
    /\ UNCHANGED <<fifoVars, atfork, atexits, threadVars, clientVars, forks>>

\* A pipe with that name may exist: it is used.
mkfifo_in(p) ==
    /\ main[p] = "mkfifo_in"
    /\ path' = [path EXCEPT ![p] = p]
    /\ \/ /\ Create(In(p))
          /\ MainAt(p, "mkfifo_out")
          /\ UNCHANGED faults
       \/ /\ In(p) \notin names
          /\ Fault
          /\ MainAt(p, "running")
          /\ UNCHANGED fileVars
    /\ UNCHANGED <<fifoVars, atfork, atexits, threadVars, clientVars, forks>>

mkfifo_out(p) ==
    /\ main[p] = "mkfifo_out"
    /\ \/ /\ Create(Out(p))
          /\ MainAt(p, "pthread_create")
          /\ UNCHANGED faults
       \/ /\ Out(p) \notin names
          /\ Fault
          /\ Unlink({In(p)})
          /\ MainAt(p, "running")
    /\ UNCHANGED <<fifoVars, path, atfork, atexits, threadVars, clientVars, forks>>

pthread_create_bug(p) ==
    /\ main[p] = "pthread_create"
    /\ \/ /\ ThreadAt(p, "reopen")
          /\ MainAt(p, "atexit")
          /\ UNCHANGED faults
       \/ /\ Fault
          /\ MainAt(p, "running")
          /\ UNCHANGED thread
    /\ UNCHANGED <<fifoVars, fileVars, path, atfork, atexits, lock,
                   clientVars, forks>>

pthread_create(p) ==
    /\ main[p] = "pthread_create"
    /\ \/ /\ ThreadAt(p, "reopen")
          /\ MainAt(p, "atexit")
          /\ UNCHANGED <<fileVars, faults>>
       \/ /\ Fault
          /\ Unlink({In(p), Out(p)})
          /\ MainAt(p, "running")
          /\ UNCHANGED thread
    /\ UNCHANGED <<fifoVars, path, atfork, atexits, lock, clientVars, forks>>

atexit_bug(p) ==
    /\ main[p] = "atexit"
    /\ atfork' = [atfork EXCEPT ![p] = TRUE]
    /\ MainAt(p, "running")
    /\ UNCHANGED <<fifoVars, fileVars, path, atexits, threadVars,
                   clientVars, bounds>>

\* And the rest of fiu_rc_fifo(), which the child has from its parent.
atexit(p) ==
    /\ main[p] = "atexit"
    /\ atexits' = [atexits EXCEPT ![p] = @ + 1]
    /\ atfork' = [atfork EXCEPT ![p] = TRUE]
    /\ MainAt(p, "running")
    /\ UNCHANGED <<fifoVars, fileVars, path, threadVars, clientVars, bounds>>
------------------------------------------------------------------------------
(***************************************************************************)
(* fork() and exit().                                                      *)
(***************************************************************************)

\* The ends that p has open are open in q too; one it still waits for is not.
Inherited(ends, p, q) ==
    [f \in Pipes |-> IF p \in ends[f] /\ <<f, p>> \notin waiting
                     THEN ends[f] \cup {q} ELSE ends[f]]

Forked(p, q, where) ==
    /\ main[p] = "running"
    /\ main[q] = "none"
    /\ client = "idle" \/ target # q
    /\ \A f \in {In(q), Out(q)} : rd[f] \cup wr[f] = {}
    /\ forks < MaxForks
    /\ forks' = forks + 1
    /\ rd' = Inherited(rd, p, q)
    /\ wr' = Inherited(wr, p, q)
    /\ path' = [path EXCEPT ![q] = path[p]]
    /\ atfork' = [atfork EXCEPT ![q] = atfork[p]]
    /\ atexits' = [atexits EXCEPT ![q] = atexits[p]]
    /\ lock' = [lock EXCEPT ![q] = IF lock[p] = NULL THEN NULL ELSE "nobody"]
    /\ spoilt' = (spoilt \ {q})
                   \cup (IF q \in rd'[In(p)] \cup wr'[Out(p)] THEN {p} ELSE {})
                   \cup (IF lock'[q] # NULL THEN {q} ELSE {})
    /\ MainAt(q, where)
    /\ UNCHANGED <<buf, waiting, names, left, thread, clientVars, faults>>

fork_bug(p, q) == Forked(p, q, "running")

\* The kernel may give the child the number of a process that is gone, unless
\* somebody still has that one's pipes open or fiu-ctrl is at work on it (a
\* bound of the model).
fork(p, q) == Forked(p, q, IF atfork[p] THEN "mkfifo_in" ELSE "running")

\* The end of a process.
Die(p) ==
    /\ Fifo!Close(Pipes, p)
    /\ MainAt(p, "none")
    /\ ThreadAt(p, "none")
    /\ path' = [path EXCEPT ![p] = NULL]
    /\ atfork' = [atfork EXCEPT ![p] = FALSE]
    /\ atexits' = [atexits EXCEPT ![p] = 0]
    /\ lock' = [lock EXCEPT ![p] = NULL]

\* Every fifo_atexit() that is registered, and then the end.
exit(p) ==
    /\ main[p] \in {"running", "exit"}
    /\ \/ /\ atexits[p] > 0
          /\ Unlink({<<path[p], "in">>})
          /\ MainAt(p, "unlink_out")
          /\ UNCHANGED <<fifoVars, path, atfork, atexits, threadVars>>
       \/ atexits[p] = 0 /\ Die(p) /\ UNCHANGED fileVars
    /\ UNCHANGED <<clientVars, bounds>>

unlink_out(p) ==
    /\ main[p] = "unlink_out"
    /\ Unlink({<<path[p], "out">>})
    /\ atexits' = [atexits EXCEPT ![p] = @ - 1]
    /\ MainAt(p, "exit")
    /\ UNCHANGED <<fifoVars, path, atfork, threadVars, clientVars, bounds>>

\* By a signal, or with _exit().
kill(p) ==
    /\ main[p] # "none"
    /\ Fault
    /\ Die(p)
    /\ left' = left \cup ({In(p), Out(p)} \cap names)
    /\ UNCHANGED <<names, spoilt, clientVars, forks>>
------------------------------------------------------------------------------
(***************************************************************************)
(* rc_fifo_thread().  Without the name its open() fails, and it returns.   *)
(***************************************************************************)
OpenIn(p)  == <<path[p], "in">>
OpenOut(p) == <<path[p], "out">>

reopen(p) ==
    /\ thread[p] = "reopen"
    /\ \/ /\ OpenIn(p) \in names
          /\ Fifo!OpenRead(OpenIn(p), p)
          /\ ThreadAt(p, "in_open")
       \/ /\ OpenIn(p) \notin names
          /\ ThreadAt(p, "ended")
          /\ UNCHANGED fifoVars
    /\ UNCHANGED <<fileVars, mainVars, lock, clientVars, bounds>>

open_out(p) ==
    /\ thread[p] = "in_open"
    /\ Fifo!Opened(OpenIn(p), p)
    /\ \/ /\ OpenOut(p) \in names
          /\ Fifo!OpenWrite(OpenOut(p), p)
          /\ ThreadAt(p, "serving")
       \/ /\ OpenOut(p) \notin names
          /\ Fifo!Close({OpenIn(p)}, p)
          /\ ThreadAt(p, "ended")
    /\ UNCHANGED <<fileVars, mainVars, lock, clientVars, bounds>>

\* A command, or the end of file.
read_line(p) ==
    /\ thread[p] = "serving"
    /\ Fifo!Opened(OpenOut(p), p)
    /\ \/ Fifo!ReadFirst(OpenIn(p)) /\ ThreadAt(p, "wlock")
       \/ Fifo!AtEOF(OpenIn(p)) /\ ThreadAt(p, "close_in") /\ UNCHANGED fifoVars
    /\ UNCHANGED <<fileVars, mainVars, lock, clientVars, bounds>>

\* The command takes the lock of the core.
ef_wlock(p) ==
    /\ thread[p] = "wlock"
    /\ lock[p] = NULL
    /\ lock' = [lock EXCEPT ![p] = "thread"]
    /\ ThreadAt(p, "wunlock")
    /\ UNCHANGED <<fifoVars, fileVars, mainVars, clientVars, bounds>>

ef_wunlock(p) ==
    /\ thread[p] = "wunlock"
    /\ lock' = [lock EXCEPT ![p] = NULL]
    /\ ThreadAt(p, "reply")
    /\ UNCHANGED <<fifoVars, fileVars, mainVars, clientVars, bounds>>

\* fiu-ctrl is never killed here: somebody reads.
reply(p) ==
    /\ thread[p] = "reply"
    /\ Fifo!Write(OpenOut(p), <<p>>)
    /\ ThreadAt(p, "serving")
    /\ UNCHANGED <<fileVars, mainVars, lock, clientVars, bounds>>

close_in(p) ==
    /\ thread[p] = "close_in"
    /\ Fifo!Close({OpenIn(p)}, p)
    /\ ThreadAt(p, "close_out")
    /\ UNCHANGED <<fileVars, mainVars, lock, clientVars, bounds>>

close_out_bug(p) ==
    /\ thread[p] = "close_out"
    /\ ThreadAt(p, "reopen")
    /\ UNCHANGED <<fifoVars, fileVars, mainVars, lock, clientVars, bounds>>

close_out(p) ==
    /\ thread[p] = "close_out"
    /\ Fifo!Close({OpenOut(p)}, p)
    /\ ThreadAt(p, "reopen")
    /\ UNCHANGED <<fileVars, mainVars, lock, clientVars, bounds>>
------------------------------------------------------------------------------
(***************************************************************************)
(* fiu-ctrl.                                                               *)
(***************************************************************************)
ClientAt(where) == client' = where /\ UNCHANGED <<target, cmds>>

Rest == UNCHANGED <<fileVars, mainVars, threadVars, bounds>>

\* The process exists, and its second pipe does.
check_target(p) ==
    /\ client = "idle"
    /\ cmds < MaxCmds
    /\ main[p] # "none"
    /\ Out(p) \in names
    /\ cmds' = cmds + 1
    /\ client' = "echo"
    /\ target' = p
    /\ UNCHANGED fifoVars
    /\ Rest

\* When the pipe is gone by now the shell makes an ordinary file; what comes of
\* that is left out, and fiu-ctrl ends here.
echo(p) ==
    /\ client = "echo"
    /\ target = p
    /\ \/ In(p) \in names /\ Fifo!OpenWrite(In(p), Client) /\ ClientAt("in_open")
       \/ In(p) \notin names /\ ClientAt("idle") /\ UNCHANGED fifoVars
    /\ Rest

echo_write(p) ==
    /\ client = "in_open"
    /\ target = p
    /\ Fifo!Opened(In(p), Client)
    /\ \/ Fifo!Write(In(p), <<Client>>) /\ ClientAt("written")
       \/ Fifo!Broken(In(p)) /\ Fifo!Close({In(p)}, Client) /\ ClientAt("idle")
    /\ Rest

echo_close(p) ==
    /\ client = "written"
    /\ target = p
    /\ Fifo!Close({In(p)}, Client)
    /\ ClientAt("cat")
    /\ Rest

\* REPLY=$(cat P.out), which fails when that pipe is gone.
cat(p) ==
    /\ client = "cat"
    /\ target = p
    /\ \/ Out(p) \in names /\ Fifo!OpenRead(Out(p), Client) /\ ClientAt("reading")
       \/ Out(p) \notin names /\ ClientAt("idle") /\ UNCHANGED fifoVars
    /\ Rest

cat_read(p) ==
    /\ client = "reading"
    /\ target = p
    /\ Fifo!Opened(Out(p), Client)
    /\ \/ Fifo!ReadAll(Out(p)) /\ ClientAt("reading")
       \/ Fifo!AtEOF(Out(p)) /\ Fifo!Close({Out(p)}, Client) /\ ClientAt("idle")
    /\ Rest

Starting(p) == mkfifo_in(p) \/ mkfifo_out(p) \/ pthread_create(p) \/ atexit(p)

Thread(p) == \/ reopen(p) \/ open_out(p) \/ read_line(p)
             \/ ef_wlock(p) \/ ef_wunlock(p) \/ reply(p)
             \/ close_in(p) \/ close_out(p)

Ctrl(p) == \/ echo(p) \/ echo_write(p) \/ echo_close(p)
           \/ cat(p) \/ cat_read(p)

Next == \E p \in Pids :
            \/ Starting(p) \/ Thread(p) \/ Ctrl(p) \/ check_target(p)
            \/ exit(p) \/ unlink_out(p) \/ kill(p)
            \/ \E q \in Pids : fork(p, q)

Spec == Init /\ [][Next]_vars

\* The scheduler runs the threads and fiu-ctrl whenever they can go on.
\* Nothing makes a process fork or exit, nor anybody start fiu-ctrl.
FairSpec == /\ Spec
            /\ \A p \in Pids : WF_vars(Starting(p)) /\ WF_vars(Thread(p))
            /\ WF_vars(\E p \in Pids : Ctrl(p))
------------------------------------------------------------------------------
(***************************************************************************)
(* Properties.                                                             *)
(***************************************************************************)
Serving(p) == thread[p] \notin {"none", "ended"}

Exiting(p) == main[p] \in {"exit", "unlink_out"}

TypeOK ==
    /\ Fifo!FifoType
    /\ left \subseteq names /\ names \subseteq Pipes /\ spoilt \subseteq Pids
    /\ path \in [Pids -> Pids \cup {NULL}]
    /\ atexits \in [Pids -> Nat]
    /\ \A p \in Pids : atexits[p] > 0 => path[p] # NULL
    /\ \A p \in Pids : main[p] = "none" => thread[p] = "none" /\ ~atfork[p]
    /\ lock \in [Pids -> {NULL, "thread", "nobody"}]
    /\ target \in Pids \cup {NULL}

\* fiu-rc.c:226 "If the process forks, a new pipe will be created": a process
\* with remote control has pipes of its own, which neither its parent nor its
\* children remove when they exit or fail, nor a process that had its number.
OwnPipes ==
    \A p \in Pids :
        Serving(p) /\ ~Exiting(p)
        => path[p] = p /\ {In(p), Out(p)} \subseteq names

\* fiu-rc.c:225 "After the process dies, the pipe will be removed", also when
\* it had none of its own before its parent forked; by a process that dies of a
\* signal they are left, to be removed by a later one with its number.
RemovedAtExit ==
    \A f \in names \ left : main[f[1]] # "none"

\* Whichever step of _fiu_rc_fifo() fails, in the parent or in the child, no
\* pipe is left for which nobody is there to answer.
NoDeadEnds ==
    \A p \in Pids :
        main[p] = "running" /\ In(p) \in names \ left => thread[p] # "none"

\* fiu-ctrl comes to an end, unless the process does, or it has come during a
\* start-up of remote control that fails (~Serving); and unless a fork in the
\* middle of a command has given a child an end of the pipes of its parent,
\* even if the child is gone, or the lock of a thread that it does not have.
EveryCommandReturns ==
    \A p \in Pids :
        client # "idle" /\ target = p
        ~> client = "idle" \/ ~Serving(p) \/ Exiting(p) \/ p \in spoilt
==============================================================================
