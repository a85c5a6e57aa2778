-------------------------- MODULE RCProcesses_proofs --------------------------
(***************************************************************************)
(* Proofs about RCProcesses, for any number of processes, forks, faults    *)
(* and commands of fiu-ctrl.                                               *)
(*                                                                         *)
(* The inductive invariant IInv says, for every process, which of its      *)
(* pipes can have a name at each point of its main thread.  It rests on    *)
(* whose pipes a process removes: a child has the functions its parent     *)
(* registered with atexit(), and would remove the pipes of its parent, if  *)
(* fifo_atfork_child() had not replaced the path before it does anything   *)
(* else (OwnPath).                                                         *)
(***************************************************************************)
EXTENDS RCProcesses, TLAPS

\* Where the two threads can be, and what else TypeOK leaves open.
Places ==
    /\ main \in [Pids -> {"none", "mkfifo_in", "mkfifo_out", "pthread_create",
                          "atexit", "running", "unlink_out", "exit"}]
    /\ thread \in [Pids -> {"none", "reopen", "in_open", "serving", "wlock",
                            "wunlock", "reply", "close_in", "close_out", "ended"}]
    /\ atfork \in [Pids -> BOOLEAN]

\* From mkfifo_in on, in a child too, the path is that of the process.
OwnPath(p) ==
    /\ main[p] \in {"mkfifo_out", "pthread_create", "atexit"} => path[p] = p
    /\ main[p] \notin {"none", "mkfifo_in"} /\ atexits[p] > 0 => path[p] = p
    /\ atexits[p] > 0 => atfork[p]
    /\ main[p] = "unlink_out" => atexits[p] > 0

\* The thread of the remote control comes after the pipes.
ThreadStarted(p) ==
    /\ main[p] \in {"none", "mkfifo_in", "mkfifo_out", "pthread_create"}
          => thread[p] = "none"
    /\ main[p] = "atexit" => thread[p] # "none"

\* What is created stays until the process removes it.
Created(p) ==
    /\ main[p] \in {"mkfifo_out", "pthread_create", "atexit"} => In(p) \in names
    /\ main[p] \in {"pthread_create", "atexit"} => Out(p) \in names
    /\ Serving(p) /\ main[p] = "running"
          => path[p] = p /\ In(p) \in names /\ Out(p) \in names

\* A pipe that no killed process has left has a process that will remove it.
HasRemover(p) ==
    /\ In(p) \in names /\ In(p) \notin left =>
          \/ main[p] \in {"mkfifo_out", "pthread_create", "atexit"}
          \/ main[p] = "running" /\ atexits[p] > 0 /\ thread[p] # "none"
    /\ Out(p) \in names /\ Out(p) \notin left =>
          \/ main[p] \in {"pthread_create", "atexit", "unlink_out"}
          \/ main[p] = "running" /\ atexits[p] > 0

\* What fits a process.
Proc(p) == OwnPath(p) /\ ThreadStarted(p) /\ Created(p) /\ HasRemover(p)

\* The inductive invariant.
IInv == TypeOK /\ Places /\ \A p \in Pids : Proc(p)

USE RCProcessesAssumption
USE DEF MainAt, ThreadAt, ClientAt, Serving, Exiting
------------------------------------------------------------------------------
\* The two pipes of a process are its own.
LEMMA PipeNames ==
  /\ \A p \in Pids : In(p) \in Pipes /\ Out(p) \in Pipes /\ In(p)[1] = p /\ Out(p)[1] = p
  /\ \A p, q \in Pids : In(p) # Out(q) /\ (In(p) = In(q) => p = q) /\ (Out(p) = Out(q) => p = q)
  /\ \A f \in Pipes : f[1] \in Pids /\ (f = In(f[1]) \/ f = Out(f[1]))
BY DEF Pipes, In, Out

\* What a process keeps while nobody touches it.
Untouched(q) ==
    /\ main'[q] = main[q] /\ path'[q] = path[q]
    /\ atfork'[q] = atfork[q] /\ atexits'[q] = atexits[q]
    /\ thread'[q] = thread[q]
    /\ In(q) \in names' <=> In(q) \in names
    /\ Out(q) \in names' <=> Out(q) \in names
    /\ In(q) \in left' <=> In(q) \in left
    /\ Out(q) \in left' <=> Out(q) \in left

\* Such a process still fits.
LEMMA Frame ==
  ASSUME NEW q \in Pids, Proc(q), Untouched(q)
  PROVE  Proc(q)'
BY DEF Proc, OwnPath, ThreadStarted, Created, HasRemover, Untouched

\* So the step of one process has to be looked at in that process only.
LEMMA OneProcess ==
  ASSUME IInv, NEW p \in Pids, Proc(p)',
         \A q \in Pids \ {p} : Untouched(q)
  PROVE  (\A q \in Pids : Proc(q))'
<1>1. ASSUME NEW q \in Pids PROVE Proc(q)'
  <2>1. CASE q = p
    BY <2>1
  <2>2. CASE q # p
    BY <2>2, Frame DEF IInv
  <2> QED BY <2>1, <2>2
<1> QED BY <1>1
------------------------------------------------------------------------------
(***************************************************************************)
(* One lemma for each action.                                              *)
(***************************************************************************)
------------------------------------------------------------------------------
(***************************************************************************)
(* The pipes that are open.                                                *)
(***************************************************************************)

\* Opening an end keeps the type of the pipes (npipe_in and npipe_out of
\* fiu-rc.c, echo and cat of fiu-ctrl).
LEMMA OpenType ==
  ASSUME Fifo!FifoType, NEW f \in Pipes, NEW q \in Pids \cup {Client},
         Fifo!OpenRead(f, q) \/ Fifo!OpenWrite(f, q)
  PROVE  Fifo!FifoType'
<1>1. /\ rd \in [Pipes -> SUBSET (Pids \cup {Client})]
      /\ wr \in [Pipes -> SUBSET (Pids \cup {Client})]
      /\ DOMAIN buf = Pipes
      /\ waiting \subseteq Pipes \X (Pids \cup {Client})
  BY DEF Fifo!FifoType
<1>2. \A P : Fifo!Rendezvous(f, q, P) \subseteq Pipes \X (Pids \cup {Client})
  BY <1>1 DEF Fifo!Rendezvous
<1>3. /\ rd' \in [Pipes -> SUBSET (Pids \cup {Client})]
      /\ wr' \in [Pipes -> SUBSET (Pids \cup {Client})]
  BY <1>1 DEF Fifo!OpenRead, Fifo!OpenWrite
<1>4. DOMAIN buf' = Pipes /\ waiting' \subseteq Pipes \X (Pids \cup {Client})
  BY <1>1, <1>2 DEF Fifo!OpenRead, Fifo!OpenWrite
<1> QED BY <1>3, <1>4 DEF Fifo!FifoType

\* Closing does.
LEMMA CloseType ==
  ASSUME Fifo!FifoType, NEW F, NEW q, Fifo!Close(F, q)
  PROVE  Fifo!FifoType'
BY DEF Fifo!FifoType, Fifo!Close

\* Reading and writing do.
LEMMA TransferType ==
  ASSUME Fifo!FifoType, NEW f, NEW s,
         Fifo!Write(f, s) \/ Fifo!ReadFirst(f) \/ Fifo!ReadAll(f)
  PROVE  Fifo!FifoType'
BY DEF Fifo!FifoType, Fifo!Write, Fifo!ReadFirst, Fifo!ReadAll

\* A step that leaves them alone does.
LEMMA StillType ==
  ASSUME Fifo!FifoType, UNCHANGED fifoVars
  PROVE  Fifo!FifoType'
BY DEF Fifo!FifoType, fifoVars
------------------------------------------------------------------------------
(***************************************************************************)
(* One lemma for each action.                                              *)
(***************************************************************************)

\* Creating the first pipe, or finding that it exists, fiu-rc.c:305.
LEMMA MkfifoInKeeps ==
  ASSUME IInv, NEW p \in Pids, mkfifo_in(p)
  PROVE  IInv'
<1>1. TypeOK /\ Places /\ Proc(p) /\ main[p] = "mkfifo_in"
  BY DEF IInv, mkfifo_in
<1>2. /\ path' = [path EXCEPT ![p] = p]
      /\ UNCHANGED <<rd, wr, buf, waiting, atfork, atexits, thread, lock, target>>
      /\ \/ /\ names' = names \cup {In(p)} /\ left' = left \ {In(p)}
            /\ main' = [main EXCEPT ![p] = "mkfifo_out"]
         \/ /\ In(p) \notin names /\ names' = names /\ left' = left
            /\ main' = [main EXCEPT ![p] = "running"]
      /\ spoilt' = spoilt
  BY DEF mkfifo_in, Create, fifoVars, threadVars, clientVars, fileVars
<1>3. TypeOK' /\ Places'
  <2>1. Fifo!FifoType'
    BY <1>1, <1>2, StillType DEF TypeOK, fifoVars
  <2> QED BY <1>1, <1>2, <2>1, PipeNames DEF TypeOK, Places, Proc, ThreadStarted
<1>4. Proc(p)'
  BY <1>1, <1>2, PipeNames DEF TypeOK, Places, Proc, OwnPath, ThreadStarted, Created, HasRemover
<1>5. \A q \in Pids \ {p} : Untouched(q)
  BY <1>1, <1>2, PipeNames DEF TypeOK, Places, Untouched
<1> QED BY <1>3, <1>4, <1>5, OneProcess DEF IInv

\* Creating the second pipe, or removing the first one, fiu-rc.c:310.
LEMMA MkfifoOutKeeps ==
  ASSUME IInv, NEW p \in Pids, mkfifo_out(p)
  PROVE  IInv'
<1>1. TypeOK /\ Places /\ Proc(p) /\ main[p] = "mkfifo_out"
  BY DEF IInv, mkfifo_out
<1>2. /\ UNCHANGED <<rd, wr, buf, waiting, path, atfork, atexits, thread, lock, target, spoilt>>
      /\ \/ /\ names' = names \cup {Out(p)} /\ left' = left \ {Out(p)}
            /\ main' = [main EXCEPT ![p] = "pthread_create"]
         \/ /\ Out(p) \notin names
            /\ names' = names \ {In(p)} /\ left' = left \ {In(p)}
            /\ main' = [main EXCEPT ![p] = "running"]
  BY DEF mkfifo_out, Create, Unlink, fifoVars, threadVars, clientVars, fileVars
<1>3. TypeOK' /\ Places'
  <2>1. Fifo!FifoType'
    BY <1>1, <1>2, StillType DEF TypeOK, fifoVars
  <2> QED BY <1>1, <1>2, <2>1, PipeNames DEF TypeOK, Places, Proc, ThreadStarted
<1>4. Proc(p)'
  BY <1>1, <1>2, PipeNames DEF TypeOK, Places, Proc, OwnPath, ThreadStarted, Created, HasRemover
<1>5. \A q \in Pids \ {p} : Untouched(q)
  BY <1>1, <1>2, PipeNames DEF TypeOK, Places, Untouched
<1> QED BY <1>3, <1>4, <1>5, OneProcess DEF IInv

\* Starting the thread, or removing both pipes, fiu-rc.c:316.
LEMMA PthreadCreateKeeps ==
  ASSUME IInv, NEW p \in Pids, pthread_create(p)
  PROVE  IInv'
<1>1. TypeOK /\ Places /\ Proc(p) /\ main[p] = "pthread_create"
  BY DEF IInv, pthread_create
<1>2. /\ UNCHANGED <<rd, wr, buf, waiting, path, atfork, atexits, lock, target, spoilt>>
      /\ \/ /\ names' = names /\ left' = left
            /\ main' = [main EXCEPT ![p] = "atexit"]
            /\ thread' = [thread EXCEPT ![p] = "reopen"]
         \/ /\ names' = names \ {In(p), Out(p)} /\ left' = left \ {In(p), Out(p)}
            /\ main' = [main EXCEPT ![p] = "running"]
            /\ thread' = thread
  BY DEF pthread_create, Unlink, fifoVars, threadVars, clientVars, fileVars
<1>3. TypeOK' /\ Places'
  <2>1. Fifo!FifoType'
    BY <1>1, <1>2, StillType DEF TypeOK, fifoVars
  <2>2. Places'
    BY <1>1, <1>2 DEF Places
  <2>3. \A q \in Pids : main'[q] = "none" => thread'[q] = "none" /\ ~atfork'[q]
    BY <1>1, <1>2 DEF TypeOK, Places
  <2>4. left' \subseteq names' /\ names' \subseteq Pipes
    BY <1>1, <1>2 DEF TypeOK
  <2> QED BY <1>1, <1>2, <2>1, <2>2, <2>3, <2>4 DEF TypeOK
<1>4. Proc(p)'
  BY <1>1, <1>2, PipeNames DEF TypeOK, Places, Proc, OwnPath, ThreadStarted, Created, HasRemover
<1>5. \A q \in Pids \ {p} : Untouched(q)
  BY <1>1, <1>2, PipeNames DEF TypeOK, Places, Untouched
<1> QED BY <1>3, <1>4, <1>5, OneProcess DEF IInv

\* Registering fifo_atexit() and fifo_atfork_child(), fiu-rc.c:323 and 343.
LEMMA AtexitKeeps ==
  ASSUME IInv, NEW p \in Pids, atexit(p)
  PROVE  IInv'
<1>1. TypeOK /\ Places /\ Proc(p) /\ main[p] = "atexit"
  BY DEF IInv, atexit
<1>2. /\ UNCHANGED <<rd, wr, buf, waiting, path, thread, lock, target, spoilt, names, left>>
      /\ main' = [main EXCEPT ![p] = "running"]
      /\ atexits' = [atexits EXCEPT ![p] = @ + 1]
      /\ atfork' = [atfork EXCEPT ![p] = TRUE]
  BY DEF atexit, fifoVars, threadVars, clientVars, fileVars
<1>3. TypeOK' /\ Places'
  <2>1. Fifo!FifoType'
    BY <1>1, <1>2, StillType DEF TypeOK, fifoVars
  <2> QED BY <1>1, <1>2, <2>1, PipeNames DEF TypeOK, Places, Proc, OwnPath, ThreadStarted
<1>4. Proc(p)'
  BY <1>1, <1>2, PipeNames DEF TypeOK, Places, Proc, OwnPath, ThreadStarted, Created, HasRemover
<1>5. \A q \in Pids \ {p} : Untouched(q)
  BY <1>1, <1>2, PipeNames DEF TypeOK, Places, Untouched
<1> QED BY <1>3, <1>4, <1>5, OneProcess DEF IInv

\* fork(): the child has the functions its parent registered, and begins with
\* fifo_atfork_child(), fiu-rc.c:329.
LEMMA ForkKeeps ==
  ASSUME IInv, NEW p \in Pids, NEW q \in Pids, fork(p, q)
  PROVE  IInv'
<1>1. TypeOK /\ Places /\ Proc(p) /\ Proc(q) /\ main[p] = "running" /\ main[q] = "none"
  BY DEF IInv, fork, Forked
<1>2. /\ UNCHANGED <<buf, waiting, names, left, thread, target>>
      /\ rd' = Inherited(rd, p, q) /\ wr' = Inherited(wr, p, q)
      /\ path' = [path EXCEPT ![q] = path[p]]
      /\ atfork' = [atfork EXCEPT ![q] = atfork[p]]
      /\ atexits' = [atexits EXCEPT ![q] = atexits[p]]
      /\ lock' = [lock EXCEPT ![q] = IF lock[p] = NULL THEN NULL ELSE "nobody"]
      /\ main' = [main EXCEPT ![q] = IF atfork[p] THEN "mkfifo_in" ELSE "running"]
  BY DEF fork, Forked, clientVars
<1>3. spoilt' \subseteq Pids
  BY <1>1 DEF fork, Forked, TypeOK
<1>4. TypeOK' /\ Places'
  <2>1. Fifo!FifoType'
    BY <1>1, <1>2 DEF TypeOK, Fifo!FifoType, Inherited
  <2>2. Places'
    BY <1>1, <1>2 DEF Places
  <2>3. /\ path' \in [Pids -> Pids \cup {NULL}]
        /\ atexits' \in [Pids -> Nat]
        /\ lock' \in [Pids -> {NULL, "thread", "nobody"}]
    BY <1>1, <1>2 DEF TypeOK
  <2>4. \A r \in Pids : atexits'[r] > 0 => path'[r] # NULL
    BY <1>1, <1>2 DEF TypeOK
  <2>5. \A r \in Pids : main'[r] = "none" => thread'[r] = "none" /\ ~atfork'[r]
    BY <1>1, <1>2 DEF TypeOK, Places
  <2> QED BY <1>1, <1>2, <1>3, <2>1, <2>2, <2>3, <2>4, <2>5 DEF TypeOK
<1>5. Proc(q)'
  BY <1>1, <1>2 DEF TypeOK, Places, Proc, OwnPath, ThreadStarted, Created, HasRemover
<1>6. \A r \in Pids \ {q} : Untouched(r)
  BY <1>1, <1>2 DEF TypeOK, Places, Untouched
<1> QED BY <1>4, <1>5, <1>6, OneProcess DEF IInv

\* A process dies without its pipes, or leaves them.
LEMMA DieKeeps ==
  ASSUME IInv, NEW p \in Pids, Die(p), UNCHANGED <<names, spoilt, target>>,
         \/ left' = left \cup ({In(p), Out(p)} \cap names)
         \/ left' = left /\ atexits[p] = 0 /\ main[p] \in {"running", "exit"}
  PROVE  IInv'
<1>1. TypeOK /\ Places /\ Proc(p)
  BY DEF IInv
<1>2. /\ main' = [main EXCEPT ![p] = "none"]
      /\ thread' = [thread EXCEPT ![p] = "none"]
      /\ path' = [path EXCEPT ![p] = NULL]
      /\ atfork' = [atfork EXCEPT ![p] = FALSE]
      /\ atexits' = [atexits EXCEPT ![p] = 0]
      /\ lock' = [lock EXCEPT ![p] = NULL]
      /\ UNCHANGED <<names, spoilt, target>>
  BY DEF Die
<1>3. TypeOK' /\ Places'
  <2>1. Fifo!FifoType'
    BY <1>1, CloseType DEF TypeOK, Die
  <2> QED BY <1>1, <1>2, <2>1, PipeNames DEF TypeOK, Places
<1>4. Proc(p)'
  BY <1>1, <1>2 DEF TypeOK, Places, Proc, OwnPath, ThreadStarted, Created, HasRemover
<1>5. \A q \in Pids \ {p} : Untouched(q)
  BY <1>1, <1>2, PipeNames DEF TypeOK, Places, Untouched
<1> QED BY <1>3, <1>4, <1>5, OneProcess DEF IInv

\* exit(): the first half of a fifo_atexit(), fiu-rc.c:282, or the end.
LEMMA ExitKeeps ==
  ASSUME IInv, NEW p \in Pids, exit(p)
  PROVE  IInv'
<1>1. TypeOK /\ Places /\ Proc(p) /\ main[p] \in {"running", "exit"}
  BY DEF IInv, exit
<1>2. CASE atexits[p] > 0
  <2>1. path[p] = p
    BY <1>1, <1>2 DEF Proc, OwnPath
  <2>2. /\ UNCHANGED <<rd, wr, buf, waiting, path, atfork, atexits, thread, lock, target, spoilt>>
        /\ names' = names \ {In(p)} /\ left' = left \ {In(p)}
        /\ main' = [main EXCEPT ![p] = "unlink_out"]
    BY <1>2, <2>1 DEF exit, Unlink, fifoVars, threadVars, clientVars, In
  <2>3. TypeOK' /\ Places'
    <3>1. Fifo!FifoType'
      BY <1>1, <2>2, StillType DEF TypeOK, fifoVars
    <3> QED BY <1>1, <2>2, <3>1, PipeNames DEF TypeOK, Places
  <2>4. Proc(p)'
    BY <1>1, <1>2, <2>2, PipeNames DEF TypeOK, Places, Proc, OwnPath, ThreadStarted, Created, HasRemover
  <2>5. \A q \in Pids \ {p} : Untouched(q)
    BY <1>1, <2>2, PipeNames DEF TypeOK, Places, Untouched
  <2> QED BY <2>3, <2>4, <2>5, OneProcess DEF IInv
<1>3. CASE ~(atexits[p] > 0)
  <2>1. Die(p) /\ atexits[p] = 0 /\ UNCHANGED <<names, left, spoilt, target>>
    BY <1>3 DEF exit, fileVars, clientVars
  <2> QED BY <1>1, <2>1, DieKeeps
<1> QED BY <1>2, <1>3

\* The second half, fiu-rc.c:283.
LEMMA UnlinkOutKeeps ==
  ASSUME IInv, NEW p \in Pids, unlink_out(p)
  PROVE  IInv'
<1>1. TypeOK /\ Places /\ Proc(p) /\ main[p] = "unlink_out"
  BY DEF IInv, unlink_out
<1>2. path[p] = p /\ atexits[p] > 0
  BY <1>1 DEF Proc, OwnPath
<1>3. /\ UNCHANGED <<rd, wr, buf, waiting, path, atfork, thread, lock, target, spoilt>>
      /\ names' = names \ {Out(p)} /\ left' = left \ {Out(p)}
      /\ main' = [main EXCEPT ![p] = "exit"]
      /\ atexits' = [atexits EXCEPT ![p] = @ - 1]
  BY <1>2 DEF unlink_out, Unlink, fifoVars, threadVars, clientVars, Out
<1>4. TypeOK' /\ Places'
  <2>1. Fifo!FifoType'
    BY <1>1, <1>3, StillType DEF TypeOK, fifoVars
  <2> QED BY <1>1, <1>2, <1>3, <2>1, PipeNames DEF TypeOK, Places
<1>5. Proc(p)'
  BY <1>1, <1>2, <1>3, PipeNames DEF TypeOK, Places, Proc, OwnPath, ThreadStarted, Created, HasRemover
<1>6. \A q \in Pids \ {p} : Untouched(q)
  BY <1>1, <1>3, PipeNames DEF TypeOK, Places, Untouched
<1> QED BY <1>4, <1>5, <1>6, OneProcess DEF IInv

\* Death by a signal.
LEMMA KillKeeps ==
  ASSUME IInv, NEW p \in Pids, kill(p)
  PROVE  IInv'
<1>1. /\ Die(p) /\ UNCHANGED <<names, spoilt, target>>
      /\ left' = left \cup ({In(p), Out(p)} \cap names)
  BY DEF kill, clientVars
<1> QED BY <1>1, DieKeeps
------------------------------------------------------------------------------
\* A step that only moves the thread of the remote control, once it is started.
LEMMA ThreadKeeps ==
  ASSUME IInv, NEW p \in Pids, thread[p] \notin {"none", "ended"},
         NEW where \in {"reopen", "in_open", "serving", "wlock", "wunlock",
                        "reply", "close_in", "close_out", "ended"},
         thread' = [thread EXCEPT ![p] = where],
         UNCHANGED <<names, left, spoilt, main, path, atfork, atexits, target>>,
         Fifo!FifoType', lock' \in [Pids -> {NULL, "thread", "nobody"}]
  PROVE  IInv'
<1>1. TypeOK /\ Places /\ Proc(p)
  BY DEF IInv
<1>2. Places'
  BY <1>1 DEF Places
<1>3. TypeOK'
  BY <1>1, <1>2 DEF TypeOK, Places
<1>4. Proc(p)'
  BY <1>1 DEF Places, Proc, OwnPath, ThreadStarted, Created, HasRemover
<1>5. \A q \in Pids \ {p} : Untouched(q)
  BY <1>1 DEF Places, Untouched
<1> QED BY <1>2, <1>3, <1>4, <1>5, OneProcess DEF IInv

\* rc_fifo_thread() and the commands it executes, fiu-rc.c:233.
LEMMA RemoteControlKeeps ==
  ASSUME IInv, NEW p \in Pids, Thread(p)
  PROVE  IInv'
<1> USE DEF fileVars, mainVars, clientVars
<1>1. TypeOK /\ Fifo!FifoType /\ lock \in [Pids -> {NULL, "thread", "nobody"}]
  BY DEF IInv, TypeOK
<1>2. OpenIn(p) \in names => OpenIn(p) \in Pipes
  BY <1>1 DEF TypeOK
<1>3. OpenOut(p) \in names => OpenOut(p) \in Pipes
  BY <1>1 DEF TypeOK
<1>4. CASE reopen(p)
  <2>1. Fifo!FifoType'
    BY <1>1, <1>2, <1>4, OpenType, StillType DEF reopen
  <2> QED BY <1>1, <1>4, <2>1, ThreadKeeps DEF reopen
<1>5. CASE open_out(p)
  <2>1. Fifo!FifoType'
    BY <1>1, <1>3, <1>5, OpenType, CloseType DEF open_out
  <2> QED BY <1>1, <1>5, <2>1, ThreadKeeps DEF open_out
<1>6. CASE read_line(p)
  <2>1. Fifo!FifoType'
    BY <1>1, <1>6, TransferType, StillType DEF read_line
  <2> QED BY <1>1, <1>6, <2>1, ThreadKeeps DEF read_line
<1>7. CASE ef_wlock(p)
  <2>1. Fifo!FifoType' /\ lock' \in [Pids -> {NULL, "thread", "nobody"}]
    BY <1>1, <1>7, StillType DEF ef_wlock
  <2> QED BY <1>7, <2>1, ThreadKeeps DEF ef_wlock
<1>8. CASE ef_wunlock(p)
  <2>1. Fifo!FifoType' /\ lock' \in [Pids -> {NULL, "thread", "nobody"}]
    BY <1>1, <1>8, StillType DEF ef_wunlock
  <2> QED BY <1>8, <2>1, ThreadKeeps DEF ef_wunlock
<1>9. CASE reply(p)
  <2>1. Fifo!FifoType'
    BY <1>1, <1>9, TransferType DEF reply
  <2> QED BY <1>1, <1>9, <2>1, ThreadKeeps DEF reply
<1>10. CASE close_in(p)
  <2>1. Fifo!FifoType'
    BY <1>1, <1>10, CloseType DEF close_in
  <2> QED BY <1>1, <1>10, <2>1, ThreadKeeps DEF close_in
<1>11. CASE close_out(p)
  <2>1. Fifo!FifoType'
    BY <1>1, <1>11, CloseType DEF close_out
  <2> QED BY <1>1, <1>11, <2>1, ThreadKeeps DEF close_out
<1> QED BY <1>4, <1>5, <1>6, <1>7, <1>8, <1>9, <1>10, <1>11 DEF Thread

\* A step of fiu-ctrl.
LEMMA ClientKeeps ==
  ASSUME IInv, Rest, Fifo!FifoType', target' \in Pids \cup {NULL}
  PROVE  IInv'
<1>1. TypeOK /\ Places /\ \A p \in Pids : Proc(p)
  BY DEF IInv
<1>2. /\ UNCHANGED <<names, left, spoilt, main, path, atfork, atexits, thread, lock>>
  BY DEF Rest, fileVars, mainVars, threadVars
<1>3. TypeOK' /\ Places'
  BY <1>1, <1>2 DEF TypeOK, Places
<1>4. \A p \in Pids : Untouched(p)
  BY <1>2 DEF Untouched
<1> QED BY <1>1, <1>3, <1>4, Frame DEF IInv

\* send_cmd_fifo() of fiu-ctrl, utils/fiu-ctrl:166.
LEMMA CtrlKeeps ==
  ASSUME IInv, NEW p \in Pids, Ctrl(p) \/ check_target(p)
  PROVE  IInv'
<1>1. TypeOK /\ Fifo!FifoType /\ target \in Pids \cup {NULL}
  BY DEF IInv, TypeOK
<1>2. In(p) \in Pipes /\ Out(p) \in Pipes
  BY PipeNames
<1>3. CASE check_target(p)
  <2>1. Fifo!FifoType' /\ Rest
    BY <1>1, <1>3, StillType DEF check_target
  <2> QED BY <1>3, <2>1, ClientKeeps DEF check_target
<1>4. CASE echo(p)
  <2>1. Fifo!FifoType' /\ Rest
    BY <1>1, <1>2, <1>4, OpenType, StillType DEF echo
  <2> QED BY <1>1, <1>4, <2>1, ClientKeeps DEF echo
<1>5. CASE echo_write(p)
  <2>1. Fifo!FifoType' /\ Rest
    BY <1>1, <1>5, TransferType, CloseType DEF echo_write
  <2> QED BY <1>1, <1>5, <2>1, ClientKeeps DEF echo_write
<1>6. CASE echo_close(p)
  <2>1. Fifo!FifoType' /\ Rest
    BY <1>1, <1>6, CloseType DEF echo_close
  <2> QED BY <1>1, <1>6, <2>1, ClientKeeps DEF echo_close
<1>7. CASE cat(p)
  <2>1. Fifo!FifoType' /\ Rest
    BY <1>1, <1>2, <1>7, OpenType, StillType DEF cat
  <2> QED BY <1>1, <1>7, <2>1, ClientKeeps DEF cat
<1>8. CASE cat_read(p)
  <2>1. Fifo!FifoType' /\ Rest
    BY <1>1, <1>8, TransferType, CloseType DEF cat_read
  <2> QED BY <1>1, <1>8, <2>1, ClientKeeps DEF cat_read
<1> QED BY <1>3, <1>4, <1>5, <1>6, <1>7, <1>8 DEF Ctrl
------------------------------------------------------------------------------
\* A process that has just begun satisfies the invariant.
LEMMA IInvInit == Init => IInv
<1> SUFFICES ASSUME Init PROVE IInv
  OBVIOUS
<1>1. Fifo!FifoType
  BY DEF Init, Fifo!FifoInit, Fifo!FifoType
<1>2. TypeOK /\ Places
  BY <1>1 DEF Init, TypeOK, Places
<1>3. \A p \in Pids : Proc(p)
  BY DEF Init, Proc, OwnPath, ThreadStarted, Created, HasRemover
<1> QED BY <1>2, <1>3 DEF IInv

\* Every step keeps it.
LEMMA IInvNext == IInv /\ [Next]_vars => IInv'
<1> SUFFICES ASSUME IInv, [Next]_vars PROVE IInv'
  OBVIOUS
<1>1. CASE UNCHANGED vars
  <2>1. Rest /\ UNCHANGED fifoVars /\ target' = target
    BY <1>1 DEF vars, Rest, clientVars
  <2>2. Fifo!FifoType' /\ target' \in Pids \cup {NULL}
    BY <2>1, StillType DEF IInv, TypeOK
  <2> QED BY <2>1, <2>2, ClientKeeps
<1>2. CASE Next
  BY <1>2, MkfifoInKeeps, MkfifoOutKeeps, PthreadCreateKeeps, AtexitKeeps,
     RemoteControlKeeps, CtrlKeeps, ExitKeeps, UnlinkOutKeeps, KillKeeps,
     ForkKeeps DEF Next, Starting
<1> QED BY <1>1, <1>2

\* The inductive invariant holds in every reachable state.
THEOREM Invariance == Spec => []IInv
BY IInvInit, IInvNext, PTL DEF Spec

\* The paths, the registered functions and the pipes of every process keep
\* their types, through forks, exits and commands (fiu-rc.c:229).
THEOREM TypeCorrect == Spec => []TypeOK
<1>1. IInv => TypeOK
  BY DEF IInv
<1> QED BY <1>1, Invariance, PTL

\* fiu-rc.c:226 "If the process forks, a new pipe will be created": a process
\* whose remote control is at work has pipes of its own, with their names,
\* whatever other processes fork, exit, fail or die.
THEOREM OwnPipesCorrect == Spec => []OwnPipes
<1>1. ASSUME IInv PROVE OwnPipes
  <2> SUFFICES ASSUME NEW p \in Pids, Serving(p), ~Exiting(p)
               PROVE  path[p] = p /\ {In(p), Out(p)} \subseteq names
    BY DEF OwnPipes
  <2>1. Proc(p) /\ Places
    BY <1>1 DEF IInv
  <2>2. main[p] \in {"atexit", "running"}
    BY <2>1 DEF Places, Proc, ThreadStarted
  <2> QED BY <2>1, <2>2 DEF Proc, OwnPath, Created
<1> QED BY <1>1, Invariance, PTL

\* fiu-rc.c:225 "After the process dies, the pipe will be removed": no process
\* that has not been killed leaves a pipe behind, a child with the functions of
\* its parent to run at its exit included.
THEOREM RemovedAtExitCorrect == Spec => []RemovedAtExit
<1>1. ASSUME IInv PROVE RemovedAtExit
  <2> SUFFICES ASSUME NEW f \in names \ left PROVE main[f[1]] # "none"
    BY DEF RemovedAtExit
  <2>1. f \in Pipes
    BY <1>1 DEF IInv, TypeOK
  <2>2. f[1] \in Pids /\ (f = In(f[1]) \/ f = Out(f[1]))
    BY <2>1, PipeNames
  <2>3. HasRemover(f[1])
    BY <1>1, <2>2 DEF IInv, Proc
  <2> QED BY <2>2, <2>3 DEF HasRemover
<1> QED BY <1>1, Invariance, PTL

\* _fiu_rc_fifo() (fiu-rc.c:286) leaves no pipe behind when one of its steps
\* fails: where there is a pipe, there was a thread to serve it.
THEOREM NoDeadEndsCorrect == Spec => []NoDeadEnds
<1>1. ASSUME IInv PROVE NoDeadEnds
  BY <1>1 DEF IInv, Proc, HasRemover, NoDeadEnds
<1> QED BY <1>1, Invariance, PTL
===============================================================================
