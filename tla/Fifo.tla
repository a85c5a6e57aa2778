-------------------------------- MODULE Fifo --------------------------------
(***************************************************************************)
(* Named pipes as the remote control uses them: what the operating system  *)
(* does in open(), read(), write() and close() of a fifo, from the point   *)
(* of view of libfiu and its clients.  A process that opens an end waits   *)
(* until the other end has been opened, and then goes on even if that end  *)
(* was closed again.  A process that waits counts as one that has the end  *)
(* open.  What is in a fifo is discarded when nobody has it open.          *)
(***************************************************************************)
EXTENDS Sequences

CONSTANTS Fifos, Procs

VARIABLES
    rd,       \* the processes that have the read end of each fifo open
    wr,       \* and the write end
    buf,      \* what was written and not yet read, in units the readers take
    waiting   \* <<f, p>>: p is blocked in its open() of f

fifoVars == <<rd, wr, buf, waiting>>

FifoInit == /\ rd = [f \in Fifos |-> {}]
            /\ wr = [f \in Fifos |-> {}]
            /\ buf = [f \in Fifos |-> <<>>]
            /\ waiting = {}

FifoType == /\ rd \in [Fifos -> SUBSET Procs]
            /\ wr \in [Fifos -> SUBSET Procs]
            /\ DOMAIN buf = Fifos
            /\ waiting \subseteq Fifos \X Procs

\* waiting after p opens an end of f whose partners are the processes in P.
Rendezvous(f, p, P) ==
    (waiting \ ({f} \X P)) \cup (IF P = {} THEN {<<f, p>>} ELSE {})

OpenRead(f, p) ==
    /\ rd' = [rd EXCEPT ![f] = @ \cup {p}]
    /\ waiting' = Rendezvous(f, p, wr[f])
    /\ UNCHANGED <<wr, buf>>

OpenWrite(f, p) ==
    /\ wr' = [wr EXCEPT ![f] = @ \cup {p}]
    /\ waiting' = Rendezvous(f, p, rd[f])
    /\ UNCHANGED <<rd, buf>>

\* The open() of f by p has returned.
Opened(f, p) == <<f, p>> \notin waiting

\* p closes, or gives up opening, the fifos in F.
Close(F, p) ==
    /\ rd' = [f \in Fifos |-> IF f \in F THEN rd[f] \ {p} ELSE rd[f]]
    /\ wr' = [f \in Fifos |-> IF f \in F THEN wr[f] \ {p} ELSE wr[f]]
    /\ buf' = [f \in Fifos |->
                IF rd'[f] \cup wr'[f] = {} THEN <<>> ELSE buf[f]]
    /\ waiting' = waiting \ (F \X {p})

\* A write() needs a reader: without one it fails with EPIPE.
Broken(f) == rd[f] = {}

Write(f, s) == /\ ~Broken(f)
               /\ buf' = [buf EXCEPT ![f] = @ \o s]
               /\ UNCHANGED <<rd, wr, waiting>>

\* read() takes what is there, returns 0 at the end of file, else waits.
ReadFirst(f) == /\ buf[f] # <<>>
                /\ buf' = [buf EXCEPT ![f] = Tail(@)]
                /\ UNCHANGED <<rd, wr, waiting>>

ReadAll(f) == /\ buf[f] # <<>>
              /\ buf' = [buf EXCEPT ![f] = <<>>]
              /\ UNCHANGED <<rd, wr, waiting>>

AtEOF(f)   == buf[f] = <<>> /\ wr[f] = {}
Blocked(f) == buf[f] = <<>> /\ wr[f] # {}
=============================================================================
