-------------------------------- MODULE FiuRC --------------------------------
(***************************************************************************)
(* Remote control over named pipes: the thread of libfiu/fiu-rc.c that     *)
(* executes commands, the start-up of the process by preload/run/run.c,    *)
(* and the two clients: utils/fiu-ctrl, which sends a command, closes the  *)
(* pipe and then collects the reply, and PipeControl of                    *)
(* bindings/python/fiu_ctrl.in.py, which holds both pipes open meanwhile.  *)
(*                                                                         *)
(* Both pipes exist from the start.  A command is written by one write()   *)
(* and, being shorter than PIPE_BUF, is never interleaved with another;    *)
(* read_line() turns it into the chunks of Chunks: itself, or its parts if *)
(* it does not fit in MAX_LINE characters, or NULL for an empty line.      *)
(*                                                                         *)
(* An operator whose name ends in _bug is a faulty version of a definition *)
(* below it, there to see that the properties notice the fault.            *)
(***************************************************************************)
EXTENDS RCString, FiniteSets

CONSTANTS
    Clients,
    Kind,            \* "fiu_ctrl" or "PipeControl", for each client
    Names,           \* of points of failure
    Lines,           \* the lines the clients send
    Chunks,          \* what read_line() makes of each
    Presets,         \* the commands of FIU_ENABLE
    MAX_ERRORS,      \* 10 in the code
    MaxCmds,         \* bound: commands of each client
    MaxKills,        \* bound: clients that are killed
    MaxSignals       \* bound: signals whose handler interrupts the thread

RC == "rc_fifo_thread"

VARIABLES
    rd, wr, buf, waiting,  \* the fifos
    pc,        \* where the thread and each client are
    job,       \* the command the thread is working on
    result,    \* what fiu_rc_string() returned for it
    errcount,
    points,    \* the enabled points of failure
    preset,    \* the next command of FIU_ENABLE
    replies,   \* what each client has read
    asked,     \* the lines each client has sent or started to send
    outcome,   \* how each of these ended for the client
    log,       \* the commands executed: who sent it and the result
    sigpipe_ignored,  \* whether the process ignores SIGPIPE: it never changes
    kills, signals

Fifo == INSTANCE Fifo WITH Fifos <- {"in", "out"}, Procs <- Clients \cup {RC}

fifoVars   == <<rd, wr, buf, waiting>>
threadVars == <<job, result, errcount>>
clientVars == <<replies, asked, outcome>>
tableVars  == <<points, log, preset>>
faultVars  == <<sigpipe_ignored, kills, signals>>

vars == <<fifoVars, pc, threadVars, clientVars, tableVars, faultVars>>

ASSUME FiuRCAssumption ==
    /\ {RC, "FIU_ENABLE"} \cap Clients = {}
    /\ Kind \in [Clients -> {"fiu_ctrl", "PipeControl"}]
    /\ MaxCmds \in [Clients -> Nat]
    /\ {MAX_ERRORS, MaxKills, MaxSignals} \subseteq Nat
    /\ \A l \in Lines : \A i \in DOMAIN Chunks[l] :
            Chunks[l][i] # NULL /\ Parse(Chunks[l][i]) # NULL
            => Parse(Chunks[l][i]).name \in Names
    /\ \A l \in Lines : Chunks[l] \in Seq({Chunks[l][i] : i \in DOMAIN Chunks[l]})
    /\ Presets \in Seq({Presets[i] : i \in DOMAIN Presets})

\* fiu_run_init() starts the thread first and then applies FIU_ENABLE.
Init ==
    /\ Fifo!FifoInit
    /\ pc = [p \in Clients \cup {RC} |-> IF p = RC THEN "reopen" ELSE "idle"]
    /\ job = NULL
    /\ result = NULL
    /\ errcount = 0
    /\ points = [n \in Names |-> NULL]
    /\ preset = 1
    /\ replies = [c \in Clients |-> <<>>]
    /\ asked = [c \in Clients |-> <<>>]
    /\ outcome = [c \in Clients |-> <<>>]
    /\ log = <<>>
    /\ sigpipe_ignored \in BOOLEAN
    /\ kills = 0
    /\ signals = 0

Goto(p, where) == pc' = [pc EXCEPT ![p] = where]

Execute(cmd, by) ==
    /\ points' = PointsAfter(points, cmd)
    /\ log' = Append(log, [by |-> by, r |-> fiu_rc_string(points, cmd)])

ProcessAlive == pc[RC] # "dead"
------------------------------------------------------------------------------
(***************************************************************************)
(* The start-up of the process.                                            *)
(***************************************************************************)

\* One round of the loop over FIU_ENABLE, which the first error ends.
fiu_run_init ==
    /\ ProcessAlive
    /\ preset <= Len(Presets)
    /\ Execute(Presets[preset], <<"FIU_ENABLE", preset>>)
    /\ preset' = IF fiu_rc_string(points, Presets[preset]) = 0
                 THEN preset + 1 ELSE Len(Presets) + 1
    /\ UNCHANGED <<fifoVars, pc, threadVars, clientVars, faultVars>>
------------------------------------------------------------------------------
(***************************************************************************)
(* rc_fifo_thread().                                                       *)
(***************************************************************************)

reopen_bug ==
    /\ pc[RC] = "reopen"
    /\ Fifo!OpenRead("in", RC)
    /\ Goto(RC, "in_open")
    /\ UNCHANGED <<threadVars, clientVars, tableVars, faultVars>>

reopen ==
    /\ pc[RC] = "reopen"
    /\ \/ /\ errcount > MAX_ERRORS
          /\ Goto(RC, "ended")
          /\ UNCHANGED fifoVars
       \/ /\ errcount <= MAX_ERRORS
          /\ Fifo!OpenRead("in", RC)
          /\ Goto(RC, "in_open")
    /\ UNCHANGED <<threadVars, clientVars, tableVars, faultVars>>

open_out_bug ==
    /\ pc[RC] = "in_open"
    /\ Fifo!Opened("in", RC)
    /\ wr' = [wr EXCEPT !["out"] = @ \cup {RC}]
    /\ Goto(RC, "serving")
    /\ UNCHANGED <<rd, buf, waiting, threadVars, clientVars, tableVars, faultVars>>

open_out ==
    /\ pc[RC] = "in_open"
    /\ Fifo!Opened("in", RC)
    /\ Fifo!OpenWrite("out", RC)
    /\ Goto(RC, "serving")
    /\ UNCHANGED <<threadVars, clientVars, tableVars, faultVars>>

\* read_line() finds a line; an empty one looks like the end of file.
read_line ==
    /\ pc[RC] = "serving"
    /\ Fifo!Opened("out", RC)
    /\ Fifo!ReadFirst("in")
    /\ IF Head(buf["in"]).chunk = NULL
       THEN Goto(RC, "closing") /\ UNCHANGED job
       ELSE Goto(RC, "execute") /\ job' = Head(buf["in"])
    /\ UNCHANGED <<result, errcount, clientVars, tableVars, faultVars>>

\* It finds that no client has the pipe open.
read_eof ==
    /\ pc[RC] = "serving"
    /\ Fifo!Opened("out", RC)
    /\ Fifo!AtEOF("in")
    /\ Goto(RC, "closing")
    /\ UNCHANGED <<fifoVars, threadVars, clientVars, tableVars, faultVars>>

rc_do_command_bug ==
    /\ pc[RC] = "execute"
    /\ Execute(job.chunk, job.by)
    /\ result' = 0
    /\ Goto(RC, "reply")
    /\ UNCHANGED <<fifoVars, job, errcount, clientVars, preset, faultVars>>

rc_do_command ==
    /\ pc[RC] = "execute"
    /\ Execute(job.chunk, job.by)
    /\ result' = fiu_rc_string(points, job.chunk)
    /\ Goto(RC, "reply")
    /\ UNCHANGED <<fifoVars, job, errcount, clientVars, preset, faultVars>>

reply_bug ==
    /\ pc[RC] = "reply"
    /\ job' = NULL
    /\ result' = NULL
    /\ IF result = 0
       THEN Fifo!Write("out", <<result>>) /\ Goto(RC, "serving")
       ELSE Goto(RC, "serving") /\ UNCHANGED fifoVars
    /\ UNCHANGED <<errcount, clientVars, tableVars, faultVars>>

reply_retry_bug ==
    /\ pc[RC] = "reply"
    /\ \/ /\ Fifo!Write("out", <<result>>)
          /\ Goto(RC, "serving")
       \/ /\ Fifo!Broken("out")
          /\ Goto(RC, "execute")
          /\ UNCHANGED fifoVars
    /\ UNCHANGED <<threadVars, clientVars, tableVars, faultVars>>

\* The reply is written.  When nobody has the pipe open, SIGPIPE ends the
\* process; if it is ignored the thread sees EPIPE.
reply ==
    /\ pc[RC] = "reply"
    /\ job' = NULL
    /\ result' = NULL
    /\ \/ /\ Fifo!Write("out", <<result>>)
          /\ Goto(RC, "serving")
       \/ /\ Fifo!Broken("out")
          /\ sigpipe_ignored
          /\ Goto(RC, "closing")
          /\ UNCHANGED fifoVars
       \/ /\ Fifo!Broken("out")
          /\ ~sigpipe_ignored
          /\ Fifo!Close({"in", "out"}, RC)
          /\ Goto(RC, "dead")
    /\ UNCHANGED <<errcount, clientVars, tableVars, faultVars>>

FirstClosed_bug == "out"

\* The pipes are closed in this order, and then opened again.
FirstClosed  == "in"
SecondClosed == IF FirstClosed = "in" THEN "out" ELSE "in"

close_first ==
    /\ pc[RC] = "closing"
    /\ Fifo!Close({FirstClosed}, RC)
    /\ Goto(RC, "closing_2nd")
    /\ UNCHANGED <<threadVars, clientVars, tableVars, faultVars>>

close_second_bug ==
    /\ pc[RC] = "closing_2nd"
    /\ Goto(RC, "reopen")
    /\ UNCHANGED <<fifoVars, threadVars, clientVars, tableVars, faultVars>>

close_second ==
    /\ pc[RC] = "closing_2nd"
    /\ Fifo!Close({SecondClosed}, RC)
    /\ Goto(RC, "reopen")
    /\ UNCHANGED <<threadVars, clientVars, tableVars, faultVars>>

\* A signal handler runs in the thread.  An open() that waits fails, and the
\* thread returns; a read() that waits fails, which counts as an error.
interrupted ==
    /\ signals < MaxSignals
    /\ signals' = signals + 1
    /\ \/ /\ \/ pc[RC] = "in_open" /\ ~Fifo!Opened("in", RC)
             \/ pc[RC] = "serving" /\ ~Fifo!Opened("out", RC)
          /\ Fifo!Close({"in", "out"}, RC)
          /\ Goto(RC, "ended")
          /\ UNCHANGED errcount
       \/ /\ pc[RC] = "serving" /\ Fifo!Opened("out", RC)
          /\ Fifo!Blocked("in")
          /\ errcount' = errcount + 1
          /\ Goto(RC, "closing")
          /\ UNCHANGED fifoVars
    /\ UNCHANGED <<job, result, clientVars, tableVars, sigpipe_ignored, kills>>

Thread == \/ reopen \/ open_out \/ read_line \/ read_eof \/ rc_do_command
          \/ reply \/ close_first \/ close_second
------------------------------------------------------------------------------
(***************************************************************************)
(* The clients.                                                            *)
(***************************************************************************)

\* What the client writes for its current command.
Request(c) ==
    LET n == Len(asked[c])
        l == asked[c][n]
    IN  [i \in DOMAIN Chunks[l] |-> [by |-> <<c, n>>, chunk |-> Chunks[l][i]]]

\* The client's command is over.
Finish(c, how) ==
    /\ outcome' = [outcome EXCEPT ![c] = Append(@, how)]
    /\ replies' = [replies EXCEPT ![c] = <<>>]
    /\ Goto(c, "idle")
    /\ UNCHANGED asked

\* Both clients first open the pipe for writing; fiu-ctrl looks at the process
\* before (kill -0).
start(c, l) ==
    /\ pc[c] = "idle"
    /\ Len(asked[c]) < MaxCmds[c]
    /\ Kind[c] = "fiu_ctrl" => ProcessAlive
    /\ asked' = [asked EXCEPT ![c] = Append(@, l)]
    /\ Fifo!OpenWrite("in", c)
    /\ Goto(c, "in_open")
    /\ UNCHANGED <<threadVars, replies, outcome, tableVars, faultVars>>

\* fiu-ctrl: echo COMMAND > P.in
echo(c) ==
    /\ Kind[c] = "fiu_ctrl"
    /\ pc[c] = "in_open"
    /\ Fifo!Opened("in", c)
    /\ \/ /\ Fifo!Write("in", Request(c))
          /\ Goto(c, "written")
          /\ UNCHANGED clientVars
       \/ /\ Fifo!Broken("in")
          /\ Fifo!Close({"in"}, c)
          /\ Finish(c, "broken")
    /\ UNCHANGED <<threadVars, tableVars, faultVars>>

echo_close(c) ==
    /\ Kind[c] = "fiu_ctrl"
    /\ pc[c] = "written"
    /\ Fifo!Close({"in"}, c)
    /\ Goto(c, "cat")
    /\ UNCHANGED <<threadVars, clientVars, tableVars, faultVars>>

\* REPLY=$(cat P.out)
cat_open(c) ==
    /\ pc[c] = "cat"
    /\ Fifo!OpenRead("out", c)
    /\ Goto(c, "reading")
    /\ UNCHANGED <<threadVars, clientVars, tableVars, faultVars>>

cat_read(c) ==
    /\ Kind[c] = "fiu_ctrl"
    /\ pc[c] = "reading"
    /\ Fifo!Opened("out", c)
    /\ Fifo!ReadAll("out")
    /\ replies' = [replies EXCEPT ![c] = @ \o buf["out"]]
    /\ UNCHANGED <<pc, threadVars, asked, outcome, tableVars, faultVars>>

cat_eof(c) ==
    /\ Kind[c] = "fiu_ctrl"
    /\ pc[c] = "reading"
    /\ Fifo!Opened("out", c)
    /\ Fifo!AtEOF("out")
    /\ Fifo!Close({"out"}, c)
    /\ Finish(c, IF replies[c] = <<-1>> THEN "error" ELSE "ok")
    /\ UNCHANGED <<threadVars, tableVars, faultVars>>

\* PipeControl.run_raw_cmd().
open_pipes(c) ==
    /\ Kind[c] = "PipeControl"
    /\ pc[c] = "in_open"
    /\ Fifo!Opened("in", c)
    /\ Fifo!OpenRead("out", c)
    /\ Goto(c, "write")
    /\ UNCHANGED <<threadVars, clientVars, tableVars, faultVars>>

write(c) ==
    /\ pc[c] = "write"
    /\ Fifo!Opened("out", c)
    /\ \/ /\ Fifo!Write("in", Request(c))
          /\ Goto(c, "readline")
       \/ /\ Fifo!Broken("in")
          /\ Goto(c, "closing")
          /\ UNCHANGED fifoVars
    /\ UNCHANGED <<threadVars, clientVars, tableVars, faultVars>>

\* The file object reads what there is and uses the first line of it.
readline(c) ==
    /\ pc[c] = "readline"
    /\ \/ /\ Fifo!ReadAll("out")
          /\ replies' = [replies EXCEPT ![c] = buf["out"]]
       \/ /\ Fifo!AtEOF("out")
          /\ UNCHANGED <<fifoVars, replies>>
    /\ Goto(c, "closing")
    /\ UNCHANGED <<threadVars, asked, outcome, tableVars, faultVars>>

close_in(c) ==
    /\ pc[c] = "closing"
    /\ Kind[c] = "PipeControl"
    /\ Fifo!Close({"in"}, c)
    /\ Goto(c, "closing_out")
    /\ UNCHANGED <<threadVars, clientVars, tableVars, faultVars>>

close_out(c) ==
    /\ pc[c] = "closing_out"
    /\ Kind[c] = "PipeControl"
    /\ Fifo!Close({"out"}, c)
    /\ Finish(c, IF replies[c] = <<>> THEN "broken"
                 ELSE IF Head(replies[c]) = 0 THEN "ok" ELSE "error")
    /\ UNCHANGED <<threadVars, tableVars, faultVars>>

\* The client is killed in the middle of a command.
kill(c) ==
    /\ pc[c] # "idle"
    /\ kills < MaxKills
    /\ kills' = kills + 1
    /\ Fifo!Close({"in", "out"}, c)
    /\ Finish(c, "killed")
    /\ UNCHANGED <<threadVars, tableVars, sigpipe_ignored, signals>>

Client(c) == \/ echo(c) \/ echo_close(c) \/ cat_open(c) \/ cat_read(c)
             \/ cat_eof(c) \/ open_pipes(c) \/ write(c) \/ readline(c)
             \/ close_in(c) \/ close_out(c)

Next == \/ fiu_run_init
        \/ Thread
        \/ interrupted
        \/ \E c \in Clients : Client(c) \/ kill(c) \/ \E l \in Lines : start(c, l)

Spec == Init /\ [][Next]_vars

\* The scheduler runs the thread, the start-up and a client that has begun a
\* command whenever they can go on.
FairSpec == /\ Spec
            /\ WF_vars(Thread)
            /\ WF_vars(fiu_run_init)
            /\ \A c \in Clients : WF_vars(Client(c))
------------------------------------------------------------------------------
(***************************************************************************)
(* Properties.                                                             *)
(***************************************************************************)

\* The types of the variables of the thread and its clients.
TypeOK ==
    /\ Fifo!FifoType
    /\ errcount \in 0..(MAX_ERRORS + 1)
    /\ preset \in 1..(Len(Presets) + 1)
    /\ \A c \in Clients :
          /\ Len(asked[c]) =
                Len(outcome[c]) + (IF pc[c] = "idle" THEN 0 ELSE 1)
          /\ \A i \in DOMAIN replies[c] : replies[c][i] \in {0, -1}

\* A line that read_line() takes as one command.
OneCommand(l) == Len(Chunks[l]) = 1 /\ Chunks[l][1] # NULL

Executions(c, n) == {i \in DOMAIN log : log[i].by = <<c, n>>}

\* remote_control.rst:42 "The reply is always a number: 0 on success, < 0 on
\* errors": a client that reports success, or an error, of a command knows
\* that the process executed it once with that result.
ReportIsTrue ==
    \A c \in Clients : \A n \in DOMAIN outcome[c] :
        OneCommand(asked[c][n]) /\ outcome[c][n] \in {"ok", "error"} =>
            \E i \in Executions(c, n) :
                /\ Executions(c, n) = {i}
                /\ log[i].r = IF outcome[c][n] = "ok" THEN 0 ELSE -1

\* The thread is there: no signal has ended it, nor SIGPIPE the process.
Serving == pc[RC] \notin {"ended", "dead"}

\* A command sent while nobody interferes ends with an answer and not with an
\* exception: as test-fiu_ctrl.py:50 "# Enable-disable." has it, two commands
\* can follow each other at once.
EveryCommandAnswered ==
    Serving => \A c \in Clients : \A n \in DOMAIN outcome[c] :
                   outcome[c][n] # "broken"

\* When the only client is told that its latest command succeeded, the point
\* of failure is in the state that the command asked for, and remains so.
LatestCommandHolds ==
    \A c \in Clients :
        LET n == Len(outcome[c])
        IN  (/\ n > 0 /\ pc[c] = "idle"
             /\ OneCommand(asked[c][n]) /\ outcome[c][n] = "ok")
            => LET call == Parse(Chunks[asked[c][n]][1])
               IN  points[call.name] =
                     IF call.op = "disable" THEN NULL ELSE call

\* Whatever happens to the thread or to the clients, the commands of a client
\* are executed in the order in which it sent them, and none of them twice.
ExecutedInOrder ==
    \A c \in Clients :
        /\ \A n \in DOMAIN asked[c] :
              Cardinality(Executions(c, n)) <= Len(Chunks[asked[c][n]])
        /\ \A m, n \in DOMAIN asked[c] : m < n =>
              \A i \in Executions(c, m), j \in Executions(c, n) : i < j

\* A client that waits for its replies never makes the thread write into a
\* pipe that nobody reads, which can end the controlled process.
ProcessSurvives == ProcessAlive

\* Every command ends, as long as the thread is there: neither side waits for
\* ever for the other, also after a client was killed.
EveryCommandReturns ==
    \A c \in Clients : pc[c] # "idle" ~> (pc[c] = "idle" \/ ~Serving)
==============================================================================
