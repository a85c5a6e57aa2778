----------------------------- MODULE FiuRC_proofs -----------------------------
(***************************************************************************)
(* Proofs about FiuRC.  The types and the order of execution hold for any  *)
(* clients, lines and presets and any number of clients killed and of      *)
(* signals; that the process survives, for any number of users of fiu-ctrl *)
(* who are not killed (Patient); the rest, for a single one (Alone).       *)
(***************************************************************************)
EXTENDS FiuRC, FiniteSetTheorems, SequenceTheorems, TLAPS

USE FiuRCAssumption
------------------------------------------------------------------------------
(***************************************************************************)
(* Types.                                                                  *)
(***************************************************************************)
Ends  == {"in", "out"}
Procs == Clients \cup {RC}

\* What the clients write, and what the thread answers.
AllChunks == UNION {{Chunks[l][i] : i \in DOMAIN Chunks[l]} : l \in Lines}
Item      == [by : Clients \X Nat, chunk : AllChunks]
Results   == {0, -1}

ThreadPlaces == {"reopen", "in_open", "serving", "execute", "reply", "closing",
                 "closing_2nd", "ended", "dead"}
ClientPlaces == {"idle", "in_open", "written", "cat", "reading", "write",
                 "readline", "closing", "closing_out"}

FifoOK ==
    /\ rd \in [Ends -> SUBSET Procs]
    /\ wr \in [Ends -> SUBSET Procs]
    /\ waiting \subseteq Ends \X Procs
    /\ buf \in [Ends -> Seq(Item) \cup Seq(Results)]
    /\ buf["in"] \in Seq(Item) /\ buf["out"] \in Seq(Results)

\* After an error too many the thread does not open the pipes again.
ThreadOK ==
    /\ pc[RC] \in ThreadPlaces
    /\ errcount \in 0..(MAX_ERRORS + 1)
    /\ pc[RC] \in {"in_open", "serving", "execute", "reply"} => errcount <= MAX_ERRORS
    /\ pc[RC] = "execute" => job \in Item
    /\ pc[RC] = "reply" => result \in Results

ClientsOK ==
    /\ pc \in [Procs -> ThreadPlaces \cup ClientPlaces]
    /\ replies \in [Clients -> Seq(Results)]
    /\ asked \in [Clients -> Seq(Lines)]
    /\ outcome \in [Clients -> Seq({"ok", "error", "broken", "killed"})]
    /\ \A c \in Clients :
          /\ pc[c] \in ClientPlaces
          /\ Len(asked[c]) = Len(outcome[c]) + (IF pc[c] = "idle" THEN 0 ELSE 1)

TableOK ==
    /\ preset \in 1..(Len(Presets) + 1)
    /\ log \in Seq([by : (Clients \cup {"FIU_ENABLE"}) \X Nat, r : Results])
    /\ kills \in Nat /\ signals \in Nat

TInv == FifoOK /\ ThreadOK /\ ClientsOK /\ TableOK
------------------------------------------------------------------------------
(***************************************************************************)
(* The order of the commands.                                              *)
(***************************************************************************)
Count(s, k) == Cardinality({i \in DOMAIN s : s[i].by = k})

\* The command that the thread has read and not yet executed.
Job == IF pc[RC] = "execute" THEN <<job>> ELSE <<>>

\* The client has begun a command and not yet written it.
Unsent(c) == pc[c] \in {"in_open", "write"}

\* Nobody's command is on its way that was not sent.
Sent(by) == \A c \in Clients : by[1] = c =>
                /\ by[2] \in DOMAIN asked[c]
                /\ Unsent(c) => by[2] < Len(asked[c])

AllSent ==
    /\ \A i \in DOMAIN log : Sent(log[i].by)
    /\ \A i \in DOMAIN Job : Sent(Job[i].by)
    /\ \A i \in DOMAIN buf["in"] : Sent(buf["in"][i].by)

\* What is executed, read and still in the pipe is no more than was sent.
NoneTwice ==
    \A c \in Clients : \A n \in DOMAIN asked[c] :
        Count(log, <<c, n>>) + Count(Job, <<c, n>>) + Count(buf["in"], <<c, n>>)
            <= Len(Chunks[asked[c][n]])

\* The commands of a client are in order wherever they are.
Before(a, b) == a[1] = b[1] /\ a[1] \in Clients => a[2] <= b[2]

Ordered ==
    /\ \A i, j \in DOMAIN log : i < j => Before(log[i].by, log[j].by)
    /\ \A i \in DOMAIN log, j \in DOMAIN Job : Before(log[i].by, Job[j].by)
    /\ \A i \in DOMAIN log, j \in DOMAIN buf["in"] : Before(log[i].by, buf["in"][j].by)
    /\ \A i \in DOMAIN Job, j \in DOMAIN buf["in"] : Before(Job[i].by, buf["in"][j].by)
    /\ \A i, j \in DOMAIN buf["in"] : i < j => Before(buf["in"][i].by, buf["in"][j].by)

OInv == AllSent /\ NoneTwice /\ Ordered
------------------------------------------------------------------------------
(***************************************************************************)
(* fiu-ctrl alone: the thread never writes to nobody.                      *)
(***************************************************************************)
Patient == (\A c \in Clients : Kind[c] = "fiu_ctrl") /\ MaxKills = 0

\* While the thread has the reply pipe open and open() has returned, somebody
\* reads from it.
Heard ==
    /\ RC \in wr["out"] <=>
          pc[RC] \in {"serving", "execute", "reply", "closing", "closing_2nd"}
    /\ RC \in wr["out"] /\ <<"out", RC>> \notin waiting => rd["out"] # {}
    /\ pc[RC] \in {"execute", "reply"} => <<"out", RC>> \notin waiting
    /\ RC \notin rd["out"]
    /\ pc[RC] # "dead"
    /\ kills = 0
    /\ \A c \in Clients : pc[c] \in {"idle", "in_open", "written", "cat", "reading"}
------------------------------------------------------------------------------
(***************************************************************************)
(* The pipes keep their types.                                             *)
(***************************************************************************)

\* open() of either end.
LEMMA OpenOK ==
  ASSUME FifoOK, NEW f \in Ends, NEW p \in Procs,
         Fifo!OpenRead(f, p) \/ Fifo!OpenWrite(f, p)
  PROVE  FifoOK'
BY DEF FifoOK, Fifo!OpenRead, Fifo!OpenWrite, Fifo!Rendezvous

\* close() of some ends: what nobody can read any more is discarded.
LEMMA CloseOK ==
  ASSUME FifoOK, NEW F, NEW p \in Procs, Fifo!Close(F, p)
  PROVE  FifoOK'
<1>1. rd' \in [Ends -> SUBSET Procs] /\ wr' \in [Ends -> SUBSET Procs]
  BY DEF FifoOK, Fifo!Close, Ends
<1>2. waiting' \subseteq Ends \X Procs
  BY DEF FifoOK, Fifo!Close
<1>3. \A f \in Ends : buf'[f] \in {<<>>, buf[f]}
  BY DEF Fifo!Close, Ends
<1>4. DOMAIN buf' = Ends /\ buf' = [f \in Ends |-> buf'[f]]
  BY DEF Fifo!Close, Ends
<1>5. <<>> \in Seq(Item) /\ <<>> \in Seq(Results)
  OBVIOUS
<1>6. \A f \in Ends : buf'[f] \in Seq(Item) \cup Seq(Results)
  BY <1>3, <1>5 DEF FifoOK
<1>7. buf' \in [Ends -> Seq(Item) \cup Seq(Results)]
  BY <1>4, <1>6
<1> QED BY <1>1, <1>2, <1>3, <1>5, <1>7 DEF FifoOK, Ends

\* write() of a command, and of a reply.
LEMMA WriteOK ==
  ASSUME FifoOK, NEW s,
         \/ s \in Seq(Item) /\ Fifo!Write("in", s)
         \/ s \in Seq(Results) /\ Fifo!Write("out", s)
  PROVE  FifoOK'
<1>1. \A a, b \in Seq(Item) : a \o b \in Seq(Item)
  OBVIOUS
<1>2. \A a, b \in Seq(Results) : a \o b \in Seq(Results)
  OBVIOUS
<1>3. \A f \in Ends : \A t : buf' = [buf EXCEPT ![f] = t] =>
         /\ buf'[f] = t /\ \A g \in Ends : g # f => buf'[g] = buf[g]
         /\ t \in Seq(Item) \cup Seq(Results) =>
               buf' \in [Ends -> Seq(Item) \cup Seq(Results)]
  BY DEF FifoOK
<1>4. CASE s \in Seq(Item) /\ Fifo!Write("in", s)
  <2>1. buf' = [buf EXCEPT !["in"] = buf["in"] \o s] /\ buf["in"] \o s \in Seq(Item)
    BY <1>1, <1>4 DEF FifoOK, Fifo!Write
  <2>2. /\ buf'["in"] = buf["in"] \o s /\ buf'["out"] = buf["out"]
        /\ buf' \in [Ends -> Seq(Item) \cup Seq(Results)]
    BY <1>3, <2>1 DEF Ends
  <2> QED BY <1>4, <2>1, <2>2 DEF FifoOK, Fifo!Write
<1>5. CASE s \in Seq(Results) /\ Fifo!Write("out", s)
  <2>1. buf' = [buf EXCEPT !["out"] = buf["out"] \o s] /\ buf["out"] \o s \in Seq(Results)
    BY <1>2, <1>5 DEF FifoOK, Fifo!Write
  <2>2. /\ buf'["out"] = buf["out"] \o s /\ buf'["in"] = buf["in"]
        /\ buf' \in [Ends -> Seq(Item) \cup Seq(Results)]
    BY <1>3, <2>1 DEF Ends
  <2> QED BY <1>5, <2>1, <2>2 DEF FifoOK, Fifo!Write
<1> QED BY <1>4, <1>5

\* read() of a line, and of all there is.
LEMMA ReadOK ==
  ASSUME FifoOK, Fifo!ReadFirst("in") \/ Fifo!ReadAll("out")
  PROVE  FifoOK'
<1>1. <<>> \in Seq(Results)
  OBVIOUS
<1>2. buf["in"] # <<>> => Tail(buf["in"]) \in Seq(Item)
  BY DEF FifoOK
<1> QED BY <1>1, <1>2 DEF FifoOK, Fifo!ReadFirst, Fifo!ReadAll, Ends

\* Nothing happens to the pipes.
LEMMA FifoSame ==
  ASSUME FifoOK, rd' = rd, wr' = wr, buf' = buf, waiting' = waiting
  PROVE  FifoOK'
BY DEF FifoOK
------------------------------------------------------------------------------
(***************************************************************************)
(* The thread, the clients and the table keep theirs.                      *)
(***************************************************************************)

\* What fiu_rc_string() returns.
LEMMA AnswerType ==
  ASSUME NEW p, NEW cmd
  PROVE  fiu_rc_string(p, cmd) \in Results
BY DEF fiu_rc_string, Results

\* Clients are not the thread.
LEMMA NotThread == \A c \in Clients : c # RC /\ c \in Procs /\ RC \in Procs
BY DEF Procs

\* A step of the thread leaves the clients alone.
LEMMA ClientsSame ==
  ASSUME ClientsOK, NEW where \in ThreadPlaces, Goto(RC, where) \/ pc' = pc,
         UNCHANGED clientVars
  PROVE  ClientsOK' /\ (Goto(RC, where) => pc'[RC] = where)
                    /\ \A c \in Clients : pc'[c] = pc[c]
BY NotThread DEF ClientsOK, clientVars, Goto, Procs

\* A step of a client leaves the thread alone.
LEMMA ThreadSame ==
  ASSUME ThreadOK, ClientsOK, NEW c \in Clients, NEW where, Goto(c, where) \/ pc' = pc,
         UNCHANGED threadVars
  PROVE  ThreadOK' /\ pc'[RC] = pc[RC]
BY NotThread DEF ThreadOK, ClientsOK, threadVars, Goto

\* A step of a client in the middle of its command.
LEMMA ClientGoes ==
  ASSUME ClientsOK, NEW c \in Clients, pc[c] # "idle",
         NEW where \in ClientPlaces \ {"idle"}, Goto(c, where), UNCHANGED <<asked, outcome>>,
         replies' \in [Clients -> Seq(Results)]
  PROVE  ClientsOK'
BY NotThread DEF ClientsOK, Goto, Procs

\* The end of a command.
LEMMA ClientFinishes ==
  ASSUME ClientsOK, NEW c \in Clients, pc[c] # "idle",
         NEW how \in {"ok", "error", "broken", "killed"}, Finish(c, how)
  PROVE  ClientsOK' /\ Goto(c, "idle")
<1>1. /\ outcome' = [outcome EXCEPT ![c] = Append(@, how)] /\ asked' = asked
      /\ replies' = [replies EXCEPT ![c] = <<>>]
      /\ Goto(c, "idle") /\ pc' = [pc EXCEPT ![c] = "idle"]
  BY DEF Finish, Goto
<1>2. /\ outcome[c] \in Seq({"ok", "error", "broken", "killed"})
      /\ outcome' \in [Clients -> Seq({"ok", "error", "broken", "killed"})]
      /\ outcome'[c] = Append(outcome[c], how)
      /\ \A d \in Clients : d # c => outcome'[d] = outcome[d]
  BY <1>1 DEF ClientsOK
<1>3. replies' \in [Clients -> Seq(Results)]
  BY <1>1 DEF ClientsOK
<1>4. /\ pc' \in [Procs -> ThreadPlaces \cup ClientPlaces]
      /\ pc'[c] = "idle" /\ \A d \in Clients : d # c => pc'[d] = pc[d]
  BY <1>1, NotThread DEF ClientsOK, ClientPlaces
<1>5. Len(outcome'[c]) = Len(outcome[c]) + 1
  BY <1>2
<1>6. ASSUME NEW d \in Clients
      PROVE  /\ pc'[d] \in ClientPlaces
             /\ Len(asked[d]) = Len(outcome'[d]) + (IF pc'[d] = "idle" THEN 0 ELSE 1)
  <2>1. CASE d = c
    BY <1>4, <1>5, <2>1, Len(outcome[c]) \in Nat, Len(asked[c]) \in Nat
       DEF ClientsOK, ClientPlaces
  <2>2. CASE d # c
    BY <1>2, <1>4, <2>2 DEF ClientsOK
  <2> QED BY <2>1, <2>2
<1> QED BY <1>1, <1>2, <1>3, <1>4, <1>6 DEF ClientsOK

\* What the table and the faults are after a step that leaves them alone.
LEMMA TableSame ==
  ASSUME TableOK, UNCHANGED tableVars, UNCHANGED <<kills, signals>>
  PROVE  TableOK'
BY DEF TableOK, tableVars

\* The request that a client writes.
LEMMA RequestType ==
  ASSUME ClientsOK, NEW c \in Clients, pc[c] # "idle"
  PROVE  /\ Len(asked[c]) \in DOMAIN asked[c] /\ asked[c][Len(asked[c])] \in Lines
         /\ Request(c) \in Seq(Item)
         /\ Len(Request(c)) = Len(Chunks[asked[c][Len(asked[c])]])
         /\ \A i \in DOMAIN Request(c) :
               /\ Request(c)[i].by = <<c, Len(asked[c])>>
               /\ Request(c)[i].chunk = Chunks[asked[c][Len(asked[c])]][i]
<1> DEFINE n == Len(asked[c])
           l == asked[c][n]
<1>1. asked[c] \in Seq(Lines) /\ outcome[c] \in Seq({"ok", "error", "broken", "killed"})
      /\ n = Len(outcome[c]) + 1
  BY DEF ClientsOK
<1>2. n \in DOMAIN asked[c] /\ l \in Lines
  BY <1>1
<1>3. Chunks[l] \in Seq({Chunks[l][i] : i \in DOMAIN Chunks[l]})
  BY <1>2
<1>4. DOMAIN Chunks[l] = 1..Len(Chunks[l]) /\ Len(Chunks[l]) \in Nat
  BY <1>3
<1>5. n \in Nat
  BY <1>1
<1> HIDE DEF n, l
<1>6. Request(c) = [i \in 1..Len(Chunks[l]) |-> [by |-> <<c, n>>, chunk |-> Chunks[l][i]]]
  BY <1>4 DEF Request, n, l
<1>7. \A i \in 1..Len(Chunks[l]) : [by |-> <<c, n>>, chunk |-> Chunks[l][i]] \in Item
  BY <1>2, <1>4, <1>5 DEF Item, AllChunks
<1>8. Request(c) \in Seq(Item) /\ Len(Request(c)) = Len(Chunks[l])
      /\ DOMAIN Request(c) = 1..Len(Chunks[l])
  BY <1>4, <1>6, <1>7
<1>9. \A i \in DOMAIN Request(c) :
         Request(c)[i].by = <<c, n>> /\ Request(c)[i].chunk = Chunks[l][i]
  BY <1>6, <1>8
<1> QED BY <1>2, <1>8, <1>9 DEF n, l

\* The start-up of the process.
LEMMA TInvStartUp == TInv /\ fiu_run_init => TInv'
<1> SUFFICES ASSUME TInv, fiu_run_init PROVE TInv'
  OBVIOUS
<1>1. /\ UNCHANGED <<rd, wr, buf, waiting, pc, job, result, errcount, replies, asked,
                     outcome, kills, signals>>
      /\ preset <= Len(Presets)
      /\ log' = Append(log, [by |-> <<"FIU_ENABLE", preset>>,
                             r |-> fiu_rc_string(points, Presets[preset])])
      /\ preset' \in {preset + 1, Len(Presets) + 1}
  BY DEF fiu_run_init, Execute, fifoVars, threadVars, clientVars, faultVars
<1>2. FifoOK'
  BY <1>1, FifoSame DEF TInv
<1>3. ThreadOK' /\ ClientsOK'
  BY <1>1 DEF TInv, ThreadOK, ClientsOK
<1>4. TableOK'
  <2>1. fiu_rc_string(points, Presets[preset]) \in Results
    BY AnswerType
  <2>2. Len(Presets) \in Nat /\ preset \in 1..(Len(Presets) + 1)
    BY DEF TInv, TableOK
  <2>3. preset' \in 1..(Len(Presets) + 1)
    BY <1>1, <2>2
  <2> QED BY <1>1, <2>1, <2>2, <2>3 DEF TInv, TableOK
<1> QED BY <1>2, <1>3, <1>4 DEF TInv

\* The thread of the remote control.
LEMMA TInvThread == TInv /\ (Thread \/ interrupted) => TInv'
<1> SUFFICES ASSUME TInv, Thread \/ interrupted PROVE TInv'
  OBVIOUS
<1>1. FifoOK /\ ThreadOK /\ ClientsOK /\ TableOK /\ RC \in Procs
  BY NotThread DEF TInv, Procs
<1>2. CASE reopen
  <2>1. FifoOK'
    BY <1>1, <1>2, OpenOK, FifoSame DEF reopen, fifoVars, Ends
  <2>2. PICK where \in {"ended", "in_open"} :
           /\ Goto(RC, where) /\ UNCHANGED clientVars
           /\ where = "in_open" => errcount <= MAX_ERRORS
    BY <1>2 DEF reopen
  <2>3. ClientsOK' /\ pc'[RC] = where
    BY <1>1, <2>2, ClientsSame DEF ThreadPlaces
  <2>4. ThreadOK'
    BY <1>1, <1>2, <2>2, <2>3 DEF ThreadOK, reopen, threadVars, ThreadPlaces
  <2>5. TableOK'
    BY <1>1, <1>2, TableSame DEF reopen, faultVars
  <2> QED BY <2>1, <2>3, <2>4, <2>5 DEF TInv
<1>3. CASE open_out
  <2>1. FifoOK'
    BY <1>1, <1>3, OpenOK DEF open_out, Ends
  <2>2. ClientsOK' /\ pc'[RC] = "serving"
    BY <1>1, <1>3, ClientsSame DEF ThreadPlaces, open_out
  <2>3. ThreadOK'
    BY <1>1, <1>3, <2>2 DEF ThreadOK, open_out, threadVars, ThreadPlaces
  <2>4. TableOK'
    BY <1>1, <1>3, TableSame DEF open_out, faultVars
  <2> QED BY <2>1, <2>2, <2>3, <2>4 DEF TInv
<1>4. CASE read_line
  <2>1. FifoOK'
    BY <1>1, <1>4, ReadOK DEF read_line
  <2>2. PICK where \in {"closing", "execute"} :
           /\ Goto(RC, where) /\ UNCHANGED clientVars
           /\ where = "execute" => job' = Head(buf["in"])
    BY <1>4 DEF read_line
  <2>3. ClientsOK' /\ pc'[RC] = where
    BY <1>1, <2>2, ClientsSame DEF ThreadPlaces
  <2>4. Head(buf["in"]) \in Item
    BY <1>1, <1>4 DEF FifoOK, read_line, Fifo!ReadFirst
  <2>5. pc[RC] = "serving" /\ UNCHANGED <<result, errcount>>
    BY <1>4 DEF read_line
  <2>6. ThreadOK'
    BY <1>1, <2>2, <2>3, <2>4, <2>5 DEF ThreadOK, ThreadPlaces
  <2>7. TableOK'
    BY <1>1, <1>4, TableSame DEF read_line, faultVars
  <2> QED BY <2>1, <2>3, <2>6, <2>7 DEF TInv
<1>5. CASE read_eof
  <2>1. FifoOK'
    BY <1>1, <1>5, FifoSame DEF read_eof, fifoVars
  <2>2. ClientsOK' /\ pc'[RC] = "closing"
    BY <1>1, <1>5, ClientsSame DEF ThreadPlaces, read_eof
  <2>3. ThreadOK'
    BY <1>1, <1>5, <2>2 DEF ThreadOK, read_eof, threadVars, ThreadPlaces
  <2>4. TableOK'
    BY <1>1, <1>5, TableSame DEF read_eof, faultVars
  <2> QED BY <2>1, <2>2, <2>3, <2>4 DEF TInv
<1>6. CASE rc_do_command
  <2>1. FifoOK'
    BY <1>1, <1>6, FifoSame DEF rc_do_command, fifoVars
  <2>2. ClientsOK' /\ pc'[RC] = "reply"
    BY <1>1, <1>6, ClientsSame DEF ThreadPlaces, rc_do_command
  <2>3. result' \in Results /\ fiu_rc_string(points, job.chunk) \in Results
    BY <1>6, AnswerType DEF rc_do_command
  <2>4. ThreadOK'
    BY <1>1, <1>6, <2>2, <2>3 DEF ThreadOK, rc_do_command, ThreadPlaces
  <2>5. TableOK'
    <3>1. job.by \in (Clients \cup {"FIU_ENABLE"}) \X Nat
      BY <1>1, <1>6 DEF ThreadOK, rc_do_command, Item
    <3>2. log' = Append(log, [by |-> job.by, r |-> fiu_rc_string(points, job.chunk)])
          /\ UNCHANGED <<preset, kills, signals>>
      BY <1>6 DEF rc_do_command, Execute, faultVars
    <3> QED BY <1>1, <2>3, <3>1, <3>2 DEF TableOK
  <2> QED BY <2>1, <2>2, <2>4, <2>5 DEF TInv
<1>7. CASE reply
  <2>1. PICK where \in {"serving", "closing", "dead"} :
           /\ Goto(RC, where) /\ UNCHANGED clientVars
           /\ \/ Fifo!Write("out", <<result>>)
              \/ UNCHANGED fifoVars
              \/ Fifo!Close({"in", "out"}, RC)
    BY <1>7 DEF reply
  <2>2. ClientsOK' /\ pc'[RC] = where
    BY <1>1, <2>1, ClientsSame DEF ThreadPlaces
  <2>3. <<result>> \in Seq(Results)
    BY <1>1, <1>7 DEF reply, ThreadOK
  <2>4. FifoOK'
    BY <1>1, <2>1, <2>3, WriteOK, CloseOK, FifoSame DEF fifoVars
  <2>5. ThreadOK'
    BY <1>1, <1>7, <2>1, <2>2 DEF ThreadOK, reply, ThreadPlaces
  <2>6. TableOK'
    BY <1>1, <1>7, TableSame DEF reply, faultVars
  <2> QED BY <2>2, <2>4, <2>5, <2>6 DEF TInv
<1>8. CASE close_first \/ close_second
  <2>1. FifoOK'
    BY <1>1, <1>8, CloseOK DEF close_first, close_second
  <2>2. PICK where \in {"closing_2nd", "reopen"} : Goto(RC, where) /\ UNCHANGED clientVars
    BY <1>8 DEF close_first, close_second
  <2>3. ClientsOK' /\ pc'[RC] = where
    BY <1>1, <2>2, ClientsSame DEF ThreadPlaces
  <2>4. ThreadOK'
    BY <1>1, <1>8, <2>2, <2>3 DEF ThreadOK, close_first, close_second, threadVars,
       ThreadPlaces
  <2>5. TableOK'
    BY <1>1, <1>8, TableSame DEF close_first, close_second, faultVars
  <2> QED BY <2>1, <2>3, <2>4, <2>5 DEF TInv
<1>9. CASE interrupted
  <2>1. FifoOK'
    BY <1>1, <1>9, CloseOK, FifoSame DEF interrupted, fifoVars
  <2>2. PICK where \in {"ended", "closing"} :
           /\ Goto(RC, where) /\ UNCHANGED clientVars
           /\ pc[RC] \in {"in_open", "serving"}
           /\ errcount' \in {errcount, errcount + 1}
    BY <1>9 DEF interrupted
  <2>3. ClientsOK' /\ pc'[RC] = where
    BY <1>1, <2>2, ClientsSame DEF ThreadPlaces
  <2>4. errcount' \in 0..(MAX_ERRORS + 1)
    BY <1>1, <2>2 DEF ThreadOK
  <2>5. ThreadOK'
    BY <2>2, <2>3, <2>4 DEF ThreadOK, ThreadPlaces
  <2>6. TableOK'
    BY <1>1, <1>9 DEF TableOK, interrupted, tableVars
  <2> QED BY <2>1, <2>3, <2>5, <2>6 DEF TInv
<1> QED BY <1>2, <1>3, <1>4, <1>5, <1>6, <1>7, <1>8, <1>9 DEF Thread

\* A client begins a command.
LEMMA TInvStart ==
  ASSUME TInv, NEW c \in Clients, NEW l \in Lines, start(c, l)
  PROVE  TInv'
<1>1. FifoOK /\ ThreadOK /\ ClientsOK /\ TableOK
  BY DEF TInv
<1>2. FifoOK'
  BY <1>1, OpenOK, NotThread DEF start, Ends
<1>3. ThreadOK'
  BY <1>1, ThreadSame DEF start
<1>4. TableOK'
  BY <1>1, TableSame DEF start, faultVars
<1>5. ClientsOK'
  <2>1. /\ asked' = [asked EXCEPT ![c] = Append(asked[c], l)]
        /\ pc' = [pc EXCEPT ![c] = "in_open"] /\ pc[c] = "idle"
        /\ UNCHANGED <<replies, outcome>>
    BY DEF start, Goto
  <2>2. asked[c] \in Seq(Lines)
    BY <1>1 DEF ClientsOK
  <2>3. /\ Append(asked[c], l) \in Seq(Lines)
        /\ Len(Append(asked[c], l)) = Len(asked[c]) + 1
    BY <2>2
  <2>4. /\ asked' \in [Clients -> Seq(Lines)] /\ Len(asked'[c]) = Len(asked[c]) + 1
        /\ \A d \in Clients : d # c => asked'[d] = asked[d]
    BY <1>1, <2>1, <2>3 DEF ClientsOK
  <2>5. /\ pc' \in [Procs -> ThreadPlaces \cup ClientPlaces]
        /\ pc'[c] = "in_open" /\ \A d \in Clients : d # c => pc'[d] = pc[d]
    BY <1>1, <2>1, NotThread DEF ClientsOK, ClientPlaces
  <2>6. ASSUME NEW d \in Clients
        PROVE  /\ pc'[d] \in ClientPlaces
               /\ Len(asked'[d]) = Len(outcome[d]) + (IF pc'[d] = "idle" THEN 0 ELSE 1)
    <3>1. CASE d = c
      BY <1>1, <2>1, <2>4, <2>5, <3>1 DEF ClientsOK, ClientPlaces
    <3>2. CASE d # c
      BY <1>1, <2>4, <2>5, <3>2 DEF ClientsOK
    <3> QED BY <3>1, <3>2
  <2> QED BY <1>1, <2>1, <2>4, <2>5, <2>6 DEF ClientsOK
<1> QED BY <1>2, <1>3, <1>4, <1>5 DEF TInv

\* It goes on with it, ends it or is killed.
LEMMA TInvClient ==
  ASSUME TInv, NEW c \in Clients, Client(c) \/ kill(c)
  PROVE  TInv'
<1>1. FifoOK /\ ThreadOK /\ ClientsOK /\ TableOK /\ c \in Procs
  BY NotThread DEF TInv
<1>2. pc[c] # "idle"
  BY DEF Client, echo, echo_close, cat_open, cat_read, cat_eof, open_pipes, write,
         readline, close_in, close_out, kill
<1>3. Request(c) \in Seq(Item)
  BY <1>1, <1>2, RequestType
<1>4. FifoOK'
  <2>1. \/ UNCHANGED fifoVars
        \/ Fifo!Write("in", Request(c))
        \/ Fifo!Close({"in"}, c) \/ Fifo!Close({"out"}, c) \/ Fifo!Close({"in", "out"}, c)
        \/ Fifo!OpenRead("out", c)
        \/ Fifo!ReadAll("out")
    BY DEF Client, echo, echo_close, cat_open, cat_read, cat_eof, open_pipes, write,
           readline, close_in, close_out, kill
  <2> QED BY <1>1, <1>3, <2>1, WriteOK, CloseOK, OpenOK, ReadOK, FifoSame DEF fifoVars, Ends
<1>5. /\ UNCHANGED threadVars /\ UNCHANGED tableVars
      /\ kills' \in {kills, kills + 1} /\ signals' = signals
  BY DEF Client, echo, echo_close, cat_open, cat_read, cat_eof, open_pipes, write,
         readline, close_in, close_out, kill, faultVars
<1>6. TableOK'
  BY <1>1, <1>5 DEF TableOK, tableVars
<1>7. ASSUME NEW where \in ClientPlaces \ {"idle"}, Goto(c, where),
             UNCHANGED <<asked, outcome>>, replies' \in [Clients -> Seq(Results)]
      PROVE  ThreadOK' /\ ClientsOK'
  BY <1>1, <1>2, <1>5, <1>7, ThreadSame, ClientGoes
<1>8. ASSUME NEW how \in {"ok", "error", "broken", "killed"}, Finish(c, how)
      PROVE  ThreadOK' /\ ClientsOK'
  BY <1>1, <1>2, <1>5, <1>8, ThreadSame, ClientFinishes
<1>9. replies \in [Clients -> Seq(Results)] /\ buf["out"] \in Seq(Results)
      /\ <<>> \in Seq(Results)
  BY <1>1 DEF ClientsOK, FifoOK
<1>10. ThreadOK' /\ ClientsOK'
  <2>1. CASE echo(c)
    <3>1. CASE Finish(c, "broken")
      BY <1>8, <3>1
    <3>2. CASE Goto(c, "written") /\ UNCHANGED clientVars
      BY <1>7, <1>9, <3>2 DEF clientVars, ClientPlaces
    <3> QED BY <2>1, <3>1, <3>2 DEF echo
  <2>2. CASE echo_close(c) \/ cat_open(c) \/ open_pipes(c) \/ write(c) \/ close_in(c)
    <3>1. PICK where \in ClientPlaces \ {"idle"} : Goto(c, where)
      BY <2>2 DEF echo_close, cat_open, open_pipes, write, close_in, ClientPlaces
    <3>2. UNCHANGED clientVars
      BY <2>2 DEF echo_close, cat_open, open_pipes, write, close_in
    <3> QED BY <1>7, <1>9, <3>1, <3>2 DEF clientVars
  <2>3. CASE cat_read(c)
    <3>1. replies' = [replies EXCEPT ![c] = @ \o buf["out"]] /\ UNCHANGED <<pc, asked, outcome>>
      BY <2>3 DEF cat_read
    <3>2. replies[c] \o buf["out"] \in Seq(Results)
      BY <1>9
    <3>3. replies' \in [Clients -> Seq(Results)]
      BY <1>9, <3>1, <3>2
    <3> QED BY <1>1, <1>5, <3>1, <3>3, ThreadSame DEF ClientsOK
  <2>4. CASE readline(c)
    <3>1. replies' \in [Clients -> Seq(Results)]
      BY <1>9, <2>4 DEF readline
    <3> QED BY <1>7, <2>4, <3>1 DEF readline, ClientPlaces
  <2>5. CASE cat_eof(c)
    BY <1>8, <2>5 DEF cat_eof
  <2>6. CASE close_out(c)
    BY <1>8, <2>6 DEF close_out
  <2>7. CASE kill(c)
    BY <1>8, <2>7 DEF kill
  <2> QED BY <2>1, <2>2, <2>3, <2>4, <2>5, <2>6, <2>7 DEF Client
<1> QED BY <1>4, <1>6, <1>10 DEF TInv

\* At the start.
LEMMA TInvInit == Init => TInv
<1> SUFFICES ASSUME Init PROVE TInv
  OBVIOUS
<1>1. FifoOK
  BY DEF Init, FifoOK, Fifo!FifoInit, Ends
<1>2. ThreadOK
  BY NotThread DEF Init, ThreadOK, ThreadPlaces, Procs
<1>3. ClientsOK
  BY NotThread DEF Init, ClientsOK, ThreadPlaces, ClientPlaces, Procs
<1>4. TableOK
  BY DEF Init, TableOK
<1> QED BY <1>1, <1>2, <1>3, <1>4 DEF TInv

\* Every step of the thread, of a client and of the start-up keeps the types.
LEMMA TInvNext == TInv /\ [Next]_vars => TInv'
<1> SUFFICES ASSUME TInv, [Next]_vars PROVE TInv'
  OBVIOUS
<1>1. CASE UNCHANGED vars
  BY <1>1 DEF vars, fifoVars, threadVars, clientVars, tableVars, faultVars, TInv,
     FifoOK, ThreadOK, ClientsOK, TableOK
<1> QED BY <1>1, TInvStartUp, TInvThread, TInvStart, TInvClient DEF Next

\* The types hold always, for any number of clients, kills and signals.
THEOREM TypeInvariance == Spec => []TInv
<1> QED BY TInvInit, TInvNext, PTL DEF Spec

\* The types of the run, that no more errors are counted than end the thread,
\* and that a client that is not idle has one command in progress.
THEOREM TypeCorrect == Spec => []TypeOK
<1>1. ASSUME TInv PROVE TypeOK
  <2>1. Fifo!FifoType
    BY <1>1 DEF TInv, FifoOK, Fifo!FifoType, Ends, Procs
  <2>2. errcount \in 0..(MAX_ERRORS + 1) /\ preset \in 1..(Len(Presets) + 1)
    BY <1>1 DEF TInv, ThreadOK, TableOK
  <2>3. ASSUME NEW c \in Clients
        PROVE  /\ Len(asked[c]) = Len(outcome[c]) + (IF pc[c] = "idle" THEN 0 ELSE 1)
               /\ \A i \in DOMAIN replies[c] : replies[c][i] \in {0, -1}
    <3>1. replies[c] \in Seq({0, -1})
      BY <1>1 DEF TInv, ClientsOK, Results
    <3> QED BY <1>1, <3>1 DEF TInv, ClientsOK
  <2> QED BY <2>1, <2>2, <2>3 DEF TypeOK
<1> QED BY <1>1, TypeInvariance, PTL
------------------------------------------------------------------------------
(***************************************************************************)
(* Counting the items of a command.                                        *)
(***************************************************************************)

\* The places of s where the command is k.
Places(s, k) == {i \in DOMAIN s : s[i].by = k}

\* They are finitely many, no more than the length of s.
LEMMA CountNat ==
  ASSUME NEW S, NEW s \in Seq(S), NEW k
  PROVE  /\ IsFiniteSet(Places(s, k))
         /\ Count(s, k) = Cardinality(Places(s, k))
         /\ Count(s, k) \in Nat /\ Count(s, k) <= Len(s)
<1>1. DOMAIN s = 1..Len(s) /\ Len(s) \in Nat
  OBVIOUS
<1>2. IsFiniteSet(1..Len(s)) /\ Cardinality(1..Len(s)) = Len(s)
  <2> DEFINE m == Len(s)
  <2>1. m \in Nat /\ m \in Int /\ 1 \in Int
    BY <1>1
  <2> HIDE DEF m
  <2>2. IsFiniteSet(1..m) /\ Cardinality(1..m) = (IF 1 > m THEN 0 ELSE m - 1 + 1)
    BY <2>1, FS_Interval
  <2>3. Cardinality(1..m) = m
    BY <2>1, <2>2
  <2> QED BY <2>2, <2>3 DEF m
<1>3. Places(s, k) \in SUBSET (1..Len(s))
  BY <1>1 DEF Places
<1>4. IsFiniteSet(Places(s, k)) /\ Cardinality(Places(s, k)) <= Len(s)
  BY <1>2, <1>3, FS_Subset
<1>5. Cardinality(Places(s, k)) \in Nat
  BY <1>4, FS_CardinalityType
<1>6. Count(s, k) = Cardinality(Places(s, k))
  BY DEF Count, Places
<1> QED BY <1>4, <1>5, <1>6

\* Where there is none the count is 0.
LEMMA CountNone ==
  ASSUME NEW s, NEW k, \A i \in DOMAIN s : s[i].by # k
  PROVE  Count(s, k) = 0
<1>1. {i \in DOMAIN s : s[i].by = k} = {}
  OBVIOUS
<1> QED BY <1>1, FS_EmptySet DEF Count

\* The count of a concatenation.
LEMMA CountConcat ==
  ASSUME NEW S, NEW s \in Seq(S), NEW t \in Seq(S), NEW k
  PROVE  Count(s \o t, k) = Count(s, k) + Count(t, k)
<1> DEFINE m == Len(s)
           u == s \o t
           A == Places(s, k)
           B == Places(t, k)
           C == {i + m : i \in B}
           shift == [i \in B |-> i + m]
<1>1. /\ m \in Nat /\ Len(t) \in Nat /\ u \in Seq(S)
      /\ DOMAIN s = 1..m /\ DOMAIN t = 1..Len(t) /\ DOMAIN u = 1..(m + Len(t))
      /\ \A i \in 1..(m + Len(t)) : u[i] = IF i <= m THEN s[i] ELSE t[i - m]
  BY ConcatProperties, LenProperties
<1>2. A \subseteq 1..m /\ B \subseteq 1..Len(t)
  BY <1>1 DEF Places
<1>3. Places(u, k) = A \cup C
  <2> HIDE DEF u, m
  <2>1. ASSUME NEW i \in Places(u, k) PROVE i \in A \cup C
    <3>1. i \in 1..(m + Len(t)) /\ u[i].by = k
      BY <1>1 DEF Places
    <3>2. CASE i <= m
      BY <1>1, <3>1, <3>2 DEF Places
    <3>3. CASE i > m
      <4>1. i - m \in 1..Len(t) /\ i = (i - m) + m /\ t[i - m].by = k
        BY <1>1, <3>1, <3>3
      <4>2. i - m \in B
        BY <1>1, <4>1 DEF Places
      <4> QED BY <4>1, <4>2
    <3> QED BY <1>1, <3>1, <3>2, <3>3
  <2>2. ASSUME NEW i \in A PROVE i \in Places(u, k)
    BY <1>1 DEF Places
  <2>3. ASSUME NEW i \in B PROVE i + m \in Places(u, k)
    <3>1. i \in 1..Len(t) /\ t[i].by = k
      BY <1>1 DEF Places
    <3>2. i + m \in 1..(m + Len(t)) /\ ~(i + m <= m) /\ (i + m) - m = i
      BY <1>1, <3>1
    <3> QED BY <1>1, <3>1, <3>2 DEF Places
  <2> QED BY <2>1, <2>2, <2>3
<1>4. IsFiniteSet(A) /\ IsFiniteSet(B)
  BY CountNat
<1>5. shift \in Bijection(B, C)
  BY <1>1, <1>2 DEF Bijection, Injection, Surjection, IsInjective
<1>6. IsFiniteSet(C) /\ Cardinality(C) = Cardinality(B)
  <2>1. ExistsBijection(B, C)
    BY <1>5 DEF ExistsBijection
  <2> QED BY <1>4, <2>1, FS_Bijection
<1>7. A \cap C = {}
  BY <1>1, <1>2
<1>8. Cardinality(A \cup C) = Cardinality(A) + Cardinality(C) - Cardinality(A \cap C)
  BY <1>4, <1>6, FS_Union
<1>9. Cardinality(A \cap C) = 0 /\ Cardinality(A) \in Nat /\ Cardinality(C) \in Nat
  BY <1>4, <1>6, <1>7, FS_EmptySet, FS_CardinalityType
<1>10. /\ Count(u, k) = Cardinality(A \cup C)
       /\ Count(s, k) = Cardinality(A) /\ Count(t, k) = Cardinality(B)
  BY <1>1, <1>3, CountNat
<1> HIDE DEF A, B, C, u
<1>11. Count(u, k) = Count(s, k) + Count(t, k)
  BY <1>6, <1>8, <1>9, <1>10
<1> QED BY <1>11 DEF u

\* The first one, and the rest.
LEMMA CountTail ==
  ASSUME NEW S, NEW s \in Seq(S), s # <<>>, NEW k
  PROVE  Count(s, k) = Count(<<Head(s)>>, k) + Count(Tail(s), k)
<1>1. Head(s) \in S /\ Tail(s) \in Seq(S) /\ <<Head(s)>> \in Seq(S)
  BY HeadTailProperties
<1>2. <<Head(s)>> \o Tail(s) = s
  <2>1. /\ <<Head(s)>> \o Tail(s) \in Seq(S)
        /\ Len(<<Head(s)>> \o Tail(s)) = 1 + Len(Tail(s))
        /\ \A i \in 1..(1 + Len(Tail(s))) : (<<Head(s)>> \o Tail(s))[i] =
              IF i <= 1 THEN <<Head(s)>>[i] ELSE Tail(s)[i - 1]
    BY <1>1, ConcatProperties
  <2>2. /\ Len(Tail(s)) = Len(s) - 1 /\ Len(s) \in Nat
        /\ \A i \in 1..Len(Tail(s)) : Tail(s)[i] = s[i + 1]
    BY HeadTailProperties
  <2>3. ASSUME NEW i \in 1..Len(s) PROVE (<<Head(s)>> \o Tail(s))[i] = s[i]
    <3>1. CASE i = 1
      BY <2>1, <2>2, <3>1
    <3>2. CASE i # 1
      <4>1. i - 1 \in 1..Len(Tail(s)) /\ i \in 1..(1 + Len(Tail(s))) /\ ~(i <= 1)
        BY <2>2, <3>2
      <4> QED BY <2>1, <2>2, <4>1
    <3> QED BY <3>1, <3>2
  <2>4. Len(<<Head(s)>> \o Tail(s)) = Len(s)
    BY <2>1, <2>2
  <2> QED BY <2>1, <2>3, <2>4, SeqEqual
<1>3. Count(<<Head(s)>> \o Tail(s), k) = Count(<<Head(s)>>, k) + Count(Tail(s), k)
  <2> DEFINE a == <<Head(s)>>
             b == Tail(s)
  <2>1. a \in Seq(S) /\ b \in Seq(S)
    BY <1>1
  <2> HIDE DEF a, b
  <2>2. Count(a \o b, k) = Count(a, k) + Count(b, k)
    BY <2>1, CountConcat
  <2> QED BY <2>2 DEF a, b
<1> QED BY <1>2, <1>3

\* A new last one.
LEMMA CountAppend ==
  ASSUME NEW S, NEW s \in Seq(S), NEW e \in S, NEW k
  PROVE  Count(Append(s, e), k) = Count(s, k) + Count(<<e>>, k)
<1>1. <<e>> \in Seq(S) /\ Append(s, e) = s \o <<e>>
  BY AppendIsConcat
<1> DEFINE b == <<e>>
<1>2. b \in Seq(S)
  BY <1>1
<1> HIDE DEF b
<1>3. Count(s \o b, k) = Count(s, k) + Count(b, k)
  BY <1>2, CountConcat
<1> QED BY <1>1, <1>3 DEF b
------------------------------------------------------------------------------
(***************************************************************************)
(* The commands stay in order.                                             *)
(***************************************************************************)
Entry == [by : (Clients \cup {"FIU_ENABLE"}) \X Nat, r : Results]

\* Where the commands are.
LEMMA WayTypes ==
  ASSUME TInv
  PROVE  /\ log \in Seq(Entry) /\ Job \in Seq(Item) /\ buf["in"] \in Seq(Item)
         /\ \A c \in Clients : asked[c] \in Seq(Lines)
         /\ \A c \in Clients : \A n \in DOMAIN asked[c] : Len(Chunks[asked[c][n]]) \in Nat
<1>1. log \in Seq(Entry) /\ buf["in"] \in Seq(Item)
  BY DEF TInv, FifoOK, TableOK, Entry
<1>2. Job \in Seq(Item)
  <2>1. CASE pc[RC] = "execute"
    <3>1. job \in Item
      BY <2>1 DEF TInv, ThreadOK
    <3> QED BY <2>1, <3>1 DEF Job
  <2>2. CASE pc[RC] # "execute"
    BY <2>2 DEF Job
  <2> QED BY <2>1, <2>2
<1>3. \A c \in Clients : asked[c] \in Seq(Lines)
  BY DEF TInv, ClientsOK
<1>4. ASSUME NEW c \in Clients, NEW n \in DOMAIN asked[c]
      PROVE  Len(Chunks[asked[c][n]]) \in Nat
  <2> DEFINE l == asked[c][n]
  <2>1. l \in Lines
    BY <1>3
  <2> HIDE DEF l
  <2>2. Chunks[l] \in Seq({Chunks[l][i] : i \in DOMAIN Chunks[l]})
    BY <2>1
  <2>3. Len(Chunks[l]) \in Nat
    BY <2>2
  <2> QED BY <2>3 DEF l
<1> QED BY <1>1, <1>2, <1>3, <1>4

\* How many of a command are on their way.
LEMMA WayCounts ==
  ASSUME TInv, NEW k
  PROVE  Count(log, k) \in Nat /\ Count(Job, k) \in Nat /\ Count(buf["in"], k) \in Nat
BY WayTypes, CountNat

\* Nothing moves, but what nobody can read any more is lost.
Quiet ==
    /\ log' = log /\ asked' = asked
    /\ Job' \in {Job, <<>>}
    /\ buf'["in"] \in {buf["in"], <<>>}
    /\ \A c \in Clients : Unsent(c)' => Unsent(c)

\* What is lost, or stays where it is, stays in order.
LEMMA OrderQuiet == TInv /\ OInv /\ Quiet => OInv'
<1> SUFFICES ASSUME TInv, OInv, Quiet PROVE OInv'
  OBVIOUS
<1> DEFINE B  == buf["in"]
           Bp == buf'["in"]
           Jp == Job'
<1>1. /\ log' = log /\ asked' = asked
      /\ Jp \in {Job, <<>>} /\ Bp \in {B, <<>>}
      /\ \A c \in Clients : Unsent(c)' => Unsent(c)
  BY DEF Quiet
<1>2. /\ \A i \in DOMAIN Jp : i \in DOMAIN Job /\ Jp[i] = Job[i]
      /\ \A i \in DOMAIN Bp : i \in DOMAIN B /\ Bp[i] = B[i]
  <2> HIDE DEF B, Bp, Jp
  <2> QED BY <1>1
<1>3. AllSent'
  <2>1. \A by : Sent(by) => Sent(by)'
    BY <1>1 DEF Sent
  <2>2. /\ \A i \in DOMAIN log : Sent(log[i].by)
        /\ \A i \in DOMAIN Jp : Sent(Jp[i].by)
        /\ \A i \in DOMAIN Bp : Sent(Bp[i].by)
    BY <1>2 DEF OInv, AllSent
  <2> QED BY <1>1, <2>1, <2>2 DEF AllSent, Sent
<1>4. NoneTwice'
  <2>1. ASSUME NEW c \in Clients, NEW n \in DOMAIN asked[c]
        PROVE  Count(log, <<c, n>>) + Count(Jp, <<c, n>>) + Count(Bp, <<c, n>>)
                  <= Len(Chunks[asked[c][n]])
    <3> DEFINE k == <<c, n>>
    <3>1. Count(<<>>, k) = 0
      BY CountNone
    <3>2. Count(log, k) \in Nat /\ Count(Job, k) \in Nat /\ Count(B, k) \in Nat
      BY WayCounts
    <3>3. Count(log, k) + Count(Job, k) + Count(B, k) <= Len(Chunks[asked[c][n]])
      BY DEF OInv, NoneTwice
    <3>4. Len(Chunks[asked[c][n]]) \in Nat
      BY WayTypes
    <3> HIDE DEF k, B, Bp, Jp
    <3>5. Count(Jp, k) \in {Count(Job, k), 0} /\ Count(Bp, k) \in {Count(B, k), 0}
      BY <1>1, <3>1
    <3>6. Count(log, k) + Count(Jp, k) + Count(Bp, k) <= Len(Chunks[asked[c][n]])
      BY <3>2, <3>3, <3>4, <3>5
    <3> QED BY <3>6 DEF k
  <2> QED BY <1>1, <2>1 DEF NoneTwice, Count
<1>5. Ordered'
  <2>1. /\ \A i, j \in DOMAIN log : i < j => Before(log[i].by, log[j].by)
        /\ \A i \in DOMAIN log, j \in DOMAIN Jp : Before(log[i].by, Jp[j].by)
        /\ \A i \in DOMAIN log, j \in DOMAIN Bp : Before(log[i].by, Bp[j].by)
        /\ \A i \in DOMAIN Jp, j \in DOMAIN Bp : Before(Jp[i].by, Bp[j].by)
        /\ \A i, j \in DOMAIN Bp : i < j => Before(Bp[i].by, Bp[j].by)
    <3> HIDE DEF Jp, Bp
    <3> QED BY <1>2 DEF OInv, Ordered
  <2> QED BY <1>1, <2>1 DEF Ordered, Before
<1> QED BY <1>3, <1>4, <1>5 DEF OInv

\* read_line() takes the first command from the pipe, or drops an empty line.
LEMMA OrderRead == TInv /\ OInv /\ read_line => OInv'
<1> SUFFICES ASSUME TInv, OInv, read_line PROVE OInv'
  OBVIOUS
<1> DEFINE B  == buf["in"]
           Bp == buf'["in"]
           Jp == Job'
<1>1. /\ log' = log /\ asked' = asked /\ Job = <<>>
      /\ B # <<>> /\ Bp = Tail(B)
      /\ \A c \in Clients : pc'[c] = pc[c]
      /\ Jp \in {<<>>, <<Head(B)>>}
  <2>1. /\ log' = log /\ asked' = asked /\ pc[RC] = "serving"
        /\ B # <<>> /\ buf' = [buf EXCEPT !["in"] = Tail(@)]
        /\ \/ Goto(RC, "closing")
           \/ Goto(RC, "execute") /\ job' = Head(B)
    BY DEF read_line, Fifo!ReadFirst, clientVars, tableVars
  <2>2. pc \in [Procs -> ThreadPlaces \cup ClientPlaces] /\ "in" \in DOMAIN buf
    BY DEF TInv, ClientsOK, FifoOK, Ends
  <2>3. CASE Goto(RC, "closing")
    BY <2>1, <2>2, <2>3, NotThread DEF Goto, Job
  <2>4. CASE Goto(RC, "execute") /\ job' = Head(B)
    BY <2>1, <2>2, <2>4, NotThread DEF Goto, Job
  <2> QED BY <2>1, <2>3, <2>4
<1>2. /\ B \in Seq(Item) /\ Len(B) \in Nat /\ DOMAIN B = 1..Len(B) /\ 1 \in DOMAIN B
      /\ Head(B) = B[1] /\ Len(Bp) = Len(B) - 1 /\ DOMAIN Bp = 1..Len(Bp)
      /\ \A i \in DOMAIN Bp : i + 1 \in DOMAIN B /\ i + 1 > 1 /\ Bp[i] = B[i + 1]
  <2>1. B \in Seq(Item) /\ Tail(B) \in Seq(Item)
    BY <1>1, WayTypes, HeadTailProperties
  <2>2. /\ Len(Tail(B)) = Len(B) - 1
        /\ \A i \in 1..Len(Tail(B)) : Tail(B)[i] = B[i + 1]
    BY <1>1, <2>1, HeadTailProperties
  <2>3. /\ Len(B) \in Nat /\ DOMAIN B = 1..Len(B) /\ Len(B) # 0
        /\ DOMAIN Tail(B) = 1..Len(Tail(B))
    BY <1>1, <2>1, LenProperties, EmptySeq
  <2> QED BY <1>1, <2>1, <2>2, <2>3
<1>3. \A i \in DOMAIN Jp : Jp[i] = B[1]
  <2> HIDE DEF B, Jp
  <2> QED BY <1>1, <1>2
<1>4. AllSent'
  <2>1. \A by : Sent(by) => Sent(by)'
    BY <1>1 DEF Sent, Unsent
  <2>2. /\ \A i \in DOMAIN log : Sent(log[i].by)
        /\ \A i \in DOMAIN Jp : Sent(Jp[i].by)
        /\ \A i \in DOMAIN Bp : Sent(Bp[i].by)
    <3> HIDE DEF Jp, Bp
    <3> QED BY <1>2, <1>3 DEF OInv, AllSent
  <2> QED BY <1>1, <2>1, <2>2 DEF AllSent, Sent
<1>5. NoneTwice'
  <2>1. ASSUME NEW c \in Clients, NEW n \in DOMAIN asked[c]
        PROVE  Count(log, <<c, n>>) + Count(Jp, <<c, n>>) + Count(Bp, <<c, n>>)
                  <= Len(Chunks[asked[c][n]])
    <3> DEFINE k == <<c, n>>
               h == <<Head(B)>>
    <3>1. Count(<<>>, k) = 0
      BY CountNone
    <3>2. Count(log, k) \in Nat /\ Count(B, k) \in Nat
      BY WayCounts
    <3>3. Count(log, k) + Count(Job, k) + Count(B, k) <= Len(Chunks[asked[c][n]])
      BY DEF OInv, NoneTwice
    <3>4. Len(Chunks[asked[c][n]]) \in Nat
      BY WayTypes
    <3>5. Count(B, k) = Count(h, k) + Count(Bp, k)
      BY <1>1, <1>2, CountTail
    <3>6. Count(h, k) \in Nat /\ Count(Bp, k) \in Nat
      <4>1. h \in Seq(Item) /\ Bp \in Seq(Item)
        BY <1>1, <1>2, HeadTailProperties
      <4> HIDE DEF h, Bp, k
      <4> QED BY <4>1, CountNat
    <3> HIDE DEF k, B, Bp, Jp, h
    <3>7. Count(Jp, k) \in {0, Count(h, k)}
      BY <1>1, <3>1 DEF h
    <3>8. Count(Job, k) = 0
      BY <1>1, <3>1
    <3>9. Count(log, k) + Count(Jp, k) + Count(Bp, k) <= Len(Chunks[asked[c][n]])
      BY <3>2, <3>3, <3>4, <3>5, <3>6, <3>7, <3>8
    <3> QED BY <3>9 DEF k
  <2> QED BY <1>1, <2>1 DEF NoneTwice, Count
<1>6. Ordered'
  <2>1. /\ \A i, j \in DOMAIN log : i < j => Before(log[i].by, log[j].by)
        /\ \A i \in DOMAIN log, j \in DOMAIN B : Before(log[i].by, B[j].by)
        /\ \A i, j \in DOMAIN B : i < j => Before(B[i].by, B[j].by)
    BY DEF OInv, Ordered
  <2>2. /\ \A i \in DOMAIN log, j \in DOMAIN Jp : Before(log[i].by, Jp[j].by)
        /\ \A i \in DOMAIN log, j \in DOMAIN Bp : Before(log[i].by, Bp[j].by)
    <3> HIDE DEF Jp, Bp, B
    <3> QED BY <1>2, <1>3, <2>1
  <2>3. ASSUME NEW i \in DOMAIN Jp, NEW j \in DOMAIN Bp PROVE Before(Jp[i].by, Bp[j].by)
    <3> HIDE DEF Jp, Bp, B
    <3> QED BY <1>2, <1>3, <2>1
  <2>4. ASSUME NEW i \in DOMAIN Bp, NEW j \in DOMAIN Bp, i < j
        PROVE  Before(Bp[i].by, Bp[j].by)
    <3> HIDE DEF Jp, Bp, B
    <3>1. i + 1 < j + 1
      BY <1>2, <2>4
    <3> QED BY <1>2, <2>1, <3>1
  <2> QED BY <1>1, <2>1, <2>2, <2>3, <2>4 DEF Ordered, Before
<1> QED BY <1>4, <1>5, <1>6 DEF OInv

\* The thread executes the command: it moves to the log.
LEMMA OrderExecute == TInv /\ OInv /\ rc_do_command => OInv'
<1> SUFFICES ASSUME TInv, OInv, rc_do_command PROVE OInv'
  OBVIOUS
<1> DEFINE B == buf["in"]
           e == [by |-> job.by, r |-> fiu_rc_string(points, job.chunk)]
           Lp == log'
           Jp == Job'
<1>1. /\ asked' = asked /\ buf' = buf /\ Job = <<job>> /\ Jp = <<>>
      /\ Lp = Append(log, e) /\ \A c \in Clients : pc'[c] = pc[c]
  <2>1. /\ asked' = asked /\ buf' = buf /\ Goto(RC, "reply") /\ Lp = Append(log, e)
        /\ pc[RC] = "execute"
    BY DEF rc_do_command, Execute, clientVars, fifoVars
  <2>2. pc \in [Procs -> ThreadPlaces \cup ClientPlaces]
    BY DEF TInv, ClientsOK
  <2>3. pc'[RC] = "reply" /\ \A c \in Clients : pc'[c] = pc[c]
    <3>1. pc' = [pc EXCEPT ![RC] = "reply"]
      BY <2>1 DEF Goto
    <3> HIDE DEF e, Lp, Jp
    <3>2. RC \in Procs /\ \A p \in Procs : pc'[p] = IF p = RC THEN "reply" ELSE pc[p]
      BY ONLY <2>2, <3>1, RC \in Procs DEF Procs
    <3> QED BY <3>2, NotThread
  <2>4. Job = <<job>> /\ Jp = <<>>
    BY <2>1, <2>3 DEF Job
  <2> QED BY <2>1, <2>3, <2>4
<1>2. job \in Item /\ log \in Seq(Entry) /\ e \in Entry /\ e.by = job.by
  <2>1. job \in Item
    BY DEF TInv, ThreadOK, rc_do_command
  <2>2. fiu_rc_string(points, job.chunk) \in Results
    BY AnswerType
  <2> QED BY <2>1, <2>2, WayTypes DEF Item, Entry
<1> HIDE DEF e
<1>3. /\ Len(log) \in Nat /\ DOMAIN log = 1..Len(log) /\ DOMAIN Lp = 1..(Len(log) + 1)
      /\ \A i \in DOMAIN log : Lp[i] = log[i]
      /\ Lp[Len(log) + 1] = e
  BY <1>1, <1>2, LenProperties, AppendProperties
<1>4. \A i \in DOMAIN Lp : \/ i \in DOMAIN log /\ Lp[i].by = log[i].by
                           \/ i = Len(log) + 1 /\ Lp[i].by = job.by
  <2> HIDE DEF Lp
  <2>1. \A i \in 1..(Len(log) + 1) : i \in 1..Len(log) \/ i = Len(log) + 1
    BY <1>3
  <2> QED BY <1>2, <1>3, <2>1
<1>5. 1 \in DOMAIN Job /\ Job[1] = job
  BY <1>1
<1>6. AllSent'
  <2>1. \A by : Sent(by) => Sent(by)'
    BY <1>1 DEF Sent, Unsent
  <2>2. /\ \A i \in DOMAIN Lp : Sent(Lp[i].by)
        /\ \A i \in DOMAIN B : Sent(B[i].by)
        /\ DOMAIN Jp = {}
    <3> HIDE DEF Lp
    <3> QED BY <1>1, <1>4, <1>5 DEF OInv, AllSent
  <2> QED BY <1>1, <2>1, <2>2 DEF AllSent, Sent
<1>7. NoneTwice'
  <2>1. ASSUME NEW c \in Clients, NEW n \in DOMAIN asked[c]
        PROVE  Count(Lp, <<c, n>>) + Count(<<>>, <<c, n>>) + Count(B, <<c, n>>)
                  <= Len(Chunks[asked[c][n]])
    <3> DEFINE k == <<c, n>>
               h == <<e>>
    <3>1. Count(<<>>, k) = 0
      BY CountNone
    <3>2. Count(log, k) \in Nat /\ Count(B, k) \in Nat /\ Count(Job, k) \in Nat
      BY WayCounts
    <3>3. Count(log, k) + Count(Job, k) + Count(B, k) <= Len(Chunks[asked[c][n]])
      BY DEF OInv, NoneTwice
    <3>4. Len(Chunks[asked[c][n]]) \in Nat
      BY WayTypes
    <3> HIDE DEF k, h, Lp, B
    <3>5. Count(Lp, k) = Count(log, k) + Count(h, k)
      BY <1>1, <1>2, CountAppend DEF h, Lp
    <3>6. Count(h, k) = Count(Job, k)
      <4>1. {i \in DOMAIN h : h[i].by = k} = {i \in DOMAIN Job : Job[i].by = k}
        BY <1>1, <1>2 DEF h
      <4> QED BY <4>1 DEF Count
    <3>7. Count(Lp, k) + Count(<<>>, k) + Count(B, k) <= Len(Chunks[asked[c][n]])
      BY <3>1, <3>2, <3>3, <3>4, <3>5, <3>6
    <3> QED BY <3>7 DEF k
  <2> QED BY <1>1, <2>1 DEF NoneTwice, Count
<1>8. Ordered'
  <2>1. /\ \A i, j \in DOMAIN log : i < j => Before(log[i].by, log[j].by)
        /\ \A i \in DOMAIN log : Before(log[i].by, job.by)
        /\ \A i \in DOMAIN log, j \in DOMAIN B : Before(log[i].by, B[j].by)
        /\ \A j \in DOMAIN B : Before(job.by, B[j].by)
        /\ \A i, j \in DOMAIN B : i < j => Before(B[i].by, B[j].by)
    BY <1>5 DEF OInv, Ordered
  <2>2. \A i \in DOMAIN Lp, j \in DOMAIN B : Before(Lp[i].by, B[j].by)
    <3> HIDE DEF Lp, B
    <3> QED BY <1>4, <2>1
  <2>3. ASSUME NEW i \in DOMAIN Lp, NEW j \in DOMAIN Lp, i < j
        PROVE  Before(Lp[i].by, Lp[j].by)
    <3>1. i \in DOMAIN log
      BY <1>3, <1>4, <2>3
    <3> HIDE DEF Lp, B
    <3> QED BY <1>3, <1>4, <2>1, <2>3, <3>1
  <2>4. DOMAIN Jp = {}
    <3> HIDE DEF Jp
    <3> QED BY <1>1
  <2> QED BY <1>1, <2>1, <2>2, <2>3, <2>4 DEF Ordered, Before
<1> QED BY <1>6, <1>7, <1>8 DEF OInv

\* The start-up executes a command that is no client's.
LEMMA OrderStartUp == TInv /\ OInv /\ fiu_run_init => OInv'
<1> SUFFICES ASSUME TInv, OInv, fiu_run_init PROVE OInv'
  OBVIOUS
<1> DEFINE B == buf["in"]
           e == [by |-> <<"FIU_ENABLE", preset>>,
                 r |-> fiu_rc_string(points, Presets[preset])]
           Lp == log'
<1>1. /\ asked' = asked /\ buf' = buf /\ Job' = Job /\ pc' = pc
      /\ Lp = Append(log, e)
  BY DEF fiu_run_init, Execute, clientVars, fifoVars, threadVars, Job
<1>2. /\ log \in Seq(Entry) /\ e \in Entry /\ e.by[1] \notin Clients
      /\ \A c \in Clients : \A n : e.by # <<c, n>>
  <2>1. fiu_rc_string(points, Presets[preset]) \in Results /\ preset \in Nat
    BY AnswerType DEF TInv, TableOK
  <2>2. "FIU_ENABLE" \notin Clients
    OBVIOUS
  <2> QED BY <2>1, <2>2, WayTypes DEF Entry
<1> HIDE DEF e
<1>3. /\ Len(log) \in Nat /\ DOMAIN log = 1..Len(log) /\ DOMAIN Lp = 1..(Len(log) + 1)
      /\ \A i \in DOMAIN log : Lp[i] = log[i]
      /\ Lp[Len(log) + 1] = e
  BY <1>1, <1>2, LenProperties, AppendProperties
<1>4. \A i \in DOMAIN Lp : \/ i \in DOMAIN log /\ Lp[i].by = log[i].by
                           \/ i = Len(log) + 1 /\ Lp[i].by[1] \notin Clients
  <2> HIDE DEF Lp
  <2>1. \A i \in 1..(Len(log) + 1) : i \in 1..Len(log) \/ i = Len(log) + 1
    BY <1>3
  <2> QED BY <1>2, <1>3, <2>1
<1>5. AllSent'
  <2>1. \A by : Sent(by) => Sent(by)'
    BY <1>1 DEF Sent, Unsent
  <2>2. \A by : by[1] \notin Clients => Sent(by)
    BY DEF Sent
  <2>3. /\ \A i \in DOMAIN Lp : Sent(Lp[i].by)
        /\ \A i \in DOMAIN Job : Sent(Job[i].by)
        /\ \A i \in DOMAIN B : Sent(B[i].by)
    <3> HIDE DEF Lp
    <3> QED BY <1>4, <2>2 DEF OInv, AllSent
  <2> QED BY <1>1, <2>1, <2>3 DEF AllSent, Sent
<1>6. NoneTwice'
  <2>1. ASSUME NEW c \in Clients, NEW n \in DOMAIN asked[c]
        PROVE  Count(Lp, <<c, n>>) + Count(Job, <<c, n>>) + Count(B, <<c, n>>)
                  <= Len(Chunks[asked[c][n]])
    <3> DEFINE k == <<c, n>>
               h == <<e>>
    <3>1. Count(log, k) \in Nat
      BY WayCounts
    <3>2. Count(log, k) + Count(Job, k) + Count(B, k) <= Len(Chunks[asked[c][n]])
      BY DEF OInv, NoneTwice
    <3>3. Count(h, k) = 0
      <4>1. \A i \in DOMAIN h : h[i].by # k
        BY <1>2
      <4> HIDE DEF h, k
      <4> QED BY <4>1, CountNone
    <3> HIDE DEF k, h, Lp, B
    <3>4. Count(Lp, k) = Count(log, k) + Count(h, k)
      BY <1>1, <1>2, CountAppend DEF h, Lp
    <3>5. Count(Lp, k) + Count(Job, k) + Count(B, k) <= Len(Chunks[asked[c][n]])
      BY <3>1, <3>2, <3>3, <3>4
    <3> QED BY <3>5 DEF k
  <2> QED BY <1>1, <2>1 DEF NoneTwice, Count
<1>7. Ordered'
  <2>1. /\ \A i, j \in DOMAIN log : i < j => Before(log[i].by, log[j].by)
        /\ \A i \in DOMAIN log, j \in DOMAIN Job : Before(log[i].by, Job[j].by)
        /\ \A i \in DOMAIN log, j \in DOMAIN B : Before(log[i].by, B[j].by)
        /\ \A i \in DOMAIN Job, j \in DOMAIN B : Before(Job[i].by, B[j].by)
        /\ \A i, j \in DOMAIN B : i < j => Before(B[i].by, B[j].by)
    BY DEF OInv, Ordered
  <2>2. \A a, b : a[1] \notin Clients \/ b[1] \notin Clients => Before(a, b)
    BY DEF Before
  <2>3. /\ \A i \in DOMAIN Lp, j \in DOMAIN Job : Before(Lp[i].by, Job[j].by)
        /\ \A i \in DOMAIN Lp, j \in DOMAIN B : Before(Lp[i].by, B[j].by)
    <3> HIDE DEF Lp, B
    <3> QED BY <1>4, <2>1, <2>2
  <2>4. ASSUME NEW i \in DOMAIN Lp, NEW j \in DOMAIN Lp, i < j
        PROVE  Before(Lp[i].by, Lp[j].by)
    <3> HIDE DEF Lp, B
    <3> QED BY <1>4, <2>1, <2>2, <2>4
  <2> QED BY <1>1, <2>1, <2>3, <2>4 DEF Ordered, Before
<1> QED BY <1>5, <1>6, <1>7 DEF OInv

\* A client begins a command that is not on its way yet.
LEMMA OrderStart ==
  ASSUME TInv, OInv, NEW c \in Clients, NEW l \in Lines, start(c, l)
  PROVE  OInv'
<1> DEFINE B == buf["in"]
<1>1. /\ log' = log /\ buf' = buf /\ Job' = Job
      /\ asked' = [asked EXCEPT ![c] = Append(@, l)]
      /\ pc[c] = "idle" /\ \A d \in Clients : pc'[d] = IF d = c THEN "in_open" ELSE pc[d]
  <2>1. /\ log' = log /\ buf' = buf /\ job' = job
        /\ asked' = [asked EXCEPT ![c] = Append(@, l)]
        /\ pc[c] = "idle" /\ pc' = [pc EXCEPT ![c] = "in_open"]
    BY DEF start, Fifo!OpenWrite, threadVars, tableVars, Goto
  <2>2. pc \in [Procs -> ThreadPlaces \cup ClientPlaces]
    BY DEF TInv, ClientsOK
  <2>3. \A p \in Procs : pc'[p] = IF p = c THEN "in_open" ELSE pc[p]
    BY <2>1, <2>2, NotThread
  <2>4. Job' = Job
    BY <2>1, <2>3, NotThread DEF Job
  <2> QED BY <2>1, <2>3, <2>4, NotThread
<1>2. /\ \A d \in Clients : /\ asked[d] \in Seq(Lines) /\ Len(asked[d]) \in Nat
                            /\ DOMAIN asked[d] = 1..Len(asked[d])
      /\ asked'[c] = Append(asked[c], l)
      /\ DOMAIN asked'[c] = 1..(Len(asked[c]) + 1) /\ Len(asked'[c]) = Len(asked[c]) + 1
      /\ \A n \in DOMAIN asked[c] : asked'[c][n] = asked[c][n]
      /\ \A d \in Clients : d # c => asked'[d] = asked[d]
  <2>1. \A d \in Clients : /\ asked[d] \in Seq(Lines) /\ Len(asked[d]) \in Nat
                           /\ DOMAIN asked[d] = 1..Len(asked[d])
    BY WayTypes
  <2>2. /\ asked'[c] = Append(asked[c], l)
        /\ \A d \in Clients : d # c => asked'[d] = asked[d]
    BY <1>1 DEF TInv, ClientsOK
  <2> QED BY <2>1, <2>2, AppendProperties
<1>3. ASSUME NEW by, Sent(by) PROVE Sent(by)'
  <2>1. ASSUME NEW d \in Clients, by[1] = d
        PROVE  by[2] \in DOMAIN asked'[d] /\ (Unsent(d)' => by[2] < Len(asked'[d]))
    <3>1. by[2] \in DOMAIN asked[d] /\ (Unsent(d) => by[2] < Len(asked[d]))
      BY <1>3, <2>1 DEF Sent
    <3>2. CASE d = c
      BY <1>2, <3>1, <3>2
    <3>3. CASE d # c
      BY <1>1, <1>2, <3>1, <3>3 DEF Unsent
    <3> QED BY <3>2, <3>3
  <2> QED BY <2>1 DEF Sent
<1>4. AllSent'
  <2>1. /\ \A i \in DOMAIN log : Sent(log[i].by)
        /\ \A i \in DOMAIN Job : Sent(Job[i].by)
        /\ \A i \in DOMAIN B : Sent(B[i].by)
    BY DEF OInv, AllSent
  <2> QED BY <1>1, <1>3, <2>1 DEF AllSent, Sent
<1>5. NoneTwice'
  <2>1. ASSUME NEW d \in Clients, NEW n \in DOMAIN asked'[d]
        PROVE  Count(log, <<d, n>>) + Count(Job, <<d, n>>) + Count(B, <<d, n>>)
                  <= Len(Chunks[asked'[d][n]])
    <3>1. CASE n \in DOMAIN asked[d]
      <4>1. asked'[d][n] = asked[d][n]
        BY <1>2, <3>1
      <4> QED BY <3>1, <4>1 DEF OInv, NoneTwice
    <3>2. CASE n \notin DOMAIN asked[d]
      <4> DEFINE k == <<d, n>>
      <4>1. d = c /\ n = Len(asked[c]) + 1 /\ asked'[d][n] = l
        BY <1>2, <3>2, AppendProperties
      <4>2. \A by : Sent(by) => by # k
        BY <3>2 DEF Sent
      <4>3. Count(log, k) = 0 /\ Count(Job, k) = 0 /\ Count(B, k) = 0
        <5> HIDE DEF k
        <5> QED BY <4>2, CountNone DEF OInv, AllSent
      <4>4. Len(Chunks[l]) \in Nat
        <5>1. Chunks[l] \in Seq({Chunks[l][i] : i \in DOMAIN Chunks[l]})
          OBVIOUS
        <5> QED BY <5>1
      <4> QED BY <4>1, <4>3, <4>4
    <3> QED BY <3>1, <3>2
  <2> QED BY <1>1, <2>1 DEF NoneTwice, Count
<1>6. Ordered'
  BY <1>1 DEF OInv, Ordered, Before
<1> QED BY <1>4, <1>5, <1>6 DEF OInv

\* A client writes its command behind all that is on its way.
Sends(c) ==
    /\ log' = log /\ asked' = asked /\ Job' = Job
    /\ Unsent(c)
    /\ buf'["in"] = buf["in"] \o Request(c)
    /\ ~Unsent(c)'
    /\ \A d \in Clients : d # c => pc'[d] = pc[d]

\* The newest command of a client goes behind its earlier ones.
LEMMA OrderSends ==
  ASSUME TInv, OInv, NEW c \in Clients, Sends(c)
  PROVE  OInv'
<1> DEFINE B  == buf["in"]
           Bp == buf'["in"]
           R  == Request(c)
           m  == Len(asked[c])
           l  == asked[c][m]
<1>1. /\ log' = log /\ asked' = asked /\ Job' = Job /\ Unsent(c) /\ ~Unsent(c)'
      /\ Bp = B \o R /\ \A d \in Clients : d # c => pc'[d] = pc[d]
  BY DEF Sends
<1>2. /\ m \in DOMAIN asked[c] /\ m \in Nat /\ R \in Seq(Item) /\ Len(R) = Len(Chunks[l])
      /\ \A i \in DOMAIN R : R[i].by = <<c, m>>
  <2>1. pc[c] # "idle"
    BY <1>1 DEF Unsent
  <2>2. asked[c] \in Seq(Lines)
    BY WayTypes
  <2> QED BY <2>1, <2>2, RequestType DEF TInv
<1>3. B \in Seq(Item)
  BY WayTypes
<1> HIDE DEF R
<1>4. /\ Len(B) \in Nat /\ Len(R) \in Nat /\ DOMAIN B = 1..Len(B) /\ DOMAIN R = 1..Len(R)
      /\ DOMAIN Bp = 1..(Len(B) + Len(R))
      /\ \A i \in DOMAIN Bp : Bp[i] = IF i <= Len(B) THEN B[i] ELSE R[i - Len(B)]
  <2> HIDE DEF m, l, B, Bp
  <2>1. /\ B \o R \in Seq(Item) /\ Len(B \o R) = Len(B) + Len(R)
        /\ \A i \in 1..(Len(B) + Len(R)) :
              (B \o R)[i] = IF i <= Len(B) THEN B[i] ELSE R[i - Len(B)]
    <3>1. B \in Seq(Item) /\ R \in Seq(Item)
      BY <1>2, <1>3 DEF B
    <3> QED BY ONLY <3>1, ConcatProperties
  <2>2. /\ Len(B) \in Nat /\ Len(R) \in Nat /\ DOMAIN B = 1..Len(B)
        /\ DOMAIN R = 1..Len(R) /\ DOMAIN (B \o R) = 1..(Len(B) + Len(R))
    BY <1>2, <1>3, <2>1, LenProperties
  <2> QED BY <1>1, <2>1, <2>2
<1> HIDE DEF m, l, B, Bp
<1>5. \A i \in DOMAIN Bp : \/ i \in DOMAIN B /\ Bp[i].by = B[i].by
                           \/ i > Len(B) /\ Bp[i].by = <<c, m>>
  <2> SUFFICES ASSUME NEW i \in DOMAIN Bp
               PROVE  \/ i \in DOMAIN B /\ Bp[i].by = B[i].by
                      \/ i > Len(B) /\ Bp[i].by = <<c, m>>
    OBVIOUS
  <2>1. CASE i <= Len(B)
    BY <1>4, <2>1
  <2>2. CASE i > Len(B)
    <3>1. i - Len(B) \in DOMAIN R
      BY <1>4, <2>2
    <3>2. ~(i <= Len(B))
      BY <1>4, <2>2
    <3> QED BY <1>2, <1>4, <2>2, <3>1, <3>2
  <2> QED BY <1>4, <2>1, <2>2
<1>6. \A by : Sent(by) /\ by[1] = c => by[2] \in Nat /\ by[2] < m
  <2>1. asked[c] \in Seq(Lines)
    BY WayTypes
  <2> QED BY <1>1, <2>1 DEF Sent, m
<1>7. AllSent'
  <2> DEFINE SentNow(by) == \A d \in Clients : by[1] = d =>
                               /\ by[2] \in DOMAIN asked[d]
                               /\ Unsent(d)' => by[2] < Len(asked[d])
  <2>1. ASSUME NEW by, Sent(by) PROVE SentNow(by)
    BY <1>1, <2>1 DEF Sent, Unsent
  <2>2. SentNow(<<c, m>>)
    BY <1>1, <1>2
  <2> HIDE DEF SentNow
  <2>3. /\ \A i \in DOMAIN log : SentNow(log[i].by)
        /\ \A i \in DOMAIN Job : SentNow(Job[i].by)
        /\ \A i \in DOMAIN Bp : SentNow(Bp[i].by)
    <3>1. \A by : Sent(by) => SentNow(by)
      BY <2>1
    <3>2. /\ \A i \in DOMAIN log : Sent(log[i].by)
          /\ \A i \in DOMAIN Job : Sent(Job[i].by)
          /\ \A i \in DOMAIN B : Sent(B[i].by)
      BY DEF OInv, AllSent, B
    <3>3. ASSUME NEW i \in DOMAIN Bp PROVE SentNow(Bp[i].by)
      BY <1>5, <2>2, <3>1, <3>2
    <3> QED BY <3>1, <3>2, <3>3
  <2> QED BY <1>1, <2>3 DEF AllSent, Sent, SentNow, Bp
<1>8. NoneTwice'
  <2>1. ASSUME NEW d \in Clients, NEW n \in DOMAIN asked[d]
        PROVE  Count(log, <<d, n>>) + Count(Job, <<d, n>>) + Count(Bp, <<d, n>>)
                  <= Len(Chunks[asked[d][n]])
    <3> DEFINE k == <<d, n>>
    <3>1. /\ Count(log, k) \in Nat /\ Count(Job, k) \in Nat /\ Count(B, k) \in Nat
      BY WayCounts DEF B
    <3>2. Count(R, k) \in Nat /\ Count(R, k) <= Len(R)
      <4> HIDE DEF k
      <4> QED BY <1>2, CountNat
    <3>3. Count(Bp, k) = Count(B, k) + Count(R, k)
      <4> HIDE DEF k
      <4>1. Count(B \o R, k) = Count(B, k) + Count(R, k)
        BY <1>2, <1>3, CountConcat
      <4> QED BY <1>1, <4>1
    <3>4. Count(log, k) + Count(Job, k) + Count(B, k) <= Len(Chunks[asked[d][n]])
      BY DEF OInv, NoneTwice, B
    <3>5. CASE k = <<c, m>>
      <4>1. \A by : Sent(by) => by # k
        BY <1>6, <3>5
      <4>2. Count(log, k) = 0 /\ Count(Job, k) = 0 /\ Count(B, k) = 0
        <5> HIDE DEF k
        <5> QED BY <4>1, CountNone DEF OInv, AllSent, B
      <4>3. Len(Chunks[asked[d][n]]) = Len(R) /\ Len(R) \in Nat
        BY <1>2, <1>4, <3>5 DEF l
      <4> HIDE DEF k
      <4>4. Count(log, k) + Count(Job, k) + Count(Bp, k) <= Len(Chunks[asked[d][n]])
        BY <3>2, <3>3, <4>2, <4>3
      <4> QED BY <4>4 DEF k
    <3>6. CASE k # <<c, m>>
      <4>1. \A i \in DOMAIN R : R[i].by # k
        BY <1>2, <3>6
      <4> HIDE DEF k
      <4>2. Count(R, k) = 0
        BY <4>1, CountNone
      <4>3. Count(log, k) + Count(Job, k) + Count(Bp, k) <= Len(Chunks[asked[d][n]])
        BY <3>1, <3>3, <3>4, <4>2
      <4> QED BY <4>3 DEF k
    <3> QED BY <3>5, <3>6
  <2> QED BY <1>1, <2>1 DEF NoneTwice, Count, Bp
<1>9. Ordered'
  <2>1. /\ \A i, j \in DOMAIN log : i < j => Before(log[i].by, log[j].by)
        /\ \A i \in DOMAIN log, j \in DOMAIN Job : Before(log[i].by, Job[j].by)
        /\ \A i \in DOMAIN log, j \in DOMAIN B : Before(log[i].by, B[j].by)
        /\ \A i \in DOMAIN Job, j \in DOMAIN B : Before(Job[i].by, B[j].by)
        /\ \A i, j \in DOMAIN B : i < j => Before(B[i].by, B[j].by)
    BY DEF OInv, Ordered, B
  <2>2. \A by : Sent(by) => Before(by, <<c, m>>)
    <3> SUFFICES ASSUME NEW by, Sent(by), by[1] = c PROVE by[2] <= m
      BY DEF Before
    <3> QED BY <1>2, <1>6
  <2>3. /\ \A i \in DOMAIN log : Before(log[i].by, <<c, m>>)
        /\ \A i \in DOMAIN Job : Before(Job[i].by, <<c, m>>)
        /\ \A i \in DOMAIN B : Before(B[i].by, <<c, m>>)
        /\ Before(<<c, m>>, <<c, m>>)
    <3>1. Before(<<c, m>>, <<c, m>>)
      BY <1>2 DEF Before
    <3> QED BY <2>2, <3>1 DEF OInv, AllSent, B
  <2>4. /\ \A i \in DOMAIN log, j \in DOMAIN Bp : Before(log[i].by, Bp[j].by)
        /\ \A i \in DOMAIN Job, j \in DOMAIN Bp : Before(Job[i].by, Bp[j].by)
    BY <1>5, <2>1, <2>3
  <2>5. ASSUME NEW i \in DOMAIN Bp, NEW j \in DOMAIN Bp, i < j
        PROVE  Before(Bp[i].by, Bp[j].by)
    <3>1. CASE j \in DOMAIN B /\ Bp[j].by = B[j].by
      <4>1. i \in DOMAIN B /\ ~(i > Len(B))
        BY <1>4, <2>5, <3>1
      <4> QED BY <1>5, <2>1, <2>5, <3>1, <4>1
    <3>2. CASE Bp[j].by = <<c, m>>
      BY <1>5, <2>3, <3>2
    <3> QED BY <1>5, <3>1, <3>2
  <2> QED BY <1>1, <2>1, <2>4, <2>5 DEF Ordered, Before, Bp
<1> QED BY <1>7, <1>8, <1>9 DEF OInv

\* Opening and closing ends, and the replies, do not add to the pipe of commands.
LEMMA InKept ==
  ASSUME FifoOK, NEW F, NEW f \in Ends, NEW p,
         \/ UNCHANGED fifoVars
         \/ Fifo!Close(F, p) \/ Fifo!OpenRead(f, p) \/ Fifo!OpenWrite(f, p)
         \/ Fifo!ReadAll("out") \/ \E s : Fifo!Write("out", s)
  PROVE  buf'["in"] \in {buf["in"], <<>>}
BY DEF FifoOK, Ends, fifoVars, Fifo!Close, Fifo!OpenRead, Fifo!OpenWrite, Fifo!ReadAll,
       Fifo!Write

\* A step of the thread.
LEMMA OrderThread == TInv /\ OInv /\ (Thread \/ interrupted) => OInv'
<1> SUFFICES ASSUME TInv, OInv, Thread \/ interrupted, ~read_line, ~rc_do_command
             PROVE  OInv'
  BY OrderRead, OrderExecute
<1>1. reopen \/ open_out \/ read_eof \/ reply \/ close_first \/ close_second \/ interrupted
  BY DEF Thread
<1>2. log' = log /\ UNCHANGED clientVars
  BY <1>1 DEF reopen, open_out, read_eof, reply, close_first, close_second, interrupted,
     tableVars
<1>3. buf'["in"] \in {buf["in"], <<>>}
  <2>1. \/ UNCHANGED fifoVars
        \/ \E F : Fifo!Close(F, RC)
        \/ \E f \in Ends : Fifo!OpenRead(f, RC) \/ Fifo!OpenWrite(f, RC)
        \/ \E s : Fifo!Write("out", s)
    BY <1>1 DEF reopen, open_out, read_eof, reply, close_first, close_second, interrupted,
       Ends
  <2> QED BY <2>1, InKept DEF TInv, Ends
<1>4. PICK where \in ThreadPlaces \ {"execute"} : Goto(RC, where)
  BY <1>1 DEF reopen, open_out, read_eof, reply, close_first, close_second, interrupted,
     ThreadPlaces
<1>5. pc'[RC] = where /\ \A c \in Clients : pc'[c] = pc[c]
  BY <1>2, <1>4, ClientsSame DEF TInv
<1>6. Quiet
  BY <1>2, <1>3, <1>5 DEF Quiet, Job, Unsent, clientVars
<1> QED BY <1>6, OrderQuiet

\* A step of a client in the middle of a command.
LEMMA OrderClient ==
  ASSUME TInv, OInv, NEW c \in Clients, Client(c) \/ kill(c)
  PROVE  OInv'
<1>1. log' = log /\ asked' = asked /\ UNCHANGED threadVars
  BY DEF Client, echo, echo_close, cat_open, cat_read, cat_eof, open_pipes, write,
         readline, close_in, close_out, kill, tableVars, clientVars, Finish
<1>2. PICK where \in ClientPlaces : Goto(c, where) \/ (pc' = pc /\ where = pc[c])
  <2>1. (\E w \in ClientPlaces : Goto(c, w)) \/ pc' = pc
    BY DEF Client, echo, echo_close, cat_open, cat_read, cat_eof, open_pipes, write,
           readline, close_in, close_out, kill, Finish, ClientPlaces
  <2> QED BY <2>1 DEF TInv, ClientsOK
<1>3. /\ pc'[c] = where /\ pc'[RC] = pc[RC]
      /\ \A d \in Clients : d # c => pc'[d] = pc[d]
  BY <1>2, NotThread DEF TInv, ClientsOK, Goto
<1>4. Job' = Job
  BY <1>1, <1>3 DEF Job, threadVars
<1>5. \/ /\ Fifo!Write("in", Request(c)) /\ Unsent(c) /\ ~Unsent(c)'
      \/ /\ \/ UNCHANGED fifoVars \/ Fifo!ReadAll("out") \/ Fifo!OpenRead("out", c)
            \/ \E F : Fifo!Close(F, c)
         /\ Unsent(c)' => Unsent(c)
  <2>1. ASSUME NEW w, Goto(c, w) PROVE pc'[c] = w
    BY <2>1, NotThread DEF TInv, ClientsOK, Goto
  <2>2. CASE echo(c) \/ write(c)
    <3>1. CASE Fifo!Write("in", Request(c))
      <4>1. pc'[c] \in {"written", "readline"} /\ pc[c] \in {"in_open", "write"}
        <5>1. ~Fifo!Broken("in")
          BY <3>1 DEF Fifo!Write
        <5> QED BY <2>1, <2>2, <5>1 DEF echo, write
      <4> QED BY <3>1, <4>1 DEF Unsent
    <3>2. CASE ~Fifo!Write("in", Request(c))
      BY <2>1, <2>2, <3>2 DEF echo, write, Finish, Unsent
    <3> QED BY <3>1, <3>2
  <2>3. CASE echo_close(c) \/ cat_open(c) \/ cat_eof(c) \/ close_in(c) \/ close_out(c) \/ kill(c)
    <3>1. pc'[c] \in {"cat", "reading", "closing_out", "idle"}
      BY <2>1, <2>3 DEF echo_close, cat_open, cat_eof, close_in, close_out, kill, Finish
    <3> QED BY <2>3, <3>1 DEF echo_close, cat_open, cat_eof, close_in, close_out, kill, Unsent
  <2>4. CASE cat_read(c)
    BY <2>4 DEF cat_read, Unsent
  <2>5. CASE open_pipes(c)
    BY <2>5 DEF open_pipes, Unsent
  <2>6. CASE readline(c)
    <3>1. pc'[c] = "closing"
      BY <2>1, <2>6 DEF readline
    <3> QED BY <2>6, <3>1 DEF readline, Unsent
  <2> QED BY <2>2, <2>3, <2>4, <2>5, <2>6 DEF Client
<1>6. CASE Fifo!Write("in", Request(c)) /\ Unsent(c) /\ ~Unsent(c)'
  <2>1. buf'["in"] = buf["in"] \o Request(c)
    BY <1>6 DEF TInv, FifoOK, Fifo!Write, Ends
  <2>2. Sends(c)
    BY <1>1, <1>3, <1>4, <1>6, <2>1 DEF Sends
  <2> QED BY <2>2, OrderSends
<1>7. CASE /\ \/ UNCHANGED fifoVars \/ Fifo!ReadAll("out") \/ Fifo!OpenRead("out", c)
              \/ \E F : Fifo!Close(F, c)
           /\ Unsent(c)' => Unsent(c)
  <2>1. buf'["in"] \in {buf["in"], <<>>}
    BY <1>7, InKept DEF TInv, Ends
  <2>2. ASSUME NEW d \in Clients PROVE Unsent(d)' => Unsent(d)
    BY <1>3, <1>7 DEF Unsent
  <2>3. Quiet
    BY <1>1, <1>4, <2>1, <2>2 DEF Quiet
  <2> QED BY <2>3, OrderQuiet
<1> QED BY <1>5, <1>6, <1>7

\* At the start nothing is on its way.
LEMMA OrderInit == Init => OInv
<1> SUFFICES ASSUME Init PROVE OInv
  OBVIOUS
<1>1. /\ log = <<>> /\ buf["in"] = <<>> /\ Job = <<>>
      /\ \A c \in Clients : DOMAIN asked[c] = {}
  BY DEF Init, Fifo!FifoInit, Job
<1> QED BY <1>1 DEF OInv, AllSent, NoneTwice, Ordered

\* Every step keeps the commands in order.
LEMMA OrderNext == TInv /\ OInv /\ [Next]_vars => OInv'
<1> SUFFICES ASSUME TInv, OInv, [Next]_vars PROVE OInv'
  OBVIOUS
<1>1. CASE UNCHANGED vars
  <2>1. Quiet
    BY <1>1 DEF vars, fifoVars, threadVars, clientVars, tableVars, Quiet, Job, Unsent
  <2> QED BY <2>1, OrderQuiet
<1> QED BY <1>1, OrderStartUp, OrderThread, OrderClient, OrderStart DEF Next

\* Whatever happens to the thread or to the clients, and however many there
\* are, rc_fifo_thread() executes the commands of a client in the order in
\* which it wrote them, and none of them twice.
THEOREM ExecutedInOrderCorrect == Spec => []ExecutedInOrder
<1>1. ASSUME TInv, OInv PROVE ExecutedInOrder
  <2> SUFFICES ASSUME NEW c \in Clients
               PROVE  /\ \A n \in DOMAIN asked[c] :
                            Cardinality(Executions(c, n)) <= Len(Chunks[asked[c][n]])
                      /\ \A m, n \in DOMAIN asked[c] : m < n =>
                            \A i \in Executions(c, m), j \in Executions(c, n) : i < j
    BY DEF ExecutedInOrder
  <2>1. ASSUME NEW n \in DOMAIN asked[c]
        PROVE  Cardinality(Executions(c, n)) <= Len(Chunks[asked[c][n]])
    <3> DEFINE k == <<c, n>>
    <3>1. Cardinality(Executions(c, n)) = Count(log, k)
      BY DEF Executions, Count
    <3>2. /\ Count(log, k) \in Nat /\ Count(Job, k) \in Nat /\ Count(buf["in"], k) \in Nat
      BY <1>1, WayCounts
    <3>3. Count(log, k) + Count(Job, k) + Count(buf["in"], k) <= Len(Chunks[asked[c][n]])
      BY <1>1 DEF OInv, NoneTwice
    <3>4. Len(Chunks[asked[c][n]]) \in Nat
      BY <1>1, WayTypes
    <3> HIDE DEF k
    <3> QED BY <3>1, <3>2, <3>3, <3>4
  <2>2. ASSUME NEW m \in DOMAIN asked[c], NEW n \in DOMAIN asked[c], m < n,
               NEW i \in Executions(c, m), NEW j \in Executions(c, n)
        PROVE  i < j
    <3>1. /\ i \in DOMAIN log /\ j \in DOMAIN log
          /\ log[i].by = <<c, m>> /\ log[j].by = <<c, n>>
      BY DEF Executions
    <3>2. i \in Nat /\ j \in Nat /\ m \in Nat /\ n \in Nat
      <4>1. log \in Seq(Entry) /\ asked[c] \in Seq(Lines)
        BY <1>1, WayTypes
      <4> QED BY <3>1, <4>1, LenProperties
    <3>3. j < i => Before(log[j].by, log[i].by)
      BY <1>1, <3>1 DEF OInv, Ordered
    <3>4. i # j /\ ~(j < i)
      BY <2>2, <3>1, <3>2, <3>3 DEF Before
    <3> QED BY <3>2, <3>4
  <2> QED BY <2>1, <2>2
<1> QED BY <1>1, OrderInit, OrderNext, TypeInvariance, PTL DEF Spec
------------------------------------------------------------------------------
(***************************************************************************)
(* fiu-ctrl never makes the thread write into a pipe that nobody reads.    *)
(***************************************************************************)
\* At the start the thread has no pipe open.
LEMMA HeardInit == Init => Heard
BY NotThread DEF Init, Heard, Fifo!FifoInit

\* A step of the thread.
LEMMA HeardThread == TInv /\ Heard /\ (Thread \/ interrupted) => Heard'
<1> SUFFICES ASSUME TInv, Heard, Thread \/ interrupted PROVE Heard'
  OBVIOUS
<1>1. /\ kills' = kills /\ UNCHANGED clientVars
      /\ \E where \in ThreadPlaces : Goto(RC, where)
  BY DEF Thread, reopen, open_out, read_line, read_eof, rc_do_command, reply, close_first,
         close_second, interrupted, faultVars, ThreadPlaces
<1>2. /\ \A where \in ThreadPlaces : Goto(RC, where) => pc'[RC] = where
      /\ \A c \in Clients : pc'[c] = pc[c]
  BY <1>1, ClientsSame DEF TInv
<1>3. /\ rd \in [Ends -> SUBSET Procs] /\ wr \in [Ends -> SUBSET Procs]
      /\ RC \in Procs
  BY DEF TInv, FifoOK, Procs
<1>4. ASSUME UNCHANGED <<rd, wr, waiting>>,
             NEW from \in {"serving", "execute", "reply", "closing", "closing_2nd"},
             NEW to \in {"serving", "execute", "reply", "closing", "closing_2nd"},
             pc[RC] = from, Goto(RC, to),
             to \in {"execute", "reply"} => <<"out", RC>> \notin waiting
      PROVE  Heard'
  BY <1>1, <1>2, <1>4 DEF Heard, ThreadPlaces
<1>5. CASE reopen
  <2>1. /\ rd'["out"] = rd["out"] /\ wr'["out"] = wr["out"]
        /\ <<"out", RC>> \in waiting' <=> <<"out", RC>> \in waiting
    BY <1>3, <1>5 DEF reopen, fifoVars, Fifo!OpenRead, Fifo!Rendezvous, Ends
  <2>2. pc[RC] = "reopen" /\ pc'[RC] \in {"ended", "in_open"}
    BY <1>2, <1>5 DEF reopen, ThreadPlaces
  <2> QED BY <1>1, <1>2, <2>1, <2>2 DEF Heard
<1>6. CASE open_out
  <2>1. /\ rd'["out"] = rd["out"] /\ wr'["out"] = wr["out"] \cup {RC}
        /\ <<"out", RC>> \notin waiting' => rd["out"] # {}
    BY <1>3, <1>6 DEF open_out, Fifo!OpenWrite, Fifo!Rendezvous, Ends
  <2>2. pc'[RC] = "serving"
    BY <1>2, <1>6 DEF open_out, ThreadPlaces
  <2> QED BY <1>1, <1>2, <2>1, <2>2 DEF Heard
<1>7. CASE read_line
  BY <1>4, <1>7 DEF read_line, Fifo!Opened, Fifo!ReadFirst
<1>8. CASE read_eof
  BY <1>4, <1>8 DEF read_eof, fifoVars
<1>9. CASE rc_do_command
  BY <1>4, <1>9 DEF rc_do_command, fifoVars, Heard
<1>10. CASE reply
  <2>1. ~Fifo!Broken("out")
    BY <1>10 DEF Heard, reply, Fifo!Broken
  <2> QED BY <1>4, <1>10, <2>1 DEF reply, Fifo!Write
<1>11. CASE close_first
  <2>1. /\ rd'["out"] = rd["out"] /\ wr'["out"] = wr["out"]
        /\ <<"out", RC>> \in waiting' <=> <<"out", RC>> \in waiting
    BY <1>3, <1>11 DEF close_first, FirstClosed, Fifo!Close, Ends
  <2>2. pc[RC] = "closing" /\ pc'[RC] = "closing_2nd"
    BY <1>2, <1>11 DEF close_first, ThreadPlaces
  <2> QED BY <1>1, <1>2, <2>1, <2>2 DEF Heard
<1>12. CASE close_second \/ (interrupted /\ Goto(RC, "ended"))
  <2>1. Fifo!Close({"out"}, RC) \/ Fifo!Close({"in", "out"}, RC)
    <3>1. CASE close_second
      BY <3>1 DEF close_second, SecondClosed, FirstClosed
    <3>2. CASE interrupted /\ Goto(RC, "ended")
      <4>1. pc'[RC] = "ended" /\ ~Goto(RC, "closing")
        BY <1>2, <3>2 DEF ThreadPlaces
      <4> QED BY <3>2, <4>1 DEF interrupted
    <3> QED BY <1>12, <3>1, <3>2
  <2>2. rd'["out"] = rd["out"] \ {RC} /\ wr'["out"] = wr["out"] \ {RC}
    BY <1>3, <2>1 DEF Fifo!Close
  <2>3. pc'[RC] \in {"reopen", "ended"}
    BY <1>2, <1>12 DEF close_second, ThreadPlaces
  <2> QED BY <1>1, <1>2, <2>2, <2>3 DEF Heard
<1>13. CASE interrupted /\ ~Goto(RC, "ended")
  BY <1>4, <1>13 DEF interrupted, fifoVars
<1> QED BY <1>5, <1>6, <1>7, <1>8, <1>9, <1>10, <1>11, <1>12, <1>13 DEF Thread

\* A step of a client, which is not killed.
LEMMA HeardClient ==
  ASSUME Patient, TInv, Heard, NEW c \in Clients,
         Client(c) \/ kill(c) \/ \E l \in Lines : start(c, l)
  PROVE  Heard'
<1>1. ~kill(c) /\ Kind[c] = "fiu_ctrl"
  BY DEF Patient, Heard, kill
<1>2. echo(c) \/ echo_close(c) \/ cat_open(c) \/ cat_read(c) \/ cat_eof(c)
      \/ \E l \in Lines : start(c, l)
  <2>1. ~open_pipes(c) /\ ~close_in(c) /\ ~close_out(c)
    BY <1>1 DEF open_pipes, close_in, close_out
  <2>2. ~write(c) /\ ~readline(c)
    BY DEF Heard, write, readline
  <2> QED BY <1>1, <2>1, <2>2 DEF Client
<1>3. kills' = kills
  BY <1>2 DEF echo, echo_close, cat_open, cat_read, cat_eof, start, faultVars
<1>4. pc' = pc \/ \E where \in {"idle", "in_open", "written", "cat", "reading"} : Goto(c, where)
  BY <1>2 DEF echo, echo_close, cat_open, cat_read, cat_eof, start, Finish
<1>5. /\ pc'[RC] = pc[RC]
      /\ \A d \in Clients : pc'[d] \in {"idle", "in_open", "written", "cat", "reading"}
  BY <1>4, NotThread DEF TInv, ClientsOK, Heard, Goto
<1>6. /\ rd \in [Ends -> SUBSET Procs] /\ wr \in [Ends -> SUBSET Procs]
      /\ c \in Procs /\ c # RC
  BY NotThread DEF TInv, FifoOK
<1>7. ASSUME wr'["out"] = wr["out"], rd["out"] \subseteq rd'["out"], RC \notin rd'["out"],
             rd'["out"] # {} \/ (<<"out", RC>> \in waiting <=> <<"out", RC>> \in waiting'),
             pc[RC] \in {"execute", "reply"} => <<"out", RC>> \notin waiting'
      PROVE  Heard'
  BY <1>3, <1>5, <1>7 DEF Heard
<1>8. CASE \E l \in Lines : start(c, l)
  <2>1. /\ rd' = rd /\ wr'["out"] = wr["out"]
        /\ <<"out", RC>> \in waiting' <=> <<"out", RC>> \in waiting
    BY <1>6, <1>8 DEF start, Fifo!OpenWrite, Fifo!Rendezvous, Ends
  <2> QED BY <1>7, <2>1 DEF Heard
<1>9. CASE echo(c) \/ echo_close(c)
  <2>1. Fifo!Write("in", Request(c)) \/ Fifo!Close({"in"}, c)
    BY <1>9 DEF echo, echo_close
  <2>2. /\ rd'["out"] = rd["out"] /\ wr'["out"] = wr["out"]
        /\ <<"out", RC>> \in waiting' <=> <<"out", RC>> \in waiting
    BY <1>6, <2>1 DEF Fifo!Close, Fifo!Write, Ends
  <2> QED BY <1>7, <2>2 DEF Heard
<1>10. CASE cat_open(c)
  <2>1. /\ wr' = wr /\ rd'["out"] = rd["out"] \cup {c}
        /\ <<"out", RC>> \in waiting' => <<"out", RC>> \in waiting
    BY <1>6, <1>10 DEF cat_open, Fifo!OpenRead, Fifo!Rendezvous, Ends
  <2> QED BY <1>6, <1>7, <2>1 DEF Heard
<1>11. CASE cat_read(c)
  BY <1>7, <1>11 DEF cat_read, Fifo!ReadAll, Heard
<1>12. CASE cat_eof(c)
  <2>1. /\ wr["out"] = {} /\ rd'["out"] = rd["out"] \ {c} /\ wr'["out"] = wr["out"] \ {c}
    BY <1>6, <1>12 DEF cat_eof, Fifo!AtEOF, Fifo!Close, Ends
  <2> QED BY <1>3, <1>5, <2>1 DEF Heard
<1> QED BY <1>2, <1>8, <1>9, <1>10, <1>11, <1>12

\* Every step keeps a reader for the thread.
LEMMA HeardNext == ASSUME Patient PROVE TInv /\ Heard /\ [Next]_vars => Heard'
<1> SUFFICES ASSUME TInv, Heard, [Next]_vars PROVE Heard'
  OBVIOUS
<1>1. CASE UNCHANGED vars
  BY <1>1 DEF vars, fifoVars, faultVars, Heard
<1>2. CASE fiu_run_init
  BY <1>2 DEF fiu_run_init, fifoVars, faultVars, Heard
<1> QED BY <1>1, <1>2, HeardThread, HeardClient DEF Next

\* However many clients use fiu-ctrl at once, and whatever signals come, the
\* thread's reply always has a reader, so that SIGPIPE never ends the process:
\* cat opens the pipe before the thread goes on and leaves it only when the
\* thread has closed it.  The hypothesis is needed: PipeControl closes the pipe
\* when it has one line, and a client that is killed closes it at any time.
THEOREM ProcessSurvivesCorrect ==
  ASSUME Patient
  PROVE  Spec => []ProcessSurvives
<1>1. Heard => ProcessSurvives
  BY DEF Heard, ProcessSurvives, ProcessAlive
<1> QED BY <1>1, HeardInit, HeardNext, TypeInvariance, PTL DEF Spec
------------------------------------------------------------------------------
(***************************************************************************)
(* A single user of fiu-ctrl: the thread and the client keep in step.      *)
(***************************************************************************)
Alone ==
    /\ \A c, d \in Clients : c = d
    /\ \A c \in Clients : Kind[c] = "fiu_ctrl"
    /\ MaxKills = 0

\* Who has which end open.
Holding(c) ==
    /\ rd["in"] = IF pc[RC] \in {"in_open", "serving", "execute", "reply", "closing"}
                  THEN {RC} ELSE {}
    /\ wr["in"] = IF pc[c] \in {"in_open", "written"} THEN {c} ELSE {}
    /\ rd["out"] = IF pc[c] = "reading" THEN {c} ELSE {}
    /\ wr["out"] = IF pc[RC] \in {"serving", "execute", "reply", "closing", "closing_2nd"}
                   THEN {RC} ELSE {}
    /\ <<"in", RC>> \in waiting => pc[RC] = "in_open"
    /\ <<"out", RC>> \in waiting => pc[RC] = "serving"
    /\ <<"in", c>> \in waiting => pc[c] = "in_open"
    /\ <<"out", c>> \in waiting => pc[c] = "reading"

\* The thread waits for a client, has met one and waits for it to read, or
\* works on the command of one that reads.
Away == pc[RC] = "reopen" \/ (pc[RC] = "in_open" /\ <<"in", RC>> \in waiting)
Met  == \/ pc[RC] = "in_open" /\ <<"in", RC>> \notin waiting
        \/ pc[RC] = "serving" /\ <<"out", RC>> \in waiting
Busy == /\ pc[RC] \in {"serving", "execute", "reply", "closing", "closing_2nd"}
        /\ <<"out", RC>> \notin waiting

\* The client has written and is not being listened to yet.
Early(c) == pc[c] \in {"written", "cat"} \/ (pc[c] = "reading" /\ <<"out", c>> \in waiting)
Late(c)  == pc[c] = "reading" /\ <<"out", c>> \notin waiting

Turns(c) ==
    /\ pc[c] \in {"idle", "in_open", "written", "cat", "reading"}
    /\ pc[RC] # "dead"
    /\ pc[RC] = "ended" \/
         /\ pc[c] = "idle" => Away
         /\ pc[c] = "in_open" => IF <<"in", c>> \in waiting THEN pc[RC] = "reopen" ELSE Met
         /\ Early(c) => Met /\ (pc[c] = "reading" => pc[RC] = "in_open")
         /\ Late(c) => Busy \/ Away

\* What is in the pipes.
Contents(c) ==
    /\ pc[c] \in {"idle", "in_open"} \/ Away => buf["in"] = <<>>
    /\ ~Late(c) => buf["out"] = <<>> /\ replies[c] = <<>>
    /\ Early(c) /\ pc[RC] # "ended" => buf["in"] = Request(c)
    /\ Late(c) /\ pc[RC] \in {"closing_2nd", "ended"} => buf["in"] = <<>>

\* The command that the client has in progress, and what came of it.
Line(c) == asked[c][Len(asked[c])]

Holds(l) == LET call == Parse(Chunks[l][1])
            IN  points[call.name] = IF call.op = "disable" THEN NULL ELSE call

Found(c, n, r) == \E i \in Executions(c, n) : log[i].r = r

Pending(c) ==
    /\ replies[c] = <<>> /\ buf["out"] = <<>>
    /\ \/ pc[RC] = "serving" /\ buf["in"] = Request(c)
       \/ pc[RC] = "execute" /\ buf["in"] = <<>> /\ job = Request(c)[1]

Answered(c) == \E r \in Results :
    /\ Found(c, Len(asked[c]), r)
    /\ r = 0 /\ Presets = <<>> => Holds(Line(c))
    /\ buf["in"] = <<>>
    /\ \/ pc[RC] = "reply" /\ result = r /\ replies[c] = <<>> /\ buf["out"] = <<>>
       \/ pc[RC] \notin {"execute", "reply"} /\ replies[c] \o buf["out"] = <<r>>

Current(c) == Late(c) /\ OneCommand(Line(c)) => Pending(c) \/ Answered(c)

\* The commands that are over.
Past(c) ==
    /\ DOMAIN points = Names
    /\ Serving => \A n \in DOMAIN outcome[c] : outcome[c][n] # "broken"
    /\ \A n \in DOMAIN outcome[c] :
          OneCommand(asked[c][n]) /\ outcome[c][n] \in {"ok", "error"}
          => Found(c, n, IF outcome[c][n] = "ok" THEN 0 ELSE -1)
    /\ LET n == Len(outcome[c])
       IN  (/\ n > 0 /\ pc[c] = "idle"
            /\ OneCommand(asked[c][n]) /\ outcome[c][n] = "ok" /\ Presets = <<>>)
           => Holds(asked[c][n])

InStep(c) == Holding(c) /\ Turns(c) /\ Contents(c) /\ Current(c) /\ Past(c)

\* Nothing is executed and no command ends.
LEMMA PastKept ==
  ASSUME NEW c \in Clients, Past(c), UNCHANGED <<points, log, outcome>>,
         asked'[c] = asked[c]
            \/ \A n \in DOMAIN outcome[c] : asked'[c][n] = asked[c][n],
         pc'[c] = "idle" => pc[c] = "idle" /\ asked' = asked,
         Serving' => Serving
  PROVE  Past(c)'
<1>1. \A n \in DOMAIN outcome[c] : asked'[c][n] = asked[c][n]
  OBVIOUS
<1>2. outcome[c] = outcome'[c] /\ Serving' => Serving
  OBVIOUS
<1> QED BY <1>1, <1>2 DEF Past, Found, Executions, Holds

\* The thread and the client in a step of the thread.
LEMMA ThreadMoves ==
  ASSUME TInv, NEW c \in Clients, NEW where \in ThreadPlaces, Goto(RC, where),
         UNCHANGED clientVars
  PROVE  pc'[RC] = where /\ pc'[c] = pc[c] /\ Request(c)' = Request(c)
         /\ UNCHANGED <<replies, asked, outcome>>
<1>1. pc'[RC] = where /\ pc'[c] = pc[c]
  BY ClientsSame DEF TInv
<1>2. UNCHANGED <<replies, asked, outcome>>
  BY DEF clientVars
<1> QED BY <1>1, <1>2 DEF Request

\* The ends as the functions they are.
LEMMA EndsTypes ==
  ASSUME TInv
  PROVE  /\ rd \in [Ends -> SUBSET Procs] /\ wr \in [Ends -> SUBSET Procs]
         /\ DOMAIN buf = Ends /\ buf["in"] \in Seq(Item) /\ buf["out"] \in Seq(Results)
         /\ RC \in Procs /\ \A c \in Clients : c \in Procs /\ c # RC
BY NotThread DEF TInv, FifoOK, Procs

\* The thread opens the pipe of commands, or gives up.
LEMMA StepReopen ==
  ASSUME TInv, NEW c \in Clients, InStep(c), reopen
  PROVE  InStep(c)'
<1>1. PICK where \in {"ended", "in_open"} :
         /\ Goto(RC, where) /\ pc[RC] = "reopen"
         /\ where = "ended" => UNCHANGED fifoVars
         /\ where = "in_open" => Fifo!OpenRead("in", RC)
         /\ UNCHANGED <<threadVars, clientVars, tableVars>>
  BY DEF reopen
<1>2. /\ pc'[RC] = where /\ pc'[c] = pc[c] /\ Request(c)' = Request(c)
      /\ UNCHANGED <<replies, asked, outcome, points, log, job, result>>
  BY <1>1, ThreadMoves DEF ThreadPlaces, tableVars, threadVars
<1>3. Holding(c) /\ Turns(c) /\ Contents(c) /\ Current(c) /\ Past(c)
  BY DEF InStep
<1>4. /\ buf' = buf /\ wr' = wr /\ rd'["out"] = rd["out"]
      /\ rd'["in"] = IF where = "in_open" THEN {RC} ELSE {}
      /\ <<"out", RC>> \in waiting' <=> <<"out", RC>> \in waiting
      /\ <<"out", c>> \in waiting' <=> <<"out", c>> \in waiting
      /\ <<"in", RC>> \in waiting' <=> where = "in_open" /\ pc[c] \notin {"in_open", "written"}
      /\ <<"in", c>> \in waiting' <=> where = "ended" /\ <<"in", c>> \in waiting
  <2>1. CASE where = "ended"
    BY <1>1, <1>3, <2>1 DEF fifoVars, Holding
  <2>2. CASE where = "in_open"
    BY <1>1, <1>3, <2>2, EndsTypes DEF Holding, Fifo!OpenRead, Fifo!Rendezvous, Ends
  <2> QED BY <2>1, <2>2
<1>5. Holding(c)'
  BY <1>1, <1>2, <1>3, <1>4 DEF Holding
<1>6. Turns(c)'
  BY <1>1, <1>2, <1>3, <1>4 DEF Turns, Away, Met, Early, Late, Busy
<1>7. Contents(c)'
  BY <1>1, <1>2, <1>3, <1>4 DEF Contents, Away, Early, Late, Turns, Met
<1>8. Current(c)'
  BY <1>1, <1>2, <1>3, <1>4 DEF Current, Late, Line, Pending, Answered, Found, Executions, Holds
<1>9. Past(c)'
  BY <1>1, <1>2, <1>3, PastKept DEF Serving
<1> QED BY <1>5, <1>6, <1>7, <1>8, <1>9 DEF InStep

\* It opens the pipe of replies: a client that is there already is listening now.
LEMMA StepOpenOut ==
  ASSUME TInv, NEW c \in Clients, InStep(c), open_out
  PROVE  InStep(c)'
<1>1. /\ Goto(RC, "serving") /\ pc[RC] = "in_open" /\ <<"in", RC>> \notin waiting
      /\ Fifo!OpenWrite("out", RC)
      /\ UNCHANGED <<threadVars, clientVars, tableVars>>
  BY DEF open_out, Fifo!Opened
<1>2. /\ pc'[RC] = "serving" /\ pc'[c] = pc[c] /\ Request(c)' = Request(c)
      /\ UNCHANGED <<replies, asked, outcome, points, log, job, result>>
  BY <1>1, ThreadMoves DEF ThreadPlaces, tableVars, threadVars
<1>3. Holding(c) /\ Turns(c) /\ Contents(c) /\ Current(c) /\ Past(c)
  BY DEF InStep
<1>4. /\ buf' = buf /\ rd' = rd /\ wr'["in"] = wr["in"] /\ wr'["out"] = {RC}
      /\ <<"in", RC>> \notin waiting'
      /\ <<"in", c>> \in waiting' <=> <<"in", c>> \in waiting
      /\ <<"out", RC>> \in waiting' <=> pc[c] # "reading"
      /\ <<"out", c>> \notin waiting'
  <2>1. pc[c] = "reading" => rd["out"] = {c}
    BY <1>3 DEF Holding
  <2>2. pc[c] # "reading" => rd["out"] = {} /\ <<"out", c>> \notin waiting
    BY <1>3 DEF Holding
  <2>3. /\ buf' = buf /\ rd' = rd /\ wr' = [wr EXCEPT !["out"] = @ \cup {RC}]
        /\ waiting' = (waiting \ ({"out"} \X rd["out"]))
                         \cup (IF rd["out"] = {} THEN {<<"out", RC>>} ELSE {})
    BY <1>1 DEF Fifo!OpenWrite, Fifo!Rendezvous
  <2>4. wr["out"] = {} /\ <<"out", RC>> \notin waiting
    BY <1>1, <1>3 DEF Holding
  <2> QED BY <1>1, <2>1, <2>2, <2>3, <2>4, EndsTypes DEF Ends
<1>5. Holding(c)'
  BY <1>1, <1>2, <1>3, <1>4 DEF Holding
<1>6. Turns(c)'
  BY <1>1, <1>2, <1>3, <1>4 DEF Turns, Away, Met, Early, Late, Busy
<1>7. Contents(c)'
  BY <1>1, <1>2, <1>3, <1>4 DEF Contents, Away, Early, Late, Turns, Met
<1>8. Current(c)'
  BY <1>1, <1>2, <1>3, <1>4
     DEF Current, Late, Early, Line, Pending, Turns, Away, Busy, Contents
<1>9. Past(c)'
  BY <1>1, <1>2, <1>3, PastKept DEF Serving
<1> QED BY <1>5, <1>6, <1>7, <1>8, <1>9 DEF InStep

\* While the thread is at work the client is listening.
LEMMA AtWork ==
  ASSUME NEW c \in Clients, InStep(c),
         \/ pc[RC] \in {"execute", "reply", "closing", "closing_2nd"}
         \/ pc[RC] = "serving" /\ <<"out", RC>> \notin waiting
  PROVE  Late(c) /\ <<"out", RC>> \notin waiting
BY DEF InStep, Turns, Holding, Away, Met, Early, Late, Busy

\* What a command in progress of one line is.
LEMMA RequestOfOne ==
  ASSUME TInv, NEW c \in Clients, pc[c] # "idle", OneCommand(Line(c))
  PROVE  /\ Len(Request(c)) = 1 /\ Request(c) = <<Request(c)[1]>>
         /\ Request(c) # <<>>
         /\ Head(Request(c)) = Request(c)[1] /\ Tail(Request(c)) = <<>>
         /\ Request(c)[1].by = <<c, Len(asked[c])>>
         /\ Request(c)[1].chunk = Chunks[Line(c)][1]
         /\ Chunks[Line(c)][1] # NULL
<1> DEFINE R == Request(c)
<1>1. /\ R \in Seq(Item) /\ Len(R) = Len(Chunks[Line(c)])
      /\ \A i \in DOMAIN R : R[i].by = <<c, Len(asked[c])>>
                             /\ R[i].chunk = Chunks[Line(c)][i]
  BY RequestType DEF TInv, Line
<1>2. Len(Chunks[Line(c)]) = 1 /\ Chunks[Line(c)][1] # NULL
  BY DEF OneCommand
<1> HIDE DEF R
<1>3. 1 \in DOMAIN R /\ R # <<>> /\ Head(R) = R[1] /\ Tail(R) = <<>> /\ R = <<R[1]>>
  <2>1. R \in Seq(Item) /\ Len(R) = 1 /\ DOMAIN R = 1..1
    BY <1>1, <1>2
  <2>2. 1 \in DOMAIN R /\ R # <<>> /\ Head(R) = R[1] /\ R[1] \in Item
    BY ONLY <2>1
  <2>3. Tail(R) \in Seq(Item) /\ Len(Tail(R)) = 0
    BY ONLY <2>1, <2>2, HeadTailProperties
  <2>4. Tail(R) = <<>>
    BY ONLY <2>3, EmptySeq
  <2>5. R = <<R[1]>>
    <3> DEFINE t == <<R[1]>>
    <3>1. t \in Seq(Item) /\ Len(t) = 1 /\ t[1] = R[1]
      BY <2>2
    <3> HIDE DEF t
    <3>2. R = t
      BY ONLY <2>1, <3>1, SeqEqual
    <3> QED BY <3>2 DEF t
  <2> QED BY <2>2, <2>4, <2>5
<1> QED BY <1>1, <1>2, <1>3 DEF R

\* It takes the command of the client that listens.
LEMMA StepReadLine ==
  ASSUME TInv, NEW c \in Clients, InStep(c), read_line
  PROVE  InStep(c)'
<1>1. PICK where \in {"closing", "execute"} :
         /\ Goto(RC, where) /\ pc[RC] = "serving" /\ <<"out", RC>> \notin waiting
         /\ buf["in"] # <<>> /\ buf' = [buf EXCEPT !["in"] = Tail(@)]
         /\ UNCHANGED <<rd, wr, waiting>>
         /\ where = "closing" => Head(buf["in"]).chunk = NULL
         /\ where = "execute" => job' = Head(buf["in"])
         /\ UNCHANGED <<result, clientVars, tableVars>>
  BY DEF read_line, Fifo!Opened, Fifo!ReadFirst
<1>2. /\ pc'[RC] = where /\ pc'[c] = pc[c] /\ Request(c)' = Request(c)
      /\ UNCHANGED <<replies, asked, outcome, points, log, result>>
  BY <1>1, ThreadMoves DEF ThreadPlaces, tableVars
<1>3. Holding(c) /\ Turns(c) /\ Contents(c) /\ Current(c) /\ Past(c)
  BY DEF InStep
<1>4. Late(c) /\ pc[c] = "reading" /\ <<"out", c>> \notin waiting
  BY <1>1, AtWork DEF Late
<1>5. buf'["in"] = Tail(buf["in"]) /\ buf'["out"] = buf["out"]
  BY <1>1, EndsTypes DEF Ends
<1>6. Holding(c)'
  BY <1>1, <1>2, <1>3 DEF Holding
<1>7. Turns(c)'
  BY <1>1, <1>2, <1>3, <1>4 DEF Turns, Away, Met, Early, Late, Busy
<1>8. Contents(c)'
  BY <1>1, <1>2, <1>3, <1>4, <1>5 DEF Contents, Away, Early, Late
<1>9. Current(c)'
  <2>1. CASE ~OneCommand(Line(c))
    BY <1>2, <2>1 DEF Current, Line
  <2>2. CASE OneCommand(Line(c))
    <3>1. Pending(c) /\ buf["in"] = Request(c)
      BY <1>1, <1>3, <1>4, <2>2 DEF Current, Pending, Answered
    <3>2. /\ Head(Request(c)) = Request(c)[1] /\ Tail(Request(c)) = <<>>
          /\ Request(c)[1].chunk # NULL
      BY <1>4, <2>2, RequestOfOne
    <3>3. where = "execute"
      BY <1>1, <3>1, <3>2
    <3>4. Pending(c)'
      BY <1>1, <1>2, <1>5, <3>1, <3>2, <3>3 DEF Pending
    <3> QED BY <3>4 DEF Current
  <2> QED BY <2>1, <2>2
<1>10. Past(c)'
  BY <1>1, <1>2, <1>3, PastKept DEF Serving
<1> QED BY <1>6, <1>7, <1>8, <1>9, <1>10 DEF InStep

\* It finds the end of the commands, after it has answered.
LEMMA StepReadEof ==
  ASSUME TInv, NEW c \in Clients, InStep(c), read_eof
  PROVE  InStep(c)'
<1>1. /\ Goto(RC, "closing") /\ pc[RC] = "serving" /\ <<"out", RC>> \notin waiting
      /\ buf["in"] = <<>> /\ UNCHANGED fifoVars
      /\ UNCHANGED <<threadVars, clientVars, tableVars>>
  BY DEF read_eof, Fifo!Opened, Fifo!AtEOF
<1>2. /\ pc'[RC] = "closing" /\ pc'[c] = pc[c] /\ Request(c)' = Request(c)
      /\ UNCHANGED <<replies, asked, outcome, points, log, job, result>>
  BY <1>1, ThreadMoves DEF ThreadPlaces, tableVars, threadVars
<1>3. Holding(c) /\ Turns(c) /\ Contents(c) /\ Current(c) /\ Past(c)
  BY DEF InStep
<1>4. Late(c) /\ pc[c] = "reading" /\ <<"out", c>> \notin waiting
  BY <1>1, AtWork DEF Late
<1>5. Holding(c)'
  BY <1>1, <1>2, <1>3 DEF Holding, fifoVars
<1>6. Turns(c)'
  BY <1>1, <1>2, <1>3, <1>4 DEF Turns, Away, Met, Early, Late, Busy, fifoVars
<1>7. Contents(c)'
  BY <1>1, <1>2, <1>3, <1>4 DEF Contents, Away, Early, Late, fifoVars
<1>8. Current(c)'
  <2>1. CASE ~OneCommand(Line(c))
    BY <1>2, <2>1 DEF Current, Line
  <2>2. CASE OneCommand(Line(c))
    <3>1. Request(c) # <<>>
      BY <1>4, <2>2, RequestOfOne
    <3>2. Answered(c)
      BY <1>1, <1>3, <1>4, <2>2, <3>1 DEF Current, Pending
    <3>3. Answered(c)'
      BY <1>1, <1>2, <3>2 DEF Answered, Found, Executions, Holds, Line, fifoVars
    <3> QED BY <3>3 DEF Current
  <2> QED BY <2>1, <2>2
<1>9. Past(c)'
  BY <1>1, <1>2, <1>3, PastKept DEF Serving
<1> QED BY <1>5, <1>6, <1>7, <1>8, <1>9 DEF InStep

\* Executing a command adds to the log and leaves what was found in it.
LEMMA FoundGrows ==
  ASSUME TInv, NEW c \in Clients, NEW cmd, NEW by \in (Clients \cup {"FIU_ENABLE"}) \X Nat,
         Execute(cmd, by)
  PROVE  /\ \A n, r : Found(c, n, r) => Found(c, n, r)'
         /\ \A n, r : by = <<c, n>> /\ r = fiu_rc_string(points, cmd) => Found(c, n, r)'
         /\ DOMAIN points' = DOMAIN points
<1> DEFINE e == [by |-> by, r |-> fiu_rc_string(points, cmd)]
<1>1. log' = Append(log, e) /\ points' = PointsAfter(points, cmd)
  BY DEF Execute
<1>2. log \in Seq(Entry) /\ e \in Entry /\ e.by = by /\ e.r = fiu_rc_string(points, cmd)
  BY AnswerType, WayTypes DEF Entry
<1> HIDE DEF e
<1>3. /\ Len(log) \in Nat /\ DOMAIN log = 1..Len(log) /\ DOMAIN log' = 1..(Len(log) + 1)
      /\ \A i \in DOMAIN log : i \in DOMAIN log' /\ log'[i] = log[i]
      /\ Len(log) + 1 \in DOMAIN log' /\ log'[Len(log) + 1] = e
  BY <1>1, <1>2, LenProperties, AppendProperties
<1>4. ASSUME NEW n, NEW r, Found(c, n, r) PROVE Found(c, n, r)'
  BY <1>3, <1>4 DEF Found, Executions
<1>5. ASSUME NEW n, NEW r, by = <<c, n>>, r = fiu_rc_string(points, cmd)
      PROVE  Found(c, n, r)'
  BY <1>2, <1>3, <1>5 DEF Found, Executions
<1>6. DOMAIN points' = DOMAIN points
  BY <1>1 DEF PointsAfter
<1> QED BY <1>4, <1>5, <1>6

\* It executes the command.
LEMMA StepExecute ==
  ASSUME TInv, NEW c \in Clients, InStep(c), rc_do_command
  PROVE  InStep(c)'
<1> DEFINE r == fiu_rc_string(points, job.chunk)
<1>1. /\ Goto(RC, "reply") /\ pc[RC] = "execute" /\ UNCHANGED fifoVars
      /\ Execute(job.chunk, job.by) /\ result' = r
      /\ UNCHANGED clientVars
  BY DEF rc_do_command
<1>2. /\ pc'[RC] = "reply" /\ pc'[c] = pc[c] /\ Request(c)' = Request(c)
      /\ UNCHANGED <<replies, asked, outcome>>
  BY <1>1, ThreadMoves DEF ThreadPlaces
<1>3. Holding(c) /\ Turns(c) /\ Contents(c) /\ Current(c) /\ Past(c)
  BY DEF InStep
<1>4. Late(c) /\ pc[c] = "reading" /\ <<"out", c>> \notin waiting
      /\ <<"out", RC>> \notin waiting
  BY <1>1, AtWork DEF Late
<1>5. job \in Item /\ job.by \in (Clients \cup {"FIU_ENABLE"}) \X Nat
  BY <1>1 DEF TInv, ThreadOK, Item
<1>6. /\ \A n, s : Found(c, n, s) => Found(c, n, s)'
      /\ \A n, s : job.by = <<c, n>> /\ s = r => Found(c, n, s)'
      /\ DOMAIN points' = DOMAIN points
  BY <1>1, <1>5, FoundGrows
<1>7. Holding(c)'
  BY <1>1, <1>2, <1>3 DEF Holding, fifoVars
<1>8. Turns(c)'
  BY <1>1, <1>2, <1>3, <1>4 DEF Turns, Away, Met, Early, Late, Busy, fifoVars
<1>9. Contents(c)'
  BY <1>1, <1>2, <1>3, <1>4 DEF Contents, Away, Early, Late, fifoVars
<1>10. Current(c)'
  <2>1. CASE ~OneCommand(Line(c))
    BY <1>2, <2>1 DEF Current, Line
  <2>2. CASE OneCommand(Line(c))
    <3>1. Pending(c) /\ job = Request(c)[1] /\ buf["in"] = <<>>
      BY <1>1, <1>3, <1>4, <2>2 DEF Current, Pending, Answered
    <3>2. /\ job.by = <<c, Len(asked[c])>> /\ job.chunk = Chunks[Line(c)][1]
          /\ job.chunk # NULL
      BY <1>4, <2>2, <3>1, RequestOfOne
    <3>3. r \in Results
      BY AnswerType
    <3>4. ASSUME r = 0 PROVE Holds(Line(c))'
      <4> DEFINE call == Parse(job.chunk)
      <4>1. call # NULL /\ points' = PointsAfter(points, job.chunk)
        BY <1>1, <3>4 DEF fiu_rc_string, Execute
      <4>2. call.name \in Names
        <5>1. asked[c] \in Seq(Lines) /\ Len(asked[c]) \in DOMAIN asked[c]
          BY <1>4, RequestType DEF TInv, ClientsOK
        <5>2. Line(c) \in Lines /\ 1 \in DOMAIN Chunks[Line(c)]
          <6>1. Line(c) \in Lines
            BY <5>1 DEF Line
          <6>2. Len(Chunks[Line(c)]) = 1
            BY <2>2 DEF OneCommand
          <6>3. Chunks[Line(c)] \in Seq({Chunks[Line(c)][i] : i \in DOMAIN Chunks[Line(c)]})
            BY <6>1
          <6> QED BY <6>1, <6>2, <6>3
        <5> QED BY <3>2, <4>1, <5>2
      <4>3. points' = [points EXCEPT ![call.name] =
                          IF call.op = "disable" THEN NULL ELSE call]
        BY <3>4, <4>1 DEF PointsAfter
      <4>4. points'[call.name] = IF call.op = "disable" THEN NULL ELSE call
        BY <1>3, <4>2, <4>3 DEF Past
      <4> QED BY <1>2, <3>2, <4>4 DEF Holds, Line
    <3>5. PICK s \in Results : s = r
      BY <3>3
    <3>6. PICK n : n = Len(asked[c])
      OBVIOUS
    <3>7. Found(c, n, s)'
      BY <1>6, <3>2, <3>5, <3>6
    <3>8. replies[c] = <<>> /\ buf["out"] = <<>>
      BY <3>1 DEF Pending
    <3>9. Answered(c)'
      BY <1>1, <1>2, <3>1, <3>4, <3>5, <3>6, <3>7, <3>8
         DEF Answered, Found, Executions, fifoVars
    <3> QED BY <3>9 DEF Current
  <2> QED BY <2>1, <2>2
<1>11. Past(c)'
  <2>1. /\ DOMAIN points' = Names /\ pc'[c] # "idle" /\ Serving
        /\ UNCHANGED <<asked, outcome>>
    BY <1>1, <1>2, <1>3, <1>4, <1>6 DEF Past, Serving
  <2>2. \A n \in DOMAIN outcome[c] :
           OneCommand(asked[c][n]) /\ outcome[c][n] \in {"ok", "error"}
           => Found(c, n, IF outcome[c][n] = "ok" THEN 0 ELSE -1)
    BY <1>3 DEF Past
  <2>3. \A n \in DOMAIN outcome[c] : OneCommand(asked[c][n]) =>
           /\ outcome[c][n] = "ok" => Found(c, n, 0)'
           /\ outcome[c][n] = "error" => Found(c, n, -1)'
    BY <1>6, <2>2
  <2> QED BY <1>3, <2>1, <2>3 DEF Past, Found, Executions, Serving
<1> QED BY <1>7, <1>8, <1>9, <1>10, <1>11 DEF InStep

\* It replies to the client that listens.
LEMMA StepReply ==
  ASSUME TInv, NEW c \in Clients, InStep(c), reply
  PROVE  InStep(c)'
<1>1. Holding(c) /\ Turns(c) /\ Contents(c) /\ Current(c) /\ Past(c) /\ pc[RC] = "reply"
  BY DEF InStep, reply
<1>2. Late(c) /\ pc[c] = "reading" /\ <<"out", c>> \notin waiting
      /\ <<"out", RC>> \notin waiting
  BY <1>1, AtWork DEF Late
<1>3. ~Fifo!Broken("out")
  BY <1>1, <1>2 DEF Holding, Fifo!Broken
<1>4. /\ Goto(RC, "serving")
      /\ buf' = [buf EXCEPT !["out"] = @ \o <<result>>] /\ UNCHANGED <<rd, wr, waiting>>
      /\ UNCHANGED <<clientVars, tableVars>>
  BY <1>3 DEF reply, Fifo!Write
<1>5. /\ pc'[RC] = "serving" /\ pc'[c] = pc[c] /\ Request(c)' = Request(c)
      /\ UNCHANGED <<replies, asked, outcome, points, log>>
  BY <1>4, ThreadMoves DEF ThreadPlaces, tableVars
<1>6. buf'["in"] = buf["in"] /\ buf'["out"] = buf["out"] \o <<result>>
  BY <1>4, EndsTypes DEF Ends
<1>7. Holding(c)'
  BY <1>1, <1>4, <1>5 DEF Holding
<1>8. Turns(c)'
  BY <1>2, <1>4, <1>5, <1>1 DEF Turns, Away, Met, Early, Late, Busy
<1>9. Contents(c)'
  BY <1>1, <1>2, <1>4, <1>5, <1>6 DEF Contents, Away, Early, Late
<1>10. Current(c)'
  <2>1. CASE ~OneCommand(Line(c))
    BY <1>5, <2>1 DEF Current, Line
  <2>2. CASE OneCommand(Line(c))
    <3>1. Answered(c)
      BY <1>1, <1>2, <2>2 DEF Current, Pending
    <3>2. PICK s \in Results :
             /\ Found(c, Len(asked[c]), s)
             /\ s = 0 /\ Presets = <<>> => Holds(Line(c))
             /\ buf["in"] = <<>>
             /\ result = s /\ replies[c] = <<>> /\ buf["out"] = <<>>
      BY <1>1, <3>1 DEF Answered
    <3>3. <<>> \o (<<>> \o <<s>>) = <<s>>
      OBVIOUS
    <3>4. replies'[c] \o buf'["out"] = <<s>>
      BY <1>5, <1>6, <3>2, <3>3
    <3>5. Answered(c)'
      BY <1>5, <1>6, <3>2, <3>4 DEF Answered, Found, Executions, Holds, Line
    <3> QED BY <3>5 DEF Current
  <2> QED BY <2>1, <2>2
<1>11. Past(c)'
  BY <1>1, <1>5, PastKept DEF Serving
<1> QED BY <1>7, <1>8, <1>9, <1>10, <1>11 DEF InStep

\* It closes the pipes and leaves its reply to the client.
LEMMA StepClose ==
  ASSUME TInv, NEW c \in Clients, InStep(c), close_first \/ close_second
  PROVE  InStep(c)'
<1>1. Holding(c) /\ Turns(c) /\ Contents(c) /\ Current(c) /\ Past(c)
      /\ pc[RC] \in {"closing", "closing_2nd"}
  BY DEF InStep, close_first, close_second
<1>2. Late(c) /\ pc[c] = "reading" /\ <<"out", c>> \notin waiting
      /\ <<"out", RC>> \notin waiting
  BY <1>1, AtWork DEF Late
<1>3. PICK where \in {"closing_2nd", "reopen"} :
         /\ Goto(RC, where)
         /\ UNCHANGED <<threadVars, clientVars, tableVars>>
         /\ \/ where = "closing_2nd" /\ pc[RC] = "closing" /\ Fifo!Close({"in"}, RC)
            \/ where = "reopen" /\ pc[RC] = "closing_2nd" /\ Fifo!Close({"out"}, RC)
  BY DEF close_first, close_second, FirstClosed, SecondClosed
<1>4. /\ pc'[RC] = where /\ pc'[c] = pc[c] /\ Request(c)' = Request(c)
      /\ UNCHANGED <<replies, asked, outcome, points, log, job, result>>
  BY <1>3, ThreadMoves DEF ThreadPlaces, tableVars, threadVars
<1>5. /\ rd'["in"] = {} /\ wr'["in"] = {} /\ rd'["out"] = {c}
      /\ wr'["out"] = IF where = "reopen" THEN {} ELSE {RC}
      /\ waiting' \subseteq waiting
  <2>1. /\ rd["in"] = IF where = "reopen" THEN {} ELSE {RC}
        /\ wr["in"] = {} /\ rd["out"] = {c} /\ wr["out"] = {RC}
    BY <1>1, <1>2, <1>3 DEF Holding
  <2>2. c # RC
    BY NotThread
  <2> QED BY <1>3, <2>1, <2>2 DEF Fifo!Close
<1>6. buf'["in"] = <<>> /\ buf'["out"] = buf["out"]
  <2>1. buf' = [f \in {"in", "out"} |-> IF rd'[f] \cup wr'[f] = {} THEN <<>> ELSE buf[f]]
    BY <1>3 DEF Fifo!Close
  <2>2. rd'["in"] \cup wr'["in"] = {} /\ rd'["out"] \cup wr'["out"] # {}
    BY <1>5
  <2> QED BY ONLY <2>1, <2>2
<1>7. Holding(c)'
  BY <1>1, <1>2, <1>3, <1>4, <1>5 DEF Holding
<1>8. Turns(c)'
  BY <1>1, <1>2, <1>3, <1>4, <1>5 DEF Turns, Away, Met, Early, Late, Busy
<1>9. Contents(c)'
  BY <1>1, <1>2, <1>3, <1>4, <1>5, <1>6 DEF Contents, Away, Early, Late
<1>10. Current(c)'
  <2>1. CASE ~OneCommand(Line(c))
    BY <1>4, <2>1 DEF Current, Line
  <2>2. CASE OneCommand(Line(c))
    <3>1. Answered(c)
      BY <1>1, <1>2, <2>2 DEF Current, Pending
    <3>2. Answered(c)'
      BY <1>1, <1>3, <1>4, <1>6, <3>1 DEF Answered, Found, Executions, Holds, Line
    <3> QED BY <3>2 DEF Current
  <2> QED BY <2>1, <2>2
<1>11. Past(c)'
  BY <1>1, <1>4, PastKept DEF Serving
<1> QED BY <1>7, <1>8, <1>9, <1>10, <1>11 DEF InStep

\* A signal ends the thread only when it waits in open().
LEMMA StepInterrupted ==
  ASSUME TInv, NEW c \in Clients, InStep(c), interrupted
  PROVE  InStep(c)'
<1>1. Holding(c) /\ Turns(c) /\ Contents(c) /\ Current(c) /\ Past(c)
  BY DEF InStep
<1>2. ~(pc[RC] = "serving" /\ Fifo!Opened("out", RC) /\ Fifo!Blocked("in"))
  <2> SUFFICES ASSUME pc[RC] = "serving", Fifo!Opened("out", RC), Fifo!Blocked("in")
               PROVE  FALSE
    OBVIOUS
  <2>1. Late(c)
    BY AtWork DEF Fifo!Opened
  <2> QED BY <1>1, <2>1 DEF Late, Holding, Fifo!Blocked
<1>3. /\ \/ pc[RC] = "in_open" /\ <<"in", RC>> \in waiting
         \/ pc[RC] = "serving" /\ <<"out", RC>> \in waiting
      /\ Fifo!Close({"in", "out"}, RC) /\ Goto(RC, "ended")
      /\ UNCHANGED <<job, result, clientVars, tableVars>>
  BY <1>2 DEF interrupted, Fifo!Opened
<1>4. /\ pc'[RC] = "ended" /\ pc'[c] = pc[c] /\ Request(c)' = Request(c)
      /\ UNCHANGED <<replies, asked, outcome, points, log, job, result>>
  BY <1>3, ThreadMoves DEF ThreadPlaces, tableVars
<1>5. /\ rd'["in"] = {} /\ wr'["in"] = wr["in"] /\ rd'["out"] = rd["out"] /\ wr'["out"] = {}
      /\ <<"in", RC>> \notin waiting' /\ <<"out", RC>> \notin waiting'
      /\ <<"in", c>> \in waiting' <=> <<"in", c>> \in waiting
      /\ <<"out", c>> \in waiting' <=> <<"out", c>> \in waiting
  <2>1. /\ rd["in"] = {RC} /\ wr["in"] \subseteq {c} /\ rd["out"] \subseteq {c}
        /\ wr["out"] \subseteq {RC} /\ c # RC
    BY <1>1, <1>3, NotThread DEF Holding
  <2> QED BY <1>3, <2>1 DEF Fifo!Close
<1>6. /\ buf'["in"] = IF wr["in"] = {} THEN <<>> ELSE buf["in"]
      /\ buf'["out"] = IF rd["out"] = {} THEN <<>> ELSE buf["out"]
  BY <1>3, <1>5 DEF Fifo!Close
<1>7. Holding(c)'
  BY <1>1, <1>4, <1>5 DEF Holding
<1>8. Turns(c)'
  BY <1>1, <1>4 DEF Turns
<1>9. Contents(c)'
  BY <1>1, <1>3, <1>4, <1>5, <1>6 DEF Contents, Away, Early, Late, Holding
<1>10. Current(c)'
  <2>1. CASE ~OneCommand(Line(c)) \/ ~Late(c)
    BY <1>4, <1>5, <2>1 DEF Current, Line, Late
  <2>2. CASE OneCommand(Line(c)) /\ Late(c)
    <3>1. pc[RC] = "in_open" /\ Away
      BY <1>1, <1>3, <2>2 DEF Turns, Late, Away, Busy
    <3>2. Answered(c) /\ buf["in"] = <<>> /\ rd["out"] = {c}
      BY <1>1, <2>2, <3>1 DEF Current, Pending, Contents, Late, Holding
    <3>3. Answered(c)'
      BY <1>4, <1>6, <3>1, <3>2 DEF Answered, Found, Executions, Holds, Line
    <3> QED BY <3>3 DEF Current
  <2> QED BY <2>1, <2>2
<1>11. Past(c)'
  BY <1>1, <1>3, <1>4, PastKept DEF Serving
<1> QED BY <1>7, <1>8, <1>9, <1>10, <1>11 DEF InStep

\* The start-up executes a command of FIU_ENABLE meanwhile.
LEMMA StepStartUp ==
  ASSUME TInv, NEW c \in Clients, InStep(c), fiu_run_init
  PROVE  InStep(c)'
<1>1. Holding(c) /\ Turns(c) /\ Contents(c) /\ Current(c) /\ Past(c)
  BY DEF InStep
<1>2. /\ Execute(Presets[preset], <<"FIU_ENABLE", preset>>) /\ preset <= Len(Presets)
      /\ UNCHANGED <<rd, wr, buf, waiting, pc, job, result, replies, asked, outcome>>
  BY DEF fiu_run_init, fifoVars, threadVars, clientVars
<1>3. Presets # <<>> /\ preset \in Nat
  BY <1>2 DEF TInv, TableOK
<1>4. <<"FIU_ENABLE", preset>> \in (Clients \cup {"FIU_ENABLE"}) \X Nat
  BY <1>3
<1>5. /\ \A n, r : Found(c, n, r) => Found(c, n, r)'
      /\ DOMAIN points' = DOMAIN points
  BY <1>2, <1>4, FoundGrows
<1>6. Holding(c)' /\ Turns(c)' /\ Contents(c)'
  BY <1>1, <1>2 DEF Holding, Turns, Contents, Away, Met, Early, Late, Busy, Request
<1>7. Current(c)'
  <2>1. CASE ~OneCommand(Line(c)) \/ ~Late(c)
    BY <1>2, <2>1 DEF Current, Line, Late
  <2>2. CASE Pending(c)
    BY <1>2, <2>2 DEF Current, Pending, Request
  <2>3. CASE Answered(c)
    <3>1. PICK s \in Results :
             /\ Found(c, Len(asked[c]), s) /\ buf["in"] = <<>>
             /\ \/ pc[RC] = "reply" /\ result = s /\ replies[c] = <<>> /\ buf["out"] = <<>>
                \/ pc[RC] \notin {"execute", "reply"} /\ replies[c] \o buf["out"] = <<s>>
      BY <2>3 DEF Answered
    <3>2. PICK n : n = Len(asked[c])
      OBVIOUS
    <3>3. Found(c, n, s)'
      BY <1>5, <3>1, <3>2
    <3>4. Answered(c)'
      BY <1>2, <1>3, <3>1, <3>2, <3>3 DEF Answered, Found, Executions
    <3> QED BY <3>4 DEF Current
  <2> QED BY <1>1, <2>1, <2>2, <2>3 DEF Current
<1>8. Past(c)'
  <2>1. \A n \in DOMAIN outcome[c] : OneCommand(asked[c][n]) =>
           /\ outcome[c][n] = "ok" => Found(c, n, 0)'
           /\ outcome[c][n] = "error" => Found(c, n, -1)'
    BY <1>1, <1>5 DEF Past
  <2> QED BY <1>1, <1>2, <1>3, <1>5, <2>1 DEF Past, Found, Executions, Serving
<1> QED BY <1>6, <1>7, <1>8 DEF InStep

\* The thread and the client in a step of the client.
LEMMA ClientMoves ==
  ASSUME TInv, NEW c \in Clients, NEW where \in ClientPlaces, Goto(c, where),
         UNCHANGED threadVars, UNCHANGED tableVars
  PROVE  pc'[RC] = pc[RC] /\ pc'[c] = where
         /\ UNCHANGED <<points, log, job, result>>
BY ThreadSame, NotThread DEF TInv, ClientsOK, Goto, threadVars, tableVars

\* The client opens the pipe of commands.
LEMMA StepStart ==
  ASSUME TInv, NEW c \in Clients, InStep(c), NEW l \in Lines, start(c, l)
  PROVE  InStep(c)'
<1>1. /\ Goto(c, "in_open") /\ pc[c] = "idle" /\ Fifo!OpenWrite("in", c)
      /\ asked' = [asked EXCEPT ![c] = Append(@, l)]
      /\ UNCHANGED threadVars /\ UNCHANGED tableVars
      /\ UNCHANGED <<replies, outcome>>
  BY DEF start
<1>2. /\ pc'[RC] = pc[RC] /\ pc'[c] = "in_open"
      /\ UNCHANGED <<points, log, job, result>>
  BY <1>1, ClientMoves DEF ClientPlaces
<1>3. Holding(c) /\ Turns(c) /\ Contents(c) /\ Current(c) /\ Past(c)
  BY DEF InStep
<1>4. /\ buf' = buf /\ rd' = rd /\ wr'["in"] = {c} /\ wr'["out"] = wr["out"]
      /\ <<"in", RC>> \notin waiting'
      /\ <<"in", c>> \in waiting' <=> pc[RC] # "in_open"
      /\ <<"out", RC>> \in waiting' <=> <<"out", RC>> \in waiting
      /\ <<"out", c>> \notin waiting'
  <2>1. /\ rd["in"] = IF pc[RC] = "in_open" THEN {RC} ELSE {}
        /\ wr["in"] = {} /\ c # RC
    BY <1>1, <1>3, NotThread DEF Holding, Turns, Away
  <2>2. /\ <<"in", RC>> \in waiting => pc[RC] = "in_open"
        /\ <<"in", c>> \notin waiting /\ <<"out", c>> \notin waiting
    BY <1>1, <1>3 DEF Holding
  <2>3. /\ buf' = buf /\ rd' = rd /\ wr' = [wr EXCEPT !["in"] = @ \cup {c}]
        /\ waiting' = (waiting \ ({"in"} \X rd["in"]))
                         \cup (IF rd["in"] = {} THEN {<<"in", c>>} ELSE {})
    BY <1>1 DEF Fifo!OpenWrite, Fifo!Rendezvous
  <2> QED BY <2>1, <2>2, <2>3, EndsTypes DEF Ends
<1>5. Holding(c)'
  BY <1>1, <1>2, <1>3, <1>4 DEF Holding
<1>6. Turns(c)'
  BY <1>1, <1>2, <1>3, <1>4 DEF Turns, Away, Met, Early, Late, Busy
<1>7. Contents(c)'
  BY <1>1, <1>2, <1>3, <1>4 DEF Contents, Away, Early, Late
<1>8. Current(c)'
  BY <1>2 DEF Current, Late
<1>9. Past(c)'
  <2>1. asked[c] \in Seq(Lines) /\ asked'[c] = Append(asked[c], l)
    BY <1>1 DEF TInv, ClientsOK
  <2>2. DOMAIN outcome[c] \subseteq DOMAIN asked[c]
    <3>1. /\ outcome[c] \in Seq({"ok", "error", "broken", "killed"})
          /\ Len(outcome[c]) = Len(asked[c])
      BY <1>1 DEF TInv, ClientsOK
    <3> QED BY <2>1, <3>1, LenProperties
  <2>3. \A n \in DOMAIN outcome[c] : asked'[c][n] = asked[c][n]
    BY <2>1, <2>2, AppendProperties
  <2> QED BY <1>1, <1>2, <1>3, <2>3, PastKept DEF Serving
<1> QED BY <1>5, <1>6, <1>7, <1>8, <1>9 DEF InStep

\* The write of the request, and of the pipe that the thread has left.
LEMMA StepEcho ==
  ASSUME TInv, NEW c \in Clients, InStep(c), echo(c)
  PROVE  InStep(c)'
<1>1. Holding(c) /\ Turns(c) /\ Contents(c) /\ Current(c) /\ Past(c)
      /\ pc[c] = "in_open" /\ <<"in", c>> \notin waiting
  BY DEF InStep, echo, Fifo!Opened
<1>2. CASE Fifo!Write("in", Request(c)) /\ Goto(c, "written") /\ UNCHANGED clientVars
  <2>1. /\ UNCHANGED <<rd, wr, waiting, replies, asked, outcome>>
        /\ UNCHANGED threadVars /\ UNCHANGED tableVars
        /\ buf' = [buf EXCEPT !["in"] = @ \o Request(c)] /\ rd["in"] # {}
    BY <1>2 DEF echo, Fifo!Write, Fifo!Broken, clientVars
  <2>2. /\ pc'[RC] = pc[RC] /\ pc'[c] = "written" /\ Request(c)' = Request(c)
        /\ UNCHANGED <<points, log, job, result>>
    <3>1. pc'[RC] = pc[RC] /\ pc'[c] = "written" /\ UNCHANGED <<points, log, job, result>>
      BY <1>2, <2>1, ClientMoves DEF ClientPlaces
    <3> QED BY <2>1, <3>1 DEF Request
  <2>3. buf'["in"] = Request(c) /\ buf'["out"] = buf["out"]
    <3>1. buf["in"] = <<>> /\ Request(c) \in Seq(Item)
      BY <1>1, RequestType DEF Contents, TInv
    <3>2. <<>> \o Request(c) = Request(c)
      BY <3>1, ConcatEmptySeq
    <3> QED BY <2>1, <3>1, <3>2, EndsTypes DEF Ends
  <2>4. Holding(c)'
    BY <1>1, <2>1, <2>2 DEF Holding
  <2>5. Turns(c)'
    BY <1>1, <2>1, <2>2 DEF Turns, Away, Met, Early, Late, Busy, Holding
  <2>6. Contents(c)'
    BY <1>1, <2>1, <2>2, <2>3 DEF Contents, Away, Early, Late, Turns, Met, Holding
  <2>7. Current(c)'
    BY <2>2 DEF Current, Late
  <2>8. Past(c)'
    BY <1>1, <2>1, <2>2, PastKept DEF Serving
  <2> QED BY <2>4, <2>5, <2>6, <2>7, <2>8 DEF InStep
<1>3. CASE Fifo!Broken("in") /\ Fifo!Close({"in"}, c) /\ Finish(c, "broken")
  <2>1. pc[RC] = "ended"
    BY <1>1, <1>3 DEF Holding, Turns, Met, Fifo!Broken
  <2>2. /\ Goto(c, "idle") /\ UNCHANGED threadVars /\ UNCHANGED tableVars /\ asked' = asked
        /\ outcome' = [outcome EXCEPT ![c] = Append(@, "broken")]
        /\ replies' = [replies EXCEPT ![c] = <<>>]
    BY <1>3 DEF Finish, echo
  <2>3. /\ pc'[RC] = pc[RC] /\ pc'[c] = "idle"
        /\ UNCHANGED <<points, log, job, result>>
    BY <2>2, ClientMoves DEF ClientPlaces
  <2>4. /\ rd'["in"] = {} /\ wr'["in"] = {} /\ rd'["out"] = {} /\ wr'["out"] = {}
        /\ waiting' \subseteq waiting
    <3>1. rd["in"] = {} /\ wr["in"] = {c} /\ rd["out"] = {} /\ wr["out"] = {}
      BY <1>1, <2>1 DEF Holding
    <3> QED BY <1>3, <3>1 DEF Fifo!Close
  <2>5. buf'["in"] = <<>> /\ buf'["out"] = <<>> /\ replies'[c] = <<>>
    BY <1>3, <2>2, <2>4 DEF Fifo!Close, TInv, ClientsOK
  <2>6. Holding(c)'
    BY <1>1, <2>1, <2>3, <2>4 DEF Holding
  <2>7. Turns(c)' /\ Contents(c)' /\ Current(c)'
    BY <2>1, <2>3, <2>5 DEF Turns, Contents, Current, Late, Early
  <2>8. Past(c)'
    <3>1. /\ outcome[c] \in Seq({"ok", "error", "broken", "killed"})
          /\ outcome'[c] = Append(outcome[c], "broken")
      BY <2>2 DEF TInv, ClientsOK
    <3>2. /\ Len(outcome'[c]) = Len(outcome[c]) + 1 /\ Len(outcome[c]) \in Nat
          /\ outcome'[c][Len(outcome[c]) + 1] = "broken"
          /\ \A n \in DOMAIN outcome'[c] : n # Len(outcome[c]) + 1 =>
                n \in DOMAIN outcome[c] /\ outcome'[c][n] = outcome[c][n]
      BY <3>1, AppendProperties, LenProperties
    <3>3. \A n \in DOMAIN outcome'[c] : outcome'[c][n] \in {"ok", "error"} =>
             n \in DOMAIN outcome[c] /\ outcome'[c][n] = outcome[c][n]
      BY <3>2
    <3>4. ~Serving' /\ asked' = asked /\ log' = log /\ points' = points
      BY <2>1, <2>2, <2>3 DEF Serving
    <3> QED BY <1>1, <3>2, <3>3, <3>4 DEF Past, Found, Executions
  <2> QED BY <2>6, <2>7, <2>8 DEF InStep
<1> QED BY <1>2, <1>3 DEF echo

\* It has written and closes the pipe.
LEMMA StepEchoClose ==
  ASSUME TInv, NEW c \in Clients, InStep(c), echo_close(c)
  PROVE  InStep(c)'
<1>1. Holding(c) /\ Turns(c) /\ Contents(c) /\ Current(c) /\ Past(c)
  BY DEF InStep
<1>2. /\ pc[c] = "written" /\ Fifo!Close({"in"}, c) /\ Goto(c, "cat")
      /\ UNCHANGED threadVars /\ UNCHANGED tableVars
      /\ UNCHANGED <<replies, asked, outcome>>
  BY DEF echo_close, clientVars
<1>3. /\ pc'[RC] = pc[RC] /\ pc'[c] = "cat" /\ UNCHANGED <<points, log, job, result>>
      /\ Request(c)' = Request(c)
  <2>1. pc'[RC] = pc[RC] /\ pc'[c] = "cat" /\ UNCHANGED <<points, log, job, result>>
    BY <1>2, ClientMoves DEF ClientPlaces
  <2> QED BY <1>2, <2>1 DEF Request
<1>4. /\ rd'["in"] = rd["in"] /\ wr'["in"] = {} /\ rd'["out"] = {} /\ wr'["out"] = wr["out"]
      /\ <<"in", c>> \notin waiting' /\ <<"out", c>> \notin waiting'
      /\ <<"in", RC>> \in waiting' <=> <<"in", RC>> \in waiting
      /\ <<"out", RC>> \in waiting' <=> <<"out", RC>> \in waiting
  <2>1. /\ rd["in"] \subseteq {RC} /\ wr["in"] = {c} /\ rd["out"] = {} /\ c # RC
        /\ <<"out", c>> \notin waiting
    BY <1>1, <1>2, NotThread DEF Holding
  <2> QED BY <1>2, <2>1 DEF Fifo!Close
<1>5. /\ buf'["in"] = IF rd["in"] = {} THEN <<>> ELSE buf["in"]
      /\ buf'["out"] = <<>>
  <2>1. buf["out"] = <<>>
    BY <1>1, <1>2 DEF Contents, Late
  <2> QED BY <1>2, <1>4, <2>1 DEF Fifo!Close
<1>6. Holding(c)'
  BY <1>1, <1>2, <1>3, <1>4 DEF Holding
<1>7. Turns(c)'
  BY <1>1, <1>2, <1>3, <1>4 DEF Turns, Away, Met, Early, Late, Busy
<1>8. Contents(c)'
  BY <1>1, <1>2, <1>3, <1>4, <1>5 DEF Contents, Away, Early, Late, Turns, Met, Holding
<1>9. Current(c)'
  BY <1>3 DEF Current, Late
<1>10. Past(c)'
  BY <1>1, <1>2, <1>3, PastKept DEF Serving
<1> QED BY <1>6, <1>7, <1>8, <1>9, <1>10 DEF InStep

\* It opens the pipe of replies: a thread that waits for that goes on.
LEMMA StepCatOpen ==
  ASSUME TInv, NEW c \in Clients, InStep(c), cat_open(c)
  PROVE  InStep(c)'
<1>1. Holding(c) /\ Turns(c) /\ Contents(c) /\ Current(c) /\ Past(c)
  BY DEF InStep
<1>2. /\ pc[c] = "cat" /\ Fifo!OpenRead("out", c) /\ Goto(c, "reading")
      /\ UNCHANGED threadVars /\ UNCHANGED tableVars
      /\ UNCHANGED <<replies, asked, outcome>>
  BY DEF cat_open, clientVars
<1>3. /\ pc'[RC] = pc[RC] /\ pc'[c] = "reading" /\ UNCHANGED <<points, log, job, result>>
      /\ Request(c)' = Request(c)
  <2>1. pc'[RC] = pc[RC] /\ pc'[c] = "reading" /\ UNCHANGED <<points, log, job, result>>
    BY <1>2, ClientMoves DEF ClientPlaces
  <2> QED BY <1>2, <2>1 DEF Request
<1>4. /\ buf' = buf /\ wr' = wr /\ rd'["in"] = rd["in"] /\ rd'["out"] = {c}
      /\ <<"in", c>> \notin waiting'
      /\ <<"in", RC>> \in waiting' <=> <<"in", RC>> \in waiting
      /\ <<"out", RC>> \notin waiting'
      /\ <<"out", c>> \in waiting' <=> wr["out"] = {}
  <2>1. /\ wr["out"] \subseteq {RC} /\ rd["out"] = {} /\ c # RC
        /\ <<"out", c>> \notin waiting /\ <<"in", c>> \notin waiting
        /\ <<"out", RC>> \in waiting => wr["out"] = {RC}
    BY <1>1, <1>2, NotThread DEF Holding
  <2>2. /\ buf' = buf /\ wr' = wr /\ rd' = [rd EXCEPT !["out"] = @ \cup {c}]
        /\ waiting' = (waiting \ ({"out"} \X wr["out"]))
                         \cup (IF wr["out"] = {} THEN {<<"out", c>>} ELSE {})
    BY <1>2 DEF Fifo!OpenRead, Fifo!Rendezvous
  <2> QED BY <2>1, <2>2, EndsTypes DEF Ends
<1>5. Holding(c)'
  BY <1>1, <1>2, <1>3, <1>4 DEF Holding
<1>6. Turns(c)'
  BY <1>1, <1>2, <1>3, <1>4 DEF Turns, Away, Met, Early, Late, Busy, Holding
<1>7. Contents(c)'
  BY <1>1, <1>2, <1>3, <1>4 DEF Contents, Away, Early, Late, Turns, Met, Holding
<1>8. Current(c)'
  <2>1. ASSUME Late(c)' PROVE Pending(c)'
    <3>1. Early(c) /\ pc[RC] = "serving"
      BY <1>1, <1>2, <1>3, <1>4, <2>1 DEF Late, Early, Turns, Met, Holding
    <3>2. buf["in"] = Request(c) /\ replies[c] = <<>> /\ buf["out"] = <<>>
      BY <1>1, <1>2, <3>1 DEF Contents, Late
    <3> QED BY <1>2, <1>3, <1>4, <3>1, <3>2 DEF Pending
  <2> QED BY <2>1 DEF Current
<1>9. Past(c)'
  BY <1>1, <1>2, <1>3, PastKept DEF Serving
<1> QED BY <1>5, <1>6, <1>7, <1>8, <1>9 DEF InStep

\* It reads the reply.
LEMMA StepCatRead ==
  ASSUME TInv, NEW c \in Clients, InStep(c), cat_read(c)
  PROVE  InStep(c)'
<1>1. Holding(c) /\ Turns(c) /\ Contents(c) /\ Current(c) /\ Past(c)
  BY DEF InStep
<1>2. /\ Late(c) /\ buf["out"] # <<>> /\ buf' = [buf EXCEPT !["out"] = <<>>]
      /\ replies' = [replies EXCEPT ![c] = @ \o buf["out"]]
      /\ UNCHANGED <<rd, wr, waiting, pc, asked, outcome, job, result, points, log>>
  BY DEF cat_read, Late, Fifo!Opened, Fifo!ReadAll, threadVars, tableVars
<1>3. /\ buf'["in"] = buf["in"] /\ buf'["out"] = <<>>
      /\ replies'[c] = replies[c] \o buf["out"]
      /\ replies[c] \in Seq(Results) /\ buf["out"] \in Seq(Results)
  BY <1>2, EndsTypes DEF TInv, ClientsOK, Ends
<1>4. Holding(c)' /\ Turns(c)'
  BY <1>1, <1>2 DEF Holding, Turns, Away, Met, Early, Late, Busy
<1>5. Contents(c)'
  BY <1>1, <1>2, <1>3 DEF Contents, Away, Early, Late
<1>6. Current(c)'
  <2>1. CASE ~OneCommand(Line(c))
    BY <1>2, <2>1 DEF Current, Line
  <2>2. CASE OneCommand(Line(c))
    <3>1. Answered(c)
      BY <1>1, <1>2, <2>2 DEF Current, Pending
    <3>2. replies'[c] \o buf'["out"] = replies[c] \o buf["out"]
      BY <1>3, ConcatProperties, ConcatEmptySeq
    <3>3. Answered(c)'
      BY <1>2, <1>3, <3>1, <3>2 DEF Answered, Found, Executions, Holds, Line
    <3> QED BY <3>3 DEF Current
  <2> QED BY <2>1, <2>2
<1>7. Past(c)'
  BY <1>1, <1>2, PastKept DEF Serving
<1> QED BY <1>4, <1>5, <1>6, <1>7 DEF InStep

\* The end of the replies: what cat has read is the result of the command.
LEMMA StepCatEof ==
  ASSUME TInv, NEW c \in Clients, InStep(c), cat_eof(c)
  PROVE  InStep(c)'
<1> DEFINE how == IF replies[c] = <<-1>> THEN "error" ELSE "ok"
<1>1. Holding(c) /\ Turns(c) /\ Contents(c) /\ Current(c) /\ Past(c)
  BY DEF InStep
<1>2. /\ Late(c) /\ buf["out"] = <<>> /\ wr["out"] = {} /\ Fifo!Close({"out"}, c)
      /\ Finish(c, how)
      /\ UNCHANGED threadVars /\ UNCHANGED tableVars
  BY DEF cat_eof, Late, Fifo!Opened, Fifo!AtEOF
<1>3. /\ Goto(c, "idle") /\ asked' = asked
      /\ outcome' = [outcome EXCEPT ![c] = Append(@, how)]
      /\ replies' = [replies EXCEPT ![c] = <<>>]
  BY <1>2 DEF Finish
<1>4. /\ pc'[RC] = pc[RC] /\ pc'[c] = "idle" /\ UNCHANGED <<points, log, job, result>>
      /\ replies'[c] = <<>>
  BY <1>2, <1>3, ClientMoves DEF ClientPlaces, TInv, ClientsOK
<1>5. Away \/ pc[RC] = "ended"
  BY <1>1, <1>2 DEF Turns, Busy, Holding
<1>6. /\ rd'["in"] = rd["in"] /\ wr'["in"] = {} /\ rd'["out"] = {} /\ wr'["out"] = {}
      /\ <<"in", RC>> \in waiting' <=> <<"in", RC>> \in waiting
      /\ <<"out", RC>> \in waiting' <=> <<"out", RC>> \in waiting
      /\ <<"in", c>> \notin waiting' /\ <<"out", c>> \notin waiting'
  <2>1. /\ wr["in"] = {} /\ rd["out"] = {c} /\ c # RC /\ <<"in", c>> \notin waiting
    BY <1>1, <1>2, NotThread DEF Holding, Late
  <2> QED BY <1>2, <2>1 DEF Fifo!Close
<1>7. buf["in"] = <<>> /\ buf'["in"] = <<>> /\ buf'["out"] = <<>>
  <2>1. buf["in"] = <<>>
    BY <1>1, <1>2, <1>5 DEF Contents
  <2> QED BY <1>2, <1>6, <2>1 DEF Fifo!Close
<1>8. Holding(c)'
  BY <1>1, <1>2, <1>4, <1>6 DEF Holding, Late
<1>9. Turns(c)' /\ Contents(c)' /\ Current(c)'
  BY <1>1, <1>4, <1>5, <1>6, <1>7 DEF Turns, Contents, Current, Away, Late, Early
<1>10. Past(c)'
  <2> DEFINE n == Len(outcome[c]) + 1
  <2>1. /\ outcome[c] \in Seq({"ok", "error", "broken", "killed"})
        /\ outcome'[c] = Append(outcome[c], how)
        /\ Len(asked[c]) = n
    BY <1>2, <1>3 DEF TInv, ClientsOK, Late
  <2>2. /\ Len(outcome'[c]) = n /\ n \in Nat /\ n > 0
        /\ outcome'[c][n] = how
        /\ \A m \in DOMAIN outcome'[c] : m # n =>
              m \in DOMAIN outcome[c] /\ outcome'[c][m] = outcome[c][m]
    BY <2>1, AppendProperties, LenProperties
  <2>3. ASSUME OneCommand(asked[c][n])
        PROVE  /\ Found(c, n, IF how = "ok" THEN 0 ELSE -1)
               /\ how = "ok" /\ Presets = <<>> => Holds(asked[c][n])
    <3>1. asked[c][n] = Line(c)
      BY <2>1 DEF Line
    <3>2. Answered(c)
      BY <1>1, <1>2, <1>5, <2>3, <3>1 DEF Current, Pending, Away
    <3>3. PICK s \in Results :
             /\ Found(c, Len(asked[c]), s)
             /\ s = 0 /\ Presets = <<>> => Holds(Line(c))
             /\ replies[c] \o buf["out"] = <<s>>
      BY <1>5, <3>2 DEF Answered, Away
    <3>4. replies[c] = <<s>>
      BY <1>2, <3>3, ConcatEmptySeq DEF TInv, ClientsOK
    <3>5. s = IF how = "ok" THEN 0 ELSE -1
      <4>1. CASE s = 0
        BY <3>4, <4>1
      <4>2. CASE s = -1
        BY <3>4, <4>2
      <4> QED BY <4>1, <4>2 DEF Results
    <3> QED BY <2>1, <3>1, <3>3, <3>5
  <2> HIDE DEF n, how
  <2>4. how \in {"ok", "error"}
    BY DEF how
  <2>5. ASSUME NEW m \in DOMAIN outcome'[c]
        PROVE  /\ Serving => outcome'[c][m] # "broken"
               /\ OneCommand(asked[c][m]) /\ outcome'[c][m] \in {"ok", "error"}
                  => Found(c, m, IF outcome'[c][m] = "ok" THEN 0 ELSE -1)
    <3>1. CASE m = n
      BY <2>2, <2>3, <2>4, <3>1
    <3>2. CASE m # n
      BY <1>1, <2>2, <3>2 DEF Past
    <3> QED BY <3>1, <3>2
  <2>6. Serving' = Serving /\ DOMAIN points' = Names
    BY <1>1, <1>4 DEF Past, Serving
  <2>7. OneCommand(asked[c][n]) /\ outcome'[c][n] = "ok" /\ Presets = <<>> => Holds(asked[c][n])
    BY <2>2, <2>3
  <2>8. /\ Serving' => \A m \in DOMAIN outcome'[c] : outcome'[c][m] # "broken"
        /\ \A m \in DOMAIN outcome'[c] :
              OneCommand(asked'[c][m]) /\ outcome'[c][m] \in {"ok", "error"}
              => \E i \in {i \in DOMAIN log' : log'[i].by = <<c, m>>} :
                    log'[i].r = IF outcome'[c][m] = "ok" THEN 0 ELSE -1
    BY <1>3, <1>4, <2>5, <2>6 DEF Found, Executions
  <2>9. OneCommand(asked'[c][Len(outcome'[c])]) /\ outcome'[c][Len(outcome'[c])] = "ok"
        /\ Presets = <<>> => Holds(asked[c][n])
    BY <1>3, <2>2, <2>7
  <2>10. (/\ OneCommand(asked'[c][Len(outcome'[c])])
          /\ outcome'[c][Len(outcome'[c])] = "ok" /\ Presets = <<>>)
         => LET call == Parse(Chunks[asked'[c][Len(outcome'[c])]][1])
            IN  points'[call.name] = IF call.op = "disable" THEN NULL ELSE call
    <3>1. asked'[c][Len(outcome'[c])] = asked[c][n] /\ points' = points
      BY <1>3, <1>4, <2>2
    <3> QED BY <2>9, <3>1 DEF Holds
  <2>11. DOMAIN points' = Names
    BY <2>6
  <2> QED BY ONLY <2>8, <2>10, <2>11 DEF Past, Found, Executions, Holds
<1> QED BY <1>8, <1>9, <1>10 DEF InStep

\* A single user of fiu-ctrl and the thread are always in step.
AlwaysInStep == \A c \in Clients : InStep(c)

\* At the start both are idle.
LEMMA StepInit == Init => AlwaysInStep
<1> SUFFICES ASSUME Init, NEW c \in Clients PROVE InStep(c)
  BY DEF AlwaysInStep
<1>1. /\ pc[RC] = "reopen" /\ pc[c] = "idle" /\ waiting = {} /\ outcome[c] = <<>>
      /\ replies[c] = <<>> /\ DOMAIN points = Names
      /\ \A f \in {"in", "out"} : rd[f] = {} /\ wr[f] = {} /\ buf[f] = <<>>
  BY NotThread DEF Init, Fifo!FifoInit, Procs
<1>2. Holding(c) /\ Turns(c) /\ Contents(c) /\ Current(c)
  BY <1>1 DEF Holding, Turns, Contents, Current, Away, Early, Late
<1>3. Past(c)
  BY <1>1 DEF Past
<1> QED BY <1>2, <1>3 DEF InStep

\* Every step keeps them in step.
LEMMA StepNext == ASSUME Alone PROVE TInv /\ AlwaysInStep /\ [Next]_vars => AlwaysInStep'
<1> SUFFICES ASSUME TInv, AlwaysInStep, [Next]_vars, NEW c \in Clients PROVE InStep(c)'
  BY DEF AlwaysInStep
<1>1. InStep(c)
  BY DEF AlwaysInStep
<1>2. CASE UNCHANGED vars
  <2>1. Holding(c)' /\ Turns(c)' /\ Contents(c)' /\ Current(c)'
    BY <1>1, <1>2 DEF vars, fifoVars, threadVars, clientVars, tableVars, InStep, Holding, Turns,
       Contents, Current, Away, Met, Early, Late, Busy, Request, Line, Pending, Answered,
       Found, Executions, Holds
  <2>2. Past(c)'
    BY <1>1, <1>2, PastKept DEF vars, fifoVars, threadVars, clientVars, tableVars, InStep, Serving
  <2> QED BY <2>1, <2>2 DEF InStep
<1>3. CASE fiu_run_init
  BY <1>1, <1>3, StepStartUp
<1>4. CASE Thread \/ interrupted
  BY <1>1, <1>4, StepReopen, StepOpenOut, StepReadLine, StepReadEof, StepExecute, StepReply,
     StepClose, StepInterrupted DEF Thread
<1>5. ASSUME NEW d \in Clients, Client(d) \/ kill(d) \/ \E l \in Lines : start(d, l)
      PROVE  InStep(c)'
  <2>1. d = c
    BY DEF Alone
  <2>2. ~kill(c)
    BY DEF Alone, kill, TInv, TableOK
  <2>3. ~open_pipes(c) /\ ~write(c) /\ ~readline(c) /\ ~close_in(c) /\ ~close_out(c)
    <3>1. Kind[c] = "fiu_ctrl" /\ pc[c] \notin {"write", "readline"}
      BY <1>1 DEF Alone, InStep, Turns
    <3> QED BY <3>1 DEF open_pipes, write, readline, close_in, close_out
  <2>4. echo(c) \/ echo_close(c) \/ cat_open(c) \/ cat_read(c) \/ cat_eof(c)
        \/ \E l \in Lines : start(c, l)
    BY <1>5, <2>1, <2>2, <2>3 DEF Client
  <2> QED BY <1>1, <2>4, StepStart, StepEcho, StepEchoClose, StepCatOpen, StepCatRead,
         StepCatEof
<1> QED BY <1>2, <1>3, <1>4, <1>5 DEF Next

\* A command of one line that was found in the log was executed once.
LEMMA ExecutedOnce ==
  ASSUME TInv, OInv, NEW c \in Clients, NEW n \in DOMAIN asked[c],
         OneCommand(asked[c][n]), NEW i \in Executions(c, n)
  PROVE  Executions(c, n) = {i}
<1> DEFINE k == <<c, n>>
           E == Executions(c, n)
<1>1. E = Places(log, k)
  BY DEF Executions, Places
<1>2. Len(Chunks[asked[c][n]]) = 1
  BY DEF OneCommand
<1>3. Count(log, k) + Count(Job, k) + Count(buf["in"], k) <= 1
  BY <1>2 DEF OInv, NoneTwice
<1>4. Count(log, k) \in Nat /\ Count(Job, k) \in Nat /\ Count(buf["in"], k) \in Nat
  BY WayCounts
<1>5. IsFiniteSet(Places(log, k)) /\ Count(log, k) = Cardinality(Places(log, k))
  <2> HIDE DEF k
  <2> QED BY WayTypes, CountNat
<1>6. IsFiniteSet(E) /\ Cardinality(E) \in Nat /\ Cardinality(E) <= 1
  <2> HIDE DEF k, E
  <2> QED BY <1>1, <1>3, <1>4, <1>5
<1>7. i \in E
  OBVIOUS
<1> HIDE DEF E
<1>8. Cardinality(E) # 0
  BY <1>6, <1>7, FS_EmptySet
<1>9. Cardinality(E) = 1
  BY <1>6, <1>8
<1>10. E = {i}
  BY <1>6, <1>7, <1>9, FS_Singleton
<1> QED BY <1>10 DEF E

\* So they always are.
LEMMA InStepAlways == ASSUME Alone PROVE Spec => []AlwaysInStep
<1> QED BY StepInit, StepNext, TypeInvariance, PTL DEF Spec

\* As long as no signal has ended the thread, fiu-ctrl never finds that the
\* thread has left the pipe it opened: its commands can follow each other at
\* once, for any number and any lines.  (Of PipeControl this is false.)
THEOREM EveryCommandAnsweredCorrect ==
  ASSUME Alone
  PROVE  Spec => []EveryCommandAnswered
<1>1. AlwaysInStep => EveryCommandAnswered
  BY DEF AlwaysInStep, EveryCommandAnswered, InStep, Past
<1> QED BY <1>1, InStepAlways, PTL

\* What fiu-ctrl tells its user is what rc_do_command() did: the command was
\* executed, once, and with the result that is reported.
THEOREM ReportIsTrueCorrect ==
  ASSUME Alone
  PROVE  Spec => []ReportIsTrue
<1>1. ASSUME TInv, OInv, AlwaysInStep PROVE ReportIsTrue
  <2> SUFFICES ASSUME NEW c \in Clients, NEW n \in DOMAIN outcome[c],
                      OneCommand(asked[c][n]), outcome[c][n] \in {"ok", "error"}
               PROVE  \E i \in Executions(c, n) :
                         /\ Executions(c, n) = {i}
                         /\ log[i].r = IF outcome[c][n] = "ok" THEN 0 ELSE -1
    BY DEF ReportIsTrue
  <2>1. PICK i \in Executions(c, n) : log[i].r = IF outcome[c][n] = "ok" THEN 0 ELSE -1
    BY <1>1 DEF AlwaysInStep, InStep, Past, Found
  <2>2. n \in DOMAIN asked[c]
    <3>1. /\ outcome[c] \in Seq({"ok", "error", "broken", "killed"})
          /\ asked[c] \in Seq(Lines)
          /\ Len(outcome[c]) <= Len(asked[c])
      BY <1>1 DEF TInv, ClientsOK
    <3> QED BY <3>1, LenProperties
  <2>3. Executions(c, n) = {i}
    BY <1>1, <2>2, ExecutedOnce
  <2> QED BY <2>1, <2>3
<1> QED BY <1>1, InStepAlways, TypeInvariance, OrderInit, OrderNext, PTL DEF Spec

\* After fiu-ctrl has reported success, and until the next command, the point
\* is as the command asked: enabled with its parameters, or disabled.  Without
\* FIU_ENABLE, whose commands the thread of main() may execute at any time.
THEOREM LatestCommandHoldsCorrect ==
  ASSUME Alone, Presets = <<>>
  PROVE  Spec => []LatestCommandHolds
<1>1. AlwaysInStep => LatestCommandHolds
  BY DEF AlwaysInStep, InStep, Past, LatestCommandHolds, Holds
<1> QED BY <1>1, InStepAlways, PTL
==============================================================================
