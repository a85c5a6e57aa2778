-------------------------- MODULE PosixPreload_proofs --------------------------
(***************************************************************************)
(* Proofs about PosixPreload, for any number of threads and streams, any   *)
(* programs and any nesting of calls.                                      *)
(*                                                                         *)
(* What a wrapper has added to _fiu_called and not yet taken back can be   *)
(* read off its frame (Weight): one for itself, if it counts itself, and   *)
(* one while it looks its function up or creates the set of streams.  The  *)
(* inductive invariant IInv says that the counter of a thread is the sum   *)
(* over its frames.  As the outermost wrapper counts itself, every nested  *)
(* one finds the counter above zero and goes straight to libc; and when    *)
(* the last frame is gone the counter is zero again.                       *)
(*                                                                         *)
(* The second part is about the streams behind ferror(): SInv says who     *)
(* else may have a stream while a wrapper closes or clears it, and that a  *)
(* failure the program knows of is in the set; YInv that what is in the    *)
(* set is about the stream that is open now.  Both need that the program   *)
(* closes a stream only when nobody uses it (MayUse).                      *)
(***************************************************************************)
EXTENDS PosixPreload, FiniteSetTheorems, SequenceTheorems, TLAPS

\* The functions of libc.
Syms == {Wrapped[f].orig : f \in DOMAIN Wrapped}

FrameType ==
    [fn : DOMAIN Wrapped, sym : Syms, stream : Streams \cup {NULL}, count : Nat,
     counted : BOOLEAN, pc : Places, r : {0, 1}, owed : BOOLEAN]

\* The frame number i of a thread, from the outermost one on.
GoodFrame(i, fr) ==
    /\ i > 1 => fr.pc \notin {"reduce", "fiu_fail"}
    /\ i > 1 /\ fr.counted => fr.fn = "clearerr"
    /\ fr.fn = "clearerr" => fr.counted /\ fr.pc \notin {"reduce", "fiu_fail"}
    /\ ~fr.counted => fr.pc \in {"orig", "init", "exit"}
    /\ fr.pc \in {"reduce", "fiu_fail", "init", "orig"} => fr.r = 0
    /\ fr.pc \in {"once", "create", "lock", "hash"} /\ fr.r = 1
          => Wrapped[fr.fn].sets # NULL
    /\ Wrapped[fr.fn].declared # NULL \/ Wrapped[fr.fn].sets # NULL
          => fr.stream \in Streams
    /\ Wrapped[fr.fn].reduce /\ fr.counted /\ fr.pc # "reduce" => fr.count > 0

GoodStack(s) ==
    /\ s # <<>> => s[1].counted
    /\ \A i \in 1..Len(s) : GoodFrame(i, s[i])

\* What a frame has added to _fiu_called.
Busy(where) == IF where \in {"init", "create"} THEN 1 ELSE 0
Weight(fr)  == (IF fr.counted THEN 1 ELSE 0) + Busy(fr.pc)

CountedIn(s) == {i \in DOMAIN s : s[i].counted}
BusyIn(s)    == {i \in DOMAIN s : s[i].pc \in {"init", "create"}}
Count(s)     == Cardinality(CountedIn(s)) + Cardinality(BusyIn(s))

\* The frames of every thread, and its counter.
Frames ==
    /\ stack \in [Threads -> Seq(FrameType)]
    /\ called \in [Threads -> Nat]
    /\ \A t \in Threads : GoodStack(stack[t]) /\ called[t] = Count(stack[t])

Rest ==
    /\ orig \in [Threads -> SUBSET Syms]
    /\ once \in Threads \cup {NULL, "done"}
    /\ mutex \in Threads \cup {NULL}
    /\ ferror_set \subseteq Streams
    /\ injected \subseteq Streams
    /\ owed \subseteq Streams
    /\ file \in [Streams -> {"none", "closing"} \cup Openers]
    /\ calls \in [Threads -> Nat]
    /\ nested \in [Threads -> Nat]
    /\ overlapped \subseteq Threads

\* The inductive invariant.
IInv == Rest /\ Frames

USE PosixAssumption
------------------------------------------------------------------------------
(***************************************************************************)
(* The wrappers.                                                           *)
(***************************************************************************)

\* What the wrappers, and the declarations of the generator, have in common:
\* the functions they call are wrapped ones, and only one that works on a
\* stream marks one.
Sane(w) ==
    /\ w.orig \in Syms /\ w.nested \in Syms
    /\ w.reduce \in BOOLEAN
    /\ w.sets # NULL => w.sets = "arg" \/ w.sets \in Streams
    /\ w.declared # NULL \/ w.sets # NULL => w.uses = "arg" \/ w.uses \in Streams
    /\ w.sets \notin {NULL, "arg"} => w.uses = w.sets

\* Each of them is like that (the modules of preload/posix/modules and the
\* wrappers of posix.custom.c).
LEMMA WrappedFacts ==
  ASSUME NEW f \in DOMAIN Wrapped
  PROVE  Sane(Wrapped[f])
<1>1. f \in {"malloc", "read", "fopen", "popen", "pclose", "fread",
             "ungetc", "open", "open64", "ferror", "clearerr", "fclose",
             "fprintf", "printf", "dprintf", "fscanf", "scanf"}
  BY DEF Wrapped
<1>2. {"malloc", "read", "fopen", "popen", "pclose", "fread",
       "ungetc", "open", "open64", "ferror", "clearerr", "fclose",
       "vfprintf", "vprintf", "vdprintf", "vfscanf", "vscanf"} \subseteq Syms
  <2>1. DOMAIN Wrapped = {"malloc", "read", "fopen", "popen", "pclose",
                         "fread", "ungetc", "open", "open64", "ferror",
                         "clearerr", "fclose", "fprintf", "printf", "dprintf",
                         "fscanf", "scanf"}
    BY DEF Wrapped
  <2>2. "malloc" \in Syms
    <3>1. Wrapped["malloc"].orig = "malloc"
      BY DEF Wrapped, malloc, generate_to
    <3> QED BY <2>1, <3>1 DEF Syms
  <2>3. "read" \in Syms
    <3>1. Wrapped["read"].orig = "read"
      BY DEF Wrapped, read, generate_to
    <3> QED BY <2>1, <3>1 DEF Syms
  <2>4. "fopen" \in Syms
    <3>1. Wrapped["fopen"].orig = "fopen"
      BY DEF Wrapped, fopen, generate_to
    <3> QED BY <2>1, <3>1 DEF Syms
  <2>5. "popen" \in Syms
    <3>1. Wrapped["popen"].orig = "popen"
      BY DEF Wrapped, popen, generate_to
    <3> QED BY <2>1, <3>1 DEF Syms
  <2>6. "pclose" \in Syms
    <3>1. Wrapped["pclose"].orig = "pclose"
      BY DEF Wrapped, pclose, generate_to
    <3> QED BY <2>1, <3>1 DEF Syms
  <2>7. "fread" \in Syms
    <3>1. Wrapped["fread"].orig = "fread"
      BY DEF Wrapped, fread, generate_to
    <3> QED BY <2>1, <3>1 DEF Syms
  <2>8. "ungetc" \in Syms
    <3>1. Wrapped["ungetc"].orig = "ungetc"
      BY DEF Wrapped, ungetc, generate_to
    <3> QED BY <2>1, <3>1 DEF Syms
  <2>9. "open" \in Syms
    <3>1. Wrapped["open"].orig = "open"
      BY DEF Wrapped, open, Wrapper
    <3> QED BY <2>1, <3>1 DEF Syms
  <2>10. "open64" \in Syms
    <3>1. Wrapped["open64"].orig = "open64"
      BY DEF Wrapped, open64, Wrapper
    <3> QED BY <2>1, <3>1 DEF Syms
  <2>11. "ferror" \in Syms
    <3>1. Wrapped["ferror"].orig = "ferror"
      BY DEF Wrapped, ferror, Wrapper
    <3> QED BY <2>1, <3>1 DEF Syms
  <2>12. "clearerr" \in Syms
    <3>1. Wrapped["clearerr"].orig = "clearerr"
      BY DEF Wrapped, clearerr, Wrapper
    <3> QED BY <2>1, <3>1 DEF Syms
  <2>13. "fclose" \in Syms
    <3>1. Wrapped["fclose"].orig = "fclose"
      BY DEF Wrapped, fclose, Wrapper
    <3> QED BY <2>1, <3>1 DEF Syms
  <2>14. "vfprintf" \in Syms
    <3>1. Wrapped["fprintf"].orig = "vfprintf"
      BY DEF Wrapped, fprintf, Wrapper
    <3> QED BY <2>1, <3>1 DEF Syms
  <2>15. "vprintf" \in Syms
    <3>1. Wrapped["printf"].orig = "vprintf"
      BY DEF Wrapped, printf, Wrapper
    <3> QED BY <2>1, <3>1 DEF Syms
  <2>16. "vdprintf" \in Syms
    <3>1. Wrapped["dprintf"].orig = "vdprintf"
      BY DEF Wrapped, dprintf, Wrapper
    <3> QED BY <2>1, <3>1 DEF Syms
  <2>17. "vfscanf" \in Syms
    <3>1. Wrapped["fscanf"].orig = "vfscanf"
      BY DEF Wrapped, fscanf, Wrapper
    <3> QED BY <2>1, <3>1 DEF Syms
  <2>18. "vscanf" \in Syms
    <3>1. Wrapped["scanf"].orig = "vscanf"
      BY DEF Wrapped, scanf, Wrapper
    <3> QED BY <2>1, <3>1 DEF Syms
  <2> QED BY <2>2, <2>3, <2>4, <2>5, <2>6, <2>7, <2>8, <2>9, <2>10, <2>11, <2>12, <2>13, <2>14, <2>15, <2>16, <2>17, <2>18
<1>3. CASE f = "malloc"
  BY <1>2, <1>3 DEF Wrapped, malloc, generate_to, Sane
<1>4. CASE f = "read"
  BY <1>2, <1>4 DEF Wrapped, read, generate_to, Sane
<1>5. CASE f = "fopen"
  BY <1>2, <1>5 DEF Wrapped, fopen, generate_to, Sane
<1>6. CASE f = "popen"
  BY <1>2, <1>6 DEF Wrapped, popen, generate_to, Sane
<1>7. CASE f = "pclose"
  BY <1>2, <1>7 DEF Wrapped, pclose, generate_to, Sane
<1>8. CASE f = "fread"
  BY <1>2, <1>8 DEF Wrapped, fread, generate_to, Sane
<1>9. CASE f = "ungetc"
  BY <1>2, <1>9 DEF Wrapped, ungetc, generate_to, Sane
<1>10. CASE f = "open"
  BY <1>2, <1>10 DEF Wrapped, open, Wrapper, Sane
<1>11. CASE f = "open64"
  BY <1>2, <1>11 DEF Wrapped, open64, Wrapper, Sane
<1>12. CASE f = "ferror"
  BY <1>2, <1>12 DEF Wrapped, ferror, Wrapper, Sane
<1>13. CASE f = "clearerr"
  BY <1>2, <1>13 DEF Wrapped, clearerr, Wrapper, Sane
<1>14. CASE f = "fclose"
  BY <1>2, <1>14 DEF Wrapped, fclose, Wrapper, Sane
<1>15. CASE f = "fprintf"
  BY <1>2, <1>15 DEF Wrapped, fprintf, Wrapper, Sane
<1>16. CASE f = "printf"
  BY <1>2, <1>16 DEF Wrapped, printf, Wrapper, Sane
<1>17. CASE f = "dprintf"
  BY <1>2, <1>17 DEF Wrapped, dprintf, Wrapper, Sane
<1>18. CASE f = "fscanf"
  BY <1>2, <1>18 DEF Wrapped, fscanf, Wrapper, Sane
<1>19. CASE f = "scanf"
  BY <1>2, <1>19 DEF Wrapped, scanf, Wrapper, Sane
<1> QED BY <1>1, <1>3, <1>4, <1>5, <1>6, <1>7, <1>8, <1>9, <1>10, <1>11, <1>12, <1>13, <1>14, <1>15, <1>16, <1>17, <1>18, <1>19

\* Where After leads.
LEMMA AfterFacts ==
  ASSUME NEW f
  PROVE  /\ After(f, "fiu_fail") \in {"orig", "once"}
         /\ f = "fclose" => After(f, "fiu_fail") = "once"
         /\ After(f, "orig") \in {"once", "exit"}
         /\ After(f, "hash") \in {"orig", "exit"}
         /\ f # "fclose" => After(f, "hash") = "exit"
         /\ f = "ferror" => After(f, "orig") = "once"
         /\ f \in Closers => After(f, "orig") = "exit"
BY DEF After, Closers

\* Only the two wrappers for fclose() and ferror() look at the set of streams
\* without marking one.
LEMMA SetsNothing ==
  /\ Wrapped["fclose"].sets = NULL
  /\ Wrapped["clearerr"].sets = NULL
  /\ Wrapped["ferror"].sets = NULL /\ Wrapped["ferror"].declared = NULL
BY DEF Wrapped, fclose, clearerr, ferror, Wrapper
------------------------------------------------------------------------------
(***************************************************************************)
(* The stack of a thread.                                                  *)
(***************************************************************************)

\* The sum over the frames is a number.
LEMMA CountType ==
  ASSUME NEW s \in Seq(FrameType)
  PROVE  /\ IsFiniteSet(CountedIn(s)) /\ IsFiniteSet(BusyIn(s))
         /\ Cardinality(CountedIn(s)) \in Nat /\ Cardinality(BusyIn(s)) \in Nat
         /\ Count(s) \in Nat
<1>1. IsFiniteSet(1..Len(s))
  BY FS_Interval
<1>2. CountedIn(s) \in SUBSET (1..Len(s)) /\ BusyIn(s) \in SUBSET (1..Len(s))
  BY DEF CountedIn, BusyIn
<1>3. IsFiniteSet(CountedIn(s)) /\ IsFiniteSet(BusyIn(s))
  BY <1>1, <1>2, FS_Subset
<1> QED BY <1>3, FS_CardinalityType DEF Count

\* One more frame.
LEMMA CountAppend ==
  ASSUME NEW s \in Seq(FrameType), NEW x \in FrameType
  PROVE  Count(Append(s, x)) = Count(s) + Weight(x)
<1> DEFINE u == Append(s, x)
           n == Len(s) + 1
<1>1. /\ DOMAIN u = 1..n /\ DOMAIN s = 1..Len(s) /\ n \notin DOMAIN s
      /\ u[n] = x /\ \A i \in DOMAIN s : u[i] = s[i]
  OBVIOUS
<1>2. CountedIn(u) = IF x.counted THEN CountedIn(s) \cup {n} ELSE CountedIn(s)
  BY <1>1 DEF CountedIn
<1>3. BusyIn(u) = IF x.pc \in {"init", "create"} THEN BusyIn(s) \cup {n} ELSE BusyIn(s)
  BY <1>1 DEF BusyIn
<1>4. n \notin CountedIn(s) /\ n \notin BusyIn(s)
  BY <1>1 DEF CountedIn, BusyIn
<1> HIDE DEF u, n
<1>5. /\ Cardinality(CountedIn(s) \cup {n}) = Cardinality(CountedIn(s)) + 1
      /\ Cardinality(BusyIn(s) \cup {n}) = Cardinality(BusyIn(s)) + 1
  BY <1>4, CountType, FS_AddElement
<1>6. Count(u) = Count(s) + Weight(x)
  BY <1>2, <1>3, <1>5, CountType DEF Count, Weight, Busy
<1> QED BY <1>6 DEF u

\* One less, and another one in its place.
LEMMA Split ==
  ASSUME NEW s \in Seq(FrameType), s # <<>>
  PROVE  /\ Len(s) \in Nat \ {0} /\ Last(s) = s[Len(s)] /\ Last(s) \in FrameType
         /\ Front(s) \in Seq(FrameType) /\ Len(Front(s)) = Len(s) - 1
         /\ \A i \in 1..(Len(s) - 1) : Front(s)[i] = s[i]
         /\ s = Append(Front(s), Last(s))
         /\ \A x \in FrameType : [s EXCEPT ![Len(s)] = x] = Append(Front(s), x)
         /\ (Front(s) = <<>>) <=> Len(s) = 1
<1>1. /\ Len(s) \in Nat \ {0} /\ Last(s) = s[Len(s)] /\ Last(s) \in FrameType
      /\ Front(s) = SubSeq(s, 1, Len(s) - 1)
  BY DEF Last, Front
<1>2. /\ Front(s) \in Seq(FrameType) /\ Len(Front(s)) = Len(s) - 1
      /\ \A i \in 1..(Len(s) - 1) : Front(s)[i] = s[i]
  <2> DEFINE n == Len(s) - 1
  <2>1. n \in Nat /\ \A i \in 1..n : s[i] \in FrameType
    BY <1>1
  <2> HIDE DEF n
  <2>2. /\ SubSeq(s, 1, n) \in Seq(FrameType)
        /\ Len(SubSeq(s, 1, n)) = IF 1 <= n THEN n - 1 + 1 ELSE 0
        /\ \A i \in 1..(n - 1 + 1) : SubSeq(s, 1, n)[i] = s[1 + i - 1]
    BY <2>1, SubSeqProperties
  <2>3. /\ SubSeq(s, 1, n) \in Seq(FrameType) /\ Len(SubSeq(s, 1, n)) = n
        /\ \A i \in 1..n : SubSeq(s, 1, n)[i] = s[i]
    BY <2>1, <2>2
  <2> QED BY <1>1, <2>3 DEF n
<1>3. ASSUME NEW x \in FrameType
      PROVE  [s EXCEPT ![Len(s)] = x] = Append(Front(s), x)
  <2>1. [s EXCEPT ![Len(s)] = x] \in Seq(FrameType) /\ Append(Front(s), x) \in Seq(FrameType)
    BY <1>1, <1>2
  <2>2. Len([s EXCEPT ![Len(s)] = x]) = Len(s) /\ Len(Append(Front(s), x)) = Len(s)
    BY <1>1, <1>2
  <2>3. \A i \in 1..Len(s) : [s EXCEPT ![Len(s)] = x][i] = Append(Front(s), x)[i]
    BY <1>1, <1>2
  <2> QED BY <2>1, <2>2, <2>3, SeqEqual
<1>4. s = Append(Front(s), Last(s))
  <2>1. [s EXCEPT ![Len(s)] = Last(s)] = s
    BY <1>1
  <2> QED BY <1>1, <1>3, <2>1
<1>5. (Front(s) = <<>>) <=> Len(s) = 1
  <2>1. Front(s) # <<>> => Len(Front(s)) \in Nat \ {0}
    BY <1>2, EmptySeq
  <2>2. Front(s) = <<>> => Len(Front(s)) = 0
    BY EmptySeq
  <2> QED BY <1>1, <1>2, <2>1, <2>2
<1> QED BY <1>1, <1>2, <1>3, <1>4, <1>5

\* A good frame on top of good ones.
LEMMA AppendGood ==
  ASSUME NEW s \in Seq(FrameType), GoodStack(s), NEW x \in FrameType,
         GoodFrame(Len(s) + 1, x), s = <<>> => x.counted
  PROVE  GoodStack(Append(s, x))
<1>1. \A i \in 1..Len(Append(s, x)) :
         Append(s, x)[i] = IF i = Len(s) + 1 THEN x ELSE s[i]
  OBVIOUS
<1>2. Len(Append(s, x)) = Len(s) + 1 /\ Len(s) \in Nat
  OBVIOUS
<1>3. s = <<>> <=> Len(s) = 0
  OBVIOUS
<1> QED BY <1>1, <1>2, <1>3 DEF GoodStack

\* The frames below the top one.
LEMMA FrontGood ==
  ASSUME NEW s \in Seq(FrameType), GoodStack(s), s # <<>>
  PROVE  GoodStack(Front(s)) /\ GoodFrame(Len(s), Last(s))
<1>1. Front(s) # <<>> => 1 \in 1..(Len(s) - 1)
  BY Split
<1>2. \A i \in 1..(Len(s) - 1) : GoodFrame(i, Front(s)[i])
  BY Split DEF GoodStack
<1>3. GoodStack(Front(s))
  BY <1>1, <1>2, Split DEF GoodStack
<1>4. GoodFrame(Len(s), Last(s))
  <2>1. Len(s) \in 1..Len(s) /\ Last(s) = s[Len(s)]
    BY Split
  <2> QED BY <2>1 DEF GoodStack
<1> QED BY <1>3, <1>4

\* A wrapper whose own frame is the only one counts itself, so the counter of
\* its thread is not zero.
LEMMA CountPositive ==
  ASSUME NEW s \in Seq(FrameType), GoodStack(s), s # <<>>
  PROVE  Count(s) > 0
<1>1. 1 \in CountedIn(s)
  BY DEF GoodStack, CountedIn
<1>2. Cardinality(CountedIn(s)) # 0
  BY <1>1, CountType, FS_EmptySet
<1> QED BY <1>2, CountType DEF Count

\* Nothing is counted for a thread that is in no wrapper.
LEMMA CountEmpty == Count(<<>>) = 0
<1>1. CountedIn(<<>>) = {} /\ BusyIn(<<>>) = {}
  BY DEF CountedIn, BusyIn
<1>2. Cardinality(CountedIn(<<>>)) = 0 /\ Cardinality(BusyIn(<<>>)) = 0
  BY <1>1, FS_EmptySet
<1> QED BY <1>2 DEF Count
------------------------------------------------------------------------------
(***************************************************************************)
(* What the steps of a thread do to its frames.                            *)
(***************************************************************************)

\* Another frame in the place of the top one.
LEMMA ChangeTop ==
  ASSUME NEW s \in Seq(FrameType), GoodStack(s), s # <<>>, NEW x \in FrameType,
         GoodFrame(Len(s), x), x.counted = Last(s).counted
  PROVE  LET u == [s EXCEPT ![Len(s)] = x] IN
         /\ u \in Seq(FrameType) /\ u # <<>> /\ GoodStack(u)
         /\ Count(u) = Count(s) + Busy(x.pc) - Busy(Last(s).pc)
<1> DEFINE u == [s EXCEPT ![Len(s)] = x]
           f == Front(s)
<1>1. /\ f \in Seq(FrameType) /\ Len(f) + 1 = Len(s) /\ GoodStack(f)
      /\ u = Append(f, x) /\ s = Append(f, Last(s))
      /\ Last(s) \in FrameType
  BY Split, FrontGood
<1>2. f = <<>> => x.counted
  BY Split DEF GoodStack
<1> HIDE DEF f
<1>3. GoodStack(Append(f, x))
  BY <1>1, <1>2, AppendGood
<1>4. /\ Count(Append(f, x)) = Count(f) + Weight(x)
      /\ Count(Append(f, Last(s))) = Count(f) + Weight(Last(s))
      /\ Count(f) \in Nat
  BY <1>1, CountAppend, CountType
<1>5. Weight(x) - Weight(Last(s)) = Busy(x.pc) - Busy(Last(s).pc)
  BY <1>1 DEF Weight, Busy, FrameType
<1>6. Weight(x) \in Int /\ Weight(Last(s)) \in Int /\ Busy(x.pc) \in Int
      /\ Busy(Last(s).pc) \in Int
  BY DEF Weight, Busy
<1>7. Append(f, x) \in Seq(FrameType) /\ Append(f, x) # <<>>
  BY <1>1, AppendProperties
<1>8. Count(s) = Count(f) + Weight(Last(s))
  BY <1>1, <1>4
<1>9. Count(Append(f, x)) = Count(s) + Busy(x.pc) - Busy(Last(s).pc)
  BY <1>4, <1>5, <1>6, <1>8
<1>10. Count(u) = Count(s) + Busy(x.pc) - Busy(Last(s).pc)
  BY <1>1, <1>9
<1> QED BY <1>1, <1>3, <1>7, <1>10

\* What is known of the innermost frame of a thread.
LEMMA TopFacts ==
  ASSUME Frames, NEW t \in Threads, stack[t] # <<>>
  PROVE  /\ stack[t] \in Seq(FrameType) /\ GoodStack(stack[t])
         /\ Len(stack[t]) \in Nat \ {0} /\ stack[t][Len(stack[t])] = Top(t)
         /\ Top(t) \in FrameType /\ GoodFrame(Len(stack[t]), Top(t))
         /\ Len(stack[t]) = 1 => Top(t).counted
<1>1. stack[t] \in Seq(FrameType) /\ GoodStack(stack[t])
  BY DEF Frames
<1>2. Last(stack[t]) \in FrameType /\ GoodFrame(Len(stack[t]), Last(stack[t]))
  BY <1>1, Split, FrontGood
<1>3. Len(stack[t]) \in Nat \ {0} /\ Last(stack[t]) = stack[t][Len(stack[t])]
  BY <1>1, Split
<1>4. stack[t][1].counted
  BY <1>1 DEF GoodStack
<1> QED BY <1>1, <1>2, <1>3, <1>4 DEF Top

\* A thread of which the other threads see nothing.
LEMMA OneThread ==
  ASSUME Frames, NEW t \in Threads, NEW u, NEW n,
         u \in Seq(FrameType), GoodStack(u), n = Count(u),
         stack' = [stack EXCEPT ![t] = u], called' = [called EXCEPT ![t] = n]
  PROVE  Frames'
<1>1. n \in Nat
  BY CountType
<1>2. stack' \in [Threads -> Seq(FrameType)] /\ called' \in [Threads -> Nat]
  BY <1>1 DEF Frames
<1>3. ASSUME NEW q \in Threads
      PROVE  GoodStack(stack'[q]) /\ called'[q] = Count(stack'[q])
  BY DEF Frames
<1> QED BY <1>2, <1>3 DEF Frames, GoodStack, GoodFrame, Count, CountedIn, BusyIn

\* A thread that rewrites its top frame, and counts what it adds, keeps the frames
\* good and its counter right.
LEMMA ChangeFrames ==
  ASSUME Frames, NEW t \in Threads, stack[t] # <<>>, NEW x \in FrameType,
         GoodFrame(Len(stack[t]), x), x.counted = Top(t).counted,
         stack' = [stack EXCEPT ![t] = [stack[t] EXCEPT ![Len(stack[t])] = x]],
         rec_add(t, Busy(x.pc) - Busy(Top(t).pc))
  PROVE  Frames'
<1> DEFINE u == [stack[t] EXCEPT ![Len(stack[t])] = x]
           n == called[t] + (Busy(x.pc) - Busy(Top(t).pc))
<1>1. stack[t] \in Seq(FrameType) /\ GoodStack(stack[t]) /\ called[t] = Count(stack[t])
      /\ called[t] \in Nat
  BY DEF Frames
<1>2. u \in Seq(FrameType) /\ GoodStack(u)
      /\ Count(u) = Count(stack[t]) + Busy(x.pc) - Busy(Last(stack[t]).pc)
  BY <1>1, ChangeTop DEF Top
<1>3. n = Count(u)
  BY <1>1, <1>2 DEF Top, Busy
<1>4. called' = [called EXCEPT ![t] = n]
  BY DEF rec_add
<1> HIDE DEF u, n
<1>5. stack' = [stack EXCEPT ![t] = u]
  BY DEF u
<1> QED BY <1>2, <1>3, <1>4, <1>5, OneThread

\* A thread that enters a wrapper with a good frame keeps all frames good.
LEMMA PushFrames ==
  ASSUME Frames, NEW t \in Threads, NEW x \in FrameType,
         GoodFrame(Len(stack[t]) + 1, x), stack[t] = <<>> => x.counted,
         Push(t, x), rec_add(t, Weight(x))
  PROVE  Frames'
<1> DEFINE u == Append(stack[t], x)
           n == called[t] + Weight(x)
<1>1. stack[t] \in Seq(FrameType) /\ GoodStack(stack[t]) /\ called[t] = Count(stack[t])
  BY DEF Frames
<1>2. u \in Seq(FrameType) /\ GoodStack(u) /\ n = Count(u)
  BY <1>1, AppendGood, CountAppend, AppendProperties
<1>3. stack' = [stack EXCEPT ![t] = u] /\ called' = [called EXCEPT ![t] = n]
  BY DEF Push, rec_add
<1> HIDE DEF u, n
<1> QED BY <1>2, <1>3, OneThread

\* So does a thread that leaves its innermost wrapper and takes back what that
\* had counted.
LEMMA PopFrames ==
  ASSUME Frames, NEW t \in Threads, stack[t] # <<>>,
         stack' = [stack EXCEPT ![t] = Front(@)], rec_add(t, -Weight(Top(t)))
  PROVE  Frames'
<1> DEFINE u == Front(stack[t])
           n == called[t] + (-Weight(Top(t)))
<1>1. stack[t] \in Seq(FrameType) /\ GoodStack(stack[t]) /\ called[t] = Count(stack[t])
  BY DEF Frames
<1>2. u \in Seq(FrameType) /\ GoodStack(u) /\ stack[t] = Append(u, Last(stack[t]))
      /\ Last(stack[t]) \in FrameType
  BY <1>1, Split, FrontGood
<1>3. stack' = [stack EXCEPT ![t] = u] /\ called' = [called EXCEPT ![t] = n]
  BY DEF rec_add
<1> HIDE DEF u
<1>4. Count(stack[t]) = Count(u) + Weight(Last(stack[t])) /\ Count(u) \in Nat
  BY <1>2, CountAppend, CountType
<1>5. n = Count(u)
  BY <1>1, <1>4 DEF Top, Weight, Busy
<1> HIDE DEF n
<1> QED BY <1>2, <1>3, <1>5, OneThread

\* The part of the wrapper a frame may go on to, with the result r, and what it
\* is then.
MayGo(fr, where, r) ==
    /\ where \in Places \ {"reduce", "fiu_fail"}
    /\ fr.pc # "reduce"
    /\ ~fr.counted => where \in {"orig", "init", "exit"}
    /\ where \in {"init", "orig"} => r = 0
    /\ where \in {"once", "create", "lock", "hash"} /\ r = 1
          => Wrapped[fr.fn].sets # NULL

Gone(fr, where, r) == [fr EXCEPT !.pc = where, !.r = r]

\* A frame that goes on where it may is a good one.
LEMMA GoodGo ==
  ASSUME NEW i, NEW fr \in FrameType, GoodFrame(i, fr),
         NEW where, NEW r \in {0, 1}, MayGo(fr, where, r)
  PROVE  /\ Gone(fr, where, r) \in FrameType /\ GoodFrame(i, Gone(fr, where, r))
         /\ Gone(fr, where, r).counted = fr.counted /\ Gone(fr, where, r).pc = where
<1> DEFINE x == Gone(fr, where, r)
<1>1. /\ x.fn = fr.fn /\ x.sym = fr.sym /\ x.stream = fr.stream
      /\ x.count = fr.count /\ x.counted = fr.counted /\ x.pc = where
      /\ x.r = r /\ x.owed = fr.owed /\ x \in FrameType
  BY DEF FrameType, MayGo, Gone
<1> HIDE DEF x
<1>2. GoodFrame(i, x)
  BY <1>1 DEF GoodFrame, MayGo, FrameType
<1> QED BY <1>1, <1>2 DEF x

\* A step that takes the top frame there.
LEMMA ResultFrames ==
  ASSUME Frames, NEW t \in Threads, stack[t] # <<>>,
         NEW where, NEW r \in {0, 1}, MayGo(Top(t), where, r),
         stack' = [stack EXCEPT ![t][Len(stack[t])].pc = where,
                                ![t][Len(stack[t])].r = r],
         NEW k, k = Busy(where) - Busy(Top(t).pc), rec_add(t, k)
  PROVE  Frames'
<1> DEFINE x == Gone(Top(t), where, r)
<1>1. Top(t) \in FrameType /\ GoodFrame(Len(stack[t]), Top(t))
      /\ stack[t][Len(stack[t])] = Top(t) /\ Len(stack[t]) \in DOMAIN stack[t]
      /\ stack \in [Threads -> Seq(FrameType)]
  BY TopFacts DEF Frames
<1>2. x \in FrameType /\ GoodFrame(Len(stack[t]), x)
      /\ x.counted = Top(t).counted /\ x.pc = where
  BY <1>1, GoodGo
<1>3. stack' = [stack EXCEPT ![t] = [stack[t] EXCEPT ![Len(stack[t])] = x]]
  BY <1>1 DEF Gone
<1> HIDE DEF x
<1> QED BY <1>2, <1>3, ChangeFrames

\* Goto, with what it adds to _fiu_called, keeps the frames good.
LEMMA GotoFrames ==
  ASSUME Frames, NEW t \in Threads, stack[t] # <<>>,
         NEW where, MayGo(Top(t), where, Top(t).r), Goto(t, where),
         NEW k, k = Busy(where) - Busy(Top(t).pc), rec_add(t, k)
  PROVE  Frames'
<1> DEFINE x == Gone(Top(t), where, Top(t).r)
<1>1. Top(t) \in FrameType /\ GoodFrame(Len(stack[t]), Top(t))
      /\ stack[t][Len(stack[t])] = Top(t)
  BY TopFacts
<1>2. Top(t).r \in {0, 1}
  BY <1>1 DEF FrameType
<1>3. x \in FrameType /\ GoodFrame(Len(stack[t]), x)
      /\ x.counted = Top(t).counted /\ x.pc = where
  BY <1>1, <1>2, GoodGo
<1>4. x = [Top(t) EXCEPT !.pc = where]
  BY <1>1 DEF FrameType, Gone
<1>5. stack' = [stack EXCEPT ![t] = [stack[t] EXCEPT ![Len(stack[t])] = x]]
  BY <1>1, <1>4 DEF Goto
<1> HIDE DEF x
<1> QED BY <1>3, <1>5, ChangeFrames

\* A step that leaves the counter alone adds nothing to it.
LEMMA NothingAdded ==
  ASSUME Frames, NEW t \in Threads, UNCHANGED called
  PROVE  rec_add(t, 0)
<1>1. called \in [Threads -> Nat]
  BY DEF Frames
<1>2. [called EXCEPT ![t] = @ + 0] = called
  BY <1>1
<1> QED BY <1>2 DEF rec_add

\* To the end of the wrapper.
LEMMA FinishFrames ==
  ASSUME Frames, NEW t \in Threads, stack[t] # <<>>,
         Top(t).pc \notin {"reduce", "init", "create"},
         NEW r \in {0, 1}, Finish(t, r), UNCHANGED called
  PROVE  Frames'
<1>1. MayGo(Top(t), "exit", r)
  BY TopFacts DEF MayGo, Places, FrameType
<1>2. rec_add(t, 0) /\ 0 = Busy("exit") - Busy(Top(t).pc)
  BY NothingAdded DEF Busy
<1>3. stack' = [stack EXCEPT ![t][Len(stack[t])].pc = "exit",
                             ![t][Len(stack[t])].r = r]
  BY DEF Finish
<1> QED BY <1>1, <1>2, <1>3, ResultFrames
------------------------------------------------------------------------------
(***************************************************************************)
(* Entering a wrapper.                                                     *)
(***************************************************************************)

\* The frame a wrapper begins with, as the number i of its thread.
GoodEntry(i, f, sym, s, n, counted, where) ==
    /\ f \in DOMAIN Wrapped /\ sym \in Syms /\ s \in Streams \cup {NULL}
    /\ MayUse(f, s) /\ n \in Nat /\ counted \in BOOLEAN /\ where \in Places
    /\ i > 1 => where \notin {"reduce", "fiu_fail"}
    /\ i > 1 /\ counted => f = "clearerr"
    /\ f = "clearerr" => counted /\ where \notin {"reduce", "fiu_fail"}
    /\ ~counted => where \in {"orig", "init", "exit"}
    /\ Wrapped[f].reduce /\ counted => where = "reduce"

\* The frame that a wrapper begins with is a good one.
LEMMA NewFrame ==
  ASSUME NEW i, NEW f, NEW sym, NEW s, NEW n, NEW counted, NEW where,
         GoodEntry(i, f, sym, s, n, counted, where),
         NEW x, x = Frame(f, sym, s, n, counted, where)
  PROVE  /\ x \in FrameType /\ GoodFrame(i, x) /\ (counted => x.counted)
         /\ Weight(x) = (IF counted THEN 1 ELSE 0) + Busy(where)
<1>1. /\ x.fn = f /\ x.sym = sym /\ x.stream = s /\ x.count = n
      /\ x.counted = counted /\ x.pc = where /\ x.r = 0 /\ x \in FrameType
  BY DEF FrameType, Frame, GoodEntry
<1>2. Wrapped[f].declared # NULL \/ Wrapped[f].sets # NULL => s \in Streams
  BY WrappedFacts DEF Sane, MayUse, GoodEntry
<1>3. GoodFrame(i, x)
  BY <1>1, <1>2 DEF GoodFrame, GoodEntry
<1>4. Weight(x) = (IF counted THEN 1 ELSE 0) + Busy(where)
  BY <1>1 DEF Weight
<1> QED BY <1>1, <1>3, <1>4

\* A thread is in a wrapper when, and only when, its counter is above zero.
LEMMA CalledWithin ==
  ASSUME Frames, NEW t \in Threads
  PROVE  called[t] > 0 <=> stack[t] # <<>>
<1>1. stack[t] \in Seq(FrameType) /\ GoodStack(stack[t]) /\ called[t] = Count(stack[t])
  BY DEF Frames
<1> QED BY <1>1, CountPositive, CountEmpty

\* Entering a wrapper in a nested call, straight to libc (mkwrap_body_called).
LEMMA CalledFrames ==
  ASSUME Frames, NEW t \in Threads, NEW f \in DOMAIN Wrapped, f # "clearerr",
         NEW s \in Streams \cup {NULL}, MayUse(f, s), NEW n \in Nat,
         mkwrap_body_called(t, f, s, n)
  PROVE  Frames'
<1> DEFINE sym == Wrapped[f].nested
<1>1. called[t] > 0 /\ stack[t] # <<>> /\ Len(stack[t]) + 1 > 1
  BY CalledWithin, TopFacts DEF mkwrap_body_called
<1>2. sym \in Syms
  BY WrappedFacts DEF Sane
<1>3. PICK where \in {"orig", "exit", "init"} :
         Push(t, Frame(f, sym, s, n, FALSE, where)) /\ rec_add(t, Busy(where))
  BY NothingAdded DEF mkwrap_body_called, Busy
<1>4. where \in Places /\ where \notin {"reduce", "fiu_fail"} /\ Busy(where) \in Nat
  BY DEF Places, Busy
<1> DEFINE x == Frame(f, sym, s, n, FALSE, where)
           i == Len(stack[t]) + 1
<1> HIDE DEF sym, x, i
<1>5. x = Frame(f, sym, s, n, FALSE, where) /\ FALSE \in BOOLEAN
  BY DEF x
<1>6. i > 1
  BY <1>1 DEF i
<1>7. GoodEntry(i, f, sym, s, n, FALSE, where)
  BY <1>2, <1>4, <1>5, <1>6 DEF GoodEntry
<1>8. x \in FrameType /\ GoodFrame(i, x) /\ Weight(x) = Busy(where)
  <2> DEFINE c == FALSE
  <2>1. GoodEntry(i, f, sym, s, n, c, where) /\ x = Frame(f, sym, s, n, c, where)
    BY <1>5, <1>7
  <2> HIDE DEF c
  <2>2. /\ x \in FrameType /\ GoodFrame(i, x)
        /\ Weight(x) = (IF c THEN 1 ELSE 0) + Busy(where)
    BY <2>1, NewFrame
  <2> QED BY <1>4, <2>2 DEF c
<1>9. Push(t, x) /\ rec_add(t, Weight(x))
  BY <1>3, <1>8 DEF x
<1> QED BY <1>1, <1>8, <1>9, PushFrames DEF i

\* Entering one at the top, to ask fiu_fail() (mkwrap_top).
LEMMA TopFrames ==
  ASSUME Frames, NEW t \in Threads, NEW f \in DOMAIN Wrapped, f # "clearerr",
         NEW s \in Streams \cup {NULL}, MayUse(f, s), NEW n \in Nat,
         mkwrap_top(t, f, s, n)
  PROVE  Frames'
<1> DEFINE sym == Wrapped[f].orig
           where == IF Wrapped[f].reduce THEN "reduce" ELSE "fiu_fail"
           x == Frame(f, sym, s, n, TRUE, where)
           i == Len(stack[t]) + 1
<1>1. stack[t] = <<>> /\ Len(stack[t]) + 1 = 1
  BY CalledWithin, EmptySeq DEF mkwrap_top
<1>2. sym \in Syms
  BY WrappedFacts DEF Sane
<1>3. Push(t, x) /\ rec_add(t, 1)
  BY DEF mkwrap_top
<1>4. where \in Places /\ Busy(where) = 0 /\ (Wrapped[f].reduce => where = "reduce")
  BY DEF Places, Busy
<1> HIDE DEF sym, where
<1> HIDE DEF x, i
<1>5. x = Frame(f, sym, s, n, TRUE, where) /\ TRUE \in BOOLEAN /\ ~(i > 1)
  BY <1>1 DEF x, i
<1>6. GoodEntry(i, f, sym, s, n, TRUE, where)
  BY <1>2, <1>4, <1>5 DEF GoodEntry
<1>7. x \in FrameType /\ GoodFrame(i, x) /\ x.counted /\ Weight(x) = 1
  <2> DEFINE c == TRUE
  <2>1. GoodEntry(i, f, sym, s, n, c, where) /\ x = Frame(f, sym, s, n, c, where)
    BY <1>5, <1>6
  <2> HIDE DEF c
  <2>2. /\ x \in FrameType /\ GoodFrame(i, x) /\ (c => x.counted)
        /\ Weight(x) = (IF c THEN 1 ELSE 0) + Busy(where)
    BY <2>1, NewFrame
  <2> QED BY <1>4, <2>2 DEF c
<1>8. Push(t, x) /\ rec_add(t, Weight(x))
  BY <1>3, <1>7 DEF x
<1> QED BY <1>7, <1>8, PushFrames DEF i

\* Entering clearerr(), which counts itself wherever it is called from.
LEMMA ClearerrFrames ==
  ASSUME Frames, NEW t \in Threads, NEW s \in Streams \cup {NULL},
         MayUse("clearerr", s), clearerr_call(t, s)
  PROVE  Frames'
<1> DEFINE where == IF "clearerr" \in orig[t] THEN "orig" ELSE "init"
           x == Frame("clearerr", "clearerr", s, 0, TRUE, where)
           i == Len(stack[t]) + 1
<1>1. /\ "clearerr" \in DOMAIN Wrapped /\ Wrapped["clearerr"].orig = "clearerr"
      /\ Wrapped["clearerr"].reduce = FALSE
  BY DEF Wrapped, clearerr, Wrapper
<1>2. "clearerr" \in Syms
  BY <1>1 DEF Syms
<1>3. Push(t, x) /\ rec_add(t, IF "clearerr" \in orig[t] THEN 1 ELSE 2)
  BY DEF clearerr_call
<1>4. where \in Places /\ where \notin {"reduce", "fiu_fail"}
      /\ 1 + Busy(where) = IF "clearerr" \in orig[t] THEN 1 ELSE 2
  BY DEF Places, Busy
<1> HIDE DEF where, x, i
<1>5. x = Frame("clearerr", "clearerr", s, 0, TRUE, where) /\ TRUE \in BOOLEAN
      /\ 0 \in Nat
  BY DEF x
<1>6. GoodEntry(i, "clearerr", "clearerr", s, 0, TRUE, where)
  BY <1>1, <1>2, <1>4, <1>5 DEF GoodEntry
<1>7. x \in FrameType /\ GoodFrame(i, x) /\ x.counted /\ Weight(x) = 1 + Busy(where)
  <2> DEFINE c == TRUE  f == "clearerr"
  <2>1. GoodEntry(i, f, f, s, 0, c, where) /\ x = Frame(f, f, s, 0, c, where)
    BY <1>5, <1>6
  <2> HIDE DEF c, f
  <2>2. /\ x \in FrameType /\ GoodFrame(i, x) /\ (c => x.counted)
        /\ Weight(x) = (IF c THEN 1 ELSE 0) + Busy(where)
    BY <2>1, NewFrame
  <2> QED BY <2>2 DEF c
<1>8. Push(t, x) /\ rec_add(t, Weight(x))
  BY <1>3, <1>4, <1>7
<1> QED BY <1>7, <1>8, PushFrames DEF i

\* Entering any wrapper keeps the invariant.
LEMMA EnterStep ==
  ASSUME IInv, NEW t \in Threads, NEW f \in DOMAIN Wrapped, Enter(t, f),
         calls' \in [Threads -> Nat], nested' \in [Threads -> Nat]
  PROVE  IInv'
<1>1. PICK s \in Streams \cup {NULL}, n \in (IF Wrapped[f].reduce THEN Counts ELSE {0}) :
         /\ MayUse(f, s)
         /\ IF f = "clearerr" THEN clearerr_call(t, s)
            ELSE mkwrap_body_called(t, f, s, n) \/ mkwrap_top(t, f, s, n)
         /\ Begins(t, f, s)
         /\ UNCHANGED <<orig, setVars>>
  BY DEF Enter
<1>2. n \in Nat
  OBVIOUS
<1>3. Frames'
  BY <1>1, <1>2, ClearerrFrames, CalledFrames, TopFrames DEF IInv
<1>4. file' \in [Streams -> {"none", "closing"} \cup Openers]
  BY <1>1 DEF Begins, IInv, Rest
<1>5. owed' \subseteq Streams /\ overlapped' \subseteq Threads
  BY <1>1 DEF Begins, IInv, Rest
<1>6. UNCHANGED <<orig, once, mutex, ferror_set, injected>>
  BY <1>1 DEF Begins, setVars
<1> QED BY <1>3, <1>4, <1>5, <1>6 DEF IInv, Rest

\* A call by the program keeps the invariant.
LEMMA CallStep ==
  ASSUME IInv, NEW t \in Threads, Call(t)
  PROVE  IInv'
<1>1. PICK f \in Program[t][calls'[t]] : Enter(t, f)
  BY DEF Call
<1>2. calls \in [Threads -> Nat] /\ calls' = [calls EXCEPT ![t] = @ + 1]
      /\ calls[t] < Len(Program[t])
  BY DEF Call, IInv, Rest
<1>3. calls' \in [Threads -> Nat] /\ nested' \in [Threads -> Nat]
      /\ calls'[t] \in 1..Len(Program[t])
  BY <1>2 DEF Call, IInv, Rest
<1>4. f \in DOMAIN Wrapped
  BY <1>1, <1>3
<1> QED BY <1>1, <1>3, <1>4, EnterStep

\* A call by a callback, the linker, libc or hash.c keeps it: it finds the counter
\* above zero, for the outermost wrapper has counted itself.
LEMMA NestedCallStep ==
  ASSUME IInv, NEW t \in Threads, NestedCall(t)
  PROVE  IInv'
<1>1. PICK f \in Callees \cup Callbacks : Enter(t, f)
  BY DEF NestedCall
<1>2. calls' \in [Threads -> Nat] /\ nested' \in [Threads -> Nat]
  BY DEF NestedCall, IInv, Rest
<1> QED BY <1>1, <1>2, EnterStep
------------------------------------------------------------------------------
(***************************************************************************)
(* The steps inside a wrapper.                                             *)
(***************************************************************************)

\* mkwrap_body_reduce() leaves at least one byte to read or write.
LEMMA ReduceStep ==
  ASSUME IInv, NEW t \in Threads, mkwrap_body_reduce(t)
  PROVE  IInv'
<1>1. stack[t] # <<>> /\ Top(t).pc = "reduce"
  BY DEF mkwrap_body_reduce, At
<1>2. PICK k \in 0..(Top(t).count - 1) :
         stack' = [stack EXCEPT ![t][Len(stack[t])].pc = "fiu_fail",
                                ![t][Len(stack[t])].count = @ - k]
  BY DEF mkwrap_body_reduce
<1>3. /\ Top(t) \in FrameType /\ GoodFrame(Len(stack[t]), Top(t))
      /\ stack[t][Len(stack[t])] = Top(t) /\ Len(stack[t]) \in DOMAIN stack[t]
      /\ stack \in [Threads -> Seq(FrameType)]
  BY <1>1, TopFacts DEF IInv, Frames
<1> DEFINE x == [Top(t) EXCEPT !.pc = "fiu_fail", !.count = @ - k]
<1>4. /\ x.fn = Top(t).fn /\ x.stream = Top(t).stream
      /\ x.counted = Top(t).counted /\ x.pc = "fiu_fail" /\ x.r = Top(t).r
      /\ x.count = Top(t).count - k
  BY <1>3 DEF FrameType
<1>5. x.count \in Nat /\ x.count > 0
  BY <1>3, <1>4 DEF FrameType
<1>6. x \in FrameType
  BY <1>3, <1>5 DEF FrameType, Places
<1>7. stack' = [stack EXCEPT ![t] = [stack[t] EXCEPT ![Len(stack[t])] = x]]
  BY <1>2, <1>3
<1> HIDE DEF x
<1>8. GoodFrame(Len(stack[t]), x)
  BY <1>1, <1>3, <1>4, <1>5 DEF GoodFrame
<1>9. rec_add(t, 0) /\ Busy(x.pc) - Busy(Top(t).pc) = 0
  BY <1>1, <1>4, NothingAdded DEF mkwrap_body_reduce, Busy, IInv
<1>10. Frames'
  BY <1>1, <1>4, <1>6, <1>7, <1>8, <1>9, ChangeFrames DEF IInv
<1> QED BY <1>10 DEF mkwrap_body_reduce, IInv, Rest, setVars, bounds, history

\* A wrapper that is made to fail goes to the set only if it marks a stream.
LEMMA FailsStep ==
  ASSUME IInv, NEW t \in Threads, mkwrap_body_fails(t)
  PROVE  IInv'
<1>1. stack[t] # <<>> /\ Top(t).pc = "fiu_fail" /\ UNCHANGED called
  BY DEF mkwrap_body_fails, At
<1>2. Top(t) \in FrameType /\ GoodFrame(Len(stack[t]), Top(t))
  BY <1>1, TopFacts DEF IInv
<1>3. rec_add(t, 0)
  BY <1>1, NothingAdded DEF IInv
<1>4. CASE Wrapped[Top(t).fn].sets = NULL
  <2>1. Frames'
    BY <1>1, <1>4, FinishFrames DEF mkwrap_body_fails, IInv
  <2> QED BY <1>4, <2>1 DEF mkwrap_body_fails, IInv, Rest, setVars, bounds
<1>5. CASE Wrapped[Top(t).fn].sets # NULL
  <2>1. MayGo(Top(t), "once", 1) /\ 0 = Busy("once") - Busy(Top(t).pc)
    BY <1>1, <1>2, <1>5 DEF MayGo, GoodFrame, FrameType, Places, Busy
  <2>2. stack' = [stack EXCEPT ![t][Len(stack[t])].pc = "once",
                               ![t][Len(stack[t])].r = 1]
    BY <1>5 DEF mkwrap_body_fails
  <2>3. Frames'
    BY <1>1, <1>3, <2>1, <2>2, ResultFrames DEF IInv
  <2>4. Top(t).stream \in Streams
    BY <1>2, <1>5 DEF GoodFrame
  <2>5. injected' \subseteq Streams
    BY <1>5, <2>4 DEF mkwrap_body_fails, IInv, Rest
  <2> QED BY <2>3, <2>5 DEF mkwrap_body_fails, IInv, Rest, setVars, bounds
<1> QED BY <1>4, <1>5

\* On to the next part, or to the function that finds it.
LEMMA ContinueFrames ==
  ASSUME Frames, NEW t \in Threads, stack[t] # <<>>,
         Top(t).pc \in {"fiu_fail", "hash"}, Top(t).r = 0,
         NEW where \in {"fiu_fail", "hash"}, Continue(t, where)
  PROVE  Frames'
<1>1. Top(t) \in FrameType /\ GoodFrame(Len(stack[t]), Top(t))
  BY TopFacts
<1>2. /\ After(Top(t).fn, where) \in {"orig", "once", "exit"}
      /\ Top(t).counted /\ Busy(Top(t).pc) = 0
  BY <1>1, AfterFacts DEF GoodFrame, Busy, FrameType
<1>3. PICK to \in {"orig", "once", "exit", "init"} :
         Goto(t, to) /\ rec_add(t, Busy(to))
  BY <1>2, NothingAdded DEF Continue, Busy
<1>4. MayGo(Top(t), to, Top(t).r) /\ Busy(to) = Busy(to) - Busy(Top(t).pc)
  BY <1>2, <1>3 DEF MayGo, Places, Busy
<1> QED BY <1>3, <1>4, GotoFrames

\* One that passes goes to libc, and counts the lookup if it has to look it up.
LEMMA PassesStep ==
  ASSUME IInv, NEW t \in Threads, mkwrap_body_passes(t)
  PROVE  IInv'
<1>1. stack[t] # <<>> /\ Top(t).pc = "fiu_fail"
  BY DEF mkwrap_body_passes, At
<1>2. Top(t).r = 0
  BY <1>1, TopFacts DEF IInv, GoodFrame
<1>3. Frames'
  BY <1>1, <1>2, ContinueFrames DEF mkwrap_body_passes, IInv
<1> QED BY <1>3 DEF mkwrap_body_passes, IInv, Rest, setVars, bounds, history

\* The lookup is over, and no longer counted.
LEMMA InitStep ==
  ASSUME IInv, NEW t \in Threads, mkwrap_init(t)
  PROVE  IInv'
<1>1. stack[t] # <<>> /\ Top(t).pc = "init"
  BY DEF mkwrap_init, At
<1>2. Top(t) \in FrameType /\ GoodFrame(Len(stack[t]), Top(t))
  BY <1>1, TopFacts DEF IInv
<1>3. MayGo(Top(t), "orig", Top(t).r) /\ -1 = Busy("orig") - Busy(Top(t).pc)
  BY <1>1, <1>2 DEF MayGo, GoodFrame, Places, Busy
<1>4. Frames'
  BY <1>1, <1>3, GotoFrames DEF mkwrap_init, IInv
<1>5. orig' \in [Threads -> SUBSET Syms]
  BY <1>2 DEF mkwrap_init, IInv, Rest, FrameType
<1> QED BY <1>4, <1>5 DEF mkwrap_init, IInv, Rest, setVars, bounds, history

\* The wrapper returns and takes back what it counted.
LEMMA ExitStep ==
  ASSUME IInv, NEW t \in Threads, exit(t)
  PROVE  IInv'
<1>1. stack[t] # <<>> /\ Top(t).pc = "exit"
  BY DEF exit, At
<1>2. Top(t) \in FrameType /\ GoodFrame(Len(stack[t]), Top(t))
  BY <1>1, TopFacts DEF IInv
<1>3. -Weight(Top(t)) = IF Top(t).counted THEN -1 ELSE 0
  BY <1>1 DEF Weight, Busy
<1>4. rec_add(t, -Weight(Top(t)))
  BY <1>3 DEF exit
<1>5. Frames'
  BY <1>1, <1>4, PopFrames DEF exit, IInv
<1>6. owed' \subseteq Streams
  BY <1>2 DEF exit, Learns, GoodFrame, IInv, Rest
<1>7. overlapped' \subseteq Threads
  BY DEF exit, IInv, Rest
<1> QED BY <1>5, <1>6, <1>7 DEF exit, IInv, Rest, setVars, bounds

\* The function of libc returns.
LEMMA ReturnFrames ==
  ASSUME Frames, NEW t \in Threads, At(t, "orig"), Return(t), UNCHANGED called
  PROVE  Frames'
<1>1. stack[t] # <<>> /\ Top(t).pc = "orig"
  BY DEF At
<1>2. Top(t) \in FrameType /\ GoodFrame(Len(stack[t]), Top(t))
  BY <1>1, TopFacts
<1>3. CASE Top(t).counted
  <2> DEFINE to == After(Top(t).fn, "orig")
  <2>1. to \in {"once", "exit"} /\ Top(t).r = 0
    BY <1>1, <1>2, AfterFacts DEF GoodFrame
  <2>2. Goto(t, to)
    BY <1>3 DEF Return
  <2> HIDE DEF to
  <2>3. MayGo(Top(t), to, Top(t).r) /\ 0 = Busy(to) - Busy(Top(t).pc)
    BY <1>1, <1>3, <2>1 DEF MayGo, Places, Busy
  <2>4. rec_add(t, 0)
    BY NothingAdded
  <2> QED BY <1>1, <2>2, <2>3, <2>4, GotoFrames
<1>4. CASE ~Top(t).counted
  <2>1. Finish(t, 0) /\ 0 \in {0, 1}
    BY <1>4 DEF Return
  <2> QED BY <1>1, <2>1, FinishFrames
<1> QED BY <1>3, <1>4

\* The call of libc adds nothing to the counter.
LEMMA LibcStep ==
  ASSUME IInv, NEW t \in Threads,
         \/ orig_open(t) \/ orig_close(t) \/ orig_clearerr(t)
         \/ orig_ferror(t) \/ orig_other(t)
  PROVE  IInv'
<1>1. At(t, "orig") /\ UNCHANGED <<called, orig, setVars, bounds, owed, overlapped>>
  BY DEF orig_open, orig_close, orig_clearerr, orig_ferror, orig_other, AtLibc,
         history
<1>2. Frames'
  <2>1. CASE Return(t)
    BY <1>1, <2>1, ReturnFrames DEF IInv
  <2>2. CASE Finish(t, 1)
    <3>1. stack[t] # <<>> /\ Top(t).pc \notin {"reduce", "init", "create"} /\ 1 \in {0, 1}
      BY <1>1 DEF At
    <3> QED BY <1>1, <2>2, <3>1, FinishFrames DEF IInv
  <2> QED BY <2>1, <2>2 DEF orig_open, orig_close, orig_clearerr, orig_ferror,
                            orig_other
<1>3. file' \in [Streams -> {"none", "closing"} \cup Openers]
      /\ injected' \subseteq Streams
  BY DEF orig_open, orig_close, orig_clearerr, orig_ferror, orig_other, AtLibc,
         history, IInv, Rest
<1> QED BY <1>1, <1>2, <1>3 DEF IInv, Rest, setVars, bounds
------------------------------------------------------------------------------
(***************************************************************************)
(* The set of streams.                                                     *)
(***************************************************************************)

\* pthread_once(): whoever creates the set counts that.
LEMMA OnceStep ==
  ASSUME IInv, NEW t \in Threads, pthread_once(t)
  PROVE  IInv'
<1>1. stack[t] # <<>> /\ Top(t).pc = "once"
  BY DEF pthread_once, At
<1>2. Top(t) \in FrameType /\ GoodFrame(Len(stack[t]), Top(t))
  BY <1>1, TopFacts DEF IInv
<1>3. /\ MayGo(Top(t), "lock", Top(t).r) /\ 0 = Busy("lock") - Busy(Top(t).pc)
      /\ MayGo(Top(t), "create", Top(t).r) /\ 1 = Busy("create") - Busy(Top(t).pc)
  BY <1>1, <1>2 DEF MayGo, GoodFrame, Places, Busy
<1>4. CASE Goto(t, "lock") /\ UNCHANGED <<called, once, mutex>>
  <2>1. rec_add(t, 0)
    BY <1>4, NothingAdded DEF IInv
  <2>2. Frames'
    BY <1>1, <1>3, <1>4, <2>1, GotoFrames DEF IInv
  <2> QED BY <1>4, <2>2 DEF pthread_once, IInv, Rest, bounds, history
<1>5. CASE Goto(t, "create") /\ rec_add(t, 1) /\ once' = t /\ mutex' = t
  <2>1. Frames'
    BY <1>1, <1>3, <1>5, GotoFrames DEF IInv
  <2> QED BY <1>5, <2>1 DEF pthread_once, IInv, Rest, bounds, history
<1> QED BY <1>4, <1>5 DEF pthread_once

\* The set is created, and its creation no longer counted.
LEMMA CreateStep ==
  ASSUME IInv, NEW t \in Threads, hash_create(t)
  PROVE  IInv'
<1>1. stack[t] # <<>> /\ Top(t).pc = "create"
  BY DEF hash_create, At
<1>2. Top(t) \in FrameType /\ GoodFrame(Len(stack[t]), Top(t))
  BY <1>1, TopFacts DEF IInv
<1>3. MayGo(Top(t), "lock", Top(t).r) /\ -1 = Busy("lock") - Busy(Top(t).pc)
  BY <1>1, <1>2 DEF MayGo, GoodFrame, Places, Busy
<1>4. Frames'
  BY <1>1, <1>3, GotoFrames DEF hash_create, IInv
<1> QED BY <1>4 DEF hash_create, IInv, Rest, bounds, history

\* The lock of the set, and its use, leave the counter alone.
LEMMA LockStep ==
  ASSUME IInv, NEW t \in Threads, ferror_lock(t)
  PROVE  IInv'
<1>1. stack[t] # <<>> /\ Top(t).pc = "lock"
  BY DEF ferror_lock, At
<1>2. Top(t) \in FrameType /\ GoodFrame(Len(stack[t]), Top(t))
  BY <1>1, TopFacts DEF IInv
<1>3. MayGo(Top(t), "hash", Top(t).r) /\ 0 = Busy("hash") - Busy(Top(t).pc)
  BY <1>1, <1>2 DEF MayGo, GoodFrame, Places, Busy
<1>4. rec_add(t, 0)
  BY NothingAdded DEF ferror_lock, IInv
<1>5. Frames'
  BY <1>1, <1>3, <1>4, GotoFrames DEF ferror_lock, IInv
<1> QED BY <1>5 DEF ferror_lock, IInv, Rest, bounds, history

\* set_ferror() marks a stream, for only wrappers that have one get there.
LEMMA SetStep ==
  ASSUME IInv, NEW t \in Threads, set_ferror(t)
  PROVE  IInv'
<1>1. stack[t] # <<>> /\ Top(t).pc = "hash" /\ Top(t).r = 1
  BY DEF set_ferror, At
<1>2. Top(t) \in FrameType /\ GoodFrame(Len(stack[t]), Top(t))
  BY <1>1, TopFacts DEF IInv
<1>3. MayGo(Top(t), "exit", Top(t).r) /\ 0 = Busy("exit") - Busy(Top(t).pc)
  BY <1>1, <1>2 DEF MayGo, GoodFrame, Places, Busy
<1>4. rec_add(t, 0)
  BY NothingAdded DEF set_ferror, IInv
<1>5. Frames'
  BY <1>1, <1>3, <1>4, GotoFrames DEF set_ferror, IInv
<1> DEFINE w == Wrapped[Top(t).fn]
<1>6. w.sets # NULL /\ Top(t).stream \in Streams
  BY <1>1, <1>2 DEF GoodFrame
<1>7. w.sets = "arg" \/ w.sets \in Streams
  BY <1>2, <1>6, WrappedFacts DEF Sane, FrameType
<1>8. ferror_set' \subseteq Streams
  BY <1>6, <1>7 DEF set_ferror, IInv, Rest
<1> QED BY <1>5, <1>8 DEF set_ferror, IInv, Rest, bounds, history

\* get_ferror() answers, and the wrapper is over.
LEMMA GetStep ==
  ASSUME IInv, NEW t \in Threads, get_ferror(t)
  PROVE  IInv'
<1>1. stack[t] # <<>> /\ Top(t).pc = "hash"
  BY DEF get_ferror, At
<1>2. PICK r \in {0, 1} : Finish(t, r)
  BY DEF get_ferror
<1>3. Frames'
  BY <1>1, <1>2, FinishFrames DEF get_ferror, IInv
<1> QED BY <1>3 DEF get_ferror, IInv, Rest, bounds, history

\* clear_ferror() goes on to libc's function, if it is fclose()'s.
LEMMA ClearStep ==
  ASSUME IInv, NEW t \in Threads, clear_ferror(t)
  PROVE  IInv'
<1>1. stack[t] # <<>> /\ Top(t).pc = "hash" /\ Top(t).fn \in {"fclose", "clearerr"}
  BY DEF clear_ferror, At
<1>2. Top(t) \in FrameType /\ GoodFrame(Len(stack[t]), Top(t))
  BY <1>1, TopFacts DEF IInv
<1>3. Top(t).r = 0
  BY <1>1, <1>2, SetsNothing DEF GoodFrame, FrameType
<1>4. Frames'
  BY <1>1, <1>3, ContinueFrames DEF clear_ferror, IInv
<1> QED BY <1>4 DEF clear_ferror, IInv, Rest, bounds, history
------------------------------------------------------------------------------
(***************************************************************************)
(* The invariant, and what it implies.                                     *)
(***************************************************************************)

\* After the constructors nobody is in a wrapper, and nothing is counted.
LEMMA IInvInit == Init => IInv
<1> SUFFICES ASSUME Init PROVE IInv
  OBVIOUS
<1>1. Rest
  BY DEF Init, Rest, Syms, Openers
<1>2. \A t \in Threads : stack[t] = <<>> /\ called[t] = 0
  BY DEF Init
<1>3. GoodStack(<<>>)
  BY EmptySeq DEF GoodStack
<1>4. stack \in [Threads -> Seq(FrameType)] /\ called \in [Threads -> Nat]
  BY EmptySeq DEF Init
<1> QED BY <1>1, <1>2, <1>3, <1>4, CountEmpty DEF IInv, Frames

\* Every step of every thread keeps the invariant.
LEMMA IInvNext == IInv /\ [Next]_vars => IInv'
<1> SUFFICES ASSUME IInv, [Next]_vars PROVE IInv'
  OBVIOUS
<1>1. CASE UNCHANGED vars
  <2>1. Rest'
    BY <1>1 DEF IInv, Rest, vars, setVars, bounds, history
  <2>2. stack' = stack /\ called' = called
    BY <1>1 DEF vars
  <2>3. Frames'
    BY <2>2 DEF IInv, Frames
  <2> QED BY <2>1, <2>3 DEF IInv
<1>2. ASSUME NEW t \in Threads, Call(t) \/ NestedCall(t) \/ Step(t)
      PROVE  IInv'
  <2>1. ASSUME Step(t) PROVE IInv'
    BY <2>1, ReduceStep, FailsStep, PassesStep, InitStep, ExitStep, LibcStep,
       OnceStep, CreateStep, LockStep, SetStep, GetStep, ClearStep DEF Step
  <2> QED BY <1>2, <2>1, CallStep, NestedCallStep
<1> QED BY <1>1, <1>2 DEF Next

\* The counter _fiu_called of each thread is what its wrappers have added to it, in
\* every state that the preloader can be in.
THEOREM Invariance == Spec => []IInv
<1> QED BY IInvInit, IInvNext, PTL DEF Spec

\* The frames of a thread, as the properties name them.
LEMMA StackFacts ==
  ASSUME IInv, NEW t \in Threads
  PROVE  /\ stack[t] \in Seq(FrameType) /\ GoodStack(stack[t])
         /\ called[t] = Count(stack[t])
BY DEF IInv, Frames

\* The variables keep their types, and a read or write that was shortened still asks
\* for at least one byte (mkwrap_body_reduce).
THEOREM TypeCorrect == Spec => []TypeOK
<1>1. ASSUME IInv PROVE TypeOK
  <2>1. ASSUME NEW t \in Threads, NEW fr \in ToSet(stack[t])
        PROVE  /\ fr.fn \in DOMAIN Wrapped
               /\ fr.pc \in Places
               /\ fr.stream \in Streams \cup {NULL}
               /\ fr.r \in {0, 1}
               /\ fr.count \in Nat
               /\ Wrapped[fr.fn].reduce /\ fr.counted /\ fr.pc # "reduce"
                     => fr.count > 0
    <3>1. PICK i \in 1..Len(stack[t]) : fr = stack[t][i]
      BY <1>1, StackFacts DEF ToSet
    <3>2. fr \in FrameType /\ GoodFrame(i, fr)
      BY <1>1, <3>1, StackFacts DEF GoodStack
    <3> QED BY <3>2 DEF FrameType, GoodFrame
  <2> QED BY <1>1, <2>1 DEF IInv, Rest, Frames, TypeOK, Syms
<1> QED BY <1>1, Invariance, PTL

\* A call of a wrapped function by libfiu, the linker, libc or hash.c never asks
\* fiu_fail(), for the outermost wrapper has counted itself (mkwrap_body_called).
THEOREM FailsOnlyAtTopCorrect == Spec => []FailsOnlyAtTop
<1>1. ASSUME IInv PROVE FailsOnlyAtTop
  <2>1. ASSUME NEW t \in Threads, NEW i \in 2..Len(stack[t])
        PROVE  stack[t][i].pc \notin {"reduce", "fiu_fail"}
    <3>1. GoodFrame(i, stack[t][i]) /\ i > 1
      BY <1>1, StackFacts DEF GoodStack
    <3> QED BY <3>1 DEF GoodFrame
  <2> QED BY <2>1 DEF FailsOnlyAtTop
<1> QED BY <1>1, Invariance, PTL

\* Whatever the way out of the wrappers, the recursion counter is zero again when
\* the outermost one has returned.
THEOREM CountedOutCorrect == Spec => []CountedOut
<1>1. ASSUME IInv PROVE CountedOut
  BY <1>1, StackFacts, CountEmpty DEF CountedOut
<1> QED BY <1>1, Invariance, PTL
------------------------------------------------------------------------------
(***************************************************************************)
(* No dlsym() within the same dlsym().                                     *)
(***************************************************************************)

\* The functions a thread is looking up are different ones.
InitOnce(s) ==
    \A i, j \in DOMAIN s :
        s[i].pc = "init" /\ s[j].pc = "init" /\ s[i].sym = s[j].sym => i = j

\* All frames of u but number n are those of s, or have left the look up.
Keeps(s, u, n) ==
    \A i \in DOMAIN u \ {n} : u[i].pc = "init" =>
        i \in DOMAIN s /\ s[i].pc = "init" /\ s[i].sym = u[i].sym

\* A stack with at most one new lookup, of a function that nobody in it is
\* looking up, still looks each function up once.
LEMMA KeepsInitOnce ==
  ASSUME NEW s, InitOnce(s), NEW u, NEW n, Keeps(s, u, n),
         \A i \in DOMAIN s : s[i].pc = "init" /\ i # n /\ u[n].pc = "init"
                                => s[i].sym # u[n].sym
  PROVE  InitOnce(u)
BY DEF InitOnce, Keeps

\* A step that changes the top frame of a thread to y, of the same call.
Rewritten(t, y) ==
    /\ stack' = [stack EXCEPT ![t] = [stack[t] EXCEPT ![Len(stack[t])] = y]]
    /\ y.fn = Top(t).fn /\ y.sym = Top(t).sym /\ y.stream = Top(t).stream
    /\ y.counted = Top(t).counted /\ y.owed = Top(t).owed

\* A step within a wrapper keeps that, if a lookup begins only in the outermost.
LEMMA RewrittenInitOnce ==
  ASSUME Frames, NEW t \in Threads, stack[t] # <<>>, InitOnce(stack[t]),
         NEW y, Rewritten(t, y), y.pc = "init" => Len(stack[t]) = 1
  PROVE  InitOnce(stack'[t])
<1> DEFINE s == stack[t]
           n == Len(s)
           u == [s EXCEPT ![n] = y]
<1>1. s \in Seq(FrameType) /\ n \in Nat \ {0} /\ DOMAIN s = 1..n
  BY TopFacts
<1>2. stack'[t] = u
  BY DEF Rewritten, Frames
<1>3. DOMAIN u = 1..n /\ u[n] = y /\ \A i \in 1..n \ {n} : u[i] = s[i]
  BY <1>1
<1>4. Keeps(s, u, n)
  BY <1>1, <1>3 DEF Keeps
<1>5. \A i \in DOMAIN s : s[i].pc = "init" /\ i # n /\ u[n].pc = "init"
                             => s[i].sym # u[n].sym
  BY <1>1, <1>3
<1>6. InitOnce(s)
  OBVIOUS
<1> HIDE DEF s, u, n
<1>7. InitOnce(u)
  BY <1>4, <1>5, <1>6, KeepsInitOnce
<1> QED BY <1>2, <1>7

\* The other two ways to rewrite it.
SetsResult(t, where, r) ==
    stack' = [stack EXCEPT ![t][Len(stack[t])].pc = where,
                           ![t][Len(stack[t])].r = r]

SetsCount(t, where, k) ==
    stack' = [stack EXCEPT ![t][Len(stack[t])].pc = where,
                           ![t][Len(stack[t])].count = @ - k]

\* Goto, Finish and the like rewrite the top frame.
LEMMA GotoRewrites ==
  ASSUME Frames, NEW t \in Threads, stack[t] # <<>>, NEW where,
         Goto(t, where)
  PROVE  \E y : Rewritten(t, y) /\ y.pc = where /\ y.r = Top(t).r
<1> DEFINE y == [Top(t) EXCEPT !.pc = where]
<1>1. /\ Top(t) \in FrameType /\ stack[t][Len(stack[t])] = Top(t)
      /\ Len(stack[t]) \in DOMAIN stack[t] /\ stack \in [Threads -> Seq(FrameType)]
  BY TopFacts DEF Frames
<1>2. /\ y.fn = Top(t).fn /\ y.sym = Top(t).sym /\ y.stream = Top(t).stream
      /\ y.counted = Top(t).counted /\ y.owed = Top(t).owed
      /\ y.pc = where /\ y.r = Top(t).r
  BY <1>1 DEF FrameType
<1>3. stack' = [stack EXCEPT ![t] = [stack[t] EXCEPT ![Len(stack[t])] = y]]
  BY <1>1 DEF Goto
<1> HIDE DEF y
<1>4. Rewritten(t, y) /\ y.pc = where /\ y.r = Top(t).r
  BY <1>2, <1>3 DEF Rewritten
<1> QED BY <1>4

\* A step to a place with a result rewrites the top frame.
LEMMA ResultRewrites ==
  ASSUME Frames, NEW t \in Threads, stack[t] # <<>>, NEW where,
         NEW r, SetsResult(t, where, r)
  PROVE  \E y : Rewritten(t, y) /\ y.pc = where /\ y.r = r
<1> DEFINE y == [Top(t) EXCEPT !.pc = where, !.r = r]
<1>1. /\ Top(t) \in FrameType /\ stack[t][Len(stack[t])] = Top(t)
      /\ Len(stack[t]) \in DOMAIN stack[t] /\ stack \in [Threads -> Seq(FrameType)]
  BY TopFacts DEF Frames
<1>2. /\ y.fn = Top(t).fn /\ y.sym = Top(t).sym /\ y.stream = Top(t).stream
      /\ y.counted = Top(t).counted /\ y.owed = Top(t).owed
      /\ y.pc = where /\ y.r = r
  BY <1>1 DEF FrameType
<1>3. stack' = [stack EXCEPT ![t] = [stack[t] EXCEPT ![Len(stack[t])] = y]]
  BY <1>1 DEF SetsResult
<1> HIDE DEF y
<1>4. Rewritten(t, y) /\ y.pc = where /\ y.r = r
  BY <1>2, <1>3 DEF Rewritten
<1> QED BY <1>4

\* So does a shortened read or write.
LEMMA CountRewrites ==
  ASSUME Frames, NEW t \in Threads, stack[t] # <<>>, NEW where,
         NEW k, SetsCount(t, where, k)
  PROVE  \E y : Rewritten(t, y) /\ y.pc = where /\ y.r = Top(t).r
<1> DEFINE y == [Top(t) EXCEPT !.pc = where, !.count = @ - k]
<1>1. /\ Top(t) \in FrameType /\ stack[t][Len(stack[t])] = Top(t)
      /\ Len(stack[t]) \in DOMAIN stack[t] /\ stack \in [Threads -> Seq(FrameType)]
  BY TopFacts DEF Frames
<1>2. /\ y.fn = Top(t).fn /\ y.sym = Top(t).sym /\ y.stream = Top(t).stream
      /\ y.counted = Top(t).counted /\ y.owed = Top(t).owed
      /\ y.pc = where /\ y.r = Top(t).r
  BY <1>1 DEF FrameType
<1>3. stack' = [stack EXCEPT ![t] = [stack[t] EXCEPT ![Len(stack[t])] = y]]
  BY <1>1 DEF SetsCount
<1> HIDE DEF y
<1>4. Rewritten(t, y) /\ y.pc = where /\ y.r = Top(t).r
  BY <1>2, <1>3 DEF Rewritten
<1> QED BY <1>4

\* A wrapper that asks fiu_fail(), or counts itself, is the outermost one.
LEMMA Outermost ==
  ASSUME Frames, NEW t \in Threads, stack[t] # <<>>,
         \/ Top(t).pc \in {"reduce", "fiu_fail"}
         \/ Top(t).counted /\ Top(t).fn # "clearerr"
  PROVE  Len(stack[t]) = 1
<1> DEFINE n == Len(stack[t])
<1>1. GoodFrame(n, Top(t)) /\ n \in Nat \ {0}
  BY TopFacts
<1> HIDE DEF n
<1>2. ~(n > 1)
  BY <1>1 DEF GoodFrame
<1>3. n = 1
  BY <1>1, <1>2
<1> QED BY <1>3 DEF n

\* Every step inside a wrapper but the last; only the outermost frame comes to
\* a look up this way.
LEMMA StepRewrites ==
  ASSUME IInv, NEW t \in Threads, Step(t), ~exit(t)
  PROVE  /\ stack[t] # <<>>
         /\ \E y : Rewritten(t, y) /\ (y.pc = "init" => Len(stack[t]) = 1)
<1>1. stack[t] # <<>>
  BY DEF Step, mkwrap_body_reduce, mkwrap_body_fails, mkwrap_body_passes,
         mkwrap_init, orig_open, orig_close, orig_clearerr, orig_ferror, orig_other,
         pthread_once, hash_create, ferror_lock, set_ferror, get_ferror,
         clear_ferror, AtLibc, At
<1>2. Frames /\ Top(t) \in FrameType /\ GoodFrame(Len(stack[t]), Top(t))
      /\ Len(stack[t]) \in Nat \ {0}
  BY <1>1, TopFacts DEF IInv
<1>3. ASSUME NEW where, where # "init", Goto(t, where)
      PROVE  \E y : Rewritten(t, y) /\ (y.pc = "init" => Len(stack[t]) = 1)
  BY <1>1, <1>2, <1>3, GotoRewrites
<1>4. ASSUME NEW r, Finish(t, r)
      PROVE  \E y : Rewritten(t, y) /\ (y.pc = "init" => Len(stack[t]) = 1)
  <2>1. PICK y : Rewritten(t, y) /\ y.pc = "exit"
    <3>1. SetsResult(t, "exit", r)
      BY <1>4 DEF Finish, SetsResult
    <3> QED BY <1>1, <1>2, <3>1, ResultRewrites
  <2> QED BY <2>1
<1>5. ASSUME mkwrap_body_reduce(t)
      PROVE  \E y : Rewritten(t, y) /\ (y.pc = "init" => Len(stack[t]) = 1)
  <2>1. PICK y : Rewritten(t, y) /\ y.pc = "fiu_fail"
    <3>1. PICK k : SetsCount(t, "fiu_fail", k)
      BY <1>5 DEF mkwrap_body_reduce, SetsCount
    <3> QED BY <1>1, <1>2, <3>1, CountRewrites
  <2> QED BY <2>1
<1>6. ASSUME mkwrap_body_fails(t)
      PROVE  \E y : Rewritten(t, y) /\ (y.pc = "init" => Len(stack[t]) = 1)
  <2>1. CASE Finish(t, 1)
    BY <1>4, <2>1
  <2>2. CASE stack' = [stack EXCEPT ![t][Len(stack[t])].pc = "once",
                                    ![t][Len(stack[t])].r = 1]
    <3>1. PICK y : Rewritten(t, y) /\ y.pc = "once"
      <4>1. SetsResult(t, "once", 1)
        BY <2>2 DEF SetsResult
      <4> QED BY <1>1, <1>2, <4>1, ResultRewrites
    <3> QED BY <3>1
  <2> QED BY <1>6, <2>1, <2>2 DEF mkwrap_body_fails
<1>7. ASSUME mkwrap_body_passes(t) \/ clear_ferror(t)
      PROVE  \E y : Rewritten(t, y) /\ (y.pc = "init" => Len(stack[t]) = 1)
  <2>1. PICK where : Goto(t, where) /\
           (where = "init" => \/ mkwrap_body_passes(t)
                              \/ clear_ferror(t) /\ After(Top(t).fn, "hash") = "orig")
    BY <1>7, AfterFacts DEF mkwrap_body_passes, clear_ferror, Continue
  <2>2. ASSUME where = "init" PROVE Len(stack[t]) = 1
    <3>1. CASE mkwrap_body_passes(t)
      BY <1>1, <1>2, <3>1, Outermost DEF mkwrap_body_passes, At
    <3>2. CASE clear_ferror(t) /\ After(Top(t).fn, "hash") = "orig"
      <4>1. Top(t).fn = "fclose" /\ Top(t).pc = "hash"
        BY <3>2, AfterFacts DEF clear_ferror, At
      <4>2. Top(t).counted
        BY <1>2, <4>1 DEF GoodFrame
      <4> QED BY <1>1, <1>2, <4>1, <4>2, Outermost
    <3> QED BY <2>1, <2>2, <3>1, <3>2
  <2>3. PICK y : Rewritten(t, y) /\ y.pc = where
    BY <1>1, <1>2, <2>1, GotoRewrites
  <2> QED BY <2>2, <2>3
<1>8. ASSUME At(t, "orig"), Return(t)
      PROVE  \E y : Rewritten(t, y) /\ (y.pc = "init" => Len(stack[t]) = 1)
  <2>1. After(Top(t).fn, "orig") # "init"
    BY AfterFacts
  <2> QED BY <1>3, <1>4, <1>8, <2>1 DEF Return
<1>9. ASSUME orig_open(t) \/ orig_close(t) \/ orig_clearerr(t) \/ orig_ferror(t)
             \/ orig_other(t)
      PROVE  \E y : Rewritten(t, y) /\ (y.pc = "init" => Len(stack[t]) = 1)
  BY <1>4, <1>8, <1>9 DEF orig_open, orig_close, orig_clearerr, orig_ferror,
                          orig_other, AtLibc
<1>10. ASSUME mkwrap_init(t) \/ pthread_once(t) \/ hash_create(t) \/ ferror_lock(t)
              \/ set_ferror(t)
      PROVE  \E y : Rewritten(t, y) /\ (y.pc = "init" => Len(stack[t]) = 1)
  BY <1>3, <1>10 DEF mkwrap_init, pthread_once, hash_create, ferror_lock, set_ferror
<1>11. ASSUME get_ferror(t)
      PROVE  \E y : Rewritten(t, y) /\ (y.pc = "init" => Len(stack[t]) = 1)
  <2> DEFINE r == IF Top(t).stream \in ferror_set THEN 1 ELSE 0
  <2>1. Finish(t, r)
    BY <1>11 DEF get_ferror
  <2> HIDE DEF r
  <2> QED BY <1>4, <2>1
<1> QED BY <1>1, <1>5, <1>6, <1>7, <1>9, <1>10, <1>11 DEF Step

\* The other threads.
LEMMA OthersInitOnce ==
  ASSUME Frames, \A p \in Threads : InitOnce(stack[p]), NEW t \in Threads, NEW u,
         stack' = [stack EXCEPT ![t] = u], InitOnce(u)
  PROVE  \A p \in Threads : InitOnce(stack'[p])
<1>1. ASSUME NEW p \in Threads PROVE stack'[p] = IF p = t THEN u ELSE stack[p]
  BY DEF Frames
<1> QED BY <1>1

\* A new frame.
LEMMA PushInitOnce ==
  ASSUME NEW s \in Seq(FrameType), InitOnce(s), NEW x,
         x.pc = "init" => \A i \in DOMAIN s : s[i].pc = "init" => s[i].sym # x.sym
  PROVE  InitOnce(Append(s, x))
<1> DEFINE u == Append(s, x)
           n == Len(s) + 1
<1>1. /\ DOMAIN u = 1..n /\ DOMAIN s = 1..Len(s) /\ n \notin DOMAIN s
      /\ u[n] = x /\ \A i \in DOMAIN s : u[i] = s[i]
  OBVIOUS
<1>2. DOMAIN u \ {n} \subseteq DOMAIN s
  BY <1>1
<1> HIDE DEF u, n
<1>3. Keeps(s, u, n)
  BY <1>1, <1>2 DEF Keeps
<1>4. \A i \in DOMAIN s : s[i].pc = "init" /\ i # n /\ u[n].pc = "init"
                             => s[i].sym # u[n].sym
  BY <1>1
<1>5. InitOnce(u)
  BY <1>3, <1>4, KeepsInitOnce
<1> QED BY <1>5 DEF u

\* A call that libfiu, the linker, libc or the hash table makes: clearerr(),
\* which looks its function up without a question, is called only by callbacks.
LEMMA EnterInitOnce ==
  ASSUME IInv, NEW t \in Threads, InitOnce(stack[t]), NEW f, Enter(t, f),
         f = "clearerr" => stack[t] = <<>> \/ At(t, "fiu_fail")
  PROVE  \E u : stack' = [stack EXCEPT ![t] = u] /\ InitOnce(u)
<1> DEFINE w == Wrapped[f]
<1>1. stack[t] \in Seq(FrameType) /\ GoodStack(stack[t]) /\ Frames
  BY StackFacts DEF IInv
<1>2. ASSUME NEW x, Push(t, x),
             x.pc = "init" => \A i \in DOMAIN stack[t] :
                                 stack[t][i].pc = "init" => stack[t][i].sym # x.sym
      PROVE  \E u : stack' = [stack EXCEPT ![t] = u] /\ InitOnce(u)
  <2>1. InitOnce(Append(stack[t], x))
    BY <1>1, <1>2, PushInitOnce
  <2> QED BY <1>2, <2>1 DEF Push
<1>3. PICK s, n : IF f = "clearerr" THEN clearerr_call(t, s)
                  ELSE mkwrap_body_called(t, f, s, n) \/ mkwrap_top(t, f, s, n)
  BY DEF Enter
<1>4. CASE f = "clearerr"
  <2>1. PICK x : Push(t, x)
    BY <1>3, <1>4 DEF clearerr_call
  <2>2. ASSUME NEW i \in DOMAIN stack[t] PROVE stack[t][i].pc # "init"
    <3>1. stack[t] # <<>>
      BY <2>2
    <3>2. Top(t).pc = "fiu_fail" /\ Len(stack[t]) = 1
      BY <1>1, <1>4, <3>1, Outermost DEF At
    <3>3. i = Len(stack[t]) /\ stack[t][Len(stack[t])] = Top(t)
      <4>1. stack[t][Len(stack[t])] = Top(t)
        BY <1>1, <3>1, TopFacts
      <4>2. DOMAIN stack[t] = 1..Len(stack[t])
        BY <1>1, LenProperties
      <4> QED BY <3>2, <4>1, <4>2
    <3> QED BY <3>2, <3>3
  <2> QED BY <1>2, <2>1, <2>2
<1>5. CASE mkwrap_top(t, f, s, n)
  <2> DEFINE x == Frame(f, w.orig, s, n, TRUE,
                        IF w.reduce THEN "reduce" ELSE "fiu_fail")
  <2>1. Push(t, x) /\ x.pc # "init"
    BY <1>5 DEF mkwrap_top, Frame
  <2> HIDE DEF x
  <2> QED BY <1>2, <2>1
<1>6. CASE mkwrap_body_called(t, f, s, n)
  <2>1. PICK where : /\ Push(t, Frame(f, w.nested, s, n, FALSE, where))
                     /\ where = "init" => w.nested \notin InInit(t)
    <3> DEFINE Nested(where) == Push(t, Frame(f, w.nested, s, n, FALSE, where))
    <3>1. CASE w.nested \in orig[t]
      <4>1. Nested("orig")
        BY <1>6, <3>1 DEF mkwrap_body_called
      <4> HIDE DEF Nested, w
      <4>2. Nested("orig") /\ ("orig" = "init" => w.nested \notin InInit(t))
        BY <4>1
      <4> QED BY <4>2 DEF Nested
    <3>2. CASE w.nested \notin orig[t] /\ w.nested \in InInit(t)
      <4>1. Nested("exit")
        BY <1>6, <3>2 DEF mkwrap_body_called
      <4> HIDE DEF Nested, w
      <4>2. Nested("exit") /\ ("exit" = "init" => w.nested \notin InInit(t))
        BY <4>1
      <4> QED BY <4>2 DEF Nested
    <3>3. CASE w.nested \notin orig[t] /\ w.nested \notin InInit(t)
      BY <1>6, <3>3 DEF mkwrap_body_called
    <3> QED BY <3>1, <3>2, <3>3
  <2> DEFINE x == Frame(f, w.nested, s, n, FALSE, where)
  <2>2. Push(t, x) /\ x.pc = where /\ x.sym = w.nested
    BY <2>1 DEF Frame
  <2>3. ASSUME where = "init", NEW i \in DOMAIN stack[t], stack[t][i].pc = "init"
        PROVE  stack[t][i].sym # w.nested
    <3>1. stack[t][i] \in ToSet(stack[t])
      BY DEF ToSet
    <3>2. stack[t][i].sym \in InInit(t)
      BY <2>3, <3>1 DEF InInit
    <3> QED BY <2>1, <2>3, <3>2
  <2> HIDE DEF x
  <2> QED BY <1>2, <2>2, <2>3
<1> QED BY <1>3, <1>4, <1>5, <1>6

\* Every step of a thread keeps InitOnce: a nested call that finds the lookup of its
\* function in progress is refused (mkwrap_body_called).
LEMMA InitOnceNext ==
  ASSUME "clearerr" \notin Callees, IInv, \A p \in Threads : InitOnce(stack[p]),
         NEW t \in Threads, Call(t) \/ NestedCall(t) \/ Step(t)
  PROVE  \A p \in Threads : InitOnce(stack'[p])
<1>1. Frames /\ InitOnce(stack[t])
  BY DEF IInv
<1>2. CASE Call(t) \/ NestedCall(t)
  <2>1. PICK f : Enter(t, f) /\ (f = "clearerr" => stack[t] = <<>> \/ At(t, "fiu_fail"))
    BY <1>2 DEF Call, NestedCall
  <2>2. PICK u : stack' = [stack EXCEPT ![t] = u] /\ InitOnce(u)
    BY <1>1, <2>1, EnterInitOnce
  <2> QED BY <1>1, <2>2, OthersInitOnce
<1>3. CASE exit(t)
  <2> DEFINE s == stack[t]  u == Front(s)
  <2>1. s \in Seq(FrameType) /\ s # <<>>
    BY <1>3, StackFacts DEF exit, At
  <2>2. /\ DOMAIN u = 1..(Len(s) - 1) /\ DOMAIN s = 1..Len(s)
        /\ \A i \in DOMAIN u : i \in DOMAIN s /\ u[i] = s[i]
    <3>1. /\ Len(s) \in Nat /\ u \in Seq(FrameType) /\ Len(u) = Len(s) - 1
          /\ \A i \in 1..(Len(s) - 1) : u[i] = s[i]
      BY <2>1, Split
    <3>2. DOMAIN u = 1..Len(u) /\ DOMAIN s = 1..Len(s)
      BY <2>1, <3>1, LenProperties
    <3> HIDE DEF s, u
    <3> QED BY <3>1, <3>2
  <2>3. InitOnce(u)
    BY <1>1, <2>2 DEF InitOnce
  <2>4. stack' = [stack EXCEPT ![t] = u]
    BY <1>3 DEF exit
  <2> HIDE DEF u
  <2> QED BY <1>1, <2>3, <2>4, OthersInitOnce
<1>4. CASE Step(t) /\ ~exit(t)
  <2>1. PICK y : Rewritten(t, y) /\ (y.pc = "init" => Len(stack[t]) = 1)
    BY <1>4, StepRewrites
  <2>2. stack[t] # <<>>
    BY <1>4, StepRewrites
  <2>3. InitOnce(stack'[t])
    BY <1>1, <2>1, <2>2, RewrittenInitOnce
  <2> DEFINE u == [stack[t] EXCEPT ![Len(stack[t])] = y]
  <2>4. stack' = [stack EXCEPT ![t] = u] /\ stack'[t] = u
    BY <1>1, <2>1 DEF Rewritten, Frames
  <2> HIDE DEF u
  <2> QED BY <1>1, <2>3, <2>4, OthersInitOnce
<1> QED BY <1>2, <1>3, <1>4

\* dlsym() is not called for a function that the same thread is looking up, as
\* long as what libc and the linker call does not include clearerr(), the one
\* wrapper that does not look whether it is being looked up.
THEOREM InitNeverRecursesCorrect ==
  ASSUME "clearerr" \notin Callees
  PROVE  Spec => []InitNeverRecurses
<1> DEFINE Inv == \A p \in Threads : InitOnce(stack[p])
<1>1. Init => Inv
  <2> SUFFICES ASSUME Init PROVE Inv
    OBVIOUS
  <2>1. DOMAIN <<>> = {}
    OBVIOUS
  <2> QED BY <2>1 DEF Init, InitOnce
<1>2. IInv /\ Inv /\ [Next]_vars => Inv'
  <2> SUFFICES ASSUME IInv, Inv, [Next]_vars PROVE Inv'
    OBVIOUS
  <2>1. CASE UNCHANGED vars
    BY <2>1 DEF vars
  <2>2. CASE Next
    BY <2>2, InitOnceNext DEF Next
  <2> QED BY <2>1, <2>2
<1>3. Inv => InitNeverRecurses
  BY DEF InitOnce, InitNeverRecurses
<1> QED BY <1>1, <1>2, <1>3, Invariance, PTL DEF Spec
------------------------------------------------------------------------------
(***************************************************************************)
(* The streams.                                                            *)
(*                                                                         *)
(* What the properties of ferror() rest on is who else has a stream while  *)
(* a wrapper is at work on it.                                             *)
(***************************************************************************)

\* A thread that closes a stream is alone with it until libc has closed it.
Closing(fr) == fr.fn \in Closers /\ fr.pc # "exit"

ClosersAlone ==
    \A t \in Threads : \A i \in DOMAIN stack[t] :
        /\ stack[t][i].fn \in Closers => stack[t][i].stream \in Streams
        /\ Closing(stack[t][i]) =>
              /\ file[stack[t][i].stream] = "closing"
              /\ \A u \in Threads : \A j \in DOMAIN stack[u] :
                    u # t \/ j # i => stack[u][j].stream # stack[t][i].stream

\* Whoever works on a stream that somebody clears is overlapped.
ClearersKnown ==
    \A t \in Threads : \A i \in DOMAIN stack[t] :
        stack[t][i].fn = "clearerr" =>
            \A u \in Threads : \A j \in DOMAIN stack[u] :
                /\ u # t \/ j # i
                /\ stack[u][j].stream = stack[t][i].stream
                => u \in overlapped

\* The set is created once, before anything is put in.
Created ==
    /\ ferror_set # {} => once = "done"
    /\ \A t \in Threads : \A i \in DOMAIN stack[t] :
          /\ stack[t][i].pc \in {"lock", "hash"} => once = "done"
          /\ stack[t][i].pc = "create" =>
                /\ once = t
                /\ \A u \in Threads : \A j \in DOMAIN stack[u] :
                      stack[u][j].pc = "create" => u = t /\ j = i

\* A failure that the program has seen, or is about to see, is in the set.
Failed(fr) == fr.r = 1 /\ Wrapped[fr.fn].declared # NULL /\ fr.pc = "exit"

FailuresKept ==
    /\ owed \subseteq ferror_set
    /\ \A t \in Threads : \A i \in DOMAIN stack[t] :
          /\ stack[t][i].stream \in owed =>
                stack[t][i].fn # "clearerr" /\ ~Closing(stack[t][i])
          /\ Failed(stack[t][i]) /\ t \notin overlapped =>
                stack[t][i].stream \in ferror_set

\* What ferror() will answer.
Asks(fr) == fr.fn = "ferror" /\ fr.counted /\ fr.owed

AnswersKept ==
    \A t \in Threads : \A i \in DOMAIN stack[t] :
        Asks(stack[t][i]) /\ t \notin overlapped =>
            IF stack[t][i].pc = "exit" THEN stack[t][i].r = 1
            ELSE stack[t][i].stream \in owed

\* The wrappers that the program and libc call mark the stream they declare:
\* ungetc() does not, for want of "valid errnos:".
MarksDeclared(f) == Wrapped[f].declared = Wrapped[f].sets

Honest ==
    \A t \in Threads : \A i \in DOMAIN stack[t] :
        /\ MarksDeclared(stack[t][i].fn)
        /\ Wrapped[stack[t][i].fn].sets \notin {NULL, "arg"} =>
              stack[t][i].stream = Wrapped[stack[t][i].fn].sets

SInv == ClosersAlone /\ ClearersKnown /\ Created /\ FailuresKept /\ AnswersKept /\ Honest

\* An entry of the set is younger than the stream: who is about to put one in
\* has failed since it was opened, and who closes it has taken it out.
Pending(fr) == fr.r = 1 /\ fr.pc \in {"once", "create", "lock", "hash"}

YoungFrame(fr, since, set) ==
    /\ Pending(fr) => fr.stream \in since
    /\ Wrapped[fr.fn].sets \notin {NULL, "arg"} => fr.stream = Wrapped[fr.fn].sets
    /\ fr.fn # "pclose"
    /\ fr.fn = "fclose" =>
          /\ fr.counted
          /\ fr.pc \in {"init", "orig"} => fr.stream \notin set

Young ==
    /\ ferror_set \subseteq injected
    /\ \A t \in Threads : \A i \in DOMAIN stack[t] :
          YoungFrame(stack[t][i], injected, ferror_set)

YInv == ClosersAlone /\ Young
------------------------------------------------------------------------------
(***************************************************************************)
(* The steps inside a wrapper, and the streams.                            *)
(***************************************************************************)

\* Where the frames are after a step that rewrites one.
LEMMA RewrittenPlaces ==
  ASSUME Frames, NEW t \in Threads, stack[t] # <<>>, NEW y, Rewritten(t, y)
  PROVE  /\ Len(stack[t]) \in DOMAIN stack[t] /\ stack[t][Len(stack[t])] = Top(t)
         /\ \A u \in Threads : DOMAIN stack'[u] = DOMAIN stack[u]
         /\ \A u \in Threads : \A j \in DOMAIN stack[u] :
               stack'[u][j] = IF u = t /\ j = Len(stack[t]) THEN y ELSE stack[u][j]
<1>1. Len(stack[t]) \in DOMAIN stack[t] /\ stack[t][Len(stack[t])] = Top(t)
  BY TopFacts
<1>2. stack' = [stack EXCEPT ![t] = [stack[t] EXCEPT ![Len(stack[t])] = y]]
      /\ stack \in [Threads -> Seq(FrameType)]
  BY DEF Rewritten, Frames
<1>3. ASSUME NEW u \in Threads
      PROVE  stack'[u] = IF u = t THEN [stack[t] EXCEPT ![Len(stack[t])] = y]
                         ELSE stack[u]
  BY <1>2
<1>4. ASSUME NEW u \in Threads
      PROVE  DOMAIN stack'[u] = DOMAIN stack[u]
  BY <1>3
<1>5. ASSUME NEW u \in Threads, NEW j \in DOMAIN stack[u]
      PROVE  stack'[u][j] = IF u = t /\ j = Len(stack[t]) THEN y ELSE stack[u][j]
  BY <1>1, <1>3
<1> QED BY <1>1, <1>4, <1>5

\* A step of the thread t within the wrapper it is in.
Moves(t, y) ==
    /\ stack[t] # <<>> /\ Rewritten(t, y) /\ Top(t).pc # "exit"
    /\ owed' = owed /\ overlapped' = overlapped

\* A step within a wrapper leaves those alone who close a stream.
LEMMA ClosersMove ==
  ASSUME IInv, ClosersAlone, NEW t \in Threads, NEW y, Moves(t, y),
         \A s \in Streams : file[s] = "closing" =>
            file'[s] = "closing" \/ (s = Top(t).stream /\ Closing(Top(t)) /\ ~Closing(y))
  PROVE  ClosersAlone'
<1> DEFINE n == Len(stack[t])
<1>1. /\ n \in DOMAIN stack[t] /\ stack[t][n] = Top(t)
      /\ \A u \in Threads : DOMAIN stack'[u] = DOMAIN stack[u]
      /\ \A u \in Threads : \A j \in DOMAIN stack[u] :
            stack'[u][j] = IF u = t /\ j = n THEN y ELSE stack[u][j]
  BY RewrittenPlaces DEF Moves, IInv
<1>2. y.fn = Top(t).fn /\ y.stream = Top(t).stream /\ Top(t).pc # "exit"
  BY DEF Moves, Rewritten
<1> HIDE DEF n
<1>3. \A u \in Threads : \A j \in DOMAIN stack[u] :
         /\ stack'[u][j].fn = stack[u][j].fn
         /\ stack'[u][j].stream = stack[u][j].stream
         /\ Closing(stack'[u][j]) => Closing(stack[u][j])
  BY <1>1, <1>2 DEF Closing
<1>4. ASSUME NEW u \in Threads, NEW j \in DOMAIN stack[u], Closing(stack'[u][j])
      PROVE  file'[stack[u][j].stream] = "closing"
  <2>1. Closing(stack[u][j]) /\ stack[u][j].fn \in Closers
    BY <1>3, <1>4 DEF Closing
  <2>2. stack[u][j].stream \in Streams /\ file[stack[u][j].stream] = "closing"
    BY <2>1 DEF ClosersAlone
  <2>3. ASSUME stack[u][j].stream = Top(t).stream, Closing(Top(t)), ~Closing(y)
        PROVE  FALSE
    <3>1. u = t /\ j = n
      BY <1>1, <2>1, <2>3 DEF ClosersAlone
    <3> QED BY <1>1, <1>4, <2>3, <3>1
  <2> QED BY <2>2, <2>3
<1>5. ASSUME NEW u \in Threads, NEW j \in DOMAIN stack[u], Closing(stack'[u][j]),
             NEW v \in Threads, NEW k \in DOMAIN stack[v], v # u \/ k # j
      PROVE  stack[v][k].stream # stack[u][j].stream
  BY <1>3, <1>5 DEF ClosersAlone
<1>6. \A u \in Threads : \A j \in DOMAIN stack[u] :
         stack[u][j].fn \in Closers => stack[u][j].stream \in Streams
  BY DEF ClosersAlone
<1>7. ASSUME NEW u \in Threads, NEW j \in DOMAIN stack'[u]
      PROVE  /\ stack'[u][j].fn \in Closers => stack'[u][j].stream \in Streams
             /\ Closing(stack'[u][j]) => file'[stack'[u][j].stream] = "closing"
  <2>1. j \in DOMAIN stack[u]
    BY <1>1
  <2>2. /\ stack'[u][j].fn = stack[u][j].fn
        /\ stack'[u][j].stream = stack[u][j].stream
    BY <1>3, <2>1
  <2>3. Closing(stack'[u][j]) => file'[stack[u][j].stream] = "closing"
    BY <1>4, <2>1
  <2>4. stack[u][j].fn \in Closers => stack[u][j].stream \in Streams
    BY <1>6, <2>1
  <2> QED BY <2>2, <2>3, <2>4
<1>8. ASSUME NEW u \in Threads, NEW j \in DOMAIN stack'[u], Closing(stack'[u][j]),
             NEW v \in Threads, NEW k \in DOMAIN stack'[v], v # u \/ k # j
      PROVE  stack'[v][k].stream # stack'[u][j].stream
  <2>1. j \in DOMAIN stack[u] /\ k \in DOMAIN stack[v]
    BY <1>1
  <2> QED BY <1>3, <1>5, <1>8, <2>1
<1> QED BY <1>7, <1>8 DEF ClosersAlone, Closing

\* A step within a wrapper does not make anybody clear a stream.
LEMMA ClearersMove ==
  ASSUME IInv, ClearersKnown, NEW t \in Threads, NEW y, Moves(t, y)
  PROVE  ClearersKnown'
<1> DEFINE n == Len(stack[t])
<1>1. /\ n \in DOMAIN stack[t] /\ stack[t][n] = Top(t)
      /\ \A u \in Threads : DOMAIN stack'[u] = DOMAIN stack[u]
      /\ \A u \in Threads : \A j \in DOMAIN stack[u] :
            stack'[u][j] = IF u = t /\ j = n THEN y ELSE stack[u][j]
  BY RewrittenPlaces DEF Moves, IInv
<1>2. y.fn = Top(t).fn /\ y.stream = Top(t).stream /\ overlapped' = overlapped
  BY DEF Moves, Rewritten
<1>3. \A u \in Threads : \A j \in DOMAIN stack[u] :
         /\ stack'[u][j].fn = stack[u][j].fn
         /\ stack'[u][j].stream = stack[u][j].stream
  BY <1>1, <1>2
<1> HIDE DEF n
<1>4. ASSUME NEW u \in Threads, NEW j \in DOMAIN stack'[u], stack'[u][j].fn = "clearerr",
             NEW v \in Threads, NEW k \in DOMAIN stack'[v], v # u \/ k # j,
             stack'[v][k].stream = stack'[u][j].stream
      PROVE  v \in overlapped'
  <2>1. j \in DOMAIN stack[u] /\ k \in DOMAIN stack[v]
    BY <1>1, <1>4
  <2>2. stack[u][j].fn = "clearerr" /\ stack[v][k].stream = stack[u][j].stream
    BY <1>3, <1>4, <2>1
  <2> QED BY <1>2, <1>4, <2>1, <2>2 DEF ClearersKnown
<1> QED BY <1>4 DEF ClearersKnown

\* A step within a wrapper does not change which function it is for.
LEMMA HonestMove ==
  ASSUME IInv, Honest, NEW t \in Threads, NEW y, Moves(t, y)
  PROVE  Honest'
<1> DEFINE n == Len(stack[t])
<1>1. /\ n \in DOMAIN stack[t] /\ stack[t][n] = Top(t)
      /\ \A u \in Threads : DOMAIN stack'[u] = DOMAIN stack[u]
      /\ \A u \in Threads : \A j \in DOMAIN stack[u] :
            stack'[u][j] = IF u = t /\ j = n THEN y ELSE stack[u][j]
  BY RewrittenPlaces DEF Moves, IInv
<1>2. y.fn = Top(t).fn /\ y.stream = Top(t).stream
  BY DEF Moves, Rewritten
<1>3. \A u \in Threads : \A j \in DOMAIN stack[u] :
         /\ stack'[u][j].fn = stack[u][j].fn
         /\ stack'[u][j].stream = stack[u][j].stream
  BY <1>1, <1>2
<1> HIDE DEF n
<1>4. ASSUME NEW u \in Threads, NEW j \in DOMAIN stack'[u]
      PROVE  /\ MarksDeclared(stack'[u][j].fn)
             /\ Wrapped[stack'[u][j].fn].sets \notin {NULL, "arg"} =>
                    stack'[u][j].stream = Wrapped[stack'[u][j].fn].sets
  <2>1. j \in DOMAIN stack[u]
    BY <1>1
  <2>2. /\ MarksDeclared(stack[u][j].fn)
        /\ Wrapped[stack[u][j].fn].sets \notin {NULL, "arg"} =>
              stack[u][j].stream = Wrapped[stack[u][j].fn].sets
    BY <2>1 DEF Honest
  <2> QED BY <1>3, <2>1, <2>2
<1> QED BY <1>4 DEF Honest, MarksDeclared

\* A step within a wrapper keeps what ferror() will answer, if it answers so.
LEMMA AnswersMove ==
  ASSUME IInv, AnswersKept, NEW t \in Threads, NEW y, Moves(t, y),
         Asks(y) /\ t \notin overlapped /\ y.pc = "exit" => y.r = 1
  PROVE  AnswersKept'
<1> DEFINE n == Len(stack[t])
<1>1. /\ n \in DOMAIN stack[t] /\ stack[t][n] = Top(t)
      /\ \A u \in Threads : DOMAIN stack'[u] = DOMAIN stack[u]
      /\ \A u \in Threads : \A j \in DOMAIN stack[u] :
            stack'[u][j] = IF u = t /\ j = n THEN y ELSE stack[u][j]
  BY RewrittenPlaces DEF Moves, IInv
<1>2. /\ Asks(y) <=> Asks(Top(t)) 
      /\ y.stream = Top(t).stream /\ Top(t).pc # "exit"
      /\ owed' = owed /\ overlapped' = overlapped
  BY DEF Moves, Rewritten, Asks
<1> HIDE DEF n
<1>3. ASSUME NEW u \in Threads, NEW j \in DOMAIN stack[u], Asks(stack'[u][j]),
             u \notin overlapped
      PROVE  IF stack'[u][j].pc = "exit" THEN stack'[u][j].r = 1
             ELSE stack'[u][j].stream \in owed
  <2>1. CASE u = t /\ j = n
    BY <1>1, <1>2, <1>3, <2>1 DEF AnswersKept
  <2>2. CASE ~(u = t /\ j = n)
    BY <1>1, <1>3, <2>2 DEF AnswersKept
  <2> QED BY <2>1, <2>2
<1> QED BY <1>1, <1>2, <1>3 DEF AnswersKept

\* The failures that the program has seen stay in the set, as only a wrapper that
\* clears or closes a stream takes it out.
LEMMA FailuresMove ==
  ASSUME IInv, ClosersAlone, ClearersKnown, FailuresKept,
         NEW t \in Threads, NEW y, Moves(t, y),
         \A s \in ferror_set \ ferror_set' :
            s = Top(t).stream /\ (Top(t).fn = "clearerr" \/ Closing(Top(t))),
         Failed(y) => y.stream \in ferror_set'
  PROVE  FailuresKept'
<1> DEFINE n == Len(stack[t])
<1>1. /\ n \in DOMAIN stack[t] /\ stack[t][n] = Top(t)
      /\ \A u \in Threads : DOMAIN stack'[u] = DOMAIN stack[u]
      /\ \A u \in Threads : \A j \in DOMAIN stack[u] :
            stack'[u][j] = IF u = t /\ j = n THEN y ELSE stack[u][j]
  BY RewrittenPlaces DEF Moves, IInv
<1>2. /\ y.fn = Top(t).fn /\ y.stream = Top(t).stream /\ Top(t).pc # "exit"
      /\ owed' = owed /\ overlapped' = overlapped
  BY DEF Moves, Rewritten
<1> HIDE DEF n
<1>3. \A u \in Threads : \A j \in DOMAIN stack[u] :
         /\ stack'[u][j].fn = stack[u][j].fn
         /\ stack'[u][j].stream = stack[u][j].stream
         /\ Closing(stack'[u][j]) => Closing(stack[u][j])
  BY <1>1, <1>2 DEF Closing
<1>4. owed \subseteq ferror_set'
  BY <1>1 DEF FailuresKept
<1>5. ASSUME NEW u \in Threads, NEW j \in DOMAIN stack[u], Failed(stack'[u][j]),
             u \notin overlapped
      PROVE  stack[u][j].stream \in ferror_set'
  <2>1. CASE u = t /\ j = n
    BY <1>1, <1>2, <1>5, <2>1
  <2>2. CASE ~(u = t /\ j = n)
    <3>1. stack[u][j].stream \in ferror_set
      BY <1>1, <1>5, <2>2 DEF FailuresKept
    <3>2. stack[u][j].stream = Top(t).stream => Top(t).fn # "clearerr"
      BY <1>1, <1>5, <2>2 DEF ClearersKnown
    <3>3. stack[u][j].stream = Top(t).stream => ~Closing(Top(t))
      <4>1. ASSUME Closing(Top(t)) PROVE stack[u][j].stream # Top(t).stream
        BY <1>1, <2>2, <4>1 DEF ClosersAlone
      <4> QED BY <4>1
    <3> QED BY <3>1, <3>2, <3>3
  <2> QED BY <2>1, <2>2
<1>6. \A u \in Threads : \A j \in DOMAIN stack[u] :
         stack[u][j].stream \in owed =>
            stack[u][j].fn # "clearerr" /\ ~Closing(stack[u][j])
  BY DEF FailuresKept
<1>7. ASSUME NEW u \in Threads, NEW j \in DOMAIN stack'[u]
      PROVE  /\ stack'[u][j].stream \in owed' =>
                    stack'[u][j].fn # "clearerr" /\ ~Closing(stack'[u][j])
             /\ Failed(stack'[u][j]) /\ u \notin overlapped' =>
                    stack'[u][j].stream \in ferror_set'
  <2>1. j \in DOMAIN stack[u]
    BY <1>1
  <2>2. /\ stack'[u][j].fn = stack[u][j].fn
        /\ stack'[u][j].stream = stack[u][j].stream
        /\ Closing(stack'[u][j]) => Closing(stack[u][j])
    BY <1>3, <2>1
  <2>3. stack[u][j].stream \in owed =>
            stack[u][j].fn # "clearerr" /\ ~Closing(stack[u][j])
    BY <1>6, <2>1
  <2>4. Failed(stack'[u][j]) /\ u \notin overlapped =>
            stack[u][j].stream \in ferror_set'
    BY <1>5, <2>1
  <2> HIDE DEF Closing, Failed
  <2> QED BY <1>2, <2>2, <2>3, <2>4
<1> QED BY <1>2, <1>4, <1>7 DEF FailuresKept, Failed, Closing

\* The set is created only once, and used only after that.
LEMMA CreatedMove ==
  ASSUME IInv, Created, NEW t \in Threads, NEW y, Moves(t, y),
         \/ /\ once' = once
            /\ ferror_set' # {} => once = "done"
            /\ y.pc \in {"lock", "hash"} => once = "done"
            /\ y.pc # "create"
         \/ once = NULL /\ once' = t /\ ferror_set' = ferror_set /\ y.pc = "create"
         \/ Top(t).pc = "create" /\ once' = "done" /\ y.pc = "lock"
  PROVE  Created'
<1> DEFINE n == Len(stack[t])
<1>1. /\ n \in DOMAIN stack[t] /\ stack[t][n] = Top(t)
      /\ \A u \in Threads : DOMAIN stack'[u] = DOMAIN stack[u]
      /\ \A u \in Threads : \A j \in DOMAIN stack[u] :
            stack'[u][j] = IF u = t /\ j = n THEN y ELSE stack[u][j]
  BY RewrittenPlaces DEF Moves, IInv
<1> HIDE DEF n
<1>2. /\ ferror_set # {} => once = "done"
      /\ \A u \in Threads : \A j \in DOMAIN stack[u] :
            /\ stack[u][j].pc \in {"lock", "hash"} => once = "done"
            /\ stack[u][j].pc = "create" => once = u
      /\ \A u, v \in Threads : \A j \in DOMAIN stack[u] : \A k \in DOMAIN stack[v] :
            stack[u][j].pc = "create" /\ stack[v][k].pc = "create" => v = u /\ k = j
  BY DEF Created
<1>3. ASSUME once' = once, y.pc # "create", ferror_set' # {} => once = "done",
             y.pc \in {"lock", "hash"} => once = "done"
      PROVE  /\ ferror_set' # {} => once' = "done"
             /\ \A u \in Threads : \A j \in DOMAIN stack[u] :
                   /\ stack'[u][j].pc \in {"lock", "hash"} => once' = "done"
                   /\ stack'[u][j].pc = "create" => once' = u /\ stack[u][j].pc = "create"
  BY <1>1, <1>2, <1>3
<1>4. ASSUME once = NULL, once' = t, ferror_set' = ferror_set, y.pc = "create"
      PROVE  /\ ferror_set' # {} => once' = "done"
             /\ \A u \in Threads : \A j \in DOMAIN stack[u] :
                   /\ stack'[u][j].pc \notin {"lock", "hash"}
                   /\ stack'[u][j].pc = "create" => once' = u /\ u = t /\ j = n
  <2>1. once # "done" /\ ferror_set' = {} /\ t # "done"
    BY <1>2, <1>4
  <2>2. \A u \in Threads : \A j \in DOMAIN stack[u] :
            stack[u][j].pc \notin {"lock", "hash", "create"}
    BY <1>2, <1>4
  <2> QED BY <1>1, <1>4, <2>1, <2>2
<1>5. ASSUME Top(t).pc = "create", once' = "done", y.pc = "lock"
      PROVE  \A u \in Threads : \A j \in DOMAIN stack[u] : stack'[u][j].pc # "create"
  <2>1. ASSUME NEW u \in Threads, NEW j \in DOMAIN stack[u], ~(u = t /\ j = n)
        PROVE  stack[u][j].pc # "create"
    BY <1>1, <1>2, <1>5, <2>1
  <2>2. ASSUME NEW u \in Threads, NEW j \in DOMAIN stack[u]
        PROVE  stack'[u][j].pc # "create"
    <3>1. CASE u = t /\ j = n
      BY <1>1, <1>5, <3>1
    <3>2. CASE ~(u = t /\ j = n)
      BY <1>1, <2>1, <3>2
    <3> QED BY <3>1, <3>2
  <2> QED BY <2>2
<1>6. /\ ferror_set' # {} => once' = "done"
      /\ \A u \in Threads : \A j \in DOMAIN stack[u] :
            /\ stack'[u][j].pc \in {"lock", "hash"} => once' = "done"
            /\ stack'[u][j].pc = "create" => once' = u
  BY <1>3, <1>4, <1>5
<1>7. ASSUME NEW u \in Threads, NEW v \in Threads,
             NEW j \in DOMAIN stack[u], NEW k \in DOMAIN stack[v],
             stack'[u][j].pc = "create", stack'[v][k].pc = "create"
      PROVE  v = u /\ k = j
  BY <1>2, <1>3, <1>4, <1>5, <1>7
<1>8. ASSUME NEW u \in Threads, NEW j \in DOMAIN stack'[u]
      PROVE  /\ stack'[u][j].pc \in {"lock", "hash"} => once' = "done"
             /\ stack'[u][j].pc = "create" => once' = u
  BY <1>1, <1>6
<1>9. ASSUME NEW u \in Threads, NEW j \in DOMAIN stack'[u],
             NEW v \in Threads, NEW k \in DOMAIN stack'[v],
             stack'[u][j].pc = "create", stack'[v][k].pc = "create"
      PROVE  v = u /\ k = j
  <2>1. j \in DOMAIN stack[u] /\ k \in DOMAIN stack[v]
    BY <1>1
  <2> QED BY <1>7, <1>9, <2>1
<1> QED BY <1>6, <1>8, <1>9 DEF Created

\* All of it.
SetShrinks(t) ==
    \A s \in ferror_set \ ferror_set' :
        s = Top(t).stream /\ (Top(t).fn = "clearerr" \/ Closing(Top(t)))

FileCloses(t, y) ==
    \A s \in Streams : file[s] = "closing" =>
        file'[s] = "closing" \/ (s = Top(t).stream /\ Closing(Top(t)) /\ ~Closing(y))

\* Together: a step within a wrapper keeps SInv.
LEMMA SInvMove ==
  ASSUME IInv, SInv, NEW t \in Threads, NEW y, Moves(t, y), Created',
         SetShrinks(t), FileCloses(t, y), Failed(y) => y.stream \in ferror_set',
         Asks(y) /\ t \notin overlapped /\ y.pc = "exit" => y.r = 1
  PROVE  SInv'
BY ClosersMove, ClearersMove, HonestMove, AnswersMove, FailuresMove
   DEF SInv, SetShrinks, FileCloses

\* A step that only leads on.
LeadsOn(y) ==
    /\ \/ y.pc \in {"reduce", "fiu_fail", "init", "orig", "once", "exit"}
       \/ y.pc \in {"lock", "hash"} /\ once = "done"
    /\ y.pc = "exit" /\ y.r = 1 => Wrapped[y.fn].declared = NULL
    /\ y.pc = "exit" /\ y.fn = "ferror" /\ y.counted => y.r = 1

\* A step that leaves the set alone and answers nothing keeps SInv.
LEMMA SInvGo ==
  ASSUME IInv, SInv, NEW t \in Threads, NEW y, Moves(t, y),
         ferror_set' = ferror_set, once' = once, FileCloses(t, y),
         LeadsOn(y)
  PROVE  SInv'
<1>1. y.pc # "create" /\ (ferror_set' # {} => once = "done")
      /\ (y.pc \in {"lock", "hash"} => once = "done")
  BY DEF SInv, Created, LeadsOn
<1>2. Created'
  BY <1>1, CreatedMove DEF SInv
<1>3. SetShrinks(t) /\ ~Failed(y)
  BY DEF SetShrinks, Failed, LeadsOn
<1>4. Asks(y) /\ y.pc = "exit" => y.r = 1
  BY DEF Asks, LeadsOn
<1> QED BY <1>2, <1>3, <1>4, SInvMove

\* Goto, Finish and the like are such steps.
LEMMA GoMoves ==
  ASSUME IInv, NEW t \in Threads, stack[t] # <<>>, Top(t).pc # "exit",
         owed' = owed, overlapped' = overlapped, NEW where, Goto(t, where)
  PROVE  \E y : Moves(t, y) /\ y.pc = where /\ y.r = Top(t).r
BY GotoRewrites DEF Moves, IInv

\* A step to a place with a result moves the top frame.
LEMMA ResultMoves ==
  ASSUME IInv, NEW t \in Threads, stack[t] # <<>>, Top(t).pc # "exit",
         owed' = owed, overlapped' = overlapped, NEW where, NEW r,
         SetsResult(t, where, r)
  PROVE  \E y : Moves(t, y) /\ y.pc = where /\ y.r = r
BY ResultRewrites DEF Moves, IInv

\* The end of a wrapper, with what it returns, does.
LEMMA FinishMoves ==
  ASSUME IInv, NEW t \in Threads, stack[t] # <<>>, Top(t).pc # "exit",
         owed' = owed, overlapped' = overlapped, NEW r, Finish(t, r)
  PROVE  \E y : Moves(t, y) /\ y.pc = "exit" /\ y.r = r
<1>1. SetsResult(t, "exit", r)
  BY DEF Finish, SetsResult
<1> QED BY <1>1, ResultMoves

\* A shortened read or write does.
LEMMA CountMoves ==
  ASSUME IInv, NEW t \in Threads, stack[t] # <<>>, Top(t).pc # "exit",
         owed' = owed, overlapped' = overlapped, NEW where, NEW k,
         SetsCount(t, where, k)
  PROVE  \E y : Moves(t, y) /\ y.pc = where /\ y.r = Top(t).r
BY CountRewrites DEF Moves, IInv

\* The frame keeps its call.
LEMMA MovesSame ==
  ASSUME NEW t, NEW y, Moves(t, y)
  PROVE  y.fn = Top(t).fn /\ y.stream = Top(t).stream /\ y.counted = Top(t).counted
BY DEF Moves, Rewritten

\* A step that leaves the files alone closes none.
LEMMA SameFile ==
  ASSUME NEW t, NEW y, file' = file
  PROVE  FileCloses(t, y)
BY DEF FileCloses

\* What the invariant says of the top frame.
LEMMA SInvTop ==
  ASSUME IInv, SInv, NEW t \in Threads, stack[t] # <<>>
  PROVE  /\ Wrapped[Top(t).fn].declared = Wrapped[Top(t).fn].sets
         /\ Wrapped[Top(t).fn].sets \notin {NULL, "arg"} =>
               Top(t).stream = Wrapped[Top(t).fn].sets
         /\ Top(t).pc \in {"lock", "hash"} => once = "done"
         /\ Asks(Top(t)) /\ t \notin overlapped /\ Top(t).pc # "exit" =>
               Top(t).stream \in ferror_set
<1>1. Len(stack[t]) \in DOMAIN stack[t] /\ stack[t][Len(stack[t])] = Top(t)
  BY TopFacts DEF IInv
<1>2. /\ MarksDeclared(Top(t).fn)
      /\ Wrapped[Top(t).fn].sets \notin {NULL, "arg"} =>
            Top(t).stream = Wrapped[Top(t).fn].sets
  BY <1>1 DEF SInv, Honest
<1>3. Top(t).pc \in {"lock", "hash"} => once = "done"
  BY <1>1 DEF SInv, Created
<1>4. Asks(Top(t)) /\ t \notin overlapped /\ Top(t).pc # "exit" =>
          Top(t).stream \in owed
  BY <1>1 DEF SInv, AnswersKept
<1>5. owed \subseteq ferror_set
  BY DEF SInv, FailuresKept
<1> QED BY <1>2, <1>3, <1>4, <1>5 DEF MarksDeclared

\* The body of a wrapper up to libc's function keeps SInv: one that is made to fail
\* goes to the set if it declares to.
LEMMA SInvBody ==
  ASSUME IInv, SInv, NEW t \in Threads,
         \/ mkwrap_body_reduce(t) \/ mkwrap_body_fails(t) \/ mkwrap_body_passes(t)
         \/ mkwrap_init(t)
  PROVE  SInv'
<1>1. /\ stack[t] # <<>> /\ Top(t).pc \in {"reduce", "fiu_fail", "init"}
      /\ Top(t).pc # "exit"
      /\ ferror_set' = ferror_set /\ once' = once /\ file' = file
      /\ owed' = owed /\ overlapped' = overlapped
  BY DEF mkwrap_body_reduce, mkwrap_body_fails, mkwrap_body_passes, mkwrap_init,
         At, setVars, history
<1>2. Wrapped[Top(t).fn].declared = Wrapped[Top(t).fn].sets
  BY <1>1, SInvTop
<1>3. ASSUME NEW y, Moves(t, y), y.pc \in {"fiu_fail", "init", "orig", "once"}
      PROVE  SInv'
  <2>1. LeadsOn(y)
    BY <1>3 DEF LeadsOn
  <2> QED BY <1>1, <1>3, <2>1, SInvGo, SameFile
<1>4. CASE mkwrap_body_reduce(t)
  <2>1. PICK k : SetsCount(t, "fiu_fail", k)
    BY <1>4 DEF mkwrap_body_reduce, SetsCount
  <2>2. PICK y : Moves(t, y) /\ y.pc = "fiu_fail"
    BY <1>1, <2>1, CountMoves
  <2> QED BY <1>3, <2>2
<1>5. CASE mkwrap_body_fails(t)
  <2>1. CASE Wrapped[Top(t).fn].sets = NULL
    <3>1. PICK y : Moves(t, y) /\ y.pc = "exit" /\ y.r = 1
      BY <1>1, <1>5, <2>1, FinishMoves DEF mkwrap_body_fails
    <3>2. Wrapped[y.fn].declared = NULL
      BY <1>2, <2>1, <3>1, MovesSame
    <3>3. LeadsOn(y)
      BY <3>1, <3>2 DEF LeadsOn
    <3> QED BY <1>1, <3>1, <3>3, SInvGo, SameFile
  <2>2. CASE Wrapped[Top(t).fn].sets # NULL
    <3>1. SetsResult(t, "once", 1)
      BY <1>5, <2>2 DEF mkwrap_body_fails, SetsResult
    <3>2. PICK y : Moves(t, y) /\ y.pc = "once"
      BY <1>1, <3>1, ResultMoves
    <3> QED BY <1>3, <3>2
  <2> QED BY <2>1, <2>2
<1>6. CASE mkwrap_body_passes(t)
  <2>1. PICK where \in {"init", "orig", "once"} : Goto(t, where)
    BY <1>6, AfterFacts DEF mkwrap_body_passes, Continue
  <2>2. PICK y : Moves(t, y) /\ y.pc = where
    BY <1>1, <2>1, GoMoves
  <2> QED BY <1>3, <2>1, <2>2
<1>7. CASE mkwrap_init(t)
  <2>1. PICK y : Moves(t, y) /\ y.pc = "orig"
    BY <1>1, <1>7, GoMoves DEF mkwrap_init
  <2> QED BY <1>3, <2>1
<1> QED BY <1>4, <1>5, <1>6, <1>7

\* libc's function keeps SInv: only fclose() and pclose() free an address.
LEMMA SInvLibc ==
  ASSUME IInv, SInv, NEW t \in Threads,
         \/ orig_open(t) \/ orig_close(t) \/ orig_clearerr(t)
         \/ orig_ferror(t) \/ orig_other(t)
  PROVE  SInv'
<1>1. /\ stack[t] # <<>> /\ Top(t).pc = "orig" /\ Top(t).pc # "exit"
      /\ ferror_set' = ferror_set /\ once' = once
      /\ owed' = owed /\ overlapped' = overlapped
  BY DEF orig_open, orig_close, orig_clearerr, orig_ferror, orig_other, AtLibc, At,
         setVars, history
<1>2. Top(t).r = 0
  BY <1>1, TopFacts DEF IInv, GoodFrame
<1>3. ASSUME Return(t)
      PROVE  \E y : /\ Moves(t, y) /\ y.pc \in {"once", "exit"} /\ y.r = 0
                    /\ y.pc = "exit" => ~(y.fn = "ferror" /\ y.counted)
                    /\ Top(t).fn \in Closers => y.pc = "exit"
  <2>1. CASE Top(t).counted
    <3>1. PICK y : Moves(t, y) /\ y.pc = After(Top(t).fn, "orig") /\ y.r = 0
      <4> DEFINE to == After(Top(t).fn, "orig")
      <4>1. Goto(t, to)
        BY <1>3, <2>1 DEF Return
      <4> HIDE DEF to
      <4>2. PICK y : Moves(t, y) /\ y.pc = to /\ y.r = Top(t).r
        BY <1>1, <4>1, GoMoves
      <4> QED BY <1>2, <4>2 DEF to
    <3> QED BY <3>1, AfterFacts, MovesSame
  <2>2. CASE ~Top(t).counted
    <3>1. PICK y : Moves(t, y) /\ y.pc = "exit" /\ y.r = 0
      BY <1>1, <1>3, <2>2, FinishMoves DEF Return
    <3> QED BY <2>2, <3>1, MovesSame
  <2> QED BY <2>1, <2>2
<1>4. ASSUME NEW y, Moves(t, y), y.pc \in {"once", "exit"}, y.r = 0, FileCloses(t, y),
             y.pc = "exit" => ~(y.fn = "ferror" /\ y.counted)
      PROVE  SInv'
  <2>1. LeadsOn(y)
    BY <1>4 DEF LeadsOn
  <2> QED BY <1>1, <1>4, <2>1, SInvGo
<1>5. CASE orig_open(t)
  <2>1. PICK y : /\ Moves(t, y) /\ y.pc \in {"once", "exit"} /\ y.r = 0
                 /\ y.pc = "exit" => ~(y.fn = "ferror" /\ y.counted)
    BY <1>3, <1>5 DEF orig_open
  <2>2. FileCloses(t, y)
    <3>1. file \in [Streams -> {"none", "closing"} \cup Openers]
      BY DEF IInv, Rest
    <3> QED BY <1>5, <3>1 DEF orig_open, FileCloses
  <2> QED BY <1>4, <2>1, <2>2
<1>6. CASE orig_close(t)
  <2>1. Top(t).fn \in Closers
    BY <1>6 DEF orig_close, AtLibc
  <2>2. PICK y : /\ Moves(t, y) /\ y.pc = "exit" /\ y.r = 0
                 /\ ~(y.fn = "ferror" /\ y.counted)
    BY <1>3, <1>6, <2>1 DEF orig_close
  <2>3. FileCloses(t, y)
    <3>1. file \in [Streams -> {"none", "closing"} \cup Openers]
      BY DEF IInv, Rest
    <3>2. Closing(Top(t)) /\ ~Closing(y)
      BY <1>1, <2>1, <2>2 DEF Closing
    <3> QED BY <1>6, <3>1, <3>2 DEF orig_close, FileCloses
  <2> QED BY <1>4, <2>2, <2>3
<1>7. CASE orig_clearerr(t) \/ orig_other(t) \/ (orig_ferror(t) /\ Return(t))
  <2>1. PICK y : /\ Moves(t, y) /\ y.pc \in {"once", "exit"} /\ y.r = 0
                 /\ y.pc = "exit" => ~(y.fn = "ferror" /\ y.counted)
    BY <1>3, <1>7 DEF orig_clearerr, orig_other
  <2>2. FileCloses(t, y)
    BY <1>7, SameFile DEF orig_clearerr, orig_other, orig_ferror
  <2> QED BY <1>4, <2>1, <2>2
<1>8. CASE orig_ferror(t) /\ Finish(t, 1)
  <2>1. PICK y : Moves(t, y) /\ y.pc = "exit" /\ y.r = 1
    BY <1>1, <1>8, FinishMoves
  <2>2. Wrapped[y.fn].declared = NULL
    BY <1>8, <2>1, MovesSame, SetsNothing DEF orig_ferror, AtLibc
  <2>3. FileCloses(t, y)
    BY <1>8, SameFile DEF orig_ferror
  <2>4. LeadsOn(y)
    BY <2>1, <2>2 DEF LeadsOn
  <2> QED BY <1>1, <2>1, <2>3, <2>4, SInvGo
<1> QED BY <1>5, <1>6, <1>7, <1>8 DEF orig_ferror

\* The use of the set keeps SInv: what is marked stays in until it is cleared, and
\* ferror() answers from it.
LEMMA SInvSet ==
  ASSUME IInv, SInv, NEW t \in Threads,
         \/ pthread_once(t) \/ hash_create(t) \/ ferror_lock(t)
         \/ set_ferror(t) \/ get_ferror(t) \/ clear_ferror(t)
  PROVE  SInv'
<1>1. /\ stack[t] # <<>> /\ Top(t).pc \in {"once", "create", "lock", "hash"}
      /\ Top(t).pc # "exit"
      /\ owed' = owed /\ overlapped' = overlapped /\ file' = file
  BY DEF pthread_once, hash_create, ferror_lock, set_ferror, get_ferror,
         clear_ferror, At, history
<1>2. Top(t) \in FrameType /\ GoodFrame(Len(stack[t]), Top(t))
  BY <1>1, TopFacts DEF IInv
<1>3. CASE pthread_once(t)
  <2>1. CASE once = "done" /\ Goto(t, "lock") /\ UNCHANGED <<called, once, mutex>>
    <3>1. PICK y : Moves(t, y) /\ y.pc = "lock"
      BY <1>1, <2>1, GoMoves
    <3>2. LeadsOn(y)
      BY <2>1, <3>1 DEF LeadsOn
    <3>3. ferror_set' = ferror_set /\ once' = once
      BY <1>3, <2>1 DEF pthread_once
    <3> QED BY <1>1, <3>1, <3>2, <3>3, SInvGo, SameFile
  <2>2. CASE once = NULL /\ once' = t /\ Goto(t, "create")
    <3>1. PICK y : Moves(t, y) /\ y.pc = "create"
      <4>1. Goto(t, "create")
        BY <2>2
      <4> QED BY <1>1, <4>1, GoMoves
    <3>2. ferror_set' = ferror_set
      BY <1>3 DEF pthread_once
    <3>3. Created'
      BY <2>2, <3>1, <3>2, CreatedMove DEF SInv
    <3>4. SetShrinks(t) /\ FileCloses(t, y) /\ ~Failed(y) /\ y.pc # "exit"
      BY <1>1, <3>1, <3>2, SameFile DEF SetShrinks, Failed
    <3> QED BY <3>1, <3>3, <3>4, SInvMove
  <2> QED BY <1>3, <2>1, <2>2 DEF pthread_once
<1>4. CASE hash_create(t)
  <2>1. Goto(t, "lock") /\ Top(t).pc = "create" /\ ferror_set' = {} /\ once' = "done"
    BY <1>4 DEF hash_create, At
  <2>2. PICK y : Moves(t, y) /\ y.pc = "lock"
    <3>1. Goto(t, "lock")
      BY <2>1
    <3> QED BY <1>1, <3>1, GoMoves
  <2>3. ferror_set = {}
    <3>1. Len(stack[t]) \in DOMAIN stack[t] /\ stack[t][Len(stack[t])] = Top(t)
      BY <1>1, TopFacts DEF IInv
    <3>2. once = t /\ t # "done"
      BY <2>1, <3>1 DEF SInv, Created
    <3> QED BY <3>2 DEF SInv, Created
  <2>4. Created'
    BY <2>1, <2>2, CreatedMove DEF SInv
  <2>5. SetShrinks(t) /\ FileCloses(t, y) /\ ~Failed(y) /\ y.pc # "exit"
    BY <1>1, <2>2, <2>3, SameFile DEF SetShrinks, Failed
  <2> QED BY <2>2, <2>4, <2>5, SInvMove
<1>5. CASE ferror_lock(t)
  <2>1. Goto(t, "hash") /\ ferror_set' = ferror_set /\ once' = once /\ once = "done"
    BY <1>1, <1>5, SInvTop DEF ferror_lock, At
  <2>2. PICK y : Moves(t, y) /\ y.pc = "hash"
    BY <1>1, <2>1, GoMoves
  <2>3. LeadsOn(y)
    BY <2>1, <2>2 DEF LeadsOn
  <2> QED BY <1>1, <2>1, <2>2, <2>3, SInvGo, SameFile
<1>6. CASE set_ferror(t)
  <2> DEFINE w == Wrapped[Top(t).fn]
  <2>1. /\ Goto(t, "exit") /\ Top(t).pc = "hash" /\ Top(t).r = 1 /\ once' = once
        /\ ferror_set' = ferror_set \cup {IF w.sets = "arg" THEN Top(t).stream ELSE w.sets}
    BY <1>6 DEF set_ferror, At
  <2>2. PICK y : Moves(t, y) /\ y.pc = "exit" /\ y.r = 1
    <3>1. Goto(t, "exit") /\ Top(t).r = 1
      BY <2>1
    <3>2. PICK y : Moves(t, y) /\ y.pc = "exit" /\ y.r = Top(t).r
      BY <1>1, <3>1, GoMoves
    <3> QED BY <3>1, <3>2
  <2>3. w.sets # NULL
    BY <1>2, <2>1 DEF GoodFrame
  <2>4. once = "done" /\ (w.sets # "arg" => Top(t).stream = w.sets)
    BY <1>1, <2>1, <2>3, SInvTop
  <2>5. y.stream \in ferror_set'
    BY <2>1, <2>2, <2>4, MovesSame
  <2>6. Created'
    BY <2>1, <2>2, <2>4, CreatedMove DEF SInv
  <2>7. SetShrinks(t) /\ FileCloses(t, y)
    BY <1>1, <2>1, SameFile DEF SetShrinks
  <2> QED BY <2>2, <2>5, <2>6, <2>7, SInvMove
<1>7. CASE get_ferror(t)
  <2> DEFINE r == IF Top(t).stream \in ferror_set THEN 1 ELSE 0
  <2>1. /\ Finish(t, r) /\ ferror_set' = ferror_set /\ once' = once
        /\ Top(t).pc = "hash" /\ Top(t).fn = "ferror"
    BY <1>7 DEF get_ferror, At
  <2>2. PICK y : Moves(t, y) /\ y.pc = "exit" /\ y.r = r
    <3> HIDE DEF r
    <3>1. Finish(t, r)
      BY <2>1
    <3> QED BY <1>1, <3>1, FinishMoves
  <2>3. ~Failed(y)
    BY <2>1, <2>2, MovesSame, SetsNothing DEF Failed
  <2>4. Asks(y) /\ t \notin overlapped => y.r = 1
    <3>1. Asks(y) <=> Asks(Top(t))
      BY <2>2 DEF Asks, Moves, Rewritten
    <3> QED BY <1>1, <2>2, <3>1, SInvTop
  <2>5. once = "done"
    BY <1>1, <2>1, SInvTop
  <2>6. Created'
    BY <2>1, <2>2, <2>5, CreatedMove DEF SInv
  <2>7. SetShrinks(t) /\ FileCloses(t, y)
    BY <1>1, <2>1, SameFile DEF SetShrinks
  <2> QED BY <2>2, <2>3, <2>4, <2>6, <2>7, SInvMove
<1>8. CASE clear_ferror(t)
  <2>1. /\ Top(t).fn \in {"fclose", "clearerr"} /\ Top(t).pc = "hash"
        /\ ferror_set' = ferror_set \ {Top(t).stream} /\ once' = once
    BY <1>8 DEF clear_ferror, At
  <2>2. Top(t).r = 0
    BY <1>2, <2>1, SetsNothing DEF GoodFrame, FrameType
  <2>3. PICK where \in {"orig", "exit", "init"} : Goto(t, where)
    BY <1>8, AfterFacts DEF clear_ferror, Continue
  <2>4. PICK y : Moves(t, y) /\ y.pc = where /\ y.r = 0
    BY <1>1, <2>2, <2>3, GoMoves
  <2>5. once = "done"
    BY <1>1, <2>1, SInvTop
  <2>6. y.pc \notin {"create", "lock", "hash"}
    BY <2>3, <2>4
  <2>7. Created'
    BY <2>1, <2>4, <2>5, <2>6, CreatedMove DEF SInv
  <2>8. SetShrinks(t) /\ FileCloses(t, y)
    BY <1>1, <2>1, SameFile DEF SetShrinks, Closing, Closers
  <2>9. ~Failed(y) /\ ~Asks(y)
    BY <2>1, <2>4, MovesSame DEF Failed, Asks
  <2> QED BY <2>4, <2>7, <2>8, <2>9, SInvMove
<1> QED BY <1>3, <1>4, <1>5, <1>6, <1>7, <1>8

\* Where the frames are after the return of one.
LEMMA PoppedPlaces ==
  ASSUME Frames, NEW t \in Threads, exit(t), NEW n, n = Len(stack[t])
  PROVE  /\ \A u \in Threads : \A j \in DOMAIN stack'[u] :
               /\ j \in DOMAIN stack[u] /\ stack'[u][j] = stack[u][j]
               /\ u = t => j # n
         /\ n = 1 => DOMAIN stack'[t] = {}
<1>1. stack[t] # <<>> /\ stack' = [stack EXCEPT ![t] = Front(@)]
  BY DEF exit, At
<1>2. stack[t] \in Seq(FrameType) /\ stack \in [Threads -> Seq(FrameType)]
  BY DEF Frames
<1>3. /\ n \in Nat \ {0} /\ Front(stack[t]) \in Seq(FrameType)
      /\ Len(Front(stack[t])) = n - 1
      /\ \A i \in 1..(n - 1) : Front(stack[t])[i] = stack[t][i]
  BY <1>1, <1>2, Split
<1>4. DOMAIN Front(stack[t]) = 1..(n - 1) /\ DOMAIN stack[t] = 1..n
  BY <1>2, <1>3, LenProperties
<1> DEFINE f == Front(stack[t])
<1>5. \A u \in Threads : stack'[u] = IF u = t THEN f ELSE stack[u]
  BY <1>1, <1>2
<1> HIDE DEF f
<1>6. DOMAIN f = 1..(n - 1) /\ \A i \in 1..(n - 1) : f[i] = stack[t][i]
  BY <1>3, <1>4 DEF f
<1>7. ASSUME NEW u \in Threads, NEW j \in DOMAIN stack'[u]
      PROVE  /\ j \in DOMAIN stack[u] /\ stack'[u][j] = stack[u][j]
             /\ u = t => j # n
  <2>1. CASE u = t
    <3>1. j \in 1..(n - 1) /\ stack'[u] = f
      BY <1>5, <1>6, <1>7, <2>1
    <3>2. j \in 1..n /\ j # n
      BY ONLY <3>1, n \in Nat \ {0}, <1>3
    <3> QED BY <1>4, <1>6, <2>1, <3>1, <3>2
  <2>2. CASE u # t
    BY <1>5, <1>7, <2>2
  <2> QED BY <2>1, <2>2
<1>8. n = 1 => DOMAIN stack'[t] = {}
  BY <1>5, <1>6
<1> QED BY <1>7, <1>8

\* A wrapper that returns takes nothing from who closes a stream.
LEMMA ClosersExit ==
  ASSUME IInv, ClosersAlone, NEW t \in Threads, exit(t)
  PROVE  ClosersAlone'
<1>1. file' = file
  BY DEF exit
<1>3. \A u \in Threads : \A j \in DOMAIN stack'[u] :
         j \in DOMAIN stack[u] /\ stack'[u][j] = stack[u][j]
  BY PoppedPlaces DEF IInv
<1>6. ClosersAlone'
  <2>1. ASSUME NEW u \in Threads, NEW j \in DOMAIN stack'[u]
        PROVE  /\ stack'[u][j].fn \in Closers => stack'[u][j].stream \in Streams
               /\ Closing(stack'[u][j]) => file'[stack'[u][j].stream] = "closing"
    <3>1. j \in DOMAIN stack[u] /\ stack'[u][j] = stack[u][j]
      BY <1>3
    <3>2. /\ stack[u][j].fn \in Closers => stack[u][j].stream \in Streams
          /\ Closing(stack[u][j]) => file[stack[u][j].stream] = "closing"
      BY <3>1 DEF ClosersAlone
    <3> QED BY <1>1, <3>1, <3>2
  <2>2. ASSUME NEW u \in Threads, NEW j \in DOMAIN stack'[u], Closing(stack'[u][j]),
               NEW v \in Threads, NEW k \in DOMAIN stack'[v], v # u \/ k # j
        PROVE  stack'[v][k].stream # stack'[u][j].stream
    <3>1. j \in DOMAIN stack[u] /\ k \in DOMAIN stack[v] /\ Closing(stack[u][j])
          /\ stack'[u][j] = stack[u][j] /\ stack'[v][k] = stack[v][k]
      BY <1>3, <2>2
    <3> QED BY <2>2, <3>1 DEF ClosersAlone
  <2> QED BY <2>1, <2>2 DEF ClosersAlone, Closing
<1> QED BY <1>6

\* The wrapper returns: the program may learn of the failure.
LEMMA SInvExit ==
  ASSUME IInv, SInv, NEW t \in Threads, exit(t)
  PROVE  SInv'
<1> DEFINE n == Len(stack[t])
<1>1. /\ stack[t] # <<>> /\ Top(t).pc = "exit"
      /\ stack' = [stack EXCEPT ![t] = Front(@)]
      /\ owed' = owed \cup Learns(t)
      /\ overlapped' = IF n = 1 THEN overlapped \ {t} ELSE overlapped
      /\ ferror_set' = ferror_set /\ once' = once /\ file' = file
  BY DEF exit, At, setVars
<1>2. n \in DOMAIN stack[t] /\ stack[t][n] = Top(t)
  BY <1>1, TopFacts DEF IInv
<1>3. /\ \A u \in Threads : \A j \in DOMAIN stack'[u] :
            /\ j \in DOMAIN stack[u] /\ stack'[u][j] = stack[u][j]
            /\ u = t => j # n
      /\ n = 1 => DOMAIN stack'[t] = {}
  BY PoppedPlaces DEF IInv
<1> HIDE DEF n
<1>4. ASSUME NEW u \in Threads, NEW j \in DOMAIN stack'[u]
      PROVE  u \in overlapped => u \in overlapped'
  BY <1>1, <1>3, <1>4
<1>5. Learns(t) # {} =>
          /\ Learns(t) = {Top(t).stream} /\ t \notin overlapped /\ Failed(Top(t))
  BY <1>1 DEF Learns, Failed
<1>6. ClosersAlone'
  BY ClosersExit DEF SInv
<1>7. ClearersKnown'
  <2>1. ASSUME NEW u \in Threads, NEW j \in DOMAIN stack'[u],
               stack'[u][j].fn = "clearerr",
               NEW v \in Threads, NEW k \in DOMAIN stack'[v], v # u \/ k # j,
               stack'[v][k].stream = stack'[u][j].stream
        PROVE  v \in overlapped'
    <3>1. j \in DOMAIN stack[u] /\ k \in DOMAIN stack[v]
          /\ stack'[u][j] = stack[u][j] /\ stack'[v][k] = stack[v][k]
      BY <1>3, <2>1
    <3>2. v \in overlapped
      BY <2>1, <3>1 DEF SInv, ClearersKnown
    <3> QED BY <1>4, <2>1, <3>2
  <2> QED BY <2>1 DEF ClearersKnown
<1>8. Created'
  <2>1. ASSUME NEW u \in Threads, NEW j \in DOMAIN stack'[u]
        PROVE  /\ stack'[u][j].pc \in {"lock", "hash"} => once' = "done"
               /\ stack'[u][j].pc = "create" => once' = u
    BY <1>1, <1>3, <2>1 DEF SInv, Created
  <2>2. ASSUME NEW u \in Threads, NEW j \in DOMAIN stack'[u],
               NEW v \in Threads, NEW k \in DOMAIN stack'[v],
               stack'[u][j].pc = "create", stack'[v][k].pc = "create"
        PROVE  v = u /\ k = j
    <3>1. j \in DOMAIN stack[u] /\ k \in DOMAIN stack[v]
          /\ stack'[u][j] = stack[u][j] /\ stack'[v][k] = stack[v][k]
      BY <1>3, <2>2
    <3> QED BY <2>2, <3>1 DEF SInv, Created
  <2>3. ferror_set' # {} => once' = "done"
    BY <1>1 DEF SInv, Created
  <2> QED BY <2>1, <2>2, <2>3 DEF Created
<1>9. FailuresKept'
  <2>1. Learns(t) # {} => Top(t).stream \in ferror_set
    BY <1>2, <1>5 DEF SInv, FailuresKept
  <2>2. owed' \subseteq ferror_set'
    BY <1>1, <1>5, <2>1 DEF SInv, FailuresKept
  <2>3. ASSUME NEW u \in Threads, NEW j \in DOMAIN stack[u], ~(u = t /\ j = n),
               stack[u][j].stream \in owed'
        PROVE  stack[u][j].fn # "clearerr" /\ ~Closing(stack[u][j])
    <3>1. CASE stack[u][j].stream \in owed
      BY <3>1 DEF SInv, FailuresKept
    <3>2. CASE stack[u][j].stream \in Learns(t)
      <4>1. Top(t).stream = stack[u][j].stream /\ t \notin overlapped
        BY <1>5, <3>2
      <4>2. stack[u][j].fn # "clearerr"
        BY <1>2, <2>3, <4>1 DEF SInv, ClearersKnown
      <4>3. ~Closing(stack[u][j])
        BY <1>2, <2>3, <4>1 DEF SInv, ClosersAlone
      <4> QED BY <4>2, <4>3
    <3> QED BY <1>1, <2>3, <3>1, <3>2
  <2>4. ASSUME NEW u \in Threads, NEW j \in DOMAIN stack'[u]
        PROVE  /\ stack'[u][j].stream \in owed' =>
                    stack'[u][j].fn # "clearerr" /\ ~Closing(stack'[u][j])
               /\ Failed(stack'[u][j]) /\ u \notin overlapped' =>
                    stack'[u][j].stream \in ferror_set'
    <3>1. j \in DOMAIN stack[u] /\ ~(u = t /\ j = n) /\ stack'[u][j] = stack[u][j]
      BY <1>3
    <3>2. Failed(stack[u][j]) /\ u \notin overlapped' => stack[u][j].stream \in ferror_set
      BY <1>4, <3>1 DEF SInv, FailuresKept
    <3>3. stack[u][j].stream \in owed' =>
             stack[u][j].fn # "clearerr" /\ ~Closing(stack[u][j])
      BY <2>3, <3>1
    <3> QED BY <1>1, <3>1, <3>2, <3>3
  <2> QED BY <2>2, <2>4 DEF FailuresKept, Failed, Closing
<1>10. AnswersKept'
  <2>1. ASSUME NEW u \in Threads, NEW j \in DOMAIN stack'[u], Asks(stack'[u][j]),
               u \notin overlapped'
        PROVE  IF stack'[u][j].pc = "exit" THEN stack'[u][j].r = 1
               ELSE stack'[u][j].stream \in owed'
    <3>1. j \in DOMAIN stack[u] /\ stack'[u][j] = stack[u][j] /\ u \notin overlapped
      BY <1>3, <1>4, <2>1
    <3>2. IF stack[u][j].pc = "exit" THEN stack[u][j].r = 1
          ELSE stack[u][j].stream \in owed
      BY <2>1, <3>1 DEF SInv, AnswersKept
    <3> QED BY <1>1, <3>1, <3>2
  <2> QED BY <2>1 DEF AnswersKept, Asks
<1>11. Honest'
  <2>1. ASSUME NEW u \in Threads, NEW j \in DOMAIN stack'[u]
        PROVE  /\ MarksDeclared(stack'[u][j].fn)
               /\ Wrapped[stack'[u][j].fn].sets \notin {NULL, "arg"} =>
                    stack'[u][j].stream = Wrapped[stack'[u][j].fn].sets
    <3>1. j \in DOMAIN stack[u] /\ stack'[u][j] = stack[u][j]
      BY <1>3
    <3>2. /\ MarksDeclared(stack[u][j].fn)
          /\ Wrapped[stack[u][j].fn].sets \notin {NULL, "arg"} =>
                stack[u][j].stream = Wrapped[stack[u][j].fn].sets
      BY <3>1 DEF SInv, Honest
    <3> QED BY <3>1, <3>2
  <2> QED BY <2>1 DEF Honest, MarksDeclared
<1> QED BY <1>6, <1>7, <1>8, <1>9, <1>10, <1>11 DEF SInv

\* Where the frames are after a call.
LEMMA PushedPlaces ==
  ASSUME Frames, NEW t \in Threads, NEW x, Push(t, x), NEW n, n = Len(stack[t]) + 1
  PROVE  /\ n \in DOMAIN stack'[t] /\ n \notin DOMAIN stack[t] /\ stack'[t][n] = x
         /\ \A u \in Threads : \A j \in DOMAIN stack'[u] :
               \/ u = t /\ j = n
               \/ j \in DOMAIN stack[u] /\ stack'[u][j] = stack[u][j]
<1> DEFINE z == Append(stack[t], x)
<1>1. stack[t] \in Seq(FrameType) /\ stack \in [Threads -> Seq(FrameType)]
  BY DEF Frames
<1>2. \A u \in Threads : stack'[u] = IF u = t THEN z ELSE stack[u]
  BY <1>1 DEF Push
<1>3. /\ DOMAIN z = 1..n /\ DOMAIN stack[t] = 1..(n - 1)
      /\ n \in Nat \ {0} /\ z[n] = x
      /\ \A i \in 1..(n - 1) : z[i] = stack[t][i]
  BY <1>1
<1> HIDE DEF z
<1>4. ASSUME NEW u \in Threads, NEW j \in DOMAIN stack'[u]
      PROVE  \/ u = t /\ j = n
             \/ j \in DOMAIN stack[u] /\ stack'[u][j] = stack[u][j]
  <2>1. CASE u = t
    <3>1. j \in 1..n /\ stack'[u] = z
      BY <1>2, <1>3, <1>4, <2>1
    <3>2. n \in Int /\ j \in Int /\ 1 <= j /\ j <= n
      BY <1>3, <3>1
    <3>3. j = n \/ (j <= n - 1 /\ 1 <= j /\ j \in Int)
      BY ONLY <3>2
    <3>4. j = n \/ j \in 1..(n - 1)
      BY ONLY <3>3, <3>2
    <3> QED BY <1>3, <2>1, <3>1, <3>4
  <2>2. CASE u # t
    BY <1>2, <1>4, <2>2
  <2> QED BY <2>1, <2>2
<1>5. n \in DOMAIN stack'[t] /\ n \notin DOMAIN stack[t] /\ stack'[t][n] = x
  BY <1>2, <1>3
<1> QED BY <1>4, <1>5

\* The frame of a call.
Entering(x, f, s) ==
    /\ x.fn = f /\ x.stream = s /\ x.r = 0 /\ (x.owed <=> s \in owed)
    /\ x.pc \in {"reduce", "fiu_fail", "init", "orig", "exit"}
    /\ x.counted => x.pc # "exit"

\* Entering a wrapper adds a frame that is neither in the set nor about to answer.
LEMMA EnterPushes ==
  ASSUME NEW t, NEW f, Enter(t, f)
  PROVE  \E s \in Streams \cup {NULL} : \E x :
            Push(t, x) /\ Entering(x, f, s) /\ MayUse(f, s) /\ Begins(t, f, s)
<1>1. PICK s \in Streams \cup {NULL}, n \in (IF Wrapped[f].reduce THEN Counts ELSE {0}) :
         /\ MayUse(f, s)
         /\ IF f = "clearerr" THEN clearerr_call(t, s)
            ELSE mkwrap_body_called(t, f, s, n) \/ mkwrap_top(t, f, s, n)
         /\ Begins(t, f, s)
  BY DEF Enter
<1>2. ASSUME NEW sym, NEW m, NEW counted \in BOOLEAN,
             NEW where \in {"reduce", "fiu_fail", "init", "orig", "exit"},
             counted => where # "exit", Push(t, Frame(f, sym, s, m, counted, where))
      PROVE  \E x : Push(t, x) /\ Entering(x, f, s)
  <2> DEFINE x == Frame(f, sym, s, m, counted, where)
  <2>1. Entering(x, f, s)
    BY <1>2 DEF Entering, Frame
  <2> HIDE DEF x
  <2> QED BY <1>2, <2>1 DEF x
<1>3. \E x : Push(t, x) /\ Entering(x, f, s)
  <2> DEFINE w == Wrapped[f]
  <2>1. CASE f = "clearerr"
    <3>1. PICK where \in {"init", "orig"} : Push(t, Frame(f, f, s, 0, TRUE, where))
      BY <1>1, <2>1 DEF clearerr_call
    <3> QED BY <1>2, <3>1
  <2>2. CASE mkwrap_top(t, f, s, n)
    <3>1. PICK where \in {"reduce", "fiu_fail"} : Push(t, Frame(f, w.orig, s, n, TRUE, where))
      BY <2>2 DEF mkwrap_top
    <3> QED BY <1>2, <3>1
  <2>3. CASE mkwrap_body_called(t, f, s, n)
    <3>1. PICK where \in {"init", "orig", "exit"} :
             Push(t, Frame(f, w.nested, s, n, FALSE, where))
      BY <2>3 DEF mkwrap_body_called
    <3> QED BY <1>2, <3>1
  <2> QED BY <1>1, <2>1, <2>2, <2>3
<1> QED BY <1>1, <1>3

\* The functions that somebody calls.
Called(f) ==
    \/ f \in Callees \cup Callbacks
    \/ \E t \in Threads : \E i \in DOMAIN Program[t] : f \in Program[t][i]

\* Who closes a stream has it for itself (the program's part of the deal).
LEMMA ClosesAlone ==
  ASSUME NEW f \in Closers, NEW s \in Streams \cup {NULL}, MayUse(f, s)
  PROVE  /\ s \in Streams
         /\ \A u \in Threads : \A j \in DOMAIN stack[u] : stack[u][j].stream # s
<1>1. Wrapped[f].uses = "arg"
  BY DEF Closers, Wrapped, fclose, pclose, Wrapper, generate_to
<1>2. s # NULL /\ ~InUse(s)
  BY <1>1 DEF MayUse, Closers
<1>3. ASSUME NEW u \in Threads, NEW j \in DOMAIN stack[u], stack[u][j].stream = s
      PROVE  FALSE
  <2>1. stack[u][j] \in ToSet(stack[u])
    BY DEF ToSet
  <2> QED BY <1>2, <1>3, <2>1 DEF InUse
<1> QED BY <1>2, <1>3

\* Nobody calls a function for a stream that is being closed.
LEMMA ClosersEnter ==
  ASSUME IInv, ClosersAlone, NEW t \in Threads, NEW f, NEW s \in Streams \cup {NULL},
         NEW x, Push(t, x), Entering(x, f, s), MayUse(f, s), Begins(t, f, s)
  PROVE  ClosersAlone'
<1> DEFINE n == Len(stack[t]) + 1
<1>3. /\ n \in DOMAIN stack'[t] /\ n \notin DOMAIN stack[t] /\ stack'[t][n] = x
      /\ \A u \in Threads : \A j \in DOMAIN stack'[u] :
            \/ u = t /\ j = n
            \/ j \in DOMAIN stack[u] /\ stack'[u][j] = stack[u][j]
  BY PushedPlaces DEF IInv
<1> HIDE DEF n
<1>4. x.fn = f /\ x.stream = s
  BY DEF Entering
<1>5. file' = IF f \in Closers THEN [file EXCEPT ![s] = "closing"] ELSE file
  BY DEF Begins
<1>6. file \in [Streams -> {"none", "closing"} \cup Openers]
  BY DEF IInv, Rest
<1>7. s # NULL => s \in Streams /\ file[s] # "closing"
  BY <1>6 DEF MayUse, Openers
<1>8. ASSUME f \in Closers
      PROVE  /\ s \in Streams
             /\ \A u \in Threads : \A j \in DOMAIN stack[u] : stack[u][j].stream # s
  BY <1>8, ClosesAlone
<1>10. ClosersAlone'
  <2>1. ASSUME NEW u \in Threads, NEW j \in DOMAIN stack'[u]
        PROVE  /\ stack'[u][j].fn \in Closers => stack'[u][j].stream \in Streams
               /\ Closing(stack'[u][j]) => file'[stack'[u][j].stream] = "closing"
    <3>1. CASE u = t /\ j = n
      BY <1>3, <1>4, <1>5, <1>6, <1>8, <3>1 DEF Closing
    <3>2. CASE j \in DOMAIN stack[u] /\ stack'[u][j] = stack[u][j]
      <4>1. /\ stack[u][j].fn \in Closers => stack[u][j].stream \in Streams
            /\ Closing(stack[u][j]) => file[stack[u][j].stream] = "closing"
                                       /\ stack[u][j].fn \in Closers
        BY <3>2 DEF ClosersAlone, Closing
      <4>2. \A z \in Streams : file[z] = "closing" => file'[z] = "closing"
        BY <1>5, <1>6
      <4> QED BY <3>2, <4>1, <4>2
    <3> QED BY <1>3, <3>1, <3>2
  <2>2. ASSUME NEW u \in Threads, NEW j \in DOMAIN stack'[u], Closing(stack'[u][j]),
               NEW v \in Threads, NEW k \in DOMAIN stack'[v], v # u \/ k # j
        PROVE  stack'[v][k].stream # stack'[u][j].stream
    <3>1. CASE u = t /\ j = n
      <4>1. f \in Closers /\ stack'[u][j].stream = s
        BY <1>3, <1>4, <2>2, <3>1 DEF Closing
      <4>2. k \in DOMAIN stack[v] /\ stack'[v][k] = stack[v][k]
        BY <1>3, <2>2, <3>1
      <4> QED BY <1>8, <4>1, <4>2
    <3>2. CASE j \in DOMAIN stack[u] /\ stack'[u][j] = stack[u][j]
      <4>1. /\ stack[u][j].stream \in Streams /\ file[stack[u][j].stream] = "closing"
            /\ Closing(stack[u][j])
        BY <2>2, <3>2 DEF ClosersAlone, Closing
      <4>2. CASE v = t /\ k = n
        BY <1>3, <1>4, <1>7, <3>2, <4>1, <4>2
      <4>3. CASE k \in DOMAIN stack[v] /\ stack'[v][k] = stack[v][k]
        BY <2>2, <3>2, <4>1, <4>3 DEF ClosersAlone
      <4> QED BY <1>3, <4>2, <4>3
    <3> QED BY <1>3, <3>1, <3>2
  <2> QED BY <2>1, <2>2 DEF ClosersAlone, Closing
<1> QED BY <1>10

\* A call of the program is one of a function that its text names.
LEMMA CallsOfProgram ==
  ASSUME IInv, NEW t \in Threads, Call(t)
  PROVE  \E f : Enter(t, f) /\ f \in DOMAIN Wrapped /\ Called(f)
<1>1. PICK f \in Program[t][calls'[t]] : Enter(t, f)
  BY DEF Call
<1>2. calls \in [Threads -> Nat] /\ calls' = [calls EXCEPT ![t] = @ + 1]
      /\ calls[t] < Len(Program[t])
  BY DEF Call, IInv, Rest
<1>3. calls'[t] \in DOMAIN Program[t]
  BY <1>2
<1>4. f \in DOMAIN Wrapped /\ Called(f)
  BY <1>1, <1>3 DEF Called
<1> QED BY <1>1, <1>4

\* A call, and the streams: who begins to close or to clear one has nobody else
\* on it, or makes them overlapped.
LEMMA SInvEnter ==
  ASSUME IInv, SInv, NEW t \in Threads, NEW f \in DOMAIN Wrapped, MarksDeclared(f),
         Enter(t, f)
  PROVE  SInv'
<1>0. PICK s \in Streams \cup {NULL} :
         \E x : Push(t, x) /\ Entering(x, f, s) /\ MayUse(f, s) /\ Begins(t, f, s)
  BY EnterPushes
<1>1. PICK x : Push(t, x) /\ Entering(x, f, s) /\ MayUse(f, s) /\ Begins(t, f, s)
  BY <1>0
<1>2. UNCHANGED <<once, ferror_set>>
  BY DEF Enter, setVars
<1> DEFINE n == Len(stack[t]) + 1
<1>3. /\ n \in DOMAIN stack'[t] /\ n \notin DOMAIN stack[t] /\ stack'[t][n] = x
      /\ \A u \in Threads : \A j \in DOMAIN stack'[u] :
            \/ u = t /\ j = n
            \/ j \in DOMAIN stack[u] /\ stack'[u][j] = stack[u][j]
  BY <1>1, PushedPlaces DEF IInv
<1> HIDE DEF n
<1>4. /\ x.fn = f /\ x.stream = s /\ x.r = 0 /\ (x.owed <=> s \in owed)
      /\ x.pc \notin {"create", "lock", "hash"} /\ (x.counted => x.pc # "exit")
  BY <1>1 DEF Entering
<1>5. /\ file' = IF f \in Closers THEN [file EXCEPT ![s] = "closing"] ELSE file
      /\ owed' = IF f \in Closers \cup {"clearerr"} THEN owed \ {s} ELSE owed
      /\ overlapped \subseteq overlapped'
  BY <1>1 DEF Begins
<1>6. file \in [Streams -> {"none", "closing"} \cup Openers]
  BY DEF IInv, Rest
\* Nobody closes the stream, and nobody uses one that is to be closed.
<1>7. s # NULL => s \in Streams /\ file[s] # "closing"
  BY <1>1, <1>6 DEF MayUse, Openers
<1>8. ASSUME f \in Closers
      PROVE  /\ s \in Streams
             /\ \A u \in Threads : \A j \in DOMAIN stack[u] : stack[u][j].stream # s
  BY <1>1, <1>8, ClosesAlone
<1>9. ASSUME NEW u \in Threads, NEW j \in DOMAIN stack[u], stack[u][j].stream = s
      PROVE  /\ f = "clearerr" => u \in overlapped'
             /\ stack[u][j].fn = "clearerr" => t \in overlapped'
  <2>1. stack[u][j] \in ToSet(stack[u])
    BY DEF ToSet
  <2>2. f = "clearerr" => u \in overlapped'
    BY <1>1, <1>9, <2>1 DEF Begins
  <2>3. ASSUME stack[u][j].fn = "clearerr" PROVE t \in overlapped'
    <3>1. Clearing(u, s)
      BY <1>9, <2>1, <2>3 DEF Clearing
    <3> QED BY <1>1, <3>1 DEF Begins
  <2> QED BY <2>2, <2>3
<1>10. ClosersAlone'
  BY <1>1, ClosersEnter DEF SInv
<1>11. ClearersKnown'
  <2>1. ASSUME NEW u \in Threads, NEW j \in DOMAIN stack'[u],
               stack'[u][j].fn = "clearerr",
               NEW v \in Threads, NEW k \in DOMAIN stack'[v], v # u \/ k # j,
               stack'[v][k].stream = stack'[u][j].stream
        PROVE  v \in overlapped'
    <3>1. CASE u = t /\ j = n
      <4>1. f = "clearerr" /\ stack'[u][j].stream = s
        BY <1>3, <1>4, <2>1, <3>1
      <4>2. k \in DOMAIN stack[v] /\ stack'[v][k] = stack[v][k]
        BY <1>3, <2>1, <3>1
      <4> QED BY <1>9, <2>1, <4>1, <4>2
    <3>2. CASE j \in DOMAIN stack[u] /\ stack'[u][j] = stack[u][j]
      <4>1. CASE v = t /\ k = n
        BY <1>3, <1>4, <1>9, <2>1, <3>2, <4>1
      <4>2. CASE k \in DOMAIN stack[v] /\ stack'[v][k] = stack[v][k]
        BY <1>5, <2>1, <3>2, <4>2 DEF SInv, ClearersKnown
      <4> QED BY <1>3, <4>1, <4>2
    <3> QED BY <1>3, <3>1, <3>2
  <2> QED BY <2>1 DEF ClearersKnown
<1>12. Created'
  <2>1. ASSUME NEW u \in Threads, NEW j \in DOMAIN stack'[u],
               stack'[u][j].pc \in {"create", "lock", "hash"}
        PROVE  j \in DOMAIN stack[u] /\ stack'[u][j] = stack[u][j]
    BY <1>3, <1>4, <2>1
  <2>2. ASSUME NEW u \in Threads, NEW j \in DOMAIN stack'[u]
        PROVE  /\ stack'[u][j].pc \in {"lock", "hash"} => once' = "done"
               /\ stack'[u][j].pc = "create" => once' = u
    BY <1>2, <2>1 DEF SInv, Created
  <2>3. ASSUME NEW u \in Threads, NEW j \in DOMAIN stack'[u],
               NEW v \in Threads, NEW k \in DOMAIN stack'[v],
               stack'[u][j].pc = "create", stack'[v][k].pc = "create"
        PROVE  v = u /\ k = j
    <3>1. /\ j \in DOMAIN stack[u] /\ stack[u][j].pc = "create"
          /\ k \in DOMAIN stack[v] /\ stack[v][k].pc = "create"
      BY <2>1, <2>3
    <3> QED BY <3>1 DEF SInv, Created
  <2>4. ferror_set' # {} => once' = "done"
    BY <1>2 DEF SInv, Created
  <2> QED BY <2>2, <2>3, <2>4 DEF Created
<1>13. FailuresKept'
  <2>1. owed' \subseteq owed /\ owed' \subseteq ferror_set'
    BY <1>2, <1>5 DEF SInv, FailuresKept
  <2>2. ASSUME NEW u \in Threads, NEW j \in DOMAIN stack'[u]
        PROVE  /\ stack'[u][j].stream \in owed' =>
                    stack'[u][j].fn # "clearerr" /\ ~Closing(stack'[u][j])
               /\ Failed(stack'[u][j]) /\ u \notin overlapped' =>
                    stack'[u][j].stream \in ferror_set'
    <3>1. CASE u = t /\ j = n
      BY <1>3, <1>4, <1>5, <3>1 DEF Closing, Failed
    <3>2. CASE j \in DOMAIN stack[u] /\ stack'[u][j] = stack[u][j]
      <4>1. /\ stack[u][j].stream \in owed =>
                  stack[u][j].fn # "clearerr" /\ ~Closing(stack[u][j])
            /\ Failed(stack[u][j]) /\ u \notin overlapped =>
                  stack[u][j].stream \in ferror_set
        BY <3>2 DEF SInv, FailuresKept
      <4> QED BY <1>2, <1>5, <2>1, <3>2, <4>1
    <3> QED BY <1>3, <3>1, <3>2
  <2> QED BY <2>1, <2>2 DEF FailuresKept, Failed, Closing
<1>14. AnswersKept'
  <2>1. ASSUME NEW u \in Threads, NEW j \in DOMAIN stack'[u], Asks(stack'[u][j]),
               u \notin overlapped'
        PROVE  IF stack'[u][j].pc = "exit" THEN stack'[u][j].r = 1
               ELSE stack'[u][j].stream \in owed'
    <3>1. CASE u = t /\ j = n
      <4>1. f = "ferror" /\ x.counted /\ x.owed /\ stack'[u][j] = x
        BY <1>3, <1>4, <2>1, <3>1 DEF Asks
      <4>2. owed' = owed
        BY <1>5, <4>1 DEF Closers
      <4> QED BY <1>4, <4>1, <4>2
    <3>2. CASE j \in DOMAIN stack[u] /\ stack'[u][j] = stack[u][j]
      <4>1. IF stack[u][j].pc = "exit" THEN stack[u][j].r = 1
            ELSE stack[u][j].stream \in owed
        BY <1>5, <2>1, <3>2 DEF SInv, AnswersKept
      <4>2. stack[u][j].stream = s => f \notin Closers \cup {"clearerr"}
        BY <1>8, <1>9, <2>1, <3>2
      <4> QED BY <1>5, <3>2, <4>1, <4>2
    <3> QED BY <1>3, <3>1, <3>2
  <2> QED BY <2>1 DEF AnswersKept, Asks
<1>15. Honest'
  <2>1. ASSUME NEW u \in Threads, NEW j \in DOMAIN stack'[u]
        PROVE  /\ MarksDeclared(stack'[u][j].fn)
               /\ Wrapped[stack'[u][j].fn].sets \notin {NULL, "arg"} =>
                    stack'[u][j].stream = Wrapped[stack'[u][j].fn].sets
    <3>1. CASE u = t /\ j = n
      <4>1. Wrapped[f].sets \notin {NULL, "arg"} => s = Wrapped[f].sets
        BY <1>1, WrappedFacts DEF Sane, MayUse
      <4> QED BY <1>3, <1>4, <3>1, <4>1
    <3>2. CASE j \in DOMAIN stack[u] /\ stack'[u][j] = stack[u][j]
      <4>1. /\ MarksDeclared(stack[u][j].fn)
            /\ Wrapped[stack[u][j].fn].sets \notin {NULL, "arg"} =>
                  stack[u][j].stream = Wrapped[stack[u][j].fn].sets
        BY <3>2 DEF SInv, Honest
      <4> QED BY <3>2, <4>1
    <3> QED BY <1>3, <3>1, <3>2
  <2> QED BY <2>1 DEF Honest, MarksDeclared
<1> QED BY <1>10, <1>11, <1>12, <1>13, <1>14, <1>15 DEF SInv

\* At the start nobody is in a wrapper and the set is empty.
LEMMA SInvInit == Init => SInv
<1> SUFFICES ASSUME Init PROVE SInv
  OBVIOUS
<1>1. ferror_set = {} /\ owed = {} /\ \A t \in Threads : DOMAIN stack[t] = {}
  BY DEF Init
<1>2. ClosersAlone /\ ClearersKnown /\ AnswersKept /\ Honest
  BY <1>1 DEF ClosersAlone, ClearersKnown, AnswersKept, Honest
<1>3. Created /\ FailuresKept
  BY <1>1 DEF Created, FailuresKept
<1> QED BY <1>2, <1>3 DEF SInv

\* Every step of every thread keeps what SInv says of the streams.
LEMMA SInvNext ==
  ASSUME \A f \in DOMAIN Wrapped : Called(f) => MarksDeclared(f),
         IInv, SInv, NEW t \in Threads, Call(t) \/ NestedCall(t) \/ Step(t)
  PROVE  SInv'
<1>1. CASE Call(t)
  <2>1. PICK f : Enter(t, f) /\ f \in DOMAIN Wrapped /\ Called(f)
    BY <1>1, CallsOfProgram
  <2> QED BY <2>1, SInvEnter
<1>2. CASE NestedCall(t)
  <2>1. PICK f \in Callees \cup Callbacks : Enter(t, f)
    BY <1>2 DEF NestedCall
  <2>2. f \in DOMAIN Wrapped /\ Called(f)
    BY <2>1 DEF Called
  <2> QED BY <2>1, <2>2, SInvEnter
<1>3. CASE Step(t)
  BY <1>3, SInvBody, SInvLibc, SInvSet, SInvExit DEF Step
<1> QED BY <1>1, <1>2, <1>3

\* The answer of ferror(), for every program and every library whose functions
\* mark the stream they are declared to mark.
THEOREM FerrorKeepsFailuresCorrect ==
  ASSUME \A f \in DOMAIN Wrapped : Called(f) => MarksDeclared(f)
  PROVE  Spec => []FerrorKeepsFailures
<1>1. IInv /\ SInv /\ [Next]_vars => SInv'
  <2> SUFFICES ASSUME IInv, SInv, [Next]_vars PROVE SInv'
    OBVIOUS
  <2>1. CASE UNCHANGED vars
    <3>1. /\ stack' = stack /\ file' = file /\ overlapped' = overlapped
          /\ ferror_set' = ferror_set /\ once' = once /\ owed' = owed
      BY <2>1 DEF vars, setVars, history
    <3>2. ClosersAlone' /\ ClearersKnown'
      BY <3>1 DEF SInv, ClosersAlone, ClearersKnown, Closing
    <3>3. Created'
      BY <3>1 DEF SInv, Created
    <3>4. FailuresKept' /\ AnswersKept'
      BY <3>1 DEF SInv, FailuresKept, AnswersKept, Failed, Asks, Closing
    <3>5. Honest'
      BY <3>1 DEF SInv, Honest, MarksDeclared
    <3> QED BY <3>2, <3>3, <3>4, <3>5 DEF SInv
  <2>2. CASE Next
    BY <2>2, SInvNext DEF Next
  <2> QED BY <2>1, <2>2
<1>2. IInv /\ SInv => FerrorKeepsFailures
  <2> SUFFICES ASSUME IInv, SInv, NEW t \in Threads, NEW fr \in ToSet(stack[t]),
                      fr.fn = "ferror", fr.counted, fr.owed, fr.pc = "exit",
                      t \notin overlapped
               PROVE  fr.r = 1
    BY DEF FerrorKeepsFailures
  <2>1. PICK i \in DOMAIN stack[t] : fr = stack[t][i]
    BY StackFacts DEF ToSet
  <2> QED BY <2>1 DEF SInv, AnswersKept, Asks
<1> QED BY <1>1, <1>2, SInvInit, Invariance, PTL DEF Spec
------------------------------------------------------------------------------
(***************************************************************************)
(* No stale entries.                                                       *)
(***************************************************************************)

\* What a step within a wrapper may do to the set, and to the streams with a
\* failure since they were opened.
YoungStep(t, y) ==
    /\ FileCloses(t, y)
    /\ \A s \in ferror_set' \ ferror_set : s = Top(t).stream /\ Pending(Top(t))
    /\ \A s \in injected \ injected' :
          s = Top(t).stream /\ Closing(Top(t)) /\ ~Pending(Top(t)) /\ s \notin ferror_set
    /\ Pending(y) => y.stream \in injected'
    /\ y.fn = "fclose" /\ y.pc \in {"init", "orig"} => y.stream \notin ferror_set'

\* Such a step puts in only what failed since it was opened, and forgets only
\* the failures of a stream that is closed, and that nobody else has.
LEMMA YoungMove ==
  ASSUME IInv, YInv, NEW t \in Threads, NEW y, Moves(t, y), YoungStep(t, y)
  PROVE  YInv'
<1> DEFINE n == Len(stack[t])
<1>1. /\ n \in DOMAIN stack[t] /\ stack[t][n] = Top(t)
      /\ \A u \in Threads : DOMAIN stack'[u] = DOMAIN stack[u]
      /\ \A u \in Threads : \A j \in DOMAIN stack[u] :
            stack'[u][j] = IF u = t /\ j = n THEN y ELSE stack[u][j]
  BY RewrittenPlaces DEF Moves, IInv
<1>2. /\ y.fn = Top(t).fn /\ y.stream = Top(t).stream /\ y.counted = Top(t).counted
      /\ Top(t).pc # "exit"
  BY MovesSame DEF Moves
<1> HIDE DEF n
<1>3. ClosersAlone'
  BY ClosersMove DEF YInv, YoungStep, FileCloses
<1>4. YoungFrame(Top(t), injected, ferror_set)
  BY <1>1 DEF YInv, Young
<1>5. ferror_set' \subseteq injected'
  <2>1. ASSUME NEW s \in ferror_set' PROVE s \in injected'
    <3>1. s \in injected
      BY <1>4 DEF YInv, Young, YoungFrame, YoungStep
    <3>2. CASE s \in ferror_set
      BY <3>1, <3>2 DEF YoungStep
    <3>3. CASE s \notin ferror_set
      <4>1. s = Top(t).stream /\ Pending(Top(t))
        BY <3>3 DEF YoungStep
      <4> QED BY <3>1, <4>1 DEF YoungStep
    <3> QED BY <3>2, <3>3
  <2> QED BY <2>1
<1>6. ASSUME NEW u \in Threads, NEW j \in DOMAIN stack'[u]
      PROVE  YoungFrame(stack'[u][j], injected', ferror_set')
  <2>1. CASE u = t /\ j = n
    <3>1. stack'[u][j] = y
      BY <1>1, <2>1
    <3> QED BY <1>2, <1>4, <3>1 DEF YoungFrame, YoungStep
  <2>2. CASE ~(u = t /\ j = n)
    <3>1. j \in DOMAIN stack[u] /\ stack'[u][j] = stack[u][j] 
          /\ YoungFrame(stack[u][j], injected, ferror_set)
      BY <1>1, <1>6, <2>2 DEF YInv, Young
    <3>2. Closing(Top(t)) => stack[u][j].stream # Top(t).stream
      <4>1. ASSUME Closing(stack[t][n])
            PROVE  stack[u][j].stream # stack[t][n].stream
        <5>1. n \in DOMAIN stack[t] /\ j \in DOMAIN stack[u] /\ (u # t \/ j # n)
          BY <1>1, <2>2, <3>1
        <5> QED BY <4>1, <5>1 DEF YInv, ClosersAlone
      <4> QED BY <1>1, <4>1
    <3>3. Closing(stack[u][j]) => stack[u][j].stream # Top(t).stream
      BY <1>1, <2>2, <3>1 DEF YInv, ClosersAlone
    <3>4. Pending(stack[u][j]) => stack[u][j].stream \in injected'
      BY <3>1, <3>2 DEF YoungFrame, YoungStep
    <3>5. stack[u][j].fn = "fclose" /\ stack[u][j].pc \in {"init", "orig"} =>
             stack[u][j].stream \notin ferror_set'
      BY <3>1, <3>3 DEF YoungFrame, YoungStep, Closing, Closers
    <3> QED BY <3>1, <3>4, <3>5 DEF YoungFrame
  <2> QED BY <2>1, <2>2
<1> QED BY <1>3, <1>5, <1>6 DEF YInv, Young

\* What the invariants say of the wrapper that a thread is in.
LEMMA YoungTop ==
  ASSUME IInv, YInv, NEW t \in Threads, stack[t] # <<>>
  PROVE  /\ Top(t) \in FrameType /\ GoodFrame(Len(stack[t]), Top(t))
         /\ YoungFrame(Top(t), injected, ferror_set)
<1>1. Len(stack[t]) \in DOMAIN stack[t] /\ stack[t][Len(stack[t])] = Top(t)
  BY TopFacts DEF IInv
<1>2. YoungFrame(Top(t), injected, ferror_set)
  BY <1>1 DEF YInv, Young
<1> QED BY <1>2, TopFacts DEF IInv

\* A step that leaves the set alone, and leads neither to its change nor, in
\* fclose(), around it.
Harmless(t, y) ==
    /\ Pending(y) => Pending(Top(t))
    /\ y.fn = "fclose" /\ y.pc \in {"init", "orig"} => Top(t).pc \in {"init", "orig"}

\* Such a step keeps YInv.
LEMMA YoungGo ==
  ASSUME IInv, YInv, NEW t \in Threads, NEW y, Moves(t, y),
         ferror_set' = ferror_set, injected' = injected, FileCloses(t, y),
         Harmless(t, y)
  PROVE  YInv'
<1>1. YoungFrame(Top(t), injected, ferror_set)
  BY YoungTop DEF Moves
<1>2. y.fn = Top(t).fn /\ y.stream = Top(t).stream
  BY MovesSame
<1>3. YoungStep(t, y)
  BY <1>1, <1>2 DEF YoungStep, YoungFrame, Harmless
<1> QED BY <1>3, YoungMove

\* The body of a wrapper: a stream to be marked has failed, and fclose() goes
\* to the set before it looks up or calls libc's.
LEMMA YoungBody ==
  ASSUME IInv, YInv, NEW t \in Threads,
         \/ mkwrap_body_reduce(t) \/ mkwrap_body_fails(t) \/ mkwrap_body_passes(t)
         \/ mkwrap_init(t)
  PROVE  YInv'
<1>1. /\ stack[t] # <<>> /\ Top(t).pc \in {"reduce", "fiu_fail", "init"}
      /\ Top(t).pc # "exit"
      /\ ferror_set' = ferror_set /\ file' = file
      /\ owed' = owed /\ overlapped' = overlapped
  BY DEF mkwrap_body_reduce, mkwrap_body_fails, mkwrap_body_passes, mkwrap_init,
         At, setVars, history
<1>2. Top(t).r = 0
  BY <1>1, YoungTop DEF GoodFrame
<1>3. CASE mkwrap_body_reduce(t)
  <2>1. PICK k : SetsCount(t, "fiu_fail", k)
    BY <1>3 DEF mkwrap_body_reduce, SetsCount
  <2>2. PICK y : Moves(t, y) /\ y.pc = "fiu_fail"
    BY <1>1, <2>1, CountMoves
  <2>3. Harmless(t, y) /\ injected' = injected
    BY <1>3, <2>2 DEF Harmless, Pending, mkwrap_body_reduce, history
  <2> QED BY <1>1, <2>2, <2>3, YoungGo, SameFile
<1>4. CASE mkwrap_body_fails(t)
  <2>1. CASE Wrapped[Top(t).fn].sets = NULL
    <3>1. PICK y : Moves(t, y) /\ y.pc = "exit"
      BY <1>1, <1>4, <2>1, FinishMoves DEF mkwrap_body_fails
    <3>2. Harmless(t, y) /\ injected' = injected
      BY <1>4, <2>1, <3>1 DEF Harmless, Pending, mkwrap_body_fails
    <3> QED BY <1>1, <3>1, <3>2, YoungGo, SameFile
  <2>2. CASE Wrapped[Top(t).fn].sets # NULL
    <3>1. SetsResult(t, "once", 1) /\ injected' = injected \cup {Top(t).stream}
      BY <1>4, <2>2 DEF mkwrap_body_fails, SetsResult
    <3>2. PICK y : Moves(t, y) /\ y.pc = "once"
      BY <1>1, <3>1, ResultMoves
    <3>3. YoungStep(t, y)
      BY <1>1, <3>1, <3>2, MovesSame, SameFile DEF YoungStep
    <3> QED BY <3>2, <3>3, YoungMove
  <2> QED BY <2>1, <2>2
<1>5. CASE mkwrap_body_passes(t)
  <2>1. PICK where \in {"init", "orig", "once"} :
           Goto(t, where) /\ (Top(t).fn = "fclose" => where = "once")
    BY <1>5, AfterFacts DEF mkwrap_body_passes, Continue
  <2>2. Goto(t, where)
    BY <2>1
  <2>3. PICK y : Moves(t, y) /\ y.pc = where /\ y.r = Top(t).r
    BY <1>1, <2>2, GoMoves
  <2>4. y.fn = Top(t).fn
    BY <2>3, MovesSame
  <2>5. Harmless(t, y) /\ injected' = injected
    BY <1>2, <1>5, <2>1, <2>3, <2>4 DEF Harmless, Pending, mkwrap_body_passes, history
  <2> QED BY <1>1, <2>3, <2>5, YoungGo, SameFile
<1>6. CASE mkwrap_init(t)
  <2>1. PICK y : Moves(t, y) /\ y.pc = "orig"
    BY <1>1, <1>6, GoMoves DEF mkwrap_init
  <2>2. Harmless(t, y) /\ injected' = injected
    BY <1>6, <2>1 DEF Harmless, Pending, mkwrap_init, At, history
  <2> QED BY <1>1, <2>1, <2>2, YoungGo, SameFile
<1> QED BY <1>3, <1>4, <1>5, <1>6

\* libc: the address of a closed stream is free, and not in the set.
LEMMA YoungLibc ==
  ASSUME IInv, YInv, NEW t \in Threads,
         \/ orig_open(t) \/ orig_close(t) \/ orig_clearerr(t)
         \/ orig_ferror(t) \/ orig_other(t)
  PROVE  YInv'
<1>1. /\ stack[t] # <<>> /\ Top(t).pc = "orig" /\ Top(t).pc # "exit"
      /\ ferror_set' = ferror_set
      /\ owed' = owed /\ overlapped' = overlapped
  BY DEF orig_open, orig_close, orig_clearerr, orig_ferror, orig_other, AtLibc, At,
         setVars, history
<1>2. /\ Top(t).r = 0 /\ YoungFrame(Top(t), injected, ferror_set)
      /\ file \in [Streams -> {"none", "closing"} \cup Openers]
  BY <1>1, YoungTop DEF GoodFrame, IInv, Rest
<1>3. PICK y : /\ Moves(t, y) /\ y.pc \in {"once", "exit"} /\ ~Pending(y)
               /\ Top(t).fn \in Closers => y.pc = "exit"
  <2>1. CASE Finish(t, 0) \/ Finish(t, 1)
    <3>1. PICK y : Moves(t, y) /\ y.pc = "exit"
      BY <1>1, <2>1, FinishMoves
    <3> QED BY <3>1 DEF Pending
  <2>2. CASE Goto(t, After(Top(t).fn, "orig"))
    <3> DEFINE to == After(Top(t).fn, "orig")
    <3>1. Goto(t, to)
      BY <2>2
    <3> HIDE DEF to
    <3>2. PICK y : Moves(t, y) /\ y.pc = to /\ y.r = Top(t).r
      BY <1>1, <3>1, GoMoves
    <3>3. to \in {"once", "exit"} /\ (Top(t).fn \in Closers => to = "exit")
      BY AfterFacts DEF to
    <3> QED BY <1>2, <3>2, <3>3 DEF Pending
  <2> QED BY <2>1, <2>2 DEF Return, orig_open, orig_close, orig_clearerr,
                            orig_ferror, orig_other
<1>4. Harmless(t, y)
  BY <1>1, <1>3 DEF Harmless
<1>5. CASE orig_open(t)
  <2>1. FileCloses(t, y)
    BY <1>2, <1>5 DEF orig_open, FileCloses
  <2> QED BY <1>1, <1>3, <1>4, <1>5, <2>1, YoungGo DEF orig_open, history
<1>6. CASE orig_close(t)
  <2>1. /\ Top(t).fn \in Closers /\ Top(t).fn = "fclose"
        /\ file' = [file EXCEPT ![Top(t).stream] = "none"]
        /\ injected' = injected \ {Top(t).stream}
    BY <1>2, <1>6 DEF orig_close, AtLibc, Closers, YoungFrame
  <2>2. Closing(Top(t)) /\ ~Closing(y) /\ ~Pending(Top(t)) /\ Top(t).stream \notin ferror_set
    BY <1>1, <1>2, <1>3, <2>1 DEF Closing, Pending, YoungFrame
  <2>3. FileCloses(t, y)
    BY <1>2, <2>1, <2>2 DEF FileCloses
  <2>4. YoungStep(t, y)
    BY <1>1, <1>3, <2>1, <2>2, <2>3 DEF YoungStep
  <2> QED BY <1>3, <2>4, YoungMove
<1>7. CASE orig_clearerr(t) \/ orig_ferror(t) \/ orig_other(t)
  <2>1. file' = file /\ injected' = injected
    BY <1>7 DEF orig_clearerr, orig_ferror, orig_other, history
  <2> QED BY <1>1, <1>3, <1>4, <2>1, YoungGo, SameFile
<1> QED BY <1>5, <1>6, <1>7

\* The set: what goes in has failed, and fclose() takes its stream out.
LEMMA YoungSet ==
  ASSUME IInv, YInv, NEW t \in Threads,
         \/ pthread_once(t) \/ hash_create(t) \/ ferror_lock(t)
         \/ set_ferror(t) \/ get_ferror(t) \/ clear_ferror(t)
  PROVE  YInv'
<1>1. /\ stack[t] # <<>> /\ Top(t).pc \in {"once", "create", "lock", "hash"}
      /\ Top(t).pc # "exit"
      /\ owed' = owed /\ overlapped' = overlapped /\ file' = file
      /\ injected' = injected
  BY DEF pthread_once, hash_create, ferror_lock, set_ferror, get_ferror,
         clear_ferror, At, history
<1>2. /\ Top(t) \in FrameType /\ GoodFrame(Len(stack[t]), Top(t))
      /\ YoungFrame(Top(t), injected, ferror_set)
  BY <1>1, YoungTop
<1>3. CASE pthread_once(t) \/ hash_create(t) \/ ferror_lock(t)
  <2>1. PICK where \in {"create", "lock", "hash"} : Goto(t, where)
    BY <1>3 DEF pthread_once, hash_create, ferror_lock
  <2>2. PICK y : Moves(t, y) /\ y.pc = where /\ y.r = Top(t).r
    BY <1>1, <2>1, GoMoves
  <2>3. y.fn = Top(t).fn /\ y.stream = Top(t).stream
    BY <2>2, MovesSame
  <2>4. Pending(y) => y.stream \in injected
    BY <1>1, <1>2, <2>2, <2>3 DEF Pending, YoungFrame
  <2>5. ferror_set' \subseteq ferror_set
    BY <1>3 DEF pthread_once, hash_create, ferror_lock
  <2>6. YoungStep(t, y)
    BY <1>1, <2>1, <2>2, <2>4, <2>5, SameFile DEF YoungStep
  <2> QED BY <2>2, <2>6, YoungMove
<1>4. CASE set_ferror(t)
  <2> DEFINE w == Wrapped[Top(t).fn]
  <2>1. /\ Goto(t, "exit") /\ Top(t).pc = "hash" /\ Top(t).r = 1
        /\ ferror_set' = ferror_set \cup {IF w.sets = "arg" THEN Top(t).stream ELSE w.sets}
    BY <1>4 DEF set_ferror, At
  <2>2. PICK y : Moves(t, y) /\ y.pc = "exit"
    <3>1. Goto(t, "exit")
      BY <2>1
    <3> QED BY <1>1, <3>1, GoMoves
  <2>3. ferror_set' = ferror_set \cup {Top(t).stream}
    BY <1>2, <2>1 DEF GoodFrame, YoungFrame
  <2>4. Pending(Top(t)) /\ ~Pending(y)
    BY <2>1, <2>2 DEF Pending
  <2>5. YoungStep(t, y)
    BY <1>1, <2>2, <2>3, <2>4, SameFile DEF YoungStep
  <2> QED BY <2>2, <2>5, YoungMove
<1>5. CASE get_ferror(t)
  <2> DEFINE r == IF Top(t).stream \in ferror_set THEN 1 ELSE 0
  <2>1. Finish(t, r) /\ ferror_set' = ferror_set
    BY <1>5 DEF get_ferror
  <2>2. PICK y : Moves(t, y) /\ y.pc = "exit"
    <3> HIDE DEF r
    <3>1. Finish(t, r)
      BY <2>1
    <3> QED BY <1>1, <3>1, FinishMoves
  <2>3. Harmless(t, y)
    BY <2>2 DEF Harmless, Pending
  <2> QED BY <1>1, <2>1, <2>2, <2>3, YoungGo, SameFile
<1>6. CASE clear_ferror(t)
  <2>1. /\ Top(t).fn \in {"fclose", "clearerr"}
        /\ ferror_set' = ferror_set \ {Top(t).stream}
    BY <1>6 DEF clear_ferror
  <2>2. PICK where \in {"orig", "exit", "init"} : Goto(t, where)
    BY <1>6, AfterFacts DEF clear_ferror, Continue
  <2>3. PICK y : Moves(t, y) /\ y.pc = where
    BY <1>1, <2>2, GoMoves
  <2>4. y.stream = Top(t).stream /\ ~Pending(y)
    BY <2>2, <2>3, MovesSame DEF Pending
  <2>5. YoungStep(t, y)
    BY <1>1, <2>1, <2>3, <2>4, SameFile DEF YoungStep
  <2> QED BY <2>3, <2>5, YoungMove
<1> QED BY <1>3, <1>4, <1>5, <1>6

\* A wrapper that returns changes neither the set nor what has failed.
LEMMA YoungExit ==
  ASSUME IInv, YInv, NEW t \in Threads, exit(t)
  PROVE  YInv'
<1>1. ClosersAlone'
  BY ClosersExit DEF YInv
<1>2. \A u \in Threads : \A j \in DOMAIN stack'[u] :
         j \in DOMAIN stack[u] /\ stack'[u][j] = stack[u][j]
  BY PoppedPlaces DEF IInv
<1>3. ferror_set' = ferror_set /\ injected' = injected
  BY DEF exit, setVars
<1>4. ASSUME NEW u \in Threads, NEW j \in DOMAIN stack'[u]
      PROVE  YoungFrame(stack'[u][j], injected', ferror_set')
  BY <1>2, <1>3 DEF YInv, Young
<1> QED BY <1>1, <1>3, <1>4 DEF YInv, Young

\* A call: that of fclose(), the outermost one, counts itself and so goes by
\* the set.
LEMMA YoungEnter ==
  ASSUME IInv, YInv, NEW t \in Threads, NEW f \in DOMAIN Wrapped, f # "pclose",
         f = "fclose" => stack[t] = <<>>, Enter(t, f)
  PROVE  YInv'
<1>0. PICK s \in Streams \cup {NULL} :
         \E x : Push(t, x) /\ Entering(x, f, s) /\ MayUse(f, s) /\ Begins(t, f, s)
  BY EnterPushes
<1>1. PICK x : Push(t, x) /\ Entering(x, f, s) /\ MayUse(f, s) /\ Begins(t, f, s)
  BY <1>0
<1> DEFINE n == Len(stack[t]) + 1
<1>2. /\ n \in DOMAIN stack'[t] /\ n \notin DOMAIN stack[t] /\ stack'[t][n] = x
      /\ \A u \in Threads : \A j \in DOMAIN stack'[u] :
            \/ u = t /\ j = n
            \/ j \in DOMAIN stack[u] /\ stack'[u][j] = stack[u][j]
  BY <1>1, PushedPlaces DEF IInv
<1>3. f = "fclose" => stack'[t][n].counted /\ stack'[t][n].pc = "fiu_fail"
  <2>1. SUFFICES ASSUME f = "fclose" PROVE stack'[t][n].counted /\ stack'[t][n].pc = "fiu_fail"
    OBVIOUS
  <2>2. called[t] = 0 /\ stack[t] = <<>>
    BY <2>1, StackFacts, CountEmpty
  <2>3. PICK s1, n1 : mkwrap_top(t, f, s1, n1)
    BY <2>1, <2>2 DEF Enter, mkwrap_body_called
  <2>4. ~Wrapped["fclose"].reduce
    BY DEF Wrapped, fclose, Wrapper
  <2> DEFINE y == Frame(f, Wrapped[f].orig, s1, n1, TRUE, "fiu_fail")
  <2>5. Push(t, y)
    BY <2>1, <2>3, <2>4 DEF mkwrap_top
  <2>6. y.counted /\ y.pc = "fiu_fail"
    BY DEF Frame
  <2> HIDE DEF y
  <2>7. stack'[t][n] = y
    BY <2>5, PushedPlaces DEF IInv
  <2> QED BY <2>6, <2>7
<1> HIDE DEF n
<1>4. /\ x.fn = f /\ x.stream = s /\ x.r = 0
      /\ Wrapped[f].sets \notin {NULL, "arg"} => s = Wrapped[f].sets
  BY <1>1, WrappedFacts DEF Entering, Sane, MayUse
<1>5. ferror_set' = ferror_set /\ injected' = injected
  BY <1>1 DEF Begins, Enter, setVars
<1>6. ClosersAlone'
  BY <1>1, ClosersEnter DEF YInv
<1>7. YoungFrame(x, injected, ferror_set)
  BY <1>2, <1>3, <1>4 DEF YoungFrame, Pending
<1>8. ASSUME NEW u \in Threads, NEW j \in DOMAIN stack'[u]
      PROVE  YoungFrame(stack'[u][j], injected', ferror_set')
  BY <1>2, <1>5, <1>7 DEF YInv, Young
<1> QED BY <1>5, <1>6, <1>8 DEF YInv, Young

\* No stale entries, however many threads open, use and close streams at the
\* same addresses, as long as no stream is closed around the set: by pclose(),
\* whose wrapper does not look at it, or by libc or a callback on their own.
THEOREM NoStaleEntriesCorrect ==
  ASSUME ~Called("pclose"), "fclose" \notin Callees \cup Callbacks
  PROVE  Spec => []NoStaleEntries
<1>1. Init => YInv
  <2> SUFFICES ASSUME Init PROVE YInv
    OBVIOUS
  <2>1. ferror_set = {} /\ \A t \in Threads : DOMAIN stack[t] = {}
    BY DEF Init
  <2> QED BY <2>1 DEF YInv, ClosersAlone, Young
<1>2. IInv /\ YInv /\ [Next]_vars => YInv'
  <2> SUFFICES ASSUME IInv, YInv, [Next]_vars PROVE YInv'
    OBVIOUS
  <2>1. CASE UNCHANGED vars
    <3>1. /\ stack' = stack /\ file' = file
          /\ ferror_set' = ferror_set /\ injected' = injected
      BY <2>1 DEF vars, setVars, history
    <3> QED BY <3>1 DEF YInv, ClosersAlone, Young, Closing
  <2>2. ASSUME NEW t \in Threads, Call(t) PROVE YInv'
    <3>1. PICK f : Enter(t, f) /\ f \in DOMAIN Wrapped /\ Called(f)
      BY <2>2, CallsOfProgram
    <3>2. f # "pclose" /\ stack[t] = <<>>
      BY <2>2, <3>1 DEF Call
    <3> QED BY <3>1, <3>2, YoungEnter
  <2>3. ASSUME NEW t \in Threads, NestedCall(t) PROVE YInv'
    <3>1. PICK f \in Callees \cup Callbacks : Enter(t, f)
      BY <2>3 DEF NestedCall
    <3>2. f \in DOMAIN Wrapped /\ f # "pclose" /\ f # "fclose"
      BY <3>1 DEF Called
    <3> QED BY <3>1, <3>2, YoungEnter
  <2>4. ASSUME NEW t \in Threads, Step(t) PROVE YInv'
    BY <2>4, YoungBody, YoungLibc, YoungSet, YoungExit DEF Step
  <2> QED BY <2>1, <2>2, <2>3, <2>4 DEF Next
<1>3. YInv => NoStaleEntries
  BY DEF YInv, Young, NoStaleEntries
<1> QED BY <1>1, <1>2, <1>3, Invariance, PTL DEF Spec
================================================================================
