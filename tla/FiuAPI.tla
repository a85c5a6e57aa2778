------------------------------- MODULE FiuAPI -------------------------------
(***************************************************************************)
(* The calls of fiu.h and fiu-control.h as threads that make them at the   *)
(* same time see them: every call takes effect at one instant between its  *)
(* invocation and its return.  A call of fiu_fail() looks at one point of  *)
(* failure that is enabled for the name at that instant; a point with      *)
(* FIU_ONETIME fails one call at most, whatever the number of threads.     *)
(*                                                                         *)
(* It is what the code does, taken as a whole, and in two ways less than   *)
(* what its documents say.  A point with FIU_ONETIME that has failed is    *)
(* spent: it stays where it is until it is disabled or enabled again, and  *)
(* hides the wildcards that cover its name, where libfiu.3:148 and         *)
(* fiu-control.h:18 have it disabled.  And a call that answers -1 may have *)
(* lost the table, with every point in it.                                 *)
(***************************************************************************)
EXTENDS PointNames, Integers

CONSTANTS Threads,
          Infos,    \* failnum and the failinfo that goes with it
          Methods   \* of the points of failure: a subset of
                    \* {"always", "prob", "external", "stack"}

VARIABLES ready,    \* fiu_init() has succeeded
          usable,   \* there is a table to put points of failure in
          points,   \* the point of failure enabled under every key
          call,     \* the call every thread is in
          result,   \* its result, NULL until it has taken effect
          failinfo  \* what fiu_failinfo() returns in every thread

vars == <<ready, usable, points, call, result, failinfo>>

Call == [op : {"init", "fail", "enable", "disable"},
         key : Keys \cup {NULL}, info : Infos \cup {NULL},
         onetime : BOOLEAN, method : Methods \cup {NULL}]

NoCall == [op |-> "none", key |-> NULL, info |-> NULL,
           onetime |-> FALSE, method |-> NULL]

Point(c) == [failnum |-> c.info, failinfo |-> c.info, onetime |-> c.onetime,
             method |-> c.method, spent |-> FALSE]

Spent(p) == [failnum |-> p.failnum, failinfo |-> p.failinfo,
             onetime |-> p.onetime, method |-> p.method, spent |-> TRUE]

\* The keys a lookup of n may end at.
CandidateKeys(n) == IF points[n] # NULL THEN {n} ELSE Covering(points, n)

Init == /\ ready = FALSE
        /\ usable = FALSE
        /\ points = [k \in Keys |-> NULL]
        /\ call = [t \in Threads |-> NoCall]
        /\ result = [t \in Threads |-> NULL]
        /\ failinfo = [t \in Threads |-> NULL]

Pending(t, op) == call[t].op = op /\ result[t] = NULL

Finish(t, r) == result' = [result EXCEPT ![t] = r] /\ UNCHANGED call

Invoke(t) ==
    /\ call[t] = NoCall
    /\ \E c \in Call : call' = [call EXCEPT ![t] = c]
    /\ UNCHANGED <<ready, usable, points, result, failinfo>>

Return(t) ==
    /\ result[t] # NULL
    /\ call' = [call EXCEPT ![t] = NoCall]
    /\ result' = [result EXCEPT ![t] = NULL]
    /\ UNCHANGED <<ready, usable, points, failinfo>>

DoInit(t) ==
    /\ Pending(t, "init")
    /\ \/ ready /\ Finish(t, 0) /\ UNCHANGED <<ready, usable>>
       \/ /\ ~ready
          /\ usable' \in BOOLEAN  \* nobody notices when the table is not made
          /\ \/ ready' = TRUE /\ Finish(t, 0)
             \/ Finish(t, -1) /\ UNCHANGED ready
    /\ UNCHANGED <<points, failinfo>>

Fails(t, k) ==
    /\ k \in CandidateKeys(call[t].key)
    /\ ~points[k].spent
    /\ Finish(t, points[k].failnum)
    /\ failinfo' = [failinfo EXCEPT ![t] = points[k].failinfo]
    /\ points' = [points EXCEPT ![k] = IF @.onetime THEN Spent(@) ELSE @]
    /\ UNCHANGED <<ready, usable>>

DoesNotFail(t) ==
    /\ \/ CandidateKeys(call[t].key) = {}
       \/ \E k \in CandidateKeys(call[t].key) :
             points[k].spent \/ points[k].method # "always"
    /\ Finish(t, 0)
    /\ UNCHANGED <<ready, usable, points, failinfo>>

DoFail(t) == /\ Pending(t, "fail")
             /\ DoesNotFail(t) \/ \E k \in Keys : Fails(t, k)

\* An allocation of a resize has failed, whichever point the call was about.
Lose(t) ==
    /\ usable' = FALSE
    /\ points' = [k \in Keys |-> NULL]
    /\ Finish(t, -1)

\* Or that of the point has: then nothing changes.
DoEnable(t) ==
    /\ Pending(t, "enable")
    /\ \/ /\ usable
          /\ points' = [points EXCEPT ![call[t].key] = Point(call[t])]
          /\ Finish(t, 0)
          /\ UNCHANGED usable
       \/ Finish(t, -1) /\ UNCHANGED <<usable, points>>
       \/ usable /\ Lose(t)
    /\ UNCHANGED <<ready, failinfo>>

DoDisable(t) ==
    /\ Pending(t, "disable")
    /\ usable
    /\ \/ /\ points' = [points EXCEPT ![call[t].key] = NULL]
          /\ Finish(t, IF points[call[t].key] = NULL THEN -1 ELSE 0)
          /\ UNCHANGED usable
       \/ points[call[t].key] # NULL /\ Lose(t)
    /\ UNCHANGED <<ready, failinfo>>

Next == \E t \in Threads : \/ Invoke(t) \/ Return(t)
                           \/ DoInit(t) \/ DoFail(t) \/ DoEnable(t) \/ DoDisable(t)

Spec == Init /\ [][Next]_vars
=============================================================================
