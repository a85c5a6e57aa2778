------------------------------ MODULE RCString ------------------------------
(***************************************************************************)
(* fiu_rc_string() of libfiu/fiu-rc.c: what a remote control command does  *)
(* to the enabled points of failure.                                       *)
(*                                                                         *)
(* A command is split at its blanks.  The record of a command has the      *)
(* number of its words, the first word and, from the second, the sequence  *)
(* of its parameters; more words are ignored.  A command with parameters   *)
(* names a point: without a name the library would dereference NULL.       *)
(***************************************************************************)
EXTENDS Integers, Sequences

CONSTANTS KnownFunctions,  \* the functions get_func_addr() knows by name
          NULL

Commands == {"disable", "enable", "enable_random", "enable_stack_by_name"}

Options == {"name", "failnum", "failinfo", "probability", "func_name",
            "pos_in_stack", "onetime"}

\* Where option o is given among the parameters ps.
Given(ps, o) == {i \in DOMAIN ps : ps[i].opt = o}

\* Each occurrence overwrites the one before.
LastOf(ps, o, default) ==
    IF Given(ps, o) = {} THEN default
    ELSE ps[CHOOSE i \in Given(ps, o) : \A j \in Given(ps, o) : j <= i].value

\* The call of the control API that the command stands for, NULL if it stands
\* for none: a missing word, an unknown parameter or an unknown command.
Parse(cmd) ==
    IF \/ cmd.words < 2
       \/ \E i \in DOMAIN cmd.params : cmd.params[i].opt \notin Options
       \/ cmd.command \notin Commands
    THEN NULL
    ELSE [op           |-> cmd.command,
          name         |-> LastOf(cmd.params, "name", NULL),
          failnum      |-> LastOf(cmd.params, "failnum", 1),
          failinfo     |-> LastOf(cmd.params, "failinfo", 0),
          onetime      |-> Given(cmd.params, "onetime") # {},
          probability  |-> LastOf(cmd.params, "probability", -1),
          func_name    |-> LastOf(cmd.params, "func_name", NULL),
          pos_in_stack |-> LastOf(cmd.params, "pos_in_stack", -1)]

\* The API's answers: only an enabled point can be disabled, and a point that
\* depends on the stack needs a known function and no position.
Accepted(points, call) ==
    CASE call.op = "disable" -> points[call.name] # NULL
      [] call.op = "enable_stack_by_name" ->
            call.func_name \in KnownFunctions /\ call.pos_in_stack = -1
      [] OTHER -> TRUE

\* What fiu_rc_string() returns.
fiu_rc_string(points, cmd) ==
    IF Parse(cmd) # NULL /\ Accepted(points, Parse(cmd)) THEN 0 ELSE -1

\* The enabled points after it, a point being the call that enabled it.
PointsAfter(points, cmd) ==
    IF fiu_rc_string(points, cmd) = -1 THEN points
    ELSE [points EXCEPT ![Parse(cmd).name] =
            IF Parse(cmd).op = "disable" THEN NULL ELSE Parse(cmd)]
=============================================================================
