------------------------------- MODULE MCFiuRC -------------------------------
(***************************************************************************)
(* Instances of FiuRC for TLC: one point of failure, and lines that enable *)
(* it in two ways, disable it, cannot be parsed, are empty or too long.    *)
(***************************************************************************)
EXTENDS FiuRC, TLC

CONSTANTS n1, c1

Param(o, v) == [opt |-> o, value |-> v]
Cmd(command, params) == [words |-> 2, command |-> command, params |-> params]

Enable  == Cmd("enable", <<Param("name", n1)>>)
Random  == Cmd("enable_random", <<Param("name", n1), Param("onetime", NULL),
                                  Param("failnum", 2), Param("failnum", 3)>>)
Stack   == Cmd("enable_stack_by_name",
               <<Param("name", n1), Param("func_name", "f"),
                 Param("pos_in_stack", 1)>>)
Disable == Cmd("disable", <<Param("name", n1)>>)
Cut     == Cmd("enable", <<Param("name", n1), Param("cut", NULL)>>)
Word    == [words |-> 1, command |-> "enable", params |-> <<>>]

MCChunks ==
    ("enable" :> <<Enable>>) @@ ("random" :> <<Random>>) @@
    ("stack" :> <<Stack>>) @@ ("disable" :> <<Disable>>) @@
    ("word" :> <<Word>>) @@ ("empty" :> <<NULL>>) @@
    ("long" :> <<Cut, Word>>) @@ ("exact" :> <<Enable, NULL>>)

MCPresets == <<Enable>>

OneCtrl   == c1 :> "fiu_ctrl"
OnePipe   == c1 :> "PipeControl"
Two       == c1 :> 2
Three     == c1 :> 3
NoPresets == <<>>
==============================================================================
