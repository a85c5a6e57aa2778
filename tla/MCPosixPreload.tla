---------------------------- MODULE MCPosixPreload ----------------------------
(***************************************************************************)
(* Instances of PosixPreload for TLC: two threads share the standard       *)
(* streams and one address where files come and go.                        *)
(***************************************************************************)
EXTENDS PosixPreload, TLC

CONSTANTS t1, t2

MCProgram ==
    (t1 :> <<{"fopen"}, {"fread"}, {"fclose"}>>) @@
    (t2 :> <<{"read", "fopen", "clearerr"}, {"fprintf"}, {"ferror"}>>)
MCNested == (t1 :> 0) @@ (t2 :> 2)

\* A pipe, and a file after it.
PipeProgram == t1 :> <<{"popen"}, {"fprintf"}, {"pclose"}, {"fopen"}, {"ferror"}>>
NoNested == t1 :> 0
==============================================================================
