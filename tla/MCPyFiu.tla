------------------------------- MODULE MCPyFiu -------------------------------
(***************************************************************************)
(* Instances of PyFiu for TLC.                                             *)
(***************************************************************************)
EXTENDS PyFiu, TLC

CONSTANTS p1, p2, rc, n1, n2

On(n, ops) == {[op |-> o, name |-> n] : o \in ops}

\* One thread controls a point that the others check, and another one that the
\* thread of the remote control controls too.
Plain ==
    (p1 :> <<On(n1, {"enable", "enable_stack_by_name"}),
             On(n1, {"enable_random", "disable"}) \cup On(n2, {"enable"}),
             On(n1, {"enable", "disable"}) \cup On(n2, {"disable"})>>) @@
    (p2 :> <<On(n1, {"fail"}), On(n1, {"fail", "failinfo"})>>) @@
    (rc :> <<On(n2, {"enable", "disable"}), On(n2, {"enable", "disable"})>>)

\* All of them check an external point.
Callback ==
    (p1 :> <<On(n1, {"enable_external"}), On(n1, {"fail"}), On(n1, {"failinfo"})>>) @@
    (p2 :> <<On(n1, {"fail"}), On(n1, {"fail"}), On(n1, {"failinfo"})>>) @@
    (rc :> <<On(n1, {"fail"}), On(n1, {"fail"})>>)

\* One replaces a callback between its own calls of it; another thread disables
\* the point.
Own ==
    (p1 :> <<On(n1, {"enable_external"}), On(n1, {"fail"}),
             On(n1, {"enable_external", "enable", "disable"}), On(n1, {"fail"})>>) @@
    (p2 :> <<On(n2, {"fail"})>>) @@
    (rc :> <<On(n1, {"enable", "disable"})>>)

\* Calls that may be refused or raise, on a point that is enabled.
Refused ==
    (p1 :> <<On(n1, {"enable_external"}), On(n1, {"enable_external", "enable"}),
             On(n1, {"enable_random", "disable"}), On(n1, {"fail"})>>)

\* Two threads enable and disable one name at the same time.
Shared ==
    (p1 :> <<On(n1, {"enable"}), On(n1, {"enable", "disable"}), On(n1, {"enable"})>>) @@
    (p2 :> <<On(n1, {"enable", "disable"}), On(n1, {"disable"})>>)

\* One of them controls a point while another one is in a callback.
Both ==
    (p1 :> <<On(n1, {"enable_external"}), On(n1, {"fail"})>>) @@
    (p2 :> <<On(n2, {"enable"})>>)

Idle == [t \in Python \cup Others |-> <<>>]

Passing == {Plain, Callback, Own, Refused @@ Idle, Shared @@ Idle}
OnlyBoth == {Both}
==============================================================================
