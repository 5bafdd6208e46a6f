-------------------------- MODULE MCSystemdManager --------------------------
(***************************************************************************)
(* One or two handles on one unit: c1 adds and sets, c2 adds and destroys. *)
(***************************************************************************)
EXTENDS SystemdManager, TLC

CONSTANTS c1, c2, p1, p2, none, low

MCOne    == {c1}
MCTwo    == {c1, c2}
MCPid    == {p1}
MCPids   == {p1, p2}
MCLimits == {none, low}
MCOps    == [c \in Clients |-> IF c = c1 THEN {"add_proc", "set"} ELSE {"add_proc", "destroy", "freeze", "thaw"}]
MCAdd    == [c \in Clients |-> {"add_proc", "destroy"}]
MCNone   == {}
MCFaults == {"call", "stream", "create"}
=============================================================================
