-------------------------- MODULE MCFsManagerV2 ---------------------------
(***************************************************************************)
(* A small tree: leaves a/b and a/c under a common parent, and a leaf of   *)
(* the root, which may become threaded.                                    *)
(***************************************************************************)
EXTENDS FsManagerV2, TLC

CONSTANTS root, a, ab, ac, lone, c1, c2, c3, mem, io, t1, t2, t3

MCNodes  == {root, a, ab, ac, lone}
MCParent == (a :> root) @@ (ab :> a) @@ (ac :> a) @@ (lone :> root)
MCAll    == {c1, c2, c3}
MCThird  == {c3}
MCPath   == [c \in Clients |-> IF c = c1 THEN <<a, ab>> ELSE IF c = c2 THEN <<a, ac>> ELSE <<lone>>]
MCBoth   == {mem, io}
MCWant   == [c \in Clients |-> IF c = c1 THEN Supported ELSE {mem}]
MCTasks  == {t1, t2, t3}
MCPair   == {t1, t2}
MCTgid   == [t \in Tasks |-> IF t = t3 THEN t3 ELSE t1]
MCStart  == {t1}
MCMkdir  == {"mkdir"}
MCOps    == [c \in Clients |-> IF c = c3 THEN {"add_thread", "destroy", "set_cgroup_type", "kill", "to_parent"}
                               ELSE {"add_proc", "destroy"}]
=============================================================================
