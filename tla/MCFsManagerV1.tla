-------------------------- MODULE MCFsManagerV1 --------------------------
(***************************************************************************)
(* Small instances of FsManagerV1: a process of two threads and a process  *)
(* of one, told apart by their thread groups.                              *)
(***************************************************************************)
EXTENDS FsManagerV1, TLC

CONSTANTS t1, t2, t3, c1, c2

MCTasks == {t1, t2, t3}
MCTgid  == [t \in Tasks |-> IF t = t3 THEN t3 ELSE t1]
MCPair  == {t1, t3}
MCStart == {t1}
MCBoth  == {c1, c2}
MCAdds  == {"add_proc", "add_thread"}
MCDestroy == {"destroy"}
MCFaults  == {"mkdir", "attach"}
MCNone    == {}
MCBorn    == {1, 2}
=============================================================================
