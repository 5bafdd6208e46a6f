---------------------------- MODULE MCCpusetTree ----------------------------
(* A directory with two cgroups in it, one of them with a cgroup of its own,
   for two handles: next to each other, on the same, or one above the other. *)
EXTENDS CpusetTree, TLC

MCNodes == {"root", "top", "left", "right", "deep"}
MCParent == "top" :> "root" @@ "left" :> "top" @@ "right" :> "top" @@ "deep" :> "left"
MCPath[n \in MCNodes] == IF n = "root" THEN << >> ELSE Append(MCPath[MCParent[n]], n)
MCClients == {"c1", "c2"}
MCLeaves == {"c1" :> "left" @@ "c2" :> n : n \in {"left", "right"}}
            \union {"c1" :> "deep" @@ "c2" :> "left", "c1" :> "left" @@ "c2" :> "top"}
MCIds == [cpus |-> {0, 1}, mems |-> {0}]
MCWants == {{0}, {0, 1}}
MCMixes == {{"new", "set", "topdown"}, {"new", "topdown", "delete"}, {"new", "apply", "attach", "delete"},
            {"new", "flag", "topdown"}}
MCV2s == {FALSE, TRUE}
=============================================================================
