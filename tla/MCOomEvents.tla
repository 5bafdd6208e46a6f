---------------------------- MODULE MCOomEvents -----------------------------
(* Both versions of cgroups, up to two OOMs of each cgroup. *)
EXTENDS OomEvents

MCBoth == {"v1", "v2"}
MCV2   == {"v2"}
=============================================================================
