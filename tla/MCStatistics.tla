---------------------------- MODULE MCStatistics ----------------------------
EXTENDS Statistics

MCBoth == {FALSE, TRUE}
(* Two disks and one whose minor number does not fit in 16 bits. *)
MCDevices == {<<8, 0>>, <<8, 1>>, <<259, 40000>>}
MCTransfers == {<< <<8, 0>>, "Read" >>, << <<8, 1>>, "Write" >>, << <<259, 40000>>, "Read" >>}
(* With 4 for 1024: directories of 1kB and of 8kB, the sizes 1KB and 2MB. *)
MCPageDirs == << <<1, "k">>, <<8, "k">> >>
MCFamilies == {"memory", "kmem", "cpu", "throttle", "pids", "io", "hugetlb"}
=============================================================================
