----------------------------- MODULE Statistics -----------------------------
(* FsManager::stats: the statistics of a cgroup, gathered from some hundred
   files that are read one after the other while the workload runs, while
   other handles reset counters, and while the cgroup may be removed and made
   again.  A file that cannot be read or parsed counts as its default, so the
   call always succeeds; the question is what its numbers mean together. *)
EXTENDS StatFiles, FiniteSets

CONSTANTS
  V2s,         \* the versions a behaviour may run on: a subset of BOOLEAN
  Cpus,        \* number of CPUs
  Devices,     \* device numbers of the disks
  Transfers,   \* the transfers that happen: <<device, operation>>
  PageDirs,    \* directories of /sys/kernel/mm/hugepages: <<number, unit>>
  Families,    \* the parts of the kernel that move, one in a behaviour
  Moves        \* how often the numbers move

ASSUME NoLimitAssumption == NoLimit \notin Int
ASSUME V2sAssumption == V2s \subseteq BOOLEAN
ASSUME MovesAssumption == Moves \in Nat
ASSUME CpusAssumption == Cpus \in Nat
ASSUME TransfersAssumption == \A t \in Transfers : t[1] \in (Nat \ {0}) \X Nat
(* The kernel gives the sizes in kB.  They are powers of two, so that a size is
   a whole number of its unit, and below a terabyte. *)
ASSUME PageDirsAssumption ==
  /\ PageDirs \in Seq(Nat \X STRING)
  /\ \A i \in DOMAIN PageDirs : /\ PageDirs[i][2] = "k"
                               /\ \E e \in 0 .. 31 : PageDirs[i][1] = 2 ^ e
                               /\ PageDirs[i][1] \in 1 .. Power[3] - 1

VARIABLES
  v2,          \* the version of the hierarchy
  cfq,         \* whether the CFQ scheduler has its files in blkio (v1)
  busy,        \* the family that moves
  limits,      \* the limits in force
  kernel,      \* the numbers the kernel keeps for the cgroup
  present,     \* whether the cgroup is there
  moves,       \* how often the numbers have moved
  status,      \* of the call: idle, running, done or panic
  at,          \* the next file of the call
  got,         \* what the call has read
  start,       \* the numbers when the call began
  upset        \* what was reset or removed: ever (cpu), or since the call began

vars == <<v2, cfq, busy, limits, kernel, present, moves, status, at, got, start, upset>>

Kinds == {"memory", "memsw", "kmem", "tcp", "hugetlb"}
Names == {"cache", "pgfault"}
Unbounded == 1000           \* the text of an unlimited v1 limit

Fresh ==
  [counter |-> [k \in Kinds |-> [usage |-> 0, max |-> 0, fail |-> 0]],
   percpu |-> [m \in {"user", "system"} |-> [c \in 1 .. Cpus |-> 0]],
   ticks |-> [m \in {"user", "system"} |-> 0],
   periods |-> 0, throttled |-> 0, pids |-> 0, io |-> << >>,
   stat |-> [n \in Names |-> 0], numa |-> <<0, 0>>]

-----------------------------------------------------------------------------
(* The files.  A file is <<controller, name>>. *)

Sum(s) == FoldLeft(LAMBDA a, b : a + b, 0, s)
PerCpu(k) == [c \in 1 .. Cpus |-> k.percpu.user[c] + k.percpu.system[c]]
LimitText(l) == IF l = NoLimit THEN (IF v2 THEN One(Word("max")) ELSE One(Num(Unbounded)))
                ELSE One(Num(l))

PidsText == One(IF limits["pids"] = NoLimit THEN Word("max") ELSE Num(limits["pids"]))

CounterFiles(k) ==
  LET c == kernel.counter[k]
  IN  IF v2
      THEN [n \in {"current", "max", "events"} \union (IF k = "hugetlb" THEN {} ELSE {"peak"}) |->
              CASE n = "current" -> One(Num(c.usage)) [] n = "peak" -> One(Num(c.max))
                [] n = "max" -> LimitText(limits[k])
                [] n = "events" -> << <<Word(IF k = "memsw" THEN "fail" ELSE "max"), Num(c.fail)>> >>]
      ELSE [n \in {"usage_in_bytes", "max_usage_in_bytes", "limit_in_bytes", "failcnt"} |->
              CASE n = "usage_in_bytes" -> One(Num(c.usage))
                [] n = "max_usage_in_bytes" -> One(Num(c.max))
                [] n = "limit_in_bytes" -> LimitText(limits[k]) [] n = "failcnt" -> One(Num(c.fail))]

StatText ==
  << <<Word("pgfault"), Num(kernel.stat.pgfault)>> >>
    \o (IF v2 THEN << >> ELSE << <<Word("cache"), Num(kernel.stat.cache)>> >>)
NumaText ==
  [i \in 1 .. 8 |->
     <<Pair("total", Sum(kernel.numa)), Pair("N0", kernel.numa[1]), Pair("N1", kernel.numa[2])>>]
OomText ==
  << <<Word("oom_kill_disable"), Num(0)>>, <<Word("under_oom"), Num(0)>>, <<Word("oom_kill"), Num(0)>> >>

MemoryFiles ==
  LET counter == CounterFiles("memory")
      plain == IF v2 THEN {"high", "low", "min"}
               ELSE {"soft_limit_in_bytes", "move_charge_at_immigrate", "swappiness", "use_hierarchy"}
      tables == {"stat"} \union (IF v2 THEN {} ELSE {"numa_stat", "oom_control"})
  IN  [n \in DOMAIN counter \union plain \union tables |->
         CASE n \in DOMAIN counter -> counter[n]
           [] n \in plain -> One(IF n = "high" THEN Word("max") ELSE Num(IF v2 THEN 0 ELSE 1))
           [] n = "stat" -> StatText
           [] n = "numa_stat" -> NumaText
           [] n = "oom_control" -> OomText]

CpuFiles ==
  LET times == << <<Word("user"), Num(kernel.ticks.user)>>,
                  <<Word("system"), Num(kernel.ticks.system)>> >>
      Line(s) == << [c \in 1 .. Cpus |-> Num(s[c])] >>
  IN  [n \in {"stat", "usage", "usage_all", "usage_percpu", "usage_percpu_sys",
              "usage_percpu_user", "usage_sys", "usage_user"} |->
         CASE n = "stat" -> times
           [] n = "usage" -> One(Num(Sum(PerCpu(kernel))))
           [] n \in {"usage_all", "usage_percpu"} -> Line(PerCpu(kernel))
           [] n = "usage_percpu_sys" -> Line(kernel.percpu.system)
           [] n = "usage_percpu_user" -> Line(kernel.percpu.user)
           [] n = "usage_sys" -> One(Num(Sum(kernel.percpu.system)))
           [] n = "usage_user" -> One(Num(Sum(kernel.percpu.user)))]

ThrottleText ==
  << <<Word("nr_periods"), Num(kernel.periods)>>, <<Word("nr_throttled"), Num(kernel.throttled)>>,
     <<Word(IF v2 THEN "throttled_usec" ELSE "throttled_time"), Num(kernel.throttled)>> >>

(* One file of counters for each device, with a line of their total. *)
ServiceText ==
  LET ops == <<"Read", "Write", "Sync", "Async", "Discard", "Total">>
      io == kernel.io
  IN  FlattenSeq([i \in DOMAIN io |->
        [j \in 1 .. 6 |-> <<Dev(io[i].dev), Word(ops[j]), Num(io[i].n[ops[j]])>>]])
      \o << <<Word("Total"), Num(Sum([i \in DOMAIN io |-> io[i].n["Total"]]))>> >>
DataText == [i \in DOMAIN kernel.io |-> <<Dev(kernel.io[i].dev), Num(kernel.io[i].n["Total"])>>]
IoStatText ==
  LET ops == <<"Read", "Write", "Read", "Write", "Discard", "Discard">>
  IN  [i \in DOMAIN kernel.io |->
        <<Dev(kernel.io[i].dev)>> \o [j \in 1 .. 6 |-> Pair(IoKeys[j], kernel.io[i].n[ops[j]])]]

(* How the kernel names a size of huge pages in the files of hugetlb. *)
KernelSize(d) ==
  LET size == d[1] * Kilo
  IN  CASE size >= Power[3] -> <<size \div Power[3], "GB">>
        [] size < Power[3] /\ size >= Power[2] -> <<size \div Power[2], "MB">>
        [] size < Power[2] -> <<size \div Kilo, "KB">>

FilesOf(controller) ==
  CASE controller = "memory" -> MemoryFiles
    [] controller \in Kinds \ {"memory", "hugetlb"} ->
         IF v2 /\ controller # "memsw" THEN << >> ELSE CounterFiles(controller)
    [] controller = "cpuacct" -> IF v2 THEN << >> ELSE CpuFiles
    [] controller = "cpu" -> [n \in {"stat"} |-> ThrottleText]
    [] controller = "pids" ->
         [n \in {"current", "max"} |-> IF n = "max" THEN PidsText ELSE One(Num(kernel.pids))]
    [] controller \in {"throttle", "cfq"} ->
         [n \in IF v2 \/ (controller = "cfq" /\ ~ cfq) THEN {}
                ELSE {"service", "data"} \union (IF controller = "cfq" THEN {"weight"} ELSE {}) |->
            CASE n = "service" -> ServiceText [] n = "data" -> DataText [] n = "weight" -> One(Num(1))]
    [] controller = "io" -> IF v2 THEN [n \in {"stat"} |-> IoStatText] ELSE << >>
    [] controller = "hugetlb" -> CounterFiles("hugetlb")

(* The files of hugetlb have their size as a third part of the name. *)
Exists(file) ==
  /\ present
  /\ file[2] \in DOMAIN FilesOf(file[1])
  /\ file[1] = "hugetlb" => \E i \in DOMAIN PageDirs : file[3] = KernelSize(PageDirs[i])

-----------------------------------------------------------------------------
(* The reads of the call: the field of the result, the file, how it is parsed
   and what stands for a file that cannot be read. *)

Rd(field, file, as, default) == [field |-> field, file |-> file, as |-> as, default |-> default]

\* Mutant of CounterReads: the maximum is read before the usage.
MaxFirst(tag, k, nolimit) ==
  << Rd(<<tag, "fail_cnt">>, <<k, "failcnt">>, "u64", 0),
     Rd(<<tag, "limit">>, <<k, "limit_in_bytes">>, "i64", nolimit),
     Rd(<<tag, "max_usage">>, <<k, "max_usage_in_bytes">>, "u64", 0),
     Rd(<<tag, "usage">>, <<k, "usage_in_bytes">>, "u64", 0) >>

CounterReads(tag, k, nolimit) ==
  << Rd(<<tag, "fail_cnt">>, <<k, "failcnt">>, "u64", 0),
     Rd(<<tag, "limit">>, <<k, "limit_in_bytes">>, "i64", nolimit),
     Rd(<<tag, "usage">>, <<k, "usage_in_bytes">>, "u64", 0),
     Rd(<<tag, "max_usage">>, <<k, "max_usage_in_bytes">>, "u64", 0) >>

NoNuma == [i \in 1 .. 8 |-> [pages |-> 0, per_node |-> << >>]]
NoOom == [oom_kill_disable |-> FALSE, under_oom |-> FALSE, oom_kill |-> 0]
NoStat == [n \in Names |-> 0]

memory_stat_v1(tag) ==
  CounterReads(tag, "memory", 0) \o
  << Rd(<<tag, "move_charge">>, <<"memory", "move_charge_at_immigrate">>, "u64", 0),
     Rd(<<tag, "numa">>, <<"memory", "numa_stat">>, "numa", NoNuma),
     Rd(<<tag, "oom">>, <<"memory", "oom_control">>, "oom", NoOom),
     Rd(<<tag, "soft_limit">>, <<"memory", "soft_limit_in_bytes">>, "i64", 0),
     Rd(<<tag, "stat">>, <<"memory", "stat">>, "stat", NoStat),
     Rd(<<tag, "swappiness">>, <<"memory", "swappiness">>, "u64", 0),
     Rd(<<tag, "use_hierarchy">>, <<"memory", "use_hierarchy">>, "u64", 0) >>

get_mem(tag) ==
  << Rd(<<tag, "high">>, <<"memory", "high">>, "max", NoLimit),
     Rd(<<tag, "soft_limit">>, <<"memory", "low">>, "max", 0),
     Rd(<<tag, "limit">>, <<"memory", "max">>, "max", NoLimit),
     Rd(<<tag, "min">>, <<"memory", "min">>, "max", 0) >>

memory_stat_v2(tag) ==
  get_mem(tag) \o
  << Rd(<<tag, "usage">>, <<"memory", "current">>, "u64", 0),
     Rd(<<tag, "max_usage">>, <<"memory", "peak">>, "u64", 0),
     Rd(<<tag, "stat">>, <<"memory", "stat">>, "stat", NoStat),
     Rd(<<tag, "swappiness">>, <<"memsw", "current">>, "u64", 0) >>

memswap_v2 ==
  << Rd(<<"memsw", "fail_cnt">>, <<"memsw", "events">>, "fail", 0),
     Rd(<<"memsw", "limit">>, <<"memsw", "max">>, "i64", 0),
     Rd(<<"memsw", "usage">>, <<"memsw", "current">>, "u64", 0),
     Rd(<<"memsw", "max_usage">>, <<"memsw", "peak">>, "u64", 0) >>

\* Mutant of kmem_stat: a limit that cannot be read is 0.
KmemFromZero == CounterReads("kmem", "kmem", 0)

(* slabinfo is text that nothing looks at. *)
kmem_stat == CounterReads("kmem", "kmem", -1)
kmem_tcp_stat == CounterReads("tcp", "tcp", 0)

\* Mutant of cpuacct: the total is read before its parts.
TotalFirst ==
  << Rd(<<"cpuacct", "usage">>, <<"cpuacct", "usage">>, "u64", 0),
     Rd(<<"cpuacct", "stat">>, <<"cpuacct", "stat">>, "text", << >>),
     Rd(<<"cpuacct", "percpu">>, <<"cpuacct", "usage_percpu">>, "text", << >>) >>

(* The reads of cpuacct.usage_all, usage_sys and usage_user are left out: the
   statistics have no place for them.  cpuacct.stat is in ticks (USER_HZ) and
   cpuacct.usage in ns (cpuacct.rs:34): both are counted in one unit here, since
   the code does not convert either and what is checked is the order of the reads. *)
cpuacct ==
  << Rd(<<"cpuacct", "stat">>, <<"cpuacct", "stat">>, "text", << >>),
     Rd(<<"cpuacct", "usage">>, <<"cpuacct", "usage">>, "u64", 0),
     Rd(<<"cpuacct", "percpu">>, <<"cpuacct", "usage_percpu">>, "text", << >>) >>
cpu == << Rd(<<"cpu", "stat">>, <<"cpu", "stat">>, "text", << >>) >>

pids ==
  << Rd(<<"pids", "current">>, <<"pids", "current">>, "u64", 0),
     Rd(<<"pids", "limit">>, <<"pids", "max">>, "max", 0) >>

(* Each list and its total are two reads of one file; all files of a policy
   show the same numbers here. *)
ServiceReads(policy, name, scope) ==
  << Rd(<<policy, name, scope>>, <<policy, "service">>, "io_service", << >>),
     Rd(<<policy, name, scope, "total">>, <<policy, "service">>, "io_service_total", 0) >>
Services(policy, names) ==
  FlattenSeq([i \in DOMAIN names |->
    ServiceReads(policy, names[i], "own") \o ServiceReads(policy, names[i], "recursive")])
DataReads(policy, names) ==
  [i \in DOMAIN names |-> Rd(<<policy, names[i]>>, <<policy, "data">>, "blkio_data", << >>)]
WeightRead(name) == << Rd(<<"cfq", name>>, <<"cfq", "weight">>, "u64", 0) >>

(* The lists that the throttling policy and CFQ keep. *)
ThrottleLists == <<"io_service_bytes", "io_serviced">>
ThrottleRates == <<"read_bps_device", "read_iops_device", "write_bps_device", "write_iops_device">>
CfqLists == <<"io_merged", "io_queued", "io_service_bytes", "io_serviced",
              "io_service_time", "io_wait_time">>

throttle == Services("throttle", ThrottleLists) \o DataReads("throttle", ThrottleRates)

blkio ==
  Services("cfq", CfqLists)
    \o WeightRead("leaf_weight")
    \o DataReads("cfq", <<"leaf_weight_device", "sectors", "sectors_recursive">>)
    \o throttle
    \o DataReads("cfq", <<"time", "time_recursive">>)
    \o WeightRead("weight")
    \o DataReads("cfq", <<"weight_device">>)

blkio_v2 == << Rd(<<"io", "stat">>, <<"io", "stat">>, "io_stat", << >>) >>

Sizes == get_hugepage_sizes(PageDirs)
HugeReads(unified, z) ==
  << Rd(<<"hugetlb", "usage", z>>, <<"hugetlb", IF unified THEN "current" ELSE "usage_in_bytes", z>>, "u64", 0),
     Rd(<<"hugetlb", "max_usage", z>>, <<"hugetlb", "max_usage_in_bytes", z>>, "u64", 0),
     IF unified THEN Rd(<<"hugetlb", "fail_cnt", z>>, <<"hugetlb", "events", z>>, "first", 0)
     ELSE Rd(<<"hugetlb", "fail_cnt", z>>, <<"hugetlb", "failcnt", z>>, "u64", 0) >>
hugetlb(unified) == FlattenSeq([i \in DOMAIN Sizes |-> HugeReads(unified, Sizes[i])])

(* The call, in the order of its fields; memory_stat is read a second time for
   the fields of memory.stat. *)
StatsV1 == cpuacct \o cpu \o memory_stat_v1("memory") \o CounterReads("memsw", "memsw", 0)
             \o kmem_stat \o memory_stat_v1("again") \o pids \o blkio \o hugetlb(FALSE)
StatsV2 == cpu \o memory_stat_v2("memory") \o memswap_v2 \o kmem_stat
             \o memory_stat_v2("again") \o pids \o blkio_v2 \o hugetlb(TRUE)
Reads == IF v2 THEN StatsV2 ELSE StatsV1

Text(file) ==
  LET f == FilesOf(file[1]) IN f[file[2]]

Parse(as, c) ==
  CASE as = "u64" -> read_u64_from(c)
    [] as = "i64" -> read_i64_from(c)
    [] as = "max" -> parse_max_value(c)
    [] as = "text" -> Ok(c)
    [] as = "stat" -> parse_memory_stat(c, Names)
    [] as = "numa" -> parse_numa_stat(c)
    [] as = "oom" -> parse_oom_control(c)
    [] as = "fail" -> flat_keyed_to_hashmap(c, "fail")
    [] as = "first" -> LET v == flat_keyed_to_vec(c)[2] IN IF v = << >> THEN Err ELSE Ok(v[1][2])
    [] as = "io_service" -> parse_io_service(c)
    [] as = "io_service_total" -> parse_io_service_total(c)
    [] as = "io_stat" -> parse_io_stat(c)
    [] as = "blkio_data" -> parse_blkio_data(c)

-----------------------------------------------------------------------------
(* The result. *)

FromTuples(text, item) == UnwrapOr(parse_value_from_tuples(text, item), 0)
cpu_acct_stats ==
  [user_usage |-> FromTuples(got[<<"cpuacct", "stat">>], "user"),
   system_usage |-> FromTuples(got[<<"cpuacct", "stat">>], "system"),
   total_usage |-> got[<<"cpuacct", "usage">>],
   usage_percpu |-> parse_percpu(got[<<"cpuacct", "percpu">>])]
\* Mutant of cpu_throttling_stats: a key that cpu.stat does not have.
WrongKey ==
  [periods |-> FromTuples(got[<<"cpu", "stat">>], "periods"),
   throttled_periods |-> FromTuples(got[<<"cpu", "stat">>], "nr_throttled"),
   throttled_time |-> FromTuples(got[<<"cpu", "stat">>], "throttled_time")]
cpu_throttling_stats ==
  [periods |-> FromTuples(got[<<"cpu", "stat">>], "nr_periods"),
   throttled_periods |-> FromTuples(got[<<"cpu", "stat">>], "nr_throttled"),
   throttled_time |-> FromTuples(got[<<"cpu", "stat">>], "throttled_time")]

(* memory_stat_v2 has no count of failures; its limit goes through to_i64. *)
memory_stats ==
  [usage |-> got[<<"memory", "usage">>], max_usage |-> got[<<"memory", "max_usage">>],
   limit |-> IF v2 THEN to_i64(got[<<"memory", "limit">>]) ELSE got[<<"memory", "limit">>],
   fail_cnt |-> IF v2 THEN 0 ELSE got[<<"memory", "fail_cnt">>]]
CounterStats(k) == [f \in {"usage", "max_usage", "limit", "fail_cnt"} |-> got[<<k, f>>]]
memory_cgroup_stats ==
  [memory |-> memory_stats, memory_swap |-> CounterStats("memsw"),
   kernel_memory |-> CounterStats("kmem"), stat |-> got[<<"again", "stat">>]]

pids_cgroup_stats ==
  LET l == got[<<"pids", "limit">>]
  IN  [current |-> got[<<"pids", "current">>], limit |-> IF l = NoLimit THEN 0 ELSE l]

(* On v1 the lists of CFQ, unless the recursive one is empty. *)
blkio_stats_v1 ==
  LET policy == IF got[<<"cfq", "io_serviced", "recursive">>] = << >> THEN "throttle" ELSE "cfq"
      scope == IF policy = "cfq" THEN "recursive" ELSE "own"
  IN  [io_service_bytes |-> from_io_services(got[<<policy, "io_service_bytes", scope>>]),
       io_serviced |-> from_io_services(got[<<policy, "io_serviced", scope>>]),
       io_time |-> IF policy = "cfq" THEN from_blk_io_data(got[<<"cfq", "time_recursive">>]) ELSE << >>]
blkio_stats_v2 ==
  [io_service_bytes |-> from_io_stats(got[<<"io", "stat">>]), io_serviced |-> << >>, io_time |-> << >>]
blkio_cgroup_stats == IF v2 THEN blkio_stats_v2 ELSE blkio_stats_v1

huge_tlb_cgroup_stats ==
  [z \in {Sizes[i] : i \in DOMAIN Sizes} |->
     [usage |-> got[<<"hugetlb", "usage", z>>], max_usage |-> got[<<"hugetlb", "max_usage", z>>],
      fail_cnt |-> got[<<"hugetlb", "fail_cnt", z>>]]]

-----------------------------------------------------------------------------
(* The call. *)

Init ==
  /\ v2 \in V2s
  /\ busy \in Families
  /\ cfq \in IF v2 \/ busy # "io" THEN {FALSE} ELSE BOOLEAN
  /\ limits \in [Kinds \union {"pids"} -> {NoLimit, 1}]
  /\ \A j, k \in DOMAIN limits : limits[j] = limits[k]
  /\ kernel = Fresh /\ present = TRUE /\ moves = 0
  /\ status = "idle" /\ at = 1 /\ got = << >> /\ start = Fresh /\ upset = {}

Begin ==
  /\ status # "running"
  /\ status' = "running" /\ at' = 1 /\ got' = << >>
  /\ start' = kernel /\ upset' = upset \intersect {"cpu"}
  /\ UNCHANGED <<v2, cfq, busy, limits, kernel, present, moves>>

(* The field is given its value. *)
With(field, v) == [f \in DOMAIN got \union {field} |-> IF f \in DOMAIN got THEN got[f] ELSE v]

\* Mutant of ReadFile: a file that cannot be read has no field.
SkipUnreadable ==
  LET r == Reads[at]
  IN  /\ status = "running"
      /\ got' = IF Exists(r.file) THEN With(r.field, UnwrapOr(Parse(r.as, Text(r.file)), r.default))
                ELSE got
      /\ at' = at + 1
      /\ status' = IF at = Len(Reads) THEN "done" ELSE status
      /\ UNCHANGED <<v2, cfq, busy, limits, kernel, present, moves, start, upset>>

(* Open, read and parse one file; the default where any of the three fails. *)
ReadFile ==
  LET r == Reads[at]
      v == IF Exists(r.file) THEN Parse(r.as, Text(r.file)) ELSE Err
  IN  /\ status = "running"
      /\ IF v = Panic THEN status' = "panic" /\ UNCHANGED <<at, got>>
         ELSE /\ got' = With(r.field, UnwrapOr(v, r.default))
              /\ at' = at + 1
              /\ status' = IF at = Len(Reads) THEN "done" ELSE status
      /\ UNCHANGED <<v2, cfq, busy, limits, kernel, present, moves, start, upset>>

-----------------------------------------------------------------------------
(* The rest of the world: the workload, resets and removal by other handles. *)

Move(k) ==
  /\ moves < Moves /\ moves' = moves + 1
  /\ kernel' = k
  /\ UNCHANGED <<v2, cfq, busy, limits, status, at, got, start>>
Quiet == UNCHANGED <<present, upset>>

(* On v1 memory counts in memsw as well. *)
Charged(k) == IF k = "memory" /\ ~ v2 THEN {"memory", "memsw"} ELSE {k}
Full(k) == limits[k] # NoLimit /\ kernel.counter[k].usage >= limits[k]
Charge(k) ==
  LET c == kernel.counter
      failed == [j \in Kinds |-> IF j \in Charged(k) /\ Full(j) THEN [c[j] EXCEPT !.fail = @ + 1] ELSE c[j]]
      charged == [j \in Kinds |->
                   IF j \in Charged(k)
                   THEN [c[j] EXCEPT !.usage = @ + 1, !.max = IF @ > c[j].usage THEN @ ELSE @ + 1]
                   ELSE c[j]]
  IN  /\ busy = k /\ present /\ Quiet
      /\ Move(IF \E j \in Charged(k) : Full(j) THEN [kernel EXCEPT !.counter = failed]
              ELSE [kernel EXCEPT !.counter = charged,
                      !.stat = IF k = "memory" THEN [n \in Names |-> @[n] + 1] ELSE @,
                      !.numa[1] = IF k = "memory" THEN @ + 1 ELSE @])
Uncharge(k) ==
  LET c == kernel.counter
      less == [j \in Kinds |-> IF j \in Charged(k) THEN [c[j] EXCEPT !.usage = @ - 1] ELSE c[j]]
  IN  /\ busy = k /\ present /\ c[k].usage > 0 /\ Quiet
      /\ Move([kernel EXCEPT !.counter = less])

Tick(c, m) ==
  /\ busy = "cpu" /\ present /\ Quiet
  /\ Move([kernel EXCEPT !.percpu[m][c] = @ + 1, !.ticks[m] = @ + 1])
Period(t) ==
  /\ busy = "throttle" /\ present /\ Quiet
  /\ Move([kernel EXCEPT !.periods = @ + 1, !.throttled = @ + t])
Fork ==
  /\ busy = "pids" /\ present /\ Quiet
  /\ limits["pids"] # NoLimit => kernel.pids < limits["pids"]
  /\ Move([kernel EXCEPT !.pids = @ + 1])
Exit ==
  /\ busy = "pids" /\ kernel.pids > 0 /\ Quiet
  /\ Move([kernel EXCEPT !.pids = @ - 1])
Transfer(d, o) ==
  LET io == kernel.io
      Done(n) == [p \in IoOps |-> IF p \in {o, "Sync", "Total"} THEN n[p] + 1 ELSE n[p]]
      known == {i \in DOMAIN io : io[i].dev = d}
      more == IF known = {} THEN Append(io, [dev |-> d, n |-> Done(NoService.n)])
              ELSE [i \in DOMAIN io |-> IF i \in known THEN [io[i] EXCEPT !.n = Done(@)] ELSE io[i]]
  IN  /\ busy = "io" /\ present /\ Quiet
      /\ Move([kernel EXCEPT !.io = more])

(* A reset writes a file, which only v1 has. *)
reset_fail_count(k) ==
  /\ busy = k /\ Exists(<<k, "failcnt">>)
  /\ Move([kernel EXCEPT !.counter[k].fail = 0])
  /\ upset' = upset \union {"fail"} /\ UNCHANGED present
reset_max_usage ==
  /\ busy = "memory" /\ Exists(<<"memory", "max_usage_in_bytes">>)
  /\ Move([kernel EXCEPT !.counter["memory"].max = kernel.counter["memory"].usage])
  /\ upset' = upset \union {"max"} /\ UNCHANGED present
reset_cpuacct ==
  /\ busy = "cpu" /\ Exists(<<"cpuacct", "usage">>)
  /\ Move([kernel EXCEPT !.percpu = Fresh.percpu])
  /\ upset' = upset \union {"cpu"} /\ UNCHANGED present
reset_stats ==
  /\ busy = "io" /\ Exists(<<"cfq", "service">>)
  /\ Move([kernel EXCEPT !.io = << >>])
  /\ upset' = upset \union {"io"} /\ UNCHANGED present

Rmdir ==
  /\ present /\ kernel.pids = 0
  /\ present' = FALSE /\ upset' = upset \union {"gone"} /\ Move(Fresh)
Mkdir ==
  /\ ~ present
  /\ present' = TRUE /\ upset' = (upset \union {"gone"}) \ {"cpu"} /\ Move(Fresh)

Next ==
  \/ Begin
  \/ ReadFile
  \/ \E k \in Kinds \ {"memsw", "tcp"} : Charge(k) \/ Uncharge(k)
  \/ \E c \in 1 .. Cpus, m \in {"user", "system"} : Tick(c, m)
  \/ \E t \in {0, 1} : Period(t)
  \/ Fork
  \/ Exit
  \/ \E t \in Transfers : Transfer(t[1], t[2])
  \/ \E k \in Kinds \ {"hugetlb"} : reset_fail_count(k)
  \/ reset_max_usage
  \/ reset_cpuacct
  \/ reset_stats
  \/ Rmdir
  \/ Mkdir

Spec == Init /\ [][Next]_vars

-----------------------------------------------------------------------------
(* Properties. *)

(* The call is complete, and since it began the cgroup has not been removed
   and none of the given numbers has been reset. *)
Complete(resets) == status = "done" /\ upset \intersect (resets \union {"gone"}) = {}
AllFit == \A i \in DOMAIN kernel.io : FitsI16(kernel.io[i].dev)
Between(a, x, b) == a <= x /\ x <= b

(* What the variables hold: the call is somewhere in its list of files and has
   a value for each file before that. *)
TypeOK ==
  /\ v2 \in BOOLEAN /\ cfq \in BOOLEAN /\ present \in BOOLEAN /\ moves \in 0 .. Moves
  /\ status \in {"idle", "running", "done", "panic"} /\ at \in 1 .. Len(Reads) + 1
  /\ DOMAIN got = {Reads[i].field : i \in 1 .. at - 1}
  /\ upset \subseteq {"fail", "max", "cpu", "io", "gone"}

(* memory_stat, memswap, kmem_stat and the pages of hugetlb on v1: the usage a
   call reports is at most the maximum it reports, although the two come from
   two files and the workload runs in between, because the usage is read first
   and the maximum never falls. *)
UsageWithinMax ==
  Complete({"max"}) =>
    /\ \A s \in {memory_stats, CounterStats("memsw"), CounterStats("kmem")} : s.usage <= s.max_usage
    /\ ~ v2 => \A z \in DOMAIN huge_tlb_cgroup_stats :
                 huge_tlb_cgroup_stats[z].usage <= huge_tlb_cgroup_stats[z].max_usage

(* FsManager::stats: every count of failures and every event count is a value
   the kernel had between the start and the end of the call; nothing is
   counted twice or comes from another file, and the names of the files of
   hugetlb are the names the kernel gives them. *)
FailuresBracketed ==
  LET In(k, x) == Between(start.counter[k].fail, x, kernel.counter[k].fail)
  IN  Complete({"fail"}) =>
        /\ In("memsw", CounterStats("memsw").fail_cnt)
        /\ \A z \in DOMAIN huge_tlb_cgroup_stats : In("hugetlb", huge_tlb_cgroup_stats[z].fail_cnt)
        /\ ~ v2 => In("memory", memory_stats.fail_cnt) /\ In("kmem", CounterStats("kmem").fail_cnt)
        /\ Between(start.stat["pgfault"], memory_cgroup_stats.stat["pgfault"], kernel.stat["pgfault"])

(* cpu_acct_stats: user and system time, read before the total, are together at
   most the total, unless cpuacct.usage was ever reset: the kernel does not
   reset cpuacct.stat with it.  All are in the model's one unit of time: this is
   about the order of the reads, not about the numbers as the kernel writes them. *)
CpuTimesWithinTotal ==
  Complete({"cpu"}) /\ ~ v2 =>
    /\ cpu_acct_stats.user_usage + cpu_acct_stats.system_usage <= cpu_acct_stats.total_usage
    /\ Between(start.ticks.user, cpu_acct_stats.user_usage, kernel.ticks.user)
    /\ Between(start.ticks.system, cpu_acct_stats.system_usage, kernel.ticks.system)

(* cpu_throttling_stats: the numbers come from one read of cpu.stat, so there
   are never more throttled periods than periods. *)
ThrottledWithinPeriods ==
  status = "done" => cpu_throttling_stats.throttled_periods <= cpu_throttling_stats.periods

(* blkio_stats_v1: whichever of the two policies the code takes the lists from,
   each device has the numbers it had at some moment of the call, those of
   another device on the lines around it never get mixed in, and devices that
   had done I/O before the call are not missing. *)
ServicesBracketed ==
  LET Value(io, d, o) == Sum([i \in DOMAIN io |-> IF io[i].dev = d THEN io[i].n[o] ELSE 0])
      Listed(l, d, o) == Sum([i \in DOMAIN l |-> IF l[i].dev = d /\ l[i].op = o THEN l[i].value ELSE 0])
  IN  Complete({"io"}) /\ ~ v2 /\ AllFit =>
        \A d \in Devices, o \in {"Read", "Write", "Sync", "Total"} :
          /\ Between(Value(start.io, d, o), Listed(blkio_stats_v1.io_service_bytes, d, o),
                     Value(kernel.io, d, o))
          /\ Between(Value(start.io, d, o), Listed(blkio_stats_v1.io_serviced, d, o),
                     Value(kernel.io, d, o))

(* memory_stats, memory_swap_stats and pids_cgroup_stats: the limits reported
   are those in force; on v2 no limit on memory is -1, no limit on processes
   is 0.  The limit on swap is left out where it is "max" (see README). *)
LimitsReported ==
  LET Is(x, l, none) == x = IF l = NoLimit THEN none ELSE l
      none == IF v2 THEN -1 ELSE Unbounded
  IN  Complete({}) /\ present =>
        /\ Is(memory_stats.limit, limits["memory"], none)
        /\ Is(CounterStats("kmem").limit, IF v2 THEN NoLimit ELSE limits["kmem"], none)
        /\ limits["memsw"] # NoLimit \/ ~ v2 => Is(CounterStats("memsw").limit, limits["memsw"], none)
        /\ Is(pids_cgroup_stats.limit, limits["pids"], 0)

(* The parsers unwrap what they take for granted; the call never panics on what
   the kernel writes, in any version and at any moment, as long as the numbers
   of the devices fit in 16 bits. *)
NeverPanics == [][status = "running" /\ status' = "panic" => ~ AllFit]_vars

=============================================================================
