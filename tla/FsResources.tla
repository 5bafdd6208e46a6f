---------------------------- MODULE FsResources ----------------------------
(***************************************************************************)
(* The control files of one cgroup and the calls that fill them:           *)
(* FsManager::set (manager/fs.rs), which takes the resources of the OCI    *)
(* runtime specification, Cgroup::apply (fs/cgroup.rs), which takes those  *)
(* of this crate, MemController::set_mem (fs/memory.rs) and                *)
(* FsManager::freeze.  They are sequences of reads and writes of files;    *)
(* each one is a step here, so that the kernel's own rules (which value it *)
(* takes, what it rounds) and the workload's use of memory come between.   *)
(***************************************************************************)
EXTENDS Integers, Sequences, SequencesExt, FiniteSetsExt

CONSTANTS
  none,           \* a value that the request does not give
  Top,            \* memory is counted in units, at most this many
  V2s,            \* the cgroup versions to consider, a set of BOOLEAN
  Families,       \* sets of resources, of one of which the callers ask for some
  Ops,            \* the calls: "set", "apply", "set_mem", "freeze"
  Devices,        \* device numbers
  ParentDevices,  \* those that the parent may use
  ParentQuota,    \* the parent's share of a CPU, in the same unit as quota
  ParentPeriod,   \* and period
  ParentCpus,     \* number of CPUs of the parent
  Disks,          \* block devices there are
  Interfaces      \* network interfaces there are

ASSUME NoneAssumption == none \notin Int
ASSUME TopAssumption == Top \in Nat \ {0}
ASSUME V2sAssumption == V2s \subseteq BOOLEAN /\ V2s # {}
ASSUME DevicesAssumption == ParentDevices \subseteq Devices
ASSUME ParentAssumption == /\ ParentQuota \in Nat \ {0} /\ ParentPeriod \in Nat \ {0}
                           /\ ParentCpus \in Nat \ {0}
ASSUME DisksAssumption == 0 \notin Disks

NoLimit == Top + 1          \* what a file without a limit holds
Unlimited == -1         \* and how a request says so
Sizes == 1 .. NoLimit

(* A size that a file can hold, from one that a request can contain. *)
Size(n) == IF n = Unlimited THEN NoLimit ELSE n

VARIABLES
  v2,      \* TRUE on the unified hierarchy
  file,    \* the values in force, by the name of what they limit
  asks,    \* the resources that callers of this cgroup ask for
  usage,   \* memory in use
  call     \* the call in progress or the last one

vars == <<v2, asks, file, usage, call>>

(* mem: memory.limit_in_bytes, memory.max.  swap: memory.memsw.limit_in_bytes
   (memory and swap together), memory.swap.max.  soft: the soft limit,
   memory.low.  shares: cpu.shares, cpu.weight.  quota, period: two files on v1,
   the two halves of cpu.max on v2, where -1 stands for "max".  cpus, mems: a
   number n stands for the list 0-(n-1).  weight, leaf: by disk, 0 for the whole
   cgroup.  rate: by kind and disk, four files on v1, all in io.max on v2.
   attr: a file named by the attributes of the request. *)
Rates == {"rbps", "wbps", "riops", "wiops"}
Weighted == {0} \union Disks
Keyed == {"weight", "leaf", "rate", "prio"}
Files == {"mem", "swap", "soft", "oom", "swappiness", "shares", "quota",
          "period", "pids", "huge", "devices", "cpus", "mems", "rt_runtime",
          "rt_period", "kmem", "tcp", "attr", "class", "high", "min", "freezer"}
         \union Keyed

(* What a call can ask for: none or a value of the field's type, sizes by the
   units there are. *)
Opt(S) == S \union {none}
Request ==
  [limit : Opt({n \in Int : n <= NoLimit}), swap : Opt({n \in Int : n <= NoLimit}),
   reservation : Opt(Unlimited .. NoLimit), oom : BOOLEAN, swappiness : Opt(Nat),
   kmem : Opt(Unlimited .. NoLimit), tcp : Opt(Unlimited .. NoLimit), huge : Opt(0 .. NoLimit),
   high : Opt(Unlimited .. NoLimit), min : Opt(Unlimited .. NoLimit), pids : Opt(Int),
   shares : Opt(Nat), quota : Opt(Int), period : Opt(Nat), rt_runtime : Opt(Int), rt_period : Opt(Nat),
   cpus : Opt(Nat \ {0}), mems : Opt(Nat \ {0}), attr : Opt(Int), class : Opt(Nat),
   devices : Opt(Seq([rule : {"allow", "deny", "typeless"}, devs : SUBSET Devices])),
   io : Opt([weight : Opt(Nat), leaf : Opt(Nat),
             devices : Seq([dev : Nat \ {0}, weight : Opt(Nat), leaf : Opt(Nat)]),
             rates : [Rates -> Seq([dev : Nat, rate : Nat])]]),
   prios : Opt(Seq([name : STRING, prio : Nat])),
   state : Opt({"thawed", "frozen", "freezing"})]

ASSUME FamiliesAssumption == \A family \in Families : family \subseteq Request
ASSUME OpsAssumption == Ops \subseteq {"set", "apply", "set_mem", "freeze"}

Fresh(two) ==
  [mem |-> NoLimit, swap |-> NoLimit, soft |-> IF two THEN 0 ELSE NoLimit, oom |-> 0,
   swappiness |-> 60, shares |-> IF two THEN 100 ELSE 1024,
   quota |-> Unlimited, period |-> 10, pids |-> Unlimited,
   huge |-> NoLimit, devices |-> ParentDevices, cpus |-> ParentCpus, mems |-> 1,
   rt_runtime |-> 0, rt_period |-> 10, kmem |-> NoLimit, tcp |-> NoLimit, attr |-> 0,
   class |-> 0, high |-> NoLimit, min |-> 0, freezer |-> "thawed",
   weight |-> [d \in Weighted |-> 100], leaf |-> [d \in Weighted |-> 100],
   rate |-> [k \in Rates \X Disks |-> Unlimited], prio |-> [i \in Interfaces |-> 0]]

Idle == [op |-> "idle", r |-> none, todo |-> << >>, before |-> none, res |-> "ok"]

Init ==
  /\ v2 \in V2s
  /\ asks \in Families
  /\ file = Fresh(v2)
  /\ usage \in 0 .. Top
  /\ call = Idle

-----------------------------------------------------------------------------
(* The kernel. *)

(* The part of a CPU may not be larger than the parent's (v1 only; on v2 a
   larger one is capped when it is used). *)
WithinParent(q, p) == q = Unlimited \/ q * ParentPeriod <= ParentQuota * p

(* Real time without a limit is the whole of a CPU. *)
RealtimeWithinParent(q, p) ==
  IF q < 0 THEN ParentPeriod <= ParentQuota ELSE q * ParentPeriod <= ParentQuota * p

(* Writes that the kernel refuses whatever the cgroup is doing. *)
Refused(f, v) ==
  \/ f = "mem" /\ ~v2 /\ Size(v) > file.swap
  \/ f = "swap" /\ ~v2 /\ Size(v) < file.mem
  \/ f \in {"mem", "swap"} /\ v < Unlimited
  \/ f = "soft" /\ v2 /\ v = Unlimited
  \/ f = "shares" /\ v2 /\ v \notin 1 .. 10000
  \/ f = "quota" /\ (v = 0 \/ ~WithinParent(v, file.period))
  \/ f = "period" /\ (v = 0 \/ ~WithinParent(file.quota, v))
  \/ f = "cpu.max" /\ (v.quota = 0 \/ v.period = 0)
  \/ f = "allow" /\ ~(v \subseteq ParentDevices)
  \/ f = "cpus" /\ ~v2 /\ v > ParentCpus
  \/ f = "mems" /\ v > 1
  \/ f = "rt_runtime" /\ (v2 \/ v > file.rt_period \/ ~RealtimeWithinParent(v, file.rt_period))
  \/ f = "rt_period" /\ (v2 \/ file.rt_runtime > v \/ ~RealtimeWithinParent(file.rt_runtime, v))
  \/ f = "weight" /\ (v.key \notin Weighted \/ v.val \notin (IF v2 THEN 1 ELSE 10) .. 1000)
  \/ f = "leaf" /\ (v2 \/ v.key \notin Weighted \/ v.val \notin 10 .. 1000)
  \/ f = "rate" /\ (v.key[2] \notin Disks \/ (v2 /\ v.val = 0))
  \/ f = "prio" /\ v.key \notin Interfaces

(* On v1 a limit below the usage is refused unless the kernel can reclaim. *)
Busy(f, v) == ~v2 /\ f \in {"mem", "swap"} /\ Size(v) < usage

(* Files that a kernel, or the I/O scheduler of the moment, may not have. *)
Missing(f) == f \in {"weight", "leaf", "kmem", "tcp", "attr"}

(* What the files hold after a write. *)
Written(f, v) ==
  CASE f \in {"mem", "swap", "soft", "kmem", "tcp", "high", "min"} -> [file EXCEPT ![f] = Size(v)]
    [] f = "shares" /\ ~v2 ->
         [file EXCEPT !.shares = IF v < 2 THEN 2 ELSE IF v > 262144 THEN 262144 ELSE v]
    [] f = "huge" -> [file EXCEPT !.huge = v - (v % 2)]
    [] f \in {"quota", "rt_runtime"} /\ v < 0 -> [file EXCEPT ![f] = Unlimited]
    [] f = "cpu.max" -> [file EXCEPT !.quota = v.quota, !.period = v.period]
    [] f = "rate" -> [file EXCEPT !.rate[v.key] = IF v.val = 0 THEN Unlimited ELSE v.val]
    [] f \in Keyed \ {"rate"} -> [file EXCEPT ![f][v.key] = v.val]
    [] f = "allow" -> [file EXCEPT !.devices = @ \union v]
    [] f = "deny" -> [file EXCEPT !.devices = @ \ v]
    [] f = "freezer" /\ v = "frozen" /\ ~v2 /\ file.freezer # "frozen" ->
         [file EXCEPT !.freezer = "freezing"]
    [] OTHER -> [file EXCEPT ![f] = v]

(* The workload uses more or less memory. *)
Charge ==
  /\ usage' \in 0 .. Top
  /\ usage' # usage /\ usage' <= file.mem
  /\ UNCHANGED <<v2, asks, file, call>>

(* On v1 freezer.state tells that the last task has stopped; cgroup.freeze of v2
   only holds the request. *)
Freezes ==
  /\ file.freezer = "freezing"
  /\ file' = [file EXCEPT !.freezer = "frozen"]
  /\ UNCHANGED <<v2, asks, usage, call>>

-----------------------------------------------------------------------------
(* The steps of a call. *)

Write(f, v) == <<[do |-> "write", file |-> f, val |-> v]>>      \* `?`
Update(f, v) == <<[do |-> "update", file |-> f, val |-> v]>>    \* error ignored
Test(f, v) == <<[do |-> "test", file |-> f, val |-> v]>>        \* readback
Fail(e) == <<[do |-> "fail", err |-> e]>>
ReadMemory == <<[do |-> "memory"]>>
ReadCpuMax(q, p) == <<[do |-> "cpu.max", quota |-> q, period |-> p]>>

(* The steps that depend on a value being given. *)
Given(v, steps) == IF v = none THEN << >> ELSE steps
OrZero(v) == IF v = none THEN 0 ELSE v

(* CpuController::set_cfs_quota and set_cfs_period: on v2 both read cpu.max and
   write it back with one half changed. *)
SetQuota(q) == IF v2 THEN ReadCpuMax(q, none) ELSE Write("quota", q)
SetPeriod(p) == IF v2 THEN ReadCpuMax(none, p) ELSE Write("period", p)

\* Mutant of CpuMax: the other half is not taken from the file.
HalfCpuMax(s, f) ==
  [quota |-> IF s.quota = none \/ s.quota <= 0 THEN Unlimited ELSE s.quota,
   period |-> IF s.period = none THEN f.period ELSE s.period]

(* A quota that is not positive lifts the limit. *)
CpuMax(s, f) ==
  [quota |-> CASE s.quota = none -> f.quota
               [] s.quota # none /\ s.quota > 0 -> s.quota
               [] OTHER -> Unlimited,
   period |-> IF s.period = none THEN f.period ELSE s.period]

(* conv.rs: shares on v1 are 2 .. 2^18, weights on v2 are 1 .. 10^4. *)
CpuShares(s) ==
  CASE s = 0 -> 0
    [] s \in 1 .. 2 -> 1
    [] s >= 262144 -> 10000
    [] OTHER -> ((s - 2) * 9999) \div 262142 + 1

(* set_cpuset. *)
SetCpuset(r) == Given(r.cpus, Write("cpus", r.cpus)) \o Given(r.mems, Write("mems", r.mems))

(* CpuController::set_rt_runtime and set_rt_period_us. *)
SetRealtime(r) == Given(r.rt_runtime, Write("rt_runtime", r.rt_runtime))
                    \o Given(r.rt_period, Write("rt_period", r.rt_period))

SetCpu(r) ==
  LET s == IF v2 THEN CpuShares(OrZero(r.shares)) ELSE OrZero(r.shares)
  IN  (IF s # 0 THEN Write("shares", s) ELSE << >>)
        \o Given(r.quota, SetQuota(r.quota)) \o Given(r.period, SetPeriod(r.period))
        \o SetRealtime(r)

(* conv.rs: the swap limit of v2 from the limits of memory and of memory with
   swap; none if the two make no sense. *)
MemorySwap(swap, limit) ==
  IF limit = Unlimited /\ swap = 0 THEN Unlimited
  ELSE IF swap \in {Unlimited, 0} \/ limit = Unlimited THEN swap
  ELSE IF limit <= 0 \/ swap < limit THEN none
  ELSE swap - limit

\* Mutants of LimitsV1: the limit always comes first; unlimited memory overrides
\* a swap limit that is given.
AlwaysLimitFirst(limit, swap, actual) ==
  (IF limit # 0 THEN Write("mem", limit) ELSE << >>)
    \o (IF swap # 0 THEN Write("swap", swap) ELSE << >>)
UnlimitedTakesSwap(limit, swap, actual) ==
  IF limit = Unlimited THEN Write("swap", Unlimited) \o Write("mem", Unlimited)
  ELSE AlwaysLimitFirst(limit, swap, actual)

(* set_mem_and_memswap_v1, with the limit in force. *)
LimitsV1(limit, swap0, actual) ==
  LET swap == IF limit = Unlimited /\ swap0 = 0 THEN Unlimited ELSE swap0
      SetLimit == IF limit # 0 THEN Write("mem", limit) ELSE << >>
      SetSwap == IF swap # 0 THEN Write("swap", swap) ELSE << >>
  IN  IF limit # 0 /\ swap # 0 /\ (swap = Unlimited \/ actual < swap)
        THEN SetSwap \o SetLimit
        ELSE SetLimit \o SetSwap

(* set_memory_v1. *)
MemoryV1(r) ==
  LimitsV1(OrZero(r.limit), OrZero(r.swap), file.mem)
    \o Given(r.reservation, Write("soft", r.reservation))
    \o (IF r.oom THEN Write("oom", 1) ELSE << >>)
    \o Given(r.swappiness, IF r.swappiness <= 100
                             THEN Write("swappiness", r.swappiness) ELSE Fail("invalid"))

\* Mutants of MemoryV2: the limit is written before the swap limit is computed;
\* a reservation is written whether or not there is one.
LimitBeforeCheck(r) ==
  LET converted == MemorySwap(OrZero(r.swap), OrZero(r.limit))
  IN  (IF OrZero(r.limit) # 0 THEN Write("mem", r.limit) ELSE << >>)
        \o (IF converted = none THEN Fail("invalid") ELSE Write("swap", converted))
AlwaysReserve(r) ==
  LET converted == MemorySwap(OrZero(r.swap), OrZero(r.limit))
  IN  IF converted = none THEN Fail("invalid")
      ELSE Write("swap", converted) \o Write("soft", r.reservation)

(* set_memory_v2, from the early return on. *)
MemoryV2(r) ==
  LET limit == OrZero(r.limit)
      swap == OrZero(r.swap)
      converted == MemorySwap(swap, limit)
  IN  IF limit <= 0 /\ swap <= 0 THEN << >>
      ELSE IF \/ swap > 0 /\ swap <= usage
              \/ limit > 0 /\ limit <= usage
              \/ converted = none
           THEN Fail("invalid")
      ELSE Write("swap", converted)
             \o (IF limit # 0 THEN Write("mem", limit) ELSE << >>)
             \o Given(r.reservation, Write("soft", r.reservation))

SetPids(r) == Given(r.pids, Write("pids", IF OrZero(r.pids) > 0 THEN r.pids ELSE Unlimited))
SetHuge(r) == Given(r.huge, Write("huge", r.huge))

(* The weights of the cgroup, those of the devices, then the rates by their kind;
   set_blkio stops at an error, apply does not. *)
Blkio(io, do) ==
  LET Put(f, v) == <<[do |-> do, file |-> f, val |-> v]>>
      Weigh(d, w) == Given(w.weight, Put("weight", [key |-> d, val |-> w.weight]))
                       \o Given(w.leaf, Put("leaf", [key |-> d, val |-> w.leaf]))
      Throttle(k) == FlattenSeq([i \in DOMAIN io.rates[k] |->
                       Put("rate", [key |-> <<k, io.rates[k][i].dev>>, val |-> io.rates[k][i].rate])])
  IN  Weigh(0, io) \o FlattenSeq([i \in DOMAIN io.devices |-> Weigh(io.devices[i].dev, io.devices[i])])
        \o Throttle("rbps") \o Throttle("wbps") \o Throttle("riops") \o Throttle("wiops")

SetBlkio(r) == Given(r.io, Blkio(r.io, "write"))

(* set_network: a controller that v2 does not have is looked up for each part. *)
Priorities(r, do) ==
  [i \in DOMAIN r.prios |->
     [do |-> do, file |-> "prio", val |-> [key |-> r.prios[i].name, val |-> r.prios[i].prio]]]
SetNetwork(r) ==
  Given(r.class, IF v2 THEN Fail("missing") ELSE Write("class", r.class))
    \o Given(r.prios, IF v2 THEN Fail("missing") ELSE Priorities(r, "write"))

(* DevicesController::allow_device and deny_device.  A rule whose type is none of
   a, b and c ends the call: InvalidLinuxResource, which is told apart here from
   that of limits that make no sense. *)
Rule(d) ==
  IF d.rule = "typeless" THEN [do |-> "fail", err |-> "type"]
  ELSE [do |-> "write", file |-> d.rule, val |-> d.devs]

(* set_devices: the controller, which v2 does not have, is looked up before the
   rules, also when the list has none. *)
SetDevices(r) ==
  Given(r.devices, IF v2 THEN Fail("missing")
                   ELSE [i \in DOMAIN r.devices |-> Rule(r.devices[i])])

(* FsManager::set. *)
Set(r) == SetCpuset(r) \o SetCpu(r) \o ReadMemory \o SetPids(r) \o SetBlkio(r) \o SetHuge(r)
            \o SetNetwork(r) \o SetDevices(r)

(* MemController::set_mem; v1 does not have its files. *)
SetMem(r) ==
  LET Put(f, v) == Given(v, IF v2 THEN Write(f, v) ELSE Fail("missing"))
  IN  Put("high", r.high) \o Put("soft", r.reservation) \o Put("mem", r.limit) \o Put("min", r.min)

(* FsManager::freeze. *)
SetFreezer(r) == IF r.state = "freezing" THEN Fail("invalid") ELSE Write("freezer", r.state)

\* Mutant of UpdateAndTest: what is written is not read back.
UpdateOnly(v, set, get) == Given(v, set)

(* The macros update_and_test! and update! of fs/mod.rs. *)
UpdateAndTest(v, set, get) == Given(v, set \o Test(get, v))

Attributes(r) == Given(r.attr, Update("attr", r.attr))

ApplyCpuset(r) == Given(r.cpus, Update("cpus", r.cpus)) \o Given(r.mems, Update("mems", r.mems))

ApplyCpu(r) ==
  UpdateAndTest(r.shares, Write("shares", r.shares), "shares")
    \o UpdateAndTest(r.period, SetPeriod(r.period), "period")
    \o UpdateAndTest(r.quota, SetQuota(r.quota), "quota")
    \o Attributes(r)

(* MemController::apply ignores every error.  set_swappiness writes
   memory.swap.max on v2, where a number of bytes below a page is zero. *)
ApplyMemory(r) ==
  Given(r.limit, Update("mem", r.limit))
    \o Given(r.reservation, Update("soft", r.reservation))
    \o Given(r.kmem, IF v2 THEN << >> ELSE Update("kmem", r.kmem))
    \o Given(r.swap, Update("swap", r.swap))
    \o Given(r.tcp, IF v2 THEN << >> ELSE Update("tcp", r.tcp))
    \o Given(r.swappiness, IF v2 THEN Update("swap", 0)
                                 ELSE Update("swappiness", r.swappiness))
    \o Attributes(r)

ApplyBlkio(r) == Given(r.io, Blkio(r.io, "update")) \o Attributes(r)
ApplyNetCls(r) == UpdateAndTest(r.class, Write("class", r.class), "class")
ApplyNetPrio(r) == Given(r.prios, Priorities(r, "update"))

ApplyPids(r) == UpdateAndTest(r.pids, Write("pids", r.pids), "pids")
ApplyHuge(r) == UpdateAndTest(r.huge, Update("huge", r.huge), "huge")
ApplyDevices(r) == IF v2 THEN << >> ELSE SetDevices(r)

(* Cgroup::apply goes through the subsystems in their order of
   fs/hierarchies.rs, on v2 in the kernel's order. *)
Apply(r) ==
  IF v2 THEN ApplyCpuset(r) \o ApplyCpu(r) \o ApplyBlkio(r) \o ApplyMemory(r)
               \o ApplyHuge(r) \o ApplyPids(r)
        ELSE ApplyBlkio(r) \o ApplyMemory(r) \o ApplyPids(r) \o ApplyCpuset(r) \o ApplyCpu(r)
               \o ApplyDevices(r) \o ApplyNetCls(r) \o ApplyNetPrio(r) \o ApplyHuge(r)

-----------------------------------------------------------------------------
(* The resources of this crate have a DeviceType in each rule. *)
Typed(r) == r.devices # none => \A i \in DOMAIN r.devices : r.devices[i].rule # "typeless"

Start(op, r) ==
  /\ call.todo = << >>
  /\ op = "apply" => Typed(r)
  /\ op = "freeze" <=> r.state # none
  /\ call' = [op |-> op, r |-> r, before |-> file, res |-> "ok",
              todo |-> CASE op = "set" -> Set(r) [] op = "apply" -> Apply(r)
                         [] op = "set_mem" -> SetMem(r) [] op = "freeze" -> SetFreezer(r)]
  /\ UNCHANGED <<v2, asks, file, usage>>

(* The next step is of kind k. *)
At(k) == call.todo # << >> /\ Head(call.todo).do = k
Go(steps) == call' = [call EXCEPT !.todo = steps \o Tail(@)]
Return(e) == call' = [call EXCEPT !.todo = << >>, !.res = e]

(* A write.  On v2 the kernel reclaims or kills until a lower limit is met. *)
Writes ==
  /\ At("write") \/ At("update")
  /\ LET s == Head(call.todo) IN
       /\ ~Refused(s.file, s.val)
       /\ file' = Written(s.file, s.val)
       /\ usage' = Min({usage, file'.mem} \union (IF v2 THEN {} ELSE {file'.swap}))
       /\ Go(<< >>)
  /\ UNCHANGED <<v2, asks>>

WriteFails ==
  /\ At("write") \/ At("update")
  /\ LET s == Head(call.todo) IN
       \E e \in {"refused", "busy", "missing"} :
         /\ e = "missing" => Missing(s.file)
         /\ e = "refused" => Refused(s.file, s.val)
         /\ e = "busy" => ~Refused(s.file, s.val) /\ Busy(s.file, s.val)
         /\ IF s.do = "update" THEN Go(<< >>)
            ELSE Return(IF s.file \in {"mem", "swap"} /\ e = "refused" THEN "order" ELSE e)
  /\ UNCHANGED <<v2, asks, file, usage>>

(* The reads of memory_stat() and of cpu.max, whose values decide the next steps. *)
ReadsMemory ==
  /\ At("memory")
  /\ Go(IF v2 THEN MemoryV2(call.r) ELSE MemoryV1(call.r))
  /\ UNCHANGED <<v2, asks, file, usage>>

ReadsCpuMax ==
  /\ At("cpu.max")
  /\ Go(Write("cpu.max", CpuMax(Head(call.todo), file)))
  /\ UNCHANGED <<v2, asks, file, usage>>

Tests ==
  /\ At("test")
  /\ LET s == Head(call.todo) IN
       IF file[s.file] = s.val THEN Go(<< >>) ELSE Return("other")
  /\ UNCHANGED <<v2, asks, file, usage>>

Fails ==
  /\ At("fail")
  /\ Return(Head(call.todo).err)
  /\ UNCHANGED <<v2, asks, file, usage>>

Next ==
  \/ \E op \in Ops, r \in asks : Start(op, r)
  \/ Writes
  \/ WriteFails
  \/ ReadsMemory
  \/ ReadsCpuMax
  \/ Tests
  \/ Fails
  \/ Charge
  \/ Freezes

Spec == Init /\ [][Next]_vars

-----------------------------------------------------------------------------
(* Properties. *)

Numbers == {"quota", "period", "pids", "shares", "swappiness", "oom", "rt_runtime", "rt_period",
            "attr", "class"}
Results == {"ok", "order", "refused", "busy", "invalid", "missing", "type", "other"}

(* Types: limits are sizes, the memory in use stays below the limits (v1 counts
   it in both), a device in use is one that the parent may use. *)
TypeOK ==
  /\ v2 \in BOOLEAN
  /\ DOMAIN file = Files
  /\ \A f \in {"mem", "swap", "soft", "huge", "kmem", "tcp", "high", "min"} : file[f] \in 0 .. NoLimit
  /\ \A f \in Numbers : file[f] \in Int
  /\ file.devices \subseteq ParentDevices
  /\ file.mems = 1 /\ file.cpus \in Nat /\ (~v2 => file.cpus <= ParentCpus)
  /\ file.rt_runtime <= file.rt_period
  /\ file.weight \in [Weighted -> 1 .. 1000] /\ file.leaf \in [Weighted -> 10 .. 1000]
  /\ file.rate \in [Rates \X Disks -> Int \ {0}] /\ file.prio \in [Interfaces -> Nat]
  /\ file.freezer \in {"thawed", "frozen"} \union (IF v2 THEN {} ELSE {"freezing"})
  /\ usage \in 0 .. Top /\ usage <= file.mem /\ (~v2 => usage <= file.swap)
  /\ call.res \in Results

Finished(op, res) == call.todo = << >> /\ call.op = op /\ call.res = res

(* The last value that a list of a request gives to key k, or what held before. *)
LastOf(list, k, old) ==
  LET at == {i \in DOMAIN list : list[i].key = k /\ list[i].val # none}
  IN  IF at = {} THEN old ELSE list[Max(at)].val

(* What a request for blkio, net_prio and devices asks for. *)
WantedWeights(io, f, old) ==
  LET list == [i \in DOMAIN io.devices |-> [key |-> io.devices[i].dev, val |-> io.devices[i][f]]]
  IN  [d \in Weighted |-> CASE d # 0 -> LastOf(list, d, old[d])
                            [] d = 0 /\ io[f] = none -> old[d]
                            [] OTHER -> io[f]]
WantedRates(io, old) ==
  LET list(k) == [i \in DOMAIN io.rates[k] |->
                    [key |-> io.rates[k][i].dev,
                     val |-> IF io.rates[k][i].rate = 0 THEN Unlimited ELSE io.rates[k][i].rate]]
  IN  [k \in Rates \X Disks |-> LastOf(list(k[1]), k[2], old[k])]
WantedPriorities(prios, old) ==
  LET list == [j \in DOMAIN prios |-> [key |-> prios[j].name, val |-> prios[j].prio]]
  IN  [i \in Interfaces |-> LastOf(list, i, old[i])]
WantedDevices(rules, old) ==
  {d \in Devices : LET at == {i \in DOMAIN rules : d \in rules[i].devs}
                   IN  IF at = {} THEN d \in old ELSE rules[Max(at)].rule = "allow"}

(* What FsManager::set is asked for, file by file, where b holds now: an absent
   value and a zero limit leave the file alone; unlimited memory with no swap
   given means unlimited swap; swap counts memory too, which the swap limit of v2
   does not; a quota that is not positive is none. *)
Wanted(r, b) ==
  LET limit == OrZero(r.limit)
      swap == OrZero(r.swap)
      Or(v, f) == IF v = none THEN b[f] ELSE v
  IN  [mem |-> IF limit = 0 THEN b.mem ELSE Size(limit),
       swap |-> CASE swap = 0 /\ limit = Unlimited -> NoLimit
                  [] swap = 0 /\ limit # Unlimited -> b.swap
                  [] swap # 0 /\ v2 /\ swap > 0 /\ limit > 0 -> swap - limit
                  [] OTHER -> Size(swap),
       soft |-> IF r.reservation = none THEN b.soft ELSE Size(r.reservation),
       oom |-> IF r.oom /\ ~v2 THEN 1 ELSE b.oom,
       swappiness |-> IF v2 THEN b.swappiness ELSE Or(r.swappiness, "swappiness"),
       shares |-> CASE OrZero(r.shares) = 0 -> b.shares
                    [] OrZero(r.shares) # 0 /\ v2 -> CpuShares(r.shares)
                    [] OTHER -> Min({262144, Max({2, r.shares})}),
       quota |-> IF r.quota # none /\ r.quota <= 0 THEN Unlimited ELSE Or(r.quota, "quota"),
       period |-> Or(r.period, "period"),
       pids |-> IF r.pids # none /\ r.pids <= 0 THEN Unlimited ELSE Or(r.pids, "pids"),
       huge |-> IF r.huge = none THEN b.huge ELSE r.huge - (r.huge % 2),
       cpus |-> Or(r.cpus, "cpus"), mems |-> Or(r.mems, "mems"),
       rt_runtime |-> IF r.rt_runtime # none /\ r.rt_runtime < 0 THEN Unlimited
                      ELSE Or(r.rt_runtime, "rt_runtime"),
       rt_period |-> Or(r.rt_period, "rt_period"),
       class |-> Or(r.class, "class"),
       kmem |-> b.kmem, tcp |-> b.tcp, attr |-> b.attr, high |-> b.high, min |-> b.min,
       weight |-> IF r.io = none THEN b.weight ELSE WantedWeights(r.io, "weight", b.weight),
       leaf |-> IF r.io = none THEN b.leaf ELSE WantedWeights(r.io, "leaf", b.leaf),
       rate |-> IF r.io = none THEN b.rate ELSE WantedRates(r.io, b.rate),
       prio |-> IF r.prios = none THEN b.prio ELSE WantedPriorities(r.prios, b.prio),
       devices |-> IF r.devices = none THEN b.devices ELSE WantedDevices(r.devices, b.devices)]

(* Whether the tasks have stopped is not the call's business. *)
Requested == Files \ {"freezer"}

(* On v2 set_memory_v2 returns early, or turns swap off, for requests whose swap
   is not given: see UnlimitedHonoured. *)
Handled(r) == v2 => /\ OrZero(r.swap) # 0
                    /\ OrZero(r.limit) > 0 \/ OrZero(r.swap) > 0

(* When FsManager::set returns Ok, everything that was asked for is in force and
   nothing else has changed, whatever the files held before (manager/fs.rs:794). *)
OkMeansInForce ==
  Finished("set", "ok") /\ (Handled(call.r) \/ {call.r.limit, call.r.swap, call.r.reservation} = {none})
    => \A f \in Requested : file[f] = Wanted(call.r, call.before)[f]

(* No disk and no interface is named twice. *)
Distinct(r) ==
  /\ r.io # none =>
       /\ \A i, j \in DOMAIN r.io.devices : r.io.devices[i].dev = r.io.devices[j].dev => i = j
       /\ \A k \in Rates : \A i, j \in DOMAIN r.io.rates[k] :
            r.io.rates[k][i].dev = r.io.rates[k][j].dev => i = j
  /\ r.prios # none => \A i, j \in DOMAIN r.prios : r.prios[i].name = r.prios[j].name => i = j

(* At every moment of a call, and when it stops half-way, each file holds what it
   held before or what was asked for; no step undoes another one, in particular
   not the two halves of cpu.max (fs/cpu.rs:230).  What is asked for twice is
   written twice. *)
OnlyRequested ==
  call.op = "set" /\ Distinct(call.r) =>
    LET wanted == Wanted(call.r, call.before)
    IN  /\ \A f \in Requested \ ({"devices"} \union Keyed) :
             \/ file[f] \in {call.before[f], wanted[f]}
             \/ f = "swap" /\ ~Handled(call.r)
        /\ \A f \in Keyed : \A k \in DOMAIN file[f] :
             file[f][k] \in {call.before[f][k], wanted[f][k]}

(* If the two limits asked for fit each other, the kernel does not refuse one for
   the sake of the other's old value: they are written in the right order
   (manager/fs.rs:192). *)
LimitsInOrder ==
  LET limit == OrZero(call.r.limit)
      swap == OrZero(call.r.swap)
  IN  /\ call.op = "set" /\ ~v2
      /\ \/ limit = Unlimited /\ swap \in {0, Unlimited}
         \/ limit > 0 /\ (swap = Unlimited \/ swap >= limit)
      => call.res # "order"

(* On v2 a request that is rejected as invalid, for the usage or for limits that
   make no sense together, has not changed the limits (manager/fs.rs:260). *)
InvalidChangesNothing ==
  v2 /\ Finished("set", "invalid")
    => \A f \in {"mem", "swap", "soft"} : file[f] = call.before[f]

(* When Cgroup::apply returns Ok, the values of the controllers that test them are
   in force in the end, also those tested before other values were written
   (fs/mod.rs:16). *)
OkMeansTested ==
  Finished("apply", "ok") =>
    \A f \in {"shares", "period", "quota", "pids", "huge"} \union (IF v2 THEN {} ELSE {"class"}) :
      call.r[f] # none => file[f] = call.r[f]

(* conv.rs:36 treats unlimited memory without a swap limit as a request for
   unlimited memory and swap. *)
UnlimitedHonoured ==
  v2 /\ Finished("set", "ok") /\ call.r.limit = Unlimited /\ call.r.swap = none
    => file.mem = NoLimit /\ file.swap = NoLimit

=============================================================================
