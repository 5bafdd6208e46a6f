--------------------------- MODULE FsResourcesProofs ---------------------------
(***************************************************************************)
(* Proofs about FsResources, for every request and every size of memory.   *)
(***************************************************************************)
EXTENDS FsResources, SequenceTheorems, WellFoundedInduction, TLAPS

-----------------------------------------------------------------------------
(***************************************************************************)
(* Sequences.                                                              *)
(***************************************************************************)

\* Induction on natural numbers, as the least counterexample.
LEMMA Least ==
  ASSUME NEW T \in SUBSET Nat, T # {}
  PROVE  \E x \in T : \A y \in T : x <= y
  <1>1. PICK x \in T : \A y \in T : <<y, x>> \notin OpToRel(<, Nat)
    BY WFMin, NatLessThanWellFounded, Zenon
  <1>2. \A y \in T : ~(y < x) BY <1>1, Zenon DEF OpToRel
  <1>3. QED BY <1>2

\* A flattened sequence is put together part by part.
LEMMA FlattenDef ==
  ASSUME NEW S, NEW ss \in Seq(Seq(S))
  PROVE  \E f : /\ \A i \in 1 .. Len(ss) : f[i] = IF i = 1 THEN ss[i] ELSE f[i - 1] \o ss[i]
               /\ FlattenSeq(ss) = IF Len(ss) = 0 THEN << >> ELSE f[Len(ss)]
  <1> DEFINE n == Len(ss)
             Eq(g, k) == g = [i \in 1 .. k |-> IF i = 1 THEN ss[i] ELSE g[i - 1] \o ss[i]]
             Bad == {k \in Nat : \A g : ~Eq(g, k)}
  <1>1. n \in Nat /\ \A i \in 1 .. n : ss[i] \in Seq(S) OBVIOUS
  <1>2. Bad = {}
    <2>1. SUFFICES ASSUME Bad # {} PROVE FALSE OBVIOUS
    <2>2. PICK k \in Bad : \A j \in Bad : k <= j BY <2>1, Least
    <2>3. CASE k = 0
      <3>1. Eq([i \in 1 .. 0 |-> i], 0) OBVIOUS
      <3>2. QED BY <2>2, <2>3, <3>1
    <2>4. CASE k # 0
      <3>1. k - 1 \in Nat /\ ~(k <= k - 1) BY <2>2, <2>4
      <3>2. PICK g : Eq(g, k - 1)
        <4> HIDE DEF Eq
        <4>1. k - 1 \notin Bad BY <2>2, <3>1
        <4>2. QED BY <3>1, <4>1
      <3> DEFINE last == IF k = 1 THEN ss[k] ELSE g[k - 1] \o ss[k]
                 h == [i \in 1 .. k |-> IF i = k THEN last ELSE g[i]]
      <3>3. \A i \in 1 .. k : i # k => i \in 1 .. k - 1 BY <3>1
      <3>4. \A i \in 1 .. k : i # 1 => i - 1 \in 1 .. k - 1 /\ i - 1 \in 1 .. k /\ i - 1 # k BY <3>1
      <3>5. ASSUME NEW i \in 1 .. k PROVE h[i] = IF i = 1 THEN ss[i] ELSE h[i - 1] \o ss[i]
        <4>1. CASE i = k BY <3>4, <4>1
        <4>2. CASE i # k
          <5>1. h[i] = g[i] /\ i \in 1 .. k - 1 BY <3>3, <4>2
          <5>2. g[i] = IF i = 1 THEN ss[i] ELSE g[i - 1] \o ss[i] BY <3>2, <5>1
          <5>3. i # 1 => h[i - 1] = g[i - 1] BY <3>4
          <5>4. QED BY <5>1, <5>2, <5>3
        <4>3. QED BY <4>1, <4>2
      <3>6. Eq(h, k)
        <4> HIDE DEF last
        <4>1. h = [i \in 1 .. k |-> h[i]] OBVIOUS
        <4> HIDE DEF h
        <4>2. QED BY <3>5, <4>1
      <3>7. QED BY <2>2, <3>6
    <2>5. QED BY <2>3, <2>4
  <1> DEFINE f == CHOOSE g : Eq(g, n)
  <1>3. Eq(f, n)
    <2> HIDE DEF Eq
    <2>1. \E g : Eq(g, n) BY <1>1, <1>2
    <2>2. QED BY <2>1
  <1>4. n # 0 => FlattenSeq(ss) = f[n] BY DEF FlattenSeq
  <1>5. n = 0 => FlattenSeq(ss) = << >> BY DEF FlattenSeq
  <1> HIDE DEF f
  <1>6. QED BY <1>3, <1>4, <1>5

\* The elements of a flattened sequence are those of its parts.
LEMMA FlattenType ==
  ASSUME NEW S, NEW ss \in Seq(Seq(S))
  PROVE  FlattenSeq(ss) \in Seq(S)
  <1> DEFINE n == Len(ss)
  <1>1. n \in Nat /\ \A i \in 1 .. n : ss[i] \in Seq(S) OBVIOUS
  <1>2. PICK f : /\ \A i \in 1 .. n : f[i] = IF i = 1 THEN ss[i] ELSE f[i - 1] \o ss[i]
                 /\ FlattenSeq(ss) = IF n = 0 THEN << >> ELSE f[n]
    BY FlattenDef
  <1> DEFINE Out == {i \in 1 .. n : f[i] \notin Seq(S)}
  <1>3. Out = {}
    <2>1. SUFFICES ASSUME Out # {} PROVE FALSE OBVIOUS
    <2>0. Out \in SUBSET Nat BY <1>1
    <2>2. PICK k \in Out : \A j \in Out : k <= j BY <2>0, <2>1, Least
    <2>3. f[k] = IF k = 1 THEN ss[k] ELSE f[k - 1] \o ss[k] BY <1>2, <2>2
    <2>4. k # 1 => k - 1 \in 1 .. n /\ ~(k <= k - 1) BY <1>1, <2>2
    <2>5. k # 1 => f[k - 1] \in Seq(S) BY <2>2, <2>4
    <2>6. f[k] \in Seq(S) BY <1>1, <2>2, <2>3, <2>5
    <2>7. QED BY <2>2, <2>6
  <1>4. CASE n = 0 BY <1>2, <1>4
  <1>5. CASE n # 0
    <2>1. n \in 1 .. n BY <1>1, <1>5
    <2>2. QED BY <1>2, <1>3, <1>5, <2>1
  <1>6. QED BY <1>4, <1>5

-----------------------------------------------------------------------------
(***************************************************************************)
(* The steps of a call.                                                    *)
(***************************************************************************)

Sized == {"mem", "swap"}
Names == {"mem", "swap", "soft", "oom", "swappiness", "shares", "quota", "period", "pids", "huge",
          "cpus", "mems", "rt_runtime", "rt_period", "kmem", "tcp", "attr", "class", "high", "min",
          "freezer", "weight", "leaf", "rate", "prio", "allow", "deny", "cpu.max"}

\* What is written to a file.
Values(f) ==
  CASE f \in Sized -> {n \in Int : n <= NoLimit}
    [] f \in {"soft", "kmem", "tcp", "high", "min"} -> Unlimited .. NoLimit
    [] f = "huge" -> 0 .. NoLimit
    [] f \in {"cpus", "mems"} -> Nat \ {0}
    [] f \in Numbers -> Int
    [] f = "freezer" -> {"thawed", "frozen"}
    [] f \in {"weight", "leaf"} -> [key : Nat, val : Nat]
    [] f = "rate" -> [key : Rates \X Nat, val : Nat]
    [] f = "prio" -> [key : STRING, val : Nat]
    [] f \in {"allow", "deny"} -> SUBSET Devices
    [] f = "cpu.max" -> [quota : Int, period : Int]

Puts(F) == UNION {[do : {"write", "update"}, file : {f}, val : Values(f)] : f \in F}
CpuReads == [do : {"cpu.max"}, quota : Opt(Int), period : Opt(Int)]
MemoryReads == [do : {"memory"}]
Failures(E) == [do : {"fail"}, err : E]

Tested == {"shares", "period", "quota", "pids", "huge", "class"}
TestSteps == [do : {"test"}, file : Tested, val : Int]

\* A controller that is not there, a rule without a type.
Gone == {"missing", "type"}

\* Every one that a step of a call ends it with.
Errors == {"invalid"} \union Gone

Steps == Puts(Names) \union CpuReads \union MemoryReads \union Failures(Errors)
         \union TestSteps

LEMMA PutsType ==
  ASSUME NEW F, NEW s
  PROVE  s \in Puts(F) <=> /\ s \in [do : {"write", "update"}, file : F, val : Values(s.file)]
  BY DEF Puts

LEMMA PutsMonotonic == ASSUME NEW F, NEW G, F \subseteq G PROVE Puts(F) \subseteq Puts(G)
  BY DEF Puts

LEMMA GivenType ==
  ASSUME NEW S, NEW v, NEW steps, v # none => steps \in Seq(S)
  PROVE  Given(v, steps) \in Seq(S)
  BY DEF Given

LEMMA WriteType ==
  ASSUME NEW F, NEW f \in F, NEW v, v \in Values(f)
  PROVE  Write(f, v) \in Seq(Puts(F)) /\ Update(f, v) \in Seq(Puts(F))
  <1>1. \A d \in {"write", "update"} : [do |-> d, file |-> f, val |-> v] \in Puts(F) BY DEF Puts
  <1>2. QED BY <1>1 DEF Write, Update

\* A value that is given is written.
LEMMA PutType ==
  ASSUME NEW F, NEW f \in F, NEW v, v # none => v \in Values(f)
  PROVE  Given(v, Write(f, v)) \in Seq(Puts(F)) /\ Given(v, Update(f, v)) \in Seq(Puts(F))
  BY WriteType, GivenType

LEMMA ValuesDef ==
  /\ \A f \in Sized : Values(f) = {n \in Int : n <= NoLimit}
  /\ \A f \in {"soft", "kmem", "tcp", "high", "min"} : Values(f) = Unlimited .. NoLimit
  /\ Values("huge") = 0 .. NoLimit
  /\ \A f \in {"cpus", "mems"} : Values(f) = Nat \ {0}
  /\ \A f \in Numbers : Values(f) = Int
  /\ Values("freezer") = {"thawed", "frozen"}
  /\ \A f \in {"weight", "leaf"} : Values(f) = [key : Nat, val : Nat]
  /\ Values("rate") = [key : Rates \X Nat, val : Nat]
  /\ Values("prio") = [key : STRING, val : Nat]
  /\ \A f \in {"allow", "deny"} : Values(f) = SUBSET Devices
  /\ Values("cpu.max") = [quota : Int, period : Int]
  BY ZenonT(40) DEF Values, Sized, Numbers

LEMMA Concat == ASSUME NEW S, NEW s \in Seq(S), NEW t \in Seq(S) PROVE s \o t \in Seq(S)
  OBVIOUS

LEMMA Shift ==
  ASSUME NEW S, NEW s \in Seq(S), NEW t \in Seq(S), NEW u \in Seq(S)
  PROVE  s \o t \o u = s \o (t \o u)
  OBVIOUS

\* The elements of a sequence; a function on the domain of one.
LEMMA Elements ==
  ASSUME NEW S, NEW s \in Seq(S)
  PROVE  /\ DOMAIN s = 1 .. Len(s) /\ Len(s) \in Nat
         /\ \A i \in DOMAIN s : s[i] \in S
  OBVIOUS

LEMMA Mapped ==
  ASSUME NEW D, NEW s \in Seq(D), NEW S, NEW f \in [DOMAIN s -> S]
  PROVE  f \in Seq(S)
  BY Elements

\* The same steps are steps of a larger kind.
LEMMA Wider == ASSUME NEW S, NEW T, S \subseteq T, NEW s \in Seq(S) PROVE s \in Seq(T)
  OBVIOUS

LEMMA Pieces ==
  ASSUME NEW r \in Request
  PROVE  /\ SetCpuset(r) \in Seq(Puts({"cpus", "mems"}))
         /\ ApplyCpuset(r) \in Seq(Puts({"cpus", "mems"}))
         /\ SetPids(r) \in Seq(Puts({"pids"}))
         /\ SetHuge(r) \in Seq(Puts({"huge"}))
  <1>1. /\ r.cpus # none => r.cpus \in Values("cpus")
        /\ r.mems # none => r.mems \in Values("mems")
        /\ r.huge # none => r.huge \in Values("huge")
        /\ r.pids # none => r.pids \in Values("pids")
    BY ValuesDef DEF Request, Opt, Numbers
  <1>2. SetCpuset(r) \in Seq(Puts({"cpus", "mems"})) /\ ApplyCpuset(r) \in Seq(Puts({"cpus", "mems"}))
    <2> DEFINE F == {"cpus", "mems"}
    <2>1. \A f \in F : /\ Given(r[f], Write(f, r[f])) \in Seq(Puts(F))
                       /\ Given(r[f], Update(f, r[f])) \in Seq(Puts(F))
      BY <1>1, PutType
    <2> HIDE DEF F
    <2>2. "cpus" \in F /\ "mems" \in F BY DEF F
    <2>3. SetCpuset(r) \in Seq(Puts(F)) /\ ApplyCpuset(r) \in Seq(Puts(F))
      BY <2>1, <2>2, Concat DEF SetCpuset, ApplyCpuset
    <2>4. QED BY <2>3 DEF F
  <1>3. SetHuge(r) \in Seq(Puts({"huge"})) BY <1>1, PutType DEF SetHuge
  <1>4. SetPids(r) \in Seq(Puts({"pids"}))
    <2>1. Unlimited \in Values("pids") BY ValuesDef DEF Numbers, Unlimited
    <2>2. QED BY <1>1, <2>1, GivenType, WriteType DEF SetPids
  <1>5. QED BY <1>2, <1>3, <1>4

CpuFiles == {"shares", "quota", "period", "rt_runtime", "rt_period", "attr"}

\* Writes of the CPU controller and reads of cpu.max that go before one.
CpuSteps == Puts(CpuFiles) \union CpuReads

LEMMA CpuPieces ==
  ASSUME NEW r \in Request
  PROVE  /\ \A q \in Int : SetQuota(q) \in Seq(CpuSteps) /\ SetPeriod(q) \in Seq(CpuSteps)
         /\ Attributes(r) \in Seq(Puts({"attr"}))
         /\ SetCpu(r) \in Seq(CpuSteps)
  <1>1. /\ r.rt_runtime # none => r.rt_runtime \in Values("rt_runtime")
        /\ r.rt_period # none => r.rt_period \in Values("rt_period")
        /\ r.attr # none => r.attr \in Values("attr")
    BY ValuesDef DEF Request, Opt, Numbers
  <1>2. /\ r.quota # none => r.quota \in Int
        /\ r.period # none => r.period \in Int
        /\ r.shares # none => r.shares \in Nat
    BY DEF Request, Opt
  <1>3. ASSUME NEW q \in Int PROVE SetQuota(q) \in Seq(CpuSteps) /\ SetPeriod(q) \in Seq(CpuSteps)
    <2>1. q \in Values("quota") /\ q \in Values("period") BY ValuesDef DEF Numbers
    <2>2. Write("quota", q) \in Seq(Puts(CpuFiles)) /\ Write("period", q) \in Seq(Puts(CpuFiles))
      BY <2>1, WriteType DEF CpuFiles
    <2>3. ReadCpuMax(q, none) \in Seq(CpuReads) /\ ReadCpuMax(none, q) \in Seq(CpuReads)
      BY DEF ReadCpuMax, CpuReads, Opt
    <2>4. QED BY <2>2, <2>3, Wider DEF SetQuota, SetPeriod, CpuSteps
  <1>4. Attributes(r) \in Seq(Puts({"attr"})) BY <1>1, PutType DEF Attributes
  <1>5. SetRealtime(r) \in Seq(CpuSteps)
    <2>1. \A f \in {"rt_runtime", "rt_period"} : Given(r[f], Write(f, r[f])) \in Seq(Puts(CpuFiles))
      BY <1>1, PutType DEF CpuFiles
    <2>2. SetRealtime(r) \in Seq(Puts(CpuFiles)) BY <2>1, Concat DEF SetRealtime
    <2>3. QED BY <2>2, Wider DEF CpuSteps
  <1>6. SetCpu(r) \in Seq(CpuSteps)
    <2> DEFINE s == IF v2 THEN CpuShares(OrZero(r.shares)) ELSE OrZero(r.shares)
    <2>1. s \in Values("shares")
      <3>1. OrZero(r.shares) \in Nat BY <1>2 DEF OrZero
      <3>2. CpuShares(OrZero(r.shares)) \in Int BY <3>1 DEF CpuShares
      <3>3. QED BY <3>1, <3>2, ValuesDef DEF Numbers
    <2> HIDE DEF s
    <2>2. (IF s # 0 THEN Write("shares", s) ELSE << >>) \in Seq(CpuSteps)
      <3>1. Write("shares", s) \in Seq(Puts(CpuFiles)) BY <2>1, WriteType DEF CpuFiles
      <3>2. QED BY <3>1, Wider DEF CpuSteps
    <2>3. Given(r.quota, SetQuota(r.quota)) \in Seq(CpuSteps) BY <1>2, <1>3, GivenType
    <2>4. Given(r.period, SetPeriod(r.period)) \in Seq(CpuSteps) BY <1>2, <1>3, GivenType
    <2>5. QED BY <1>5, <2>2, <2>3, <2>4, Concat DEF SetCpu, s
  <1>7. QED BY <1>3, <1>4, <1>6

BlkioFiles == {"weight", "leaf", "rate"}

LEMMA BlkioPieces ==
  ASSUME NEW r \in Request, NEW do \in {"write", "update"}
  PROVE  Given(r.io, Blkio(r.io, do)) \in Seq(Puts(BlkioFiles))
  <1>1. SUFFICES ASSUME NEW io \in [weight : Opt(Nat), leaf : Opt(Nat),
                                    devices : Seq([dev : Nat \ {0}, weight : Opt(Nat), leaf : Opt(Nat)]),
                                    rates : [Rates -> Seq([dev : Nat, rate : Nat])]]
                 PROVE  Blkio(io, do) \in Seq(Puts(BlkioFiles))
    BY GivenType DEF Request, Opt
  <1> DEFINE Put(f, v) == <<[do |-> do, file |-> f, val |-> v]>>
             Weigh(d, w) == Given(w.weight, Put("weight", [key |-> d, val |-> w.weight]))
                              \o Given(w.leaf, Put("leaf", [key |-> d, val |-> w.leaf]))
             Throttle(k) == FlattenSeq([i \in DOMAIN io.rates[k] |->
                              Put("rate", [key |-> <<k, io.rates[k][i].dev>>, val |-> io.rates[k][i].rate])])
             Weights == FlattenSeq([i \in DOMAIN io.devices |-> Weigh(io.devices[i].dev, io.devices[i])])
  <1>2. ASSUME NEW f \in BlkioFiles, NEW v \in Values(f) PROVE Put(f, v) \in Seq(Puts(BlkioFiles))
    <2>1. [do |-> do, file |-> f, val |-> v] \in Puts(BlkioFiles) BY DEF Puts
    <2>2. QED BY <2>1
  <1> HIDE DEF Put
  <1>3. ASSUME NEW d \in Nat, NEW w, w.weight \in Opt(Nat), w.leaf \in Opt(Nat)
        PROVE  Weigh(d, w) \in Seq(Puts(BlkioFiles))
    <2>1. w.weight # none => [key |-> d, val |-> w.weight] \in Values("weight")
      BY <1>3, ValuesDef DEF Opt
    <2>2. w.leaf # none => [key |-> d, val |-> w.leaf] \in Values("leaf") BY <1>3, ValuesDef DEF Opt
    <2>3. Given(w.weight, Put("weight", [key |-> d, val |-> w.weight])) \in Seq(Puts(BlkioFiles))
      BY <1>2, <2>1, GivenType DEF BlkioFiles
    <2>4. Given(w.leaf, Put("leaf", [key |-> d, val |-> w.leaf])) \in Seq(Puts(BlkioFiles))
      BY <1>2, <2>2, GivenType DEF BlkioFiles
    <2>5. QED BY <2>3, <2>4, Concat
  <1>4. ASSUME NEW k \in Rates PROVE Throttle(k) \in Seq(Puts(BlkioFiles))
    <2>1. io.rates[k] \in Seq([dev : Nat, rate : Nat]) OBVIOUS
    <2>2. ASSUME NEW i \in DOMAIN io.rates[k]
          PROVE  Put("rate", [key |-> <<k, io.rates[k][i].dev>>, val |-> io.rates[k][i].rate])
                   \in Seq(Puts(BlkioFiles))
      <3>1. io.rates[k][i] \in [dev : Nat, rate : Nat] BY <2>1, Elements
      <3>2. [key |-> <<k, io.rates[k][i].dev>>, val |-> io.rates[k][i].rate] \in Values("rate")
        BY <3>1, ValuesDef
      <3>3. QED BY <1>2, <3>2 DEF BlkioFiles
    <2> DEFINE list == [i \in DOMAIN io.rates[k] |->
                 Put("rate", [key |-> <<k, io.rates[k][i].dev>>, val |-> io.rates[k][i].rate])]
    <2>3. list \in [DOMAIN io.rates[k] -> Seq(Puts(BlkioFiles))] BY <2>2
    <2> HIDE DEF list
    <2>4. list \in Seq(Seq(Puts(BlkioFiles)))
      <3> DEFINE ds == io.rates[k]
      <3>1. ds \in Seq([dev : Nat, rate : Nat]) /\ list \in [DOMAIN ds -> Seq(Puts(BlkioFiles))]
        BY <2>1, <2>3
      <3> HIDE DEF ds
      <3>2. QED BY <3>1, Mapped
    <2>5. FlattenSeq(list) \in Seq(Puts(BlkioFiles)) BY <2>4, FlattenType
    <2>6. QED BY <2>5 DEF list
  <1>5. Weights \in Seq(Puts(BlkioFiles))
    <2>1. io.devices \in Seq([dev : Nat \ {0}, weight : Opt(Nat), leaf : Opt(Nat)]) OBVIOUS
    <2>2. ASSUME NEW i \in DOMAIN io.devices
          PROVE  Weigh(io.devices[i].dev, io.devices[i]) \in Seq(Puts(BlkioFiles))
      <3>1. io.devices[i] \in [dev : Nat \ {0}, weight : Opt(Nat), leaf : Opt(Nat)] BY <2>1, Elements
      <3> HIDE DEF Weigh
      <3>2. QED BY <1>3, <3>1
    <2> HIDE DEF Weigh
    <2> DEFINE list == [i \in DOMAIN io.devices |-> Weigh(io.devices[i].dev, io.devices[i])]
    <2>3. list \in [DOMAIN io.devices -> Seq(Puts(BlkioFiles))] BY <2>2
    <2> HIDE DEF list
    <2>4. list \in Seq(Seq(Puts(BlkioFiles)))
      <3> DEFINE ds == io.devices
      <3>1. /\ ds \in Seq([dev : Nat \ {0}, weight : Opt(Nat), leaf : Opt(Nat)])
            /\ list \in [DOMAIN ds -> Seq(Puts(BlkioFiles))]
        BY <2>1, <2>3
      <3> HIDE DEF ds
      <3>2. QED BY <3>1, Mapped
    <2>5. FlattenSeq(list) \in Seq(Puts(BlkioFiles)) BY <2>4, FlattenType
    <2>6. QED BY <2>5 DEF list
  <1>6. Weigh(0, io) \in Seq(Puts(BlkioFiles)) BY <1>3
  <1>7. Blkio(io, do) = Weigh(0, io) \o Weights
          \o Throttle("rbps") \o Throttle("wbps") \o Throttle("riops") \o Throttle("wiops")
    BY DEF Blkio, Put
  <1>8. \A k \in {"rbps", "wbps", "riops", "wiops"} : Throttle(k) \in Seq(Puts(BlkioFiles))
    BY <1>4 DEF Rates
  <1> HIDE DEF Weigh, Weights, Throttle
  <1>9. QED BY <1>5, <1>6, <1>7, <1>8, Concat

\* Steps that write only files of F and fail only with errors of E.
Plain(F, E) == Puts(F) \union CpuReads \union Failures(E)

LEMMA PlainMonotonic ==
  ASSUME NEW F, NEW G, NEW D, NEW E, F \subseteq G, D \subseteq E
  PROVE  Plain(F, D) \subseteq Plain(G, E) /\ Puts(F) \subseteq Plain(G, E) /\ Failures(D) \subseteq Plain(G, E)
  <1>1. Puts(F) \subseteq Puts(G) BY PutsMonotonic
  <1>2. Failures(D) \subseteq Failures(E) BY DEF Failures
  <1>3. QED BY <1>1, <1>2 DEF Plain

Rules == [rule : {"allow", "deny", "typeless"}, devs : SUBSET Devices]

LEMMA NetworkPieces ==
  ASSUME NEW r \in Request
  PROVE  /\ SetNetwork(r) \in Seq(Plain({"class", "prio"}, Gone))
         /\ SetDevices(r) \in Seq(Plain({"allow", "deny"}, Gone))
         /\ Given(r.class, Write("class", r.class)) \in Seq(Puts({"class"}))
         /\ ApplyNetPrio(r) \in Seq(Puts({"prio"}))
  <1>1. \A F : Fail("missing") \in Seq(Plain(F, Gone)) BY DEF Fail, Plain, Failures, Gone
  <1>2. Given(r.class, Write("class", r.class)) \in Seq(Puts({"class"}))
    <2>1. r.class # none => r.class \in Values("class") BY ValuesDef DEF Request, Opt, Numbers
    <2>2. QED BY <2>1, PutType
  <1>3. ASSUME NEW do \in {"write", "update"} PROVE Given(r.prios, Priorities(r, do)) \in Seq(Puts({"prio"}))
    <2>1. SUFFICES ASSUME r.prios # none PROVE Priorities(r, do) \in Seq(Puts({"prio"})) BY GivenType
    <2>2. r.prios \in Seq([name : STRING, prio : Nat]) BY <2>1 DEF Request, Opt
    <2> DEFINE ps == r.prios
               list == [i \in DOMAIN ps |->
                          [do |-> do, file |-> "prio", val |-> [key |-> ps[i].name, val |-> ps[i].prio]]]
    <2>3. ps \in Seq([name : STRING, prio : Nat]) BY <2>2
    <2>4. Priorities(r, do) = list BY DEF Priorities
    <2> HIDE DEF ps
    <2>5. ASSUME NEW i \in DOMAIN ps PROVE list[i] \in Puts({"prio"})
      <3>1. ps[i] \in [name : STRING, prio : Nat] BY <2>3, Elements
      <3>2. [key |-> ps[i].name, val |-> ps[i].prio] \in Values("prio") BY <3>1, ValuesDef
      <3>3. QED BY <3>2 DEF Puts
    <2>6. list \in [DOMAIN ps -> Puts({"prio"})] BY <2>5
    <2> HIDE DEF list
    <2>7. QED BY <2>3, <2>4, <2>6, Mapped
  <1>4. ApplyNetPrio(r) \in Seq(Puts({"prio"})) BY <1>3 DEF ApplyNetPrio
  <1>5. SetNetwork(r) \in Seq(Plain({"class", "prio"}, Gone))
    <2> DEFINE P == Plain({"class", "prio"}, Gone)
               cls == Given(r.class, IF v2 THEN Fail("missing") ELSE Write("class", r.class))
               prs == Given(r.prios, IF v2 THEN Fail("missing") ELSE Priorities(r, "write"))
    <2>1. Puts({"class"}) \subseteq P /\ Puts({"prio"}) \subseteq P BY PlainMonotonic
    <2>2. Fail("missing") \in Seq(P) BY <1>1
    <2>3. Given(r.class, Write("class", r.class)) \in Seq(P) /\ Given(r.prios, Priorities(r, "write")) \in Seq(P)
      BY <1>2, <1>3, <2>1, Wider
    <2> HIDE DEF P
    <2>4. cls \in Seq(P) /\ prs \in Seq(P) BY <2>2, <2>3 DEF Given
    <2>5. SetNetwork(r) = cls \o prs BY DEF SetNetwork
    <2> HIDE DEF cls, prs
    <2>6. SetNetwork(r) \in Seq(P) BY <2>4, <2>5, Concat
    <2>7. QED BY <2>6 DEF P
  <1>6. SetDevices(r) \in Seq(Plain({"allow", "deny"}, Gone))
    <2> DEFINE P == Plain({"allow", "deny"}, Gone)
               ds == r.devices
               list == [i \in DOMAIN ds |-> Rule(ds[i])]
    <2>1. ds # none => ds \in Seq(Rules) BY DEF Request, Opt, Rules
    <2>2. SetDevices(r) \in {<< >>, Fail("missing")} \/ (ds # none /\ SetDevices(r) = list)
      BY DEF SetDevices, Given
    <2> HIDE DEF ds
    <2>3. ASSUME ds # none, NEW i \in DOMAIN ds PROVE list[i] \in P
      <3>1. ds[i] \in Rules BY <2>1, <2>3, Elements
      <3>2. CASE ds[i].rule = "typeless"
        <4>1. Rule(ds[i]) \in Failures(Gone) BY <3>2 DEF Rule, Failures, Gone
        <4>2. QED BY <4>1 DEF Plain
      <3>3. CASE ds[i].rule # "typeless"
        <4>1. ds[i].devs \in Values(ds[i].rule) /\ ds[i].rule \in {"allow", "deny"}
          BY <3>1, <3>3, ValuesDef DEF Rules
        <4>2. Rule(ds[i]) \in Puts({"allow", "deny"}) BY <3>3, <4>1, PutsType DEF Rule
        <4>3. QED BY <4>2 DEF Plain
      <3>4. QED BY <3>2, <3>3
    <2> HIDE DEF P
    <2>4. ds # none => list \in [DOMAIN ds -> P] BY <2>3
    <2> HIDE DEF list
    <2>5. ds # none => list \in Seq(P) BY <2>1, <2>4, Mapped
    <2>6. << >> \in Seq(P) /\ Fail("missing") \in Seq(P) BY <1>1 DEF P
    <2>7. SetDevices(r) \in Seq(P) BY <2>2, <2>5, <2>6
    <2>8. QED BY <2>7 DEF P
  <1>7. QED BY <1>2, <1>4, <1>5, <1>6

Limits == {"mem", "swap", "soft"}
Others == Names \ Limits

\* FsManager::set writes the limits of memory only where it has read the state of
\* the memory controller.
LEMMA SetShape ==
  ASSUME NEW r \in Request
  PROVE  \E a, b \in Seq(Plain(Others, Gone)) : Set(r) = a \o ReadMemory \o b
  <1> DEFINE P == Plain(Others, Gone)
  <1>1. SetCpuset(r) \in Seq(P) /\ SetPids(r) \in Seq(P) /\ SetHuge(r) \in Seq(P)
    <2>1. {"cpus", "mems"} \subseteq Others /\ {"pids"} \subseteq Others /\ {"huge"} \subseteq Others
      BY DEF Others, Names, Limits
    <2>2. /\ Puts({"cpus", "mems"}) \subseteq P /\ Puts({"pids"}) \subseteq P /\ Puts({"huge"}) \subseteq P
      BY <2>1, PlainMonotonic
    <2>3. QED BY <2>2, Pieces, Wider
  <1>2. SetCpu(r) \in Seq(P)
    <2>1. CpuSteps \subseteq P
      <3>1. CpuFiles \subseteq Others BY DEF Others, Names, Limits, CpuFiles
      <3>2. Puts(CpuFiles) \subseteq P BY <3>1, PlainMonotonic
      <3>3. QED BY <3>2 DEF CpuSteps, Plain
    <2>2. QED BY <2>1, CpuPieces, Wider
  <1>3. SetBlkio(r) \in Seq(P)
    <2>1. BlkioFiles \subseteq Others BY DEF Others, Names, Limits, BlkioFiles
    <2>2. Puts(BlkioFiles) \subseteq P BY <2>1, PlainMonotonic
    <2>3. QED BY <2>2, BlkioPieces, Wider DEF SetBlkio
  <1>4. SetNetwork(r) \in Seq(P) /\ SetDevices(r) \in Seq(P)
    <2>1. /\ Plain({"class", "prio"}, Gone) \subseteq P
          /\ Plain({"allow", "deny"}, Gone) \subseteq P
      BY PlainMonotonic DEF Others, Names, Limits
    <2>2. QED BY <2>1, NetworkPieces, Wider
  <1> DEFINE a == SetCpuset(r) \o SetCpu(r)
             b == SetPids(r) \o SetBlkio(r) \o SetHuge(r) \o SetNetwork(r) \o SetDevices(r)
             S == P \union MemoryReads
  <1>5. a \in Seq(P) /\ b \in Seq(P)
    <2> HIDE DEF P
    <2>1. QED BY <1>1, <1>2, <1>3, <1>4, Concat
  <1>6. Set(r) = a \o ReadMemory \o b
    <2>1. ReadMemory \in Seq(S) BY DEF ReadMemory, MemoryReads
    <2> HIDE DEF P
    <2>2. /\ SetCpuset(r) \in Seq(S) /\ SetCpu(r) \in Seq(S) /\ SetPids(r) \in Seq(S) /\ SetBlkio(r) \in Seq(S)
          /\ SetHuge(r) \in Seq(S) /\ SetNetwork(r) \in Seq(S) /\ SetDevices(r) \in Seq(S)
      BY <1>1, <1>2, <1>3, <1>4, Wider
    <2> HIDE DEF S
    <2>3. \A s, t, u \in Seq(S) : (s \o t) \o u = s \o (t \o u) /\ s \o t \in Seq(S) OBVIOUS
    <2> DEFINE x == SetCpuset(r) \o SetCpu(r) \o ReadMemory
    <2>4. x \in Seq(S) BY <2>1, <2>2, <2>3
    <2>5. Set(r) = x \o SetPids(r) \o SetBlkio(r) \o SetHuge(r) \o SetNetwork(r) \o SetDevices(r)
      BY DEF Set
    <2> HIDE DEF x
    <2> DEFINE y1 == SetPids(r) \o SetBlkio(r)
               y2 == y1 \o SetHuge(r)
               y3 == y2 \o SetNetwork(r)
    <2>6. x \o SetPids(r) \o SetBlkio(r) = x \o y1 /\ y1 \in Seq(S)
      <3>1. SetPids(r) \in Seq(S) /\ SetBlkio(r) \in Seq(S) BY <2>2
      <3>2. QED BY <2>3, <2>4, <3>1
    <2> HIDE DEF y1
    <2>7. x \o y1 \o SetHuge(r) = x \o y2 /\ y2 \in Seq(S)
      <3>1. SetHuge(r) \in Seq(S) /\ y1 \in Seq(S) BY <2>2, <2>6
      <3>2. x \o y1 \o SetHuge(r) = x \o (y1 \o SetHuge(r)) BY <2>4, <3>1, Shift
      <3>3. QED BY <3>1, <3>2, Concat
    <2> HIDE DEF y2
    <2>8. x \o y2 \o SetNetwork(r) = x \o y3 /\ y3 \in Seq(S)
      <3>1. SetNetwork(r) \in Seq(S) /\ y2 \in Seq(S) BY <2>2, <2>7
      <3>2. x \o y2 \o SetNetwork(r) = x \o (y2 \o SetNetwork(r)) BY <2>4, <3>1, Shift
      <3>3. QED BY <3>1, <3>2, Concat
    <2> HIDE DEF y3
    <2>9. x \o y3 \o SetDevices(r) = x \o (y3 \o SetDevices(r))
      <3>1. SetDevices(r) \in Seq(S) /\ y3 \in Seq(S) BY <2>2, <2>8
      <3>2. QED BY <2>4, <3>1, Shift
    <2>10. b = y3 \o SetDevices(r) BY DEF y1, y2, y3
    <2>11. Set(r) = x \o b BY <2>5, <2>6, <2>7, <2>8, <2>9, <2>10
    <2>12. QED BY <2>11 DEF x
  <1>7. QED BY <1>5, <1>6

\* Sizes of a request.
LEMMA SizeTypes ==
  ASSUME NEW r \in Request
  PROVE  /\ OrZero(r.limit) \in Int /\ OrZero(r.limit) <= NoLimit
         /\ OrZero(r.swap) \in Int /\ OrZero(r.swap) <= NoLimit
         /\ r.reservation # none => r.reservation \in Unlimited .. NoLimit
         /\ r.limit # none => r.limit = OrZero(r.limit)
  <1>1. 0 \in Int /\ 0 <= NoLimit BY TopAssumption DEF NoLimit
  <1>2. QED BY <1>1 DEF Request, Opt, OrZero

\* set_memory_v2 either fails before it writes or writes the limits.
LEMMA MemoryV2Shape ==
  ASSUME NEW r \in Request
  PROVE  MemoryV2(r) = Fail("invalid") \/ MemoryV2(r) \in Seq(Puts(Limits))
  <1> DEFINE limit == OrZero(r.limit)
             swap == OrZero(r.swap)
             converted == MemorySwap(swap, limit)
  <1>1. limit \in Int /\ swap \in Int /\ limit <= NoLimit /\ swap <= NoLimit BY SizeTypes
  <1>2. converted # none => converted \in Values("swap")
    <2> HIDE DEF limit, swap
    <2>1. Values("swap") = {n \in Int : n <= NoLimit} BY ValuesDef DEF Sized
    <2>2. Unlimited \in Int /\ Unlimited <= NoLimit BY TopAssumption DEF Unlimited, NoLimit
    <2>3. NoLimit \in Int BY TopAssumption DEF NoLimit
    <2>4. converted # none => converted \in Int /\ converted <= NoLimit
      BY <1>1, <2>2, <2>3 DEF MemorySwap
    <2>5. QED BY <2>1, <2>4
  <1> HIDE DEF limit, swap, converted
  <1>3. CASE converted = none BY <1>3 DEF MemoryV2, limit, swap, converted
  <1>4. CASE converted # none
    <2> DEFINE lim == IF limit # 0 THEN Write("mem", limit) ELSE << >>
               res == Given(r.reservation, Write("soft", r.reservation))
    <2>1. Write("swap", converted) \in Seq(Puts(Limits)) BY <1>2, <1>4, WriteType DEF Limits
    <2>2. lim \in Seq(Puts(Limits))
      <3>1. limit \in Values("mem") BY <1>1, ValuesDef DEF Sized
      <3>2. Write("mem", limit) \in Seq(Puts(Limits)) BY <3>1, WriteType DEF Limits
      <3>3. QED BY <3>2
    <2>3. res \in Seq(Puts(Limits))
      <3>1. r.reservation # none => r.reservation \in Values("soft") BY SizeTypes, ValuesDef
      <3>2. QED BY <3>1, PutType DEF Limits
    <2>4. MemoryV2(r) \in {<< >>, Fail("invalid"), Write("swap", converted) \o lim \o res}
      BY DEF MemoryV2, limit, swap, converted
    <2> HIDE DEF lim, res
    <2>5. Write("swap", converted) \o lim \o res \in Seq(Puts(Limits)) BY <2>1, <2>2, <2>3, Concat
    <2>6. << >> \in Seq(Puts(Limits)) OBVIOUS
    <2>7. QED BY <2>4, <2>5, <2>6
  <1>5. QED BY <1>3, <1>4

\* set_memory_v1: the two limits, then the other files.
LEMMA MemoryV1Shape ==
  ASSUME NEW r \in Request
  PROVE  /\ LimitsV1(OrZero(r.limit), OrZero(r.swap), file.mem) \in Seq(Puts(Sized))
         /\ \E rest \in Seq(Plain(Names \ Sized, {"invalid"})) :
              MemoryV1(r) = LimitsV1(OrZero(r.limit), OrZero(r.swap), file.mem) \o rest
  <1> DEFINE first == LimitsV1(OrZero(r.limit), OrZero(r.swap), file.mem)
             limit == OrZero(r.limit)
             swap == IF limit = Unlimited /\ OrZero(r.swap) = 0 THEN Unlimited ELSE OrZero(r.swap)
             SetLimit == IF limit # 0 THEN Write("mem", limit) ELSE << >>
             SetSwap == IF swap # 0 THEN Write("swap", swap) ELSE << >>
             P == Plain(Names \ Sized, {"invalid"})
  <1>1. first \in Seq(Puts(Sized))
    <2>1. limit \in Values("mem") /\ swap \in Values("swap")
      <3>1. Unlimited \in Int /\ Unlimited <= NoLimit BY TopAssumption DEF Unlimited, NoLimit
      <3>2. QED BY <3>1, SizeTypes, ValuesDef DEF Sized
    <2> HIDE DEF limit, swap
    <2>2. Write("mem", limit) \in Seq(Puts(Sized)) /\ Write("swap", swap) \in Seq(Puts(Sized))
      BY <2>1, WriteType DEF Sized
    <2>3. SetLimit \in Seq(Puts(Sized)) /\ SetSwap \in Seq(Puts(Sized)) BY <2>2
    <2>4. first \in {SetSwap \o SetLimit, SetLimit \o SetSwap} BY DEF LimitsV1, limit, swap
    <2> HIDE DEF SetLimit, SetSwap, first
    <2>5. QED BY <2>3, <2>4, Concat
  <1> HIDE DEF first
  <1> DEFINE soft == Given(r.reservation, Write("soft", r.reservation))
             oom == IF r.oom THEN Write("oom", 1) ELSE << >>
             swp == Given(r.swappiness, IF r.swappiness <= 100
                             THEN Write("swappiness", r.swappiness) ELSE Fail("invalid"))
  <1>2. soft \in Seq(P) /\ oom \in Seq(P) /\ swp \in Seq(P)
    <2> DEFINE F == {"soft", "oom", "swappiness"}
    <2>1. F \subseteq Names \ Sized BY DEF Names, Sized
    <2>2. Puts(F) \subseteq P BY <2>1, PlainMonotonic
    <2>3. /\ r.reservation # none => r.reservation \in Values("soft")
          /\ 1 \in Values("oom")
          /\ r.swappiness # none => r.swappiness \in Values("swappiness")
      <3>1. r.swappiness # none => r.swappiness \in Int BY DEF Request, Opt
      <3>2. Values("soft") = Unlimited .. NoLimit /\ Values("oom") = Int /\ Values("swappiness") = Int
        BY ValuesDef DEF Numbers
      <3>3. r.reservation # none => r.reservation \in Unlimited .. NoLimit BY SizeTypes
      <3>4. r.reservation # none => r.reservation \in Values("soft") BY <3>2, <3>3
      <3>5. 1 \in Values("oom") BY <3>2
      <3>6. r.swappiness # none => r.swappiness \in Values("swappiness") BY <3>1, <3>2
      <3>7. QED BY <3>4, <3>5, <3>6
    <2>4. "soft" \in F /\ "oom" \in F /\ "swappiness" \in F OBVIOUS
    <2> HIDE DEF F
    <2>5. soft \in Seq(Puts(F)) BY <2>3, <2>4, PutType
    <2>6. Write("oom", 1) \in Seq(Puts(F)) BY <2>3, <2>4, WriteType
    <2>7. r.swappiness # none => Write("swappiness", r.swappiness) \in Seq(Puts(F))
      BY <2>3, <2>4, WriteType
    <2>11. Fail("invalid") \in Seq(P) BY DEF Fail, Plain, Failures
    <2>12. << >> \in Seq(P) OBVIOUS
    <2> HIDE DEF P
    <2>8. /\ soft \in Seq(P) /\ oom \in Seq(P)
          /\ r.swappiness # none => Write("swappiness", r.swappiness) \in Seq(P)
      BY <2>2, <2>5, <2>6, <2>7, <2>12, Wider
    <2>9. swp \in Seq(P) BY <2>8, <2>11, <2>12 DEF Given
    <2>10. QED BY <2>8, <2>9
  <1>3. MemoryV1(r) = first \o soft \o oom \o swp BY DEF MemoryV1, first
  <1> HIDE DEF P, soft, oom, swp
  <1> DEFINE rest == soft \o oom \o swp
             S == Puts(Sized) \union P
  <1>4. rest \in Seq(P) BY <1>2, Concat
  <1>5. first \in Seq(S) /\ soft \in Seq(S) /\ oom \in Seq(S) /\ swp \in Seq(S)
    BY <1>1, <1>2, Wider
  <1> HIDE DEF S
  <1>6. first \o soft \o oom = first \o (soft \o oom) BY <1>5, Shift
  <1>7. soft \o oom \in Seq(S) BY <1>5, Concat
  <1>8. first \o (soft \o oom) \o swp = first \o rest BY <1>5, <1>7, Shift
  <1>9. MemoryV1(r) = first \o rest BY <1>3, <1>6, <1>8
  <1>10. QED BY <1>1, <1>4, <1>9 DEF first, P

\* A list with a step singled out; its first step and the others.
With(a, x, b) == a \o <<x>> \o b

LEMMA HeadTail == ASSUME NEW S, NEW s \in Seq(S), s # << >> PROVE Head(s) \in S /\ Tail(s) \in Seq(S)
  OBVIOUS

LEMMA WithFirst ==
  ASSUME NEW A, NEW b \in Seq(A), NEW x
  PROVE  Head(With(<< >>, x, b)) = x /\ Tail(With(<< >>, x, b)) = b
  BY DEF With

LEMMA WithLater ==
  ASSUME NEW A, NEW B, NEW a \in Seq(A), NEW b \in Seq(B), NEW x, a # << >>
  PROVE  Head(With(a, x, b)) = Head(a) /\ Tail(With(a, x, b)) = With(Tail(a), x, b)
  <1> DEFINE S == A \union B \union {x}
             w == a \o <<x>> \o b
             s == Tail(w)
             t == Tail(a) \o <<x>> \o b
  <1>1. a \in Seq(S) /\ b \in Seq(S) /\ <<x>> \in Seq(S) BY Wider
  <1> HIDE DEF S
  <1>2. Head(w) = Head(a) BY <1>1
  <1>3. Tail(a) \in Seq(S) BY <1>1
  <1>4. s \in Seq(S) /\ t \in Seq(S) BY <1>1, <1>3
  <1>5. Len(s) = Len(t) BY <1>1, <1>3
  <1>6. ASSUME NEW i \in 1 .. Len(s) PROVE s[i] = t[i] BY <1>1, <1>3
  <1>7. s = t
    <2> HIDE DEF s, t
    <2>1. QED BY <1>4, <1>5, <1>6, SeqEqual
  <1>8. QED BY <1>2, <1>7 DEF With

LEMMA WithNotEmpty ==
  ASSUME NEW A, NEW B, NEW a \in Seq(A), NEW b \in Seq(B), NEW x
  PROVE  With(a, x, b) # << >>
  BY DEF With

LEMMA WithAfter ==
  ASSUME NEW A, NEW t \in Seq(A), NEW a \in Seq(A), NEW b \in Seq(A), NEW x
  PROVE  t \o With(a, x, b) = With(t \o a, x, b)
  BY DEF With

-----------------------------------------------------------------------------
(***************************************************************************)
(* Cgroup::apply.                                                          *)
(***************************************************************************)

Applied == Plain(Names, Gone) \union TestSteps

\* Steps that leave v in f: they write other files, and cpu.max only with the
\* half that it has.
Calm(f, v) ==
  {s \in Applied :
     /\ s.do \in {"write", "update"} => s.file # f
     /\ s.do \in {"write", "update"} /\ s.file = "cpu.max" =>
          (f = "quota" => s.val.quota = v) /\ (f = "period" => s.val.period = v)
     /\ s.do = "cpu.max" => (f = "quota" => s.quota = none) /\ (f = "period" => s.period = none)}

\* The list tests that f holds v, and nothing after the test disturbs f.
Settles(s, f, v) ==
  \E a \in Seq(Applied), b \in Seq(Calm(f, v)) :
    s = With(a, [do |-> "test", file |-> f, val |-> v], b)

\* The part of a controller that writes f and tests it.
Updated(r, f) ==
  CASE f = "shares" -> UpdateAndTest(r.shares, Write("shares", r.shares), "shares")
    [] f = "period" -> UpdateAndTest(r.period, SetPeriod(r.period), "period")
    [] f = "quota" -> UpdateAndTest(r.quota, SetQuota(r.quota), "quota")
    [] f = "class" -> UpdateAndTest(r.class, Write("class", r.class), "class")
    [] f = "pids" -> UpdateAndTest(r.pids, Write("pids", r.pids), "pids")
    [] f = "huge" -> UpdateAndTest(r.huge, Update("huge", r.huge), "huge")

LEMMA PutsCalm ==
  ASSUME NEW f \in Tested, NEW v, NEW F, F \subseteq Names \ {f, "cpu.max"}
  PROVE  Puts(F) \subseteq Calm(f, v) /\ Failures(Gone) \subseteq Calm(f, v)
  <1>1. F \subseteq Names OBVIOUS
  <1>2. Puts(F) \subseteq Applied /\ Failures(Gone) \subseteq Applied
    BY <1>1, PlainMonotonic DEF Applied
  <1>3. \A s \in Puts(F) : s \in Calm(f, v)
    BY <1>2, PutsType DEF Calm
  <1>4. \A s \in Failures(Gone) : s \in Calm(f, v) BY <1>2 DEF Calm, Failures
  <1>5. QED BY <1>3, <1>4

\* What a controller writes and tests disturbs no other file.
LEMMA UpdatedType ==
  ASSUME NEW r \in Request, NEW g \in Tested
  PROVE  /\ Updated(r, g) \in Seq(Applied)
         /\ \A f \in Tested \ {g} : \A v : Updated(r, g) \in Seq(Calm(f, v))
         /\ r[g] # none => Settles(Updated(r, g), g, r[g])
  <1> DEFINE set == CASE g = "shares" -> Write("shares", r.shares)
                      [] g = "period" -> SetPeriod(r.period)
                      [] g = "quota" -> SetQuota(r.quota)
                      [] g = "class" -> Write("class", r.class)
                      [] g = "pids" -> Write("pids", r.pids)
                      [] g = "huge" -> Update("huge", r.huge)
             test == [do |-> "test", file |-> g, val |-> r[g]]
             Free == IF g = "quota" THEN [do : {"cpu.max"}, quota : Opt(Int), period : {none}]
                     ELSE IF g = "period" THEN [do : {"cpu.max"}, quota : {none}, period : Opt(Int)]
                     ELSE {}
             S == Puts({g}) \union Free \union {test}
  <1>1. CASE r[g] = none
    <2>1. Updated(r, g) = << >> BY <1>1 DEF Updated, UpdateAndTest, Given, Tested
    <2>2. QED BY <1>1, <2>1
  <1>2. CASE r[g] # none
    <2>1. Updated(r, g) = set \o <<test>> BY <1>2 DEF Updated, UpdateAndTest, Given, Tested, Test
    <2>2. r[g] \in Values(g) /\ r[g] \in Int
      <3>1. g = "huge" => r[g] \in 0 .. NoLimit BY <1>2 DEF Request, Opt
      <3>2. g # "huge" => r[g] \in Int BY <1>2 DEF Request, Opt, Tested
      <3>3. g # "huge" => g \in Numbers BY DEF Numbers, Tested
      <3>4. NoLimit \in Int BY TopAssumption DEF NoLimit
      <3>5. QED BY <3>1, <3>2, <3>3, <3>4, ValuesDef
    <2>3. set \in Seq(Puts({g}) \union Free)
      <3>1. Write(g, r[g]) \in Seq(Puts({g})) /\ Update(g, r[g]) \in Seq(Puts({g})) BY <2>2, WriteType
      <3>2. g = "quota" /\ v2 => set \in Seq(Free) BY <2>2 DEF SetQuota, ReadCpuMax, Opt
      <3>3. g = "period" /\ v2 => set \in Seq(Free) BY <2>2 DEF SetPeriod, ReadCpuMax, Opt
      <3>4. set \in {Write(g, r[g]), Update(g, r[g])} \/ (g \in {"quota", "period"} /\ v2)
        BY DEF Tested, SetQuota, SetPeriod
      <3> HIDE DEF set, Free
      <3>5. QED BY <3>1, <3>2, <3>3, <3>4, Wider
    <2> HIDE DEF set
    <2>4. Puts({g}) \subseteq Applied
      <3>1. {g} \subseteq Names BY DEF Tested, Names
      <3>2. QED BY <3>1, PlainMonotonic DEF Applied
    <2>5. Free \subseteq Applied BY DEF Applied, Plain, CpuReads, Opt
    <2>6. test \in Applied BY <2>2 DEF Applied, TestSteps
    <2>7. set \in Seq(Applied) BY <2>3, <2>4, <2>5, Wider
    <2>8. Settles(Updated(r, g), g, r[g])
      <3>1. set \o <<test>> = With(set, test, << >>) BY <2>6, <2>7 DEF With
      <3>2. << >> \in Seq(Calm(g, r[g])) OBVIOUS
      <3>3. QED BY <2>1, <2>7, <3>1, <3>2 DEF Settles
    <2>9. ASSUME NEW f \in Tested \ {g}, NEW v PROVE set \o <<test>> \in Seq(Calm(f, v))
      <3>1. Puts({g}) \subseteq Calm(f, v)
        <4>1. {g} \subseteq Names \ {f, "cpu.max"} BY DEF Tested, Names
        <4>2. QED BY <4>1, PutsCalm
      <3>2. Free \subseteq Calm(f, v) BY <2>5 DEF Calm
      <3>3. test \in Calm(f, v) BY <2>6 DEF Calm
      <3>4. set \in Seq(Calm(f, v)) BY <2>3, <3>1, <3>2, Wider
      <3> HIDE DEF test
      <3>5. QED BY <3>3, <3>4
    <2>10. QED BY <2>1, <2>6, <2>7, <2>8, <2>9
  <1>3. QED BY <1>1, <1>2

\* A part of apply that writes and tests the files G and disturbs no other one.
Part(s, r, G) ==
  /\ s \in Seq(Applied)
  /\ \A f \in Tested : /\ f \in G /\ r[f] # none => Settles(s, f, r[f])
                       /\ f \notin G => s \in Seq(Calm(f, r[f]))

LEMMA Join ==
  ASSUME NEW r, NEW s, NEW t, NEW G, NEW H, Part(s, r, G), Part(t, r, H), G \intersect H = {}
  PROVE  Part(s \o t, r, G \union H)
  <1>1. s \in Seq(Applied) /\ t \in Seq(Applied) BY DEF Part
  <1>2. s \o t \in Seq(Applied) BY <1>1, Concat
  <1>3. ASSUME NEW f \in Tested, f \in G \union H, r[f] # none PROVE Settles(s \o t, f, r[f])
    <2> DEFINE x == [do |-> "test", file |-> f, val |-> r[f]]
    <2>1. CASE f \in G
      <3>1. PICK a \in Seq(Applied), b \in Seq(Calm(f, r[f])) : s = With(a, x, b)
        BY <1>3, <2>1 DEF Part, Settles
      <3>2. t \in Seq(Calm(f, r[f])) BY <2>1 DEF Part
      <3>3. b \o t \in Seq(Calm(f, r[f])) BY <3>2, Concat
      <3> HIDE DEF x
      <3>4. s \o t = With(a, x, b \o t) BY <3>1, <3>2 DEF With
      <3>5. QED BY <3>3, <3>4 DEF Settles, x
    <2>2. CASE f \in H
      <3>1. PICK a \in Seq(Applied), b \in Seq(Calm(f, r[f])) : t = With(a, x, b)
        BY <1>3, <2>2 DEF Part, Settles
      <3>2. s \o a \in Seq(Applied) BY <1>1, Concat
      <3> HIDE DEF x
      <3>3. s \o t = With(s \o a, x, b) BY <1>1, <3>1 DEF With
      <3>4. QED BY <3>2, <3>3 DEF Settles, x
    <2>3. QED BY <1>3, <2>1, <2>2
  <1>4. ASSUME NEW f \in Tested, f \notin G \union H PROVE s \o t \in Seq(Calm(f, r[f]))
    BY <1>4, Concat DEF Part
  <1>5. QED BY <1>2, <1>3, <1>4 DEF Part

\* Writes of files that nothing tests.
LEMMA Aside ==
  ASSUME NEW r, NEW F, F \subseteq Names \ (Tested \union {"cpu.max"}),
         NEW s \in Seq(Plain(F, Gone) \ CpuReads)
  PROVE  Part(s, r, {})
  <1>1. Plain(F, Gone) \ CpuReads \subseteq Applied BY PlainMonotonic DEF Applied
  <1>2. ASSUME NEW f \in Tested PROVE s \in Seq(Calm(f, r[f]))
    <2>1. Plain(F, Gone) \ CpuReads \subseteq Calm(f, r[f])
      <3>1. F \subseteq Names \ {f, "cpu.max"} OBVIOUS
      <3>2. Puts(F) \subseteq Calm(f, r[f]) /\ Failures(Gone) \subseteq Calm(f, r[f])
        BY <3>1, PutsCalm
      <3>3. QED BY <3>2 DEF Plain
    <2>2. QED BY <2>1, Wider
  <1>3. s \in Seq(Applied) BY <1>1, Wider
  <1>4. QED BY <1>2, <1>3 DEF Part

LEMMA AsidePuts ==
  ASSUME NEW r, NEW F, F \subseteq Names \ (Tested \union {"cpu.max"}), NEW s \in Seq(Puts(F))
  PROVE  Part(s, r, {})
  <1>1. Puts(F) \subseteq Plain(F, Gone) \ CpuReads BY DEF Plain, Puts, CpuReads
  <1>2. s \in Seq(Plain(F, Gone) \ CpuReads) BY <1>1, Wider
  <1>3. QED BY <1>2, Aside

MemoryFiles == {"mem", "soft", "kmem", "swap", "tcp", "swappiness", "attr"}

LEMMA ApplyMemoryPieces ==
  ASSUME NEW r \in Request
  PROVE  ApplyMemory(r) \in Seq(Puts(MemoryFiles))
  <1> DEFINE P == Puts(MemoryFiles)
             t1 == Given(r.limit, Update("mem", r.limit))
             t2 == Given(r.reservation, Update("soft", r.reservation))
             t3 == Given(r.kmem, IF v2 THEN << >> ELSE Update("kmem", r.kmem))
             t4 == Given(r.swap, Update("swap", r.swap))
             t5 == Given(r.tcp, IF v2 THEN << >> ELSE Update("tcp", r.tcp))
             t6 == Given(r.swappiness, IF v2 THEN Update("swap", 0) ELSE Update("swappiness", r.swappiness))
  <1>1. /\ r.limit # none => r.limit \in Values("mem")
        /\ r.swap # none => r.swap \in Values("swap")
    <2>1. Values("mem") = {n \in Int : n <= NoLimit} /\ Values("swap") = {n \in Int : n <= NoLimit}
      BY ValuesDef DEF Sized
    <2>2. QED BY <2>1 DEF Request, Opt
  <1>2. /\ r.reservation # none => r.reservation \in Values("soft")
        /\ r.kmem # none => r.kmem \in Values("kmem")
        /\ r.tcp # none => r.tcp \in Values("tcp")
    <2>1. Values("soft") = Unlimited .. NoLimit /\ Values("kmem") = Unlimited .. NoLimit
          /\ Values("tcp") = Unlimited .. NoLimit
      BY ValuesDef
    <2>2. QED BY <2>1 DEF Request, Opt
  <1>3. /\ r.swappiness # none => r.swappiness \in Values("swappiness")
        /\ 0 \in Values("swap")
    <2>1. Values("swappiness") = Int /\ Values("swap") = {n \in Int : n <= NoLimit}
      BY ValuesDef DEF Sized, Numbers
    <2>2. 0 \in Values("swap") BY <2>1, TopAssumption DEF NoLimit
    <2>3. r.swappiness # none => r.swappiness \in Int BY DEF Request, Opt
    <2>4. QED BY <2>1, <2>2, <2>3
  <1>4. {"mem", "soft", "kmem", "swap", "tcp", "swappiness", "attr"} = MemoryFiles BY DEF MemoryFiles
  <1>5. t1 \in Seq(P) /\ t2 \in Seq(P) /\ t4 \in Seq(P) BY <1>1, <1>2, <1>4, PutType
  <1>6. << >> \in Seq(P) OBVIOUS
  <1>7. /\ r.kmem # none => Update("kmem", r.kmem) \in Seq(P)
        /\ r.tcp # none => Update("tcp", r.tcp) \in Seq(P)
        /\ r.swappiness # none => Update("swappiness", r.swappiness) \in Seq(P)
        /\ Update("swap", 0) \in Seq(P)
    BY <1>2, <1>3, <1>4, WriteType
  <1>8. Attributes(r) \in Seq(P)
    <2>1. Puts({"attr"}) \subseteq P BY <1>4, PutsMonotonic
    <2>2. QED BY <2>1, CpuPieces, Wider
  <1> HIDE DEF P
  <1>9. t3 \in Seq(P) /\ t5 \in Seq(P) /\ t6 \in Seq(P) BY <1>6, <1>7 DEF Given
  <1>10. ApplyMemory(r) = t1 \o t2 \o t3 \o t4 \o t5 \o t6 \o Attributes(r) BY DEF ApplyMemory
  <1> HIDE DEF t1, t2, t3, t4, t5, t6
  <1>11. t1 \o t2 \o t3 \o t4 \o t5 \o t6 \o Attributes(r) \in Seq(P) BY <1>5, <1>8, <1>9, Concat
  <1>12. QED BY <1>10, <1>11 DEF P

\* Cgroup::apply writes and tests the files of the controllers that do so.
LEMMA ApplyShape ==
  ASSUME NEW r \in Request
  PROVE  Part(Apply(r), r, IF v2 THEN Tested \ {"class"} ELSE Tested)
  <1>1. \A g \in Tested : Part(Updated(r, g), r, {g}) BY UpdatedType DEF Part
  <1>2. Part(ApplyCpuset(r), r, {})
    <2>1. {"cpus", "mems"} \subseteq Names \ (Tested \union {"cpu.max"}) BY DEF Names, Tested
    <2>2. QED BY <2>1, Pieces, AsidePuts
  <1>3. Part(Attributes(r), r, {})
    <2>1. {"attr"} \subseteq Names \ (Tested \union {"cpu.max"}) BY DEF Names, Tested
    <2>2. QED BY <2>1, CpuPieces, AsidePuts
  <1>4. Part(ApplyMemory(r), r, {})
    <2>1. MemoryFiles \subseteq Names \ (Tested \union {"cpu.max"}) BY DEF Names, Tested, MemoryFiles
    <2>2. QED BY <2>1, ApplyMemoryPieces, AsidePuts
  <1>5. Part(ApplyBlkio(r), r, {})
    <2>1. BlkioFiles \subseteq Names \ (Tested \union {"cpu.max"}) BY DEF Names, Tested, BlkioFiles
    <2>2. Part(Given(r.io, Blkio(r.io, "update")), r, {}) BY <2>1, BlkioPieces, AsidePuts
    <2>3. Part(Given(r.io, Blkio(r.io, "update")) \o Attributes(r), r, {} \union {})
      BY <1>3, <2>2, Join
    <2>4. QED BY <2>3 DEF ApplyBlkio
  <1>6. Part(ApplyNetPrio(r), r, {})
    <2>1. {"prio"} \subseteq Names \ (Tested \union {"cpu.max"}) BY DEF Names, Tested
    <2>2. QED BY <2>1, NetworkPieces, AsidePuts
  <1>7. ~v2 => Part(ApplyDevices(r), r, {})
    <2> DEFINE F == {"allow", "deny"}
    <2>1. F \subseteq Names \ (Tested \union {"cpu.max"}) BY DEF Names, Tested
    <2>2. SetDevices(r) \in Seq(Plain(F, Gone)) BY NetworkPieces
    <2>3. ASSUME ~v2 PROVE SetDevices(r) \in Seq(Plain(F, Gone) \ CpuReads)
      <3> DEFINE s == SetDevices(r)
                 Q == Plain(F, Gone) \ CpuReads
      <3>1. ASSUME NEW i \in DOMAIN s PROVE s[i] \in Q
        <4>1. s[i] \in Plain(F, Gone) BY <2>2, Elements
        <4>2. s[i].do \in {"write", "fail"} BY <2>3 DEF SetDevices, Rule, Given
        <4>3. QED BY <4>1, <4>2 DEF CpuReads
      <3>2. s \in [DOMAIN s -> Q]
        <4>1. s = [i \in DOMAIN s |-> s[i]] BY <2>2
        <4> HIDE DEF s, Q
        <4>2. QED BY <3>1, <4>1
      <3> HIDE DEF s, Q, F
      <3>3. s \in Seq(Q) BY <2>2, <3>2, Mapped DEF s
      <3>4. QED BY <3>3 DEF s, Q
    <2> HIDE DEF F
    <2>4. QED BY <2>1, <2>3, Aside DEF ApplyDevices
  <1>8. Part(ApplyCpu(r), r, {"shares", "period", "quota"})
    <2>1. /\ Part(Updated(r, "shares"), r, {"shares"}) /\ Part(Updated(r, "period"), r, {"period"})
          /\ Part(Updated(r, "quota"), r, {"quota"})
      BY <1>1 DEF Tested
    <2>2. Part(Updated(r, "shares") \o Updated(r, "period"), r, {"shares"} \union {"period"})
      BY <2>1, Join
    <2>3. Part(Updated(r, "shares") \o Updated(r, "period") \o Updated(r, "quota"), r,
               {"shares"} \union {"period"} \union {"quota"})
      BY <2>1, <2>2, Join
    <2>4. Part(Updated(r, "shares") \o Updated(r, "period") \o Updated(r, "quota") \o Attributes(r), r,
               {"shares"} \union {"period"} \union {"quota"} \union {})
      BY <1>3, <2>3, Join
    <2>5. {"shares"} \union {"period"} \union {"quota"} \union {} = {"shares", "period", "quota"} OBVIOUS
    <2>6. ApplyCpu(r) = Updated(r, "shares") \o Updated(r, "period") \o Updated(r, "quota") \o Attributes(r)
      BY DEF ApplyCpu, Updated
    <2>7. QED BY <2>4, <2>5, <2>6
  <1>9. /\ Part(ApplyHuge(r), r, {"huge"}) /\ Part(ApplyPids(r), r, {"pids"})
        /\ Part(ApplyNetCls(r), r, {"class"})
    BY <1>1 DEF Tested, Updated, ApplyHuge, ApplyPids, ApplyNetCls
  <1> DEFINE C == {"shares", "period", "quota"}
  <1>10. CASE v2
    <2>1. Part(ApplyCpuset(r) \o ApplyCpu(r), r, {} \union C) BY <1>2, <1>8, Join
    <2>2. Part(ApplyCpuset(r) \o ApplyCpu(r) \o ApplyBlkio(r), r, {} \union C \union {})
      BY <1>5, <2>1, Join
    <2>3. Part(ApplyCpuset(r) \o ApplyCpu(r) \o ApplyBlkio(r) \o ApplyMemory(r), r,
               {} \union C \union {} \union {})
      BY <1>4, <2>2, Join
    <2>4. Part(ApplyCpuset(r) \o ApplyCpu(r) \o ApplyBlkio(r) \o ApplyMemory(r) \o ApplyHuge(r), r,
               {} \union C \union {} \union {} \union {"huge"})
      BY <1>9, <2>3, Join
    <2>5. Part(Apply(r), r, {} \union C \union {} \union {} \union {"huge"} \union {"pids"})
      BY <1>9, <1>10, <2>4, Join DEF Apply
    <2>6. {} \union C \union {} \union {} \union {"huge"} \union {"pids"} = Tested \ {"class"}
      BY DEF Tested
    <2>7. QED BY <1>10, <2>5, <2>6
  <1>11. CASE ~v2
    <2> DEFINE s1 == ApplyBlkio(r) \o ApplyMemory(r)
               s2 == s1 \o ApplyPids(r)
               s3 == s2 \o ApplyCpuset(r)
               s4 == s3 \o ApplyCpu(r)
               s5 == s4 \o ApplyDevices(r)
               s6 == s5 \o ApplyNetCls(r)
               s7 == s6 \o ApplyNetPrio(r)
               s8 == s7 \o ApplyHuge(r)
    <2>1. Part(s1, r, {} \union {}) BY <1>4, <1>5, Join
    <2>2. Part(s2, r, {} \union {"pids"}) BY <1>9, <2>1, Join
    <2>3. Part(s3, r, {} \union {"pids"} \union {}) BY <1>2, <2>2, Join
    <2>4. Part(s4, r, {"pids"} \union C) BY <1>8, <2>3, Join
    <2>5. Part(s5, r, {"pids"} \union C) BY <1>7, <1>11, <2>4, Join
    <2>6. Part(s6, r, {"pids"} \union C \union {"class"}) BY <1>9, <2>5, Join
    <2>7. Part(s7, r, {"pids"} \union C \union {"class"}) BY <1>6, <2>6, Join
    <2>8. Part(s8, r, {"pids"} \union C \union {"class"} \union {"huge"}) BY <1>9, <2>7, Join
    <2>9. {"pids"} \union C \union {"class"} \union {"huge"} = Tested BY DEF Tested
    <2>10. Apply(r) = s8 BY <1>11 DEF Apply
    <2> HIDE DEF s8
    <2>11. QED BY <1>11, <2>8, <2>9, <2>10
  <1>12. QED BY <1>10, <1>11

-----------------------------------------------------------------------------
(***************************************************************************)
(* Types.                                                                  *)
(***************************************************************************)

\* What a file can hold.
Held(f) ==
  CASE f \in {"mem", "swap", "soft", "huge", "kmem", "tcp", "high", "min"} -> 0 .. NoLimit
    [] f \in Numbers -> Int
    [] f = "devices" -> SUBSET ParentDevices
    [] f = "cpus" -> {n \in Nat : ~v2 => n <= ParentCpus}
    [] f = "mems" -> {1}
    [] f = "weight" -> [Weighted -> 1 .. 1000]
    [] f = "leaf" -> [Weighted -> 10 .. 1000]
    [] f = "rate" -> [Rates \X Disks -> Int \ {0}]
    [] f = "prio" -> [Interfaces -> Nat]
    [] f = "freezer" -> {"thawed", "frozen"} \union (IF v2 THEN {} ELSE {"freezing"})

\* On v1 the limit of memory with swap is never below that of memory: the kernel
\* counts the usage in both, and refuses what would put them in the wrong order.
FilesOK(g) ==
  /\ DOMAIN g = Files /\ \A f \in Files : g[f] \in Held(f)
  /\ Unlimited <= g.rt_runtime /\ g.rt_runtime <= g.rt_period
  /\ ~v2 => g.mem <= g.swap

CallOK ==
  /\ call \in [op : {"idle"} \union Ops, r : Opt(Request), before : {call.before},
               todo : Seq(Steps), res : Results]
  /\ call.op # "idle" => call.r \in Request
  /\ call.op = "idle" => call.todo = << >>

TypeInv ==
  /\ v2 \in BOOLEAN /\ asks \subseteq Request
  /\ FilesOK(file)
  /\ usage \in 0 .. Top /\ usage <= file.mem /\ (~v2 => usage <= file.swap)
  /\ CallOK

LEMMA HeldDef ==
  /\ \A f \in {"mem", "swap", "soft", "huge", "kmem", "tcp", "high", "min"} : Held(f) = 0 .. NoLimit
  /\ \A f \in Numbers : Held(f) = Int
  /\ Held("devices") = SUBSET ParentDevices
  /\ Held("cpus") = {n \in Nat : ~v2 => n <= ParentCpus}
  /\ Held("mems") = {1}
  /\ Held("weight") = [Weighted -> 1 .. 1000]
  /\ Held("leaf") = [Weighted -> 10 .. 1000]
  /\ Held("rate") = [Rates \X Disks -> Int \ {0}]
  /\ Held("prio") = [Interfaces -> Nat]
  /\ Held("freezer") = {"thawed", "frozen"} \union (IF v2 THEN {} ELSE {"freezing"})
  BY DEF Held, Numbers

LEMMA HeldTables ==
  /\ Held("weight") = [Weighted -> 1 .. 1000]
  /\ Held("leaf") = [Weighted -> 10 .. 1000]
  /\ Held("rate") = [Rates \X Disks -> Int \ {0}]
  /\ Held("prio") = [Interfaces -> Nat]
  BY DEF Held, Numbers

LEMMA TypeInvImplies == TypeInv => TypeOK
  <1>1. SUFFICES ASSUME TypeInv PROVE TypeOK OBVIOUS
  <1>2. /\ v2 \in BOOLEAN /\ DOMAIN file = Files
        /\ usage \in 0 .. Top /\ usage <= file.mem /\ (~v2 => usage <= file.swap)
        /\ call.res \in Results /\ file.rt_runtime <= file.rt_period
    BY <1>1 DEF TypeInv, FilesOK, CallOK
  <1>3. \A f \in Files : file[f] \in Held(f) BY <1>1 DEF TypeInv, FilesOK
  <1>4. \A f \in {"mem", "swap", "soft", "huge", "kmem", "tcp", "high", "min"} : file[f] \in 0 .. NoLimit
    <2> DEFINE L == {"mem", "swap", "soft", "huge", "kmem", "tcp", "high", "min"}
    <2>1. L \subseteq Files BY DEF Files
    <2>2. \A f \in L : Held(f) = 0 .. NoLimit BY HeldDef
    <2> HIDE DEF L
    <2>3. \A f \in L : file[f] \in 0 .. NoLimit BY <1>3, <2>1, <2>2
    <2>4. QED BY <2>3 DEF L
  <1>5. \A f \in Numbers : file[f] \in Int
    <2>1. Numbers \subseteq Files BY DEF Numbers, Files
    <2>2. QED BY <1>3, <2>1, HeldDef
  <1>6. file.devices \subseteq ParentDevices /\ file.mems = 1
    BY <1>3, HeldDef DEF Files
  <1>7. file.cpus \in Nat /\ (~v2 => file.cpus <= ParentCpus) BY <1>3, HeldDef DEF Files
  <1>8. "weight" \in Files /\ "leaf" \in Files /\ "rate" \in Files /\ "prio" \in Files
    BY DEF Files, Keyed
  <1>9. /\ file.weight \in [Weighted -> 1 .. 1000] /\ file.leaf \in [Weighted -> 10 .. 1000]
        /\ file.rate \in [Rates \X Disks -> Int \ {0}] /\ file.prio \in [Interfaces -> Nat]
    <2>1. /\ file.weight \in Held("weight") /\ file.leaf \in Held("leaf")
          /\ file.rate \in Held("rate") /\ file.prio \in Held("prio")
      BY <1>3, <1>8
    <2>2. /\ Held("weight") = [Weighted -> 1 .. 1000] /\ Held("leaf") = [Weighted -> 10 .. 1000]
          /\ Held("rate") = [Rates \X Disks -> Int \ {0}] /\ Held("prio") = [Interfaces -> Nat]
      BY HeldTables
    <2> DEFINE W == [Weighted -> 1 .. 1000]
               L == [Weighted -> 10 .. 1000]
               R == [Rates \X Disks -> Int \ {0}]
               P == [Interfaces -> Nat]
    <2>3. Held("weight") = W /\ Held("leaf") = L /\ Held("rate") = R /\ Held("prio") = P
      BY <2>2, ZenonT(40)
    <2> HIDE DEF W, L, R, P
    <2>4. file.weight \in W /\ file.leaf \in L /\ file.rate \in R /\ file.prio \in P BY <2>1, <2>3
    <2>5. QED BY <2>4 DEF W, L, R, P
  <1>10. file.freezer \in {"thawed", "frozen"} \union (IF v2 THEN {} ELSE {"freezing"})
    BY <1>3, HeldDef DEF Files
  <1>11. QED BY <1>2, <1>4, <1>5, <1>6, <1>7, <1>8, <1>9, <1>10 DEF TypeOK

\* The calls consist of steps.
LEMMA CallsType ==
  ASSUME NEW r \in Request
  PROVE  /\ Set(r) \in Seq(Steps) /\ Apply(r) \in Seq(Steps) /\ SetMem(r) \in Seq(Steps)
         /\ r.state # none => SetFreezer(r) \in Seq(Steps)
         /\ MemoryV1(r) \in Seq(Steps) /\ MemoryV2(r) \in Seq(Steps)
  <1>1. \A F, E : F \subseteq Names /\ E \subseteq Errors => Plain(F, E) \subseteq Steps
    <2>1. SUFFICES ASSUME NEW F, NEW E, F \subseteq Names, E \subseteq Errors
                   PROVE  Plain(F, E) \subseteq Steps
      OBVIOUS
    <2>2. Plain(F, E) \subseteq Plain(Names, Errors) BY <2>1, PlainMonotonic
    <2>3. QED BY <2>2 DEF Plain, Steps
  <1>2. Set(r) \in Seq(Steps)
    <2>1. PICK a, b \in Seq(Plain(Others, Gone)) : Set(r) = a \o ReadMemory \o b BY SetShape
    <2>2. Plain(Others, Gone) \subseteq Steps BY <1>1 DEF Others, Errors
    <2>3. a \in Seq(Steps) /\ b \in Seq(Steps) BY <2>2, Wider
    <2>4. ReadMemory \in Seq(Steps) BY DEF ReadMemory, Steps, MemoryReads
    <2>5. QED BY <2>1, <2>3, <2>4, Concat
  <1>3. Apply(r) \in Seq(Steps)
    <2>1. Apply(r) \in Seq(Applied) BY ApplyShape DEF Part
    <2>2. Plain(Names, Gone) \subseteq Steps BY <1>1 DEF Errors
    <2>3. Applied \subseteq Steps BY <2>2 DEF Applied, Steps
    <2>4. QED BY <2>1, <2>3, Wider
  <1>4. SetMem(r) \in Seq(Steps)
    <2> DEFINE P == Plain(Names, Gone)
               Put(f, v) == Given(v, IF v2 THEN Write(f, v) ELSE Fail("missing"))
    <2>1. Fail("missing") \in Seq(P) BY DEF Fail, Plain, Failures, Gone
    <2>2. ASSUME NEW f \in Names, NEW v, v # none => v \in Values(f) PROVE Put(f, v) \in Seq(P)
      <3>1. v # none => Write(f, v) \in Seq(Puts(Names)) BY <2>2, WriteType
      <3>2. Puts(Names) \subseteq P BY PlainMonotonic
      <3>3. v # none => Write(f, v) \in Seq(P) BY <3>1, <3>2, Wider
      <3> HIDE DEF P
      <3>4. QED BY <2>1, <3>3 DEF Given
    <2>3. /\ r.high # none => r.high \in Values("high")
          /\ r.reservation # none => r.reservation \in Values("soft")
          /\ r.min # none => r.min \in Values("min")
      <3>1. Values("high") = Unlimited .. NoLimit /\ Values("soft") = Unlimited .. NoLimit
            /\ Values("min") = Unlimited .. NoLimit
        BY ValuesDef
      <3>2. QED BY <3>1 DEF Request, Opt
    <2>4. r.limit # none => r.limit \in Values("mem")
      <3>1. Values("mem") = {n \in Int : n <= NoLimit} BY ValuesDef DEF Sized
      <3>2. QED BY <3>1 DEF Request, Opt
    <2>5. "high" \in Names /\ "soft" \in Names /\ "mem" \in Names /\ "min" \in Names BY DEF Names
    <2> HIDE DEF Put
    <2>6. /\ Put("high", r.high) \in Seq(P) /\ Put("soft", r.reservation) \in Seq(P)
          /\ Put("mem", r.limit) \in Seq(P) /\ Put("min", r.min) \in Seq(P)
      BY <2>2, <2>3, <2>4, <2>5
    <2>7. SetMem(r) = Put("high", r.high) \o Put("soft", r.reservation) \o Put("mem", r.limit)
                        \o Put("min", r.min)
      BY DEF SetMem, Put
    <2>8. P \subseteq Steps BY <1>1 DEF Errors
    <2> HIDE DEF P
    <2>9. SetMem(r) \in Seq(P) BY <2>6, <2>7, Concat
    <2>10. QED BY <2>8, <2>9, Wider
  <1>5. r.state # none => SetFreezer(r) \in Seq(Steps)
    <2>1. Fail("invalid") \in Seq(Steps) BY DEF Fail, Steps, Failures, Errors
    <2>2. r.state # none => r.state \in {"thawed", "frozen", "freezing"} BY DEF Request, Opt
    <2>3. ASSUME r.state \in {"thawed", "frozen"} PROVE Write("freezer", r.state) \in Seq(Steps)
      <3>1. r.state \in Values("freezer") BY <2>3, ValuesDef
      <3>2. "freezer" \in Names BY DEF Names
      <3>3. Write("freezer", r.state) \in Seq(Puts(Names)) BY <3>1, <3>2, WriteType
      <3>4. Puts(Names) \subseteq Steps BY DEF Steps
      <3>5. QED BY <3>3, <3>4, Wider
    <2>4. QED BY <2>1, <2>2, <2>3 DEF SetFreezer
  <1>6. MemoryV1(r) \in Seq(Steps)
    <2>1. PICK rest \in Seq(Plain(Names \ Sized, {"invalid"})) :
            MemoryV1(r) = LimitsV1(OrZero(r.limit), OrZero(r.swap), file.mem) \o rest
      BY MemoryV1Shape
    <2>2. Plain(Names \ Sized, {"invalid"}) \subseteq Steps BY <1>1 DEF Errors
    <2>3. Puts(Sized) \subseteq Steps
      <3>1. Sized \subseteq Names BY DEF Sized, Names
      <3>2. QED BY <3>1, PutsMonotonic DEF Steps
    <2>4. LimitsV1(OrZero(r.limit), OrZero(r.swap), file.mem) \in Seq(Steps) BY <2>3, MemoryV1Shape, Wider
    <2>5. rest \in Seq(Steps) BY <2>2, Wider
    <2>6. QED BY <2>1, <2>4, <2>5, Concat
  <1>7. MemoryV2(r) \in Seq(Steps)
    <2>1. Fail("invalid") \in Seq(Steps) BY DEF Fail, Steps, Failures, Errors
    <2>2. Puts(Limits) \subseteq Steps
      <3>1. Limits \subseteq Names BY DEF Limits, Names
      <3>2. QED BY <3>1, PutsMonotonic DEF Steps
    <2>3. MemoryV2(r) \in Seq(Puts(Limits)) => MemoryV2(r) \in Seq(Steps) BY <2>2, Wider
    <2>4. QED BY <2>1, <2>3, MemoryV2Shape
  <1>8. QED BY <1>2, <1>3, <1>4, <1>5, <1>6, <1>7

LEMMA MinDef ==
  ASSUME NEW S \in SUBSET Nat, S # {}
  PROVE  Min(S) \in S /\ \A x \in S : Min(S) <= x
  <1>1. \E x \in S : \A y \in S : x <= y BY Least
  <1>2. QED BY <1>1 DEF Min

\* A write of a value of its type that the kernel takes.
LEMMA WrittenOK ==
  ASSUME v2 \in BOOLEAN, FilesOK(file), NEW f \in Names, NEW v \in Values(f), ~Refused(f, v)
  PROVE  FilesOK(Written(f, v))
  <1>1. /\ DOMAIN file = Files /\ (~v2 => file.mem <= file.swap)
        /\ Unlimited <= file.rt_runtime /\ file.rt_runtime <= file.rt_period
    BY DEF FilesOK
  <1>2. \A g \in Files : file[g] \in Held(g) BY DEF FilesOK
  <1>3. NoLimit \in Nat BY TopAssumption DEF NoLimit
  <1>4. ASSUME NEW g \in Files, NEW w \in Held(g), Written(f, v) = [file EXCEPT ![g] = w],
               g \notin {"mem", "swap", "rt_runtime", "rt_period"}
        PROVE  FilesOK(Written(f, v))
    BY <1>1, <1>2, <1>4 DEF FilesOK, Files
  <1>5. CASE f \in {"mem", "swap"}
    <2>1. v \in Int /\ v <= NoLimit /\ ~(v < Unlimited)
      <3>1. Values(f) = {n \in Int : n <= NoLimit} BY <1>5, ValuesDef DEF Sized
      <3>2. QED BY <1>5, <3>1 DEF Refused
    <2>2. Size(v) \in 0 .. NoLimit BY <1>3, <2>1 DEF Size, Unlimited
    <2>3. ~v2 => (f = "mem" => Size(v) <= file.swap) /\ (f = "swap" => Size(v) >= file.mem)
      <3>1. "mem" \in Files /\ "swap" \in Files BY DEF Files
      <3>2. file["mem"] \in Held("mem") /\ file["swap"] \in Held("swap") BY <1>2, <3>1
      <3>3. file.mem \in Int /\ file.swap \in Int BY <1>3, <3>2, HeldDef
      <3>4. QED BY <1>3, <2>2, <3>3 DEF Refused
    <2>4. Written(f, v) = [file EXCEPT ![f] = Size(v)] BY <1>5 DEF Written, Keyed
    <2>5. Held(f) = 0 .. NoLimit /\ f \in Files BY <1>5, HeldDef DEF Files
    <2> HIDE DEF Size
    <2>6. QED BY <1>1, <1>2, <1>5, <2>2, <2>3, <2>4, <2>5 DEF FilesOK, Files
  <1>6. CASE f \in {"soft", "kmem", "tcp", "high", "min"}
    <2>1. v \in Unlimited .. NoLimit BY <1>6, ValuesDef
    <2>2. Size(v) \in 0 .. NoLimit BY <1>3, <2>1 DEF Size, Unlimited
    <2>3. Written(f, v) = [file EXCEPT ![f] = Size(v)] BY <1>6 DEF Written, Keyed
    <2>4. Held(f) = 0 .. NoLimit /\ f \in Files /\ f \notin {"mem", "swap", "rt_runtime", "rt_period"}
      BY <1>6, HeldDef DEF Files
    <2>5. QED BY <1>4, <2>2, <2>3, <2>4
  <1>7. CASE f = "huge"
    <2>1. v \in 0 .. NoLimit BY <1>7, ValuesDef
    <2>2. v - (v % 2) \in 0 .. NoLimit BY <1>3, <2>1
    <2>3. Written(f, v) = [file EXCEPT !["huge"] = v - (v % 2)] BY <1>7 DEF Written, Keyed
    <2>4. Held("huge") = 0 .. NoLimit /\ "huge" \in Files BY HeldDef DEF Files
    <2>5. QED BY <1>4, <2>2, <2>3, <2>4
  <1>8. CASE f \in {"rt_runtime", "rt_period"}
    <2>1. v \in Int BY <1>8, ValuesDef DEF Numbers
    <2> DEFINE w == IF f = "rt_runtime" /\ v < 0 THEN Unlimited ELSE v
    <2>2. Written(f, v) = [file EXCEPT ![f] = w]
      <3>1. CASE f = "rt_runtime" /\ v < 0 BY <3>1 DEF Written, Keyed
      <3>2. CASE ~(f = "rt_runtime" /\ v < 0)
        <4>1. Written(f, v) = [file EXCEPT ![f] = v] BY <1>8, <3>2 DEF Written, Keyed
        <4>2. QED BY <3>2, <4>1
      <3>3. QED BY <3>1, <3>2
    <2>3. Held(f) = Int /\ f \in Files BY <1>8, HeldDef DEF Numbers, Files
    <2>4. file.rt_runtime \in Int /\ file.rt_period \in Int BY <1>2, HeldDef DEF Numbers, Files
    <2>5. /\ w \in Int
          /\ f = "rt_runtime" => Unlimited <= w /\ w <= file.rt_period
          /\ f = "rt_period" => file.rt_runtime <= w
      <3>1. (f = "rt_runtime" => v <= file.rt_period) /\ (f = "rt_period" => file.rt_runtime <= v)
        BY <2>1, <2>4 DEF Refused
      <3>2. QED BY <1>1, <2>1, <2>4, <3>1 DEF Unlimited
    <2> HIDE DEF w
    <2>6. QED BY <1>1, <1>2, <1>8, <2>2, <2>3, <2>5 DEF FilesOK, Files
  <1>9. CASE f \in Numbers \ {"rt_runtime", "rt_period"}
    <2>1. v \in Int BY <1>9, ValuesDef
    <2>2. Held(f) = Int /\ f \in Files /\ f \notin {"mem", "swap", "rt_runtime", "rt_period"}
      BY <1>9, HeldDef DEF Numbers, Files
    <2>3. \E w \in Int : Written(f, v) = [file EXCEPT ![f] = w]
      <3>1. CASE f = "shares" /\ ~v2 BY <2>1, <3>1 DEF Written, Keyed
      <3>2. CASE f = "quota" /\ v < 0
        <4>1. Written(f, v) = [file EXCEPT ![f] = Unlimited] BY <3>2 DEF Written, Keyed
        <4>2. Unlimited \in Int BY DEF Unlimited
        <4>3. QED BY <4>1, <4>2
      <3>3. CASE ~(f = "shares" /\ ~v2) /\ ~(f = "quota" /\ v < 0)
        <4>1. Written(f, v) = [file EXCEPT ![f] = v] BY <1>9, <3>3 DEF Written, Numbers, Keyed
        <4>2. QED BY <2>1, <4>1
      <3>4. QED BY <3>1, <3>2, <3>3
    <2>4. QED BY <1>4, <2>2, <2>3
  <1>10. CASE f \in {"cpus", "mems"}
    <2>1. v \in Nat \ {0} BY <1>10, ValuesDef
    <2>2. v \in Held(f)
      <3>1. CASE f = "cpus"
        <4>1. v \in Nat /\ (~v2 => ~(v > ParentCpus)) BY <2>1, <3>1 DEF Refused
        <4>2. v \in Nat /\ (~v2 => v <= ParentCpus) BY <4>1, ParentAssumption
        <4>3. QED BY <3>1, <4>2, HeldDef
      <3>2. CASE f = "mems"
        <4>1. v \in Nat \ {0} /\ ~(v > 1) BY <2>1, <3>2 DEF Refused
        <4>2. v = 1 BY <4>1
        <4>3. QED BY <3>2, <4>2, HeldDef
      <3>3. QED BY <1>10, <3>1, <3>2
    <2>3. Written(f, v) = [file EXCEPT ![f] = v] BY <1>10 DEF Written, Keyed
    <2>4. f \in Files /\ f \notin {"mem", "swap", "rt_runtime", "rt_period"} BY <1>10 DEF Files
    <2>5. QED BY <1>4, <2>2, <2>3, <2>4
  <1>11. CASE f = "freezer"
    <2>1. v \in {"thawed", "frozen"} BY <1>11, ValuesDef
    <2>2. \E w \in Held("freezer") : Written(f, v) = [file EXCEPT !["freezer"] = w]
      <3>1. Held("freezer") = {"thawed", "frozen"} \union (IF v2 THEN {} ELSE {"freezing"}) BY HeldDef
      <3>2. CASE v = "frozen" /\ ~v2 /\ file.freezer # "frozen"
        <4>1. Written(f, v) = [file EXCEPT !["freezer"] = "freezing"] BY <1>11, <3>2 DEF Written, Keyed
        <4>2. "freezing" \in Held("freezer") BY <3>1, <3>2
        <4>3. QED BY <4>1, <4>2
      <3>3. CASE ~(v = "frozen" /\ ~v2 /\ file.freezer # "frozen")
        <4>1. Written(f, v) = [file EXCEPT !["freezer"] = v] BY <1>11, <3>3 DEF Written, Keyed
        <4>2. v \in Held("freezer") BY <2>1, <3>1
        <4>3. QED BY <4>1, <4>2
      <3>4. QED BY <3>2, <3>3
    <2>3. "freezer" \in Files BY DEF Files
    <2>4. QED BY <1>4, <2>2, <2>3
  <1>12. CASE f \in {"weight", "leaf"}
    <2>1. v \in [key : Nat, val : Nat] BY <1>12, ValuesDef
    <2>2. v.key \in Weighted /\ v.val \in 1 .. 1000 /\ (f = "leaf" => v.val \in 10 .. 1000)
      <3>1. CASE f = "weight"
        <4>1. v.key \in Weighted /\ v.val \in (IF v2 THEN 1 ELSE 10) .. 1000 BY <3>1 DEF Refused
        <4>2. QED BY <2>1, <3>1, <4>1
      <3>2. CASE f = "leaf"
        <4>1. v.key \in Weighted /\ v.val \in 10 .. 1000 BY <3>2 DEF Refused
        <4>2. QED BY <2>1, <3>2, <4>1
      <3>3. QED BY <1>12, <3>1, <3>2
    <2>3. f \in Files /\ f \notin {"mem", "swap", "rt_runtime", "rt_period"} BY <1>12 DEF Files, Keyed
    <2>4. Written(f, v) = [file EXCEPT ![f] = [file[f] EXCEPT ![v.key] = v.val]]
      BY <1>12, <2>3 DEF Written, Keyed
    <2>5. [file[f] EXCEPT ![v.key] = v.val] \in Held(f)
      <3>1. CASE f = "weight"
        <4>1. file[f] \in [Weighted -> 1 .. 1000] /\ Held(f) = [Weighted -> 1 .. 1000]
          <5>1. Held("weight") = [Weighted -> 1 .. 1000] BY HeldTables
          <5>2. QED BY <1>2, <2>3, <3>1, <5>1
        <4>2. v.val \in 1 .. 1000 BY <2>2
        <4>3. QED BY <2>2, <4>1, <4>2
      <3>2. CASE f = "leaf"
        <4>1. file[f] \in [Weighted -> 10 .. 1000] /\ Held(f) = [Weighted -> 10 .. 1000]
          <5>1. Held("leaf") = [Weighted -> 10 .. 1000] BY HeldTables
          <5>2. QED BY <1>2, <2>3, <3>2, <5>1
        <4>2. QED BY <2>2, <3>2, <4>1
      <3>3. QED BY <1>12, <3>1, <3>2
    <2>6. QED BY <1>4, <2>3, <2>4, <2>5
  <1>13. CASE f = "rate"
    <2>1. v \in [key : Rates \X Nat, val : Nat] BY <1>13, ValuesDef
    <2>2. v.key[2] \in Disks BY <1>13 DEF Refused
    <2>3. v.key \in Rates \X Disks BY <2>1, <2>2
    <2> DEFINE w == IF v.val = 0 THEN Unlimited ELSE v.val
    <2>4. w \in Int \ {0} BY <2>1 DEF Unlimited
    <2>5. "rate" \in Files BY DEF Files, Keyed
    <2>6. Written(f, v) = [file EXCEPT !["rate"] = [file["rate"] EXCEPT ![v.key] = w]]
      BY <1>13, <2>5 DEF Written, Keyed
    <2>7. file["rate"] \in [Rates \X Disks -> Int \ {0}] /\ Held("rate") = [Rates \X Disks -> Int \ {0}]
      <3>1. Held("rate") = [Rates \X Disks -> Int \ {0}] BY HeldTables
      <3>2. QED BY <1>2, <2>5, <3>1
    <2> HIDE DEF w
    <2>8. [file["rate"] EXCEPT ![v.key] = w] \in Held("rate") BY <2>3, <2>4, <2>7
    <2>9. QED BY <1>4, <2>5, <2>6, <2>8
  <1>14. CASE f = "prio"
    <2>1. v \in [key : STRING, val : Nat] BY <1>14, ValuesDef
    <2>2. v.key \in Interfaces BY <1>14 DEF Refused
    <2>3. "prio" \in Files BY DEF Files, Keyed
    <2>4. Written(f, v) = [file EXCEPT !["prio"] = [file["prio"] EXCEPT ![v.key] = v.val]]
      BY <1>14, <2>3 DEF Written, Keyed
    <2>5. file["prio"] \in [Interfaces -> Nat] /\ Held("prio") = [Interfaces -> Nat]
      BY <1>2, <2>3, HeldDef
    <2>6. [file["prio"] EXCEPT ![v.key] = v.val] \in Held("prio") BY <2>1, <2>2, <2>5
    <2>7. QED BY <1>4, <2>3, <2>4, <2>6
  <1>15. CASE f \in {"allow", "deny"}
    <2>1. file.devices \subseteq ParentDevices BY <1>2, HeldDef DEF Files
    <2>2. f = "allow" => v \subseteq ParentDevices BY DEF Refused
    <2>3. "devices" \in Files BY DEF Files
    <2>4. \E w \in Held("devices") : Written(f, v) = [file EXCEPT !["devices"] = w]
      <3>1. Held("devices") = SUBSET ParentDevices BY HeldDef
      <3>2. CASE f = "allow"
        <4>1. Written(f, v) = [file EXCEPT !["devices"] = file.devices \union v] BY <3>2, <2>3 DEF Written, Keyed
        <4>2. file.devices \union v \in Held("devices") BY <2>1, <2>2, <3>1, <3>2
        <4>3. QED BY <4>1, <4>2
      <3>3. CASE f = "deny"
        <4>1. Written(f, v) = [file EXCEPT !["devices"] = file.devices \ v] BY <3>3, <2>3 DEF Written, Keyed
        <4>2. file.devices \ v \in Held("devices") BY <2>1, <3>1
        <4>3. QED BY <4>1, <4>2
      <3>4. QED BY <1>15, <3>2, <3>3
    <2>5. QED BY <1>4, <2>3, <2>4
  <1>16. CASE f = "cpu.max"
    <2>1. v \in [quota : Int, period : Int] BY <1>16, ValuesDef
    <2>2. Written(f, v) = [file EXCEPT !.quota = v.quota, !.period = v.period] BY <1>16 DEF Written, Keyed
    <2>3. Held("quota") = Int /\ Held("period") = Int BY HeldDef DEF Numbers
    <2>4. QED BY <1>1, <1>2, <2>1, <2>2, <2>3 DEF FilesOK, Files
  <1>17. QED
    <2>1. Names \subseteq {"mem", "swap"} \union {"soft", "kmem", "tcp", "high", "min"} \union {"huge"}
             \union {"rt_runtime", "rt_period"} \union Numbers \union {"cpus", "mems"} \union {"freezer"}
             \union {"weight", "leaf"} \union {"rate"} \union {"prio"} \union {"allow", "deny"} \union {"cpu.max"}
      BY DEF Names, Numbers
    <2>2. QED BY <1>5, <1>6, <1>7, <1>8, <1>9, <1>10, <1>11, <1>12, <1>13, <1>14, <1>15, <1>16, <2>1

LEMMA HeldPrime == ASSUME v2' = v2, NEW f PROVE Held(f)' = Held(f)
  BY DEF Held

LEMMA FilesPrime == ASSUME v2' = v2, FilesOK(file') PROVE FilesOK(file)'
  <1>1. \A f \in Files : Held(f)' = Held(f) BY HeldPrime
  <1>2. QED BY <1>1 DEF FilesOK

\* The next step of a call, by its kind.
LEMMA NextStep ==
  ASSUME CallOK, call.todo # << >>
  PROVE  /\ Head(call.todo) \in Steps /\ Tail(call.todo) \in Seq(Steps)
         /\ call.op \in Ops /\ call.r \in Request /\ call.todo \in Seq(Steps)
         /\ At("write") \/ At("update") =>
              /\ Head(call.todo).file \in Names
              /\ Head(call.todo).val \in Values(Head(call.todo).file)
              /\ Head(call.todo) \in Puts(Names)
         /\ At("cpu.max") => Head(call.todo) \in CpuReads
         /\ At("test") => Head(call.todo) \in TestSteps
         /\ At("fail") => Head(call.todo).err \in Errors
  <1>1. call.todo \in Seq(Steps) /\ call.op # "idle" /\ call.op \in Ops /\ call.r \in Request
    BY DEF CallOK
  <1>2. Head(call.todo) \in Steps /\ Tail(call.todo) \in Seq(Steps) BY <1>1
  <1> DEFINE s == Head(call.todo)
  <1>3. \A p \in Puts(Names) : p.do \in {"write", "update"} /\ p.file \in Names /\ p.val \in Values(p.file)
    BY PutsType
  <1>4. s \in Puts(Names) \/ s \in CpuReads \/ s \in MemoryReads \/ s \in Failures(Errors)
        \/ s \in TestSteps
    BY <1>2 DEF Steps
  <1> HIDE DEF s
  <1>5. s.do \in {"write", "update"} => s \in Puts(Names)
    BY <1>4 DEF CpuReads, MemoryReads, Failures, TestSteps
  <1>6. s.do = "cpu.max" => s \in CpuReads BY <1>3, <1>4 DEF MemoryReads, Failures, TestSteps
  <1>7. s.do = "test" => s \in TestSteps BY <1>3, <1>4 DEF MemoryReads, Failures, CpuReads
  <1>8. s.do = "fail" => s.err \in Errors
    BY <1>3, <1>4 DEF MemoryReads, Failures, CpuReads, TestSteps
  <1>9. QED BY <1>1, <1>2, <1>3, <1>5, <1>6, <1>7, <1>8 DEF At, s

LEMMA GoType ==
  ASSUME CallOK, call.todo # << >>, NEW steps \in Seq(Steps), Go(steps)
  PROVE  /\ CallOK' /\ call'.todo = steps \o Tail(call.todo)
         /\ call'.op = call.op /\ call'.r = call.r /\ call'.before = call.before /\ call'.res = call.res
  <1>1. PICK c \in [op : {"idle"} \union Ops, r : Opt(Request), before : {call.before},
                    todo : Seq(Steps), res : Results] : call = c
    BY DEF CallOK
  <1>2. steps \o Tail(call.todo) \in Seq(Steps) BY NextStep, Concat
  <1>3. call' = [c EXCEPT !.todo = steps \o Tail(call.todo)] BY <1>1 DEF Go
  <1>4. call.op # "idle" /\ call.r \in Request BY DEF CallOK
  <1>5. /\ call'.todo = steps \o Tail(call.todo)
        /\ call'.op = call.op /\ call'.r = call.r /\ call'.before = call.before /\ call'.res = call.res
    BY <1>1, <1>3
  <1>6. call' \in [op : {"idle"} \union Ops, r : Opt(Request), before : {call.before},
                   todo : Seq(Steps), res : Results]
    BY <1>1, <1>2, <1>3
  <1>7. QED BY <1>4, <1>5, <1>6 DEF CallOK

LEMMA ReturnType ==
  ASSUME CallOK, call.todo # << >>, NEW e \in Results, Return(e)
  PROVE  /\ CallOK' /\ call'.todo = << >> /\ call'.res = e
         /\ call'.op = call.op /\ call'.r = call.r /\ call'.before = call.before
  <1>1. PICK c \in [op : {"idle"} \union Ops, r : Opt(Request), before : {call.before},
                    todo : Seq(Steps), res : Results] : call = c
    BY DEF CallOK
  <1>2. call' = [c EXCEPT !.todo = << >>, !.res = e] BY <1>1 DEF Return
  <1>3. call.op # "idle" /\ call.r \in Request BY DEF CallOK
  <1>4. /\ call'.todo = << >> /\ call'.res = e
        /\ call'.op = call.op /\ call'.r = call.r /\ call'.before = call.before
    BY <1>1, <1>2
  <1>5. call' \in [op : {"idle"} \union Ops, r : Opt(Request), before : {call.before},
                   todo : Seq(Steps), res : Results]
    <2>1. << >> \in Seq(Steps) OBVIOUS
    <2>2. QED BY <1>1, <1>2, <2>1
  <1>6. QED BY <1>3, <1>4, <1>5 DEF CallOK

LEMMA StartType ==
  ASSUME asks \subseteq Request, NEW op \in Ops, NEW r \in asks, Start(op, r)
  PROVE  /\ CallOK' /\ call'.op = op /\ call'.r = r /\ call'.before = file /\ call'.res = "ok"
         /\ op = "set" => call'.todo = Set(r)
         /\ op = "apply" => call'.todo = Apply(r)
  <1> DEFINE todo == CASE op = "set" -> Set(r) [] op = "apply" -> Apply(r)
                       [] op = "set_mem" -> SetMem(r) [] op = "freeze" -> SetFreezer(r)
  <1>1. op \in {"set", "apply", "set_mem", "freeze"} /\ r \in Request BY OpsAssumption
  <1>2. op = "freeze" => r.state # none BY DEF Start
  <1>3. todo \in Seq(Steps)
    <2>1. /\ Set(r) \in Seq(Steps) /\ Apply(r) \in Seq(Steps) /\ SetMem(r) \in Seq(Steps)
          /\ op = "freeze" => SetFreezer(r) \in Seq(Steps)
      BY <1>1, <1>2, CallsType
    <2>2. QED BY <1>1, <2>1
  <1>4. (op = "set" => todo = Set(r)) /\ (op = "apply" => todo = Apply(r)) BY <1>1
  <1>5. call' = [op |-> op, r |-> r, before |-> file, res |-> "ok", todo |-> todo] BY DEF Start
  <1> HIDE DEF todo
  <1>6. /\ call'.op = op /\ call'.r = r /\ call'.before = file /\ call'.res = "ok" /\ call'.todo = todo
    BY <1>5
  <1>7. "ok" \in Results BY DEF Results
  <1>8. call' \in [op : {"idle"} \union Ops, r : Opt(Request), before : {call'.before},
                   todo : Seq(Steps), res : Results]
    BY <1>1, <1>3, <1>5, <1>7 DEF Opt
  <1>9. op # "idle" BY <1>1
  <1>10. CallOK' BY <1>1, <1>6, <1>8, <1>9 DEF CallOK
  <1>11. QED BY <1>4, <1>6, <1>10

\* The steps that the memory controller adds.
LEMMA MemoryType ==
  ASSUME CallOK, ReadsMemory
  PROVE  /\ CallOK' /\ call'.op = call.op /\ call'.r = call.r /\ call'.before = call.before
         /\ call'.res = call.res
         /\ call'.todo = (IF v2 THEN MemoryV2(call.r) ELSE MemoryV1(call.r)) \o Tail(call.todo)
  <1>1. call.todo # << >> BY DEF ReadsMemory, At
  <1>2. call.r \in Request BY <1>1, NextStep
  <1>3. (IF v2 THEN MemoryV2(call.r) ELSE MemoryV1(call.r)) \in Seq(Steps) BY <1>2, CallsType
  <1>4. QED BY <1>1, <1>3, GoType DEF ReadsMemory

LEMMA CpuMaxType ==
  ASSUME v2 \in BOOLEAN, FilesOK(file), CallOK, ReadsCpuMax
  PROVE  /\ CallOK' /\ call'.op = call.op /\ call'.r = call.r /\ call'.before = call.before
         /\ call'.res = call.res
         /\ Write("cpu.max", CpuMax(Head(call.todo), file)) \in Seq(Puts({"cpu.max"}))
         /\ call'.todo = Write("cpu.max", CpuMax(Head(call.todo), file)) \o Tail(call.todo)
  <1>1. call.todo # << >> /\ At("cpu.max") BY DEF ReadsCpuMax, At
  <1> DEFINE s == Head(call.todo)
  <1>2. s \in CpuReads BY <1>1, NextStep
  <1>3. file.quota \in Int /\ file.period \in Int
    <2>1. "quota" \in Files /\ "period" \in Files BY DEF Files
    <2>2. Held("quota") = Int /\ Held("period") = Int BY HeldDef DEF Numbers
    <2>3. QED BY <2>1, <2>2 DEF FilesOK
  <1> HIDE DEF s
  <1>4. CpuMax(s, file) \in Values("cpu.max")
    <2>1. (s.quota # none => s.quota \in Int) /\ (s.period # none => s.period \in Int)
      BY <1>2 DEF CpuReads, Opt
    <2>2. CpuMax(s, file) \in [quota : Int, period : Int] BY <1>3, <2>1 DEF CpuMax, Unlimited
    <2>3. QED BY <2>2, ValuesDef
  <1>5. Write("cpu.max", CpuMax(s, file)) \in Seq(Puts({"cpu.max"})) BY <1>4, WriteType
  <1>6. Puts({"cpu.max"}) \subseteq Steps
    <2>1. {"cpu.max"} \subseteq Names BY DEF Names
    <2>2. QED BY <2>1, PutsMonotonic DEF Steps
  <1>7. Write("cpu.max", CpuMax(s, file)) \in Seq(Steps) BY <1>5, <1>6, Wider
  <1>8. Go(Write("cpu.max", CpuMax(s, file))) BY DEF ReadsCpuMax, s
  <1>9. QED BY <1>1, <1>5, <1>7, <1>8, GoType DEF s

\* What a write changes.
LEMMA WritesType ==
  ASSUME TypeInv, Writes
  PROVE  /\ CallOK' /\ call'.todo = Tail(call.todo) /\ UNCHANGED <<v2, asks>>
         /\ call'.op = call.op /\ call'.r = call.r /\ call'.before = call.before /\ call'.res = call.res
         /\ Head(call.todo) \in Puts(Names) /\ call.todo # << >>
         /\ ~Refused(Head(call.todo).file, Head(call.todo).val)
         /\ file' = Written(Head(call.todo).file, Head(call.todo).val)
         /\ FilesOK(file)'
  <1>1. call.todo # << >> /\ CallOK BY DEF Writes, At, TypeInv
  <1>2. At("write") \/ At("update") BY DEF Writes
  <1>3. /\ Head(call.todo).file \in Names /\ Head(call.todo).val \in Values(Head(call.todo).file)
        /\ Head(call.todo) \in Puts(Names) /\ Tail(call.todo) \in Seq(Steps)
    BY <1>1, <1>2, NextStep
  <1>4. /\ ~Refused(Head(call.todo).file, Head(call.todo).val)
        /\ file' = Written(Head(call.todo).file, Head(call.todo).val)
        /\ Go(<< >>) /\ UNCHANGED <<v2, asks>>
    BY DEF Writes
  <1>5. << >> \in Seq(Steps) /\ << >> \o Tail(call.todo) = Tail(call.todo) BY <1>3
  <1>6. /\ CallOK' /\ call'.todo = Tail(call.todo)
        /\ call'.op = call.op /\ call'.r = call.r /\ call'.before = call.before /\ call'.res = call.res
    BY <1>1, <1>4, <1>5, GoType
  <1>7. FilesOK(file') BY <1>3, <1>4, WrittenOK DEF TypeInv
  <1>8. FilesOK(file)' BY <1>4, <1>7, FilesPrime
  <1>9. QED BY <1>1, <1>3, <1>4, <1>6, <1>8

\* What a write that fails changes: only the call, which ends with an error or,
\* for a write whose error is ignored, goes on.
LEMMA WriteFailsType ==
  ASSUME CallOK, WriteFails
  PROVE  /\ CallOK' /\ UNCHANGED <<v2, asks, file, usage>>
         /\ call'.op = call.op /\ call'.r = call.r /\ call'.before = call.before
         /\ Head(call.todo) \in Puts(Names) /\ call.todo # << >>
         /\ \/ Head(call.todo).do = "update" /\ call'.todo = Tail(call.todo) /\ call'.res = call.res
            \/ call'.todo = << >> /\ call'.res \in {"refused", "busy", "missing"}
            \/ /\ call'.todo = << >> /\ call'.res = "order" /\ Head(call.todo).file \in {"mem", "swap"}
               /\ Refused(Head(call.todo).file, Head(call.todo).val)
  <1>1. call.todo # << >> BY DEF WriteFails, At
  <1>2. At("write") \/ At("update") BY DEF WriteFails
  <1>3. Head(call.todo) \in Puts(Names) /\ Tail(call.todo) \in Seq(Steps) BY <1>1, <1>2, NextStep
  <1>4. PICK e \in {"refused", "busy", "missing"} :
          /\ e = "refused" => Refused(Head(call.todo).file, Head(call.todo).val)
          /\ IF Head(call.todo).do = "update" THEN Go(<< >>)
             ELSE Return(IF Head(call.todo).file \in {"mem", "swap"} /\ e = "refused" THEN "order" ELSE e)
    BY DEF WriteFails
  <1>5. UNCHANGED <<v2, asks, file, usage>> BY DEF WriteFails
  <1>6. CASE Head(call.todo).do = "update"
    <2>1. << >> \in Seq(Steps) /\ << >> \o Tail(call.todo) = Tail(call.todo) BY <1>3
    <2>2. QED BY <1>1, <1>3, <1>4, <1>5, <1>6, <2>1, GoType
  <1>7. CASE Head(call.todo).do # "update"
    <2> DEFINE d == IF Head(call.todo).file \in {"mem", "swap"} /\ e = "refused" THEN "order" ELSE e
    <2>1. d \in Results BY DEF Results
    <2>2. Return(d) BY <1>4, <1>7
    <2>3. /\ CallOK' /\ call'.todo = << >> /\ call'.res = d
          /\ call'.op = call.op /\ call'.r = call.r /\ call'.before = call.before
      <3> HIDE DEF d
      <3>1. QED BY <1>1, <2>1, <2>2, ReturnType
    <2>4. QED BY <1>1, <1>3, <1>4, <1>5, <2>3
  <1>8. QED BY <1>6, <1>7

LEMMA TestsType ==
  ASSUME CallOK, Tests
  PROVE  /\ CallOK' /\ UNCHANGED <<v2, asks, file, usage>>
         /\ call'.op = call.op /\ call'.r = call.r /\ call'.before = call.before
         /\ Head(call.todo) \in TestSteps /\ call.todo # << >>
         /\ \/ /\ file[Head(call.todo).file] = Head(call.todo).val
               /\ call'.todo = Tail(call.todo) /\ call'.res = call.res
            \/ call'.todo = << >> /\ call'.res = "other"
  <1>1. call.todo # << >> /\ At("test") BY DEF Tests, At
  <1>2. Head(call.todo) \in TestSteps /\ Tail(call.todo) \in Seq(Steps) BY <1>1, NextStep
  <1>3. UNCHANGED <<v2, asks, file, usage>> BY DEF Tests
  <1>4. CASE file[Head(call.todo).file] = Head(call.todo).val
    <2>1. << >> \in Seq(Steps) /\ << >> \o Tail(call.todo) = Tail(call.todo) BY <1>2
    <2>2. Go(<< >>) BY <1>4 DEF Tests
    <2>3. QED BY <1>1, <1>2, <1>3, <1>4, <2>1, <2>2, GoType
  <1>5. CASE file[Head(call.todo).file] # Head(call.todo).val
    <2>1. Return("other") BY <1>5 DEF Tests
    <2>2. "other" \in Results BY DEF Results
    <2>3. QED BY <1>1, <1>2, <1>3, <2>1, <2>2, ReturnType
  <1>6. QED BY <1>4, <1>5

LEMMA FailsType ==
  ASSUME CallOK, Fails
  PROVE  /\ CallOK' /\ UNCHANGED <<v2, asks, file, usage>>
         /\ call'.op = call.op /\ call'.r = call.r /\ call'.before = call.before
         /\ call'.todo = << >> /\ call'.res = Head(call.todo).err
         /\ call'.res \in Errors /\ call.todo # << >> /\ Head(call.todo).do = "fail"
  <1>1. call.todo # << >> /\ At("fail") /\ Return(Head(call.todo).err) BY DEF Fails, At
  <1>2. Head(call.todo).err \in Errors BY <1>1, NextStep
  <1>3. Head(call.todo).err \in Results BY <1>2 DEF Results, Errors, Gone
  <1>4. QED BY <1>1, <1>2, <1>3, ReturnType DEF Fails, At

LEMMA TypeStep == TypeInv /\ [Next]_vars => TypeInv'
  <1>1. SUFFICES ASSUME TypeInv, [Next]_vars PROVE TypeInv' OBVIOUS
  <1>2. /\ v2 \in BOOLEAN /\ asks \subseteq Request /\ FilesOK(file) /\ CallOK
        /\ usage \in 0 .. Top /\ usage <= file.mem /\ (~v2 => usage <= file.swap)
    BY <1>1 DEF TypeInv
  <1>3. ASSUME UNCHANGED <<v2, asks, file, usage>>, CallOK' PROVE TypeInv'
    <2>1. FilesOK(file') BY <1>2, <1>3
    <2>2. FilesOK(file)' BY <1>3, <2>1, FilesPrime
    <2>3. QED BY <1>2, <1>3, <2>2 DEF TypeInv
  <1>4. ASSUME NEW op \in Ops, NEW r \in asks, Start(op, r) PROVE TypeInv'
    BY <1>2, <1>3, <1>4, StartType DEF Start
  <1>5. CASE Writes
    <2>1. CallOK' /\ UNCHANGED <<v2, asks>> /\ FilesOK(file)' BY <1>1, <1>5, WritesType
    <2>2. file'.mem \in Nat /\ file'.swap \in Nat
      <3>1. \A f \in Files : file'[f] \in Held(f)'  BY <2>1 DEF FilesOK
      <3>2. "mem" \in Files /\ "swap" \in Files BY DEF Files
      <3>3. Held("mem")' = 0 .. NoLimit /\ Held("swap")' = 0 .. NoLimit BY <2>1, HeldPrime, HeldDef
      <3>4. QED BY <3>1, <3>2, <3>3, TopAssumption DEF NoLimit
    <2> DEFINE S == {usage, file'.mem} \union (IF v2 THEN {} ELSE {file'.swap})
    <2>3. usage' = Min(S) BY <1>5 DEF Writes
    <2>4. S \in SUBSET Nat /\ S # {} BY <1>2, <2>2, TopAssumption
    <2>5. usage \in S /\ file'.mem \in S /\ (~v2 => file'.swap \in S) OBVIOUS
    <2> HIDE DEF S
    <2>6. Min(S) \in Nat /\ \A x \in S : Min(S) <= x BY <2>4, MinDef
    <2>7. usage' \in 0 .. Top /\ usage' <= file'.mem /\ (~v2 => usage' <= file'.swap)
      <3>1. Min(S) <= usage /\ Min(S) <= file'.mem /\ (~v2 => Min(S) <= file'.swap) BY <2>5, <2>6
      <3>2. usage' \in Nat /\ usage' <= usage BY <2>3, <2>6, <3>1
      <3>3. usage' \in 0 .. Top BY <1>2, <3>2, TopAssumption
      <3>4. QED BY <2>3, <3>1, <3>3
    <2>8. QED BY <1>2, <2>1, <2>7 DEF TypeInv
  <1>6. CASE WriteFails BY <1>2, <1>3, <1>6, WriteFailsType
  <1>7. CASE ReadsMemory BY <1>2, <1>3, <1>7, MemoryType DEF ReadsMemory
  <1>8. CASE ReadsCpuMax BY <1>2, <1>3, <1>8, CpuMaxType DEF ReadsCpuMax
  <1>9. CASE Tests BY <1>2, <1>3, <1>9, TestsType
  <1>10. CASE Fails BY <1>2, <1>3, <1>10, FailsType
  <1>11. ASSUME UNCHANGED <<v2, asks, file, call>> PROVE FilesOK(file)' /\ CallOK'
    <2>1. FilesOK(file') BY <1>2, <1>11
    <2>2. FilesOK(file)' BY <1>11, <2>1, FilesPrime
    <2>3. CallOK' BY <1>2, <1>11 DEF CallOK
    <2>4. QED BY <2>2, <2>3
  <1>12. CASE Charge
    <2>1. FilesOK(file)' /\ CallOK' BY <1>11, <1>12 DEF Charge
    <2>2. file.mem \in Nat /\ file.swap \in Nat /\ (~v2 => file.mem <= file.swap)
      <3>1. "mem" \in Files /\ "swap" \in Files BY DEF Files
      <3>2. Held("mem") = 0 .. NoLimit /\ Held("swap") = 0 .. NoLimit BY HeldDef
      <3>3. QED BY <1>2, <3>1, <3>2, TopAssumption DEF FilesOK, NoLimit
    <2>3. usage' \in 0 .. Top /\ usage' <= file.mem /\ UNCHANGED <<v2, asks, file>> BY <1>12 DEF Charge
    <2>4. QED BY <1>2, <2>1, <2>2, <2>3, TopAssumption DEF TypeInv
  <1>13. CASE Freezes
    <2>1. file' = [file EXCEPT !["freezer"] = "frozen"] /\ UNCHANGED <<v2, asks, usage, call>>
      BY <1>13 DEF Freezes
    <2>2. FilesOK(file')
      <3>1. Held("freezer") = {"thawed", "frozen"} \union (IF v2 THEN {} ELSE {"freezing"}) BY HeldDef
      <3>2. "frozen" \in Held("freezer") BY <3>1
      <3>3. QED BY <1>2, <2>1, <3>2 DEF FilesOK, Files
    <2>3. FilesOK(file)' BY <2>1, <2>2, FilesPrime
    <2>4. CallOK' BY <1>2, <2>1 DEF CallOK
    <2>5. file'.mem = file.mem /\ file'.swap = file.swap BY <1>2, <2>1 DEF FilesOK, Files
    <2>6. QED BY <1>2, <2>1, <2>3, <2>4, <2>5 DEF TypeInv
  <1>14. CASE UNCHANGED vars
    <2>1. FilesOK(file)' /\ CallOK' BY <1>11, <1>14 DEF vars
    <2>2. QED BY <1>2, <1>14, <2>1 DEF vars, TypeInv
  <1>15. QED
    BY <1>1, <1>4, <1>5, <1>6, <1>7, <1>8, <1>9, <1>10, <1>12, <1>13, <1>14 DEF Next

LEMMA TypeInit == Init => TypeInv
  <1>1. SUFFICES ASSUME Init PROVE TypeInv OBVIOUS
  <1>2. v2 \in BOOLEAN /\ asks \subseteq Request BY <1>1, V2sAssumption, FamiliesAssumption DEF Init
  <1>3. NoLimit \in Nat \ {0} /\ NoLimit >= Top BY TopAssumption DEF NoLimit
  <1>4. file = Fresh(v2) BY <1>1 DEF Init
  <1>5. FilesOK(file)
    <2>1. DOMAIN file = Files BY <1>4 DEF Fresh, Files, Keyed
    <2>2. \A f \in {"mem", "swap", "soft", "huge", "kmem", "tcp", "high", "min"} : file[f] \in 0 .. NoLimit
      BY <1>3, <1>4 DEF Fresh
    <2>3. \A f \in Numbers : file[f] \in Int BY <1>4 DEF Fresh, Numbers, Unlimited
    <2>4. file.devices \in SUBSET ParentDevices /\ file.mems \in {1}
          /\ file.cpus \in {n \in Nat : ~v2 => n <= ParentCpus}
          /\ file.freezer \in {"thawed", "frozen"} \union (IF v2 THEN {} ELSE {"freezing"})
      BY <1>4, ParentAssumption DEF Fresh
    <2>5. /\ file.weight \in [Weighted -> 1 .. 1000] /\ file.leaf \in [Weighted -> 10 .. 1000]
          /\ file.rate \in [Rates \X Disks -> Int \ {0}] /\ file.prio \in [Interfaces -> Nat]
      BY <1>4 DEF Fresh, Unlimited
    <2>6. /\ Unlimited <= file.rt_runtime /\ file.rt_runtime <= file.rt_period
          /\ file.mem <= file.swap
      BY <1>3, <1>4 DEF Fresh, Unlimited
    <2>7. ASSUME NEW f \in Files PROVE file[f] \in Held(f)
      <3>1. CASE f \in {"mem", "swap", "soft", "huge", "kmem", "tcp", "high", "min"}
        <4>1. file[f] \in 0 .. NoLimit BY <2>2, <3>1
        <4>2. Held(f) = 0 .. NoLimit BY <3>1, HeldDef
        <4>3. QED BY <4>1, <4>2
      <3>2. CASE f \in Numbers BY <2>3, <3>2, HeldDef
      <3>3. CASE f \in {"devices", "mems", "cpus", "freezer"}
        BY <2>4, <3>3, HeldDef
      <3>4. CASE f = "weight"
        <4>1. file["weight"] \in [Weighted -> 1 .. 1000] BY <2>5
        <4>2. Held("weight") = [Weighted -> 1 .. 1000] BY ONLY HeldTables
        <4>3. QED BY ONLY <3>4, <4>1, <4>2
      <3>5. CASE f = "leaf"
        <4>1. file["leaf"] \in [Weighted -> 10 .. 1000] BY <2>5
        <4>2. Held("leaf") = [Weighted -> 10 .. 1000] BY ONLY HeldTables
        <4>3. QED BY ONLY <3>5, <4>1, <4>2
      <3>6. CASE f = "rate"
        <4>1. file["rate"] \in [Rates \X Disks -> Int \ {0}] BY <2>5
        <4>2. Held("rate") = [Rates \X Disks -> Int \ {0}] BY ONLY HeldTables
        <4>3. QED BY ONLY <3>6, <4>1, <4>2
      <3>7. CASE f = "prio"
        <4>1. file["prio"] \in [Interfaces -> Nat] BY <2>5
        <4>2. Held("prio") = [Interfaces -> Nat] BY ONLY HeldTables
        <4>3. QED BY ONLY <3>7, <4>1, <4>2
      <3>8. QED BY <3>1, <3>2, <3>3, <3>4, <3>5, <3>6, <3>7 DEF Files, Keyed, Numbers
    <2>8. QED BY <2>1, <2>6, <2>7 DEF FilesOK
  <1>6. usage \in 0 .. Top /\ usage <= file.mem /\ usage <= file.swap
    BY <1>1, <1>3, <1>4, TopAssumption DEF Init, Fresh
  <1>7. CallOK
    <2>1. << >> \in Seq(Steps) /\ "ok" \in Results BY DEF Results
    <2>2. QED BY <1>1, <2>1 DEF Init, Idle, CallOK, Opt
  <1>8. QED BY <1>2, <1>5, <1>6, <1>7 DEF TypeInv

\* Limits are sizes, the memory in use stays below the limits whatever the calls
\* write and the workload does, devices and CPUs are those of the parent.
THEOREM TypeCorrect == Spec => []TypeOK
  <1>1. TypeInv => TypeOK BY TypeInvImplies
  <1>2. QED BY <1>1, TypeInit, TypeStep, PTL DEF Spec

-----------------------------------------------------------------------------
(***************************************************************************)
(* What apply has tested stays in force.                                   *)
(***************************************************************************)

\* A write leaves the other files alone.
LEMMA WrittenElsewhere ==
  ASSUME DOMAIN file = Files, NEW f \in Files \ {"devices"}, NEW g \in Names \ {f, "cpu.max"}, NEW v
  PROVE  Written(g, v)[f] = file[f]
  <1>1. f # g /\ f # "devices" /\ f \in DOMAIN file OBVIOUS
  <1>2. CASE g \in {"allow", "deny"} BY <1>1, <1>2 DEF Written, Keyed
  <1>3. CASE g \in Keyed BY <1>1, <1>3 DEF Written, Keyed
  <1>4. CASE g \in {"mem", "swap", "soft", "kmem", "tcp", "high", "min"} BY <1>1, <1>4 DEF Written, Keyed
  <1>5. CASE g \in {"shares", "huge", "freezer"} BY <1>1, <1>5 DEF Written, Keyed
  <1>6. CASE g \in Numbers \ {"shares"} BY <1>1, <1>6 DEF Written, Keyed, Numbers
  <1>7. CASE g \in {"cpus", "mems"} BY <1>1, <1>7 DEF Written, Keyed
  <1>8. QED BY <1>2, <1>3, <1>4, <1>5, <1>6, <1>7 DEF Names, Keyed, Numbers

\* A step that does not disturb f leaves it with v.
LEMMA CalmWrite ==
  ASSUME DOMAIN file = Files, NEW f \in Tested, NEW v, NEW s \in Calm(f, v), s \in Puts(Names),
         file[f] = v
  PROVE  Written(s.file, s.val)[f] = v
  <1>1. s.do \in {"write", "update"} /\ s.file \in Names BY PutsType
  <1>2. s.file # f BY <1>1 DEF Calm
  <1>3. f \in Files \ {"devices"} BY DEF Tested, Files
  <1>4. CASE s.file # "cpu.max" BY <1>1, <1>2, <1>3, <1>4, WrittenElsewhere
  <1>5. CASE s.file = "cpu.max"
    <2>1. (f = "quota" => s.val.quota = v) /\ (f = "period" => s.val.period = v) BY <1>1, <1>5 DEF Calm
    <2>2. Written("cpu.max", s.val) = [file EXCEPT !.quota = s.val.quota, !.period = s.val.period]
      BY DEF Written, Keyed
    <2>3. QED BY <1>3, <1>5, <2>1, <2>2
  <1>6. QED BY <1>4, <1>5

LEMMA Prefixed ==
  ASSUME NEW f, NEW v, NEW t \in Seq(Applied), NEW s, Settles(s, f, v)
  PROVE  Settles(t \o s, f, v)
  <1> DEFINE x == [do |-> "test", file |-> f, val |-> v]
  <1>1. PICK a \in Seq(Applied), b \in Seq(Calm(f, v)) : s = With(a, x, b) BY DEF Settles
  <1>2. t \o a \in Seq(Applied) BY Concat
  <1> HIDE DEF x
  <1>3. t \o s = With(t \o a, x, b) BY <1>1 DEF With
  <1>4. QED BY <1>2, <1>3 DEF Settles, x

LEMMA SettlesTail ==
  ASSUME NEW f, NEW v, NEW s, Settles(s, f, v)
  PROVE  /\ s # << >>
         /\ \/ Head(s) = [do |-> "test", file |-> f, val |-> v] /\ Tail(s) \in Seq(Calm(f, v))
            \/ Settles(Tail(s), f, v)
  <1> DEFINE x == [do |-> "test", file |-> f, val |-> v]
  <1>1. PICK a \in Seq(Applied), b \in Seq(Calm(f, v)) : s = With(a, x, b) BY DEF Settles
  <1> HIDE DEF x
  <1>2. s # << >> BY <1>1, WithNotEmpty
  <1>3. CASE a = << >>
    <2>1. Head(s) = x /\ Tail(s) = b BY <1>1, <1>3, WithFirst
    <2>2. QED BY <1>2, <2>1 DEF x
  <1>4. CASE a # << >>
    <2>1. Tail(s) = With(Tail(a), x, b) BY <1>1, <1>4, WithLater
    <2>2. Tail(a) \in Seq(Applied) BY <1>4
    <2>3. Settles(Tail(s), f, v) BY <2>1, <2>2 DEF Settles, x
    <2>4. QED BY <1>2, <2>3
  <1>5. QED BY <1>3, <1>4

\* The value of f has been tested, or will be.
Settled(f) ==
  (v2 => f # "class") /\ call.r[f] # none =>
    \/ Settles(call.todo, f, call.r[f])
    \/ file[f] = call.r[f] /\ call.todo \in Seq(Calm(f, call.r[f]))

TestInv ==
  call.op = "apply" => /\ call.todo \in Seq(Applied)
                       /\ call.res = "ok" => \A f \in Tested : Settled(f)

\* A step that takes the first of the remaining steps away, and is not the test.
LEMMA PassOn ==
  ASSUME NEW f \in Tested, Settled(f), call.todo # << >>, call.todo \in Seq(Applied), v2' = v2,
         call'.r = call.r, call'.todo = Tail(call.todo),
         Head(call.todo).do # "test" \/ file[Head(call.todo).file] = Head(call.todo).val,
         \A v : file[f] = v /\ Head(call.todo) \in Calm(f, v) => file'[f] = v,
         Head(call.todo).do = "test" => file' = file
  PROVE  Settled(f)'
  <1> DEFINE v == call.r[f]
  <1>1. SUFFICES ASSUME v2 => f # "class", v # none
                 PROVE  Settles(Tail(call.todo), f, v) \/ (file'[f] = v /\ Tail(call.todo) \in Seq(Calm(f, v)))
    BY DEF Settled
  <1>2. CASE Settles(call.todo, f, v)
    <2>1. CASE Head(call.todo) = [do |-> "test", file |-> f, val |-> v] /\ Tail(call.todo) \in Seq(Calm(f, v))
      BY <2>1
    <2>2. QED BY <1>2, <2>1, SettlesTail
  <1>3. CASE file[f] = v /\ call.todo \in Seq(Calm(f, v))
    <2>1. Head(call.todo) \in Calm(f, v) /\ Tail(call.todo) \in Seq(Calm(f, v)) BY <1>3, HeadTail
    <2>2. QED BY <1>3, <2>1
  <1>4. QED BY <1>1, <1>2, <1>3 DEF Settled

LEMMA TestStep == TypeInv /\ TestInv /\ [Next]_vars => TestInv'
  <1>1. SUFFICES ASSUME TypeInv, TestInv, [Next]_vars PROVE TestInv' OBVIOUS
  <1>2. /\ v2 \in BOOLEAN /\ asks \subseteq Request /\ FilesOK(file) /\ CallOK /\ DOMAIN file = Files
    BY <1>1 DEF TypeInv, FilesOK
  <1>3. ASSUME NEW op \in Ops, NEW r \in asks, Start(op, r) PROVE TestInv'
    <2>1. /\ call'.op = op /\ call'.r = r /\ call'.res = "ok"
          /\ op = "apply" => call'.todo = Apply(r)
      BY <1>2, <1>3, StartType
    <2>2. v2' = v2 BY <1>3 DEF Start
    <2>3. Part(Apply(r), r, IF v2 THEN Tested \ {"class"} ELSE Tested) BY <1>2, ApplyShape
    <2>4. Apply(r) \in Seq(Applied) BY <2>3 DEF Part
    <2>5. ASSUME NEW f \in Tested, v2 => f # "class", r[f] # none PROVE Settles(Apply(r), f, r[f])
      BY <2>3, <2>5 DEF Part
    <2>6. op = "apply" => \A f \in Tested : Settled(f)' BY <2>1, <2>2, <2>5 DEF Settled
    <2>7. QED BY <2>1, <2>4, <2>6 DEF TestInv
  <1>4. ASSUME call.todo # << >>, call.op = "apply"
        PROVE  /\ call.todo \in Seq(Applied) /\ Head(call.todo) \in Applied /\ Tail(call.todo) \in Seq(Applied)
               /\ call.res = "ok" => \A f \in Tested : Settled(f)
    <2>1. call.todo \in Seq(Applied) /\ (call.res = "ok" => \A f \in Tested : Settled(f))
      BY <1>1, <1>4 DEF TestInv
    <2>2. QED BY <1>4, <2>1
  <1>5. ASSUME call'.op = "apply" => call'.todo = << >>, call'.res # "ok" PROVE TestInv'
    <2>1. << >> \in Seq(Applied) OBVIOUS
    <2>2. QED BY <1>5, <2>1 DEF TestInv
  <1>6. CASE Writes
    <2>1. /\ call'.todo = Tail(call.todo) /\ call'.op = call.op /\ call'.r = call.r /\ call'.res = call.res
          /\ Head(call.todo) \in Puts(Names) /\ call.todo # << >> /\ v2' = v2
          /\ file' = Written(Head(call.todo).file, Head(call.todo).val)
      BY <1>1, <1>6, WritesType
    <2>2. Head(call.todo).do # "test" BY <2>1, PutsType
    <2>3. \A f \in Tested : \A v : file[f] = v /\ Head(call.todo) \in Calm(f, v) => file'[f] = v
      BY <1>2, <2>1, CalmWrite
    <2>4. CASE call.op = "apply"
      <3>1. call'.res = "ok" => \A f \in Tested : Settled(f)' BY <1>4, <2>1, <2>2, <2>3, <2>4, PassOn
      <3>2. QED BY <1>4, <2>1, <2>4, <3>1 DEF TestInv
    <2>5. QED BY <2>1, <2>4 DEF TestInv
  <1>7. CASE WriteFails
    <2>1. /\ call'.op = call.op /\ call'.r = call.r /\ UNCHANGED <<v2, file>>
          /\ Head(call.todo) \in Puts(Names) /\ call.todo # << >>
          /\ \/ call'.todo = Tail(call.todo) /\ call'.res = call.res
             \/ call'.todo = << >> /\ call'.res # "ok"
      BY <1>2, <1>7, WriteFailsType
    <2>2. Head(call.todo).do # "test" BY <2>1, PutsType
    <2>3. CASE call.op = "apply" /\ call'.todo = Tail(call.todo) /\ call'.res = call.res
      <3>1. call'.res = "ok" => \A f \in Tested : Settled(f)' BY <1>4, <2>1, <2>2, <2>3, PassOn
      <3>2. QED BY <1>4, <2>1, <2>3, <3>1 DEF TestInv
    <2>4. QED BY <1>5, <2>1, <2>3 DEF TestInv
  <1>8. CASE ReadsMemory
    <2>1. call.todo # << >> /\ Head(call.todo).do = "memory" BY <1>8 DEF ReadsMemory, At
    <2>2. call'.op = call.op BY <1>2, <1>8, MemoryType
    <2>3. call.op # "apply"
      <3>1. \A s \in Applied : s.do # "memory"
        <4>1. \A s \in Puts(Names) : s.do # "memory" BY PutsType
        <4>2. QED BY <4>1 DEF Applied, Plain, CpuReads, Failures, TestSteps
      <3>2. QED BY <1>4, <2>1, <3>1
    <2>4. QED BY <2>2, <2>3 DEF TestInv
  <1>9. CASE ReadsCpuMax
    <2> DEFINE h == Head(call.todo)
               w == Write("cpu.max", CpuMax(h, file))
    <2>1. /\ call'.op = call.op /\ call'.r = call.r /\ call'.res = call.res
          /\ w \in Seq(Puts({"cpu.max"})) /\ call'.todo = w \o Tail(call.todo)
      BY <1>2, <1>9, CpuMaxType
    <2>2. call.todo # << >> /\ h.do = "cpu.max" /\ UNCHANGED <<v2, file>> BY <1>9 DEF ReadsCpuMax, At
    <2>3. Puts({"cpu.max"}) \subseteq Applied
      <3>1. {"cpu.max"} \subseteq Names BY DEF Names
      <3>2. QED BY <3>1, PlainMonotonic DEF Applied
    <2>4. w \in Seq(Applied) BY <2>1, <2>3, Wider
    <2>5. CASE call.op = "apply"
      <3>1. call'.todo \in Seq(Applied)
        <4>1. Tail(call.todo) \in Seq(Applied) BY <1>4, <2>2, <2>5
        <4> HIDE DEF w
        <4>2. QED BY <2>1, <2>4, <4>1, Concat
      <3>2. ASSUME call.res = "ok", NEW f \in Tested PROVE Settled(f)'
        <4> DEFINE v == call.r[f]
        <4>1. SUFFICES ASSUME v2 => f # "class", v # none
                       PROVE  Settles(w \o Tail(call.todo), f, v)
                                \/ (file[f] = v /\ w \o Tail(call.todo) \in Seq(Calm(f, v)))
          BY <2>1, <2>2 DEF Settled
        <4>2. Settled(f) BY <1>4, <2>2, <2>5, <3>2
        <4>3. CASE Settles(call.todo, f, v)
          <5>1. Settles(Tail(call.todo), f, v) BY <2>2, <4>3, SettlesTail
          <5> HIDE DEF w
          <5>2. QED BY <2>4, <5>1, Prefixed
        <4>4. CASE file[f] = v /\ call.todo \in Seq(Calm(f, v))
          <5>1. h \in Calm(f, v) /\ Tail(call.todo) \in Seq(Calm(f, v)) BY <2>2, <4>4, HeadTail
          <5>2. [do |-> "write", file |-> "cpu.max", val |-> CpuMax(h, file)] \in Calm(f, v)
            <6>1. [do |-> "write", file |-> "cpu.max", val |-> CpuMax(h, file)] \in Applied
              BY <2>4 DEF Write
            <6>2. (f = "quota" => h.quota = none) /\ (f = "period" => h.period = none)
              BY <2>2, <5>1 DEF Calm
            <6>3. (f = "quota" => CpuMax(h, file).quota = v) /\ (f = "period" => CpuMax(h, file).period = v)
              BY <4>4, <6>2 DEF CpuMax
            <6> HIDE DEF h, v
            <6>4. f # "cpu.max" BY DEF Tested
            <6>5. QED BY <6>1, <6>3, <6>4 DEF Calm
          <5>3. w \in Seq(Calm(f, v)) BY <5>2 DEF Write
          <5> HIDE DEF w
          <5>4. QED BY <4>4, <5>1, <5>3, Concat
        <4>5. QED BY <4>1, <4>2, <4>3, <4>4 DEF Settled
      <3>3. QED BY <2>1, <3>1, <3>2 DEF TestInv
    <2>6. QED BY <2>1, <2>5 DEF TestInv
  <1>10. CASE Tests
    <2>1. /\ call'.op = call.op /\ call'.r = call.r /\ UNCHANGED <<v2, file>> /\ call.todo # << >>
          /\ \/ /\ file[Head(call.todo).file] = Head(call.todo).val
                /\ call'.todo = Tail(call.todo) /\ call'.res = call.res
             \/ call'.todo = << >> /\ call'.res # "ok"
      BY <1>2, <1>10, TestsType
    <2>2. CASE /\ call.op = "apply" /\ file[Head(call.todo).file] = Head(call.todo).val
               /\ call'.todo = Tail(call.todo) /\ call'.res = call.res
      <3>1. call'.res = "ok" => \A f \in Tested : Settled(f)' BY <1>4, <2>1, <2>2, PassOn
      <3>2. QED BY <1>4, <2>1, <2>2, <3>1 DEF TestInv
    <2>3. QED BY <1>5, <2>1, <2>2 DEF TestInv
  <1>11. CASE Fails
    <2>1. call'.todo = << >> /\ call'.res # "ok" BY <1>2, <1>11, FailsType DEF Errors, Gone
    <2>2. QED BY <1>5, <2>1
  <1>12. ASSUME UNCHANGED <<v2, call>>, \A f \in Tested : file'[f] = file[f] PROVE TestInv'
    <2>1. \A f \in Tested : Settled(f) => Settled(f)' BY <1>12 DEF Settled
    <2>2. QED BY <1>1, <1>12, <2>1 DEF TestInv
  <1>13. CASE Charge BY <1>12, <1>13 DEF Charge
  <1>14. CASE Freezes
    <2>1. \A f \in Tested : f # "freezer" BY DEF Tested
    <2>2. file' = [file EXCEPT !["freezer"] = "frozen"] /\ UNCHANGED <<v2, call>> BY <1>14 DEF Freezes
    <2>3. Tested \subseteq Files BY DEF Tested, Files
    <2>4. \A f \in Tested : file'[f] = file[f] BY <1>2, <2>1, <2>2, <2>3
    <2>5. QED BY <1>12, <2>2, <2>4
  <1>15. CASE UNCHANGED vars BY <1>12, <1>15 DEF vars
  <1>16. QED
    BY <1>1, <1>3, <1>6, <1>7, <1>8, <1>9, <1>10, <1>11, <1>13, <1>14, <1>15 DEF Next

\* When apply returns Ok, the values that it tests are in force, also those tested
\* before other files were written.
THEOREM TestedInForce == Spec => []OkMeansTested
  <1>1. Init => TestInv BY DEF Init, Idle, TestInv
  <1>2. TypeInv /\ TestInv => OkMeansTested
    <2>1. SUFFICES ASSUME TestInv, Finished("apply", "ok"),
                          NEW f \in {"shares", "period", "quota", "pids", "huge"} \union (IF v2 THEN {} ELSE {"class"}),
                          call.r[f] # none
                   PROVE  file[f] = call.r[f]
      BY DEF OkMeansTested
    <2>2. f \in Tested /\ (v2 => f # "class") BY DEF Tested
    <2>3. Settled(f) /\ call.todo = << >> BY <2>1, <2>2 DEF TestInv, Finished
    <2>4. ~Settles(<< >>, f, call.r[f]) BY SettlesTail
    <2>5. QED BY <2>1, <2>2, <2>3, <2>4 DEF Settled
  <1>3. QED BY <1>1, <1>2, TypeInit, TypeStep, TestStep, PTL DEF Spec

-----------------------------------------------------------------------------
(***************************************************************************)
(* The limits of memory.                                                   *)
(***************************************************************************)

Unrelated == Plain(Others, Gone)

\* set has not yet read the state of the memory controller.
Waiting == \E a, b \in Seq(Unrelated) : call.todo = With(a, [do |-> "memory"], b)

LEMMA WaitingSplit ==
  ASSUME Waiting
  PROVE  /\ call.todo # << >>
         /\ \/ Head(call.todo) = [do |-> "memory"] /\ Tail(call.todo) \in Seq(Unrelated)
            \/ /\ Head(call.todo) \in Unrelated
               /\ \E a, b \in Seq(Unrelated) : Tail(call.todo) = With(a, [do |-> "memory"], b)
  <1>1. PICK a \in Seq(Unrelated), b \in Seq(Unrelated) : call.todo = With(a, [do |-> "memory"], b)
    BY DEF Waiting
  <1>2. call.todo # << >> BY <1>1, WithNotEmpty
  <1>3. CASE a = << >>
    <2> DEFINE x == [do |-> "memory"]
    <2>1. call.todo = With(<< >>, x, b) BY <1>1, <1>3
    <2> HIDE DEF x
    <2>2. Head(call.todo) = x /\ Tail(call.todo) = b BY <2>1, WithFirst
    <2>3. QED BY <1>2, <2>2 DEF x
  <1>4. CASE a # << >>
    <2>1. Head(a) \in Unrelated /\ Tail(a) \in Seq(Unrelated) BY <1>4, HeadTail
    <2>2. Head(call.todo) = Head(a) /\ Tail(call.todo) = With(Tail(a), [do |-> "memory"], b)
      BY <1>1, <1>4, WithLater
    <2>3. QED BY <1>2, <2>1, <2>2
  <1>5. QED BY <1>3, <1>4

\* Kinds of steps that write or read other things.
LEMMA PlainKinds ==
  ASSUME NEW F, NEW E, NEW s \in Plain(F, E)
  PROVE  /\ s.do \in {"write", "update", "cpu.max", "fail"}
         /\ s.do \in {"write", "update"} => s \in Puts(F) /\ s.file \in F /\ s.val \in Values(s.file)
         /\ s.do = "fail" => s.err \in E
  <1>1. \A p \in Puts(F) : p.do \in {"write", "update"} /\ p.file \in F /\ p.val \in Values(p.file)
    BY PutsType
  <1>2. QED BY <1>1 DEF Plain, CpuReads, Failures

LEMMA UnrelatedWrite ==
  ASSUME DOMAIN file = Files, NEW f \in Limits, NEW g \in Names \ {f}, NEW v
  PROVE  Written(g, v)[f] = file[f]
  <1>1. f \in Files \ {"devices"} BY DEF Limits, Files
  <1>2. g \in Names /\ g # f OBVIOUS
  <1>3. CASE g # "cpu.max" BY <1>1, <1>2, <1>3, WrittenElsewhere
  <1>4. CASE g = "cpu.max"
    <2>1. Written("cpu.max", v) = [file EXCEPT !.quota = v.quota, !.period = v.period] BY DEF Written, Keyed
    <2>2. f # "quota" /\ f # "period" BY DEF Limits
    <2>3. QED BY <1>1, <1>4, <2>1, <2>2
  <1>5. QED BY <1>3, <1>4

\* Before that read no step touches a limit.
LEMMA WaitingStep ==
  ASSUME TypeInv, Waiting, Writes \/ WriteFails \/ ReadsCpuMax \/ Tests \/ Fails
  PROVE  /\ Waiting' \/ call'.todo = << >>
         /\ \A f \in Limits : file'[f] = file[f]
         /\ v2' = v2 /\ call'.op = call.op /\ call'.r = call.r /\ call'.before = call.before
         /\ call'.todo # << >> => call'.res = call.res
         /\ call'.res = call.res \/ call'.res # "order"
  <1>1. FilesOK(file) /\ CallOK /\ DOMAIN file = Files /\ v2 \in BOOLEAN BY DEF TypeInv, FilesOK
  <1>2. call.todo # << >> BY WaitingSplit
  <1> DEFINE h == Head(call.todo)
             Rest == \E a, b \in Seq(Unrelated) : Tail(call.todo) = With(a, [do |-> "memory"], b)
  <1>3. h.do # "memory" BY <1>2 DEF Writes, WriteFails, ReadsCpuMax, Tests, Fails, At
  <1>4. h \in Unrelated /\ Rest BY <1>3, WaitingSplit
  <1>5. /\ h.do \in {"write", "update", "cpu.max", "fail"}
        /\ h.do \in {"write", "update"} => h \in Puts(Others) /\ h.file \in Others /\ h.val \in Values(h.file)
    BY <1>4, PlainKinds DEF Unrelated
  <1>6. call'.todo = Tail(call.todo) => Waiting' BY <1>4 DEF Waiting
  <1> HIDE DEF Rest
  <1>7. CASE Writes
    <2>1. /\ call'.todo = Tail(call.todo) /\ v2' = v2 /\ call'.op = call.op /\ call'.r = call.r
          /\ call'.before = call.before /\ call'.res = call.res
          /\ file' = Written(h.file, h.val) /\ h \in Puts(Names)
      BY <1>7, WritesType
    <2>2. h.do \in {"write", "update"} BY <2>1, PutsType
    <2>3. ASSUME NEW f \in Limits PROVE file'[f] = file[f]
      <3>1. h.file \in Names \ {f} BY <1>5, <2>2 DEF Others
      <3>2. QED BY <1>1, <2>1, <3>1, UnrelatedWrite
    <2>4. QED BY <1>6, <2>1, <2>3
  <1>8. CASE WriteFails
    <2>1. /\ UNCHANGED <<v2, file>> /\ call'.op = call.op /\ call'.r = call.r /\ call'.before = call.before
          /\ h \in Puts(Names)
          /\ \/ call'.todo = Tail(call.todo) /\ call'.res = call.res
             \/ call'.todo = << >> /\ (call'.res \in {"refused", "busy", "missing"} \/ h.file \in {"mem", "swap"})
      BY <1>1, <1>8, WriteFailsType
    <2>2. h.do \in {"write", "update"} BY <2>1, PutsType
    <2>3. h.file \notin {"mem", "swap"} BY <1>5, <2>2 DEF Others, Limits
    <2>4. QED BY <1>6, <2>1, <2>3
  <1>9. CASE ReadsCpuMax
    <2> DEFINE w == Write("cpu.max", CpuMax(h, file))
    <2>1. /\ call'.op = call.op /\ call'.r = call.r /\ call'.before = call.before /\ call'.res = call.res
          /\ w \in Seq(Puts({"cpu.max"})) /\ call'.todo = w \o Tail(call.todo)
      BY <1>1, <1>9, CpuMaxType
    <2>2. UNCHANGED <<v2, file>> BY <1>9 DEF ReadsCpuMax
    <2>3. Puts({"cpu.max"}) \subseteq Unrelated
      <3>1. {"cpu.max"} \subseteq Others BY DEF Others, Names, Limits
      <3>2. QED BY <3>1, PlainMonotonic DEF Unrelated
    <2> HIDE DEF w
    <2>4. w \in Seq(Unrelated) BY <2>1, <2>3, Wider
    <2>5. PICK a \in Seq(Unrelated), b \in Seq(Unrelated) : Tail(call.todo) = With(a, [do |-> "memory"], b)
      BY <1>4 DEF Rest
    <2>6. w \o a \in Seq(Unrelated) BY <2>4, Concat
    <2>7. w \o Tail(call.todo) = With(w \o a, [do |-> "memory"], b)
      <3> DEFINE x == [do |-> "memory"]
      <3> HIDE DEF x
      <3>1. w \o With(a, x, b) = With(w \o a, x, b) BY <2>4, WithAfter
      <3>2. QED BY <2>5, <3>1 DEF x
    <2>8. Waiting' BY <2>1, <2>6, <2>7 DEF Waiting
    <2>9. QED BY <2>1, <2>2, <2>8
  <1>10. CASE Tests
    <2>1. h.do = "test" BY <1>10 DEF Tests, At
    <2>2. QED BY <1>5, <2>1
  <1>11. CASE Fails
    <2>1. /\ UNCHANGED <<v2, file>> /\ call'.op = call.op /\ call'.r = call.r /\ call'.before = call.before
          /\ call'.todo = << >> /\ call'.res \in Errors
      BY <1>1, <1>11, FailsType
    <2>2. QED BY <2>1 DEF Errors, Gone
  <1>12. QED BY <1>7, <1>8, <1>9, <1>10, <1>11

\* A set starts by waiting.
LEMMA WaitingStart ==
  ASSUME asks \subseteq Request, NEW r \in asks, Start("set", r), "set" \in Ops
  PROVE  Waiting'
  <1>1. call'.todo = Set(r) BY StartType
  <1>2. PICK a \in Seq(Unrelated), b \in Seq(Unrelated) : Set(r) = a \o ReadMemory \o b
    BY SetShape DEF Unrelated
  <1>3. Set(r) = With(a, [do |-> "memory"], b) BY <1>2 DEF With, ReadMemory
  <1>4. QED BY <1>1, <1>3 DEF Waiting

\* The tasks that stop do not change the limits.
LEMMA FreezesLimits ==
  ASSUME DOMAIN file = Files, Freezes
  PROVE  UNCHANGED <<v2, call>> /\ \A f \in Limits : file'[f] = file[f]
  <1>1. file' = [file EXCEPT !["freezer"] = "frozen"] /\ UNCHANGED <<v2, call>> BY DEF Freezes
  <1>2. Limits \subseteq Files /\ \A f \in Limits : f # "freezer" BY DEF Limits, Files
  <1>3. QED BY <1>1, <1>2

Same == \A f \in Limits : file[f] = call.before[f]

\* The steps of set after the read, on v2.
Settling == Unrelated \union Puts(Limits)

\* set either rejects the request before it has written a limit or never calls it
\* invalid.
InvalidInv ==
  v2 /\ call.op = "set" =>
    \/ Same /\ Waiting /\ call.res # "invalid"
    \/ Same /\ \E b \in Seq(Unrelated) : call.todo = With(<< >>, [do |-> "fail", err |-> "invalid"], b)
    \/ Same /\ call.todo = << >>
    \/ call.todo \in Seq(Settling) /\ call.res # "invalid"

LEMMA SettlingKinds ==
  ASSUME NEW s \in Settling
  PROVE  s.do \in {"write", "update", "cpu.max", "fail"} /\ (s.do = "fail" => s.err \in Gone)
  <1>1. CASE s \in Unrelated BY <1>1, PlainKinds DEF Unrelated
  <1>2. CASE s \in Puts(Limits) BY <1>2, PutsType
  <1>3. QED BY <1>1, <1>2 DEF Settling

LEMMA InvalidStep == TypeInv /\ InvalidInv /\ [Next]_vars => InvalidInv'
  <1>1. SUFFICES ASSUME TypeInv, InvalidInv, [Next]_vars PROVE InvalidInv' OBVIOUS
  <1>2. /\ v2 \in BOOLEAN /\ asks \subseteq Request /\ FilesOK(file) /\ CallOK /\ DOMAIN file = Files
    BY <1>1 DEF TypeInv, FilesOK
  <1>3. ASSUME NEW op \in Ops, NEW r \in asks, Start(op, r) PROVE InvalidInv'
    <2>1. call'.op = op /\ call'.before = file /\ call'.res = "ok" BY <1>2, <1>3, StartType
    <2>2. file' = file BY <1>3 DEF Start
    <2>3. Same' BY <2>1, <2>2 DEF Same
    <2>4. op = "set" => Waiting' BY <1>2, <1>3, WaitingStart
    <2>5. QED BY <2>1, <2>3, <2>4 DEF InvalidInv
  <1>4. ASSUME \A f \in Limits : file'[f] = file[f], call'.before = call.before, Same PROVE Same'
    BY <1>4 DEF Same
  <1>5. ASSUME v2 => v2', call'.op = call.op, Same', call'.todo = << >> PROVE InvalidInv'
    BY <1>5 DEF InvalidInv
  <1>6. ASSUME Writes \/ WriteFails \/ ReadsCpuMax \/ Tests \/ Fails, v2, call.op = "set" PROVE InvalidInv'
    <2>1. CASE Same /\ Waiting /\ call.res # "invalid"
      <3>1. /\ Waiting' \/ call'.todo = << >>
            /\ \A f \in Limits : file'[f] = file[f]
            /\ call'.before = call.before
            /\ call'.todo # << >> => call'.res = call.res
        BY <1>1, <1>6, <2>1, WaitingStep
      <3>2. Same' BY <1>4, <2>1, <3>1
      <3>3. QED BY <2>1, <3>1, <3>2 DEF InvalidInv
    <2>2. CASE Same /\ \E b \in Seq(Unrelated) : call.todo = With(<< >>, [do |-> "fail", err |-> "invalid"], b)
      <3> DEFINE x == [do |-> "fail", err |-> "invalid"]
      <3>1. PICK b \in Seq(Unrelated) : call.todo = With(<< >>, x, b) BY <2>2
      <3>2. x.do = "fail" OBVIOUS
      <3> HIDE DEF x
      <3>3. Head(call.todo) = x BY <3>1, WithFirst
      <3>4. Fails BY <1>6, <3>2, <3>3 DEF Writes, WriteFails, ReadsCpuMax, Tests, At
      <3>5. /\ UNCHANGED <<v2, file>> /\ call'.op = call.op /\ call'.before = call.before /\ call'.todo = << >>
        BY <1>2, <3>4, FailsType
      <3>6. Same' BY <1>4, <2>2, <3>5
      <3>7. QED BY <1>5, <3>5, <3>6
    <2>3. CASE Same /\ call.todo = << >>
      BY <1>6, <2>3 DEF Writes, WriteFails, ReadsCpuMax, Tests, Fails, At
    <2>4. CASE call.todo \in Seq(Settling) /\ call.res # "invalid"
      <3>1. call.todo # << >> BY <1>6 DEF Writes, WriteFails, ReadsCpuMax, Tests, Fails, At
      <3>2. Head(call.todo) \in Settling /\ Tail(call.todo) \in Seq(Settling) BY <2>4, <3>1, HeadTail
      <3>3. /\ Head(call.todo).do \in {"write", "update", "cpu.max", "fail"}
            /\ Head(call.todo).do = "fail" => Head(call.todo).err \in Gone
        BY <3>2, SettlingKinds
      <3>4. << >> \in Seq(Settling) OBVIOUS
      <3>5. SUFFICES call'.todo \in Seq(Settling) /\ call'.res # "invalid" BY DEF InvalidInv
      <3>6. CASE Writes BY <1>1, <2>4, <3>2, <3>6, WritesType
      <3>7. CASE WriteFails
        <4>1. \/ call'.todo = Tail(call.todo) /\ call'.res = call.res
              \/ call'.todo = << >> /\ call'.res \in {"refused", "busy", "missing", "order"}
          BY <1>2, <3>7, WriteFailsType
        <4>2. CASE call'.todo = Tail(call.todo) /\ call'.res = call.res BY <2>4, <3>2, <4>2
        <4>3. CASE call'.todo = << >> /\ call'.res \in {"refused", "busy", "missing", "order"}
          <5>1. call'.res # "invalid" BY <4>3
          <5>2. QED BY <3>4, <4>3, <5>1
        <4>4. QED BY <4>1, <4>2, <4>3
      <3>8. CASE ReadsCpuMax
        <4> DEFINE w == Write("cpu.max", CpuMax(Head(call.todo), file))
        <4>1. /\ call'.res = call.res /\ w \in Seq(Puts({"cpu.max"})) /\ call'.todo = w \o Tail(call.todo)
          BY <1>2, <3>8, CpuMaxType
        <4>2. Puts({"cpu.max"}) \subseteq Settling
          <5>1. {"cpu.max"} \subseteq Others BY DEF Others, Names, Limits
          <5>2. QED BY <5>1, PlainMonotonic DEF Settling, Unrelated
        <4> HIDE DEF w
        <4>3. w \in Seq(Settling) BY <4>1, <4>2, Wider
        <4>4. QED BY <2>4, <3>2, <4>1, <4>3, Concat
      <3>9. CASE Tests BY <3>3, <3>9 DEF Tests, At
      <3>10. CASE Fails
        <4>1. call'.todo = << >> /\ call'.res \in Gone BY <1>2, <3>3, <3>10, FailsType
        <4>2. QED BY <3>4, <4>1 DEF Gone
      <3>11. QED BY <1>6, <3>6, <3>7, <3>8, <3>9, <3>10
    <2>5. QED BY <1>1, <1>6, <2>1, <2>2, <2>3, <2>4 DEF InvalidInv
  <1>7. CASE ReadsMemory
    <2>1. /\ call'.op = call.op /\ call'.r = call.r /\ call'.before = call.before /\ call'.res = call.res
          /\ v2 => call'.todo = MemoryV2(call.r) \o Tail(call.todo)
      BY <1>2, <1>7, MemoryType
    <2>2. UNCHANGED <<v2, file>> /\ call.todo # << >> /\ Head(call.todo).do = "memory" BY <1>7 DEF ReadsMemory, At
    <2>3. SUFFICES ASSUME v2, call.op = "set" PROVE InvalidInv' BY <2>1, <2>2 DEF InvalidInv
    <2>4. ~(\E b \in Seq(Unrelated) : call.todo = With(<< >>, [do |-> "fail", err |-> "invalid"], b))
      <3> DEFINE x == [do |-> "fail", err |-> "invalid"]
      <3>1. x.do # "memory" OBVIOUS
      <3> HIDE DEF x
      <3>2. \A b \in Seq(Unrelated) : call.todo # With(<< >>, x, b) BY <2>2, <3>1, WithFirst
      <3>3. QED BY <3>2 DEF x
    <2>5. ~(call.todo \in Seq(Settling)) BY <2>2, HeadTail, SettlingKinds
    <2>6. Same /\ Waiting /\ call.res # "invalid" BY <1>1, <2>2, <2>3, <2>4, <2>5 DEF InvalidInv
    <2>7. Tail(call.todo) \in Seq(Unrelated)
      <3>1. \A s \in Unrelated : s.do # "memory" BY PlainKinds DEF Unrelated
      <3>2. QED BY <2>2, <2>6, <3>1, WaitingSplit
    <2>8. Same' BY <1>4, <2>1, <2>2, <2>6
    <2>9. call.r \in Request BY <1>2, <2>2, NextStep
    <2>10. CASE MemoryV2(call.r) = Fail("invalid")
      <3>1. call'.todo = With(<< >>, [do |-> "fail", err |-> "invalid"], Tail(call.todo))
        <4> DEFINE x == [do |-> "fail", err |-> "invalid"]
        <4>1. call'.todo = <<x>> \o Tail(call.todo) BY <2>1, <2>3, <2>10 DEF Fail
        <4> HIDE DEF x
        <4>2. call'.todo = With(<< >>, x, Tail(call.todo)) BY <4>1 DEF With
        <4>3. QED BY <4>2 DEF x
      <3>2. QED BY <2>7, <2>8, <3>1 DEF InvalidInv
    <2>11. CASE MemoryV2(call.r) \in Seq(Puts(Limits))
      <3>1. MemoryV2(call.r) \in Seq(Settling) /\ Tail(call.todo) \in Seq(Settling)
        BY <2>7, <2>11, Wider DEF Settling
      <3>2. call'.todo \in Seq(Settling) BY <2>1, <2>3, <3>1, Concat
      <3>3. QED BY <2>1, <2>6, <3>2 DEF InvalidInv
    <2>12. QED BY <2>9, <2>10, <2>11, MemoryV2Shape
  <1>8. ASSUME UNCHANGED <<v2, call>>, \A f \in Limits : file'[f] = file[f] PROVE InvalidInv'
    <2>1. Same => Same' BY <1>4, <1>8
    <2>2. Waiting => Waiting' BY <1>8 DEF Waiting
    <2>3. QED BY <1>1, <1>8, <2>1, <2>2 DEF InvalidInv
  <1>9. CASE Charge BY <1>8, <1>9 DEF Charge
  <1>10. CASE Freezes BY <1>2, <1>8, <1>10, FreezesLimits
  <1>11. CASE UNCHANGED vars BY <1>8, <1>11 DEF vars
  <1>12. ASSUME v2' = v2, call'.op = call.op, ~(v2 /\ call.op = "set") PROVE InvalidInv'
    BY <1>12 DEF InvalidInv
  <1>13. Writes \/ WriteFails \/ ReadsCpuMax \/ Tests \/ Fails => v2' = v2 /\ call'.op = call.op
    BY <1>1, <1>2, WritesType, WriteFailsType, CpuMaxType, TestsType, FailsType
       DEF Writes, WriteFails, ReadsCpuMax, Tests, Fails
  <1>14. QED BY <1>1, <1>3, <1>6, <1>7, <1>9, <1>10, <1>11, <1>12, <1>13 DEF Next

\* On v2 a request rejected as invalid has not changed the limits of memory.
THEOREM InvalidRequests == Spec => []InvalidChangesNothing
  <1>1. Init => InvalidInv BY DEF Init, Idle, InvalidInv
  <1>2. InvalidInv => InvalidChangesNothing
    <2>1. SUFFICES ASSUME InvalidInv, v2, Finished("set", "invalid")
                   PROVE  \A f \in {"mem", "swap", "soft"} : file[f] = call.before[f]
      BY DEF InvalidChangesNothing
    <2>2. call.op = "set" /\ call.todo = << >> /\ call.res = "invalid" BY <2>1 DEF Finished
    <2>3. Same BY <2>1, <2>2 DEF InvalidInv
    <2>4. QED BY <2>3 DEF Same, Limits
  <1>3. QED BY <1>1, <1>2, TypeInit, TypeStep, InvalidStep, PTL DEF Spec

-----------------------------------------------------------------------------
(***************************************************************************)
(* The order of the two limits.                                            *)
(***************************************************************************)

\* The limits that a request asks for fit each other.
Fit(r) ==
  LET limit == OrZero(r.limit)
      swap == OrZero(r.swap)
  IN  \/ limit = Unlimited /\ swap \in {0, Unlimited}
      \/ limit > 0 /\ (swap = Unlimited \/ swap >= limit)

\* Steps of set that touch neither of the two limits.
Rest == Plain(Names \ Sized, Errors)
Limiting(f, n) == [do |-> "write", file |-> f, val |-> n]
SizeArgs == Unlimited .. NoLimit

\* What is left to do begins with the writes of limits, in an order in which the
\* kernel takes each of them.
LastLimit ==
  \E n \in SizeArgs, b \in Seq(Rest) :
    \/ call.todo = With(<< >>, Limiting("mem", n), b) /\ Size(n) <= file.swap
    \/ call.todo = With(<< >>, Limiting("swap", n), b) /\ file.mem <= Size(n)
BothLimits ==
  \E n \in SizeArgs, m \in SizeArgs, b \in Seq(Rest) :
    /\ Size(n) <= Size(m)
    /\ \/ /\ call.todo = With(<< >>, Limiting("swap", m), With(<< >>, Limiting("mem", n), b))
          /\ file.mem <= Size(m)
       \/ /\ call.todo = With(<< >>, Limiting("mem", n), With(<< >>, Limiting("swap", m), b))
          /\ Size(n) <= file.swap

OrderInv ==
  ~v2 /\ call.op = "set" /\ Fit(call.r) =>
    /\ call.res # "order"
    /\ Waiting \/ BothLimits \/ LastLimit \/ call.todo \in Seq(Rest)

LEMMA WithFirstOf ==
  ASSUME NEW A, NEW b \in Seq(A), NEW x, NEW y
  PROVE  /\ Head(With(<< >>, y, With(<< >>, x, b))) = y
         /\ Tail(With(<< >>, y, With(<< >>, x, b))) = With(<< >>, x, b)
         /\ With(<< >>, y, With(<< >>, x, b)) # << >>
  <1> DEFINE t == With(<< >>, x, b)
  <1>1. t \in Seq(A \union {x})
    <2>1. b \in Seq(A \union {x}) /\ <<x>> \in Seq(A \union {x}) BY Wider
    <2>2. QED BY <2>1 DEF With
  <1> HIDE DEF t
  <1>2. Head(With(<< >>, y, t)) = y /\ Tail(With(<< >>, y, t)) = t BY <1>1, WithFirst
  <1>3. With(<< >>, y, t) # << >>
    <2>1. << >> \in Seq(A \union {x}) OBVIOUS
    <2>2. QED BY <1>1, <2>1, WithNotEmpty
  <1>4. QED BY <1>2, <1>3 DEF t

\* The limits that fit are written in one of the two good orders.
LEMMA OrderStarts ==
  ASSUME NEW r \in Request, Fit(r), file.mem \in 0 .. NoLimit, file.swap \in 0 .. NoLimit,
         file.mem <= file.swap
  PROVE  \E n \in SizeArgs, m \in SizeArgs :
           /\ Size(n) <= Size(m)
           /\ \/ /\ LimitsV1(OrZero(r.limit), OrZero(r.swap), file.mem)
                      = Write("swap", m) \o Write("mem", n)
                 /\ file.mem <= Size(m)
              \/ /\ LimitsV1(OrZero(r.limit), OrZero(r.swap), file.mem)
                      = Write("mem", n) \o Write("swap", m)
                 /\ Size(n) <= file.swap
  <1> DEFINE limit == OrZero(r.limit)
             swap0 == OrZero(r.swap)
             swap == IF limit = Unlimited /\ swap0 = 0 THEN Unlimited ELSE swap0
  <1>1. /\ limit \in Int /\ swap0 \in Int /\ limit <= NoLimit /\ swap0 <= NoLimit
    BY SizeTypes
  <1>2. \/ limit = Unlimited /\ swap0 \in {0, Unlimited}
        \/ limit > 0 /\ (swap0 = Unlimited \/ swap0 >= limit)
    BY DEF Fit
  <1>3. LimitsV1(limit, swap0, file.mem) =
          (IF limit # 0 /\ swap # 0 /\ (swap = Unlimited \/ file.mem < swap)
             THEN (IF swap # 0 THEN Write("swap", swap) ELSE << >>)
                    \o (IF limit # 0 THEN Write("mem", limit) ELSE << >>)
             ELSE (IF limit # 0 THEN Write("mem", limit) ELSE << >>)
                    \o (IF swap # 0 THEN Write("swap", swap) ELSE << >>))
    BY DEF LimitsV1
  <1> HIDE DEF limit, swap0
  <1>4. NoLimit \in Nat /\ NoLimit > 1 /\ Unlimited = -1 BY TopAssumption DEF NoLimit, Unlimited
  <1>5. limit # 0 /\ swap # 0 /\ limit \in SizeArgs /\ swap \in SizeArgs
    BY <1>1, <1>2, <1>4 DEF SizeArgs
  <1>6. Size(limit) <= Size(swap) BY <1>1, <1>2, <1>4 DEF Size
  <1>7. CASE swap = Unlimited \/ file.mem < swap
    <2>1. file.mem <= Size(swap) BY <1>4, <1>5, <1>7 DEF Size, SizeArgs
    <2>2. LimitsV1(limit, swap0, file.mem) = Write("swap", swap) \o Write("mem", limit)
      BY <1>3, <1>5, <1>7
    <2> HIDE DEF swap
    <2>3. QED BY <1>5, <1>6, <2>1, <2>2 DEF limit, swap0
  <1>8. CASE ~(swap = Unlimited \/ file.mem < swap)
    <2>1. Size(limit) <= file.swap
      <3>1. Size(swap) = swap /\ swap <= file.mem BY <1>5, <1>8 DEF Size, SizeArgs
      <3>2. Size(limit) \in Int BY <1>1, <1>4 DEF Size
      <3> HIDE DEF swap
      <3>3. QED BY <1>5, <1>6, <3>1, <3>2 DEF SizeArgs
    <2>2. LimitsV1(limit, swap0, file.mem) = Write("mem", limit) \o Write("swap", swap)
      BY <1>3, <1>5, <1>8
    <2> HIDE DEF swap
    <2>3. QED BY <1>5, <1>6, <2>1, <2>2 DEF limit, swap0
  <1>9. QED BY <1>7, <1>8

LEMMA TwoThen ==
  ASSUME NEW A, NEW b \in Seq(A), NEW x, NEW y
  PROVE  (<<x>> \o <<y>>) \o b = With(<< >>, x, With(<< >>, y, b))
  BY DEF With

LEMMA RestKinds ==
  ASSUME NEW s \in Rest
  PROVE  /\ s.do \in {"write", "update", "cpu.max", "fail"}
         /\ s.do \in {"write", "update"} => s.file \in Names \ Sized
  BY PlainKinds DEF Rest

\* A limit in the right order is not refused.
LEMMA NotRefused ==
  ASSUME ~v2, NEW n \in SizeArgs, file.mem \in 0 .. NoLimit, file.swap \in 0 .. NoLimit
  PROVE  /\ Size(n) <= file.swap => ~Refused("mem", n)
         /\ file.mem <= Size(n) => ~Refused("swap", n)
  <1>1. NoLimit \in Int /\ n \in Int /\ ~(n < Unlimited) /\ Size(n) \in Int
    BY TopAssumption DEF SizeArgs, Size, Unlimited, NoLimit
  <1>2. Refused("mem", n) => Size(n) > file.swap BY <1>1 DEF Refused
  <1>3. Refused("swap", n) => Size(n) < file.mem BY <1>1 DEF Refused
  <1>4. QED BY <1>1, <1>2, <1>3

LEMMA WrittenLimit ==
  ASSUME DOMAIN file = Files, NEW n
  PROVE  /\ Written("mem", n).mem = Size(n) /\ Written("mem", n).swap = file.swap
         /\ Written("swap", n).swap = Size(n) /\ Written("swap", n).mem = file.mem
  <1>1. Written("mem", n) = [file EXCEPT !["mem"] = Size(n)] BY DEF Written, Keyed
  <1>2. Written("swap", n) = [file EXCEPT !["swap"] = Size(n)] BY DEF Written, Keyed
  <1>3. "mem" \in Files /\ "swap" \in Files BY DEF Files
  <1>4. QED BY <1>1, <1>2, <1>3

LEMMA WithOneOf ==
  ASSUME NEW A, NEW b \in Seq(A), NEW x
  PROVE  Head(With(<< >>, x, b)) = x /\ Tail(With(<< >>, x, b)) = b /\ With(<< >>, x, b) # << >>
  <1>1. << >> \in Seq(A) OBVIOUS
  <1>2. QED BY <1>1, WithFirst, WithNotEmpty

\* A limit is written, or the write fails for another reason than its order.
LEMMA LimitStep ==
  ASSUME TypeInv, ~v2, call.todo # << >>, Head(call.todo).do = "write",
         Writes \/ WriteFails \/ ReadsMemory \/ ReadsCpuMax \/ Tests \/ Fails,
         NEW f \in Sized, NEW n \in SizeArgs, Head(call.todo) = Limiting(f, n),
         f = "mem" => Size(n) <= file.swap, f = "swap" => file.mem <= Size(n)
  PROVE  \/ /\ call'.todo = Tail(call.todo) /\ call'.res = call.res
            /\ f = "mem" => file'.mem = Size(n) /\ file'.swap = file.swap
            /\ f = "swap" => file'.swap = Size(n) /\ file'.mem = file.mem
         \/ call'.todo = << >> /\ call'.res # "order"
  <1>1. FilesOK(file) /\ CallOK /\ DOMAIN file = Files BY DEF TypeInv, FilesOK
  <1>2. Head(call.todo).file = f /\ Head(call.todo).val = n /\ Head(call.todo).do = "write"
    BY DEF Limiting
  <1>3. file.mem \in 0 .. NoLimit /\ file.swap \in 0 .. NoLimit
    <2>1. Held("mem") = 0 .. NoLimit /\ Held("swap") = 0 .. NoLimit BY HeldDef
    <2>2. QED BY <1>1, <2>1 DEF FilesOK, Files
  <1>4. ~Refused(f, n) BY <1>3, NotRefused DEF Sized
  <1>5. Writes \/ WriteFails BY <1>2 DEF ReadsMemory, ReadsCpuMax, Tests, Fails, At
  <1>6. CASE Writes
    <2>1. call'.todo = Tail(call.todo) /\ call'.res = call.res /\ file' = Written(f, n)
      BY <1>2, <1>6, WritesType
    <2>2. f = "mem" => file'.mem = Size(n) /\ file'.swap = file.swap BY <1>1, <2>1, WrittenLimit
    <2>3. f = "swap" => file'.swap = Size(n) /\ file'.mem = file.mem BY <1>1, <2>1, WrittenLimit
    <2>4. QED BY <2>1, <2>2, <2>3
  <1>7. CASE WriteFails
    <2>1. \/ Head(call.todo).do = "update"
          \/ call'.todo = << >> /\ call'.res \in {"refused", "busy", "missing"}
          \/ Refused(f, n)
      BY <1>1, <1>2, <1>7, WriteFailsType
    <2>2. QED BY <1>2, <1>4, <2>1
  <1>8. QED BY <1>5, <1>6, <1>7

\* The steps that touch neither limit.
LEMMA RestStep ==
  ASSUME TypeInv, call.todo # << >>, call.todo \in Seq(Rest),
         Writes \/ WriteFails \/ ReadsMemory \/ ReadsCpuMax \/ Tests \/ Fails
  PROVE  call'.todo \in Seq(Rest) /\ (call'.res = call.res \/ call'.res # "order")
  <1>1. FilesOK(file) /\ CallOK /\ v2 \in BOOLEAN BY DEF TypeInv
  <1>2. Head(call.todo) \in Rest /\ Tail(call.todo) \in Seq(Rest) BY HeadTail
  <1>3. /\ Head(call.todo).do \in {"write", "update", "cpu.max", "fail"}
        /\ Head(call.todo).do \in {"write", "update"} => Head(call.todo).file \in Names \ Sized
    BY <1>2, RestKinds
  <1>4. << >> \in Seq(Rest) OBVIOUS
  <1>5. CASE Writes BY <1>2, <1>5, WritesType
  <1>6. CASE WriteFails
    <2>1. Head(call.todo).file \notin {"mem", "swap"} BY <1>3, <1>6 DEF WriteFails, At, Sized
    <2>2. \/ call'.todo = Tail(call.todo) /\ call'.res = call.res
          \/ call'.todo = << >> /\ call'.res \in {"refused", "busy", "missing"}
      BY <1>1, <1>6, <2>1, WriteFailsType
    <2>3. CASE call'.todo = Tail(call.todo) /\ call'.res = call.res BY <1>2, <2>3
    <2>4. CASE call'.todo = << >> /\ call'.res \in {"refused", "busy", "missing"}
      <3>1. call'.res # "order" BY <2>4
      <3>2. QED BY <1>4, <2>4, <3>1
    <2>5. QED BY <2>2, <2>3, <2>4
  <1>7. CASE ReadsMemory BY <1>3, <1>7 DEF ReadsMemory, At
  <1>8. CASE ReadsCpuMax
    <2> DEFINE w == Write("cpu.max", CpuMax(Head(call.todo), file))
    <2>1. /\ call'.res = call.res /\ w \in Seq(Puts({"cpu.max"})) /\ call'.todo = w \o Tail(call.todo)
      BY <1>1, <1>8, CpuMaxType
    <2>2. Puts({"cpu.max"}) \subseteq Rest
      <3>1. {"cpu.max"} \subseteq Names \ Sized BY DEF Names, Sized
      <3>2. QED BY <3>1, PlainMonotonic DEF Rest
    <2> HIDE DEF w
    <2>3. w \in Seq(Rest) BY <2>1, <2>2, Wider
    <2>4. QED BY <1>2, <2>1, <2>3, Concat
  <1>9. CASE Tests BY <1>3, <1>9 DEF Tests, At
  <1>10. CASE Fails
    <2>1. call'.todo = << >> /\ call'.res \in Errors BY <1>1, <1>10, FailsType
    <2>2. call'.res # "order" BY <2>1 DEF Errors, Gone
    <2>3. QED BY <1>4, <2>1, <2>2
  <1>11. QED BY <1>5, <1>6, <1>7, <1>8, <1>9, <1>10

\* What comes after the read of the state of the memory controller.
LEMMA OrderRead ==
  ASSUME TypeInv, ~v2, ReadsMemory, Waiting, call.op = "set", Fit(call.r)
  PROVE  BothLimits'
  <1>1. /\ FilesOK(file) /\ CallOK /\ v2 \in BOOLEAN /\ DOMAIN file = Files /\ call.todo # << >>
        /\ Head(call.todo).do = "memory" /\ file' = file
    BY DEF TypeInv, FilesOK, ReadsMemory, At
  <1>2. call.r \in Request BY <1>1, NextStep
  <1>3. call'.todo = MemoryV1(call.r) \o Tail(call.todo) BY <1>1, MemoryType
  <1>4. Tail(call.todo) \in Seq(Rest)
    <2>1. \A s \in Unrelated : s.do # "memory" BY PlainKinds DEF Unrelated
    <2>2. Tail(call.todo) \in Seq(Unrelated) BY <1>1, <2>1, WaitingSplit
    <2>3. Unrelated \subseteq Rest
      <3>1. Others \subseteq Names \ Sized /\ Gone \subseteq Errors
        BY DEF Others, Limits, Sized, Errors
      <3>2. QED BY <3>1, PlainMonotonic DEF Unrelated, Rest
    <2>4. QED BY <2>2, <2>3, Wider
  <1> DEFINE first == LimitsV1(OrZero(call.r.limit), OrZero(call.r.swap), file.mem)
  <1>5. first \in Seq(Puts(Sized))
        /\ \E rest \in Seq(Plain(Names \ Sized, {"invalid"})) : MemoryV1(call.r) = first \o rest
    BY <1>2, MemoryV1Shape
  <1>6. PICK n \in SizeArgs, m \in SizeArgs :
          /\ Size(n) <= Size(m)
          /\ \/ first = Write("swap", m) \o Write("mem", n) /\ file.mem <= Size(m)
             \/ first = Write("mem", n) \o Write("swap", m) /\ Size(n) <= file.swap
    <2>1. Held("mem") = 0 .. NoLimit /\ Held("swap") = 0 .. NoLimit BY HeldDef
    <2>2. file.mem \in 0 .. NoLimit /\ file.swap \in 0 .. NoLimit /\ file.mem <= file.swap
      BY <1>1, <2>1 DEF FilesOK, Files
    <2>3. QED BY <1>2, <2>2, OrderStarts
  <1> HIDE DEF first
  <1>7. PICK rest \in Seq(Plain(Names \ Sized, {"invalid"})) : MemoryV1(call.r) = first \o rest
    BY <1>5
  <1> DEFINE b == rest \o Tail(call.todo)
  <1>8. rest \in Seq(Rest)
    <2>1. Names \ Sized \subseteq Names \ Sized /\ {"invalid"} \subseteq Errors BY DEF Errors
    <2>2. Plain(Names \ Sized, {"invalid"}) \subseteq Rest BY <2>1, PlainMonotonic DEF Rest
    <2>3. QED BY <2>2, Wider
  <1>9. b \in Seq(Rest) BY <1>4, <1>8, Concat
  <1>10. call'.todo = first \o b
    <2> DEFINE S == Puts(Sized) \union Rest
               t == Tail(call.todo)
    <2>1. first \in Seq(S) /\ rest \in Seq(S) /\ t \in Seq(S) BY <1>4, <1>5, <1>8, Wider
    <2> HIDE DEF S, t
    <2>2. first \o rest \o t = first \o (rest \o t) BY <2>1, Shift
    <2>3. QED BY <1>3, <1>7, <2>2 DEF t
  <1> HIDE DEF b
  <1>11. (file.mem <= Size(m) => file'.mem <= Size(m)) /\ (Size(n) <= file.swap => Size(n) <= file'.swap)
    BY <1>1
  <1> DEFINE x == Limiting("mem", n)
             y == Limiting("swap", m)
  <1>12. Write("mem", n) = <<x>> /\ Write("swap", m) = <<y>> BY DEF Write, Limiting
  <1> HIDE DEF x, y
  <1>13. (<<x>> \o <<y>>) \o b = With(<< >>, x, With(<< >>, y, b)) BY <1>9, TwoThen
  <1>14. (<<y>> \o <<x>>) \o b = With(<< >>, y, With(<< >>, x, b)) BY <1>9, TwoThen
  <1>15. \/ call'.todo = With(<< >>, y, With(<< >>, x, b)) /\ file'.mem <= Size(m)
         \/ call'.todo = With(<< >>, x, With(<< >>, y, b)) /\ Size(n) <= file'.swap
    BY <1>6, <1>10, <1>11, <1>12, <1>13, <1>14
  <1>16. QED BY <1>6, <1>9, <1>15 DEF BothLimits, x, y

\* The first of two limits is written: the second one fits.
LEMMA BothStep ==
  ASSUME TypeInv, ~v2, BothLimits,
         Writes \/ WriteFails \/ ReadsMemory \/ ReadsCpuMax \/ Tests \/ Fails
  PROVE  (LastLimit' /\ call'.res = call.res) \/ (call'.todo = << >> /\ call'.res # "order")
  <1>1. PICK n \in SizeArgs, m \in SizeArgs, b \in Seq(Rest) :
          /\ Size(n) <= Size(m)
          /\ \/ /\ call.todo = With(<< >>, Limiting("swap", m), With(<< >>, Limiting("mem", n), b))
                /\ file.mem <= Size(m)
             \/ /\ call.todo = With(<< >>, Limiting("mem", n), With(<< >>, Limiting("swap", m), b))
                /\ Size(n) <= file.swap
    BY DEF BothLimits
  <1> DEFINE x == Limiting("mem", n)
             y == Limiting("swap", m)
  <1>2. x.do = "write" /\ y.do = "write" BY DEF Limiting
  <1>3. "mem" \in Sized /\ "swap" \in Sized BY DEF Sized
  <1>4. CASE call.todo = With(<< >>, y, With(<< >>, x, b)) /\ file.mem <= Size(m)
    <2> HIDE DEF x, y
    <2>1. Head(call.todo) = y /\ Tail(call.todo) = With(<< >>, x, b) /\ call.todo # << >>
      BY <1>4, WithFirstOf
    <2> USE DEF y
    <2>2. \/ call'.todo = Tail(call.todo) /\ call'.res = call.res /\ file'.swap = Size(m)
          \/ call'.todo = << >> /\ call'.res # "order"
      BY <1>2, <1>3, <1>4, <2>1, LimitStep
    <2>3. file'.swap = Size(m) => Size(n) <= file'.swap BY <1>1
    <2> HIDE DEF y
    <2>4. QED BY <2>1, <2>2, <2>3 DEF LastLimit, x
  <1>5. CASE call.todo = With(<< >>, x, With(<< >>, y, b)) /\ Size(n) <= file.swap
    <2> HIDE DEF x, y
    <2>1. Head(call.todo) = x /\ Tail(call.todo) = With(<< >>, y, b) /\ call.todo # << >>
      BY <1>5, WithFirstOf
    <2> USE DEF x
    <2>2. \/ call'.todo = Tail(call.todo) /\ call'.res = call.res /\ file'.mem = Size(n)
          \/ call'.todo = << >> /\ call'.res # "order"
      BY <1>2, <1>3, <1>5, <2>1, LimitStep
    <2>3. file'.mem = Size(n) => file'.mem <= Size(m) BY <1>1
    <2> HIDE DEF x
    <2>4. QED BY <2>1, <2>2, <2>3 DEF LastLimit, y
  <1>6. QED BY <1>1, <1>4, <1>5

LEMMA LastStep ==
  ASSUME TypeInv, ~v2, LastLimit,
         Writes \/ WriteFails \/ ReadsMemory \/ ReadsCpuMax \/ Tests \/ Fails
  PROVE  (call'.todo \in Seq(Rest) /\ call'.res = call.res) \/ (call'.todo = << >> /\ call'.res # "order")
  <1>1. PICK n \in SizeArgs, b \in Seq(Rest), f \in Sized :
          /\ call.todo = With(<< >>, Limiting(f, n), b)
          /\ f = "mem" => Size(n) <= file.swap
          /\ f = "swap" => file.mem <= Size(n)
    <2>1. "mem" \in Sized /\ "swap" \in Sized BY DEF Sized
    <2>2. QED BY <2>1 DEF LastLimit
  <1> DEFINE x == Limiting(f, n)
  <1>2. x.do = "write" BY DEF Limiting
  <1>3. call.todo = With(<< >>, x, b) BY <1>1
  <1> HIDE DEF x
  <1>4. Head(call.todo) = x /\ Tail(call.todo) = b /\ call.todo # << >> BY <1>3, WithOneOf
  <1>5. Head(call.todo).do = "write" BY <1>2, <1>4
  <1>6. Head(call.todo) = Limiting(f, n) BY <1>4 DEF x
  <1>7. \/ call'.todo = Tail(call.todo) /\ call'.res = call.res
        \/ call'.todo = << >> /\ call'.res # "order"
    BY <1>1, <1>4, <1>5, <1>6, LimitStep
  <1>8. QED BY <1>4, <1>7

LEMMA OrderStep == TypeInv /\ OrderInv /\ [Next]_vars => OrderInv'
  <1>1. SUFFICES ASSUME TypeInv, OrderInv, [Next]_vars PROVE OrderInv' OBVIOUS
  <1>2. /\ v2 \in BOOLEAN /\ asks \subseteq Request /\ FilesOK(file) /\ CallOK /\ DOMAIN file = Files
    BY <1>1 DEF TypeInv, FilesOK
  <1>3. ASSUME NEW op \in Ops, NEW r \in asks, Start(op, r) PROVE OrderInv'
    <2>1. call'.op = op /\ call'.res = "ok" BY <1>2, <1>3, StartType
    <2>2. op = "set" => Waiting' BY <1>2, <1>3, WaitingStart
    <2>3. QED BY <2>1, <2>2 DEF OrderInv
  <1> DEFINE Acts == Writes \/ WriteFails \/ ReadsMemory \/ ReadsCpuMax \/ Tests \/ Fails
  <1>4. Acts => v2' = v2 /\ call'.op = call.op /\ call'.r = call.r /\ call.todo # << >>
    <2>1. Acts => call.todo # << >>
      BY DEF Writes, WriteFails, ReadsMemory, ReadsCpuMax, Tests, Fails, At
    <2>2. Writes => v2' = v2 /\ call'.op = call.op /\ call'.r = call.r BY <1>1, WritesType
    <2>3. WriteFails => v2' = v2 /\ call'.op = call.op /\ call'.r = call.r BY <1>2, WriteFailsType
    <2>4. ReadsMemory => v2' = v2 /\ call'.op = call.op /\ call'.r = call.r
      BY <1>2, MemoryType DEF ReadsMemory
    <2>5. ReadsCpuMax => v2' = v2 /\ call'.op = call.op /\ call'.r = call.r
      BY <1>2, CpuMaxType DEF ReadsCpuMax
    <2>6. Tests => v2' = v2 /\ call'.op = call.op /\ call'.r = call.r BY <1>2, TestsType
    <2>7. Fails => v2' = v2 /\ call'.op = call.op /\ call'.r = call.r BY <1>2, FailsType
    <2>8. QED BY <2>1, <2>2, <2>3, <2>4, <2>5, <2>6, <2>7
  <1>5. << >> \in Seq(Rest) OBVIOUS
  <1>6. CASE Acts
    <2>1. SUFFICES ASSUME ~v2, call.op = "set", Fit(call.r)
                   PROVE  /\ call'.res # "order"
                          /\ Waiting' \/ BothLimits' \/ LastLimit' \/ call'.todo \in Seq(Rest)
      BY <1>4, <1>6 DEF OrderInv
    <2>2. /\ call.res # "order"
          /\ Waiting \/ BothLimits \/ LastLimit \/ call.todo \in Seq(Rest)
      BY <1>1, <2>1 DEF OrderInv
    <2>3. CASE Waiting /\ ReadsMemory
      <3>1. BothLimits' BY <1>1, <2>1, <2>3, OrderRead
      <3>2. call'.res = call.res BY <1>2, <2>3, MemoryType
      <3>3. QED BY <2>2, <3>1, <3>2
    <2>4. CASE Waiting /\ ~ReadsMemory
      <3>1. Writes \/ WriteFails \/ ReadsCpuMax \/ Tests \/ Fails BY <1>6, <2>4
      <3>2. /\ Waiting' \/ call'.todo = << >>
            /\ call'.res = call.res \/ call'.res # "order"
        BY <1>1, <2>4, <3>1, WaitingStep
      <3>3. QED BY <1>5, <2>2, <3>2
    <2>5. CASE BothLimits BY <1>1, <1>5, <1>6, <2>1, <2>2, <2>5, BothStep
    <2>6. CASE LastLimit BY <1>1, <1>5, <1>6, <2>1, <2>2, <2>6, LastStep
    <2>7. CASE call.todo \in Seq(Rest) BY <1>1, <1>4, <1>6, <2>2, <2>7, RestStep
    <2>8. QED BY <2>2, <2>3, <2>4, <2>5, <2>6, <2>7
  <1>7. ASSUME UNCHANGED <<v2, call>>, \A f \in Limits : file'[f] = file[f] PROVE OrderInv'
    <2>1. file'.mem = file.mem /\ file'.swap = file.swap BY <1>7 DEF Limits
    <2>2. Waiting => Waiting' BY <1>7 DEF Waiting
    <2>3. BothLimits => BothLimits' BY <1>7, <2>1 DEF BothLimits
    <2>4. LastLimit => LastLimit' BY <1>7, <2>1 DEF LastLimit
    <2>5. QED BY <1>1, <1>7, <2>2, <2>3, <2>4 DEF OrderInv
  <1>8. CASE Charge BY <1>7, <1>8 DEF Charge
  <1>9. CASE Freezes BY <1>2, <1>7, <1>9, FreezesLimits
  <1>10. CASE UNCHANGED vars BY <1>7, <1>10 DEF vars
  <1>11. QED BY <1>1, <1>3, <1>6, <1>8, <1>9, <1>10 DEF Next

\* The two limits of v1 are written in an order that the kernel takes, whatever the
\* files held before: raising both, lowering both, or one of each.
THEOREM RightOrder == Spec => []LimitsInOrder
  <1>1. Init => OrderInv BY DEF Init, Idle, OrderInv
  <1>2. OrderInv => LimitsInOrder BY DEF OrderInv, LimitsInOrder, Fit
  <1>3. QED BY <1>1, <1>2, TypeInit, TypeStep, OrderStep, PTL DEF Spec

=============================================================================
