--------------------------- MODULE StatisticsProofs ---------------------------
(***************************************************************************)
(* Proofs about Statistics, for every machine: any number of CPUs, disks   *)
(* and sizes of huge pages, and any number of moves of the kernel's        *)
(* counters between the reads of one call.                                 *)
(***************************************************************************)
EXTENDS Statistics, SequenceTheorems, WellFoundedInduction, TLAPS

-----------------------------------------------------------------------------
(***************************************************************************)
(* Sequences.                                                              *)
(***************************************************************************)

\* Induction on natural numbers, as the least counterexample.
LEMMA Least ==
  ASSUME NEW T \in SUBSET Nat, T # {}
  PROVE  \E x \in T : \A y \in T : x <= y
  <1>1. PICK x \in T : \A y \in T : <<y, x>> \notin OpToRel(<, Nat)
    BY WFMin, NatLessThanWellFounded, Zenon
  <1>2. \A y \in T : ~(y < x) BY <1>1, Zenon DEF OpToRel
  <1>3. QED BY <1>2

\* FlattenSeq appends one part after the other.
LEMMA FlattenSteps ==
  ASSUME NEW ss, Len(ss) \in Nat, Len(ss) # 0
  PROVE  \E f : /\ FlattenSeq(ss) = f[Len(ss)]
               /\ \A i \in 1 .. Len(ss) : f[i] = IF i = 1 THEN ss[i] ELSE f[i - 1] \o ss[i]
  <1> DEFINE n == Len(ss)
             Eq(g, k) == g = [i \in 1 .. k |-> IF i = 1 THEN ss[i] ELSE g[i - 1] \o ss[i]]
             Bad == {k \in Nat : \A g : ~Eq(g, k)}
  <1>1. n \in Nat OBVIOUS
  <1>2. Bad = {}
    <2>1. SUFFICES ASSUME Bad # {} PROVE FALSE OBVIOUS
    <2>2. PICK k \in Bad : \A j \in Bad : k <= j BY <2>1, Least
    <2>3. CASE k = 0
      <3>1. Eq([i \in 1 .. 0 |-> i], 0) OBVIOUS
      <3>2. QED BY <2>2, <2>3, <3>1
    <2>4. CASE k # 0
      <3>1. k - 1 \in Nat /\ ~(k <= k - 1) BY <2>2, <2>4
      <3>2. PICK g : Eq(g, k - 1)
        <4> HIDE DEF Eq
        <4>1. k - 1 \notin Bad BY <2>2, <3>1
        <4>2. QED BY <3>1, <4>1
      <3> DEFINE last == IF k = 1 THEN ss[k] ELSE g[k - 1] \o ss[k]
                 h == [i \in 1 .. k |-> IF i = k THEN last ELSE g[i]]
      <3>3. \A i \in 1 .. k : i # k => i \in 1 .. k - 1 BY <3>1
      <3>4. \A i \in 1 .. k : i # 1 => i - 1 \in 1 .. k - 1 /\ i - 1 \in 1 .. k /\ i - 1 # k BY <3>1
      <3>5. ASSUME NEW i \in 1 .. k PROVE h[i] = IF i = 1 THEN ss[i] ELSE h[i - 1] \o ss[i]
        <4>1. CASE i = k BY <3>4, <4>1
        <4>2. CASE i # k
          <5>1. h[i] = g[i] /\ i \in 1 .. k - 1 BY <3>3, <4>2
          <5>2. g[i] = IF i = 1 THEN ss[i] ELSE g[i - 1] \o ss[i] BY <3>2, <5>1
          <5>3. i # 1 => h[i - 1] = g[i - 1] BY <3>4
          <5>4. QED BY <5>1, <5>2, <5>3
        <4>3. QED BY <4>1, <4>2
      <3>6. Eq(h, k)
        <4> HIDE DEF last
        <4>1. h = [i \in 1 .. k |-> h[i]] OBVIOUS
        <4> HIDE DEF h
        <4>2. QED BY <3>5, <4>1
      <3>7. QED BY <2>2, <3>6
    <2>5. QED BY <2>3, <2>4
  <1> DEFINE f == CHOOSE g : Eq(g, n)
  <1>3. Eq(f, n)
    <2> HIDE DEF Eq
    <2>1. \E g : Eq(g, n) BY <1>1, <1>2
    <2>2. QED BY <2>1
  <1>4. n # 0 => FlattenSeq(ss) = f[n] BY DEF FlattenSeq
  <1>5. \A i \in 1 .. n : f[i] = IF i = 1 THEN ss[i] ELSE f[i - 1] \o ss[i]
    <2> HIDE DEF f
    <2>1. QED BY <1>3
  <1>6. QED BY <1>4, <1>5

\* What sequences with one of them have when they are appended, the flattened
\* sequence of such sequences has.
LEMMA FlattenClosed ==
  ASSUME NEW S, NEW T \in SUBSET Seq(S), << >> \in T, \A s, t \in T : s \o t \in T,
         NEW ss \in Seq(T)
  PROVE  FlattenSeq(ss) \in T
  <1> DEFINE n == Len(ss)
  <1>1. n \in Nat /\ \A i \in 1 .. n : ss[i] \in T OBVIOUS
  <1>2. CASE n = 0
    <2>1. ss = << >> BY <1>2
    <2>2. FlattenSeq(ss) = ss BY <1>2 DEF FlattenSeq
    <2>3. QED BY <2>1, <2>2
  <1>3. CASE n # 0
    <2>1. PICK f : /\ FlattenSeq(ss) = f[n]
                   /\ \A i \in 1 .. n : f[i] = IF i = 1 THEN ss[i] ELSE f[i - 1] \o ss[i]
      BY <1>1, <1>3, FlattenSteps
    <2> DEFINE Out == {i \in 1 .. n : f[i] \notin T}
    <2>2. ASSUME Out # {} PROVE FALSE
      <3>0. Out \in SUBSET Nat BY <1>1
      <3>1. PICK i \in Out : \A j \in Out : i <= j BY <2>2, <3>0, Least
      <3>2. i # 1 BY <1>1, <2>1, <3>1
      <3>3. i - 1 \in 1 .. n /\ ~(i <= i - 1) BY <3>1, <3>2
      <3>4. f[i - 1] \in T BY <3>1, <3>3
      <3>5. f[i] \in T BY <1>1, <2>1, <3>1, <3>2, <3>4
      <3>6. QED BY <3>1, <3>5
    <2>3. n \in 1 .. n BY <1>1, <1>3
    <2>4. QED BY <2>1, <2>2, <2>3
  <1>4. QED BY <1>2, <1>3

\* The flattened sequence has every element of its parts.
LEMMA FlattenHas ==
  ASSUME NEW S, NEW ss \in Seq(Seq(S)), NEW k \in 1 .. Len(ss), NEW x \in DOMAIN ss[k]
  PROVE  \E j \in DOMAIN FlattenSeq(ss) : FlattenSeq(ss)[j] = ss[k][x]
  <1> DEFINE n == Len(ss)
             Has(s) == \E j \in DOMAIN s : s[j] = ss[k][x]
  <1>1. n \in Nat /\ n # 0 /\ \A i \in 1 .. n : ss[i] \in Seq(S) OBVIOUS
  <1>2. PICK f : /\ FlattenSeq(ss) = f[n]
                 /\ \A i \in 1 .. n : f[i] = IF i = 1 THEN ss[i] ELSE f[i - 1] \o ss[i]
    BY <1>1, FlattenSteps
  <1>3. ASSUME NEW s \in Seq(S), NEW t \in Seq(S) PROVE Has(s) \/ Has(t) => Has(s \o t)
    <2>1. Len(s) \in Nat /\ Len(t) \in Nat /\ Len(s \o t) = Len(s) + Len(t)
          /\ DOMAIN s = 1 .. Len(s) /\ DOMAIN t = 1 .. Len(t) /\ DOMAIN (s \o t) = 1 .. Len(s) + Len(t)
      OBVIOUS
    <2>2. /\ \A j \in 1 .. Len(s) : (s \o t)[j] = s[j]
          /\ \A j \in 1 .. Len(t) : (s \o t)[Len(s) + j] = t[j]
      OBVIOUS
    <2>3. ASSUME NEW j \in DOMAIN s, s[j] = ss[k][x] PROVE Has(s \o t)
      <3>1. j \in DOMAIN (s \o t) BY <2>1
      <3>2. QED BY <2>1, <2>2, <2>3, <3>1
    <2>4. ASSUME NEW j \in DOMAIN t, t[j] = ss[k][x] PROVE Has(s \o t)
      <3>1. Len(s) + j \in DOMAIN (s \o t) BY <2>1
      <3>2. QED BY <2>1, <2>2, <2>4, <3>1
    <2>5. QED BY <2>3, <2>4
  <1> DEFINE Good(i) == f[i] \in Seq(S) /\ (k <= i => Has(f[i]))
             Out == {i \in 1 .. n : ~Good(i)}
  <1>4. Has(ss[k]) OBVIOUS
  <1> HIDE DEF Has
  <1>5. ASSUME Out # {} PROVE FALSE
    <2>0. Out \in SUBSET Nat BY <1>1
    <2>1. PICK i \in Out : \A j \in Out : i <= j BY <1>5, <2>0, Least
    <2>2. CASE i = 1 BY <1>1, <1>2, <1>4, <2>1, <2>2
    <2>3. CASE i # 1
      <3>1. i - 1 \in 1 .. n /\ ~(i <= i - 1) BY <2>1, <2>3
      <3>2. Good(i - 1) BY <2>1, <3>1
      <3>3. f[i] = f[i - 1] \o ss[i] /\ ss[i] \in Seq(S) BY <1>1, <1>2, <2>1, <2>3
      <3>4. k <= i => k = i \/ k <= i - 1 BY <2>1, <3>1
      <3>5. f[i] \in Seq(S) BY <3>2, <3>3
      <3>6. k <= i => Has(f[i]) BY <1>3, <1>4, <3>2, <3>3, <3>4
      <3>7. QED BY <2>1, <3>5, <3>6
    <2>4. QED BY <2>2, <2>3
  <1>6. n \in 1 .. n /\ k <= n BY <1>1
  <1>7. Has(f[n]) BY <1>5, <1>6
  <1>8. QED BY <1>2, <1>7 DEF Has

-----------------------------------------------------------------------------
(***************************************************************************)
(* The reads that the properties speak of: the usage, the maximum and the  *)
(* limit of a page counter, the limit on processes, cpu.stat, and on v1    *)
(* the counters of each size of huge pages.                                *)
(***************************************************************************)

Tags == {"memory", "memsw", "kmem"}
Unified(k) == v2 /\ k # "kmem"
UsageRead(k) ==
  Rd(<<k, "usage">>, <<k, IF Unified(k) THEN "current" ELSE "usage_in_bytes">>, "u64", 0)
PeakRead(k) ==
  Rd(<<k, "max_usage">>, <<k, IF Unified(k) THEN "peak" ELSE "max_usage_in_bytes">>, "u64", 0)
LimitRead(k) ==
  IF v2 /\ k = "memory" THEN Rd(<<k, "limit">>, <<k, "max">>, "max", NoLimit)
  ELSE Rd(<<k, "limit">>, <<k, IF Unified(k) THEN "max" ELSE "limit_in_bytes">>, "i64",
          IF k = "kmem" THEN -1 ELSE 0)
PidsRead == Rd(<<"pids", "limit">>, <<"pids", "max">>, "max", 0)
ThrottleRead == Rd(<<"cpu", "stat">>, <<"cpu", "stat">>, "text", << >>)

ZS == {custom_size(parse_size(d[1], d[2])[2]) : d \in Nat \X STRING}
HugeUsage(z) == Rd(<<"hugetlb", "usage", z>>, <<"hugetlb", "usage_in_bytes", z>>, "u64", 0)
HugePeak(z) == Rd(<<"hugetlb", "max_usage", z>>, <<"hugetlb", "max_usage_in_bytes", z>>, "u64", 0)

\* A read of one of those fields is the read above.
Legit(r) ==
  /\ \A k \in Tags : /\ r.field = <<k, "usage">> => r = UsageRead(k)
                     /\ r.field = <<k, "max_usage">> => r = PeakRead(k)
                     /\ r.field = <<k, "limit">> => r = LimitRead(k)
  /\ r.field = <<"pids", "limit">> => r = PidsRead
  /\ r.field = <<"cpu", "stat">> => r = ThrottleRead
  /\ ~v2 => \A z \in ZS : /\ r.field = <<"hugetlb", "usage", z>> => r = HugeUsage(z)
                          /\ r.field = <<"hugetlb", "max_usage", z>> => r = HugePeak(z)

\* A field that none of the above is.
Plain(f) == \/ f[1] \notin Tags \union {"pids", "cpu", "hugetlb"}
            \/ f[1] # "cpu" /\ f[2] \notin {"usage", "max_usage", "limit"}

LEMMA PlainFields ==
  ASSUME NEW f, Plain(f)
  PROVE  /\ \A k \in Tags : f # <<k, "usage">> /\ f # <<k, "max_usage">> /\ f # <<k, "limit">>
         /\ f # <<"pids", "limit">> /\ f # <<"cpu", "stat">>
         /\ \A z : f # <<"hugetlb", "usage", z>> /\ f # <<"hugetlb", "max_usage", z>>
  BY DEF Plain, Tags

LEMMA PlainRead ==
  ASSUME NEW f, NEW g, NEW a, NEW d, Plain(f)
  PROVE  Legit(Rd(f, g, a, d)) /\ Rd(f, g, a, d).field = f
  <1> DEFINE r == Rd(f, g, a, d)
  <1>1. r.field = f BY DEF Rd
  <1> HIDE DEF r
  <1>2. QED BY <1>1, PlainFields DEF Legit, r

LEMMA NamedFields ==
  /\ \A k \in Tags : /\ UsageRead(k).field = <<k, "usage">> /\ PeakRead(k).field = <<k, "max_usage">>
                     /\ LimitRead(k).field = <<k, "limit">>
  /\ PidsRead.field = <<"pids", "limit">> /\ ThrottleRead.field = <<"cpu", "stat">>
  /\ \A z : /\ HugeUsage(z).field = <<"hugetlb", "usage", z>>
            /\ HugePeak(z).field = <<"hugetlb", "max_usage", z>>
  BY DEF UsageRead, PeakRead, LimitRead, PidsRead, ThrottleRead, HugeUsage, HugePeak, Rd

LEMMA NamedReads ==
  /\ \A k \in Tags : Legit(UsageRead(k)) /\ Legit(PeakRead(k)) /\ Legit(LimitRead(k))
  /\ Legit(PidsRead) /\ Legit(ThrottleRead)
  /\ \A z \in ZS : Legit(HugeUsage(z)) /\ Legit(HugePeak(z))
  <1>1. ASSUME NEW k \in Tags PROVE Legit(UsageRead(k)) /\ Legit(PeakRead(k)) /\ Legit(LimitRead(k))
    <2>1. Legit(UsageRead(k)) BY NamedFields DEF Legit, Tags
    <2>2. Legit(PeakRead(k)) BY NamedFields DEF Legit, Tags
    <2>3. Legit(LimitRead(k)) BY NamedFields DEF Legit, Tags
    <2>4. QED BY <2>1, <2>2, <2>3
  <1>2. Legit(PidsRead) /\ Legit(ThrottleRead) BY NamedFields DEF Legit, Tags
  <1>3. ASSUME NEW z \in ZS PROVE Legit(HugeUsage(z)) /\ Legit(HugePeak(z))
    <2>1. Legit(HugeUsage(z)) BY NamedFields DEF Legit, Tags
    <2>2. Legit(HugePeak(z)) BY NamedFields DEF Legit, Tags
    <2>3. QED BY <2>1, <2>2
  <1>4. QED BY <1>1, <1>2, <1>3

-----------------------------------------------------------------------------
(***************************************************************************)
(* The order of the reads: of a counter, the usage is read before the      *)
(* maximum.                                                                *)
(***************************************************************************)

Pairs == {[u |-> UsageRead(k), x |-> PeakRead(k), k |-> k] : k \in Tags}
         \union (IF v2 THEN {} ELSE {[u |-> HugeUsage(z), x |-> HugePeak(z), k |-> "hugetlb"] : z \in ZS})
Ordered(s) ==
  \A p \in Pairs, i \in DOMAIN s :
    s[i].field = p.x.field => \E j \in DOMAIN s : j < i /\ s[j].field = p.u.field
IsList(s) ==
  /\ s \in Seq({s[i] : i \in DOMAIN s})
  /\ \A i \in DOMAIN s : Legit(s[i])
  /\ Ordered(s)
Has(s, f) == \E i \in DOMAIN s : s[i].field = f

LEMMA PairFields ==
  ASSUME NEW p \in Pairs
  PROVE  \/ /\ p.k \in Tags /\ p.u = UsageRead(p.k) /\ p.x = PeakRead(p.k)
            /\ p.u.field = <<p.k, "usage">> /\ p.x.field = <<p.k, "max_usage">>
         \/ /\ ~v2 /\ p.k = "hugetlb"
            /\ \E z \in ZS : /\ p.u = HugeUsage(z) /\ p.x = HugePeak(z)
                            /\ p.u.field = <<"hugetlb", "usage", z>>
                            /\ p.x.field = <<"hugetlb", "max_usage", z>>
  BY NamedFields DEF Pairs

LEMMA Lengths ==
  ASSUME NEW S, NEW s \in Seq(S), NEW t \in Seq(S)
  PROVE  /\ Len(s) \in Nat /\ Len(t) \in Nat /\ Len(s \o t) = Len(s) + Len(t) /\ s \o t \in Seq(S)
         /\ DOMAIN s = 1 .. Len(s) /\ DOMAIN t = 1 .. Len(t) /\ DOMAIN (s \o t) = 1 .. Len(s) + Len(t)
         /\ \A j \in 1 .. Len(s) : (s \o t)[j] = s[j]
         /\ \A j \in 1 .. Len(t) : (s \o t)[Len(s) + j] = t[j]
  OBVIOUS

\* The elements of two lists, in the list of both.
LEMMA Joined ==
  ASSUME NEW s, NEW t, IsList(s), IsList(t)
  PROVE  /\ Len(s) \in Nat /\ Len(t) \in Nat /\ Len(s \o t) = Len(s) + Len(t)
         /\ \E S : s \o t \in Seq(S)
         /\ DOMAIN s = 1 .. Len(s) /\ DOMAIN t = 1 .. Len(t) /\ DOMAIN (s \o t) = 1 .. Len(s) + Len(t)
         /\ \A j \in 1 .. Len(s) : (s \o t)[j] = s[j]
         /\ \A j \in 1 .. Len(t) : (s \o t)[Len(s) + j] = t[j]
  <1> DEFINE A == {s[i] : i \in DOMAIN s}
             B == {t[i] : i \in DOMAIN t}
             st == s \o t
  <1>1. s \in Seq(A) /\ t \in Seq(B) BY DEF IsList
  <1> HIDE DEF A, B
  <1>2. s \in Seq(A \union B) /\ t \in Seq(A \union B) BY <1>1
  <1>3. /\ Len(s) \in Nat /\ Len(t) \in Nat /\ Len(st) = Len(s) + Len(t) /\ st \in Seq(A \union B)
        /\ DOMAIN s = 1 .. Len(s) /\ DOMAIN t = 1 .. Len(t) /\ DOMAIN st = 1 .. Len(s) + Len(t)
        /\ \A j \in 1 .. Len(s) : st[j] = s[j]
        /\ \A j \in 1 .. Len(t) : st[Len(s) + j] = t[j]
    BY <1>2, Lengths
  <1> HIDE DEF st
  <1>4. QED BY <1>3 DEF st

LEMMA Appended ==
  ASSUME NEW s, NEW t, IsList(s), IsList(t)
  PROVE  /\ IsList(s \o t)
         /\ \A f : Has(s, f) \/ Has(t, f) => Has(s \o t, f)
         /\ Len(s) \in Nat /\ Len(t) \in Nat /\ Len(s \o t) = Len(s) + Len(t)
  <1> DEFINE n == Len(s)
             st == s \o t
  <1>1. /\ n \in Nat /\ Len(t) \in Nat /\ Len(st) = n + Len(t)
        /\ DOMAIN s = 1 .. n /\ DOMAIN t = 1 .. Len(t) /\ DOMAIN st = 1 .. n + Len(t)
    BY Joined
  <1>2. /\ \A j \in 1 .. n : st[j] = s[j]
        /\ \A j \in 1 .. Len(t) : st[n + j] = t[j]
    BY Joined
  <1>3. PICK S : st \in Seq(S) BY Joined
  <1> HIDE DEF n, st
  <1>4. /\ \A j \in DOMAIN s : j \in DOMAIN st /\ st[j] = s[j]
        /\ \A j \in DOMAIN t : n + j \in DOMAIN st /\ st[n + j] = t[j]
    BY <1>1, <1>2
  <1>5. ASSUME NEW i \in DOMAIN st, ~(i <= n) PROVE i - n \in DOMAIN t /\ n + (i - n) = i /\ st[i] = t[i - n]
    BY <1>1, <1>2, <1>5
  <1>6. ASSUME NEW i \in DOMAIN st, i <= n PROVE i \in DOMAIN s /\ st[i] = s[i]
    BY <1>1, <1>2, <1>6
  <1>7. ASSUME NEW i \in DOMAIN st PROVE Legit(st[i])
    <2>1. CASE i <= n BY <1>6, <2>1 DEF IsList
    <2>2. CASE ~(i <= n) BY <1>5, <2>2 DEF IsList
    <2>3. QED BY <2>1, <2>2
  <1>8. ASSUME NEW p \in Pairs, NEW i \in DOMAIN st, st[i].field = p.x.field
        PROVE  \E j \in DOMAIN st : j < i /\ st[j].field = p.u.field
    <2>1. CASE i <= n
      <3>1. PICK j \in DOMAIN s : j < i /\ s[j].field = p.u.field BY <1>6, <1>8, <2>1 DEF IsList, Ordered
      <3>2. QED BY <1>4, <3>1
    <2>2. CASE ~(i <= n)
      <3>1. i - n \in DOMAIN t /\ t[i - n].field = p.x.field BY <1>5, <1>8, <2>2
      <3>2. PICK j \in DOMAIN t : j < i - n /\ t[j].field = p.u.field BY <3>1 DEF IsList, Ordered
      <3>3. n + j < i BY <1>1, <1>8, <3>2
      <3>4. QED BY <1>4, <3>2, <3>3
    <2>3. QED BY <2>1, <2>2
  <1>9. st \in Seq({st[i] : i \in DOMAIN st}) BY <1>3
  <1>10. IsList(st) BY <1>1, <1>7, <1>8, <1>9 DEF IsList, Ordered
  <1>11. ASSUME NEW f, Has(s, f) \/ Has(t, f) PROVE Has(st, f) BY <1>4, <1>11 DEF Has
  <1>12. QED BY <1>1, <1>10, <1>11 DEF st, n

\* A list without any of the maxima is in order.
LEMMA NoPeak ==
  ASSUME NEW s, s \in Seq({s[i] : i \in DOMAIN s}), \A i \in DOMAIN s : Legit(s[i]),
         \A i \in DOMAIN s : /\ \A k \in Tags : s[i].field # <<k, "max_usage">>
                             /\ \A z \in ZS : v2 \/ s[i].field # <<"hugetlb", "max_usage", z>>
  PROVE  IsList(s)
  <1>1. \A p \in Pairs, i \in DOMAIN s : s[i].field # p.x.field BY PairFields
  <1>2. QED BY <1>1 DEF IsList, Ordered

\* The fields of a counter whose files have the names of v1.
LEMMA CounterList ==
  ASSUME NEW k \in Tags, ~Unified(k)
  PROVE  LET s == CounterReads(k, k, IF k = "kmem" THEN -1 ELSE 0)
         IN  IsList(s) /\ Has(s, <<k, "usage">>) /\ Has(s, <<k, "max_usage">>) /\ Has(s, <<k, "limit">>)
  <1> DEFINE s == CounterReads(k, k, IF k = "kmem" THEN -1 ELSE 0)
             fails == Rd(<<k, "fail_cnt">>, <<k, "failcnt">>, "u64", 0)
  <1>1. Legit(fails) /\ fails.field = <<k, "fail_cnt">>
    <2>1. Plain(<<k, "fail_cnt">>) BY DEF Plain, Tags
    <2>2. QED BY <2>1, PlainRead
  <1>2. s = <<fails, LimitRead(k), UsageRead(k), PeakRead(k)>>
    BY DEF CounterReads, LimitRead, UsageRead, PeakRead, Unified, Tags
  <1> HIDE DEF s, fails
  <1>3. s \in Seq({s[i] : i \in DOMAIN s}) /\ DOMAIN s = 1 .. 4
        /\ s[1] = fails /\ s[2] = LimitRead(k) /\ s[3] = UsageRead(k) /\ s[4] = PeakRead(k)
    BY <1>2
  <1>4. \A i \in DOMAIN s : i = 1 \/ i = 2 \/ i = 3 \/ i = 4 BY <1>3
  <1>5. \A i \in DOMAIN s : Legit(s[i]) BY <1>1, <1>3, <1>4, NamedReads
  <1>6. Ordered(s)
    <2> SUFFICES ASSUME NEW p \in Pairs, NEW i \in DOMAIN s, s[i].field = p.x.field
                 PROVE  \E j \in DOMAIN s : j < i /\ s[j].field = p.u.field
      BY DEF Ordered
    <2>1. s[i].field[1] = k /\ k # "hugetlb" BY <1>1, <1>3, <1>4, NamedFields DEF Tags
    <2>2. p.k = k /\ p.u.field = <<k, "usage">> /\ p.x.field = <<k, "max_usage">> BY <2>1, PairFields
    <2>3. i = 4 BY <1>1, <1>3, <1>4, <2>2, NamedFields
    <2>4. s[3].field = p.u.field /\ 3 \in DOMAIN s /\ 3 < i BY <1>3, <2>2, <2>3, NamedFields
    <2>5. QED BY <2>4
  <1>7. IsList(s) BY <1>3, <1>5, <1>6 DEF IsList
  <1>8. Has(s, <<k, "usage">>) /\ Has(s, <<k, "max_usage">>) /\ Has(s, <<k, "limit">>)
    BY <1>3, NamedFields DEF Has
  <1>9. QED BY <1>7, <1>8 DEF s

\* memory.stat and its neighbours are none of the named reads.
LEMMA PlainList ==
  ASSUME NEW s, s \in Seq({s[i] : i \in DOMAIN s}),
         \A i \in DOMAIN s : Plain(s[i].field) /\ Legit(s[i])
  PROVE  IsList(s)
  BY PlainFields, NoPeak

LEMMA MemoryListV1 ==
  ASSUME ~v2
  PROVE  /\ IsList(memory_stat_v1("memory")) /\ IsList(memory_stat_v1("again"))
         /\ \A f \in {"usage", "max_usage", "limit"} : Has(memory_stat_v1("memory"), <<"memory", f>>)
  <1> DEFINE tail(t) ==
        << Rd(<<t, "move_charge">>, <<"memory", "move_charge_at_immigrate">>, "u64", 0),
           Rd(<<t, "numa">>, <<"memory", "numa_stat">>, "numa", NoNuma),
           Rd(<<t, "oom">>, <<"memory", "oom_control">>, "oom", NoOom),
           Rd(<<t, "soft_limit">>, <<"memory", "soft_limit_in_bytes">>, "i64", 0),
           Rd(<<t, "stat">>, <<"memory", "stat">>, "stat", NoStat),
           Rd(<<t, "swappiness">>, <<"memory", "swappiness">>, "u64", 0),
           Rd(<<t, "use_hierarchy">>, <<"memory", "use_hierarchy">>, "u64", 0) >>
  <1>1. \A t : memory_stat_v1(t) = CounterReads(t, "memory", 0) \o tail(t) BY DEF memory_stat_v1
  <1>2. ASSUME NEW t \in {"memory", "again"} PROVE IsList(tail(t))
    <2>1. \A f \in {"move_charge", "numa", "oom", "soft_limit", "stat", "swappiness", "use_hierarchy"} :
            Plain(<<t, f>>)
      BY DEF Plain
    <2> DEFINE s == tail(t)
    <2>2. s \in Seq({s[i] : i \in DOMAIN s}) /\ DOMAIN s = 1 .. 7 OBVIOUS
    <2>3. \A i \in 1 .. 7 : i = 1 \/ i = 2 \/ i = 3 \/ i = 4 \/ i = 5 \/ i = 6 \/ i = 7 OBVIOUS
    <2>4. \A i \in 1 .. 7 : Plain(s[i].field) /\ Legit(s[i]) BY <2>1, <2>3, PlainRead
    <2> HIDE DEF s
    <2>5. IsList(s) BY <2>2, <2>4, PlainList
    <2>6. QED BY <2>5 DEF s
  <1>3. IsList(CounterReads("again", "memory", 0))
    <2> DEFINE s == CounterReads("again", "memory", 0)
    <2>1. \A f : Plain(<<"again", f>>) BY DEF Plain, Tags
    <2>2. s \in Seq({s[i] : i \in DOMAIN s}) /\ DOMAIN s = 1 .. 4
      BY DEF CounterReads
    <2>3. \A i \in 1 .. 4 : i = 1 \/ i = 2 \/ i = 3 \/ i = 4 OBVIOUS
    <2>4. \A i \in 1 .. 4 : Plain(s[i].field) /\ Legit(s[i]) BY <2>1, <2>3, PlainRead DEF CounterReads
    <2> HIDE DEF s
    <2>5. IsList(s) BY <2>2, <2>4, PlainList
    <2>6. QED BY <2>5 DEF s
  <1> HIDE DEF tail
  <1>4. LET s == CounterReads("memory", "memory", 0)
        IN  IsList(s) /\ \A f \in {"usage", "max_usage", "limit"} : Has(s, <<"memory", f>>)
    <2>1. "memory" \in Tags /\ ~Unified("memory") BY DEF Tags, Unified
    <2>2. QED BY <2>1, CounterList
  <1>5. QED BY <1>1, <1>2, <1>3, <1>4, Appended

LEMMA MemoryListV2 ==
  ASSUME v2
  PROVE  /\ IsList(memory_stat_v2("memory")) /\ IsList(memory_stat_v2("again")) /\ IsList(memswap_v2)
         /\ \A f \in {"usage", "max_usage", "limit"} :
              Has(memory_stat_v2("memory"), <<"memory", f>>) /\ Has(memswap_v2, <<"memsw", f>>)
  <1>1. /\ LimitRead("memory") = Rd(<<"memory", "limit">>, <<"memory", "max">>, "max", NoLimit)
        /\ UsageRead("memory") = Rd(<<"memory", "usage">>, <<"memory", "current">>, "u64", 0)
        /\ PeakRead("memory") = Rd(<<"memory", "max_usage">>, <<"memory", "peak">>, "u64", 0)
        /\ LimitRead("memsw") = Rd(<<"memsw", "limit">>, <<"memsw", "max">>, "i64", 0)
        /\ UsageRead("memsw") = Rd(<<"memsw", "usage">>, <<"memsw", "current">>, "u64", 0)
        /\ PeakRead("memsw") = Rd(<<"memsw", "max_usage">>, <<"memsw", "peak">>, "u64", 0)
    BY DEF LimitRead, UsageRead, PeakRead, Unified
  <1>2. \A t \in {"memory", "again", "memsw"}, f \in {"high", "soft_limit", "min", "stat", "swappiness", "fail_cnt"} :
          Plain(<<t, f>>)
    BY DEF Plain
  <1>3. \A f : Plain(<<"again", f>>) BY DEF Plain, Tags
  <1> DEFINE tail(t) == << Rd(<<t, "usage">>, <<"memory", "current">>, "u64", 0),
                           Rd(<<t, "max_usage">>, <<"memory", "peak">>, "u64", 0),
                           Rd(<<t, "stat">>, <<"memory", "stat">>, "stat", NoStat),
                           Rd(<<t, "swappiness">>, <<"memsw", "current">>, "u64", 0) >>
  <1>4. \A t : memory_stat_v2(t) = get_mem(t) \o tail(t) BY DEF memory_stat_v2
  <1>5. \A i \in 1 .. 4 : i = 1 \/ i = 2 \/ i = 3 \/ i = 4 OBVIOUS
  <1>6. ASSUME NEW t \in {"memory", "again"}
        PROVE  IsList(get_mem(t)) /\ (t = "memory" => Has(get_mem(t), <<"memory", "limit">>))
    <2> DEFINE s == get_mem(t)
    <2>1. s \in Seq({s[i] : i \in DOMAIN s}) /\ DOMAIN s = 1 .. 4 BY DEF get_mem
    <2>2. \A i \in 1 .. 4 : Legit(s[i])
      <3>1. Legit(s[1]) /\ Legit(s[2]) /\ Legit(s[4]) BY <1>2, PlainRead DEF get_mem
      <3>2. CASE t = "memory"
        <4>1. s[3] = LimitRead("memory") BY <1>1, <3>2 DEF get_mem
        <4>2. Legit(s[3]) BY <4>1, NamedReads DEF Tags
        <4>3. QED BY <1>5, <3>1, <4>2
      <3>3. CASE t = "again"
        <4>1. Legit(s[3]) BY <1>3, <3>3, PlainRead DEF get_mem
        <4>2. QED BY <1>5, <3>1, <4>1
      <3>4. QED BY <3>2, <3>3
    <2>3. \A i \in 1 .. 4 : s[i].field[2] \in {"high", "soft_limit", "limit", "min"}
      BY <1>5 DEF get_mem, Rd
    <2>4. t = "memory" => s[3].field = <<"memory", "limit">> BY DEF get_mem, Rd
    <2> HIDE DEF s
    <2>5. \A i \in 1 .. 4 : /\ \A k : s[i].field # <<k, "max_usage">>
                           /\ \A k, z : s[i].field # <<k, "max_usage", z>>
      BY <2>3
    <2>6. IsList(s) BY <2>1, <2>2, <2>5, NoPeak
    <2>7. t = "memory" => Has(s, <<"memory", "limit">>) BY <2>1, <2>4 DEF Has
    <2>8. QED BY <2>6, <2>7 DEF s
  <1>7. IsList(tail("again"))
    <2> DEFINE s == tail("again")
    <2>1. s \in Seq({s[i] : i \in DOMAIN s}) /\ DOMAIN s = 1 .. 4 OBVIOUS
    <2>2. \A i \in 1 .. 4 : Plain(s[i].field) /\ Legit(s[i]) BY <1>3, <1>5, PlainRead
    <2> HIDE DEF s
    <2>3. IsList(s) BY <2>1, <2>2, PlainList
    <2>4. QED BY <2>3 DEF s
  <1>8. ASSUME NEW s, NEW k \in {"memory", "memsw"}, s \in Seq({s[i] : i \in DOMAIN s}), DOMAIN s = 1 .. 4,
               NEW u \in 1 .. 3, s[u] = UsageRead(k), s[u + 1] = PeakRead(k),
               \A i \in 1 .. 4 : \/ i = u \/ i = u + 1
                                 \/ Legit(s[i]) /\ s[i].field[1] = k /\ s[i].field[2] # "max_usage"
        PROVE  IsList(s) /\ Has(s, <<k, "usage">>) /\ Has(s, <<k, "max_usage">>)
    <2>1. k \in Tags /\ k # "hugetlb" BY DEF Tags
    <2>2. u \in 1 .. 4 /\ u + 1 \in 1 .. 4 OBVIOUS
    <2>3. \A i \in 1 .. 4 : Legit(s[i]) BY <1>8, <2>1, NamedReads
    <2>4. ASSUME NEW p \in Pairs, NEW i \in DOMAIN s, s[i].field = p.x.field
          PROVE  \E j \in DOMAIN s : j < i /\ s[j].field = p.u.field
      <3>1. s[i].field[1] = k BY <1>8, <2>1, NamedFields
      <3>2. p.k = k /\ p.u.field = <<k, "usage">> /\ p.x.field = <<k, "max_usage">>
        BY <2>1, <2>4, <3>1, PairFields
      <3>3. i = u + 1 BY <1>8, <2>1, <2>4, <3>2, NamedFields
      <3>4. s[u].field = p.u.field /\ u \in DOMAIN s /\ u < i BY <1>8, <2>1, <2>2, <3>2, <3>3, NamedFields
      <3>5. QED BY <3>4
    <2>5. IsList(s) BY <1>8, <2>3, <2>4 DEF IsList, Ordered
    <2>6. Has(s, <<k, "usage">>) /\ Has(s, <<k, "max_usage">>) BY <1>8, <2>1, <2>2, NamedFields DEF Has
    <2>7. QED BY <2>5, <2>6
  <1>9. /\ IsList(tail("memory"))
        /\ Has(tail("memory"), <<"memory", "usage">>) /\ Has(tail("memory"), <<"memory", "max_usage">>)
    <2> DEFINE s == tail("memory")
    <2>1. s \in Seq({s[i] : i \in DOMAIN s}) /\ DOMAIN s = 1 .. 4 OBVIOUS
    <2>2. s[1] = UsageRead("memory") /\ s[1 + 1] = PeakRead("memory") BY <1>1
    <2>3. \A i \in {3, 4} : Legit(s[i]) /\ s[i].field[1] = "memory" /\ s[i].field[2] # "max_usage"
      BY <1>2, PlainRead
    <2> HIDE DEF s
    <2>4. \A i \in 1 .. 4 : i = 1 \/ i = 1 + 1 \/ i \in {3, 4} OBVIOUS
    <2>5. IsList(s) /\ Has(s, <<"memory", "usage">>) /\ Has(s, <<"memory", "max_usage">>)
      BY <1>8, <2>1, <2>2, <2>3, <2>4
    <2>6. QED BY <2>5 DEF s
  <1>10. /\ IsList(memswap_v2) /\ \A f \in {"usage", "max_usage", "limit"} : Has(memswap_v2, <<"memsw", f>>)
    <2> DEFINE s == memswap_v2
    <2>1. s \in Seq({s[i] : i \in DOMAIN s}) /\ DOMAIN s = 1 .. 4 BY DEF memswap_v2
    <2>2. s[3] = UsageRead("memsw") /\ s[3 + 1] = PeakRead("memsw") /\ s[2] = LimitRead("memsw")
      BY <1>1 DEF memswap_v2
    <2>3. Legit(s[1]) /\ s[1].field = <<"memsw", "fail_cnt">> BY <1>2, PlainRead DEF memswap_v2
    <2>4. Legit(s[2]) /\ s[2].field = <<"memsw", "limit">> BY <2>2, NamedReads, NamedFields DEF Tags
    <2> HIDE DEF s
    <2>5. \A i \in 1 .. 4 : i = 3 \/ i = 3 + 1 \/ i \in {1, 2} OBVIOUS
    <2>6. \A i \in {1, 2} : Legit(s[i]) /\ s[i].field[1] = "memsw" /\ s[i].field[2] # "max_usage" BY <2>3, <2>4
    <2>7. IsList(s) /\ Has(s, <<"memsw", "usage">>) /\ Has(s, <<"memsw", "max_usage">>)
      BY <1>8, <2>1, <2>2, <2>5, <2>6
    <2>8. Has(s, <<"memsw", "limit">>) BY <2>1, <2>4 DEF Has
    <2>9. QED BY <2>7, <2>8 DEF s
  <1> HIDE DEF tail
  <1>11. QED BY <1>4, <1>6, <1>7, <1>9, <1>10, Appended

\* The lists with one or a few reads.
LEMMA ShortLists ==
  /\ IsList(cpuacct)
  /\ IsList(cpu) /\ Has(cpu, <<"cpu", "stat">>) /\ Len(cpu) = 1
  /\ IsList(pids) /\ Has(pids, <<"pids", "limit">>)
  /\ IsList(blkio_v2)
  <1>1. IsList(cpuacct)
    <2>1. \A f : Plain(<<"cpuacct", f>>) BY DEF Plain, Tags
    <2>2. cpuacct \in Seq({cpuacct[i] : i \in DOMAIN cpuacct}) /\ DOMAIN cpuacct = 1 .. 3 BY DEF cpuacct
    <2>3. \A i \in 1 .. 3 : i = 1 \/ i = 2 \/ i = 3 OBVIOUS
    <2>4. \A i \in 1 .. 3 : Plain(cpuacct[i].field) /\ Legit(cpuacct[i]) BY <2>1, <2>3, PlainRead DEF cpuacct
    <2>5. QED BY <2>2, <2>4, PlainList
  <1>2. IsList(cpu) /\ Has(cpu, <<"cpu", "stat">>) /\ Len(cpu) = 1
    <2>1. cpu = <<ThrottleRead>> BY DEF cpu, ThrottleRead
    <2>2. cpu \in Seq({cpu[i] : i \in DOMAIN cpu}) /\ DOMAIN cpu = {1} /\ cpu[1] = ThrottleRead /\ Len(cpu) = 1
      BY <2>1
    <2>3. IsList(cpu) BY <2>2, NamedReads, NamedFields, NoPeak
    <2>4. QED BY <2>2, <2>3, NamedFields DEF Has
  <1>3. IsList(pids) /\ Has(pids, <<"pids", "limit">>)
    <2> DEFINE current == Rd(<<"pids", "current">>, <<"pids", "current">>, "u64", 0)
    <2>1. pids = <<current, PidsRead>> BY DEF pids, PidsRead
    <2>2. Legit(current) /\ current.field = <<"pids", "current">>
      <3>1. Plain(<<"pids", "current">>) BY DEF Plain
      <3>2. QED BY <3>1, PlainRead
    <2> HIDE DEF current
    <2>3. pids \in Seq({pids[i] : i \in DOMAIN pids}) /\ DOMAIN pids = 1 .. 2
          /\ pids[1] = current /\ pids[2] = PidsRead
      BY <2>1
    <2>4. \A i \in 1 .. 2 : i = 1 \/ i = 2 OBVIOUS
    <2>5. \A i \in 1 .. 2 : Legit(pids[i]) BY <2>2, <2>3, <2>4, NamedReads
    <2>6. \A i \in 1 .. 2 : pids[i].field[2] \in {"current", "limit"} BY <2>2, <2>3, <2>4, NamedFields
    <2>7. \A i \in 1 .. 2 : /\ \A k : pids[i].field # <<k, "max_usage">>
                            /\ \A k, z : pids[i].field # <<k, "max_usage", z>>
      BY <2>6
    <2>8. IsList(pids) BY <2>3, <2>5, <2>7, NoPeak
    <2>9. QED BY <2>3, <2>8, NamedFields DEF Has
  <1>4. IsList(blkio_v2)
    <2>1. Plain(<<"io", "stat">>) BY DEF Plain, Tags
    <2>2. /\ blkio_v2 \in Seq({blkio_v2[i] : i \in DOMAIN blkio_v2}) /\ DOMAIN blkio_v2 = {1}
          /\ blkio_v2[1] = Rd(<<"io", "stat">>, <<"io", "stat">>, "io_stat", << >>)
      BY DEF blkio_v2
    <2>3. QED BY <2>1, <2>2, PlainRead, PlainList
  <1>5. QED BY <1>1, <1>2, <1>3, <1>4

\* A flattened sequence of lists is a list.
LEMMA FlatList ==
  ASSUME NEW A, NEW ss \in Seq({s \in Seq(A) : IsList(s)})
  PROVE  IsList(FlattenSeq(ss))
  <1> DEFINE T == {s \in Seq(A) : IsList(s)}
  <1>1. T \in SUBSET Seq(A) OBVIOUS
  <1>2. << >> \in T BY DEF IsList, Ordered
  <1>3. ASSUME NEW s \in T, NEW t \in T PROVE s \o t \in T BY Appended
  <1> HIDE DEF T
  <1>4. FlattenSeq(ss) \in T
    <2>1. ss \in Seq(T) BY DEF T
    <2>2. QED BY <1>1, <1>2, <1>3, <2>1, FlattenClosed
  <1>5. QED BY <1>4 DEF T

\* The lists of blkio: no device is one of the named reads.
LEMMA BlkioList == IsList(blkio)
  <1>1. \A p \in {"cfq", "throttle"} : \A f, g, h :
          Plain(<<p, f>>) /\ Plain(<<p, f, g>>) /\ Plain(<<p, f, g, h>>)
    BY DEF Plain, Tags
  <1>2. ASSUME NEW p \in {"cfq", "throttle"}, NEW n, NEW c PROVE IsList(ServiceReads(p, n, c))
    <2> DEFINE s == ServiceReads(p, n, c)
    <2>1. s \in Seq({s[i] : i \in DOMAIN s}) /\ DOMAIN s = 1 .. 2 BY DEF ServiceReads
    <2>2. /\ s[1] = Rd(<<p, n, c>>, <<p, "service">>, "io_service", << >>)
          /\ s[2] = Rd(<<p, n, c, "total">>, <<p, "service">>, "io_service_total", 0)
      BY DEF ServiceReads
    <2> HIDE DEF s
    <2>3. Plain(<<p, n, c>>) /\ Plain(<<p, n, c, "total">>) BY <1>1
    <2>4. Plain(s[1].field) /\ Legit(s[1]) /\ Plain(s[2].field) /\ Legit(s[2]) BY <2>2, <2>3, PlainRead
    <2>5. \A i \in 1 .. 2 : i = 1 \/ i = 2 OBVIOUS
    <2>6. IsList(s) BY <2>1, <2>4, <2>5, PlainList
    <2>7. QED BY <2>6 DEF s
  <1>3. ASSUME NEW p \in {"cfq", "throttle"}, NEW N, NEW names \in Seq(N) PROVE IsList(Services(p, names))
    <2> DEFINE part(n) == ServiceReads(p, n, "own") \o ServiceReads(p, n, "recursive")
               A == UNION {{part(n)[i] : i \in DOMAIN part(n)} : n \in N}
               T == {s \in Seq(A) : IsList(s)}
    <2>1. ASSUME NEW n \in N PROVE part(n) \in T
      <3>1. IsList(part(n)) BY <1>2, Appended
      <3> HIDE DEF part
      <3>2. part(n) \in Seq({part(n)[i] : i \in DOMAIN part(n)}) BY <3>1 DEF IsList
      <3>3. {part(n)[i] : i \in DOMAIN part(n)} \subseteq A OBVIOUS
      <3> HIDE DEF A
      <3>4. part(n) \in Seq(A) BY <3>2, <3>3
      <3>5. QED BY <3>1, <3>4
    <2>2. [i \in DOMAIN names |-> part(names[i])] \in Seq(T)
      <3> HIDE DEF T, part
      <3>1. QED BY <2>1
    <2>3. Services(p, names) = FlattenSeq([i \in DOMAIN names |-> part(names[i])]) BY DEF Services
    <2> HIDE DEF part, A
    <2>4. QED BY <2>2, <2>3, FlatList
  <1>4. ASSUME NEW p \in {"cfq", "throttle"}, NEW N, NEW names \in Seq(N) PROVE IsList(DataReads(p, names))
    <2> DEFINE s == DataReads(p, names)
    <2>1. /\ DOMAIN s = DOMAIN names /\ Len(names) \in Nat /\ DOMAIN names = 1 .. Len(names)
          /\ s = [i \in 1 .. Len(names) |-> s[i]]
          /\ \A i \in DOMAIN s : s[i] = Rd(<<p, names[i]>>, <<p, "data">>, "blkio_data", << >>)
      BY DEF DataReads
    <2> HIDE DEF s
    <2>2. ASSUME NEW i \in DOMAIN s PROVE Plain(s[i].field) /\ Legit(s[i])
      <3>1. Plain(<<p, names[i]>>) BY <1>1
      <3>2. QED BY <2>1, <3>1, PlainRead
    <2>3. s \in Seq({s[i] : i \in DOMAIN s}) BY <2>1
    <2>4. IsList(s) BY <2>2, <2>3, PlainList
    <2>5. QED BY <2>4 DEF s
  <1>5. ASSUME NEW n PROVE IsList(WeightRead(n))
    <2>1. /\ WeightRead(n) \in Seq({WeightRead(n)[i] : i \in DOMAIN WeightRead(n)})
          /\ DOMAIN WeightRead(n) = {1}
          /\ WeightRead(n)[1] = Rd(<<"cfq", n>>, <<"cfq", "weight">>, "u64", 0)
      BY DEF WeightRead
    <2>2. Plain(<<"cfq", n>>) BY <1>1
    <2>3. QED BY <2>1, <2>2, PlainRead, PlainList
  <1>6. IsList(throttle)
    <2>1. \E N : ThrottleLists \in Seq(N) /\ ThrottleRates \in Seq(N)
      <3> DEFINE N == {"io_service_bytes", "io_serviced", "read_bps_device", "read_iops_device",
                       "write_bps_device", "write_iops_device"}
      <3>1. ThrottleLists \in Seq(N) /\ ThrottleRates \in Seq(N) BY DEF ThrottleLists, ThrottleRates
      <3>2. QED BY <3>1
    <2>2. IsList(Services("throttle", ThrottleLists)) /\ IsList(DataReads("throttle", ThrottleRates))
      BY <1>3, <1>4, <2>1
    <2>3. QED BY <2>2, Appended DEF throttle
  <1>7. IsList(Services("cfq", CfqLists))
    <2>1. CfqLists \in Seq({"io_merged", "io_queued", "io_service_bytes", "io_serviced", "io_service_time",
                            "io_wait_time"})
      BY DEF CfqLists
    <2>2. QED BY <1>3, <2>1
  <1>8. /\ IsList(DataReads("cfq", <<"leaf_weight_device", "sectors", "sectors_recursive">>))
        /\ IsList(DataReads("cfq", <<"time", "time_recursive">>))
        /\ IsList(DataReads("cfq", <<"weight_device">>))
    <2> DEFINE N == {"leaf_weight_device", "sectors", "sectors_recursive", "time", "time_recursive",
                     "weight_device"}
    <2>1. /\ <<"leaf_weight_device", "sectors", "sectors_recursive">> \in Seq(N)
          /\ <<"time", "time_recursive">> \in Seq(N) /\ <<"weight_device">> \in Seq(N)
      OBVIOUS
    <2> HIDE DEF N
    <2>2. QED BY <1>4, <2>1
  <1>9. QED BY <1>5, <1>6, <1>7, <1>8, Appended DEF blkio

\* The sizes of huge pages.
LEMMA SizesType == Sizes \in Seq(ZS)
  <1> DEFINE Size(d) == parse_size(d[1], d[2])
             part(d) == IF Size(d) = Err THEN << >> ELSE <<custom_size(Size(d)[2])>>
             ss == [i \in DOMAIN PageDirs |-> part(PageDirs[i])]
  <1>1. \A d \in Nat \X STRING : part(d) \in Seq(ZS)
    <2> SUFFICES ASSUME NEW d \in Nat \X STRING PROVE part(d) \in Seq(ZS) OBVIOUS
    <2>1. custom_size(Size(d)[2]) \in ZS BY DEF ZS
    <2> HIDE DEF Size
    <2>2. QED BY <2>1
  <1>2. Sizes = FlattenSeq(ss) BY DEF Sizes, get_hugepage_sizes
  <1> HIDE DEF part
  <1>3. ss \in Seq(Seq(ZS))
    <2> DEFINE D == Nat \X STRING
    <2>1. PageDirs \in Seq(D) /\ \A d \in D : part(d) \in Seq(ZS) BY <1>1, PageDirsAssumption
    <2> HIDE DEF D
    <2>2. /\ Len(PageDirs) \in Nat /\ DOMAIN PageDirs = 1 .. Len(PageDirs)
          /\ \A i \in 1 .. Len(PageDirs) : part(PageDirs[i]) \in Seq(ZS)
      BY <2>1
    <2> DEFINE U == Seq(ZS)
    <2> HIDE DEF U
    <2>3. \A i \in 1 .. Len(PageDirs) : part(PageDirs[i]) \in U BY <2>2 DEF U
    <2>4. ss \in Seq(U) BY <2>2, <2>3
    <2>5. QED BY <2>4 DEF U
  <1>4. << >> \in Seq(ZS) /\ \A s, t \in Seq(ZS) : s \o t \in Seq(ZS) OBVIOUS
  <1> HIDE DEF ss
  <1>5. FlattenSeq(ss) \in Seq(ZS) BY <1>3, <1>4, FlattenClosed
  <1>6. QED BY <1>2, <1>5

LEMMA HugeListV1 ==
  ASSUME ~v2, NEW z \in ZS
  PROVE  LET s == HugeReads(FALSE, z)
         IN  IsList(s) /\ Has(s, <<"hugetlb", "usage", z>>) /\ Has(s, <<"hugetlb", "max_usage", z>>)
  <1> DEFINE s == HugeReads(FALSE, z)
             fails == Rd(<<"hugetlb", "fail_cnt", z>>, <<"hugetlb", "failcnt", z>>, "u64", 0)
  <1>1. Legit(fails) /\ fails.field = <<"hugetlb", "fail_cnt", z>>
    <2>1. Plain(<<"hugetlb", "fail_cnt", z>>) BY DEF Plain
    <2>2. QED BY <2>1, PlainRead
  <1>2. s = <<HugeUsage(z), HugePeak(z), fails>> BY DEF HugeReads, HugeUsage, HugePeak
  <1> HIDE DEF s, fails
  <1>3. s \in Seq({s[i] : i \in DOMAIN s}) /\ DOMAIN s = 1 .. 3
        /\ s[1] = HugeUsage(z) /\ s[2] = HugePeak(z) /\ s[3] = fails
    BY <1>2
  <1>4. \A i \in DOMAIN s : i = 1 \/ i = 2 \/ i = 3 BY <1>3
  <1>5. \A i \in DOMAIN s : Legit(s[i]) BY <1>1, <1>3, <1>4, NamedReads
  <1>6. ASSUME NEW p \in Pairs, NEW i \in DOMAIN s, s[i].field = p.x.field
        PROVE  \E j \in DOMAIN s : j < i /\ s[j].field = p.u.field
    <2>1. s[i].field[1] = "hugetlb" /\ s[i].field[3] = z BY <1>1, <1>3, <1>4, NamedFields
    <2>2. p.u.field = <<"hugetlb", "usage", z>> /\ p.x.field = <<"hugetlb", "max_usage", z>>
      <3>1. p.k \notin Tags BY <1>6, <2>1, PairFields DEF Tags
      <3>2. QED BY <1>6, <2>1, <3>1, PairFields
    <2>3. i = 2 BY <1>1, <1>3, <1>4, <1>6, <2>2, NamedFields
    <2>4. s[1].field = p.u.field /\ 1 \in DOMAIN s /\ 1 < i BY <1>3, <2>2, <2>3, NamedFields
    <2>5. QED BY <2>4
  <1>7. IsList(s) BY <1>3, <1>5, <1>6 DEF IsList, Ordered
  <1>8. Has(s, <<"hugetlb", "usage", z>>) /\ Has(s, <<"hugetlb", "max_usage", z>>)
    BY <1>3, NamedFields DEF Has
  <1>9. QED BY <1>7, <1>8 DEF s

LEMMA HugeListV2 ==
  ASSUME v2, NEW z
  PROVE  IsList(HugeReads(TRUE, z))
  <1> DEFINE s == HugeReads(TRUE, z)
  <1>1. s \in Seq({s[i] : i \in DOMAIN s}) /\ DOMAIN s = 1 .. 3 BY DEF HugeReads
  <1>2. \A i \in 1 .. 3 : s[i].field[1] = "hugetlb"
    <2>1. \A i \in 1 .. 3 : i = 1 \/ i = 2 \/ i = 3 OBVIOUS
    <2>2. QED BY <2>1 DEF HugeReads, Rd
  <1> HIDE DEF s
  <1>3. \A i \in DOMAIN s : Legit(s[i]) BY <1>1, <1>2 DEF Legit, Tags
  <1>4. \A i \in DOMAIN s, k \in Tags : s[i].field # <<k, "max_usage">> BY <1>1, <1>2 DEF Tags
  <1>5. IsList(s) BY <1>1, <1>3, <1>4, NoPeak
  <1>6. QED BY <1>5 DEF s

LEMMA HugeList ==
  ASSUME v2 \in BOOLEAN
  PROVE  /\ IsList(hugetlb(v2))
         /\ ~v2 => \A i \in DOMAIN Sizes : /\ Has(hugetlb(v2), <<"hugetlb", "usage", Sizes[i]>>)
                                           /\ Has(hugetlb(v2), <<"hugetlb", "max_usage", Sizes[i]>>)
  <1> DEFINE part(z) == HugeReads(v2, z)
             A == UNION {{part(z)[i] : i \in DOMAIN part(z)} : z \in ZS}
             T == {s \in Seq(A) : IsList(s)}
             ss == [i \in DOMAIN Sizes |-> part(Sizes[i])]
  <1>1. ASSUME NEW z \in ZS PROVE part(z) \in T
    <2>1. IsList(part(z))
      <3>1. CASE v2
        <4>1. v2 = TRUE BY <3>1
        <4>2. QED BY <3>1, <4>1, HugeListV2
      <3>2. CASE ~v2
        <4>1. v2 = FALSE BY <3>2
        <4>2. QED BY <3>2, <4>1, HugeListV1
      <3>3. QED BY <3>1, <3>2
    <2> HIDE DEF part
    <2>2. part(z) \in Seq({part(z)[i] : i \in DOMAIN part(z)}) BY <2>1 DEF IsList
    <2>3. {part(z)[i] : i \in DOMAIN part(z)} \subseteq A OBVIOUS
    <2> HIDE DEF A
    <2>4. part(z) \in Seq(A) BY <2>2, <2>3
    <2>5. QED BY <2>1, <2>4
  <1>2. hugetlb(v2) = FlattenSeq(ss) BY DEF hugetlb
  <1>3. ss \in Seq(T) /\ Len(ss) = Len(Sizes) /\ DOMAIN Sizes = 1 .. Len(Sizes)
        /\ \A i \in DOMAIN Sizes : ss[i] = part(Sizes[i]) /\ Sizes[i] \in ZS
    <2> HIDE DEF T, part
    <2>1. QED BY <1>1, SizesType
  <1>4. IsList(FlattenSeq(ss))
    <2> HIDE DEF ss, A
    <2>1. QED BY <1>3, FlatList
  <1>5. ASSUME ~v2, NEW i \in DOMAIN Sizes, NEW f \in {"usage", "max_usage"}
        PROVE  Has(FlattenSeq(ss), <<"hugetlb", f, Sizes[i]>>)
    <2>1. v2 = FALSE BY <1>5
    <2>2. Has(ss[i], <<"hugetlb", f, Sizes[i]>>) BY <1>3, <1>5, <2>1, HugeListV1
    <2> HIDE DEF ss, A
    <2>3. PICK x \in DOMAIN ss[i] : ss[i][x].field = <<"hugetlb", f, Sizes[i]>> BY <2>2 DEF Has
    <2>4. ss \in Seq(Seq(A)) /\ i \in 1 .. Len(ss) BY <1>3
    <2>5. PICK j \in DOMAIN FlattenSeq(ss) : FlattenSeq(ss)[j] = ss[i][x] BY <2>4, FlattenHas
    <2>6. QED BY <2>3, <2>5 DEF Has
  <1> HIDE DEF ss, T, A, part
  <1>6. QED BY <1>2, <1>4, <1>5

\* What the list of the reads of a call is.
NamedSet == {<<k, f>> : k \in Tags, f \in {"usage", "max_usage", "limit"}}
            \union {<<"pids", "limit">>, <<"cpu", "stat">>}
LEMMA ReadsList ==
  ASSUME v2 \in BOOLEAN
  PROVE  /\ IsList(Reads) /\ Len(Reads) \in Nat \ {0} /\ DOMAIN Reads = 1 .. Len(Reads)
         /\ \A f \in NamedSet : Has(Reads, f)
         /\ ~v2 => \A i \in DOMAIN Sizes : /\ Has(Reads, <<"hugetlb", "usage", Sizes[i]>>)
                                           /\ Has(Reads, <<"hugetlb", "max_usage", Sizes[i]>>)
  <1>1. /\ IsList(kmem_stat)
        /\ \A f \in {"usage", "max_usage", "limit"} : Has(kmem_stat, <<"kmem", f>>)
    <2>1. "kmem" \in Tags /\ ~Unified("kmem") BY DEF Tags, Unified
    <2>2. kmem_stat = CounterReads("kmem", "kmem", IF "kmem" = "kmem" THEN -1 ELSE 0) BY DEF kmem_stat
    <2>3. QED BY <2>1, <2>2, CounterList
  <1>2. ASSUME ~v2
        PROVE  /\ IsList(CounterReads("memsw", "memsw", 0))
               /\ \A f \in {"usage", "max_usage", "limit"} : Has(CounterReads("memsw", "memsw", 0), <<"memsw", f>>)
    <2>1. "memsw" \in Tags /\ ~Unified("memsw") BY <1>2 DEF Tags, Unified
    <2>2. (IF "memsw" = "kmem" THEN -1 ELSE 0) = 0 OBVIOUS
    <2>3. QED BY <2>1, <2>2, CounterList
  <1>3. ASSUME NEW s, NEW t, IsList(s), IsList(t) PROVE IsList(s \o t) BY <1>3, Appended
  <1>4. ASSUME NEW s, NEW t, IsList(s), IsList(t), NEW f, Has(s, f) \/ Has(t, f) PROVE Has(s \o t, f)
    BY <1>4, Appended
  <1>5. CASE ~v2
    <2>1. v2 = FALSE BY <1>5
    <2> DEFINE a == cpuacct \o cpu
               b == a \o memory_stat_v1("memory")
               c == b \o CounterReads("memsw", "memsw", 0)
               d == c \o kmem_stat
               e == d \o memory_stat_v1("again")
               g == e \o pids
               h == g \o blkio
               r == h \o hugetlb(v2)
    <2>2. Reads = r BY <2>1 DEF Reads, StatsV1
    <2>3. IsList(a) /\ Has(a, <<"cpu", "stat">>) BY <1>3, <1>4, ShortLists
    <2> HIDE DEF a
    <2>4. IsList(b) /\ Has(b, <<"cpu", "stat">>)
          /\ \A f \in {"usage", "max_usage", "limit"} : Has(b, <<"memory", f>>)
      BY <1>3, <1>4, <1>5, <2>3, MemoryListV1
    <2> HIDE DEF b
    <2>5. IsList(c) /\ Has(c, <<"cpu", "stat">>)
          /\ \A f \in {"usage", "max_usage", "limit"} : Has(c, <<"memory", f>>) /\ Has(c, <<"memsw", f>>)
      BY <1>2, <1>3, <1>4, <1>5, <2>4
    <2> HIDE DEF c
    <2>6. IsList(d) /\ Has(d, <<"cpu", "stat">>)
          /\ \A f \in {"usage", "max_usage", "limit"} :
               Has(d, <<"memory", f>>) /\ Has(d, <<"memsw", f>>) /\ Has(d, <<"kmem", f>>)
      BY <1>1, <1>3, <1>4, <2>5
    <2> HIDE DEF d
    <2>7. IsList(e) /\ Has(e, <<"cpu", "stat">>)
          /\ \A f \in {"usage", "max_usage", "limit"} :
               Has(e, <<"memory", f>>) /\ Has(e, <<"memsw", f>>) /\ Has(e, <<"kmem", f>>)
      BY <1>3, <1>4, <1>5, <2>6, MemoryListV1
    <2> HIDE DEF e
    <2>8. IsList(g) /\ \A f \in NamedSet : Has(g, f)
      BY <1>3, <1>4, <2>7, ShortLists DEF NamedSet, Tags
    <2> HIDE DEF g
    <2>9. IsList(h) /\ \A f \in NamedSet : Has(h, f) BY <1>3, <1>4, <2>8, BlkioList
    <2> HIDE DEF h
    <2>10. IsList(r) /\ \A f \in NamedSet : Has(r, f) BY <1>3, <1>4, <2>9, HugeList
    <2>11. \A i \in DOMAIN Sizes : /\ Has(r, <<"hugetlb", "usage", Sizes[i]>>)
                                   /\ Has(r, <<"hugetlb", "max_usage", Sizes[i]>>)
      BY <1>4, <1>5, <2>9, HugeList
    <2> HIDE DEF r
    <2>12. r \in Seq({r[i] : i \in DOMAIN r}) /\ r # << >>
      <3>1. Has(r, <<"cpu", "stat">>) BY <2>10 DEF NamedSet
      <3>2. QED BY <2>10, <3>1 DEF IsList, Has
    <2>13. QED BY <2>2, <2>10, <2>11, <2>12
  <1>6. CASE v2
    <2>1. v2 = TRUE BY <1>6
    <2> DEFINE a == cpu \o memory_stat_v2("memory")
               b == a \o memswap_v2
               c == b \o kmem_stat
               d == c \o memory_stat_v2("again")
               e == d \o pids
               g == e \o blkio_v2
               r == g \o hugetlb(v2)
    <2>2. Reads = r BY <2>1 DEF Reads, StatsV2
    <2>3. IsList(a) /\ Has(a, <<"cpu", "stat">>)
          /\ \A f \in {"usage", "max_usage", "limit"} : Has(a, <<"memory", f>>)
      BY <1>3, <1>4, <1>6, ShortLists, MemoryListV2
    <2> HIDE DEF a
    <2>4. IsList(b) /\ Has(b, <<"cpu", "stat">>)
          /\ \A f \in {"usage", "max_usage", "limit"} : Has(b, <<"memory", f>>) /\ Has(b, <<"memsw", f>>)
      BY <1>3, <1>4, <1>6, <2>3, MemoryListV2
    <2> HIDE DEF b
    <2>5. IsList(c) /\ Has(c, <<"cpu", "stat">>)
          /\ \A f \in {"usage", "max_usage", "limit"} :
               Has(c, <<"memory", f>>) /\ Has(c, <<"memsw", f>>) /\ Has(c, <<"kmem", f>>)
      BY <1>1, <1>3, <1>4, <2>4
    <2> HIDE DEF c
    <2>6. IsList(d) /\ Has(d, <<"cpu", "stat">>)
          /\ \A f \in {"usage", "max_usage", "limit"} :
               Has(d, <<"memory", f>>) /\ Has(d, <<"memsw", f>>) /\ Has(d, <<"kmem", f>>)
      BY <1>3, <1>4, <1>6, <2>5, MemoryListV2
    <2> HIDE DEF d
    <2>7. IsList(e) /\ \A f \in NamedSet : Has(e, f)
      BY <1>3, <1>4, <2>6, ShortLists DEF NamedSet, Tags
    <2> HIDE DEF e
    <2>8. IsList(g) /\ \A f \in NamedSet : Has(g, f) BY <1>3, <1>4, <2>7, ShortLists
    <2> HIDE DEF g
    <2>9. IsList(r) /\ \A f \in NamedSet : Has(r, f) BY <1>3, <1>4, <2>8, HugeList
    <2> HIDE DEF r
    <2>10. r \in Seq({r[i] : i \in DOMAIN r}) /\ r # << >>
      <3>1. Has(r, <<"cpu", "stat">>) BY <2>9 DEF NamedSet
      <3>2. QED BY <2>9, <3>1 DEF IsList, Has
    <2>11. QED BY <1>6, <2>2, <2>9, <2>10
  <1>7. QED BY <1>5, <1>6

-----------------------------------------------------------------------------
(***************************************************************************)
(* The kernel: usage never exceeds the maximum, which only a reset or the  *)
(* end of the cgroup lowers, and there are never more throttled periods    *)
(* than periods.                                                           *)
(***************************************************************************)

Counters == [Kinds -> [usage : Nat, max : Nat, fail : Nat]]
KernelOK ==
  /\ DOMAIN kernel = DOMAIN Fresh
  /\ kernel.counter \in Counters /\ \A k \in Kinds : kernel.counter[k].usage <= kernel.counter[k].max
  /\ ~v2 => kernel.counter["memory"].usage = kernel.counter["memsw"].usage
  /\ kernel.periods \in Nat /\ kernel.throttled \in Nat /\ kernel.throttled <= kernel.periods

StateOK ==
  /\ v2 \in BOOLEAN /\ cfq \in BOOLEAN /\ present \in BOOLEAN /\ moves \in 0 .. Moves
  /\ limits \in [Kinds \union {"pids"} -> {NoLimit, 1}]
  /\ upset \subseteq {"fail", "max", "cpu", "io", "gone"}
  /\ KernelOK

\* What the rest of the world does.
World ==
  \/ \E k \in Kinds \ {"memsw", "tcp"} : Charge(k) \/ Uncharge(k)
  \/ \E c \in 1 .. Cpus, m \in {"user", "system"} : Tick(c, m)
  \/ \E t \in {0, 1} : Period(t)
  \/ Fork
  \/ Exit
  \/ \E t \in Transfers : Transfer(t[1], t[2])
  \/ \E k \in Kinds \ {"hugetlb"} : reset_fail_count(k)
  \/ reset_max_usage
  \/ reset_cpuacct
  \/ reset_stats
  \/ Rmdir
  \/ Mkdir

LEMMA FreshOK ==
  /\ Fresh.counter \in Counters /\ \A k \in Kinds : Fresh.counter[k].usage <= Fresh.counter[k].max
  /\ Fresh.periods = 0 /\ Fresh.throttled = 0
  BY DEF Fresh, Counters

\* The counters grow, but for what upset notes.
Grows ==
  upset' \intersect {"max", "gone"} = {} =>
    \A k \in Kinds : kernel.counter[k].max <= kernel'.counter[k].max

LEMMA ChargeOK ==
  ASSUME KernelOK, NEW k \in Kinds \ {"memsw", "tcp"}, v2 \in BOOLEAN, Charge(k)
  PROVE  KernelOK' /\ Grows
  <1> DEFINE C == kernel.counter
             failed == [j \in Kinds |->
                         IF j \in Charged(k) /\ Full(j) THEN [C[j] EXCEPT !.fail = @ + 1] ELSE C[j]]
             charged == [j \in Kinds |->
                          IF j \in Charged(k)
                          THEN [C[j] EXCEPT !.usage = @ + 1, !.max = IF @ > C[j].usage THEN @ ELSE @ + 1]
                          ELSE C[j]]
             D == kernel'.counter
  <1>1. \A j \in Kinds : C[j] \in [usage : Nat, max : Nat, fail : Nat] /\ C[j].usage <= C[j].max
    BY DEF KernelOK, Counters
  <1>2. ~v2 => C["memory"].usage = C["memsw"].usage BY DEF KernelOK
  <1>3. v2' = v2 BY DEF Charge, Move
  <1>4. {"counter", "periods", "throttled", "stat", "numa"} \subseteq DOMAIN kernel BY DEF KernelOK, Fresh
  <1>5. /\ DOMAIN kernel' = DOMAIN kernel
        /\ kernel'.periods = kernel.periods /\ kernel'.throttled = kernel.throttled
        /\ D = failed \/ D = charged
    <2>1. CASE \E j \in Charged(k) : Full(j)
      <3>1. kernel' = [kernel EXCEPT !.counter = failed] BY <2>1 DEF Charge, Move
      <3> HIDE DEF failed, C, charged
      <3>2. QED BY <1>4, <3>1
    <2>2. CASE ~ \E j \in Charged(k) : Full(j)
      <3>1. PICK x, y : kernel' = [kernel EXCEPT !.counter = charged, !.stat = x, !.numa = y]
        BY <2>2 DEF Charge, Move
      <3> HIDE DEF failed, C, charged
      <3>2. QED BY <1>4, <3>1
    <2>3. QED BY <2>1, <2>2
  <1>6. k = "memory" /\ ~v2 => "memory" \in Charged(k) /\ "memsw" \in Charged(k)
    BY DEF Charged
  <1>7. k # "memory" \/ v2 => \A j \in Charged(k) : j \notin {"memory", "memsw"} \/ v2
    BY DEF Charged
  <1> HIDE DEF C, D
  <1>8. ASSUME NEW j \in Kinds
        PROVE  /\ failed[j] \in [usage : Nat, max : Nat, fail : Nat] /\ failed[j].usage = C[j].usage
               /\ failed[j].max = C[j].max
    BY <1>1
  <1>9. ASSUME NEW j \in Kinds
        PROVE  /\ charged[j] \in [usage : Nat, max : Nat, fail : Nat] /\ charged[j].usage <= charged[j].max
               /\ C[j].max <= charged[j].max
               /\ charged[j].usage = IF j \in Charged(k) THEN C[j].usage + 1 ELSE C[j].usage
    <2> DEFINE q == IF C[j].max > C[j].usage THEN C[j].max ELSE C[j].max + 1
    <2>1. q \in Nat /\ C[j].usage + 1 \in Nat /\ C[j].usage + 1 <= q /\ C[j].max <= q BY <1>1
    <2>2. charged[j] = IF j \in Charged(k) THEN [C[j] EXCEPT !.usage = @ + 1, !.max = q] ELSE C[j]
      OBVIOUS
    <2>3. C[j] \in [usage : Nat, max : Nat, fail : Nat] /\ C[j].usage <= C[j].max BY <1>1
    <2> DEFINE c == C[j]
    <2>4. c \in [usage : Nat, max : Nat, fail : Nat] /\ c.usage <= c.max
          /\ charged[j] = IF j \in Charged(k) THEN [c EXCEPT !.usage = @ + 1, !.max = q] ELSE c
      BY <2>2, <2>3
    <2>5. C[j] = c OBVIOUS
    <2>6. q \in Nat /\ c.usage + 1 \in Nat /\ c.usage + 1 <= q /\ c.max <= q BY <2>1
    <2> HIDE DEF charged, q, c
    <2>7. CASE j \in Charged(k)
      <3> DEFINE d == [c EXCEPT !.usage = @ + 1, !.max = q]
      <3>1. d \in [usage : Nat, max : Nat, fail : Nat] /\ d.usage = c.usage + 1 /\ d.max = q BY <2>4, <2>6
      <3>2. QED BY <2>4, <2>5, <2>6, <2>7, <3>1
    <2>8. CASE j \notin Charged(k) BY <2>4, <2>5, <2>8
    <2>9. QED BY <2>7, <2>8
  <1>10. failed \in Counters /\ charged \in Counters
    <2>1. failed = [j \in Kinds |-> failed[j]] /\ charged = [j \in Kinds |-> charged[j]] OBVIOUS
    <2> HIDE DEF failed, charged
    <2>2. failed \in Counters BY <1>8, <2>1 DEF Counters
    <2>3. charged \in Counters BY <1>9, <2>1 DEF Counters
    <2>4. QED BY <2>2, <2>3
  <1>11. "memory" \in Kinds /\ "memsw" \in Kinds BY DEF Kinds
  <1> HIDE DEF failed, charged
  <1>12. D \in Counters /\ \A j \in Kinds : D[j].usage <= D[j].max /\ C[j].max <= D[j].max
    <2>1. CASE D = failed BY <1>1, <1>8, <1>10, <2>1
    <2>2. CASE D = charged BY <1>9, <1>10, <2>2
    <2>3. QED BY <1>5, <2>1, <2>2
  <1>13. ~v2 => D["memory"].usage = D["memsw"].usage
    <2>1. CASE D = failed BY <1>2, <1>8, <1>11, <2>1
    <2>2. CASE D = charged BY <1>2, <1>6, <1>7, <1>9, <1>11, <2>2
    <2>3. QED BY <1>5, <2>1, <2>2
  <1>14. QED BY <1>3, <1>5, <1>12, <1>13 DEF KernelOK, Grows, C, D

LEMMA UnchargeOK ==
  ASSUME KernelOK, NEW k \in Kinds \ {"memsw", "tcp"}, v2 \in BOOLEAN, Uncharge(k)
  PROVE  KernelOK' /\ Grows
  <1> DEFINE C == kernel.counter
             less == [j \in Kinds |-> IF j \in Charged(k) THEN [C[j] EXCEPT !.usage = @ - 1] ELSE C[j]]
  <1>1. \A j \in Kinds : C[j] \in [usage : Nat, max : Nat, fail : Nat] /\ C[j].usage <= C[j].max
    BY DEF KernelOK, Counters
  <1>2. ~v2 => C["memory"].usage = C["memsw"].usage BY DEF KernelOK
  <1>3. kernel' = [kernel EXCEPT !.counter = less] /\ C[k].usage > 0 /\ v2' = v2 BY DEF Uncharge, Move
  <1>4. {"counter", "periods", "throttled"} \subseteq DOMAIN kernel BY DEF KernelOK, Fresh
  <1>5. k = "memory" /\ ~v2 => "memory" \in Charged(k) /\ "memsw" \in Charged(k)
    BY DEF Charged
  <1>6. k # "memory" \/ v2 => \A j \in Charged(k) : j \notin {"memory", "memsw"} \/ v2
    BY DEF Charged
  <1>7. \A j \in Charged(k) : C[j].usage > 0 BY <1>2, <1>3 DEF Charged
  <1> HIDE DEF C
  <1>8. ASSUME NEW j \in Kinds
        PROVE  /\ less[j] \in [usage : Nat, max : Nat, fail : Nat] /\ less[j].usage <= less[j].max
               /\ C[j].max = less[j].max
               /\ less[j].usage = IF j \in Charged(k) THEN C[j].usage - 1 ELSE C[j].usage
    BY <1>1, <1>7
  <1>9. less = [j \in Kinds |-> less[j]] OBVIOUS
  <1> HIDE DEF less
  <1>10. less \in Counters BY <1>8, <1>9 DEF Counters
  <1>11. "memory" \in Kinds /\ "memsw" \in Kinds BY DEF Kinds
  <1>12. ~v2 => less["memory"].usage = less["memsw"].usage BY <1>2, <1>5, <1>6, <1>8, <1>11
  <1>13. \A j \in Kinds : C[j].max \in Nat BY <1>1
  <1>14. /\ DOMAIN kernel' = DOMAIN kernel /\ kernel'.counter = less
         /\ kernel'.periods = kernel.periods /\ kernel'.throttled = kernel.throttled
    BY <1>3, <1>4
  <1>15. QED BY <1>3, <1>8, <1>10, <1>12, <1>13, <1>14 DEF KernelOK, Grows, C

\* A step that leaves the counters of pages alone.
LEMMA OtherOK ==
  ASSUME KernelOK, v2 \in BOOLEAN, v2' = v2, DOMAIN kernel' = DOMAIN kernel, kernel'.counter = kernel.counter,
         kernel'.periods \in Nat, kernel'.throttled \in Nat, kernel'.throttled <= kernel'.periods
  PROVE  KernelOK' /\ Grows
  <1>1. \A k \in Kinds : kernel.counter[k].max \in Nat BY DEF KernelOK, Counters
  <1>2. QED BY <1>1 DEF KernelOK, Grows

LEMMA WorldKernel ==
  ASSUME KernelOK, v2 \in BOOLEAN, World
  PROVE  KernelOK' /\ Grows
  <1>1. /\ {"counter", "percpu", "ticks", "periods", "throttled", "pids", "io"} \subseteq DOMAIN kernel
        /\ kernel.periods \in Nat /\ kernel.throttled \in Nat /\ kernel.throttled <= kernel.periods
        /\ kernel.counter \in Counters
    BY DEF KernelOK, Fresh
  <1>2. v2' = v2 BY DEF World, Charge, Uncharge, Tick, Period, Fork, Exit, Transfer, reset_fail_count,
                       reset_max_usage, reset_cpuacct, reset_stats, Rmdir, Mkdir, Move
  <1>3. ASSUME NEW k \in Kinds \ {"memsw", "tcp"}, Charge(k) \/ Uncharge(k) PROVE KernelOK' /\ Grows
    BY <1>3, ChargeOK, UnchargeOK
  <1>4. ASSUME NEW f \in {"percpu", "ticks", "pids", "io"}, NEW g \in {"percpu", "ticks", "pids", "io"},
               NEW x, NEW y, kernel' = [kernel EXCEPT ![f] = x, ![g] = y]
        PROVE  KernelOK' /\ Grows
    <2>1. /\ DOMAIN kernel' = DOMAIN kernel /\ kernel'.counter = kernel.counter
          /\ kernel'.periods = kernel.periods /\ kernel'.throttled = kernel.throttled
      BY <1>1, <1>4
    <2>2. QED BY <1>1, <1>2, <2>1, OtherOK
  <1>5. ASSUME NEW c, NEW u, Tick(c, u) PROVE KernelOK' /\ Grows
    <2>1. PICK x, y : kernel' = [kernel EXCEPT !.percpu = x, !.ticks = y] BY <1>5 DEF Tick, Move
    <2>2. QED BY <1>4, <2>1
  <1>6. ASSUME NEW t \in {0, 1}, Period(t) PROVE KernelOK' /\ Grows
    <2>1. kernel' = [kernel EXCEPT !.periods = @ + 1, !.throttled = @ + t] BY <1>6 DEF Period, Move
    <2>2. /\ DOMAIN kernel' = DOMAIN kernel /\ kernel'.counter = kernel.counter
          /\ kernel'.periods = kernel.periods + 1 /\ kernel'.throttled = kernel.throttled + t
      BY <1>1, <2>1
    <2>3. QED BY <1>1, <1>2, <2>2, OtherOK
  <1>7. CASE Fork \/ Exit
    <2>1. PICK x : kernel' = [kernel EXCEPT !.pids = x] BY <1>7 DEF Fork, Exit, Move
    <2>2. kernel' = [kernel EXCEPT !.pids = x, !.pids = x] BY <1>1, <2>1
    <2>3. QED BY <1>4, <2>2
  <1>8. ASSUME NEW d, NEW o, Transfer(d, o) PROVE KernelOK' /\ Grows
    <2>1. PICK x : kernel' = [kernel EXCEPT !.io = x] BY <1>8 DEF Transfer, Move
    <2>2. kernel' = [kernel EXCEPT !.io = x, !.io = x] BY <1>1, <2>1
    <2>3. QED BY <1>4, <2>2
  <1>9. ASSUME NEW k \in Kinds \ {"hugetlb"}, reset_fail_count(k) PROVE KernelOK' /\ Grows
    <2>1. kernel' = [kernel EXCEPT !.counter[k].fail = 0] BY <1>9 DEF reset_fail_count, Move
    <2> DEFINE C == kernel.counter
               D == [C EXCEPT ![k] = [C[k] EXCEPT !.fail = 0]]
    <2>2. /\ DOMAIN kernel' = DOMAIN kernel /\ kernel'.counter = D
          /\ kernel'.periods = kernel.periods /\ kernel'.throttled = kernel.throttled
      BY <1>1, <2>1
    <2>3. \A j \in Kinds : C[j] \in [usage : Nat, max : Nat, fail : Nat] /\ C[j].usage <= C[j].max
      BY DEF KernelOK, Counters
    <2>4. (~v2 => C["memory"].usage = C["memsw"].usage) /\ "memory" \in Kinds /\ "memsw" \in Kinds
      BY DEF KernelOK, Kinds
    <2>5. C \in Counters BY <1>1
    <2> HIDE DEF C
    <2>6. [C[k] EXCEPT !.fail = 0] \in [usage : Nat, max : Nat, fail : Nat]
          /\ [C[k] EXCEPT !.fail = 0].usage = C[k].usage /\ [C[k] EXCEPT !.fail = 0].max = C[k].max
      BY <2>3
    <2>7. D \in Counters /\ \A j \in Kinds : D[j].usage = C[j].usage /\ D[j].max = C[j].max
      BY <2>5, <2>6 DEF Counters
    <2> HIDE DEF D
    <2>8. QED BY <1>1, <1>2, <2>2, <2>3, <2>4, <2>7 DEF KernelOK, Grows, C
  <1>10. CASE reset_max_usage
    <2>1. kernel' = [kernel EXCEPT !.counter["memory"].max = kernel.counter["memory"].usage]
          /\ "max" \in upset'
      BY <1>10 DEF reset_max_usage, Move
    <2> DEFINE C == kernel.counter
               e == [C["memory"] EXCEPT !.max = C["memory"].usage]
               D == [C EXCEPT !["memory"] = e]
    <2>2. /\ DOMAIN kernel' = DOMAIN kernel /\ kernel'.counter = D
          /\ kernel'.periods = kernel.periods /\ kernel'.throttled = kernel.throttled
      BY <1>1, <2>1
    <2>3. \A j \in Kinds : C[j] \in [usage : Nat, max : Nat, fail : Nat] /\ C[j].usage <= C[j].max
      BY DEF KernelOK, Counters
    <2>4. (~v2 => C["memory"].usage = C["memsw"].usage) /\ "memory" \in Kinds /\ "memsw" \in Kinds
      BY DEF KernelOK, Kinds
    <2>5. C \in Counters BY <1>1
    <2> HIDE DEF C
    <2>6. e \in [usage : Nat, max : Nat, fail : Nat] /\ e.usage = C["memory"].usage /\ e.usage <= e.max
      BY <2>3, <2>4
    <2> HIDE DEF e
    <2>7. D \in Counters /\ \A j \in Kinds : D[j].usage = C[j].usage /\ D[j].usage <= D[j].max
      <3>1. D \in Counters BY <2>5, <2>6 DEF Counters
      <3>2. \A j \in Kinds : D[j] = IF j = "memory" THEN e ELSE C[j] BY <2>5 DEF Counters
      <3> HIDE DEF D
      <3>3. QED BY <2>3, <2>6, <3>1, <3>2
    <2> HIDE DEF D
    <2>8. KernelOK' BY <1>1, <1>2, <2>2, <2>4, <2>7 DEF KernelOK, C
    <2>9. QED BY <2>1, <2>8 DEF Grows
  <1>11. CASE reset_cpuacct
    <2>1. PICK x : kernel' = [kernel EXCEPT !.percpu = x] BY <1>11 DEF reset_cpuacct, Move
    <2>2. kernel' = [kernel EXCEPT !.percpu = x, !.percpu = x] BY <1>1, <2>1
    <2>3. QED BY <1>4, <2>2
  <1>12. CASE reset_stats
    <2>1. PICK x : kernel' = [kernel EXCEPT !.io = x] BY <1>12 DEF reset_stats, Move
    <2>2. kernel' = [kernel EXCEPT !.io = x, !.io = x] BY <1>1, <2>1
    <2>3. QED BY <1>4, <2>2
  <1>13. CASE Rmdir \/ Mkdir
    <2>1. kernel' = Fresh /\ "gone" \in upset' BY <1>13 DEF Rmdir, Mkdir, Move
    <2>2. Fresh.counter["memory"].usage = 0 /\ Fresh.counter["memsw"].usage = 0 BY DEF Fresh, Kinds
    <2>3. KernelOK' BY <2>1, <2>2, FreshOK DEF KernelOK
    <2>4. QED BY <2>1, <2>3 DEF Grows
  <1>14. QED BY <1>3, <1>5, <1>6, <1>7, <1>8, <1>9, <1>10, <1>11, <1>12, <1>13 DEF World

\* What else the world leaves alone.
LEMMA WorldFrame ==
  ASSUME StateOK, World
  PROVE  /\ StateOK' /\ Grows /\ UNCHANGED <<v2, cfq, busy, limits, status, at, got, start>>
         /\ upset \intersect {"max", "gone"} \subseteq upset'
         /\ "gone" \notin upset' => UNCHANGED present
  <1>1. /\ UNCHANGED <<v2, cfq, busy, limits, status, at, got, start>>
        /\ moves < Moves /\ moves' = moves + 1
    BY DEF World, Charge, Uncharge, Tick, Period, Fork, Exit, Transfer, reset_fail_count,
           reset_max_usage, reset_cpuacct, reset_stats, Rmdir, Mkdir, Move
  <1>2. /\ upset \intersect {"max", "gone"} \subseteq upset'
        /\ upset' \subseteq upset \union {"fail", "max", "cpu", "io", "gone"}
        /\ present' \in BOOLEAN
        /\ "gone" \notin upset' => UNCHANGED present
    BY DEF World, Charge, Uncharge, Tick, Period, Fork, Exit, Transfer, reset_fail_count,
           reset_max_usage, reset_cpuacct, reset_stats, Rmdir, Mkdir, Quiet, StateOK
  <1>3. KernelOK' /\ Grows BY WorldKernel DEF StateOK
  <1>4. moves' \in 0 .. Moves BY <1>1, MovesAssumption DEF StateOK
  <1>5. QED BY <1>1, <1>2, <1>3, <1>4 DEF StateOK
-----------------------------------------------------------------------------
(***************************************************************************)
(* The files of the named reads, and what a read of them returns.          *)
(***************************************************************************)

Reported(r) == UnwrapOr(IF Exists(r.file) THEN Parse(r.as, Text(r.file)) ELSE Err, r.default)

\* A file with one number.
LEMMA OneNumber ==
  ASSUME NEW n \in Int, NEW d
  PROVE  /\ n >= 0 => UnwrapOr(Parse("u64", One(Num(n))), d) = n
         /\ UnwrapOr(Parse("i64", One(Num(n))), d) = n
         /\ UnwrapOr(Parse("max", One(Num(n))), d) = n
         /\ UnwrapOr(Parse("max", One(Word("max"))), d) = NoLimit
         /\ \A c : UnwrapOr(Parse("text", c), d) = c
         /\ UnwrapOr(Err, d) = d
  <1>1. /\ IsSingle(One(Num(n))) /\ One(Num(n))[1][1] = Num(n) /\ IsI64(Num(n)) /\ Num(n)[2] = n
        /\ n >= 0 => IsU64(Num(n))
        /\ One(Num(n)) # One(Word("max"))
    BY DEF IsSingle, One, Num, IsI64, IsU64, Word
  <1>2. \A x : Ok(x) # Err /\ Ok(x)[2] = x BY DEF Ok, Err
  <1>3. /\ n >= 0 => Parse("u64", One(Num(n))) = Ok(n)
        /\ Parse("i64", One(Num(n))) = Ok(n)
        /\ Parse("max", One(Num(n))) = Ok(n)
        /\ Parse("max", One(Word("max"))) = Ok(NoLimit)
        /\ \A c : Parse("text", c) = Ok(c)
    BY <1>1 DEF Parse, read_u64_from, read_i64_from, parse_max_value
  <1>4. QED BY <1>2, <1>3 DEF UnwrapOr

\* The files of a page counter.
LEMMA CounterText ==
  ASSUME NEW k \in Kinds
  PROVE  /\ v2 => /\ DOMAIN CounterFiles(k)
                       = {"current", "max", "events"} \union (IF k = "hugetlb" THEN {} ELSE {"peak"})
                  /\ CounterFiles(k)["current"] = One(Num(kernel.counter[k].usage))
                  /\ k # "hugetlb" => CounterFiles(k)["peak"] = One(Num(kernel.counter[k].max))
                  /\ CounterFiles(k)["max"] = LimitText(limits[k])
         /\ ~v2 => /\ DOMAIN CounterFiles(k) = {"usage_in_bytes", "max_usage_in_bytes", "limit_in_bytes", "failcnt"}
                   /\ CounterFiles(k)["usage_in_bytes"] = One(Num(kernel.counter[k].usage))
                   /\ CounterFiles(k)["max_usage_in_bytes"] = One(Num(kernel.counter[k].max))
                   /\ CounterFiles(k)["limit_in_bytes"] = LimitText(limits[k])
  BY DEF CounterFiles

\* They are among the files of the controller.
LEMMA CounterFile ==
  ASSUME NEW k \in Kinds, ~(v2 /\ k \in {"kmem", "tcp"}), NEW n \in DOMAIN CounterFiles(k)
  PROVE  n \in DOMAIN FilesOf(k) /\ FilesOf(k)[n] = CounterFiles(k)[n]
  <1>1. CASE k = "memory"
    <2>1. FilesOf(k) = MemoryFiles BY <1>1 DEF FilesOf
    <2> DEFINE c == CounterFiles("memory")
    <2>2. n \in DOMAIN c /\ c = CounterFiles("memory") BY <1>1
    <2> HIDE DEF c
    <2>3. n \in DOMAIN MemoryFiles BY <2>2 DEF MemoryFiles
    <2>5. n \notin {"high", "low", "min", "soft_limit_in_bytes", "move_charge_at_immigrate", "swappiness",
                    "use_hierarchy", "stat", "numa_stat", "oom_control"}
      BY <1>1, <2>2, CounterText
    <2>6. MemoryFiles[n] = c[n] BY <2>2, <2>3, <2>5 DEF MemoryFiles
    <2>7. QED BY <1>1, <2>1, <2>2, <2>3, <2>6
  <1>2. CASE k = "hugetlb"
    <2>1. FilesOf(k) = CounterFiles(k) BY <1>2 DEF FilesOf, Kinds
    <2>2. QED BY <2>1
  <1>3. CASE k \notin {"memory", "hugetlb"}
    <2>1. FilesOf(k) = CounterFiles(k) BY <1>3 DEF FilesOf, Kinds
    <2>2. QED BY <2>1
  <1>4. QED BY <1>1, <1>2, <1>3

\* Whether the files of a pair are there.
There(p) ==
  /\ present
  /\ v2 => p.k # "kmem"
  /\ p.k = "hugetlb" => \E i \in DOMAIN PageDirs : p.x.file[3] = KernelSize(PageDirs[i])

\* What a read of the usage or of the maximum reports.
LEMMA PairReported ==
  ASSUME StateOK, NEW p \in Pairs
  PROVE  /\ p.k \in Kinds
         /\ Reported(p.u) = IF There(p) THEN kernel.counter[p.k].usage ELSE 0
         /\ Reported(p.x) = IF There(p) THEN kernel.counter[p.k].max ELSE 0
  <1> DEFINE c == kernel.counter[p.k]
             un == IF Unified(p.k) THEN "current" ELSE "usage_in_bytes"
             xn == IF Unified(p.k) THEN "peak" ELSE "max_usage_in_bytes"
  <1>1. p.k \in Kinds BY PairFields DEF Tags, Kinds
  <1>2. c.usage \in Nat /\ c.max \in Nat BY <1>1 DEF StateOK, KernelOK, Counters
  <1>3. /\ p.u.as = "u64" /\ p.u.default = 0 /\ p.x.as = "u64" /\ p.x.default = 0
        /\ p.u.file[1] = p.k /\ p.u.file[2] = un /\ p.x.file[1] = p.k /\ p.x.file[2] = xn
        /\ p.k = "hugetlb" => p.u.file[3] = p.x.file[3] /\ ~v2
    <2>1. CASE p.k \in Tags /\ p.u = UsageRead(p.k) /\ p.x = PeakRead(p.k)
      BY <2>1 DEF UsageRead, PeakRead, Rd, Tags
    <2>2. CASE ~v2 /\ p.k = "hugetlb" /\ \E z \in ZS : p.u = HugeUsage(z) /\ p.x = HugePeak(z)
      BY <2>2 DEF HugeUsage, HugePeak, Rd, Unified
    <2>3. QED BY <2>1, <2>2, PairFields
  <1>4. p.k # "tcp" BY PairFields DEF Tags
  <1>5. CASE v2 /\ p.k = "kmem"
    <2>1. DOMAIN FilesOf("kmem") = {} BY <1>5 DEF FilesOf, Kinds
    <2>2. ~Exists(p.u.file) /\ ~Exists(p.x.file) BY <1>3, <1>5, <2>1 DEF Exists
    <2>3. ~There(p) BY <1>5 DEF There
    <2>4. QED BY <1>1, <1>3, <2>2, <2>3, OneNumber DEF Reported
  <1>6. CASE ~(v2 /\ p.k = "kmem")
    <2> DEFINE F == CounterFiles(p.k)
    <2>1. /\ un \in DOMAIN F /\ F[un] = One(Num(c.usage))
          /\ xn \in DOMAIN F /\ F[xn] = One(Num(c.max))
      <3>1. CASE v2
        <4>1. Unified(p.k) /\ p.k # "hugetlb" BY <1>3, <1>6, <3>1 DEF Unified
        <4>2. QED BY <1>1, <3>1, <4>1, CounterText
      <3>2. CASE ~v2
        <4>1. ~Unified(p.k) BY <3>2 DEF Unified
        <4>2. QED BY <1>1, <3>2, <4>1, CounterText
      <3>3. QED BY <3>1, <3>2
    <2>2. ~(v2 /\ p.k \in {"kmem", "tcp"}) BY <1>4, <1>6
    <2>3. /\ un \in DOMAIN FilesOf(p.k) /\ FilesOf(p.k)[un] = One(Num(c.usage))
          /\ xn \in DOMAIN FilesOf(p.k) /\ FilesOf(p.k)[xn] = One(Num(c.max))
      BY <1>1, <2>1, <2>2, CounterFile
    <2>4. (Exists(p.u.file) <=> There(p)) /\ (Exists(p.x.file) <=> There(p))
      BY <1>3, <1>6, <2>3 DEF Exists, There
    <2>5. Text(p.u.file) = One(Num(c.usage)) /\ Text(p.x.file) = One(Num(c.max)) BY <1>3, <2>3 DEF Text
    <2> DEFINE cu == c.usage
               cx == c.max
    <2>6. cu \in Int /\ cu >= 0 /\ cx \in Int /\ cx >= 0 BY <1>2
    <2>7. /\ Reported(p.u) = IF There(p) THEN UnwrapOr(Parse("u64", One(Num(cu))), 0) ELSE UnwrapOr(Err, 0)
          /\ Reported(p.x) = IF There(p) THEN UnwrapOr(Parse("u64", One(Num(cx))), 0) ELSE UnwrapOr(Err, 0)
      BY <1>3, <2>4, <2>5 DEF Reported
    <2>8. Reported(p.u) = (IF There(p) THEN cu ELSE 0) /\ Reported(p.x) = IF There(p) THEN cx ELSE 0
      <3> HIDE DEF cu, cx, c, un, xn
      <3>1. QED BY <2>6, <2>7, OneNumber
    <2>9. QED BY <1>1, <2>8
  <1>7. QED BY <1>5, <1>6

\* The limit on pages that is in force, as its file shows it.
InForce(k) ==
  IF v2 /\ k = "kmem" THEN -1
  ELSE IF limits[k] # NoLimit THEN limits[k]
  ELSE IF v2 THEN NoLimit ELSE Unbounded

\* The limit on swap is read as a number, which "max" is not.
Readable(k) == k \in Tags /\ ~(v2 /\ k = "memsw" /\ limits[k] = NoLimit)

LEMMA LimitReported ==
  ASSUME StateOK, present
  PROVE  /\ \A k \in Tags : Readable(k) => Reported(LimitRead(k)) = InForce(k)
         /\ Reported(PidsRead) = limits["pids"]
  <1>1. ASSUME NEW k \in Tags, Readable(k) PROVE Reported(LimitRead(k)) = InForce(k)
    <2> DEFINE n == IF Unified(k) THEN "max" ELSE "limit_in_bytes"
               as == IF v2 /\ k = "memory" THEN "max" ELSE "i64"
               default == IF v2 /\ k = "memory" THEN NoLimit ELSE IF k = "kmem" THEN -1 ELSE 0
    <2>1. /\ k \in Kinds /\ k \notin {"tcp", "hugetlb"} /\ limits[k] \in {NoLimit, 1}
      BY DEF Tags, Kinds, StateOK
    <2>2. LimitRead(k).file = <<k, n>> /\ LimitRead(k).as = as /\ LimitRead(k).default = default
      BY DEF LimitRead, Rd, Unified
    <2>3. CASE v2 /\ k = "kmem"
      <3>1. DOMAIN FilesOf("kmem") = {} BY <2>3 DEF FilesOf, Kinds
      <3>2. ~Exists(LimitRead(k).file) BY <2>2, <2>3, <3>1 DEF Exists
      <3>3. QED BY <2>2, <2>3, <3>2, OneNumber DEF Reported, InForce
    <2>4. CASE ~(v2 /\ k = "kmem")
      <3>1. n \in DOMAIN CounterFiles(k) /\ CounterFiles(k)[n] = LimitText(limits[k])
        BY <2>1, <2>4, CounterText DEF Unified
      <3>2. n \in DOMAIN FilesOf(k) /\ FilesOf(k)[n] = LimitText(limits[k]) BY <2>1, <2>4, <3>1, CounterFile
      <3>3. Exists(LimitRead(k).file) /\ Text(LimitRead(k).file) = LimitText(limits[k])
        BY <2>1, <2>2, <3>2 DEF Exists, Text
      <3>4. Reported(LimitRead(k)) = UnwrapOr(Parse(as, LimitText(limits[k])), default)
        BY <2>2, <3>3 DEF Reported
      <3>5. CASE limits[k] # NoLimit
        <4>1. limits[k] \in Int /\ LimitText(limits[k]) = One(Num(limits[k])) BY <2>1, <3>5 DEF LimitText
        <4>2. QED BY <2>4, <3>4, <3>5, <4>1, OneNumber DEF InForce
      <3>6. CASE limits[k] = NoLimit /\ ~v2
        <4>1. LimitText(limits[k]) = One(Num(Unbounded)) /\ Unbounded \in Int BY <3>6 DEF LimitText, Unbounded
        <4>2. InForce(k) = Unbounded BY <3>6 DEF InForce
        <4>3. QED BY <3>4, <3>6, <4>1, <4>2, OneNumber
      <3>7. CASE limits[k] = NoLimit /\ v2
        <4>1. k = "memory" BY <1>1, <2>1, <2>4, <3>7 DEF Readable, Tags
        <4>2. LimitText(limits[k]) = One(Word("max")) BY <3>7 DEF LimitText
        <4>3. 0 \in Int OBVIOUS
        <4>4. QED BY <2>4, <3>4, <3>7, <4>1, <4>2, <4>3, OneNumber DEF InForce
      <3>8. QED BY <3>5, <3>6, <3>7
    <2>5. QED BY <2>3, <2>4
  <1>2. Reported(PidsRead) = limits["pids"]
    <2>1. limits["pids"] \in {NoLimit, 1} BY DEF StateOK
    <2>2. /\ PidsRead.file = <<"pids", "max">> /\ PidsRead.as = "max" /\ PidsRead.default = 0
      BY DEF PidsRead, Rd
    <2>3. "max" \in DOMAIN FilesOf("pids") /\ FilesOf("pids")["max"] = PidsText BY DEF FilesOf, Kinds
    <2>4. Exists(PidsRead.file) /\ Text(PidsRead.file) = PidsText BY <2>2, <2>3 DEF Exists, Text
    <2>5. Reported(PidsRead) = UnwrapOr(Parse("max", PidsText), 0) BY <2>2, <2>4 DEF Reported
    <2>6. CASE limits["pids"] = NoLimit
      <3>1. PidsText = One(Word("max")) /\ 0 \in Int BY <2>6 DEF PidsText
      <3>2. QED BY <2>5, <2>6, <3>1, OneNumber
    <2>7. CASE limits["pids"] # NoLimit
      <3>1. PidsText = One(Num(limits["pids"])) /\ limits["pids"] \in Int BY <2>1, <2>7 DEF PidsText
      <3>2. QED BY <2>5, <3>1, OneNumber
    <2>8. QED BY <2>6, <2>7
  <1>3. QED BY <1>1, <1>2

\* What a read of cpu.stat reports: three lines of one moment, or nothing.
ThrottleLines(t) ==
  \/ t = << >>
  \/ \E a, b \in Nat, w \in {"throttled_usec", "throttled_time"} :
       /\ b <= a
       /\ t = << <<Word("nr_periods"), Num(a)>>, <<Word("nr_throttled"), Num(b)>>, <<Word(w), Num(b)>> >>

LEMMA ThrottleReported ==
  ASSUME StateOK
  PROVE  ThrottleLines(Reported(ThrottleRead))
  <1>1. /\ ThrottleRead.file = <<"cpu", "stat">> /\ ThrottleRead.as = "text" /\ ThrottleRead.default = << >>
    BY DEF ThrottleRead, Rd
  <1>2. "stat" \in DOMAIN FilesOf("cpu") /\ FilesOf("cpu")["stat"] = ThrottleText BY DEF FilesOf, Kinds
  <1>3. Text(ThrottleRead.file) = ThrottleText BY <1>1, <1>2 DEF Text
  <1>4. Reported(ThrottleRead) = << >> \/ Reported(ThrottleRead) = ThrottleText
    <2>1. UnwrapOr(Parse("text", ThrottleText), << >>) = ThrottleText /\ UnwrapOr(Err, << >>) = << >>
      <3>1. 0 \in Int OBVIOUS
      <3>2. QED BY <3>1, OneNumber
    <2>2. Reported(ThrottleRead) = IF Exists(ThrottleRead.file) THEN UnwrapOr(Parse("text", ThrottleText), << >>)
                                   ELSE UnwrapOr(Err, << >>)
      BY <1>1, <1>3 DEF Reported
    <2>3. QED BY <2>1, <2>2
  <1>5. ThrottleLines(ThrottleText)
    <2> DEFINE w == IF v2 THEN "throttled_usec" ELSE "throttled_time"
    <2>1. w \in {"throttled_usec", "throttled_time"} OBVIOUS
    <2>2. kernel.periods \in Nat /\ kernel.throttled \in Nat /\ kernel.throttled <= kernel.periods
      BY DEF StateOK, KernelOK
    <2>3. ThrottleText = << <<Word("nr_periods"), Num(kernel.periods)>>,
                            <<Word("nr_throttled"), Num(kernel.throttled)>>, <<Word(w), Num(kernel.throttled)>> >>
      BY DEF ThrottleText
    <2> HIDE DEF w
    <2>4. QED BY <2>1, <2>2, <2>3 DEF ThrottleLines
  <1>6. ThrottleLines(<< >>) BY DEF ThrottleLines
  <1>7. QED BY <1>4, <1>5, <1>6

LEMMA ThrottleValues ==
  ASSUME NEW t, ThrottleLines(t)
  PROVE  FromTuples(t, "nr_throttled") <= FromTuples(t, "nr_periods")
  <1>1. CASE t = << >>
    <2>1. \A item : parse_value_from_tuples(t, item) = Err
      <3>1. DOMAIN t = {} BY <1>1
      <3>2. QED BY <3>1 DEF parse_value_from_tuples
    <2>2. \A item : FromTuples(t, item) = 0 BY <2>1 DEF FromTuples, UnwrapOr
    <2>3. QED BY <2>2
  <1>2. CASE t # << >>
    <2>1. PICK a \in Nat, b \in Nat, w \in {"throttled_usec", "throttled_time"} :
            /\ b <= a
            /\ t = << <<Word("nr_periods"), Num(a)>>, <<Word("nr_throttled"), Num(b)>>, <<Word(w), Num(b)>> >>
      BY <1>2 DEF ThrottleLines
    <2>2. /\ DOMAIN t = {1, 2, 3}
          /\ \A i \in {1, 2, 3} : Len(t[i]) = 2
          /\ t[1][1] = Word("nr_periods") /\ t[1][2] = Num(a)
          /\ t[2][1] = Word("nr_throttled") /\ t[2][2] = Num(b) /\ t[3][1] = Word(w)
      BY <2>1
    <2>3. /\ Word("nr_periods") # Word("nr_throttled") /\ Word(w) # Word("nr_periods")
          /\ Word(w) # Word("nr_throttled")
      BY DEF Word
    <2>4. IsU64(Num(a)) /\ IsU64(Num(b)) /\ Num(a)[2] = a /\ Num(b)[2] = b BY DEF IsU64, Num
    <2> DEFINE hits(item) == {i \in DOMAIN t : Len(t[i]) >= 2 /\ t[i][1] = Word(item) /\ IsU64(t[i][2])}
               first(item) == CHOOSE i \in hits(item) : \A j \in hits(item) : i <= j
    <2>5. hits("nr_periods") = {1} /\ hits("nr_throttled") = {2} BY <2>2, <2>3, <2>4
    <2>6. \A item : parse_value_from_tuples(t, item)
                      = IF hits(item) = {} THEN Err ELSE Ok(t[first(item)][2][2])
      BY DEF parse_value_from_tuples
    <2> HIDE DEF hits
    <2>7. first("nr_periods") = 1 /\ first("nr_throttled") = 2 BY <2>5
    <2> HIDE DEF first
    <2>8. /\ parse_value_from_tuples(t, "nr_periods") = Ok(a)
          /\ parse_value_from_tuples(t, "nr_throttled") = Ok(b)
      BY <2>2, <2>4, <2>5, <2>6, <2>7
    <2>9. \A x : Ok(x) # Err /\ Ok(x)[2] = x BY DEF Ok, Err
    <2>10. FromTuples(t, "nr_periods") = a /\ FromTuples(t, "nr_throttled") = b
      BY <2>8, <2>9 DEF FromTuples, UnwrapOr
    <2>11. QED BY <2>1, <2>10
  <1>3. QED BY <1>1, <1>2

-----------------------------------------------------------------------------
(***************************************************************************)
(* The call.                                                               *)
(***************************************************************************)

CallOK ==
  /\ status \in {"idle", "running", "done", "panic"}
  /\ at \in 1 .. Len(Reads) + 1
  /\ DOMAIN got = {Reads[i].field : i \in 1 .. at - 1}
  /\ status = "running" => at <= Len(Reads)
  /\ status = "done" => at = Len(Reads) + 1

\* Of a pair whose usage has been read and whose maximum has not, the usage is
\* at most what a read of the maximum would report; so the maximum is never
\* read below the usage.
UsageOK ==
  upset \intersect {"max", "gone"} = {} =>
    \A p \in Pairs :
      /\ p.x.field \in DOMAIN got =>
           p.u.field \in DOMAIN got /\ got[p.u.field] <= got[p.x.field]
      /\ p.u.field \in DOMAIN got /\ p.x.field \notin DOMAIN got =>
           /\ got[p.u.field] \in Nat
           /\ got[p.u.field] <= IF There(p) THEN kernel.counter[p.k].max ELSE 0

LimitOK ==
  "gone" \notin upset /\ present =>
    /\ \A k \in Tags : Readable(k) /\ <<k, "limit">> \in DOMAIN got => got[<<k, "limit">>] = InForce(k)
    /\ <<"pids", "limit">> \in DOMAIN got => got[<<"pids", "limit">>] = limits["pids"]

ThrottleOK == <<"cpu", "stat">> \in DOMAIN got => ThrottleLines(got[<<"cpu", "stat">>])

StatsInv == StateOK /\ CallOK /\ UsageOK /\ LimitOK /\ ThrottleOK

\* A read of a file gives a value to one field, unless it has one.
LEMMA ReadStep ==
  ASSUME StateOK, CallOK, ReadFile
  PROVE  /\ UNCHANGED <<v2, cfq, busy, limits, kernel, present, moves, start, upset>>
         /\ CallOK'
         /\ at \in DOMAIN Reads /\ Legit(Reads[at])
         /\ DOMAIN got \subseteq DOMAIN got' /\ \A f \in DOMAIN got : got'[f] = got[f]
         /\ \A f \in DOMAIN got' \ DOMAIN got : /\ f = Reads[at].field /\ got'[f] = Reported(Reads[at])
                                                /\ \A j \in DOMAIN Reads : j < at => Reads[j].field \in DOMAIN got
  <1> DEFINE r == Reads[at]
             v == IF Exists(r.file) THEN Parse(r.as, Text(r.file)) ELSE Err
             n == Len(Reads)
  <1>1. /\ IsList(Reads) /\ n \in Nat \ {0} /\ DOMAIN Reads = 1 .. n BY ReadsList DEF StateOK
  <1>2. status = "running" /\ UNCHANGED <<v2, cfq, busy, limits, kernel, present, moves, start, upset>>
    BY DEF ReadFile
  <1>3. Reads' = Reads BY <1>2 DEF Reads
  <1>4. at \in 1 .. n /\ Legit(r) BY <1>1, <1>2 DEF CallOK, IsList
  <1>5. at \in Nat \ {0} /\ at <= n
    <2>1. n \in Nat /\ at \in 1 .. n BY <1>1, <1>4
    <2> HIDE DEF n
    <2>2. QED BY <2>1
  <1>6. \A j \in DOMAIN Reads : j < at => Reads[j].field \in DOMAIN got BY <1>1, <1>4 DEF CallOK
  <1>7. CASE v = Panic
    <2>1. status' = "panic" /\ UNCHANGED <<at, got>> BY <1>7 DEF ReadFile
    <2>2. CallOK' BY <1>3, <2>1 DEF CallOK
    <2>3. QED BY <1>1, <1>2, <1>4, <2>1, <2>2
  <1>8. CASE v # Panic
    <2>1. /\ got' = With(r.field, UnwrapOr(v, r.default)) /\ at' = at + 1
          /\ status' = IF at = n THEN "done" ELSE status
      BY <1>8 DEF ReadFile
    <2>2. at' = at + 1 BY <2>1
    <2>3. Reported(r) = UnwrapOr(v, r.default) BY DEF Reported
    <2>4. /\ DOMAIN got' = DOMAIN got \union {r.field}
          /\ \A f \in DOMAIN got' : got'[f] = IF f \in DOMAIN got THEN got[f] ELSE Reported(r)
      BY <2>1, <2>3 DEF With
    <2> HIDE DEF v
    <2>5. DOMAIN got' = {Reads[i].field : i \in 1 .. at' - 1}
      <3>1. 1 .. at' - 1 = (1 .. at - 1) \union {at}
        <4>1. at' - 1 = at BY <1>5, <2>2
        <4>2. 1 .. at = (1 .. at - 1) \union {at} BY <1>5
        <4>3. QED BY <4>1, <4>2
      <3>2. DOMAIN got = {Reads[i].field : i \in 1 .. at - 1} BY DEF CallOK
      <3>3. QED BY <2>4, <3>1, <3>2
    <2>6. CallOK'
      <3>1. at' \in 1 .. n + 1 /\ (at # n => at' <= n) /\ (at = n => at' = n + 1)
        <4>1. n \in Nat BY <1>1
        <4> HIDE DEF n
        <4>2. QED BY <1>5, <2>2, <4>1
      <3>2. status' = IF at = n THEN "done" ELSE "running" BY <1>2, <2>1
      <3>3. QED BY <1>3, <2>5, <3>1, <3>2 DEF CallOK
    <2>7. QED BY <1>1, <1>2, <1>4, <1>6, <2>4, <2>6
  <1>9. QED BY <1>7, <1>8

\* The pairs depend on the version alone, and a read of a field of one is the
\* read of the pair.
LEMMA SamePairs ==
  ASSUME v2' = v2
  PROVE  /\ Pairs' = Pairs /\ Reads' = Reads
         /\ present' = present => \A p \in Pairs : There(p)' <=> There(p)
  BY DEF Pairs, UsageRead, PeakRead, Unified, Reads, There

LEMMA PairRead ==
  ASSUME NEW p \in Pairs, NEW r, Legit(r)
  PROVE  /\ r.field = p.u.field => r = p.u
         /\ r.field = p.x.field => r = p.x
  BY PairFields DEF Legit

LEMMA UsageStep ==
  ASSUME StateOK, CallOK, UsageOK, ReadFile
  PROVE  UsageOK'
  <1>1. /\ UNCHANGED <<v2, kernel, present, upset>>
        /\ at \in DOMAIN Reads /\ Legit(Reads[at])
        /\ DOMAIN got \subseteq DOMAIN got' /\ \A f \in DOMAIN got : got'[f] = got[f]
        /\ \A f \in DOMAIN got' \ DOMAIN got : /\ f = Reads[at].field /\ got'[f] = Reported(Reads[at])
                                               /\ \A j \in DOMAIN Reads : j < at => Reads[j].field \in DOMAIN got
    BY ReadStep
  <1>2. Pairs' = Pairs BY <1>1, SamePairs
  <1>3. ASSUME upset \intersect {"max", "gone"} = {}, NEW p \in Pairs
        PROVE  /\ p.x.field \in DOMAIN got' =>
                    p.u.field \in DOMAIN got' /\ got'[p.u.field] <= got'[p.x.field]
               /\ p.u.field \in DOMAIN got' /\ p.x.field \notin DOMAIN got' =>
                    /\ got'[p.u.field] \in Nat
                    /\ got'[p.u.field] <= IF There(p) THEN kernel.counter[p.k].max ELSE 0
    <2> DEFINE u == p.u.field
               x == p.x.field
               c == kernel.counter[p.k]
               bound == IF There(p) THEN c.max ELSE 0
    <2>1. /\ x \in DOMAIN got => u \in DOMAIN got /\ got[u] <= got[x]
          /\ u \in DOMAIN got /\ x \notin DOMAIN got => got[u] \in Nat /\ got[u] <= bound
      BY <1>3 DEF UsageOK
    <2>2. /\ Reported(p.u) = IF There(p) THEN c.usage ELSE 0
          /\ Reported(p.x) = bound /\ p.k \in Kinds
      BY PairReported
    <2>3. c.usage \in Nat /\ c.max \in Nat /\ c.usage <= c.max BY <2>2 DEF StateOK, KernelOK, Counters
    <2>4. Reported(p.u) \in Nat /\ Reported(p.u) <= bound BY <2>2, <2>3
    <2>5. ASSUME x \in DOMAIN got', x \notin DOMAIN got PROVE u \in DOMAIN got /\ got'[x] = bound
      <3>1. x = Reads[at].field /\ got'[x] = Reported(Reads[at]) BY <1>1, <2>5
      <3>2. Reads[at] = p.x BY <1>1, <3>1, PairRead
      <3>3. Ordered(Reads) BY ReadsList DEF StateOK, IsList
      <3>4. PICK j \in DOMAIN Reads : j < at /\ Reads[j].field = u BY <1>1, <3>1, <3>3 DEF Ordered
      <3>5. u \in DOMAIN got BY <1>1, <2>5, <3>4
      <3>6. QED BY <2>2, <3>1, <3>2, <3>5
    <2>6. ASSUME u \in DOMAIN got', u \notin DOMAIN got PROVE got'[u] = Reported(p.u)
      <3>1. u = Reads[at].field /\ got'[u] = Reported(Reads[at]) BY <1>1, <2>6
      <3>2. Reads[at] = p.u BY <1>1, <3>1, PairRead
      <3>3. QED BY <3>1, <3>2
    <2>7. /\ x \in DOMAIN got' => u \in DOMAIN got' /\ got'[u] <= got'[x]
          /\ u \in DOMAIN got' /\ x \notin DOMAIN got' => got'[u] \in Nat /\ got'[u] <= bound
      <3> HIDE DEF u, x, c, bound
      <3>1. CASE x \in DOMAIN got BY <1>1, <2>1, <3>1
      <3>2. CASE x \notin DOMAIN got /\ x \in DOMAIN got' BY <1>1, <2>1, <2>5, <3>2
      <3>3. CASE x \notin DOMAIN got'
        <4>1. CASE u \in DOMAIN got
          <5>1. x \notin DOMAIN got BY <1>1, <3>3
          <5>2. QED BY <1>1, <2>1, <3>3, <4>1, <5>1
        <4>2. CASE u \notin DOMAIN got /\ u \in DOMAIN got' BY <2>4, <2>6, <3>3, <4>2
        <4>3. CASE u \notin DOMAIN got' BY <3>3, <4>3
        <4>4. QED BY <4>1, <4>2, <4>3
      <3>4. QED BY <3>1, <3>2, <3>3
    <2>8. QED BY <2>7
  <1>4. QED BY <1>1, <1>2, <1>3, SamePairs DEF UsageOK

LEMMA LimitStep ==
  ASSUME StateOK, CallOK, LimitOK, ReadFile
  PROVE  LimitOK'
  <1>1. /\ UNCHANGED <<v2, limits, present, upset>> /\ Legit(Reads[at])
        /\ DOMAIN got \subseteq DOMAIN got' /\ \A f \in DOMAIN got : got'[f] = got[f]
        /\ \A f \in DOMAIN got' \ DOMAIN got : f = Reads[at].field /\ got'[f] = Reported(Reads[at])
    BY ReadStep
  <1>2. SUFFICES ASSUME "gone" \notin upset, present
        PROVE  /\ \A k \in Tags : Readable(k) /\ <<k, "limit">> \in DOMAIN got' => got'[<<k, "limit">>] = InForce(k)
               /\ <<"pids", "limit">> \in DOMAIN got' => got'[<<"pids", "limit">>] = limits["pids"]
    BY <1>1 DEF LimitOK, Readable, InForce
  <1>3. ASSUME NEW k \in Tags, Readable(k), <<k, "limit">> \in DOMAIN got'
        PROVE  got'[<<k, "limit">>] = InForce(k)
    <2>1. CASE <<k, "limit">> \in DOMAIN got BY <1>1, <1>2, <1>3, <2>1 DEF LimitOK
    <2>2. CASE <<k, "limit">> \notin DOMAIN got
      <3>1. <<k, "limit">> = Reads[at].field /\ got'[<<k, "limit">>] = Reported(Reads[at])
        BY <1>1, <1>3, <2>2
      <3>2. Reads[at] = LimitRead(k) BY <1>1, <3>1 DEF Legit
      <3>3. QED BY <1>2, <1>3, <3>1, <3>2, LimitReported
    <2>3. QED BY <2>1, <2>2
  <1>4. ASSUME <<"pids", "limit">> \in DOMAIN got' PROVE got'[<<"pids", "limit">>] = limits["pids"]
    <2>1. CASE <<"pids", "limit">> \in DOMAIN got BY <1>1, <1>2, <2>1 DEF LimitOK
    <2>2. CASE <<"pids", "limit">> \notin DOMAIN got
      <3>1. <<"pids", "limit">> = Reads[at].field /\ got'[<<"pids", "limit">>] = Reported(Reads[at])
        BY <1>1, <1>4, <2>2
      <3>2. Reads[at] = PidsRead BY <1>1, <3>1 DEF Legit
      <3>3. QED BY <1>2, <3>1, <3>2, LimitReported
    <2>3. QED BY <2>1, <2>2
  <1>5. QED BY <1>3, <1>4

LEMMA ThrottleStep ==
  ASSUME StateOK, CallOK, ThrottleOK, ReadFile
  PROVE  ThrottleOK'
  <1> DEFINE f == <<"cpu", "stat">>
  <1>1. /\ Legit(Reads[at])
        /\ DOMAIN got \subseteq DOMAIN got' /\ \A g \in DOMAIN got : got'[g] = got[g]
        /\ \A g \in DOMAIN got' \ DOMAIN got : g = Reads[at].field /\ got'[g] = Reported(Reads[at])
    BY ReadStep
  <1>2. CASE f \in DOMAIN got
    <2>1. got'[f] = got[f] /\ ThrottleLines(got[f]) BY <1>1, <1>2 DEF ThrottleOK
    <2>2. ThrottleLines(got'[f]) BY <2>1
    <2>3. QED BY <2>2 DEF ThrottleOK, ThrottleLines
  <1>3. CASE f \notin DOMAIN got /\ f \in DOMAIN got'
    <2>1. f = Reads[at].field /\ got'[f] = Reported(Reads[at]) BY <1>1, <1>3
    <2>2. Reads[at] = ThrottleRead BY <1>1, <2>1 DEF Legit
    <2>3. ThrottleLines(got'[f]) BY <2>1, <2>2, ThrottleReported
    <2>4. QED BY <2>3 DEF ThrottleOK, ThrottleLines
  <1>4. CASE f \notin DOMAIN got' BY <1>4 DEF ThrottleOK
  <1>5. QED BY <1>2, <1>3, <1>4

\* The world moves only what the call has not read yet, and never the maximum
\* downwards.
LEMMA WorldStep ==
  ASSUME StatsInv, World
  PROVE  StatsInv'
  <1>1. /\ StateOK' /\ Grows /\ UNCHANGED <<v2, cfq, busy, limits, status, at, got, start>>
        /\ upset \intersect {"max", "gone"} \subseteq upset'
        /\ "gone" \notin upset' => UNCHANGED present
    BY WorldFrame DEF StatsInv
  <1>2. CallOK' BY <1>1, SamePairs DEF StatsInv, CallOK
  <1>3. ThrottleOK' BY <1>1 DEF StatsInv, ThrottleOK, ThrottleLines
  <1>4. LimitOK'
    <2>1. "gone" \notin upset' => "gone" \notin upset BY <1>1
    <2>2. \A k \in Tags : (Readable(k)' <=> Readable(k)) /\ InForce(k)' = InForce(k)
      BY <1>1 DEF Readable, InForce
    <2>3. QED BY <1>1, <2>1, <2>2 DEF StatsInv, LimitOK
  <1>5. UsageOK'
    <2> SUFFICES ASSUME upset' \intersect {"max", "gone"} = {}, NEW p \in Pairs
                 PROVE  /\ p.x.field \in DOMAIN got =>
                             p.u.field \in DOMAIN got /\ got[p.u.field] <= got[p.x.field]
                        /\ p.u.field \in DOMAIN got /\ p.x.field \notin DOMAIN got =>
                             /\ got[p.u.field] \in Nat
                             /\ got[p.u.field] <= IF There(p)' THEN kernel'.counter[p.k].max ELSE 0
      BY <1>1, SamePairs DEF UsageOK
    <2>1. upset \intersect {"max", "gone"} = {} /\ UNCHANGED present BY <1>1
    <2>2. There(p)' <=> There(p) BY <1>1, <2>1, SamePairs
    <2>3. p.k \in Kinds BY PairReported DEF StatsInv
    <2>4. kernel.counter[p.k].max <= kernel'.counter[p.k].max BY <1>1, <2>3 DEF Grows
    <2>5. kernel.counter[p.k].max \in Nat /\ kernel'.counter[p.k].max \in Nat
      BY <1>1, <2>3 DEF StatsInv, StateOK, KernelOK, Counters
    <2>6. /\ p.x.field \in DOMAIN got => p.u.field \in DOMAIN got /\ got[p.u.field] <= got[p.x.field]
          /\ p.u.field \in DOMAIN got /\ p.x.field \notin DOMAIN got =>
               /\ got[p.u.field] \in Nat
               /\ got[p.u.field] <= IF There(p) THEN kernel.counter[p.k].max ELSE 0
      BY <2>1 DEF StatsInv, UsageOK
    <2> DEFINE u == p.u.field
               m == kernel.counter[p.k].max
               n == kernel'.counter[p.k].max
    <2>7. m \in Nat /\ n \in Nat /\ m <= n BY <2>4, <2>5
    <2>8. got[u] \in Nat /\ (got[u] <= IF There(p) THEN m ELSE 0) => got[u] <= IF There(p)' THEN n ELSE 0
      <3> HIDE DEF m, n, u
      <3>1. QED BY <2>2, <2>7
    <2>9. QED BY <2>6, <2>8
  <1>6. QED BY <1>1, <1>2, <1>3, <1>4, <1>5 DEF StatsInv

LEMMA BeginStep ==
  ASSUME StatsInv, Begin
  PROVE  StatsInv'
  <1>1. /\ UNCHANGED <<v2, cfq, busy, limits, kernel, present, moves>>
        /\ status' = "running" /\ at' = 1 /\ got' = << >> /\ upset' = upset \intersect {"cpu"}
    BY DEF Begin
  <1>2. DOMAIN got' = {} BY <1>1
  <1>3. StateOK' BY <1>1 DEF StatsInv, StateOK, KernelOK
  <1>4. CallOK'
    <2>1. Reads' = Reads /\ Len(Reads) \in Nat \ {0} BY <1>1, SamePairs, ReadsList DEF StatsInv, StateOK
    <2>2. {Reads[i].field : i \in 1 .. 1 - 1} = {} OBVIOUS
    <2>3. 1 \in 1 .. Len(Reads) + 1 /\ 1 <= Len(Reads) BY <2>1
    <2>4. QED BY <1>1, <1>2, <2>1, <2>2, <2>3 DEF CallOK
  <1>5. UsageOK' /\ LimitOK' /\ ThrottleOK' BY <1>2 DEF UsageOK, LimitOK, ThrottleOK
  <1>6. QED BY <1>3, <1>4, <1>5 DEF StatsInv

LEMMA InitOK == Init => StatsInv
  <1> SUFFICES ASSUME Init PROVE StatsInv OBVIOUS
  <1>1. /\ v2 \in BOOLEAN /\ cfq \in BOOLEAN /\ kernel = Fresh /\ present = TRUE /\ moves = 0
        /\ limits \in [Kinds \union {"pids"} -> {NoLimit, 1}]
        /\ status = "idle" /\ at = 1 /\ got = << >> /\ upset = {}
    BY V2sAssumption DEF Init
  <1>2. DOMAIN got = {} BY <1>1
  <1>3. KernelOK
    <2>1. Fresh.counter["memory"].usage = 0 /\ Fresh.counter["memsw"].usage = 0 BY DEF Fresh, Kinds
    <2>2. QED BY <1>1, <2>1, FreshOK DEF KernelOK
  <1>4. StateOK BY <1>1, <1>3, MovesAssumption DEF StateOK
  <1>5. CallOK
    <2>1. Len(Reads) \in Nat \ {0} BY <1>1, ReadsList
    <2>2. {Reads[i].field : i \in 1 .. 1 - 1} = {} OBVIOUS
    <2>3. 1 \in 1 .. Len(Reads) + 1 BY <2>1
    <2>4. QED BY <1>1, <1>2, <2>2, <2>3 DEF CallOK
  <1>6. UsageOK /\ LimitOK /\ ThrottleOK BY <1>2 DEF UsageOK, LimitOK, ThrottleOK
  <1>7. QED BY <1>4, <1>5, <1>6 DEF StatsInv

LEMMA StepOK == StatsInv /\ [Next]_vars => StatsInv'
  <1> SUFFICES ASSUME StatsInv, [Next]_vars PROVE StatsInv' OBVIOUS
  <1>1. CASE Begin BY <1>1, BeginStep
  <1>2. CASE ReadFile
    <2>1. CallOK' /\ UNCHANGED <<v2, cfq, busy, limits, kernel, present, moves, start, upset>>
      BY <1>2, ReadStep DEF StatsInv
    <2>2. StateOK' BY <2>1 DEF StatsInv, StateOK, KernelOK
    <2>3. UsageOK' /\ LimitOK' /\ ThrottleOK'
      BY <1>2, UsageStep, LimitStep, ThrottleStep DEF StatsInv
    <2>4. QED BY <2>1, <2>2, <2>3 DEF StatsInv
  <1>3. CASE World BY <1>3, WorldStep
  <1>4. CASE UNCHANGED vars
    <2>1. UNCHANGED <<v2, cfq, busy, limits, kernel, present, moves, status, at, got, start, upset>>
      BY <1>4 DEF vars
    <2>2. StateOK' /\ CallOK' /\ ThrottleOK'
      <3>1. StateOK' BY <2>1 DEF StatsInv, StateOK, KernelOK
      <3>2. CallOK' BY <2>1, SamePairs DEF StatsInv, CallOK
      <3>3. ThrottleOK' BY <2>1 DEF StatsInv, ThrottleOK, ThrottleLines
      <3>4. QED BY <3>1, <3>2, <3>3
    <2>3. LimitOK' BY <2>1 DEF StatsInv, LimitOK, Readable, InForce
    <2>4. UsageOK' BY <2>1, SamePairs DEF StatsInv, UsageOK
    <2>5. QED BY <2>2, <2>3, <2>4 DEF StatsInv
  <1>5. QED BY <1>1, <1>2, <1>3, <1>4 DEF Next, World

LEMMA Invariant == Spec => []StatsInv
  <1>1. QED BY InitOK, StepOK, PTL DEF Spec

-----------------------------------------------------------------------------
(***************************************************************************)
(* The theorems.                                                           *)
(***************************************************************************)

\* A call that is done has read every file of its list.
LEMMA AllRead ==
  ASSUME StatsInv, status = "done"
  PROVE  /\ \A k \in Tags, f \in {"usage", "max_usage", "limit"} : <<k, f>> \in DOMAIN got
         /\ <<"pids", "limit">> \in DOMAIN got /\ <<"cpu", "stat">> \in DOMAIN got
         /\ ~v2 => \A i \in DOMAIN Sizes : /\ <<"hugetlb", "usage", Sizes[i]>> \in DOMAIN got
                                           /\ <<"hugetlb", "max_usage", Sizes[i]>> \in DOMAIN got
  <1>1. /\ DOMAIN Reads = 1 .. Len(Reads) /\ Len(Reads) \in Nat
        /\ \A f \in NamedSet : Has(Reads, f)
        /\ ~v2 => \A i \in DOMAIN Sizes : /\ Has(Reads, <<"hugetlb", "usage", Sizes[i]>>)
                                          /\ Has(Reads, <<"hugetlb", "max_usage", Sizes[i]>>)
    BY ReadsList DEF StatsInv, StateOK
  <1>2. \A f : Has(Reads, f) => f \in DOMAIN got
    <2>1. at = Len(Reads) + 1 /\ DOMAIN got = {Reads[i].field : i \in 1 .. at - 1}
      BY DEF StatsInv, CallOK
    <2>2. at - 1 = Len(Reads) BY <1>1, <2>1
    <2>3. QED BY <1>1, <2>1, <2>2 DEF Has
  <1>3. /\ \A k \in Tags, f \in {"usage", "max_usage", "limit"} : <<k, f>> \in NamedSet
        /\ <<"pids", "limit">> \in NamedSet /\ <<"cpu", "stat">> \in NamedSet
    BY DEF NamedSet
  <1>4. QED BY <1>1, <1>2, <1>3

\* The call is somewhere in its list of files and has a value for each file
\* before that, whichever of them can be read.
THEOREM TypeCorrect == Spec => []TypeOK
  <1>1. StatsInv => TypeOK BY DEF StatsInv, StateOK, CallOK, TypeOK
  <1>2. QED BY <1>1, Invariant, PTL

\* memory_stat, memswap, kmem_stat and, on v1, the pages of hugetlb: the usage
\* a call reports is at most the maximum it reports, however often the
\* counters move between the two files, unless the maximum was reset or the
\* cgroup was removed meanwhile.
THEOREM UsageBelowMax == Spec => []UsageWithinMax
  <1>1. StatsInv => UsageWithinMax
    <2> SUFFICES ASSUME StatsInv, status = "done", upset \intersect {"max", "gone"} = {}
                 PROVE  /\ \A s \in {memory_stats, CounterStats("memsw"), CounterStats("kmem")} :
                             s.usage <= s.max_usage
                        /\ ~v2 => \A z \in DOMAIN huge_tlb_cgroup_stats :
                             huge_tlb_cgroup_stats[z].usage <= huge_tlb_cgroup_stats[z].max_usage
      BY DEF UsageWithinMax, Complete
    <2>1. \A p \in Pairs : p.x.field \in DOMAIN got => got[p.u.field] <= got[p.x.field]
      BY DEF StatsInv, UsageOK
    <2>2. ASSUME NEW k \in Tags PROVE got[<<k, "usage">>] <= got[<<k, "max_usage">>]
      <3> DEFINE p == [u |-> UsageRead(k), x |-> PeakRead(k), k |-> k]
      <3>1. p \in Pairs /\ p.u.field = <<k, "usage">> /\ p.x.field = <<k, "max_usage">>
        BY NamedFields DEF Pairs
      <3>2. QED BY <2>1, <3>1, AllRead
    <2>3. /\ \A k \in {"memsw", "kmem"} : CounterStats(k).usage = got[<<k, "usage">>]
                                          /\ CounterStats(k).max_usage = got[<<k, "max_usage">>]
          /\ memory_stats.usage = got[<<"memory", "usage">>]
          /\ memory_stats.max_usage = got[<<"memory", "max_usage">>]
      BY DEF CounterStats, memory_stats
    <2>4. \A s \in {memory_stats, CounterStats("memsw"), CounterStats("kmem")} : s.usage <= s.max_usage
      BY <2>2, <2>3 DEF Tags
    <2>5. ASSUME ~v2, NEW z \in DOMAIN huge_tlb_cgroup_stats
          PROVE  huge_tlb_cgroup_stats[z].usage <= huge_tlb_cgroup_stats[z].max_usage
      <3>1. PICK i \in DOMAIN Sizes : z = Sizes[i] BY <2>5 DEF huge_tlb_cgroup_stats
      <3>2. z \in ZS BY <3>1, SizesType
      <3> DEFINE p == [u |-> HugeUsage(z), x |-> HugePeak(z), k |-> "hugetlb"]
      <3>3. p \in Pairs /\ p.u.field = <<"hugetlb", "usage", z>> /\ p.x.field = <<"hugetlb", "max_usage", z>>
        BY <2>5, <3>2, NamedFields DEF Pairs
      <3>4. got[<<"hugetlb", "usage", z>>] <= got[<<"hugetlb", "max_usage", z>>]
        BY <2>1, <2>5, <3>1, <3>3, AllRead
      <3>5. /\ huge_tlb_cgroup_stats[z].usage = got[<<"hugetlb", "usage", z>>]
            /\ huge_tlb_cgroup_stats[z].max_usage = got[<<"hugetlb", "max_usage", z>>]
        BY <2>5 DEF huge_tlb_cgroup_stats
      <3>6. QED BY <3>4, <3>5
    <2>6. QED BY <2>4, <2>5
  <1>2. QED BY <1>1, Invariant, PTL

\* cpu_throttling_stats: whatever cpu.stat said when it was read, and also if
\* it could not be read, there are never more throttled periods than periods.
THEOREM ThrottledBelowPeriods == Spec => []ThrottledWithinPeriods
  <1>1. StatsInv => ThrottledWithinPeriods
    <2> SUFFICES ASSUME StatsInv, status = "done"
                 PROVE  cpu_throttling_stats.throttled_periods <= cpu_throttling_stats.periods
      BY DEF ThrottledWithinPeriods
    <2>1. ThrottleLines(got[<<"cpu", "stat">>]) BY AllRead DEF StatsInv, ThrottleOK
    <2>2. /\ cpu_throttling_stats.throttled_periods = FromTuples(got[<<"cpu", "stat">>], "nr_throttled")
          /\ cpu_throttling_stats.periods = FromTuples(got[<<"cpu", "stat">>], "nr_periods")
      BY DEF cpu_throttling_stats
    <2>3. QED BY <2>1, <2>2, ThrottleValues
  <1>2. QED BY <1>1, Invariant, PTL

\* memory_stats, memory_swap_stats, the kernel memory and pids_cgroup_stats: the
\* limits a call reports are those in force, in the form each version gives
\* "no limit", as long as the cgroup stays.
THEOREM LimitsCorrect == Spec => []LimitsReported
  <1>1. StatsInv => LimitsReported
    <2> DEFINE Is(x, l, none) == x = IF l = NoLimit THEN none ELSE l
               none == IF v2 THEN -1 ELSE Unbounded
    <2> SUFFICES ASSUME StatsInv, status = "done", "gone" \notin upset, present
                 PROVE  /\ Is(memory_stats.limit, limits["memory"], none)
                        /\ Is(CounterStats("kmem").limit, IF v2 THEN NoLimit ELSE limits["kmem"], none)
                        /\ limits["memsw"] # NoLimit \/ ~v2
                             => Is(CounterStats("memsw").limit, limits["memsw"], none)
                        /\ Is(pids_cgroup_stats.limit, limits["pids"], 0)
      BY DEF LimitsReported, Complete
    <2>1. /\ \A k \in Tags : Readable(k) => got[<<k, "limit">>] = InForce(k)
          /\ got[<<"pids", "limit">>] = limits["pids"]
      BY AllRead DEF StatsInv, LimitOK
    <2>2. /\ limits["memory"] \in {NoLimit, 1} /\ limits["memsw"] \in {NoLimit, 1}
          /\ limits["kmem"] \in {NoLimit, 1} /\ NoLimit # -1 /\ NoLimit # 1 /\ NoLimit # Unbounded
      BY NoLimitAssumption DEF StatsInv, StateOK, Kinds, Unbounded
    <2>3. Is(memory_stats.limit, limits["memory"], none)
      <3>1. got[<<"memory", "limit">>] = InForce("memory") BY <2>1 DEF Readable, Tags
      <3>2. memory_stats.limit = IF v2 THEN to_i64(InForce("memory")) ELSE InForce("memory")
        BY <3>1 DEF memory_stats
      <3>3. QED BY <2>2, <3>2 DEF to_i64, InForce
    <2>4. Is(CounterStats("kmem").limit, IF v2 THEN NoLimit ELSE limits["kmem"], none)
      <3>1. got[<<"kmem", "limit">>] = InForce("kmem") BY <2>1 DEF Readable, Tags
      <3>2. CounterStats("kmem").limit = InForce("kmem") BY <3>1 DEF CounterStats
      <3>3. QED BY <2>2, <3>2 DEF InForce
    <2>5. ASSUME limits["memsw"] # NoLimit \/ ~v2 PROVE Is(CounterStats("memsw").limit, limits["memsw"], none)
      <3>1. got[<<"memsw", "limit">>] = InForce("memsw") BY <2>1, <2>5 DEF Readable, Tags
      <3>2. CounterStats("memsw").limit = InForce("memsw") BY <3>1 DEF CounterStats
      <3>3. QED BY <2>2, <2>5, <3>2 DEF InForce
    <2>6. Is(pids_cgroup_stats.limit, limits["pids"], 0) BY <2>1 DEF pids_cgroup_stats
    <2>7. QED BY <2>3, <2>4, <2>5, <2>6
  <1>2. QED BY <1>1, Invariant, PTL

\* A sum adds one element after the other.
LEMMA SumSteps ==
  ASSUME NEW n \in Nat, NEW s \in [1 .. n -> Nat]
  PROVE  \E f : Sum(s) = f[n] /\ f[0] = 0 /\ \A i \in 1 .. n : f[i] = f[i - 1] + s[i]
  <1> DEFINE Eq(g, k) == g = [t \in SUBSET (1 .. k) |-> IF t = {} THEN 0 ELSE g[t \ {Max(t)}] + s[Max(t)]]
             Bad == {k \in Nat : \A g : ~Eq(g, k)}
  <1>1. ASSUME NEW k \in Nat \ {0}, NEW t \in SUBSET (1 .. k), k \in t PROVE Max(t) = k
    <2>1. \A x \in t : x \in Nat /\ x <= k OBVIOUS
    <2>2. \A x \in t : (\A y \in t : x >= y) <=> x = k BY <1>1, <2>1
    <2>3. QED BY <1>1, <2>2 DEF Max
  <1>2. Bad = {}
    <2>1. SUFFICES ASSUME Bad # {} PROVE FALSE OBVIOUS
    <2>2. PICK k \in Bad : \A j \in Bad : k <= j
      <3>1. Bad \in SUBSET Nat OBVIOUS
      <3> HIDE DEF Bad
      <3>2. QED BY <2>1, <3>1, Least
    <2>3. CASE k = 0
      <3> DEFINE g == [t \in SUBSET (1 .. 0) |-> 0]
      <3>1. \A t \in SUBSET (1 .. 0) : t = {} OBVIOUS
      <3>2. Eq(g, 0) BY <3>1
      <3>3. QED BY <2>2, <2>3, <3>2
    <2>4. CASE k # 0
      <3>1. k \in Nat \ {0} /\ k - 1 \in Nat /\ ~(k <= k - 1) BY <2>2, <2>4
      <3>2. PICK g : Eq(g, k - 1)
        <4> HIDE DEF Eq
        <4>1. k - 1 \notin Bad BY <2>2, <3>1
        <4>2. QED BY <3>1, <4>1
      <3> DEFINE h == [t \in SUBSET (1 .. k) |-> IF k \in t THEN g[t \ {k}] + s[k] ELSE g[t]]
      <3>3. \A t \in SUBSET (1 .. k) : k \notin t => t \in SUBSET (1 .. k - 1) BY <3>1
      <3>4. ASSUME NEW t \in SUBSET (1 .. k)
            PROVE  h[t] = IF t = {} THEN 0 ELSE h[t \ {Max(t)}] + s[Max(t)]
        <4>1. CASE k \in t
          <5>1. Max(t) = k /\ t # {} BY <1>1, <3>1, <4>1
          <5>2. t \ {k} \in SUBSET (1 .. k) /\ k \notin t \ {k} OBVIOUS
          <5>3. h[t \ {k}] = g[t \ {k}] /\ h[t] = g[t \ {k}] + s[k] BY <4>1, <5>2
          <5> HIDE DEF h
          <5>4. QED BY <5>1, <5>3
        <4>2. CASE k \notin t
          <5> DEFINE u == t \ {Max(t)}
          <5>1. u \in SUBSET (1 .. k) /\ k \notin u BY <4>2
          <5>2. h[t] = g[t] /\ h[u] = g[u] BY <4>2, <5>1
          <5>3. g[t] = IF t = {} THEN 0 ELSE g[u] + s[Max(t)]
            <6>1. t \in SUBSET (1 .. k - 1) BY <3>3, <4>2
            <6>2. QED BY <3>2, <6>1
          <5> HIDE DEF h
          <5>4. QED BY <5>2, <5>3
        <4>3. QED BY <4>1, <4>2
      <3>5. Eq(h, k)
        <4>1. h = [t \in SUBSET (1 .. k) |-> h[t]] OBVIOUS
        <4> HIDE DEF h
        <4>2. QED BY <3>4, <4>1
      <3>6. QED BY <2>2, <3>5
    <2>5. QED BY <2>3, <2>4
  <1> DEFINE g == CHOOSE h : Eq(h, n)
             f == [i \in 0 .. n |-> g[1 .. i]]
  <1>3. Eq(g, n)
    <2> HIDE DEF Eq
    <2>1. \E h : Eq(h, n) BY <1>2
    <2>2. QED BY <2>1
  <1>4. Sum(s) = g[1 .. n]
    <2>1. DOMAIN s = 1 .. n OBVIOUS
    <2>2. QED BY <2>1 DEF Sum, FoldLeft, MapThenFoldSet
  <1> HIDE DEF g
  <1>5. f[0] = 0
    <2>1. 1 .. 0 = {} /\ 1 .. 0 \in SUBSET (1 .. n) OBVIOUS
    <2>2. g[1 .. 0] = 0 BY <1>3, <2>1
    <2>3. QED BY <2>2
  <1>6. ASSUME NEW i \in 1 .. n PROVE f[i] = f[i - 1] + s[i]
    <2>1. i \in Nat \ {0} /\ i \in 1 .. i /\ 1 .. i \in SUBSET (1 .. n) /\ i - 1 \in 0 .. n /\ i \in 0 .. n OBVIOUS
    <2>2. Max(1 .. i) = i BY <1>1, <2>1
    <2>3. (1 .. i) \ {i} = 1 .. i - 1 /\ 1 .. i # {} BY <2>1
    <2>4. g[1 .. i] = g[1 .. i - 1] + s[i] BY <1>3, <2>1, <2>2, <2>3
    <2>5. QED BY <2>1, <2>4
  <1>7. Sum(s) = f[n] BY <1>4
  <1> HIDE DEF f
  <1>8. QED BY <1>5, <1>6, <1>7

\* Induction up to n: what 0 has and each number has after the one below it.
LEMMA UpTo ==
  ASSUME NEW n \in Nat, NEW G, 0 \in G, \A i \in 1 .. n : i - 1 \in G => i \in G
  PROVE  \A i \in 0 .. n : i \in G
  <1> DEFINE T == {i \in 0 .. n : i \notin G}
  <1>1. SUFFICES ASSUME T # {} PROVE FALSE OBVIOUS
  <1>2. T \in SUBSET Nat OBVIOUS
  <1>3. PICK i \in T : \A j \in T : i <= j
    <2> HIDE DEF T
    <2>1. QED BY <1>1, <1>2, Least
  <1>4. i # 0 /\ i \in 1 .. n BY <1>3
  <1>5. i - 1 \in 0 .. n /\ ~(i <= i - 1) BY <1>4
  <1>6. i - 1 \in G BY <1>3, <1>5
  <1>7. QED BY <1>3, <1>4, <1>6

\* The sum of natural numbers is one, and 0 when they all are.
LEMMA SumType ==
  ASSUME NEW n \in Nat, NEW s \in [1 .. n -> Nat]
  PROVE  Sum(s) \in Nat /\ ((\A i \in 1 .. n : s[i] = 0) => Sum(s) = 0)
  <1>1. PICK f : Sum(s) = f[n] /\ f[0] = 0 /\ \A i \in 1 .. n : f[i] = f[i - 1] + s[i] BY SumSteps
  <1> DEFINE G == {i \in 0 .. n : f[i] \in Nat /\ ((\A j \in 1 .. n : s[j] = 0) => f[i] = 0)}
  <1>2. 0 \in G BY <1>1
  <1>3. ASSUME NEW i \in 1 .. n, i - 1 \in G PROVE i \in G
    <2>1. f[i] = f[i - 1] + s[i] /\ s[i] \in Nat /\ i \in 0 .. n BY <1>1
    <2>2. QED BY <1>3, <2>1
  <1> HIDE DEF G
  <1>4. \A i \in 0 .. n : i \in G BY <1>2, <1>3, UpTo
  <1>5. n \in G BY <1>4
  <1>6. QED BY <1>1, <1>5 DEF G

\* The sum of two functions' sums, point by point.
LEMMA SumAdd ==
  ASSUME NEW n \in Nat, NEW s \in [1 .. n -> Nat], NEW t \in [1 .. n -> Nat], NEW u \in [1 .. n -> Nat],
         \A i \in 1 .. n : u[i] = s[i] + t[i]
  PROVE  Sum(u) = Sum(s) + Sum(t)
  <1>1. PICK f : Sum(s) = f[n] /\ f[0] = 0 /\ \A i \in 1 .. n : f[i] = f[i - 1] + s[i] BY SumSteps
  <1>2. PICK g : Sum(t) = g[n] /\ g[0] = 0 /\ \A i \in 1 .. n : g[i] = g[i - 1] + t[i] BY SumSteps
  <1>3. PICK h : Sum(u) = h[n] /\ h[0] = 0 /\ \A i \in 1 .. n : h[i] = h[i - 1] + u[i] BY SumSteps
  <1> DEFINE G == {i \in 0 .. n : f[i] \in Nat /\ g[i] \in Nat /\ h[i] = f[i] + g[i]}
  <1>4. 0 \in G BY <1>1, <1>2, <1>3
  <1>5. ASSUME NEW i \in 1 .. n, i - 1 \in G PROVE i \in G
    <2>1. /\ f[i] = f[i - 1] + s[i] /\ g[i] = g[i - 1] + t[i] /\ h[i] = h[i - 1] + u[i]
          /\ s[i] \in Nat /\ t[i] \in Nat /\ u[i] = s[i] + t[i] /\ i \in 0 .. n
      BY <1>1, <1>2, <1>3
    <2>2. f[i - 1] \in Nat /\ g[i - 1] \in Nat /\ h[i - 1] = f[i - 1] + g[i - 1] BY <1>5
    <2> DEFINE a == f[i - 1]
               b == g[i - 1]
    <2>3. \A w, x, y, z \in Nat : w + x \in Nat /\ (w + x) + (y + z) = (w + y) + (x + z) OBVIOUS
    <2>4. a \in Nat /\ b \in Nat /\ f[i] = a + s[i] /\ g[i] = b + t[i] /\ h[i] = (a + b) + (s[i] + t[i])
      BY <2>1, <2>2
    <2> HIDE DEF a, b
    <2>5. f[i] \in Nat /\ g[i] \in Nat BY ONLY <2>1, <2>3, <2>4
    <2>6. h[i] = f[i] + g[i] BY ONLY <2>1, <2>3, <2>4
    <2>7. QED BY <2>1, <2>5, <2>6
  <1> HIDE DEF G
  <1>6. \A i \in 0 .. n : i \in G BY <1>4, <1>5, UpTo
  <1>7. n \in G BY <1>6
  <1>8. QED BY <1>1, <1>2, <1>3, <1>7 DEF G

\* One element more by one.
LEMMA SumBump ==
  ASSUME NEW n \in Nat, NEW s \in [1 .. n -> Nat], NEW c \in 1 .. n
  PROVE  Sum([s EXCEPT ![c] = @ + 1]) = Sum(s) + 1
  <1> DEFINE u == [s EXCEPT ![c] = @ + 1]
             e == [i \in 1 .. n |-> IF i = c THEN 1 ELSE 0]
  <1>1. e \in [1 .. n -> Nat] /\ u \in [1 .. n -> Nat] /\ \A i \in 1 .. n : u[i] = s[i] + e[i] OBVIOUS
  <1>2. Sum(e) = 1
    <2>1. PICK f : Sum(e) = f[n] /\ f[0] = 0 /\ \A i \in 1 .. n : f[i] = f[i - 1] + e[i]
      <3> HIDE DEF e
      <3>1. QED BY <1>1, SumSteps
    <2> DEFINE G == {i \in 0 .. n : f[i] = IF i < c THEN 0 ELSE 1}
    <2>2. 0 \in G BY <2>1
    <2>3. ASSUME NEW i \in 1 .. n, i - 1 \in G PROVE i \in G
      <3>1. f[i] = f[i - 1] + e[i] /\ i \in 0 .. n BY <2>1
      <3>2. CASE i = c BY <2>3, <3>1, <3>2
      <3>3. CASE i # c BY <2>3, <3>1, <3>3
      <3>4. QED BY <3>2, <3>3
    <2> HIDE DEF G, e
    <2>4. \A i \in 0 .. n : i \in G BY <2>2, <2>3, UpTo
    <2>5. n \in G BY <2>4
    <2>6. QED BY <2>1, <2>5 DEF G
  <1> HIDE DEF e, u
  <1>3. Sum(u) = Sum(s) + Sum(e) BY <1>1, SumAdd
  <1>4. QED BY <1>2, <1>3 DEF u

\* A longer sequence of larger elements.
LEMMA SumLe ==
  ASSUME NEW m \in Nat, NEW n \in Nat, m <= n, NEW s \in [1 .. m -> Nat], NEW t \in [1 .. n -> Nat],
         \A i \in 1 .. m : s[i] <= t[i]
  PROVE  Sum(s) <= Sum(t)
  <1>1. PICK f : Sum(s) = f[m] /\ f[0] = 0 /\ \A i \in 1 .. m : f[i] = f[i - 1] + s[i] BY SumSteps
  <1>2. PICK g : Sum(t) = g[n] /\ g[0] = 0 /\ \A i \in 1 .. n : g[i] = g[i - 1] + t[i] BY SumSteps
  <1> DEFINE G == {i \in 0 .. n : g[i] \in Nat /\ (i <= m => f[i] \in Nat /\ f[i] <= g[i])
                                  /\ (i >= m => f[m] \in Nat /\ f[m] <= g[i])}
  <1>3. 0 \in G BY <1>1, <1>2
  <1>4. ASSUME NEW i \in 1 .. n, i - 1 \in G PROVE i \in G
    <2>1. g[i] = g[i - 1] + t[i] /\ t[i] \in Nat /\ i \in 0 .. n BY <1>2
    <2>2. i <= m => f[i] = f[i - 1] + s[i] /\ s[i] \in Nat /\ s[i] <= t[i]
      <3>1. i <= m => i \in 1 .. m OBVIOUS
      <3>2. QED BY <1>1, <3>1
    <2>3. CASE i <= m
      <3>1. i - 1 <= m BY <2>3
      <3>2. f[i] \in Nat /\ f[i] <= g[i] /\ g[i] \in Nat BY <1>4, <2>1, <2>2, <2>3, <3>1
      <3>3. i >= m => i = m BY <2>3
      <3>4. QED BY <2>1, <3>2, <3>3
    <2>4. CASE ~(i <= m)
      <3>1. i - 1 >= m /\ i >= m BY <2>4
      <3>2. QED BY <1>4, <2>1, <2>4, <3>1
    <2>5. QED BY <2>3, <2>4
  <1> HIDE DEF G
  <1>5. \A i \in 0 .. n : i \in G BY <1>3, <1>4, UpTo
  <1>6. n \in G /\ n >= m BY <1>5
  <1>7. QED BY <1>1, <1>2, <1>6 DEF G

\* The sum of two sequences, one after the other.
LEMMA SumJoin ==
  ASSUME NEW m \in Nat, NEW n \in Nat, NEW s \in [1 .. m -> Nat], NEW t \in [1 .. n -> Nat],
         NEW u \in [1 .. m + n -> Nat], \A i \in 1 .. m : u[i] = s[i], \A i \in 1 .. n : u[m + i] = t[i]
  PROVE  Sum(u) = Sum(s) + Sum(t)
  <1>0. m + n \in Nat OBVIOUS
  <1>1. PICK f : Sum(s) = f[m] /\ f[0] = 0 /\ \A i \in 1 .. m : f[i] = f[i - 1] + s[i] BY SumSteps
  <1>2. PICK g : Sum(t) = g[n] /\ g[0] = 0 /\ \A i \in 1 .. n : g[i] = g[i - 1] + t[i] BY SumSteps
  <1>3. PICK h : Sum(u) = h[m + n] /\ h[0] = 0 /\ \A i \in 1 .. m + n : h[i] = h[i - 1] + u[i]
    BY <1>0, SumSteps
  <1> DEFINE G == {i \in 0 .. m : f[i] \in Nat /\ h[i] = f[i]}
             H == {i \in 0 .. n : g[i] \in Nat /\ h[m + i] = f[m] + g[i]}
  <1>4. 0 \in G BY <1>1, <1>3
  <1>5. ASSUME NEW i \in 1 .. m, i - 1 \in G PROVE i \in G
    <2>1. f[i] = f[i - 1] + s[i] /\ h[i] = h[i - 1] + u[i] /\ s[i] \in Nat /\ u[i] = s[i] /\ i \in 0 .. m
      BY <1>1, <1>3
    <2>2. QED BY <1>5, <2>1
  <1>6. m \in G
    <2> HIDE DEF G
    <2>1. \A i \in 0 .. m : i \in G BY <1>4, <1>5, UpTo
    <2>2. QED BY <2>1
  <1>7. 0 \in H BY <1>2, <1>6
  <1>8. ASSUME NEW i \in 1 .. n, i - 1 \in H PROVE i \in H
    <2>1. g[i] = g[i - 1] + t[i] /\ t[i] \in Nat /\ u[m + i] = t[i] /\ i \in 0 .. n BY <1>2
    <2>2. m + i \in 1 .. m + n /\ (m + i) - 1 = m + (i - 1) OBVIOUS
    <2>3. h[m + i] = h[m + (i - 1)] + u[m + i] BY <1>3, <2>2
    <2>4. f[m] \in Nat BY <1>6
    <2>5. g[i - 1] \in Nat /\ h[m + (i - 1)] = f[m] + g[i - 1] BY <1>8
    <2>6. g[i] \in Nat BY <2>1, <2>5
    <2>7. h[m + i] = f[m] + g[i] BY <2>1, <2>3, <2>4, <2>5
    <2>8. QED BY <2>1, <2>6, <2>7
  <1>9. n \in H
    <2> HIDE DEF H
    <2>1. \A i \in 0 .. n : i \in H BY <1>7, <1>8, UpTo
    <2>2. QED BY <2>1
  <1>10. QED BY <1>1, <1>2, <1>3, <1>9

\* The powers of the factor between the units.
LEMMA PowerSteps ==
  /\ Power[0] = 1
  /\ \A k \in 1 .. 9 : Power[k] = Kilo * Power[k - 1]
  <1> DEFINE Eq(g) == g = [k \in 0 .. 9 |-> IF k = 0 THEN 1 ELSE Kilo * g[k - 1]]
             p1 == Kilo * 1
             p2 == Kilo * p1
             p3 == Kilo * p2
             p4 == Kilo * p3
             p5 == Kilo * p4
             p6 == Kilo * p5
             p7 == Kilo * p6
             p8 == Kilo * p7
             p9 == Kilo * p8
             h == [k \in 0 .. 9 |-> CASE k = 0 -> 1 [] k = 1 -> p1 [] k = 2 -> p2 [] k = 3 -> p3 [] k = 4 -> p4
                                      [] k = 5 -> p5 [] k = 6 -> p6 [] k = 7 -> p7 [] k = 8 -> p8 [] k = 9 -> p9]
  <1> HIDE DEF p1, p2, p3, p4, p5, p6, p7, p8, p9
  <1>1. /\ h[0] = 1 /\ h[1] = p1 /\ h[2] = p2 /\ h[3] = p3 /\ h[4] = p4
        /\ h[5] = p5 /\ h[6] = p6 /\ h[7] = p7 /\ h[8] = p8 /\ h[9] = p9
    OBVIOUS
  <1>2. h = [k \in 0 .. 9 |-> h[k]] OBVIOUS
  <1> HIDE DEF h
  <1>3. /\ p1 = Kilo * h[0] /\ p2 = Kilo * h[1] /\ p3 = Kilo * h[2] /\ p4 = Kilo * h[3] /\ p5 = Kilo * h[4]
        /\ p6 = Kilo * h[5] /\ p7 = Kilo * h[6] /\ p8 = Kilo * h[7] /\ p9 = Kilo * h[8]
    BY <1>1, Zenon DEF p1, p2, p3, p4, p5, p6, p7, p8, p9
  <1>4. ASSUME NEW k \in 0 .. 9 PROVE h[k] = IF k = 0 THEN 1 ELSE Kilo * h[k - 1]
    <2>1. k \in {0, 1, 2, 3, 4, 5, 6, 7, 8, 9} OBVIOUS
    <2>2. 1 - 1 = 0 /\ 2 - 1 = 1 /\ 3 - 1 = 2 /\ 4 - 1 = 3 /\ 5 - 1 = 4 /\ 6 - 1 = 5 /\ 7 - 1 = 6 /\ 8 - 1 = 7 /\ 9 - 1 = 8
      OBVIOUS
    <2>3. CASE k = 0 BY <1>1, <2>3
    <2>4. CASE k # 0 BY <1>1, <1>3, <2>1, <2>2, <2>4
    <2>5. QED BY <2>3, <2>4
  <1>5. Eq(h) BY <1>2, <1>4
  <1> DEFINE f == CHOOSE g : Eq(g)
  <1>6. Eq(f)
    <2> HIDE DEF Eq
    <2>1. QED BY <1>5
  <1>7. Power = f BY DEF Power
  <1> HIDE DEF f
  <1>8. QED BY <1>6, <1>7

\* The powers of Kilo grow.
LEMMA PowerOrder ==
  \A k \in 0 .. 8 : Power[k] \in Nat \ {0} /\ Power[k + 1] \in Nat \ {0} /\ Power[k] < Power[k + 1]
  <1>1. ASSUME NEW p \in Nat \ {0} PROVE Kilo * p \in Nat \ {0} /\ p < Kilo * p
    <2>1. Kilo \in Nat /\ Kilo >= 2 BY KiloAssumption
    <2>2. QED BY <2>1
  <1> DEFINE G == {k \in 0 .. 9 : Power[k] \in Nat \ {0}}
  <1>2. 0 \in G BY PowerSteps
  <1>3. ASSUME NEW k \in 1 .. 9, k - 1 \in G PROVE k \in G
    <2>1. Power[k] = Kilo * Power[k - 1] BY PowerSteps
    <2>2. QED BY <1>1, <1>3, <2>1
  <1> HIDE DEF G
  <1>4. \A k \in 0 .. 9 : k \in G BY <1>2, <1>3, UpTo
  <1>5. ASSUME NEW k \in 0 .. 8 PROVE Power[k] \in Nat \ {0} /\ Power[k + 1] \in Nat \ {0} /\ Power[k] < Power[k + 1]
    <2>1. k \in 0 .. 9 /\ k + 1 \in 1 .. 9 /\ k + 1 \in 0 .. 9 /\ (k + 1) - 1 = k OBVIOUS
    <2>2. Power[k] \in Nat \ {0} /\ Power[k + 1] \in Nat \ {0} BY <1>4, <2>1 DEF G
    <2>3. Power[k + 1] = Kilo * Power[k] BY <2>1, PowerSteps
    <2>4. QED BY <1>1, <2>2, <2>3
  <1>6. QED BY <1>5

\* The names of the sizes are those of the kernel.
LEMMA SizeNames ==
  ASSUME NEW i \in DOMAIN PageDirs
  PROVE  LET d == PageDirs[i] IN parse_size(d[1], d[2]) # Err /\ custom_size(parse_size(d[1], d[2])[2]) = KernelSize(d)
  <1> DEFINE d == PageDirs[i]
             n == d[1]
             size == n * Power[1]
  <1>1. n \in Nat \ {0} /\ d[2] = "k" /\ n <= Power[3] - 1
    <2>1. n \in 1 .. Power[3] - 1 /\ d[2] = "k" BY PageDirsAssumption
    <2>2. Power[3] \in Nat
      <3>1. 3 \in 0 .. 8 OBVIOUS
      <3>2. QED BY <3>1, PowerOrder
    <2>3. QED BY <2>1, <2>2
  <1>2. parse_size(n, d[2]) = Ok(size)
    <2>1. DOMAIN Units = 1 .. 5 /\ Units[1] = "k" /\ \A j \in 1 .. 5 : Units[j] = "k" => j = 1 BY DEF Units
    <2>2. (CHOOSE j \in DOMAIN Units : Units[j] = "k") = 1 BY <2>1
    <2>3. QED BY <1>1, <2>1, <2>2 DEF parse_size
  <1>3. Ok(size) # Err /\ Ok(size)[2] = size BY DEF Ok, Err
  <1>4. /\ Power[0] = 1 /\ Power[1] = Kilo /\ Power[4] = Power[3] * Kilo
        /\ \A k \in 0 .. 8 : Power[k] \in Nat \ {0} /\ Power[k + 1] \in Nat \ {0} /\ Power[k] < Power[k + 1]
    <2>1. 1 \in 1 .. 9 /\ 4 \in 1 .. 9 /\ 1 - 1 = 0 /\ 4 - 1 = 3 OBVIOUS
    <2>2. Power[0] = 1 /\ Power[1] = Kilo * Power[0] /\ Power[4] = Kilo * Power[3] BY <2>1, PowerSteps
    <2>3. Power[3] \in Nat
      <3>1. 3 \in 0 .. 8 OBVIOUS
      <3>2. QED BY <3>1, PowerOrder
    <2>4. QED BY <2>2, <2>3, KiloAssumption, PowerOrder
  <1>5. size \in Nat /\ size = n * Kilo /\ size >= Power[1] /\ size < Power[4]
    <2>1. Kilo \in Nat \ {0} /\ Power[3] \in Nat
      <3>1. 3 \in 0 .. 8 OBVIOUS
      <3>2. QED BY <1>4, <3>1, KiloAssumption
    <2>2. size = n * Kilo BY <1>4
    <2>3. n * Kilo \in Nat /\ n * Kilo >= Kilo
      <3> HIDE DEF n
      <3>1. QED BY <1>1, <2>1
    <2>4. n * Kilo < Power[3] * Kilo
      <3> DEFINE q == Power[3]
      <3>1. n \in Nat /\ q \in Nat /\ n < q BY <1>1, <2>1
      <3> HIDE DEF n, q
      <3>2. n * Kilo < q * Kilo BY <2>1, <3>1
      <3>3. QED BY <3>2 DEF q
    <2>5. QED BY <1>4, <2>2, <2>3, <2>4
  <1> HIDE DEF size
  <1> DEFINE Is(k) == (size < Power[k + 1] \/ k = 8) /\ (k = 0 \/ size >= Power[k])
             Seen(j, k) == j <= k => Power[j] <= Power[k]
  <1>6. ASSUME NEW k \in {1, 2, 3}, size >= Power[k], size < Power[k + 1]
        PROVE  custom_size(size) = <<size \div Power[k], Abbrs[k + 1]>>
    <2>0. /\ \A j \in {0, 1, 2, 3, 4, 5, 6, 7, 8} : /\ Power[j] \in Nat /\ Power[j + 1] \in Nat
                                                 /\ Power[j] < Power[j + 1]
      BY <1>4
    <2>1. /\ Power[0] < Power[1] /\ Power[1] < Power[2] /\ Power[2] < Power[3] /\ Power[3] < Power[4]
          /\ Power[4] < Power[5] /\ Power[5] < Power[6] /\ Power[6] < Power[7] /\ Power[7] < Power[8]
      BY <2>0
    <2>2. \A j \in 0 .. 8 : Is(j) <=> j = k
      <3>1. k \in 0 .. 8 /\ Is(k) BY <1>6
      <3>2. ASSUME NEW j \in 0 .. 8, Is(j) PROVE j = k
        <4>1. j \in {0, 1, 2, 3, 4, 5, 6, 7, 8} OBVIOUS
        <4> DEFINE P(x) == Power[x]
        <4>2. P(0) \in Nat /\ P(1) \in Nat /\ P(2) \in Nat /\ P(3) \in Nat /\ P(4) \in Nat /\ P(5) \in Nat
              /\ P(6) \in Nat /\ P(7) \in Nat /\ P(8) \in Nat
          BY <2>0
        <4>3. /\ j = 0 => size < P(1)
              /\ j = 1 => size < P(2)
              /\ j = 2 => size < P(3) /\ size >= P(2)
              /\ j = 3 => size < P(4) /\ size >= P(3)
              /\ j = 4 => size >= P(4)
              /\ j = 5 => size >= P(5)
              /\ j = 6 => size >= P(6)
              /\ j = 7 => size >= P(7)
              /\ j = 8 => size >= P(8)
          BY <3>2
        <4>4. /\ k = 1 => size < P(2)
              /\ k = 2 => size < P(3) /\ size >= P(2)
              /\ k = 3 => size >= P(3)
          BY <1>6
        <4>5. /\ P(0) < P(1) /\ P(1) < P(2) /\ P(2) < P(3) /\ P(3) < P(4)
              /\ P(4) < P(5) /\ P(5) < P(6) /\ P(6) < P(7) /\ P(7) < P(8)
          BY <2>1
        <4>6. size >= P(1) /\ size < P(4) BY <1>5
        <4> HIDE DEF P
        <4>7. QED BY <1>5, <1>6, <4>1, <4>2, <4>3, <4>4, <4>5, <4>6
      <3>3. QED BY <3>1, <3>2
    <2>3. (CHOOSE j \in 0 .. 8 : Is(j)) = k
      <3> HIDE DEF Is
      <3>1. k \in 0 .. 8 OBVIOUS
      <3>2. QED BY <2>2, <3>1
    <2>4. QED BY <2>3 DEF custom_size
  <1>7. Abbrs[2] = "KB" /\ Abbrs[3] = "MB" /\ Abbrs[4] = "GB" BY DEF Abbrs
  <1>8. KernelSize(d) = CASE size >= Power[3] -> <<size \div Power[3], "GB">>
                          [] size < Power[3] /\ size >= Power[2] -> <<size \div Power[2], "MB">>
                          [] size < Power[2] -> <<size \div Kilo, "KB">>
    BY <1>5 DEF KernelSize
  <1>9. Power[2] \in Nat /\ Power[3] \in Nat /\ Power[2] < Power[3]
    <2>1. 2 \in 0 .. 8 /\ 2 + 1 = 3 OBVIOUS
    <2>2. QED BY <1>4, <2>1
  <1>10. custom_size(size) = KernelSize(d)
    <2>1. CASE size >= Power[3]
      <3>1. custom_size(size) = <<size \div Power[3], Abbrs[3 + 1]>> BY <1>5, <1>6, <2>1
      <3>2. ~(size < Power[3]) /\ ~(size < Power[2]) BY <1>5, <1>9, <2>1
      <3>3. QED BY <1>7, <1>8, <2>1, <3>1, <3>2
    <2>2. CASE size < Power[3] /\ size >= Power[2]
      <3>1. custom_size(size) = <<size \div Power[2], Abbrs[2 + 1]>> BY <1>5, <1>6, <2>2
      <3>2. ~(size >= Power[3]) /\ ~(size < Power[2]) BY <1>5, <1>9, <2>2
      <3>3. QED BY <1>7, <1>8, <2>2, <3>1, <3>2
    <2>3. CASE size < Power[2]
      <3>1. custom_size(size) = <<size \div Power[1], Abbrs[1 + 1]>> BY <1>5, <1>6, <2>3
      <3>2. ~(size >= Power[3]) /\ ~(size >= Power[2]) BY <1>5, <1>9, <2>3
      <3>3. QED BY <1>4, <1>7, <1>8, <2>3, <3>1, <3>2
    <2>4. QED BY <1>5, <1>9, <2>1, <2>2, <2>3
  <1>11. QED BY <1>2, <1>3, <1>10

\* The first lines of a text are kept.
LEMMA KeepFirst ==
  ASSUME NEW S, NEW c \in Seq(S), NEW m \in 0 .. Len(c)
  PROVE  Keep(c, 1 .. m) = [j \in 1 .. m |-> c[j]]
  <1> DEFINE n == Len(c)
             ss == [i \in DOMAIN c |-> IF i \in 1 .. m THEN <<c[i]>> ELSE << >>]
             k(i) == IF i <= m THEN i ELSE m
             T(i) == [j \in 1 .. k(i) |-> c[j]]
  <1>1. n \in Nat /\ DOMAIN c = 1 .. n /\ m \in Nat /\ m <= n /\ \A i \in 1 .. n : c[i] \in S OBVIOUS
  <1>2. Keep(c, 1 .. m) = FlattenSeq(ss) BY DEF Keep
  <1>3. /\ Len(ss) = n /\ DOMAIN ss = 1 .. n
        /\ \A i \in 1 .. n : ss[i] = IF i <= m THEN <<c[i]>> ELSE << >>
    BY <1>1
  <1> HIDE DEF ss, n
  <1>4. CASE n = 0
    <2>1. FlattenSeq(ss) = ss /\ DOMAIN ss = {} BY <1>3, <1>4 DEF FlattenSeq
    <2>2. ss = << >> BY <1>3, <1>4 DEF ss, n
    <2>3. m = 0 BY <1>1, <1>4
    <2>4. [j \in 1 .. m |-> c[j]] = << >> BY <2>3
    <2>5. QED BY <1>2, <2>1, <2>2, <2>4
  <1>5. CASE n # 0
    <2>1. PICK f : /\ FlattenSeq(ss) = f[n]
                   /\ \A i \in 1 .. n : f[i] = IF i = 1 THEN ss[i] ELSE f[i - 1] \o ss[i]
      <3>1. Len(ss) \in Nat /\ Len(ss) # 0 BY <1>1, <1>3, <1>5
      <3>2. QED BY <1>3, <3>1, FlattenSteps
    <2>2. ASSUME NEW i \in 0 .. n PROVE k(i) \in Nat /\ k(i) <= n /\ T(i) \in Seq(S) /\ Len(T(i)) = k(i)
      <3>1. k(i) \in Nat /\ k(i) <= n BY <1>1
      <3> HIDE DEF k
      <3>2. QED BY <1>1, <3>1
    <2>3. ASSUME NEW i \in 1 .. n PROVE T(i) = T(i - 1) \o ss[i]
      <3> DEFINE a == T(i - 1)
                 b == ss[i]
                 d == T(i)
      <3>1. i \in 0 .. n /\ i - 1 \in 0 .. n BY <1>1
      <3>2. /\ a \in Seq(S) /\ Len(a) = k(i - 1) /\ d \in Seq(S) /\ Len(d) = k(i) BY <2>2, <3>1
      <3>3. CASE i <= m
        <4>1. k(i - 1) = i - 1 /\ k(i) = i BY <1>1, <3>1, <3>3
        <4>2. b = <<c[i]>> /\ b \in Seq(S) /\ Len(b) = 1 /\ b[1] = c[i]
          <5>1. <<c[i]>> \in Seq(S) /\ Len(<<c[i]>>) = 1 /\ <<c[i]>>[1] = c[i] BY <1>1
          <5>2. b = <<c[i]>> BY <1>3, <3>3
          <5> HIDE DEF b
          <5>3. QED BY <5>1, <5>2
        <4>3. (\A j \in 1 .. i - 1 : a[j] = c[j]) /\ (\A j \in 1 .. i : d[j] = c[j])
          <5>1. a = [j \in 1 .. i - 1 |-> c[j]] /\ d = [j \in 1 .. i |-> c[j]]
            <6> HIDE DEF k
            <6>1. QED BY <4>1
          <5> HIDE DEF a, d
          <5>2. QED BY <5>1
        <4> HIDE DEF a, b, d, k, T
        <4>4. a \o b \in Seq(S) /\ Len(a \o b) = i BY <3>1, <3>2, <4>1, <4>2
        <4>5. ASSUME NEW j \in 1 .. i PROVE (a \o b)[j] = d[j]
          <5>1. CASE j = i BY <3>2, <4>1, <4>2, <4>3, <5>1
          <5>2. CASE j # i BY <3>1, <3>2, <4>1, <4>2, <4>3, <5>2
          <5>3. QED BY <5>1, <5>2
        <4>6. a \o b = d BY <3>2, <4>1, <4>4, <4>5
        <4>7. QED BY <4>6 DEF a, b, d
      <3>4. CASE ~(i <= m)
        <4>1. k(i - 1) = m /\ k(i) = m BY <1>1, <3>1, <3>4
        <4>2. b = << >> BY <1>3, <3>4
        <4>3. a = d BY <4>1
        <4>4. a \o << >> = a
          <5> HIDE DEF a
          <5>1. QED BY <3>2
        <4>5. QED BY <4>2, <4>3, <4>4
      <3>5. QED BY <3>3, <3>4
    <2> DEFINE G == {i \in 0 .. n : i = 0 \/ f[i] = T(i)}
    <2>4. 0 \in G BY <1>1
    <2>5. ASSUME NEW i \in 1 .. n, i - 1 \in G PROVE i \in G
      <3>1. i \in 0 .. n BY <1>1
      <3>2. CASE i = 1
        <4>1. T(0) = << >>
          <5>1. k(0) = 0 BY <1>1
          <5>2. QED BY <5>1
        <4>2. i - 1 = 0 BY <3>2
        <4>3. T(i) = << >> \o ss[i] BY <2>3, <4>1, <4>2
        <4>4. ss[i] \in Seq(S)
          <5>1. <<c[i]>> \in Seq(S) /\ << >> \in Seq(S) BY <1>1
          <5>2. QED BY <1>3, <5>1
        <4>5. << >> \o ss[i] = ss[i] BY <4>4
        <4>6. f[i] = ss[i] BY <2>1, <3>2
        <4> HIDE DEF T
        <4>7. QED BY <3>1, <4>3, <4>5, <4>6
      <3>3. CASE i # 1
        <4>1. i - 1 # 0 BY <1>1, <3>3
        <4> HIDE DEF T
        <4>2. f[i - 1] = T(i - 1) BY <2>5, <4>1
        <4>3. f[i] = f[i - 1] \o ss[i] BY <2>1, <3>3
        <4>4. QED BY <2>3, <3>1, <4>2, <4>3
      <3>4. QED BY <3>2, <3>3
    <2> HIDE DEF G
    <2>6. \A i \in 0 .. n : i \in G BY <1>1, <2>4, <2>5, UpTo
    <2>7. n \in 0 .. n /\ k(n) = m
      <3>1. n \in Nat /\ m \in Nat /\ m <= n BY <1>1
      <3>2. QED BY <3>1
    <2>8. f[n] = T(n) BY <1>5, <2>6, <2>7 DEF G
    <2>9. QED BY <1>2, <2>1, <2>7, <2>8
  <1>6. QED BY <1>4, <1>5

\* All the lines of a text are the text.
LEMMA KeepAll ==
  ASSUME NEW S, NEW c \in Seq(S)
  PROVE  Keep(c, DOMAIN c) = c
  <1>1. Len(c) \in 0 .. Len(c) /\ DOMAIN c = 1 .. Len(c) OBVIOUS
  <1>2. Keep(c, 1 .. Len(c)) = [j \in 1 .. Len(c) |-> c[j]] BY <1>1, KeepFirst
  <1>3. [j \in 1 .. Len(c) |-> c[j]] = c OBVIOUS
  <1>4. QED BY <1>1, <1>2, <1>3

\* The lines that are kept are lines of the text.
LEMMA KeepLines ==
  ASSUME NEW S, NEW c \in Seq(S), NEW P
  PROVE  Keep(c, P) \in Seq(S) /\ \A i \in DOMAIN Keep(c, P) : Keep(c, P)[i] \in {c[j] : j \in DOMAIN c}
  <1> DEFINE R == {c[j] : j \in DOMAIN c}
             ss == [i \in DOMAIN c |-> IF i \in P THEN <<c[i]>> ELSE << >>]
  <1>1. Keep(c, P) = FlattenSeq(ss) BY DEF Keep
  <1>2. R \subseteq S /\ Len(c) \in Nat /\ DOMAIN c = 1 .. Len(c) /\ \A i \in 1 .. Len(c) : c[i] \in R OBVIOUS
  <1> DEFINE U == Seq(R)
  <1>3. ss \in Seq(U)
    <2>1. \A i \in DOMAIN c : ss[i] \in U
      <3> HIDE DEF R
      <3>1. QED BY <1>2
    <2> HIDE DEF U, R
    <2>2. \A i \in 1 .. Len(c) : (IF i \in P THEN <<c[i]>> ELSE << >>) \in U BY <1>2, <2>1
    <2>3. QED BY <1>2, <2>2
  <1>4. << >> \in U /\ \A s, t \in U : s \o t \in U OBVIOUS
  <1> HIDE DEF R, ss
  <1>5. FlattenSeq(ss) \in U
    <2>1. U \in SUBSET Seq(R) OBVIOUS
    <2> HIDE DEF U
    <2>2. QED BY <1>3, <1>4, <2>1, FlattenClosed
  <1>6. FlattenSeq(ss) \in Seq(S) /\ \A i \in DOMAIN FlattenSeq(ss) : FlattenSeq(ss)[i] \in R BY <1>2, <1>5
  <1>7. QED BY <1>1, <1>6 DEF R

\* A line with a key and a count.
Count(w, n) == <<Word(w), Num(n)>>

\* A line that writes a count parses back to its word and its number.
LEMMA CountLine ==
  ASSUME NEW w, NEW n \in Nat
  PROVE  /\ Len(Count(w, n)) = 2 /\ Count(w, n)[1] = Word(w) /\ Count(w, n)[2] = Num(n)
         /\ IsI64(Num(n)) /\ IsU64(Num(n)) /\ Num(n)[2] = n /\ Word(w)[2] = w
  BY DEF Count, IsI64, IsU64, Num, Word

\* A text of one such line, read by the parsers of flat keyed files.
LEMMA OneEntry ==
  ASSUME NEW w, NEW n \in Nat
  PROVE  LET c == <<Count(w, n)>>
         IN  /\ flat_keyed_to_hashmap(c, w) = Ok(n)
             /\ flat_keyed_to_vec(c) = Ok(<< <<w, n>> >>)
             /\ parse_memory_stat(c, Names) = Ok([k \in Names |-> IF Word(k) = Word(w) THEN n ELSE 0])
  <1> DEFINE l == Count(w, n)
             c == <<l>>
  <1>1. Len(l) = 2 /\ l[1] = Word(w) /\ l[2] = Num(n) /\ IsI64(Num(n)) /\ IsU64(Num(n)) /\ Num(n)[2] = n
        /\ Word(w)[2] = w
    BY CountLine
  <1> HIDE DEF l
  <1>2. c \in Seq({l}) /\ DOMAIN c = {1} /\ c[1] = l OBVIOUS
  <1>3. Keep(c, DOMAIN c) = c BY <1>2, KeepAll
  <1>4. Entries(c) = c
    <2>1. {i \in DOMAIN c : Len(c[i]) = 2 /\ IsI64(c[i][2])} = DOMAIN c BY <1>1, <1>2
    <2> HIDE DEF c
    <2>2. QED BY <1>3, <2>1 DEF Entries
  <1>5. Keep(c, {i \in DOMAIN c : IsU64(c[i][2])}) = c
    <2>1. {i \in DOMAIN c : IsU64(c[i][2])} = DOMAIN c BY <1>1, <1>2
    <2>2. QED BY <1>3, <2>1
  <1>6. ASSUME NEW k PROVE Lookup(c, k) = IF Word(k) = Word(w) THEN n ELSE 0
    <2> DEFINE hits == {i \in DOMAIN c : c[i][1] = Word(k)}
    <2>1. Lookup(c, k) = IF hits = {} THEN 0 ELSE c[Max(hits)][2][2] BY DEF Lookup
    <2>2. CASE Word(k) = Word(w)
      <3>1. hits = {1} BY <1>1, <1>2, <2>2
      <3> HIDE DEF hits
      <3>2. Max(hits) = 1 BY <3>1 DEF Max
      <3> HIDE DEF c
      <3>3. QED BY <1>1, <1>2, <2>1, <2>2, <3>1, <3>2
    <2>3. CASE Word(k) # Word(w)
      <3>1. hits = {} BY <1>1, <1>2, <2>3
      <3>2. QED BY <2>1, <2>3, <3>1
    <2>4. QED BY <2>2, <2>3
  <1>7. flat_keyed_to_hashmap(c, w) = Ok(n)
    <2> HIDE DEF c
    <2>1. QED BY <1>4, <1>6 DEF flat_keyed_to_hashmap
  <1>8. flat_keyed_to_vec(c) = Ok(<< <<w, n>> >>)
    <2>1. flat_keyed_to_vec(c) = Ok([i \in DOMAIN c |-> <<c[i][1][2], c[i][2][2]>>])
      <3> HIDE DEF c
      <3>1. QED BY <1>4 DEF flat_keyed_to_vec
    <2>2. [i \in DOMAIN c |-> <<c[i][1][2], c[i][2][2]>>] = << <<w, n>> >>
      <3> DEFINE v == [i \in DOMAIN c |-> <<c[i][1][2], c[i][2][2]>>]
      <3>1. DOMAIN v = {1} /\ v[1] = <<w, n>> BY <1>1, <1>2
      <3>2. v = [i \in 1 .. 1 |-> <<w, n>>]
        <4>1. v = [i \in {1} |-> v[i]] BY <1>2
        <4> HIDE DEF v
        <4>2. QED BY <3>1, <4>1
      <3>3. [i \in 1 .. 1 |-> <<w, n>>] = << <<w, n>> >> OBVIOUS
      <3> HIDE DEF v
      <3>4. v = << <<w, n>> >> BY <3>2, <3>3
      <3>5. QED BY <3>4 DEF v
    <2>3. QED BY <2>1, <2>2
  <1>9. parse_memory_stat(c, Names) = Ok([k \in Names |-> Lookup(c, k)])
    <2> HIDE DEF c
    <2>1. QED BY <1>4, <1>5 DEF parse_memory_stat
  <1>10. [k \in Names |-> Lookup(c, k)] = [k \in Names |-> IF Word(k) = Word(w) THEN n ELSE 0] BY <1>6
  <1>11. QED BY <1>7, <1>8, <1>9, <1>10 DEF l

\* memory.stat.
LEMMA TwoEntries ==
  ASSUME NEW a \in Nat, NEW b \in Nat
  PROVE  LET c == <<Count("pgfault", a), Count("cache", b)>>
         IN  \E v : parse_memory_stat(c, Names) = Ok(v) /\ v["pgfault"] = a
  <1> DEFINE l == Count("pgfault", a)
             m == Count("cache", b)
             c == <<l, m>>
  <1>1. /\ Len(l) = 2 /\ l[1] = Word("pgfault") /\ l[2] = Num(a) /\ IsI64(Num(a)) /\ IsU64(Num(a)) /\ Num(a)[2] = a
        /\ Len(m) = 2 /\ m[1] = Word("cache") /\ m[2] = Num(b) /\ IsI64(Num(b)) /\ IsU64(Num(b))
        /\ Word("pgfault") # Word("cache")
    BY CountLine DEF Word
  <1> HIDE DEF l, m
  <1>2. c \in Seq({l, m}) /\ DOMAIN c = {1, 2} /\ c[1] = l /\ c[2] = m OBVIOUS
  <1>3. Keep(c, DOMAIN c) = c BY <1>2, KeepAll
  <1>4. {i \in DOMAIN c : Len(c[i]) = 2 /\ IsI64(c[i][2])} = DOMAIN c BY <1>1, <1>2
  <1>5. {i \in DOMAIN c : IsU64(c[i][2])} = DOMAIN c BY <1>1, <1>2
  <1> DEFINE hits == {i \in DOMAIN c : c[i][1] = Word("pgfault")}
  <1>6. hits = {1} BY <1>1, <1>2
  <1>7. Lookup(c, "pgfault") = IF hits = {} THEN 0 ELSE c[Max(hits)][2][2] BY DEF Lookup
  <1> HIDE DEF hits, c
  <1>8. Max(hits) = 1 BY <1>6 DEF Max
  <1>9. Lookup(c, "pgfault") = a BY <1>1, <1>2, <1>6, <1>7, <1>8
  <1>10. Entries(c) = c BY <1>3, <1>4 DEF Entries
  <1>11. parse_memory_stat(c, Names) = Ok([k \in Names |-> Lookup(c, k)])
    BY <1>3, <1>5, <1>10 DEF parse_memory_stat
  <1>12. "pgfault" \in Names BY DEF Names
  <1>13. [k \in Names |-> Lookup(c, k)]["pgfault"] = a BY <1>9, <1>12
  <1>14. QED BY <1>11, <1>13 DEF c, l, m

\* cpuacct.stat.
TimesLines(u, s) == <<Count("user", u), Count("system", s)>>

\* The times found in the text of cpuacct.stat are those the kernel wrote.
LEMMA TimesValues ==
  /\ \A item : FromTuples(<< >>, item) = 0
  /\ \A u, s \in Nat : FromTuples(TimesLines(u, s), "user") = u /\ FromTuples(TimesLines(u, s), "system") = s
  <1> DEFINE hits(t, item) == {i \in DOMAIN t : Len(t[i]) >= 2 /\ t[i][1] = Word(item) /\ IsU64(t[i][2])}
             first(t, item) == CHOOSE i \in hits(t, item) : \A j \in hits(t, item) : i <= j
  <1>1. \A t, item : parse_value_from_tuples(t, item)
                       = IF hits(t, item) = {} THEN Err ELSE Ok(t[first(t, item)][2][2])
    BY DEF parse_value_from_tuples
  <1>2. \A x : Ok(x) # Err /\ Ok(x)[2] = x BY DEF Ok, Err
  <1>3. ASSUME NEW item PROVE FromTuples(<< >>, item) = 0
    <2>1. hits(<< >>, item) = {} OBVIOUS
    <2> HIDE DEF hits
    <2>2. QED BY <1>1, <2>1 DEF FromTuples, UnwrapOr
  <1>4. ASSUME NEW u \in Nat, NEW s \in Nat
        PROVE  FromTuples(TimesLines(u, s), "user") = u /\ FromTuples(TimesLines(u, s), "system") = s
    <2> DEFINE t == TimesLines(u, s)
    <2>1. /\ DOMAIN t = {1, 2} /\ Len(t[1]) = 2 /\ Len(t[2]) = 2
          /\ t[1][1] = Word("user") /\ t[1][2] = Num(u) /\ t[2][1] = Word("system") /\ t[2][2] = Num(s)
      <3>1. DOMAIN t = {1, 2} /\ t[1] = Count("user", u) /\ t[2] = Count("system", s) BY DEF TimesLines
      <3>2. QED BY <3>1, CountLine
    <2>2. IsU64(Num(u)) /\ IsU64(Num(s)) /\ Num(u)[2] = u /\ Num(s)[2] = s BY CountLine
    <2>3. Word("user") # Word("system") BY DEF Word
    <2> HIDE DEF t
    <2>4. hits(t, "user") = {1} /\ hits(t, "system") = {2} BY <2>1, <2>2, <2>3
    <2> HIDE DEF hits
    <2>5. first(t, "user") = 1 /\ first(t, "system") = 2 BY <2>4
    <2> HIDE DEF first
    <2>6. parse_value_from_tuples(t, "user") = Ok(u) /\ parse_value_from_tuples(t, "system") = Ok(s)
      BY <1>1, <2>1, <2>2, <2>4, <2>5
    <2>7. QED BY <1>2, <2>6 DEF FromTuples, UnwrapOr, t
  <1>5. QED BY <1>3, <1>4

-----------------------------------------------------------------------------
(***************************************************************************)
(* The reads that the counts come from, and those whose parser may panic.  *)
(***************************************************************************)

\* The read of each count, as the branch of the hierarchy has it.
FailRead(k) ==
  IF Unified(k) THEN Rd(<<k, "fail_cnt">>, <<k, "events">>, "fail", 0)
  ELSE Rd(<<k, "fail_cnt">>, <<k, "failcnt">>, "u64", 0)
HugeFail(z) ==
  IF v2 THEN Rd(<<"hugetlb", "fail_cnt", z>>, <<"hugetlb", "events", z>>, "first", 0)
  ELSE Rd(<<"hugetlb", "fail_cnt", z>>, <<"hugetlb", "failcnt", z>>, "u64", 0)
PgfaultRead == Rd(<<"again", "stat">>, <<"memory", "stat">>, "stat", NoStat)
TimesRead == Rd(<<"cpuacct", "stat">>, <<"cpuacct", "stat">>, "text", << >>)
TotalRead == Rd(<<"cpuacct", "usage">>, <<"cpuacct", "usage">>, "u64", 0)
ServiceRead(p, n, c) == Rd(<<p, n, c>>, <<p, "service">>, "io_service", << >>)

\* Blkio's policies and lists; the parsers that may panic, and those that may not.
Policies == {"cfq", "throttle"}
Scopes == {"own", "recursive"}
Risky == {"numa", "oom", "io_stat", "blkio_data"}
Safe == {"u64", "i64", "max", "text", "stat", "fail", "first", "io_service", "io_service_total"}

\* A read of a field of one of them is that read.
Exact(r) ==
  /\ \A k \in Tags : r.field = <<k, "fail_cnt">> => r = FailRead(k)
  /\ r.field = <<"again", "stat">> => r = PgfaultRead
  /\ r.field = <<"cpuacct", "stat">> => r = TimesRead
  /\ r.field = <<"cpuacct", "usage">> => r = TotalRead
  /\ \A z : r.field = <<"hugetlb", "fail_cnt", z>> => r = HugeFail(z)
  /\ \A n : \A p \in Policies, c \in Scopes : r.field = <<p, n, c>> => r = ServiceRead(p, n, c)
  /\ r.as \in Safe \union Risky
  /\ r.as = "numa" => r.file = <<"memory", "numa_stat">>
  /\ r.as = "oom" => r.file = <<"memory", "oom_control">>
  /\ r.as = "io_stat" => r.file = <<"io", "stat">>
  /\ r.as = "blkio_data" => \E p \in Policies : r.file = <<p, "data">>

\* Of a list of them each is.
Exactly(s) == \E S : s \in Seq(S) /\ \A r \in S : Exact(r)

\* Not one of those fields.
Other(f) ==
  /\ \A k \in Tags : f # <<k, "fail_cnt">>
  /\ f # <<"again", "stat">> /\ f # <<"cpuacct", "stat">> /\ f # <<"cpuacct", "usage">>
  /\ \A z : f # <<"hugetlb", "fail_cnt", z>>
  /\ \A n : \A p \in Policies, c \in Scopes : f # <<p, n, c>>

\* A read of none of those fields is a read of its own.
LEMMA OtherRead ==
  ASSUME NEW f, Other(f), NEW g, NEW d
  PROVE  /\ \A a \in Safe : Exact(Rd(f, g, a, d))
         /\ g = <<"memory", "numa_stat">> => Exact(Rd(f, g, "numa", d))
         /\ g = <<"memory", "oom_control">> => Exact(Rd(f, g, "oom", d))
         /\ g = <<"io", "stat">> => Exact(Rd(f, g, "io_stat", d))
         /\ \A p \in Policies : g = <<p, "data">> => Exact(Rd(f, g, "blkio_data", d))
  <1>1. ASSUME NEW a PROVE Rd(f, g, a, d).field = f /\ Rd(f, g, a, d).file = g /\ Rd(f, g, a, d).as = a
    BY DEF Rd
  <1>2. ASSUME NEW a \in Safe PROVE Exact(Rd(f, g, a, d))
    <2>1. a \notin Risky BY DEF Safe, Risky
    <2>2. QED BY <1>1, <2>1 DEF Exact, Other, Risky
  <1>3. ASSUME g = <<"memory", "numa_stat">> PROVE Exact(Rd(f, g, "numa", d))
    <2> DEFINE r == Rd(f, g, "numa", d)
    <2>1. r.field = f /\ r.file = g /\ r.as = "numa" BY <1>1
    <2>2. "numa" \in Risky BY DEF Risky
    <2> HIDE DEF r
    <2>3. QED BY <1>3, <2>1, <2>2 DEF Exact, Other, r
  <1>4. ASSUME g = <<"memory", "oom_control">> PROVE Exact(Rd(f, g, "oom", d))
    <2> DEFINE r == Rd(f, g, "oom", d)
    <2>1. r.field = f /\ r.file = g /\ r.as = "oom" BY <1>1
    <2>2. "oom" \in Risky BY DEF Risky
    <2> HIDE DEF r
    <2>3. QED BY <1>4, <2>1, <2>2 DEF Exact, Other, r
  <1>5. ASSUME g = <<"io", "stat">> PROVE Exact(Rd(f, g, "io_stat", d))
    <2> DEFINE r == Rd(f, g, "io_stat", d)
    <2>1. r.field = f /\ r.file = g /\ r.as = "io_stat" BY <1>1
    <2>2. "io_stat" \in Risky BY DEF Risky
    <2> HIDE DEF r
    <2>3. QED BY <1>5, <2>1, <2>2 DEF Exact, Other, r
  <1>6. ASSUME NEW p \in Policies, g = <<p, "data">> PROVE Exact(Rd(f, g, "blkio_data", d))
    <2> DEFINE r == Rd(f, g, "blkio_data", d)
    <2>1. r.field = f /\ r.file = g /\ r.as = "blkio_data" BY <1>1
    <2>2. "blkio_data" \in Risky BY DEF Risky
    <2> HIDE DEF r
    <2>3. QED BY <1>6, <2>1, <2>2 DEF Exact, Other, r
  <1>7. QED BY <1>2, <1>3, <1>4, <1>5, <1>6

\* The fields that are none of them.
LEMMA OtherFields ==
  /\ \A t, n : \/ n = "fail_cnt" \/ <<t, n>> \in {<<"again", "stat">>, <<"cpuacct", "stat">>, <<"cpuacct", "usage">>}
               \/ Other(<<t, n>>)
  /\ \A n, z : n = "fail_cnt" \/ Other(<<"hugetlb", n, z>>)
  /\ \A a, b, c, d : Other(<<a, b, c, d>>)
  <1>1. ASSUME NEW t, NEW n, n # "fail_cnt",
               <<t, n>> \notin {<<"again", "stat">>, <<"cpuacct", "stat">>, <<"cpuacct", "usage">>}
        PROVE  Other(<<t, n>>)
    <2>1. \A a, b, c : <<t, n>> # <<a, b, c>> OBVIOUS
    <2>2. QED BY <1>1, <2>1 DEF Other
  <1>2. ASSUME NEW n, NEW z, n # "fail_cnt" PROVE Other(<<"hugetlb", n, z>>)
    <2>1. \A a, b : <<"hugetlb", n, z>> # <<a, b>> OBVIOUS
    <2>2. "hugetlb" \notin Policies BY DEF Policies
    <2>3. QED BY <1>2, <2>1, <2>2 DEF Other
  <1>3. ASSUME NEW a, NEW b, NEW c, NEW d PROVE Other(<<a, b, c, d>>)
    <2>1. \A x, y : <<a, b, c, d>> # <<x, y>> OBVIOUS
    <2>2. \A x, y, z : <<a, b, c, d>> # <<x, y, z>> OBVIOUS
    <2>3. QED BY <2>1, <2>2 DEF Other
  <1>4. QED BY <1>1, <1>2, <1>3

\* The reads of the counts are the reads of their fields.
LEMMA CountReads ==
  /\ \A k \in Tags : Exact(FailRead(k)) /\ FailRead(k).field = <<k, "fail_cnt">>
  /\ Exact(PgfaultRead) /\ PgfaultRead.field = <<"again", "stat">>
  /\ Exact(TimesRead) /\ TimesRead.field = <<"cpuacct", "stat">>
  /\ Exact(TotalRead) /\ TotalRead.field = <<"cpuacct", "usage">>
  /\ \A z : Exact(HugeFail(z)) /\ HugeFail(z).field = <<"hugetlb", "fail_cnt", z>>
  /\ \A n : \A p \in Policies, c \in Scopes : Exact(ServiceRead(p, n, c)) /\ ServiceRead(p, n, c).field = <<p, n, c>>
  <1>1. ASSUME NEW k \in Tags PROVE Exact(FailRead(k)) /\ FailRead(k).field = <<k, "fail_cnt">>
    <2> DEFINE r == FailRead(k)
    <2>1. r.field = <<k, "fail_cnt">> /\ r.as \in {"fail", "u64"} BY DEF FailRead, Rd
    <2>2. \A a, b, c : <<k, "fail_cnt">> # <<a, b, c>> OBVIOUS
    <2>3. \A j : <<k, "fail_cnt">> = <<j, "fail_cnt">> => j = k OBVIOUS
    <2> HIDE DEF r
    <2>4. r = FailRead(k) BY DEF r
    <2>5. QED BY <2>1, <2>2, <2>3, <2>4 DEF Exact, Safe, r
  <1>2. ASSUME NEW r \in {PgfaultRead, TimesRead, TotalRead} PROVE Exact(r)
    <2>1. /\ r.field \in {<<"again", "stat">>, <<"cpuacct", "stat">>, <<"cpuacct", "usage">>}
          /\ r.field = <<"again", "stat">> => r = PgfaultRead
          /\ r.field = <<"cpuacct", "stat">> => r = TimesRead
          /\ r.field = <<"cpuacct", "usage">> => r = TotalRead
          /\ r.as \in {"stat", "text", "u64"}
      BY DEF PgfaultRead, TimesRead, TotalRead, Rd
    <2>2. \A a, b, c : r.field # <<a, b, c>> BY <2>1
    <2>3. \A k \in Tags : r.field # <<k, "fail_cnt">> BY <2>1
    <2>4. QED BY <2>1, <2>2, <2>3 DEF Exact, Safe
  <1>3. /\ PgfaultRead.field = <<"again", "stat">> /\ TimesRead.field = <<"cpuacct", "stat">>
        /\ TotalRead.field = <<"cpuacct", "usage">>
    BY DEF PgfaultRead, TimesRead, TotalRead, Rd
  <1>4. ASSUME NEW z PROVE Exact(HugeFail(z)) /\ HugeFail(z).field = <<"hugetlb", "fail_cnt", z>>
    <2> DEFINE r == HugeFail(z)
    <2>1. r.field = <<"hugetlb", "fail_cnt", z>> /\ r.as \in {"first", "u64"} BY DEF HugeFail, Rd
    <2>2. \A a, b : <<"hugetlb", "fail_cnt", z>> # <<a, b>> OBVIOUS
    <2>3. \A y : <<"hugetlb", "fail_cnt", z>> = <<"hugetlb", "fail_cnt", y>> => y = z OBVIOUS
    <2>4. \A n : \A p \in Policies, c \in Scopes : <<"hugetlb", "fail_cnt", z>> # <<p, n, c>> BY DEF Policies
    <2>5. r = HugeFail(z) OBVIOUS
    <2> HIDE DEF r
    <2>6. QED BY <2>1, <2>2, <2>3, <2>4, <2>5 DEF Exact, Safe, r
  <1>5. ASSUME NEW p \in Policies, NEW n, NEW c \in Scopes
        PROVE  Exact(ServiceRead(p, n, c)) /\ ServiceRead(p, n, c).field = <<p, n, c>>
    <2> DEFINE r == ServiceRead(p, n, c)
    <2>1. r.field = <<p, n, c>> /\ r.as = "io_service" BY DEF ServiceRead, Rd
    <2>2. \A a, b : <<p, n, c>> # <<a, b>> OBVIOUS
    <2>3. \A q, m, d : <<p, n, c>> = <<q, m, d>> => q = p /\ m = n /\ d = c OBVIOUS
    <2>4. p # "hugetlb" BY DEF Policies
    <2>5. r = ServiceRead(p, n, c) OBVIOUS
    <2> HIDE DEF r
    <2>6. QED BY <2>1, <2>2, <2>3, <2>4, <2>5 DEF Exact, Safe, r
  <1>6. QED BY <1>1, <1>2, <1>3, <1>4, <1>5

\* Two such lists joined are one.
LEMMA ExactJoin ==
  ASSUME NEW s, NEW t, Exactly(s), Exactly(t)
  PROVE  Exactly(s \o t)
  <1>1. PICK S : s \in Seq(S) /\ \A r \in S : Exact(r) BY DEF Exactly
  <1>2. PICK T : t \in Seq(T) /\ \A r \in T : Exact(r) BY DEF Exactly
  <1>3. s \in Seq(S \union T) /\ t \in Seq(S \union T) BY <1>1, <1>2
  <1>4. s \o t \in Seq(S \union T) BY <1>3
  <1>5. \A r \in S \union T : Exact(r) BY <1>1, <1>2
  <1>6. QED BY <1>4, <1>5 DEF Exactly

\* So are any number of them.
LEMMA ExactFlat ==
  ASSUME NEW n \in Nat, NEW ss, DOMAIN ss = 1 .. n, ss = [i \in 1 .. n |-> ss[i]], \A i \in 1 .. n : Exactly(ss[i])
  PROVE  Exactly(FlattenSeq(ss))
  <1> DEFINE S == UNION {{ss[i][j] : j \in DOMAIN ss[i]} : i \in 1 .. n}
             T == Seq(S)
  <1>1. ASSUME NEW i \in 1 .. n PROVE ss[i] \in T /\ \A j \in DOMAIN ss[i] : Exact(ss[i][j])
    <2>1. PICK R : ss[i] \in Seq(R) /\ \A r \in R : Exact(r) BY DEF Exactly
    <2>2. ss[i] \in Seq({ss[i][j] : j \in DOMAIN ss[i]}) BY <2>1
    <2>3. {ss[i][j] : j \in DOMAIN ss[i]} \subseteq S OBVIOUS
    <2> HIDE DEF S
    <2>4. ss[i] \in T BY <2>2, <2>3
    <2>5. QED BY <2>1, <2>4
  <1>2. \A r \in S : Exact(r) BY <1>1
  <1>3. << >> \in T /\ \A s, t \in T : s \o t \in T /\ T \in SUBSET Seq(S) OBVIOUS
  <1>4. ss \in Seq(T)
    <2> HIDE DEF T
    <2>1. QED BY <1>1
  <1> HIDE DEF S
  <1>5. FlattenSeq(ss) \in T
    <2>1. T \in SUBSET Seq(S) OBVIOUS
    <2> HIDE DEF T
    <2>2. QED BY <1>3, <1>4, <2>1, FlattenClosed
  <1>6. QED BY <1>2, <1>5 DEF Exactly

\* A list is exact when each of its reads is.
LEMMA ExactList ==
  ASSUME NEW s, s \in Seq({s[i] : i \in DOMAIN s}), \A i \in DOMAIN s : Exact(s[i])
  PROVE  Exactly(s)
  BY DEF Exactly

\* A field of one of two lists is a field of the two joined.
LEMMA HasJoin ==
  ASSUME NEW S, NEW T, NEW s \in Seq(S), NEW t \in Seq(T)
  PROVE  \A f : Has(s, f) \/ Has(t, f) => Has(s \o t, f)
  <1>1. s \in Seq(S \union T) /\ t \in Seq(S \union T) OBVIOUS
  <1>2. /\ Len(s) \in Nat /\ Len(t) \in Nat
        /\ DOMAIN s = 1 .. Len(s) /\ DOMAIN t = 1 .. Len(t) /\ DOMAIN (s \o t) = 1 .. Len(s) + Len(t)
        /\ \A j \in 1 .. Len(s) : (s \o t)[j] = s[j]
        /\ \A j \in 1 .. Len(t) : (s \o t)[Len(s) + j] = t[j]
    BY <1>1, Lengths
  <1> DEFINE st == s \o t
  <1> HIDE DEF st
  <1>3. \A j \in DOMAIN s : j \in DOMAIN st /\ st[j] = s[j] BY <1>2 DEF st
  <1>4. \A j \in DOMAIN t : Len(s) + j \in DOMAIN st /\ st[Len(s) + j] = t[j] BY <1>2 DEF st
  <1>5. QED BY <1>3, <1>4 DEF Has, st

\* Joined lists keep the first read, the fields and the exactness.
LEMMA ExactAppend ==
  ASSUME NEW s, NEW t, Exactly(s), Exactly(t)
  PROVE  /\ Exactly(s \o t)
         /\ \A f : Has(s, f) \/ Has(t, f) => Has(s \o t, f)
         /\ 1 \in DOMAIN s => 1 \in DOMAIN (s \o t) /\ (s \o t)[1] = s[1]
  <1>1. PICK S : s \in Seq(S) BY DEF Exactly
  <1>2. PICK T : t \in Seq(T) BY DEF Exactly
  <1>3. \A f : Has(s, f) \/ Has(t, f) => Has(s \o t, f) BY <1>1, <1>2, HasJoin
  <1>4. 1 \in DOMAIN s => 1 \in DOMAIN (s \o t) /\ (s \o t)[1] = s[1]
    <2>1. s \in Seq(S \union T) /\ t \in Seq(S \union T) BY <1>1, <1>2
    <2>2. /\ Len(s) \in Nat /\ Len(t) \in Nat /\ DOMAIN s = 1 .. Len(s) /\ DOMAIN (s \o t) = 1 .. Len(s) + Len(t)
          /\ \A j \in 1 .. Len(s) : (s \o t)[j] = s[j]
      BY <2>1, Lengths
    <2> DEFINE st == s \o t
    <2> HIDE DEF st
    <2>3. 1 \in DOMAIN s => 1 \in DOMAIN st /\ st[1] = s[1] BY <2>2 DEF st
    <2>4. QED BY <2>3 DEF st
  <1>5. QED BY <1>3, <1>4, ExactJoin

\* What a part has, the flattened sequence has.
LEMMA FlatHas ==
  ASSUME NEW n \in Nat, NEW ss, DOMAIN ss = 1 .. n, ss = [i \in 1 .. n |-> ss[i]],
         \A i \in 1 .. n : Exactly(ss[i]), NEW k \in 1 .. n, NEW f, Has(ss[k], f)
  PROVE  Has(FlattenSeq(ss), f)
  <1> DEFINE S == UNION {{ss[i][j] : j \in DOMAIN ss[i]} : i \in 1 .. n}
             T == Seq(S)
  <1>1. ASSUME NEW i \in 1 .. n PROVE ss[i] \in T
    <2>1. PICK R : ss[i] \in Seq(R) BY DEF Exactly
    <2>2. ss[i] \in Seq({ss[i][j] : j \in DOMAIN ss[i]}) BY <2>1
    <2>3. {ss[i][j] : j \in DOMAIN ss[i]} \subseteq S OBVIOUS
    <2> HIDE DEF S
    <2>4. QED BY <2>2, <2>3
  <1>2. ss \in Seq(T) /\ Len(ss) = n
    <2> HIDE DEF T
    <2>1. QED BY <1>1
  <1>3. PICK x \in DOMAIN ss[k] : ss[k][x].field = f BY DEF Has
  <1> HIDE DEF S
  <1>4. k \in 1 .. Len(ss) BY <1>2
  <1>5. PICK j \in DOMAIN FlattenSeq(ss) : FlattenSeq(ss)[j] = ss[k][x] BY <1>2, <1>4, FlattenHas
  <1>6. QED BY <1>3, <1>5 DEF Has

\* The counters whose files have the names of v1, and the second read of memory.
LEMMA ExactCounter ==
  ASSUME NEW t, NEW k, NEW d, t = "again" \/ (t = k /\ k \in Tags /\ ~Unified(k))
  PROVE  /\ Exactly(CounterReads(t, k, d))
         /\ t = k => Has(CounterReads(t, k, d), <<k, "fail_cnt">>)
  <1> DEFINE s == CounterReads(t, k, d)
             fails == Rd(<<t, "fail_cnt">>, <<k, "failcnt">>, "u64", 0)
  <1>1. /\ s \in Seq({s[i] : i \in DOMAIN s}) /\ DOMAIN s = 1 .. 4
        /\ s[1] = fails /\ s[2] = Rd(<<t, "limit">>, <<k, "limit_in_bytes">>, "i64", d)
        /\ s[3] = Rd(<<t, "usage">>, <<k, "usage_in_bytes">>, "u64", 0)
        /\ s[4] = Rd(<<t, "max_usage">>, <<k, "max_usage_in_bytes">>, "u64", 0)
    BY DEF CounterReads
  <1>2. t \notin {"cpuacct"} /\ \A n : <<t, n>> # <<"cpuacct", "usage">> BY DEF Tags
  <1>3. \A n \in {"limit", "usage", "max_usage"} : Other(<<t, n>>) BY <1>2, OtherFields
  <1> HIDE DEF s, fails
  <1>4. Exact(s[2]) /\ Exact(s[3]) /\ Exact(s[4]) BY <1>1, <1>3, OtherRead DEF Safe
  <1>5. Exact(s[1]) /\ (t = k => s[1].field = <<k, "fail_cnt">>)
    <2>1. CASE t = k /\ k \in Tags /\ ~Unified(k)
      <3>1. s[1] = FailRead(k) BY <1>1, <2>1 DEF FailRead, fails
      <3>2. QED BY <2>1, <3>1, CountReads
    <2>2. CASE t = "again" /\ t # k
      <3>1. Other(<<"again", "fail_cnt">>)
        <4>1. \A a, b, c : <<"again", "fail_cnt">> # <<a, b, c>> OBVIOUS
        <4>2. QED BY <4>1 DEF Other, Tags
      <3>2. QED BY <1>1, <2>2, <3>1, OtherRead DEF Safe, fails
    <2>3. CASE t = "again" /\ t = k
      <3>1. Other(<<"again", "fail_cnt">>)
        <4>1. \A a, b, c : <<"again", "fail_cnt">> # <<a, b, c>> OBVIOUS
        <4>2. QED BY <4>1 DEF Other, Tags
      <3>2. Exact(s[1]) BY <1>1, <2>3, <3>1, OtherRead DEF Safe, fails
      <3>3. fails.field = <<t, "fail_cnt">> BY DEF Rd, fails
      <3>4. QED BY <1>1, <2>3, <3>2, <3>3
    <2>4. QED BY <2>1, <2>2, <2>3
  <1>6. \A i \in DOMAIN s : i = 1 \/ i = 2 \/ i = 3 \/ i = 4 BY <1>1
  <1>7. Exactly(s) BY <1>1, <1>4, <1>5, <1>6, ExactList
  <1>8. t = k => Has(s, <<k, "fail_cnt">>) BY <1>1, <1>5 DEF Has
  <1>9. QED BY <1>7, <1>8 DEF s

\* What MemController reads on v1 includes the counts of failures and of faults.
LEMMA ExactMemoryV1 ==
  ASSUME NEW t \in {"memory", "again"}, ~v2
  PROVE  /\ Exactly(memory_stat_v1(t))
         /\ t = "memory" => Has(memory_stat_v1(t), <<"memory", "fail_cnt">>)
         /\ t = "again" => Has(memory_stat_v1(t), <<"again", "stat">>)
  <1> DEFINE s ==
        << Rd(<<t, "move_charge">>, <<"memory", "move_charge_at_immigrate">>, "u64", 0),
           Rd(<<t, "numa">>, <<"memory", "numa_stat">>, "numa", NoNuma),
           Rd(<<t, "oom">>, <<"memory", "oom_control">>, "oom", NoOom),
           Rd(<<t, "soft_limit">>, <<"memory", "soft_limit_in_bytes">>, "i64", 0),
           Rd(<<t, "stat">>, <<"memory", "stat">>, "stat", NoStat),
           Rd(<<t, "swappiness">>, <<"memory", "swappiness">>, "u64", 0),
           Rd(<<t, "use_hierarchy">>, <<"memory", "use_hierarchy">>, "u64", 0) >>
             c == CounterReads(t, "memory", 0)
  <1>1. memory_stat_v1(t) = c \o s BY DEF memory_stat_v1
  <1>2. \A n \in {"move_charge", "numa", "oom", "soft_limit", "swappiness", "use_hierarchy"} : Other(<<t, n>>)
    BY OtherFields
  <1>3. s \in Seq({s[i] : i \in DOMAIN s}) /\ DOMAIN s = 1 .. 7 OBVIOUS
  <1>4. /\ Exact(s[1]) /\ Exact(s[2]) /\ Exact(s[3]) /\ Exact(s[4]) /\ Exact(s[6]) /\ Exact(s[7])
    BY <1>2, OtherRead DEF Safe
  <1>5. Exact(s[5]) /\ s[5].field = <<t, "stat">>
    <2>1. CASE t = "again"
      <3>1. s[5] = PgfaultRead BY <2>1 DEF PgfaultRead
      <3>2. QED BY <2>1, <3>1, CountReads
    <2>2. CASE t = "memory"
      <3>1. Other(<<t, "stat">>) BY <2>2, OtherFields
      <3>2. Exact(s[5]) BY <3>1, OtherRead DEF Safe
      <3>3. QED BY <3>2 DEF Rd
    <2>3. QED BY <2>1, <2>2
  <1> HIDE DEF s
  <1>6. \A i \in DOMAIN s : i = 1 \/ i = 2 \/ i = 3 \/ i = 4 \/ i = 5 \/ i = 6 \/ i = 7 BY <1>3
  <1>7. Exactly(s) BY <1>3, <1>4, <1>5, <1>6, ExactList
  <1>8. Has(s, <<t, "stat">>) BY <1>3, <1>5 DEF Has
  <1>9. Exactly(c) /\ (t = "memory" => Has(c, <<"memory", "fail_cnt">>))
    <2>1. "memory" \in Tags /\ ~Unified("memory") BY DEF Tags, Unified
    <2>2. QED BY <2>1, ExactCounter
  <1> HIDE DEF c
  <1>10. Exactly(c \o s) BY <1>7, <1>9, ExactJoin
  <1>11. \A f : Has(c, f) \/ Has(s, f) => Has(c \o s, f)
    <2>1. PICK S : c \in Seq(S) BY <1>9 DEF Exactly
    <2>2. PICK T : s \in Seq(T) BY <1>7 DEF Exactly
    <2>3. QED BY <2>1, <2>2, HasJoin
  <1>12. QED BY <1>1, <1>8, <1>9, <1>10, <1>11

\* What it reads on v2 includes them as well.
LEMMA ExactMemoryV2 ==
  ASSUME v2
  PROVE  /\ \A t \in {"memory", "again"} : Exactly(memory_stat_v2(t))
         /\ Has(memory_stat_v2("again"), <<"again", "stat">>)
         /\ Exactly(memswap_v2) /\ Has(memswap_v2, <<"memsw", "fail_cnt">>)
  <1>1. ASSUME NEW t \in {"memory", "again"}
        PROVE  Exactly(memory_stat_v2(t)) /\ (t = "again" => Has(memory_stat_v2(t), <<"again", "stat">>))
    <2> DEFINE s == << Rd(<<t, "usage">>, <<"memory", "current">>, "u64", 0),
                       Rd(<<t, "max_usage">>, <<"memory", "peak">>, "u64", 0),
                       Rd(<<t, "stat">>, <<"memory", "stat">>, "stat", NoStat),
                       Rd(<<t, "swappiness">>, <<"memsw", "current">>, "u64", 0) >>
               c == get_mem(t)
    <2>1. memory_stat_v2(t) = c \o s BY DEF memory_stat_v2
    <2>2. \A n \in {"high", "soft_limit", "limit", "min", "usage", "max_usage", "swappiness"} : Other(<<t, n>>)
      BY OtherFields
    <2>3. /\ s \in Seq({s[i] : i \in DOMAIN s}) /\ DOMAIN s = 1 .. 4
          /\ c \in Seq({c[i] : i \in DOMAIN c}) /\ DOMAIN c = 1 .. 4
      BY DEF get_mem
    <2>4. \A i \in 1 .. 4 : i = 1 \/ i = 2 \/ i = 3 \/ i = 4 OBVIOUS
    <2>5. Exact(c[1]) /\ Exact(c[2]) /\ Exact(c[3]) /\ Exact(c[4]) BY <2>2, OtherRead DEF Safe, get_mem
    <2>6. Exact(s[1]) /\ Exact(s[2]) /\ Exact(s[4]) BY <2>2, OtherRead DEF Safe
    <2>7. Exact(s[3]) /\ s[3].field = <<t, "stat">>
      <3>1. CASE t = "again"
        <4>1. s[3] = PgfaultRead BY <3>1 DEF PgfaultRead
        <4>2. QED BY <3>1, <4>1, CountReads
      <3>2. CASE t = "memory"
        <4>1. Other(<<t, "stat">>) BY <3>2, OtherFields
        <4>2. Exact(s[3]) BY <4>1, OtherRead DEF Safe
        <4>3. QED BY <4>2 DEF Rd
      <3>3. QED BY <3>1, <3>2
    <2> HIDE DEF s, c
    <2>8. Exactly(s) /\ Exactly(c) BY <2>3, <2>4, <2>5, <2>6, <2>7, ExactList
    <2>9. Has(s, <<t, "stat">>) BY <2>3, <2>7 DEF Has
    <2>10. Exactly(c \o s) BY ONLY <2>8, ExactJoin
    <2>11. \A f : Has(s, f) => Has(c \o s, f) BY ONLY <2>3, HasJoin
    <2>12. QED BY <2>1, <2>9, <2>10, <2>11
  <1>2. Exactly(memswap_v2) /\ Has(memswap_v2, <<"memsw", "fail_cnt">>)
    <2> DEFINE s == memswap_v2
    <2>1. /\ s \in Seq({s[i] : i \in DOMAIN s}) /\ DOMAIN s = 1 .. 4 BY DEF memswap_v2
    <2>2. \A i \in 1 .. 4 : i = 1 \/ i = 2 \/ i = 3 \/ i = 4 OBVIOUS
    <2>3. \A n \in {"limit", "usage", "max_usage"} : Other(<<"memsw", n>>) BY OtherFields
    <2>4. Exact(s[2]) /\ Exact(s[3]) /\ Exact(s[4]) BY <2>3, OtherRead DEF Safe, memswap_v2
    <2>5. s[1] = FailRead("memsw") BY DEF memswap_v2, FailRead, Unified
    <2>6. Exact(s[1]) /\ s[1].field = <<"memsw", "fail_cnt">> BY <2>5, CountReads DEF Tags
    <2> HIDE DEF s
    <2>7. Exactly(s) BY <2>1, <2>2, <2>4, <2>6, ExactList
    <2>8. Has(s, <<"memsw", "fail_cnt">>) BY <2>1, <2>6 DEF Has
    <2>9. QED BY <2>7, <2>8 DEF s
  <1>3. QED BY <1>1, <1>2

\* The short lists: cpuacct begins with cpuacct.stat and ends with the usage.
LEMMA ExactShort ==
  /\ ~v2 => /\ Exactly(cpuacct) /\ cpuacct[1] = TimesRead /\ Len(cpuacct) = 3
            /\ Has(cpuacct, <<"cpuacct", "stat">>) /\ Has(cpuacct, <<"cpuacct", "usage">>)
  /\ Exactly(cpu) /\ Exactly(pids) /\ Exactly(blkio_v2)
  <1>1. Exactly(cpuacct) /\ cpuacct[1] = TimesRead /\ Len(cpuacct) = 3
        /\ Has(cpuacct, <<"cpuacct", "stat">>) /\ Has(cpuacct, <<"cpuacct", "usage">>)
    <2> DEFINE s == cpuacct
    <2>1. s \in Seq({s[i] : i \in DOMAIN s}) /\ DOMAIN s = 1 .. 3 /\ Len(s) = 3 BY DEF cpuacct
    <2>2. s[1] = TimesRead /\ s[2] = TotalRead BY DEF cpuacct, TimesRead, TotalRead
    <2>3. Other(<<"cpuacct", "percpu">>) BY OtherFields
    <2>4. Exact(s[3]) BY <2>3, OtherRead DEF Safe, cpuacct
    <2> HIDE DEF s
    <2>5. \A i \in DOMAIN s : i = 1 \/ i = 2 \/ i = 3 BY <2>1
    <2>6. Exactly(s) BY <2>1, <2>2, <2>4, <2>5, CountReads, ExactList
    <2>7. Has(s, <<"cpuacct", "stat">>) /\ Has(s, <<"cpuacct", "usage">>) BY <2>1, <2>2, CountReads DEF Has
    <2>8. QED BY <2>1, <2>2, <2>6, <2>7 DEF s
  <1>2. ASSUME NEW s, s \in Seq({s[i] : i \in DOMAIN s}), DOMAIN s = {1}, Exact(s[1]) PROVE Exactly(s)
    BY <1>2, ExactList
  <1>3. Exactly(cpu)
    <2>1. Other(<<"cpu", "stat">>) BY OtherFields
    <2>2. Exact(Rd(<<"cpu", "stat">>, <<"cpu", "stat">>, "text", << >>)) BY <2>1, OtherRead DEF Safe
    <2>3. cpu \in Seq({cpu[i] : i \in DOMAIN cpu}) /\ DOMAIN cpu = {1} /\ Exact(cpu[1]) BY <2>2 DEF cpu
    <2>4. QED BY <1>2, <2>3
  <1>4. Exactly(blkio_v2)
    <2> DEFINE s == blkio_v2
    <2>1. Other(<<"io", "stat">>) BY OtherFields
    <2>2. Exact(Rd(<<"io", "stat">>, <<"io", "stat">>, "io_stat", << >>)) BY <2>1, OtherRead
    <2>3. s \in Seq({s[i] : i \in DOMAIN s}) /\ DOMAIN s = {1} /\ Exact(s[1])
      BY <2>2 DEF blkio_v2
    <2> HIDE DEF s
    <2>4. Exactly(s) BY <1>2, <2>3
    <2>5. QED BY <2>4 DEF s
  <1>5. Exactly(pids)
    <2> DEFINE s == pids
    <2>1. Other(<<"pids", "current">>) /\ Other(<<"pids", "limit">>) BY OtherFields
    <2>2. s \in Seq({s[i] : i \in DOMAIN s}) /\ DOMAIN s = 1 .. 2 BY DEF pids
    <2>3. Exact(s[1]) /\ Exact(s[2]) BY <2>1, OtherRead DEF Safe, pids
    <2> HIDE DEF s
    <2>4. \A i \in DOMAIN s : i = 1 \/ i = 2 BY <2>2
    <2>5. Exactly(s) BY <2>2, <2>3, <2>4, ExactList
    <2>6. QED BY <2>5 DEF s
  <1>6. QED BY <1>1, <1>3, <1>4, <1>5

\* The lists of blkio.
ServiceFields == {<<"cfq", "io_serviced", "recursive">>, <<"cfq", "io_service_bytes", "recursive">>,
                  <<"throttle", "io_serviced", "own">>, <<"throttle", "io_service_bytes", "own">>}

\* BlkIoController::blkio reads each list of the operations served.
LEMMA ExactBlkio == Exactly(blkio) /\ \A f \in ServiceFields : Has(blkio, f)
  <1>1. ASSUME NEW p \in Policies, NEW n, NEW c \in Scopes
        PROVE  Exactly(ServiceReads(p, n, c)) /\ Has(ServiceReads(p, n, c), <<p, n, c>>)
    <2> DEFINE s == ServiceReads(p, n, c)
    <2>1. s \in Seq({s[i] : i \in DOMAIN s}) /\ DOMAIN s = 1 .. 2 BY DEF ServiceReads
    <2>2. /\ s[1] = ServiceRead(p, n, c)
          /\ s[2] = Rd(<<p, n, c, "total">>, <<p, "service">>, "io_service_total", 0)
      BY DEF ServiceReads, ServiceRead
    <2> HIDE DEF s
    <2>3. Exact(s[1]) /\ s[1].field = <<p, n, c>> BY <2>2, CountReads
    <2>4. Other(<<p, n, c, "total">>) BY OtherFields
    <2>5. Exact(s[2]) BY <2>2, <2>4, OtherRead DEF Safe
    <2>6. \A i \in DOMAIN s : i = 1 \/ i = 2 BY <2>1
    <2>7. Exactly(s) BY <2>1, <2>3, <2>5, <2>6, ExactList
    <2>8. Has(s, <<p, n, c>>) BY <2>1, <2>3 DEF Has
    <2>9. QED BY <2>7, <2>8 DEF s
  <1>2. ASSUME NEW p \in Policies, NEW N, NEW names \in Seq(N)
        PROVE  /\ Exactly(Services(p, names))
               /\ \A i \in DOMAIN names, c \in Scopes : Has(Services(p, names), <<p, names[i], c>>)
    <2> DEFINE part(n) == ServiceReads(p, n, "own") \o ServiceReads(p, n, "recursive")
               ss == [i \in DOMAIN names |-> part(names[i])]
               m == Len(names)
    <2>1. ASSUME NEW n PROVE Exactly(part(n)) /\ \A c \in Scopes : Has(part(n), <<p, n, c>>)
      <3>1. "own" \in Scopes /\ "recursive" \in Scopes BY DEF Scopes
      <3> DEFINE a == ServiceReads(p, n, "own")
                 b == ServiceReads(p, n, "recursive")
      <3>2. /\ Exactly(a) /\ Has(a, <<p, n, "own">>) /\ Exactly(b) /\ Has(b, <<p, n, "recursive">>) BY <1>1, <3>1
      <3> HIDE DEF a, b
      <3>3. Exactly(a \o b) BY <3>2, ExactJoin
      <3>4. PICK S : a \in Seq(S) BY <3>2 DEF Exactly
      <3>5. PICK T : b \in Seq(T) BY <3>2 DEF Exactly
      <3>6. \A f : Has(a, f) \/ Has(b, f) => Has(a \o b, f) BY <3>4, <3>5, HasJoin
      <3>7. \A c \in Scopes : Has(a \o b, <<p, n, c>>) BY <3>2, <3>6 DEF Scopes
      <3>8. QED BY <3>3, <3>7 DEF a, b
    <2> HIDE DEF part
    <2>2. /\ m \in Nat /\ DOMAIN names = 1 .. m /\ DOMAIN ss = 1 .. m /\ ss = [i \in 1 .. m |-> ss[i]]
          /\ \A i \in 1 .. m : ss[i] = part(names[i])
      OBVIOUS
    <2>3. Services(p, names) = FlattenSeq(ss) BY DEF Services, part
    <2> HIDE DEF ss, m
    <2>4. \A i \in 1 .. m : Exactly(ss[i]) BY <2>1, <2>2
    <2>5. Exactly(FlattenSeq(ss)) BY <2>2, <2>4, ExactFlat
    <2>6. ASSUME NEW i \in DOMAIN names, NEW c \in Scopes PROVE Has(FlattenSeq(ss), <<p, names[i], c>>)
      <3>1. i \in 1 .. m /\ Has(ss[i], <<p, names[i], c>>) BY <2>1, <2>2
      <3>2. QED BY <2>2, <2>4, <3>1, FlatHas
    <2>7. QED BY <2>3, <2>5, <2>6
  <1>3. ASSUME NEW p \in Policies, NEW N, NEW names \in Seq(N) PROVE Exactly(DataReads(p, names))
    <2> DEFINE s == DataReads(p, names)
    <2>1. /\ DOMAIN s = DOMAIN names /\ Len(names) \in Nat /\ DOMAIN names = 1 .. Len(names)
          /\ s = [i \in 1 .. Len(names) |-> s[i]]
          /\ \A i \in DOMAIN s : s[i] = Rd(<<p, names[i]>>, <<p, "data">>, "blkio_data", << >>)
      BY DEF DataReads
    <2> HIDE DEF s
    <2>2. ASSUME NEW i \in DOMAIN s PROVE Exact(s[i])
      <3>1. \/ Other(<<p, names[i]>>) \/ names[i] = "fail_cnt" BY OtherFields DEF Policies
      <3>2. Other(<<p, names[i]>>)
        <4>1. \A a, b, c : <<p, names[i]>> # <<a, b, c>> OBVIOUS
        <4>2. QED BY <4>1 DEF Other, Tags, Policies
      <3>3. QED BY <2>1, <3>2, OtherRead
    <2>3. s \in Seq({s[i] : i \in DOMAIN s}) BY <2>1
    <2>4. Exactly(s) BY <2>2, <2>3, ExactList
    <2>5. QED BY <2>4 DEF s
  <1>4. ASSUME NEW n \in {"leaf_weight", "weight"} PROVE Exactly(WeightRead(n))
    <2> DEFINE s == WeightRead(n)
    <2>1. /\ s \in Seq({s[i] : i \in DOMAIN s}) /\ DOMAIN s = {1}
          /\ s[1] = Rd(<<"cfq", n>>, <<"cfq", "weight">>, "u64", 0)
      BY DEF WeightRead
    <2>2. Other(<<"cfq", n>>) BY OtherFields
    <2> HIDE DEF s
    <2>3. Exactly(s) BY <2>1, <2>2, OtherRead, ExactList DEF Safe
    <2>4. QED BY <2>3 DEF s
  <1>5. "cfq" \in Policies /\ "throttle" \in Policies /\ "own" \in Scopes /\ "recursive" \in Scopes
    BY DEF Policies, Scopes
  <1>6. Exactly(throttle) /\ \A f \in ServiceFields : f[1] = "throttle" => Has(throttle, f)
    <2>1. PICK N : ThrottleLists \in Seq(N) /\ ThrottleRates \in Seq(N)
      <3> DEFINE N == {"io_service_bytes", "io_serviced", "read_bps_device", "read_iops_device",
                       "write_bps_device", "write_iops_device"}
      <3>1. ThrottleLists \in Seq(N) /\ ThrottleRates \in Seq(N) BY DEF ThrottleLists, ThrottleRates
      <3>2. QED BY <3>1
    <2> DEFINE a == Services("throttle", ThrottleLists)
               b == DataReads("throttle", ThrottleRates)
    <2>2. DOMAIN ThrottleLists = {1, 2} /\ ThrottleLists[1] = "io_service_bytes" /\ ThrottleLists[2] = "io_serviced"
      BY DEF ThrottleLists
    <2>3. Exactly(a) /\ \A i \in DOMAIN ThrottleLists, c \in Scopes : Has(a, <<"throttle", ThrottleLists[i], c>>)
      BY <1>2, <1>5, <2>1
    <2>4. Exactly(b) BY <1>3, <1>5, <2>1
    <2> HIDE DEF a, b
    <2>5. \A f \in ServiceFields : f[1] = "throttle" => Has(a, f) BY <1>5, <2>2, <2>3 DEF ServiceFields
    <2>6. Exactly(a \o b) /\ \A f : Has(a, f) => Has(a \o b, f)
      <3>1. PICK S : a \in Seq(S) BY <2>3 DEF Exactly
      <3>2. PICK T : b \in Seq(T) BY <2>4 DEF Exactly
      <3>3. QED BY <2>3, <2>4, <3>1, <3>2, ExactJoin, HasJoin
    <2>7. QED BY <2>5, <2>6 DEF a, b, throttle
  <1>7. Exactly(Services("cfq", CfqLists)) /\ \A f \in ServiceFields : f[1] = "cfq" => Has(Services("cfq", CfqLists), f)
    <2>1. CfqLists \in Seq({"io_merged", "io_queued", "io_service_bytes", "io_serviced", "io_service_time",
                            "io_wait_time"})
      BY DEF CfqLists
    <2>2. DOMAIN CfqLists = 1 .. 6 /\ CfqLists[3] = "io_service_bytes" /\ CfqLists[4] = "io_serviced"
      BY DEF CfqLists
    <2> DEFINE a == Services("cfq", CfqLists)
    <2>3. Exactly(a) /\ \A i \in DOMAIN CfqLists, c \in Scopes : Has(a, <<"cfq", CfqLists[i], c>>)
      BY <1>2, <1>5, <2>1
    <2> HIDE DEF a
    <2>4. 3 \in 1 .. 6 /\ 4 \in 1 .. 6 OBVIOUS
    <2>5. Has(a, <<"cfq", "io_service_bytes", "recursive">>) /\ Has(a, <<"cfq", "io_serviced", "recursive">>)
      BY <1>5, <2>2, <2>3, <2>4
    <2>6. \A f \in ServiceFields : f[1] = "cfq" => Has(a, f) BY <2>5 DEF ServiceFields
    <2>7. QED BY <2>3, <2>6 DEF a
  <1>8. /\ Exactly(DataReads("cfq", <<"leaf_weight_device", "sectors", "sectors_recursive">>))
        /\ Exactly(DataReads("cfq", <<"time", "time_recursive">>))
        /\ Exactly(DataReads("cfq", <<"weight_device">>))
    <2> DEFINE N == {"leaf_weight_device", "sectors", "sectors_recursive", "time", "time_recursive",
                     "weight_device"}
    <2>1. <<"leaf_weight_device", "sectors", "sectors_recursive">> \in Seq(N)
          /\ <<"time", "time_recursive">> \in Seq(N) /\ <<"weight_device">> \in Seq(N)
      OBVIOUS
    <2> HIDE DEF N
    <2>2. QED BY <1>3, <1>5, <2>1
  <1>9. ASSUME NEW s, NEW t, Exactly(s), Exactly(t)
        PROVE  Exactly(s \o t) /\ \A f : Has(s, f) \/ Has(t, f) => Has(s \o t, f)
    BY <1>9, ExactAppend
  <1> DEFINE a == Services("cfq", CfqLists)
             b == a \o WeightRead("leaf_weight")
             c == b \o DataReads("cfq", <<"leaf_weight_device", "sectors", "sectors_recursive">>)
             d == c \o throttle
             e == d \o DataReads("cfq", <<"time", "time_recursive">>)
             g == e \o WeightRead("weight")
             h == g \o DataReads("cfq", <<"weight_device">>)
  <1>10. blkio = h BY DEF blkio
  <1>11. Exactly(a) /\ \A f \in ServiceFields : f[1] = "cfq" => Has(a, f) BY <1>7
  <1> HIDE DEF a
  <1>12. Exactly(b) /\ \A f \in ServiceFields : f[1] = "cfq" => Has(b, f) BY <1>4, <1>9, <1>11
  <1> HIDE DEF b
  <1>13. Exactly(c) /\ \A f \in ServiceFields : f[1] = "cfq" => Has(c, f) BY <1>8, <1>9, <1>12
  <1> HIDE DEF c
  <1>14. Exactly(d) /\ \A f \in ServiceFields : Has(d, f)
    <2>1. \A f \in ServiceFields : f[1] = "cfq" \/ f[1] = "throttle" BY DEF ServiceFields
    <2>2. QED BY <1>6, <1>9, <1>13, <2>1
  <1> HIDE DEF d
  <1>15. Exactly(e) /\ \A f \in ServiceFields : Has(e, f) BY <1>8, <1>9, <1>14
  <1> HIDE DEF e
  <1>16. Exactly(g) /\ \A f \in ServiceFields : Has(g, f) BY <1>4, <1>9, <1>15
  <1> HIDE DEF g
  <1>17. Exactly(h) /\ \A f \in ServiceFields : Has(h, f) BY <1>8, <1>9, <1>16
  <1> HIDE DEF h
  <1>18. QED BY <1>10, <1>17

\* Each size of huge pages has a read of its count of failures.
LEMMA ExactHuge ==
  ASSUME v2 \in BOOLEAN
  PROVE  /\ Exactly(hugetlb(v2))
         /\ \A i \in DOMAIN Sizes : Has(hugetlb(v2), <<"hugetlb", "fail_cnt", Sizes[i]>>)
  <1>1. ASSUME NEW z
        PROVE  Exactly(HugeReads(v2, z)) /\ Has(HugeReads(v2, z), <<"hugetlb", "fail_cnt", z>>)
    <2> DEFINE s == HugeReads(v2, z)
    <2>1. s \in Seq({s[i] : i \in DOMAIN s}) /\ DOMAIN s = 1 .. 3 BY DEF HugeReads
    <2>2. Other(<<"hugetlb", "usage", z>>) /\ Other(<<"hugetlb", "max_usage", z>>) BY OtherFields
    <2>3. Exact(s[1]) /\ Exact(s[2]) BY <2>2, OtherRead DEF HugeReads, Safe
    <2>4. s[3] = HugeFail(z) BY DEF HugeReads, HugeFail
    <2> HIDE DEF s
    <2>5. Exact(s[3]) /\ s[3].field = <<"hugetlb", "fail_cnt", z>> BY <2>4, CountReads
    <2>6. \A i \in DOMAIN s : i = 1 \/ i = 2 \/ i = 3 BY <2>1
    <2>7. Exactly(s) BY <2>1, <2>3, <2>5, <2>6, ExactList
    <2>8. Has(s, <<"hugetlb", "fail_cnt", z>>) BY <2>1, <2>5 DEF Has
    <2>9. QED BY <2>7, <2>8 DEF s
  <1> DEFINE part(z) == HugeReads(v2, z)
             ss == [i \in DOMAIN Sizes |-> part(Sizes[i])]
             m == Len(Sizes)
  <1>2. /\ \A z : Exactly(part(z)) /\ Has(part(z), <<"hugetlb", "fail_cnt", z>>) BY <1>1
  <1>3. hugetlb(v2) = FlattenSeq(ss) BY DEF hugetlb
  <1> HIDE DEF part
  <1>4. /\ m \in Nat /\ DOMAIN Sizes = 1 .. m /\ DOMAIN ss = 1 .. m /\ ss = [i \in 1 .. m |-> ss[i]]
        /\ \A i \in 1 .. m : ss[i] = part(Sizes[i])
    BY SizesType
  <1> HIDE DEF ss, m
  <1>5. \A i \in 1 .. m : Exactly(ss[i]) BY <1>2, <1>4
  <1>6. Exactly(FlattenSeq(ss)) BY <1>4, <1>5, ExactFlat
  <1>7. ASSUME NEW i \in DOMAIN Sizes PROVE Has(FlattenSeq(ss), <<"hugetlb", "fail_cnt", Sizes[i]>>)
    <2>1. i \in 1 .. m /\ Has(ss[i], <<"hugetlb", "fail_cnt", Sizes[i]>>) BY <1>2, <1>4
    <2>2. QED BY <1>4, <1>5, <2>1, FlatHas
  <1>8. QED BY <1>3, <1>6, <1>7

\* The fields that the properties need.
Needed ==
  {<<"memsw", "fail_cnt">>, <<"again", "stat">>}
    \union (IF v2 THEN {}
            ELSE {<<"memory", "fail_cnt">>, <<"kmem", "fail_cnt">>, <<"cpuacct", "stat">>, <<"cpuacct", "usage">>}
                   \union ServiceFields)

\* The whole call: each read is the read of its field, and no count is left out.
LEMMA ReadsExact ==
  ASSUME v2 \in BOOLEAN
  PROVE  /\ Exactly(Reads)
         /\ \A f \in Needed : Has(Reads, f)
         /\ \A i \in DOMAIN Sizes : Has(Reads, <<"hugetlb", "fail_cnt", Sizes[i]>>)
         /\ ~v2 => Reads[1] = TimesRead
  <1>1. ASSUME NEW s, NEW t, Exactly(s), Exactly(t)
        PROVE  /\ Exactly(s \o t) /\ \A f : Has(s, f) \/ Has(t, f) => Has(s \o t, f)
               /\ 1 \in DOMAIN s => 1 \in DOMAIN (s \o t) /\ (s \o t)[1] = s[1]
    BY <1>1, ExactAppend
  <1>2. Exactly(kmem_stat) /\ Has(kmem_stat, <<"kmem", "fail_cnt">>)
    <2>1. "kmem" \in Tags /\ ~Unified("kmem") BY DEF Tags, Unified
    <2>2. QED BY <2>1, ExactCounter DEF kmem_stat
  <1>3. CASE ~v2
    <2>1. v2 = FALSE BY <1>3
    <2> DEFINE sw == CounterReads("memsw", "memsw", 0)
               a == cpuacct \o cpu
               b == a \o memory_stat_v1("memory")
               c == b \o sw
               d == c \o kmem_stat
               e == d \o memory_stat_v1("again")
               g == e \o pids
               h == g \o blkio
               r == h \o hugetlb(v2)
               First(s) == 1 \in DOMAIN s /\ s[1] = TimesRead
               F1 == {<<"cpuacct", "stat">>, <<"cpuacct", "usage">>}
               F2 == F1 \union {<<"memory", "fail_cnt">>}
               F3 == F2 \union {<<"memsw", "fail_cnt">>}
               F4 == F3 \union {<<"kmem", "fail_cnt">>}
               F5 == F4 \union {<<"again", "stat">>}
               F6 == F5 \union ServiceFields
    <2>2. Reads = r BY <2>1 DEF Reads, StatsV1
    <2>3. Exactly(sw) /\ Has(sw, <<"memsw", "fail_cnt">>)
      <3>1. "memsw" \in Tags /\ ~Unified("memsw") BY <1>3 DEF Tags, Unified
      <3>2. QED BY <3>1, ExactCounter
    <2>4. /\ Exactly(memory_stat_v1("memory")) /\ Has(memory_stat_v1("memory"), <<"memory", "fail_cnt">>)
          /\ Exactly(memory_stat_v1("again")) /\ Has(memory_stat_v1("again"), <<"again", "stat">>)
      BY <1>3, ExactMemoryV1
    <2> HIDE DEF sw
    <2>5. Exactly(a) /\ (\A f \in F1 : Has(a, f)) /\ First(a)
      <3>1. First(cpuacct)
        <4>1. PICK S : cpuacct \in Seq(S) BY <1>3, ExactShort DEF Exactly
        <4>2. DOMAIN cpuacct = 1 .. 3 /\ cpuacct[1] = TimesRead BY <1>3, <4>1, ExactShort
        <4>3. QED BY <4>2
      <3>2. \A f \in F1 : Has(cpuacct, f) BY <1>3, ExactShort
      <3>3. QED BY <1>1, <1>3, <3>1, <3>2, ExactShort
    <2> HIDE DEF a
    <2>6. Exactly(b) /\ (\A f \in F2 : Has(b, f)) /\ First(b) BY <1>1, <2>4, <2>5
    <2> HIDE DEF b
    <2>7. Exactly(c) /\ (\A f \in F3 : Has(c, f)) /\ First(c) BY <1>1, <2>3, <2>6
    <2> HIDE DEF c
    <2>8. Exactly(d) /\ (\A f \in F4 : Has(d, f)) /\ First(d) BY <1>1, <1>2, <2>7
    <2> HIDE DEF d
    <2>9. Exactly(e) /\ (\A f \in F5 : Has(e, f)) /\ First(e) BY <1>1, <2>4, <2>8
    <2> HIDE DEF e
    <2>10. Exactly(g) /\ (\A f \in F5 : Has(g, f)) /\ First(g) BY <1>1, <2>9, ExactShort
    <2> HIDE DEF g
    <2>11. Exactly(h) /\ (\A f \in F6 : Has(h, f)) /\ First(h) BY <1>1, <2>10, ExactBlkio
    <2> HIDE DEF h
    <2>12. Exactly(r) /\ (\A f \in F6 : Has(r, f)) /\ First(r) BY <1>1, <2>11, ExactHuge
    <2>13. \A i \in DOMAIN Sizes : Has(r, <<"hugetlb", "fail_cnt", Sizes[i]>>) BY <1>1, <2>11, ExactHuge
    <2> HIDE DEF r
    <2>14. Needed = F6 BY <1>3 DEF Needed
    <2>15. QED BY <2>2, <2>12, <2>13, <2>14
  <1>4. CASE v2
    <2>1. v2 = TRUE BY <1>4
    <2> DEFINE a == cpu \o memory_stat_v2("memory")
               b == a \o memswap_v2
               c == b \o kmem_stat
               d == c \o memory_stat_v2("again")
               e == d \o pids
               g == e \o blkio_v2
               r == g \o hugetlb(v2)
    <2>2. Reads = r BY <2>1 DEF Reads, StatsV2
    <2>3. Exactly(a) BY <1>1, <1>4, ExactShort, ExactMemoryV2
    <2> HIDE DEF a
    <2>4. Exactly(b) /\ Has(b, <<"memsw", "fail_cnt">>) BY <1>1, <1>4, <2>3, ExactMemoryV2
    <2> HIDE DEF b
    <2>5. Exactly(c) /\ Has(c, <<"memsw", "fail_cnt">>) BY <1>1, <1>2, <2>4
    <2> HIDE DEF c
    <2>6. Exactly(d) /\ Has(d, <<"memsw", "fail_cnt">>) /\ Has(d, <<"again", "stat">>)
      BY <1>1, <1>4, <2>5, ExactMemoryV2
    <2> HIDE DEF d
    <2>7. Exactly(e) /\ Has(e, <<"memsw", "fail_cnt">>) /\ Has(e, <<"again", "stat">>)
      BY <1>1, <2>6, ExactShort
    <2> HIDE DEF e
    <2>8. Exactly(g) /\ Has(g, <<"memsw", "fail_cnt">>) /\ Has(g, <<"again", "stat">>)
      BY <1>1, <2>7, ExactShort
    <2> HIDE DEF g
    <2>9. Exactly(r) /\ Has(r, <<"memsw", "fail_cnt">>) /\ Has(r, <<"again", "stat">>)
      BY <1>1, <2>8, ExactHuge
    <2>10. \A i \in DOMAIN Sizes : Has(r, <<"hugetlb", "fail_cnt", Sizes[i]>>) BY <1>1, <2>8, ExactHuge
    <2> HIDE DEF r
    <2>11. QED BY <1>4, <2>2, <2>9, <2>10 DEF Needed
  <1>5. QED BY <1>3, <1>4

-----------------------------------------------------------------------------
(***************************************************************************)
(* The kernel: what it counts only grows, but for what upset notes, and as *)
(* long as cpuacct has not been reset the times of the CPUs add up to the  *)
(* times of cpuacct.stat.                                                  *)
(***************************************************************************)

\* The kernel's counts: the CPUs' times, memory.stat and a record for each device.
Modes == {"user", "system"}
Records == [dev : (Nat \ {0}) \X Nat, n : [IoOps -> Nat]]
IoOK(io) ==
  /\ io \in Seq(Records)
  /\ \A i, j \in DOMAIN io : io[i].dev = io[j].dev => i = j
Growing(a, b) ==
  /\ Len(a) <= Len(b)
  /\ \A i \in DOMAIN a : a[i].dev = b[i].dev /\ \A o \in IoOps : a[i].n[o] <= b[i].n[o]

CountsOK ==
  /\ kernel.percpu \in [Modes -> [1 .. Cpus -> Nat]] /\ kernel.ticks \in [Modes -> Nat]
  /\ kernel.stat \in [Names -> Nat] /\ IoOK(kernel.io)
  /\ "cpu" \notin upset => \A m \in Modes : Sum(kernel.percpu[m]) = kernel.ticks[m]
  /\ ~present => kernel = Fresh

\* One move of the kernel.
Climb ==
  /\ "gone" \notin upset' => /\ \A m \in Modes : kernel.ticks[m] <= kernel'.ticks[m]
                             /\ \A n \in Names : kernel.stat[n] <= kernel'.stat[n]
  /\ upset' \intersect {"fail", "gone"} = {} => \A k \in Kinds : kernel.counter[k].fail <= kernel'.counter[k].fail
  /\ upset' \intersect {"io", "gone"} = {} => Growing(kernel.io, kernel'.io)

\* A new cgroup has counted nothing.
LEMMA FreshCounts ==
  /\ Fresh.percpu \in [Modes -> [1 .. Cpus -> Nat]] /\ Fresh.ticks \in [Modes -> Nat]
  /\ Fresh.stat \in [Names -> Nat] /\ IoOK(Fresh.io)
  /\ \A m \in Modes : Sum(Fresh.percpu[m]) = Fresh.ticks[m]
  <1>1. /\ Fresh.percpu = [m \in Modes |-> [c \in 1 .. Cpus |-> 0]] /\ Fresh.ticks = [m \in Modes |-> 0]
        /\ Fresh.stat = [n \in Names |-> 0] /\ Fresh.io = << >>
    BY DEF Fresh, Modes
  <1>2. IoOK(Fresh.io) BY <1>1 DEF IoOK
  <1>3. ASSUME NEW m \in Modes PROVE Sum(Fresh.percpu[m]) = Fresh.ticks[m]
    <2> DEFINE s == [c \in 1 .. Cpus |-> 0]
    <2>1. s \in [1 .. Cpus -> Nat] /\ \A i \in 1 .. Cpus : s[i] = 0 OBVIOUS
    <2> HIDE DEF s
    <2>2. Sum(s) = 0 BY <2>1, CpusAssumption, SumType
    <2>3. QED BY <1>1, <2>2 DEF s
  <1>4. Fresh.percpu \in [Modes -> [1 .. Cpus -> Nat]]
    <2> DEFINE s == [c \in 1 .. Cpus |-> 0]
               U == [1 .. Cpus -> Nat]
    <2>1. s \in U OBVIOUS
    <2> HIDE DEF s, U
    <2>2. [m \in Modes |-> s] \in [Modes -> U] BY <2>1
    <2>3. QED BY <1>1, <2>2 DEF s, U
  <1>5. Fresh.ticks \in [Modes -> Nat] /\ Fresh.stat \in [Names -> Nat] BY <1>1
  <1>6. QED BY <1>2, <1>3, <1>4, <1>5

\* Which step changes which part.
LEMMA WorldParts ==
  ASSUME KernelOK, World
  PROVE  /\ \/ kernel'.percpu = kernel.percpu /\ kernel'.ticks = kernel.ticks
            \/ \E c \in 1 .. Cpus, m \in Modes : Tick(c, m)
            \/ reset_cpuacct \/ Rmdir \/ Mkdir
         /\ \/ kernel'.io = kernel.io
            \/ \E t \in Transfers : Transfer(t[1], t[2])
            \/ reset_stats \/ Rmdir \/ Mkdir
         /\ \/ kernel'.stat = kernel.stat
            \/ \E k \in Kinds \ {"memsw", "tcp"} : Charge(k)
            \/ Rmdir \/ Mkdir
         /\ \/ kernel'.counter = kernel.counter
            \/ \E k \in Kinds \ {"memsw", "tcp"} : Charge(k) \/ Uncharge(k)
            \/ \E k \in Kinds \ {"hugetlb"} : reset_fail_count(k)
            \/ reset_max_usage \/ Rmdir \/ Mkdir
  <1> DEFINE D == {"counter", "percpu", "ticks", "periods", "throttled", "pids", "io", "stat", "numa"}
             C == kernel'.counter = kernel.counter
             T == kernel'.percpu = kernel.percpu /\ kernel'.ticks = kernel.ticks
             I == kernel'.io = kernel.io
             S == kernel'.stat = kernel.stat
  <1>1. DOMAIN kernel = D BY DEF KernelOK, Fresh
  <1>2. ASSUME NEW k, Charge(k) PROVE T /\ I
    <2>1. \/ \E x : kernel' = [kernel EXCEPT !.counter = x]
          \/ \E x, y, z : kernel' = [kernel EXCEPT !.counter = x, !.stat = y, !.numa = z]
      BY <1>2 DEF Charge, Move
    <2>2. QED BY <1>1, <2>1
  <1>3. ASSUME NEW k, Uncharge(k) PROVE T /\ I /\ S
    <2>1. \E x : kernel' = [kernel EXCEPT !.counter = x] BY <1>3 DEF Uncharge, Move
    <2>2. QED BY <1>1, <2>1
  <1>4. ASSUME NEW c, NEW m, Tick(c, m) PROVE C /\ I /\ S
    <2>1. \E x, y : kernel' = [kernel EXCEPT !.percpu = x, !.ticks = y] BY <1>4 DEF Tick, Move
    <2>2. QED BY <1>1, <2>1
  <1>5. ASSUME NEW t, Period(t) PROVE C /\ T /\ I /\ S
    <2>1. \E x, y : kernel' = [kernel EXCEPT !.periods = x, !.throttled = y] BY <1>5 DEF Period, Move
    <2>2. QED BY <1>1, <2>1
  <1>6. ASSUME Fork \/ Exit PROVE C /\ T /\ I /\ S
    <2>1. \E x : kernel' = [kernel EXCEPT !.pids = x] BY <1>6 DEF Fork, Exit, Move
    <2>2. QED BY <1>1, <2>1
  <1>7. ASSUME NEW d, NEW o, Transfer(d, o) PROVE C /\ T /\ S
    <2>1. \E x : kernel' = [kernel EXCEPT !.io = x] BY <1>7 DEF Transfer, Move
    <2>2. QED BY <1>1, <2>1
  <1>8. ASSUME NEW k, reset_fail_count(k) PROVE T /\ I /\ S
    <2>1. \E x : kernel' = [kernel EXCEPT !.counter = x] BY <1>8 DEF reset_fail_count, Move
    <2>2. QED BY <1>1, <2>1
  <1>9. ASSUME reset_max_usage PROVE T /\ I /\ S
    <2>1. \E x : kernel' = [kernel EXCEPT !.counter = x] BY <1>9 DEF reset_max_usage, Move
    <2>2. QED BY <1>1, <2>1
  <1>10. ASSUME reset_cpuacct PROVE C /\ I /\ S
    <2>1. \E x : kernel' = [kernel EXCEPT !.percpu = x] BY <1>10 DEF reset_cpuacct, Move
    <2>2. QED BY <1>1, <2>1
  <1>11. ASSUME reset_stats PROVE C /\ T /\ S
    <2>1. \E x : kernel' = [kernel EXCEPT !.io = x] BY <1>11 DEF reset_stats, Move
    <2>2. QED BY <1>1, <2>1
  <1>13. CASE \E k \in Kinds \ {"memsw", "tcp"} : Charge(k) BY <1>2, <1>13
  <1>14. CASE \E k \in Kinds \ {"memsw", "tcp"} : Uncharge(k) BY <1>3, <1>14
  <1>15. CASE \E c \in 1 .. Cpus, m \in {"user", "system"} : Tick(c, m) BY <1>4, <1>15 DEF Modes
  <1>16. CASE \E t \in {0, 1} : Period(t) BY <1>5, <1>16
  <1>17. CASE Fork \/ Exit BY <1>6, <1>17
  <1>18. CASE \E t \in Transfers : Transfer(t[1], t[2]) BY <1>7, <1>18
  <1>19. CASE \E k \in Kinds \ {"hugetlb"} : reset_fail_count(k) BY <1>8, <1>19
  <1>20. CASE reset_max_usage BY <1>9, <1>20
  <1>21. CASE reset_cpuacct BY <1>10, <1>21
  <1>22. CASE reset_stats BY <1>11, <1>22
  <1>23. CASE Rmdir \/ Mkdir BY <1>23
  <1>24. QED BY <1>13, <1>14, <1>15, <1>16, <1>17, <1>18, <1>19, <1>20, <1>21, <1>22, <1>23 DEF World

\* What a step notes in upset, and that nothing moves without the cgroup.
LEMMA WorldUpset ==
  ASSUME KernelOK, CountsOK, World
  PROVE  /\ Mkdir \/ upset \subseteq upset'
         /\ Rmdir \/ Mkdir => kernel' = Fresh /\ "gone" \in upset'
         /\ ~present' => kernel' = Fresh
  <1>1. Mkdir \/ upset \subseteq upset'
    BY DEF World, Charge, Uncharge, Tick, Period, Fork, Exit, Transfer, reset_fail_count,
           reset_max_usage, reset_cpuacct, reset_stats, Rmdir, Quiet
  <1>2. Rmdir \/ Mkdir => kernel' = Fresh /\ "gone" \in upset' BY DEF Rmdir, Mkdir, Move
  <1>3. CASE Exit
    <2>1. Fresh.pids = 0 BY DEF Fresh
    <2>2. present' = present /\ kernel.pids > 0 BY <1>3 DEF Exit, Quiet
    <2>3. present BY <2>1, <2>2 DEF CountsOK
    <2>4. QED BY <1>1, <1>2, <2>2, <2>3
  <1>4. CASE ~Exit
    <2>1. \A f : Exists(f) => present BY DEF Exists
    <2>2. present' \/ Rmdir
      <3>1. \A k : Charge(k) \/ Uncharge(k) => present /\ present' = present BY DEF Charge, Uncharge, Quiet
      <3>2. \A c, m : Tick(c, m) => present /\ present' = present BY DEF Tick, Quiet
      <3>3. \A t : Period(t) => present /\ present' = present BY DEF Period, Quiet
      <3>4. Fork => present /\ present' = present BY DEF Fork, Quiet
      <3>5. \A d, o : Transfer(d, o) => present /\ present' = present BY DEF Transfer, Quiet
      <3>6. \A k : reset_fail_count(k) => present /\ present' = present BY <2>1 DEF reset_fail_count
      <3>7. reset_max_usage \/ reset_cpuacct \/ reset_stats => present /\ present' = present
        BY <2>1 DEF reset_max_usage, reset_cpuacct, reset_stats
      <3>8. Mkdir => present' BY DEF Mkdir
      <3>9. QED BY <1>4, <3>1, <3>2, <3>3, <3>4, <3>5, <3>6, <3>7, <3>8 DEF World
    <2>3. QED BY <1>1, <1>2, <2>2
  <1>5. QED BY <1>3, <1>4

\* The times: one tick goes to one CPU and to the sum.
LEMMA TimesStep ==
  ASSUME KernelOK, CountsOK, World
  PROVE  /\ kernel'.percpu \in [Modes -> [1 .. Cpus -> Nat]] /\ kernel'.ticks \in [Modes -> Nat]
         /\ "cpu" \notin upset' => \A m \in Modes : Sum(kernel'.percpu[m]) = kernel'.ticks[m]
         /\ "gone" \notin upset' => \A m \in Modes : kernel.ticks[m] <= kernel'.ticks[m]
  <1>1. /\ kernel.percpu \in [Modes -> [1 .. Cpus -> Nat]] /\ kernel.ticks \in [Modes -> Nat]
        /\ "cpu" \notin upset => \A m \in Modes : Sum(kernel.percpu[m]) = kernel.ticks[m]
    BY DEF CountsOK
  <1>2. {"percpu", "ticks"} \subseteq DOMAIN kernel BY DEF KernelOK, Fresh
  <1>3. \A m \in Modes : kernel.ticks[m] \in Nat BY <1>1
  <1>4. CASE Rmdir \/ Mkdir BY <1>4, WorldUpset, FreshCounts
  <1>5. CASE ~Mkdir /\ kernel'.percpu = kernel.percpu /\ kernel'.ticks = kernel.ticks
    BY <1>1, <1>3, <1>5, WorldUpset
  <1>6. ASSUME NEW c \in 1 .. Cpus, NEW m \in Modes, Tick(c, m)
        PROVE  /\ kernel'.percpu \in [Modes -> [1 .. Cpus -> Nat]] /\ kernel'.ticks \in [Modes -> Nat]
               /\ "cpu" \notin upset' => \A n \in Modes : Sum(kernel'.percpu[n]) = kernel'.ticks[n]
               /\ "gone" \notin upset' => \A n \in Modes : kernel.ticks[n] <= kernel'.ticks[n]
    <2> DEFINE P == kernel.percpu
               T == kernel.ticks
               s == P[m]
               u == [s EXCEPT ![c] = @ + 1]
    <2>1. kernel'.percpu = [P EXCEPT ![m] = u] /\ kernel'.ticks = [T EXCEPT ![m] = T[m] + 1] /\ upset' = upset
      <3>1. kernel' = [kernel EXCEPT !.percpu[m][c] = @ + 1, !.ticks[m] = @ + 1] /\ upset' = upset
        BY <1>6 DEF Tick, Move, Quiet
      <3> DEFINE K == kernel
      <3>2. kernel' = [K EXCEPT !.percpu = [K.percpu EXCEPT ![m] = [K.percpu[m] EXCEPT ![c] = @ + 1]],
                                !.ticks = [K.ticks EXCEPT ![m] = @ + 1]]
        BY <3>1
      <3>3. {"percpu", "ticks"} \subseteq DOMAIN K /\ K = kernel BY <1>2
      <3> HIDE DEF K
      <3>4. /\ kernel'.percpu = [K.percpu EXCEPT ![m] = [K.percpu[m] EXCEPT ![c] = @ + 1]]
            /\ kernel'.ticks = [K.ticks EXCEPT ![m] = @ + 1]
        BY <3>2, <3>3
      <3>5. QED BY <3>1, <3>4 DEF K
    <2>2. s \in [1 .. Cpus -> Nat] BY <1>1
    <2>3. u \in [1 .. Cpus -> Nat] /\ Sum(u) = Sum(s) + 1
      <3> HIDE DEF s
      <3>1. u \in [1 .. Cpus -> Nat] BY <2>2
      <3>2. Sum([s EXCEPT ![c] = @ + 1]) = Sum(s) + 1
        <4>1. Cpus \in Nat BY CpusAssumption
        <4>2. QED BY <2>2, <4>1, SumBump, Zenon
      <3>3. QED BY <3>1, <3>2
    <2>4. P \in [Modes -> [1 .. Cpus -> Nat]] /\ T \in [Modes -> Nat]
          /\ ("cpu" \notin upset => \A n \in Modes : Sum(P[n]) = T[n])
      BY <1>1
    <2>5. s = P[m] OBVIOUS
    <2> HIDE DEF P, T, s, u
    <2>6. /\ kernel'.percpu \in [Modes -> [1 .. Cpus -> Nat]]
          /\ \A n \in Modes : kernel'.percpu[n] = IF n = m THEN u ELSE P[n]
      <3> DEFINE U == [1 .. Cpus -> Nat]
      <3>1. P \in [Modes -> U] /\ u \in U BY <2>3, <2>4
      <3> HIDE DEF U
      <3>2. kernel'.percpu \in [Modes -> U] BY <2>1, <3>1
      <3>3. QED BY <2>1, <2>4, <3>2 DEF U
    <2>7. /\ kernel'.ticks \in [Modes -> Nat]
          /\ \A n \in Modes : kernel'.ticks[n] = IF n = m THEN T[n] + 1 ELSE T[n]
          /\ \A n \in Modes : T[n] \in Nat
      BY <2>1, <2>4
    <2>8. "cpu" \notin upset' => \A n \in Modes : Sum(kernel'.percpu[n]) = kernel'.ticks[n]
      BY <2>1, <2>3, <2>4, <2>5, <2>6, <2>7
    <2>9. \A n \in Modes : T[n] <= kernel'.ticks[n] BY <2>7
    <2>10. QED BY <2>6, <2>7, <2>8, <2>9 DEF T
  <1>7. CASE reset_cpuacct
    <2>1. kernel' = [kernel EXCEPT !.percpu = Fresh.percpu] /\ "cpu" \in upset' BY <1>7 DEF reset_cpuacct, Move
    <2>2. kernel'.percpu = Fresh.percpu /\ kernel'.ticks = kernel.ticks BY <1>2, <2>1
    <2>3. QED BY <1>1, <1>3, <2>1, <2>2, FreshCounts
  <1>8. QED BY <1>4, <1>5, <1>6, <1>7, WorldParts

\* The counters of memory.stat.
LEMMA StatStep ==
  ASSUME KernelOK, CountsOK, World
  PROVE  /\ kernel'.stat \in [Names -> Nat]
         /\ "gone" \notin upset' => \A n \in Names : kernel.stat[n] <= kernel'.stat[n]
  <1>1. kernel.stat \in [Names -> Nat] /\ \A n \in Names : kernel.stat[n] \in Nat BY DEF CountsOK
  <1>2. CASE Rmdir \/ Mkdir BY <1>2, WorldUpset, FreshCounts
  <1>3. CASE kernel'.stat = kernel.stat BY <1>1, <1>3
  <1>4. ASSUME NEW k, Charge(k)
        PROVE  /\ kernel'.stat \in [Names -> Nat]
               /\ \A n \in Names : kernel.stat[n] <= kernel'.stat[n]
    <2>1. {"counter", "stat", "numa"} \subseteq DOMAIN kernel BY DEF KernelOK, Fresh
    <2> DEFINE s == IF k = "memory" THEN [n \in Names |-> kernel.stat[n] + 1] ELSE kernel.stat
    <2>2. \/ \E x : kernel' = [kernel EXCEPT !.counter = x]
          \/ \E x, z : kernel' = [kernel EXCEPT !.counter = x, !.stat = s, !.numa = z]
      BY <1>4 DEF Charge, Move
    <2>3. s \in [Names -> Nat] /\ \A n \in Names : kernel.stat[n] <= s[n] BY <1>1
    <2> HIDE DEF s
    <2>4. kernel'.stat = kernel.stat \/ kernel'.stat = s BY <2>1, <2>2
    <2>5. QED BY <1>1, <2>3, <2>4
  <1>5. QED BY <1>2, <1>3, <1>4, WorldParts

\* The counts of failures.
LEMMA FailStep ==
  ASSUME KernelOK, CountsOK, World, upset' \intersect {"fail", "gone"} = {}, NEW j \in Kinds
  PROVE  kernel.counter[j].fail <= kernel'.counter[j].fail
  <1> DEFINE C == kernel.counter
  <1>0. C \in Counters /\ \A i \in Kinds : C[i] \in [usage : Nat, max : Nat, fail : Nat] /\ C[i].fail \in Nat
    BY DEF KernelOK, Counters
  <1>1. {"counter", "stat", "numa"} \subseteq DOMAIN kernel BY DEF KernelOK, Fresh
  <1>2. ~(Rmdir \/ Mkdir) BY WorldUpset
  <1>3. ASSUME NEW k, Charge(k) PROVE C[j].fail <= kernel'.counter[j].fail
    <2> DEFINE failed == [i \in Kinds |-> IF i \in Charged(k) /\ Full(i) THEN [C[i] EXCEPT !.fail = @ + 1] ELSE C[i]]
               charged == [i \in Kinds |->
                            IF i \in Charged(k)
                            THEN [C[i] EXCEPT !.usage = @ + 1, !.max = IF @ > C[i].usage THEN @ ELSE @ + 1]
                            ELSE C[i]]
    <2>1. \/ kernel' = [kernel EXCEPT !.counter = failed]
          \/ \E y, z : kernel' = [kernel EXCEPT !.counter = charged, !.stat = y, !.numa = z]
      BY <1>3 DEF Charge, Move
    <2>2. failed[j].fail = C[j].fail \/ failed[j].fail = C[j].fail + 1
      <3> DEFINE c == C[j]
      <3>1. c \in [usage : Nat, max : Nat, fail : Nat]
            /\ failed[j] = IF j \in Charged(k) /\ Full(j) THEN [c EXCEPT !.fail = @ + 1] ELSE c
        BY <1>0
      <3>2. c = C[j] OBVIOUS
      <3> HIDE DEF c, failed
      <3>3. QED BY <3>1, <3>2
    <2>3. charged[j].fail = C[j].fail
      <3> DEFINE c == C[j]
                 q == IF c.max > c.usage THEN c.max ELSE c.max + 1
      <3>1. c \in [usage : Nat, max : Nat, fail : Nat]
            /\ charged[j] = IF j \in Charged(k) THEN [c EXCEPT !.usage = @ + 1, !.max = q] ELSE c
        BY <1>0
      <3>2. c = C[j] OBVIOUS
      <3> HIDE DEF c, charged, q
      <3>3. QED BY <3>1, <3>2
    <2> HIDE DEF C, failed, charged
    <2>4. kernel'.counter = failed \/ kernel'.counter = charged BY <1>1, <2>1
    <2>5. C[j].fail \in Nat BY <1>0
    <2>6. QED BY <2>2, <2>3, <2>4, <2>5
  <1>4. ASSUME NEW k, Uncharge(k) PROVE C[j].fail <= kernel'.counter[j].fail
    <2> DEFINE less == [i \in Kinds |-> IF i \in Charged(k) THEN [C[i] EXCEPT !.usage = @ - 1] ELSE C[i]]
    <2>1. kernel' = [kernel EXCEPT !.counter = less] BY <1>4 DEF Uncharge, Move
    <2>2. less[j].fail = C[j].fail
      <3> DEFINE c == C[j]
      <3>1. c \in [usage : Nat, max : Nat, fail : Nat]
            /\ less[j] = IF j \in Charged(k) THEN [c EXCEPT !.usage = @ - 1] ELSE c
        BY <1>0
      <3>2. c = C[j] OBVIOUS
      <3> HIDE DEF c, less
      <3>3. QED BY <3>1, <3>2
    <2> HIDE DEF C, less
    <2>3. kernel'.counter = less BY <1>1, <2>1
    <2>4. C[j].fail \in Nat BY <1>0
    <2>5. QED BY <2>2, <2>3, <2>4
  <1>5. ~ \E k \in Kinds \ {"hugetlb"} : reset_fail_count(k) BY DEF reset_fail_count
  <1>6. ASSUME reset_max_usage PROVE C[j].fail <= kernel'.counter[j].fail
    <2> DEFINE e == [C["memory"] EXCEPT !.max = C["memory"].usage]
               D == [C EXCEPT !["memory"] = e]
    <2>1. kernel' = [kernel EXCEPT !.counter["memory"].max = kernel.counter["memory"].usage]
      BY <1>6 DEF reset_max_usage, Move
    <2>2. kernel'.counter = D BY <1>1, <2>1
    <2>3. "memory" \in Kinds BY DEF Kinds
    <2>4. e.fail = C["memory"].fail
      <3> DEFINE c == C["memory"]
      <3>1. c \in [usage : Nat, max : Nat, fail : Nat] BY <1>0, <2>3
      <3> HIDE DEF c
      <3>2. [c EXCEPT !.max = c.usage].fail = c.fail BY <3>1
      <3>3. QED BY <3>2 DEF c
    <2>5. D[j] = IF j = "memory" THEN e ELSE C[j] BY <1>0 DEF Counters
    <2>6. C[j].fail \in Nat BY <1>0
    <2> HIDE DEF D, e, C
    <2>7. QED BY <2>2, <2>4, <2>5, <2>6
  <1>7. CASE kernel'.counter = kernel.counter BY <1>0, <1>7
  <1>8. QED BY <1>2, <1>3, <1>4, <1>5, <1>6, <1>7, WorldParts

\* The operations served: a device keeps its place and its record grows.
LEMMA IoStep ==
  ASSUME KernelOK, CountsOK, World
  PROVE  /\ IoOK(kernel'.io)
         /\ upset' \intersect {"io", "gone"} = {} => Growing(kernel.io, kernel'.io)
  <1>1. IoOK(kernel.io) BY DEF CountsOK
  <1>2. "io" \in DOMAIN kernel BY DEF KernelOK, Fresh
  <1>3. \A r \in Records : r.dev \in (Nat \ {0}) \X Nat /\ r.n \in [IoOps -> Nat] /\ \A o \in IoOps : r.n[o] \in Nat
    BY DEF Records
  <1> DEFINE a == kernel.io
  <1>4. /\ a \in Seq(Records) /\ Len(a) \in Nat /\ DOMAIN a = 1 .. Len(a)
        /\ \A i \in DOMAIN a : a[i] \in Records
        /\ \A i, j \in DOMAIN a : a[i].dev = a[j].dev => i = j
    BY <1>1 DEF IoOK
  <1>5. CASE Rmdir \/ Mkdir BY <1>5, WorldUpset, FreshCounts
  <1>6. CASE kernel'.io = kernel.io
    <2>1. Growing(a, a)
      <3> HIDE DEF a
      <3>1. \A i \in DOMAIN a, o \in IoOps : a[i].n[o] \in Nat BY <1>3, <1>4
      <3>2. QED BY <1>4, <3>1 DEF Growing
    <2>2. QED BY <1>1, <1>6, <2>1
  <1>7. CASE reset_stats
    <2>1. kernel' = [kernel EXCEPT !.io = << >>] /\ "io" \in upset' BY <1>7 DEF reset_stats, Move
    <2>2. kernel'.io = << >> BY <1>2, <2>1
    <2>3. IoOK(<< >>) BY DEF IoOK
    <2>4. QED BY <2>1, <2>2, <2>3
  <1>8. ASSUME NEW t \in Transfers, Transfer(t[1], t[2])
        PROVE  IoOK(kernel'.io) /\ Growing(kernel.io, kernel'.io)
    <2> DEFINE d == t[1]
               Done(n) == [p \in IoOps |-> IF p \in {t[2], "Sync", "Total"} THEN n[p] + 1 ELSE n[p]]
               known == {i \in DOMAIN a : a[i].dev = d}
               e == [dev |-> d, n |-> Done(NoService.n)]
               b == [i \in DOMAIN a |-> IF i \in known THEN [a[i] EXCEPT !.n = Done(@)] ELSE a[i]]
    <2>1. kernel' = [kernel EXCEPT !.io = IF known = {} THEN Append(a, e) ELSE b]
      BY <1>8 DEF Transfer, Move
    <2>2. d \in (Nat \ {0}) \X Nat BY TransfersAssumption
    <2>3. ASSUME NEW n \in [IoOps -> Nat]
          PROVE  Done(n) \in [IoOps -> Nat] /\ \A o \in IoOps : n[o] <= Done(n)[o]
      <3> DEFINE N == Done(n)
      <3>1. N = [p \in IoOps |-> IF p \in {t[2], "Sync", "Total"} THEN n[p] + 1 ELSE n[p]] OBVIOUS
      <3>2. ASSUME NEW p \in IoOps PROVE n[p] \in Nat /\ (N[p] = n[p] + 1 \/ N[p] = n[p])
        BY <2>3, <3>1
      <3> HIDE DEF N, Done
      <3>3. N = [p \in IoOps |-> N[p]] BY <3>1
      <3>4. \A p \in IoOps : N[p] \in Nat /\ n[p] <= N[p] BY <3>2
      <3>5. N \in [IoOps -> Nat] BY <3>3, <3>4
      <3>6. QED BY <3>4, <3>5 DEF N
    <2>4. e \in Records /\ e.dev = d
      <3>1. NoService.n \in [IoOps -> Nat] BY DEF NoService
      <3>2. Done(NoService.n) \in [IoOps -> Nat] BY <2>3, <3>1
      <3> HIDE DEF Done, d
      <3>3. QED BY <2>2, <3>2 DEF Records
    <2>5. ASSUME NEW i \in DOMAIN a
          PROVE  b[i] \in Records /\ b[i].dev = a[i].dev /\ \A o \in IoOps : a[i].n[o] <= b[i].n[o]
      <3> DEFINE r == a[i]
      <3>1. r \in Records /\ b[i] = IF i \in known THEN [r EXCEPT !.n = Done(r.n)] ELSE r BY <1>4
      <3>2. r.n \in [IoOps -> Nat] BY <1>3, <3>1
      <3>3. Done(r.n) \in [IoOps -> Nat] /\ \A o \in IoOps : r.n[o] <= Done(r.n)[o] BY <2>3, <3>2
      <3>4. \A o \in IoOps : r.n[o] \in Nat BY <1>3, <3>1
      <3>5. r = a[i] OBVIOUS
      <3> HIDE DEF r, b, known, Done
      <3>6. CASE i \in known BY <3>1, <3>3, <3>5, <3>6 DEF Records
      <3>7. CASE i \notin known BY <3>1, <3>4, <3>5, <3>7
      <3>8. QED BY <3>6, <3>7
    <2>6. b = [i \in 1 .. Len(a) |-> b[i]]
      <3>1. b = [i \in DOMAIN a |-> b[i]] /\ DOMAIN a = 1 .. Len(a) BY <1>4
      <3> HIDE DEF b
      <3>2. QED BY <3>1
    <2>7. CASE known = {}
      <3>1. kernel'.io = Append(a, e) BY <1>2, <2>1, <2>7
      <3>2. \A i \in DOMAIN a : a[i].dev # d BY <2>7
      <3> HIDE DEF a, e, d
      <3> DEFINE c == Append(a, e)
      <3>3. /\ c \in Seq(Records) /\ Len(c) = Len(a) + 1 /\ DOMAIN c = 1 .. Len(a) + 1
            /\ c[Len(a) + 1] = e /\ \A i \in 1 .. Len(a) : c[i] = a[i]
        BY <1>4, <2>4
      <3> HIDE DEF c
      <3>4. \A i \in DOMAIN c : i = Len(a) + 1 \/ (i \in DOMAIN a /\ c[i] = a[i]) BY <1>4, <3>3
      <3>5. ASSUME NEW i \in DOMAIN c, NEW j \in DOMAIN c, c[i].dev = c[j].dev PROVE i = j
        <4>1. CASE i = Len(a) + 1 /\ j = Len(a) + 1 BY <4>1
        <4>2. CASE i \in DOMAIN a /\ c[i] = a[i] /\ j \in DOMAIN a /\ c[j] = a[j]
          BY <1>4, <3>5, <4>2
        <4>3. CASE i = Len(a) + 1 /\ j \in DOMAIN a /\ c[j] = a[j]
          <5>1. a[j].dev = d BY <2>4, <3>3, <3>5, <4>3
          <5>2. QED BY <3>2, <4>3, <5>1
        <4>4. CASE j = Len(a) + 1 /\ i \in DOMAIN a /\ c[i] = a[i]
          <5>1. a[i].dev = d BY <2>4, <3>3, <3>5, <4>4
          <5>2. QED BY <3>2, <4>4, <5>1
        <4>5. QED BY <3>4, <4>1, <4>2, <4>3, <4>4
      <3>6. IoOK(c) BY <3>3, <3>5 DEF IoOK
      <3>7. Growing(a, c)
        <4>1. \A i \in DOMAIN a, o \in IoOps : a[i].n[o] \in Nat BY <1>3, <1>4
        <4>2. \A i \in DOMAIN a : c[i] = a[i] BY <1>4, <3>3
        <4>3. Len(a) <= Len(c) BY <1>4, <3>3
        <4>4. QED BY <4>1, <4>2, <4>3 DEF Growing
      <3>8. QED BY <3>1, <3>6, <3>7 DEF a, c
    <2>8. CASE known # {}
      <3>1. kernel'.io = b BY <1>2, <2>1, <2>8
      <3> HIDE DEF a, b
      <3>2. b \in Seq(Records) /\ Len(b) = Len(a) /\ DOMAIN b = DOMAIN a BY <1>4, <2>5, <2>6
      <3>3. IoOK(b) BY <1>4, <2>5, <3>2 DEF IoOK
      <3>4. Growing(a, b) BY <1>4, <2>5, <3>2 DEF Growing
      <3>5. QED BY <3>1, <3>3, <3>4 DEF a
    <2>9. QED BY <2>7, <2>8
  <1>9. QED BY <1>5, <1>6, <1>7, <1>8, WorldParts

\* Each move of the kernel keeps the counts and lets them climb.
LEMMA CountsStep ==
  ASSUME KernelOK, CountsOK, World
  PROVE  CountsOK' /\ Climb
  <1>1. ~present' => kernel' = Fresh BY WorldUpset
  <1>2. QED BY <1>1, TimesStep, StatStep, FailStep, IoStep DEF CountsOK, Climb, IoOK

\* Growth over several steps.
LEMMA GrowingSteps ==
  ASSUME NEW a, NEW b, NEW c, IoOK(a), IoOK(b), IoOK(c), Growing(a, b), Growing(b, c)
  PROVE  Growing(a, c)
  <1>1. /\ Len(a) \in Nat /\ Len(b) \in Nat /\ Len(c) \in Nat
        /\ DOMAIN a = 1 .. Len(a) /\ DOMAIN b = 1 .. Len(b) /\ DOMAIN c = 1 .. Len(c)
    BY DEF IoOK
  <1>2. \A r \in Records, o \in IoOps : r.n[o] \in Nat BY DEF Records
  <1>3. Len(a) <= Len(b) /\ Len(b) <= Len(c) BY DEF Growing
  <1>4. ASSUME NEW i \in DOMAIN a
        PROVE  a[i].dev = c[i].dev /\ \A o \in IoOps : a[i].n[o] <= c[i].n[o]
    <2>1. i \in DOMAIN b /\ i \in DOMAIN c BY <1>1, <1>3
    <2>2. a[i].dev = b[i].dev /\ b[i].dev = c[i].dev BY <2>1 DEF Growing
    <2>3. ASSUME NEW o \in IoOps PROVE a[i].n[o] <= c[i].n[o]
      <3> DEFINE x == a[i].n[o]
                 y == b[i].n[o]
                 z == c[i].n[o]
      <3>1. x \in Nat /\ y \in Nat /\ z \in Nat
        <4>1. a[i] \in Records /\ b[i] \in Records /\ c[i] \in Records BY <2>1 DEF IoOK
        <4>2. QED BY <1>2, <4>1
      <3>2. x <= y /\ y <= z BY <2>1 DEF Growing
      <3> HIDE DEF x, y, z
      <3>3. x <= z BY <3>1, <3>2
      <3>4. QED BY <3>3 DEF x, z
    <2>4. QED BY <2>2, <2>3
  <1>5. QED BY <1>1, <1>3, <1>4 DEF Growing

-----------------------------------------------------------------------------
(***************************************************************************)
(* What the reads of the counts report.                                    *)
(***************************************************************************)

\* Every size the library asks for has the name that the kernel gives it.
LEMMA SizesNamed == \A i \in DOMAIN Sizes : \E j \in DOMAIN PageDirs : Sizes[i] = KernelSize(PageDirs[j])
  <1> DEFINE Size(d) == parse_size(d[1], d[2])
             part(d) == IF Size(d) = Err THEN << >> ELSE <<custom_size(Size(d)[2])>>
             ss == [i \in DOMAIN PageDirs |-> part(PageDirs[i])]
             Z == {KernelSize(PageDirs[j]) : j \in DOMAIN PageDirs}
             U == Seq(Z)
  <1>1. ASSUME NEW i \in DOMAIN PageDirs PROVE part(PageDirs[i]) \in U
    <2>1. part(PageDirs[i]) = <<KernelSize(PageDirs[i])>> BY SizeNames
    <2>2. KernelSize(PageDirs[i]) \in Z OBVIOUS
    <2> HIDE DEF part, Z
    <2>3. QED BY <2>1, <2>2
  <1>2. Sizes = FlattenSeq(ss) BY DEF Sizes, get_hugepage_sizes
  <1>3. << >> \in U /\ \A s, t \in U : s \o t \in U
    <2> HIDE DEF Z
    <2>1. QED OBVIOUS
  <1> HIDE DEF part, Z, U
  <1>4. ss \in Seq(U)
    <2>1. Len(PageDirs) \in Nat /\ DOMAIN PageDirs = 1 .. Len(PageDirs) BY PageDirsAssumption
    <2>2. QED BY <1>1, <2>1
  <1> HIDE DEF ss
  <1>5. FlattenSeq(ss) \in U
    <2>1. U \in SUBSET Seq(Z) BY DEF U
    <2>2. QED BY <1>3, <1>4, <2>1, FlattenClosed
  <1>6. \A i \in DOMAIN Sizes : Sizes[i] \in Z BY <1>2, <1>5 DEF U
  <1>7. QED BY <1>6 DEF Z

\* The files with the failures of a page counter.
LEMMA FailText ==
  ASSUME NEW k \in Kinds
  PROVE  /\ v2 => /\ "events" \in DOMAIN CounterFiles(k)
                  /\ CounterFiles(k)["events"]
                       = <<Count(IF k = "memsw" THEN "fail" ELSE "max", kernel.counter[k].fail)>>
         /\ ~v2 => /\ "failcnt" \in DOMAIN CounterFiles(k)
                   /\ CounterFiles(k)["failcnt"] = One(Num(kernel.counter[k].fail))
  BY DEF CounterFiles, Count

\* The failures that the call reports from a file of its own: on v2 those of
\* swap.
Counted(k) == k \in Tags /\ (~v2 \/ k = "memsw")

\* What the getter of a count of failures returns is the kernel's count.
LEMMA FailReported ==
  ASSUME StateOK, CountsOK, NEW k, Counted(k)
  PROVE  k \in Kinds /\ Reported(FailRead(k)) = kernel.counter[k].fail
  <1> DEFINE n == kernel.counter[k].fail
             r == FailRead(k)
  <1>1. k \in Kinds /\ k # "hugetlb" BY DEF Counted, Tags, Kinds
  <1>2. n \in Nat BY <1>1 DEF StateOK, KernelOK, Counters
  <1>3. CASE v2
    <2>1. k = "memsw" /\ Unified(k) BY <1>3 DEF Counted, Unified
    <2>2. r = Rd(<<k, "fail_cnt">>, <<k, "events">>, "fail", 0) BY <2>1 DEF FailRead
    <2>3. r.as = "fail" /\ r.default = 0 /\ r.file = <<k, "events">> BY <2>2 DEF Rd
    <2>4. "events" \in DOMAIN CounterFiles(k) /\ CounterFiles(k)["events"] = <<Count("fail", n)>>
      BY <1>1, <1>3, <2>1, FailText
    <2>5. "events" \in DOMAIN FilesOf(k) /\ FilesOf(k)["events"] = <<Count("fail", n)>>
      BY <1>1, <2>1, <2>4, CounterFile
    <2>6. (Exists(r.file) <=> present) /\ Text(r.file) = <<Count("fail", n)>>
      BY <1>1, <2>3, <2>5 DEF Exists, Text
    <2> DEFINE c == <<Count("fail", n)>>
    <2>7. Parse("fail", c) = Ok(n)
      <3>1. flat_keyed_to_hashmap(c, "fail") = Ok(n) BY <1>2, OneEntry
      <3> HIDE DEF c
      <3>2. QED BY <3>1 DEF Parse
    <2>8. Reported(r) = IF present THEN UnwrapOr(Ok(n), 0) ELSE UnwrapOr(Err, 0)
      BY <2>3, <2>6, <2>7 DEF Reported
    <2>9. ~present => n = 0 BY <1>1 DEF CountsOK, Fresh
    <2>10. UnwrapOr(Ok(n), 0) = n /\ UnwrapOr(Err, 0) = 0 BY DEF UnwrapOr, Ok, Err
    <2>11. QED BY <1>1, <2>8, <2>9, <2>10
  <1>4. CASE ~v2
    <2>1. r = Rd(<<k, "fail_cnt">>, <<k, "failcnt">>, "u64", 0) BY <1>4 DEF FailRead, Unified
    <2>2. r.as = "u64" /\ r.default = 0 /\ r.file = <<k, "failcnt">> BY <2>1 DEF Rd
    <2>3. "failcnt" \in DOMAIN CounterFiles(k) /\ CounterFiles(k)["failcnt"] = One(Num(n))
      BY <1>1, <1>4, FailText
    <2>4. "failcnt" \in DOMAIN FilesOf(k) /\ FilesOf(k)["failcnt"] = One(Num(n))
      BY <1>1, <1>4, <2>3, CounterFile
    <2>5. (Exists(r.file) <=> present) /\ Text(r.file) = One(Num(n)) BY <1>1, <2>2, <2>4 DEF Exists, Text
    <2>6. Reported(r) = IF present THEN UnwrapOr(Parse("u64", One(Num(n))), 0) ELSE UnwrapOr(Err, 0)
      BY <2>2, <2>5 DEF Reported
    <2>7. ~present => n = 0 BY <1>1 DEF CountsOK, Fresh
    <2> HIDE DEF n
    <2>8. n \in Int /\ n >= 0 BY <1>2
    <2>9. UnwrapOr(Parse("u64", One(Num(n))), 0) = n /\ UnwrapOr(Err, 0) = 0 BY <2>8, OneNumber
    <2>10. QED BY <1>1, <2>6, <2>7, <2>9 DEF n
  <1>5. QED BY <1>3, <1>4

\* The same for a size of huge pages.
LEMMA HugeReported ==
  ASSUME StateOK, CountsOK, NEW i \in DOMAIN Sizes
  PROVE  Reported(HugeFail(Sizes[i])) = kernel.counter["hugetlb"].fail
  <1> DEFINE n == kernel.counter["hugetlb"].fail
             z == Sizes[i]
             r == HugeFail(z)
             f == IF v2 THEN "events" ELSE "failcnt"
             c == IF v2 THEN <<Count("max", n)>> ELSE One(Num(n))
             a == IF v2 THEN "first" ELSE "u64"
  <1>1. \E j \in DOMAIN PageDirs : z = KernelSize(PageDirs[j]) BY SizesNamed
  <1>2. "hugetlb" \in Kinds BY DEF Kinds
  <1>3. n \in Nat BY <1>2 DEF StateOK, KernelOK, Counters
  <1>4. r.as = a /\ r.default = 0 /\ r.file = <<"hugetlb", f, z>> BY DEF HugeFail, Rd
  <1>5. f \in DOMAIN CounterFiles("hugetlb") /\ CounterFiles("hugetlb")[f] = c BY <1>2, FailText
  <1>6. f \in DOMAIN FilesOf("hugetlb") /\ FilesOf("hugetlb")[f] = c BY <1>2, <1>5, CounterFile
  <1> HIDE DEF z, r, f
  <1>7. (Exists(r.file) <=> present) /\ Text(r.file) = c BY <1>1, <1>4, <1>6 DEF Exists, Text
  <1>8. Reported(r) = IF present THEN UnwrapOr(Parse(a, c), 0) ELSE UnwrapOr(Err, 0)
    BY <1>4, <1>7 DEF Reported
  <1>9. ~present => n = 0 BY <1>2 DEF CountsOK, Fresh
  <1>10. Parse(a, c) = Ok(n)
    <2>1. CASE v2
      <3> DEFINE d == <<Count("max", n)>>
                 v == << <<"max", n>> >>
      <3>1. flat_keyed_to_vec(d) = Ok(v) BY <1>3, OneEntry
      <3>2. v # << >> /\ v[1][2] = n OBVIOUS
      <3> HIDE DEF d, v
      <3>3. Parse("first", d) = IF v = << >> THEN Err ELSE Ok(v[1][2]) BY <3>1 DEF Parse, Ok
      <3>4. QED BY <2>1, <3>2, <3>3 DEF d
    <2>2. CASE ~v2
      <3>1. IsSingle(One(Num(n))) /\ One(Num(n))[1][1] = Num(n) /\ IsU64(Num(n)) /\ Num(n)[2] = n
        BY <1>3 DEF IsSingle, One, Num, IsU64
      <3>2. QED BY <2>2, <3>1 DEF Parse, read_u64_from
    <2>3. QED BY <2>1, <2>2
  <1>11. UnwrapOr(Ok(n), 0) = n /\ UnwrapOr(Err, 0) = 0 BY DEF UnwrapOr, Ok, Err
  <1>12. QED BY <1>8, <1>9, <1>10, <1>11 DEF r, z

\* The parts of a joined sequence.
LEMMA JoinParts ==
  ASSUME NEW S, NEW s \in Seq(S), NEW t \in Seq(S)
  PROVE  /\ s \o t \in Seq(S) /\ Len(s \o t) = Len(s) + Len(t)
         /\ \A j \in 1 .. Len(s) : (s \o t)[j] = s[j]
         /\ \A j \in 1 .. Len(t) : (s \o t)[Len(s) + j] = t[j]
  OBVIOUS

\* The same for the faults of memory.stat.
LEMMA PgfaultReported ==
  ASSUME StateOK, CountsOK
  PROVE  Reported(PgfaultRead)["pgfault"] = kernel.stat["pgfault"]
  <1> DEFINE a == kernel.stat["pgfault"]
             b == kernel.stat["cache"]
             r == PgfaultRead
             c == IF v2 THEN <<Count("pgfault", a)>> ELSE <<Count("pgfault", a), Count("cache", b)>>
  <1>1. a \in Nat /\ b \in Nat BY DEF CountsOK, Names
  <1>2. r.as = "stat" /\ r.default = NoStat /\ r.file = <<"memory", "stat">> BY DEF PgfaultRead, Rd
  <1>3. StatText = c
    <2>1. CASE v2 BY <2>1 DEF StatText, Count
    <2>2. CASE ~v2
      <3> DEFINE l == Count("pgfault", a)
                 m == Count("cache", b)
      <3>1. StatText = <<l>> \o <<m>>
        <4>1. /\ l = <<Word("pgfault"), Num(kernel.stat.pgfault)>>
              /\ m = <<Word("cache"), Num(kernel.stat.cache)>>
          BY DEF Count
        <4> HIDE DEF l, m
        <4>2. QED BY <2>2, <4>1 DEF StatText
      <3>2. c = <<l, m>> BY <2>2
      <3>3. ASSUME NEW x, NEW y PROVE <<x>> \o <<y>> = <<x, y>>
        <4> DEFINE f == <<x>>
                   g == <<y>>
                   h == <<x, y>>
        <4>1. /\ f \in Seq({x, y}) /\ Len(f) = 1 /\ f[1] = x
              /\ g \in Seq({x, y}) /\ Len(g) = 1 /\ g[1] = y
              /\ h = [i \in 1 .. 2 |-> IF i = 1 THEN x ELSE y]
          OBVIOUS
        <4> HIDE DEF f, g, h
        <4>2. f \o g = [i \in 1 .. 2 |-> IF i = 1 THEN x ELSE y]
          <5> DEFINE k == f \o g
          <5>1. k \in Seq({x, y}) /\ Len(k) = Len(f) + Len(g) /\ k[1] = f[1] /\ k[Len(f) + 1] = g[1]
            <6> DEFINE V == {x, y}
            <6>1. f \in Seq(V) /\ g \in Seq(V) BY <4>1
            <6> HIDE DEF V
            <6>2. /\ f \o g \in Seq(V) /\ Len(f \o g) = Len(f) + Len(g)
                  /\ \A j \in 1 .. Len(f) : (f \o g)[j] = f[j]
                  /\ \A j \in 1 .. Len(g) : (f \o g)[Len(f) + j] = g[j]
              BY <6>1, JoinParts
            <6>3. QED BY <4>1, <6>2 DEF V
          <5> HIDE DEF k
          <5>6. Len(k) = 2 /\ k[1] = x /\ k[2] = y BY <4>1, <5>1
          <5>2. k = [i \in 1 .. 2 |-> k[i]]
            <6>1. k \in [1 .. Len(k) -> {x, y}] BY <5>1
            <6>2. k \in [1 .. 2 -> {x, y}] BY <5>6, <6>1
            <6>3. QED BY <6>2
          <5>3. \A i \in 1 .. 2 : k[i] = IF i = 1 THEN x ELSE y BY <5>6
          <5>4. k = [i \in 1 .. 2 |-> IF i = 1 THEN x ELSE y] BY <5>2, <5>3
          <5>5. QED BY <5>4 DEF k
        <4>3. QED BY <4>1, <4>2 DEF f, g, h
      <3> HIDE DEF l, m, c
      <3>4. QED BY <3>1, <3>2, <3>3
    <2>3. QED BY <2>1, <2>2
  <1>4. "stat" \in DOMAIN MemoryFiles BY DEF MemoryFiles
  <1>5. "stat" \notin DOMAIN CounterFiles("memory") BY CounterText DEF Kinds
  <1>6. MemoryFiles["stat"] = StatText BY <1>4, <1>5 DEF MemoryFiles
  <1>7. FilesOf("memory") = MemoryFiles BY DEF FilesOf
  <1>8. (Exists(r.file) <=> present) /\ Text(r.file) = c BY <1>2, <1>3, <1>4, <1>6, <1>7 DEF Exists, Text
  <1>9. Reported(r) = IF present THEN UnwrapOr(Parse("stat", c), NoStat) ELSE UnwrapOr(Err, NoStat)
    BY <1>2, <1>8 DEF Reported
  <1>10. ~present => a = 0 BY DEF CountsOK, Fresh, Names
  <1>11. NoStat["pgfault"] = 0 BY DEF NoStat, Names
  <1>12. PICK v : parse_memory_stat(c, Names) = Ok(v) /\ v["pgfault"] = a
    <2>1. CASE v2
      <3> DEFINE d == <<Count("pgfault", a)>>
                 v == [k \in Names |-> IF Word(k) = Word("pgfault") THEN a ELSE 0]
      <3>1. parse_memory_stat(d, Names) = Ok(v) BY <1>1, OneEntry
      <3>2. v["pgfault"] = a BY DEF Names
      <3> HIDE DEF v
      <3>3. QED BY <2>1, <3>1, <3>2
    <2>2. CASE ~v2
      <3> DEFINE d == <<Count("pgfault", a), Count("cache", b)>>
      <3> HIDE DEF a, b
      <3>1. \E v : parse_memory_stat(d, Names) = Ok(v) /\ v["pgfault"] = a BY <1>1, TwoEntries
      <3>2. QED BY <2>2, <3>1
    <2>3. QED BY <2>1, <2>2
  <1> HIDE DEF c
  <1>13. Parse("stat", c) = Ok(v) BY <1>12 DEF Parse
  <1>14. UnwrapOr(Ok(v), NoStat) = v /\ UnwrapOr(Err, NoStat) = NoStat BY DEF UnwrapOr, Ok, Err
  <1>15. QED BY <1>9, <1>10, <1>11, <1>12, <1>13, <1>14

\* The files of cpuacct.
LEMMA TimesReported ==
  ASSUME StateOK, CountsOK, ~v2
  PROVE  /\ FromTuples(Reported(TimesRead), "user") = kernel.ticks["user"]
         /\ FromTuples(Reported(TimesRead), "system") = kernel.ticks["system"]
         /\ "cpu" \notin upset => Reported(TotalRead) = kernel.ticks["user"] + kernel.ticks["system"]
  <1> DEFINE u == kernel.ticks["user"]
             s == kernel.ticks["system"]
             p == kernel.percpu["user"]
             q == kernel.percpu["system"]
             total == Sum(PerCpu(kernel))
             c == TimesLines(u, s)
             r == TimesRead
             t == TotalRead
  <1>1. u \in Nat /\ s \in Nat /\ p \in [1 .. Cpus -> Nat] /\ q \in [1 .. Cpus -> Nat] BY DEF CountsOK, Modes
  <1>2. /\ r.as = "text" /\ r.default = << >> /\ r.file = <<"cpuacct", "stat">>
        /\ t.as = "u64" /\ t.default = 0 /\ t.file = <<"cpuacct", "usage">>
    BY DEF TimesRead, TotalRead, Rd
  <1>3. FilesOf("cpuacct") = CpuFiles BY DEF FilesOf, Kinds
  <1>4. /\ "stat" \in DOMAIN CpuFiles /\ CpuFiles["stat"] = c
        /\ "usage" \in DOMAIN CpuFiles /\ CpuFiles["usage"] = One(Num(total))
    BY DEF CpuFiles, TimesLines, Count
  <1>5. /\ Exists(r.file) <=> present
        /\ Text(r.file) = c
        /\ Exists(t.file) <=> present
        /\ Text(t.file) = One(Num(total))
    BY <1>2, <1>3, <1>4 DEF Exists, Text
  <1>6. /\ PerCpu(kernel) \in [1 .. Cpus -> Nat]
        /\ \A i \in 1 .. Cpus : PerCpu(kernel)[i] = p[i] + q[i]
    <2>1. PerCpu(kernel) = [i \in 1 .. Cpus |-> p[i] + q[i]] BY DEF PerCpu
    <2> HIDE DEF p, q
    <2>2. QED BY <1>1, <2>1
  <1>7. total \in Nat /\ total = Sum(p) + Sum(q)
    <2> HIDE DEF p, q
    <2>1. QED BY <1>1, <1>6, SumType, SumAdd, CpusAssumption
  <1>8. "cpu" \notin upset => Sum(p) = u /\ Sum(q) = s BY DEF CountsOK, Modes
  <1>9. ~present => u = 0 /\ s = 0 BY DEF CountsOK, Fresh
  <1>10. Reported(r) = IF present THEN UnwrapOr(Parse("text", c), << >>) ELSE UnwrapOr(Err, << >>)
    BY <1>2, <1>5 DEF Reported
  <1>11. Reported(t) = IF present THEN UnwrapOr(Parse("u64", One(Num(total))), 0) ELSE UnwrapOr(Err, 0)
    BY <1>2, <1>5 DEF Reported
  <1>12. \A item : FromTuples(<< >>, item) = 0 BY TimesValues
  <1> HIDE DEF u, s, total
  <1>13. FromTuples(c, "user") = u /\ FromTuples(c, "system") = s BY <1>1, TimesValues
  <1> HIDE DEF c, r, t, p, q
  <1>14. UnwrapOr(Parse("text", c), << >>) = c /\ UnwrapOr(Err, << >>) = << >>
    <2>1. Parse("text", c) = Ok(c) BY DEF Parse
    <2>2. QED BY <2>1 DEF UnwrapOr, Ok, Err
  <1>15. total \in Int /\ total >= 0 BY <1>7
  <1>16. UnwrapOr(Parse("u64", One(Num(total))), 0) = total /\ UnwrapOr(Err, 0) = 0 BY <1>15, OneNumber
  <1>17. FromTuples(Reported(r), "user") = u /\ FromTuples(Reported(r), "system") = s
    BY <1>9, <1>10, <1>12, <1>13, <1>14
  <1>18. "cpu" \notin upset => Reported(t) = u + s
    <2>1. ~present /\ "cpu" \notin upset => Reported(t) = u + s BY <1>9, <1>11, <1>16
    <2>2. present /\ "cpu" \notin upset => Reported(t) = u + s BY <1>7, <1>8, <1>11, <1>16
    <2>3. QED BY <2>1, <2>2
  <1>19. QED BY <1>17, <1>18 DEF r, t, u, s

-----------------------------------------------------------------------------
(***************************************************************************)
(* The counts of the call: each lies between what the kernel had when the  *)
(* call began and what it has now.                                         *)
(***************************************************************************)

\* A value read lies between the two counts; nothing has been reset during the call.
Held(a, x, b) == x \in Nat /\ a <= x /\ x <= b
Intact(resets) == upset \intersect (resets \union {"gone"}) = {}

\* The kernel when the call began.
SinceOK ==
  /\ start.counter \in Counters /\ start.ticks \in [Modes -> Nat]
  /\ start.stat \in [Names -> Nat] /\ IoOK(start.io)
  /\ Intact({}) => /\ \A m \in Modes : start.ticks[m] <= kernel.ticks[m]
                   /\ \A n \in Names : start.stat[n] <= kernel.stat[n]
  /\ Intact({"fail"}) => \A k \in Kinds : start.counter[k].fail <= kernel.counter[k].fail
  /\ Intact({"io"}) => Growing(start.io, kernel.io)

\* The counts of failures, of faults, the times and the lists that the call has read.
FailsOK ==
  Intact({"fail"}) =>
    /\ \A k \in Tags : Counted(k) /\ <<k, "fail_cnt">> \in DOMAIN got =>
         Held(start.counter[k].fail, got[<<k, "fail_cnt">>], kernel.counter[k].fail)
    /\ \A i \in DOMAIN Sizes : <<"hugetlb", "fail_cnt", Sizes[i]>> \in DOMAIN got =>
         Held(start.counter["hugetlb"].fail, got[<<"hugetlb", "fail_cnt", Sizes[i]>>],
              kernel.counter["hugetlb"].fail)

FaultsOK ==
  Intact({}) /\ <<"again", "stat">> \in DOMAIN got =>
    Held(start.stat["pgfault"], got[<<"again", "stat">>]["pgfault"], kernel.stat["pgfault"])

Spent(m) == FromTuples(got[<<"cpuacct", "stat">>], m)
TimesOK ==
  Intact({"cpu"}) /\ ~v2 =>
    /\ <<"cpuacct", "stat">> \in DOMAIN got =>
         \A m \in Modes : Held(start.ticks[m], Spent(m), kernel.ticks[m])
    /\ <<"cpuacct", "usage">> \in DOMAIN got =>
         /\ <<"cpuacct", "stat">> \in DOMAIN got
         /\ Spent("user") + Spent("system") <= got[<<"cpuacct", "usage">>]

ServicesOK ==
  Intact({"io"}) /\ ~v2 /\ AllFit =>
    \A f \in ServiceFields : f \in DOMAIN got =>
      IF f[1] = "cfq" /\ ~cfq THEN got[f] = << >>
      ELSE IoOK(got[f]) /\ Growing(start.io, got[f]) /\ Growing(got[f], kernel.io)

\* The inductive invariant of the counts.
CountsInv == StatsInv /\ CountsOK /\ SinceOK /\ FailsOK /\ FaultsOK /\ TimesOK

\* A list has grown from itself.
LEMMA GrowingSelf ==
  ASSUME NEW a, IoOK(a)
  PROVE  Growing(a, a)
  <1>1. \A r \in Records, o \in IoOps : r.n[o] \in Nat BY DEF Records
  <1>2. \A i \in DOMAIN a, o \in IoOps : a[i].n[o] \in Nat BY <1>1 DEF IoOK
  <1>3. Len(a) \in Nat BY DEF IoOK
  <1>4. QED BY <1>2, <1>3 DEF Growing

\* The field that a step of the call gives a value to has that of its read.
LEMMA ReadExact ==
  ASSUME StateOK, CallOK, ReadFile
  PROVE  /\ UNCHANGED <<v2, cfq, kernel, present, start, upset>>
         /\ \A f \in DOMAIN got' : \/ f \in DOMAIN got /\ got'[f] = got[f]
                                   \/ /\ f = Reads[at].field /\ got'[f] = Reported(Reads[at])
                                      /\ f \notin DOMAIN got
         /\ DOMAIN got \subseteq DOMAIN got'
         /\ at \in DOMAIN Reads /\ Exact(Reads[at])
         /\ Reads[at].field \in DOMAIN got' \ DOMAIN got =>
              \A j \in DOMAIN Reads : j < at => Reads[j].field \in DOMAIN got
  <1>1. v2 \in BOOLEAN BY DEF StateOK
  <1>2. Exactly(Reads) BY <1>1, ReadsExact
  <1>3. \A i \in DOMAIN Reads : Exact(Reads[i])
    <2> DEFINE s == Reads
    <2>1. PICK S : s \in Seq(S) /\ \A r \in S : Exact(r) BY <1>2 DEF Exactly
    <2> HIDE DEF s
    <2>2. \A i \in DOMAIN s : Exact(s[i]) BY <2>1
    <2>3. QED BY <2>2 DEF s
  <1>4. QED BY <1>3, ReadStep

\* A reset, and a removal, is noted until the next call.
LEMMA WorldIntact ==
  ASSUME KernelOK, CountsOK, World, NEW R, Intact(R)'
  PROVE  Intact(R)
  <1>1. "gone" \notin upset' BY DEF Intact
  <1>2. upset \subseteq upset' BY <1>1, WorldUpset
  <1>3. QED BY <1>2 DEF Intact

\* A value held below a count stays held when the count climbs.
LEMMA HeldLonger ==
  ASSUME NEW a \in Nat, NEW x, NEW b \in Nat, NEW c \in Nat, b <= c, Held(a, x, b)
  PROVE  Held(a, x, c)
  BY DEF Held

\* The counts that the bounds compare are numbers.
LEMMA CountTypes ==
  ASSUME CountsInv
  PROVE  /\ \A k \in Kinds : start.counter[k].fail \in Nat /\ kernel.counter[k].fail \in Nat
         /\ \A n \in Names : start.stat[n] \in Nat /\ kernel.stat[n] \in Nat
         /\ \A m \in Modes : start.ticks[m] \in Nat /\ kernel.ticks[m] \in Nat
  <1>1. start.counter \in Counters /\ kernel.counter \in Counters
    BY DEF CountsInv, StatsInv, StateOK, KernelOK, SinceOK
  <1>2. \A k \in Kinds : start.counter[k].fail \in Nat /\ kernel.counter[k].fail \in Nat
    BY <1>1 DEF Counters
  <1>3. start.stat \in [Names -> Nat] /\ kernel.stat \in [Names -> Nat]
        /\ start.ticks \in [Modes -> Nat] /\ kernel.ticks \in [Modes -> Nat]
    BY DEF CountsInv, SinceOK, CountsOK
  <1>4. QED BY <1>2, <1>3

\* Reading a file keeps the bounds of the failures.
LEMMA FailsRead ==
  ASSUME CountsInv, ReadFile
  PROVE  FailsOK'
  <1>1. /\ UNCHANGED <<v2, kernel, start, upset>>
        /\ \A f \in DOMAIN got' : \/ f \in DOMAIN got /\ got'[f] = got[f]
                                  \/ f = Reads[at].field /\ got'[f] = Reported(Reads[at])
        /\ Exact(Reads[at])
    BY ReadExact DEF CountsInv, StatsInv
  <1>2. SUFFICES ASSUME Intact({"fail"})
        PROVE  /\ \A k \in Tags : Counted(k) /\ <<k, "fail_cnt">> \in DOMAIN got' =>
                    Held(start.counter[k].fail, got'[<<k, "fail_cnt">>], kernel.counter[k].fail)
               /\ \A i \in DOMAIN Sizes : <<"hugetlb", "fail_cnt", Sizes[i]>> \in DOMAIN got' =>
                    Held(start.counter["hugetlb"].fail, got'[<<"hugetlb", "fail_cnt", Sizes[i]>>],
                         kernel.counter["hugetlb"].fail)
    BY <1>1 DEF FailsOK, Intact, Counted
  <1>3. \A k \in Kinds : start.counter[k].fail \in Nat /\ kernel.counter[k].fail \in Nat BY CountTypes
  <1>4. \A k \in Kinds : start.counter[k].fail <= kernel.counter[k].fail BY <1>2 DEF CountsInv, SinceOK
  <1>5. ASSUME NEW k \in Kinds
        PROVE  Held(start.counter[k].fail, kernel.counter[k].fail, kernel.counter[k].fail)
    BY <1>3, <1>4 DEF Held
  <1>6. ASSUME NEW k \in Tags, Counted(k), <<k, "fail_cnt">> \in DOMAIN got'
        PROVE  Held(start.counter[k].fail, got'[<<k, "fail_cnt">>], kernel.counter[k].fail)
    <2> DEFINE f == <<k, "fail_cnt">>
    <2>1. CASE f \in DOMAIN got /\ got'[f] = got[f] BY <1>2, <1>6, <2>1 DEF CountsInv, FailsOK
    <2>2. CASE f = Reads[at].field /\ got'[f] = Reported(Reads[at])
      <3>1. Reads[at] = FailRead(k) BY <1>1, <2>2 DEF Exact
      <3>2. k \in Kinds /\ got'[f] = kernel.counter[k].fail
        BY <1>6, <2>2, <3>1, FailReported DEF CountsInv, StatsInv
      <3>3. QED BY <1>5, <3>2
    <2>3. QED BY <1>1, <1>6, <2>1, <2>2
  <1>7. ASSUME NEW i \in DOMAIN Sizes, <<"hugetlb", "fail_cnt", Sizes[i]>> \in DOMAIN got'
        PROVE  Held(start.counter["hugetlb"].fail, got'[<<"hugetlb", "fail_cnt", Sizes[i]>>],
                    kernel.counter["hugetlb"].fail)
    <2> DEFINE f == <<"hugetlb", "fail_cnt", Sizes[i]>>
    <2>1. CASE f \in DOMAIN got /\ got'[f] = got[f] BY <1>2, <2>1 DEF CountsInv, FailsOK
    <2>2. CASE f = Reads[at].field /\ got'[f] = Reported(Reads[at])
      <3>1. Reads[at] = HugeFail(Sizes[i]) BY <1>1, <2>2 DEF Exact
      <3>2. got'[f] = kernel.counter["hugetlb"].fail
        BY <2>2, <3>1, HugeReported DEF CountsInv, StatsInv
      <3>3. "hugetlb" \in Kinds BY DEF Kinds
      <3>4. QED BY <1>5, <3>2, <3>3
    <2>3. QED BY <1>1, <1>7, <2>1, <2>2
  <1>8. QED BY <1>6, <1>7

\* Reading a file keeps the bounds of the faults.
LEMMA FaultsRead ==
  ASSUME CountsInv, ReadFile
  PROVE  FaultsOK'
  <1> DEFINE f == <<"again", "stat">>
  <1>1. /\ UNCHANGED <<v2, kernel, start, upset>>
        /\ \A g \in DOMAIN got' : \/ g \in DOMAIN got /\ got'[g] = got[g]
                                  \/ g = Reads[at].field /\ got'[g] = Reported(Reads[at])
        /\ Exact(Reads[at])
    BY ReadExact DEF CountsInv, StatsInv
  <1>2. SUFFICES ASSUME Intact({}), f \in DOMAIN got'
        PROVE  Held(start.stat["pgfault"], got'[f]["pgfault"], kernel.stat["pgfault"])
    BY <1>1 DEF FaultsOK, Intact
  <1>3. CASE f \in DOMAIN got /\ got'[f] = got[f] BY <1>2, <1>3 DEF CountsInv, FaultsOK
  <1>4. CASE f = Reads[at].field /\ got'[f] = Reported(Reads[at])
    <2>1. Reads[at] = PgfaultRead BY <1>1, <1>4 DEF Exact
    <2>2. got'[f]["pgfault"] = kernel.stat["pgfault"]
      BY <1>4, <2>1, PgfaultReported DEF CountsInv, StatsInv
    <2>3. "pgfault" \in Names BY DEF Names
    <2>4. start.stat["pgfault"] <= kernel.stat["pgfault"] BY <1>2, <2>3 DEF CountsInv, SinceOK
    <2>5. QED BY <2>2, <2>3, <2>4, CountTypes DEF Held
  <1>5. QED BY <1>1, <1>2, <1>3, <1>4

\* Reading a file keeps the bounds of the times: the usage is read after the times it covers.
LEMMA TimesGot ==
  ASSUME CountsInv, ReadFile
  PROVE  TimesOK'
  <1> DEFINE f == <<"cpuacct", "stat">>
             g == <<"cpuacct", "usage">>
             spent(m) == FromTuples(got'[f], m)
  <1>1. /\ UNCHANGED <<v2, kernel, start, upset>>
        /\ \A h \in DOMAIN got' : \/ h \in DOMAIN got /\ got'[h] = got[h]
                                  \/ /\ h = Reads[at].field /\ got'[h] = Reported(Reads[at])
                                     /\ h \notin DOMAIN got
        /\ DOMAIN got \subseteq DOMAIN got'
        /\ at \in DOMAIN Reads /\ Exact(Reads[at])
        /\ Reads[at].field \in DOMAIN got' \ DOMAIN got =>
             \A j \in DOMAIN Reads : j < at => Reads[j].field \in DOMAIN got
    BY ReadExact DEF CountsInv, StatsInv
  <1>2. SUFFICES ASSUME Intact({"cpu"}), ~v2
        PROVE  /\ f \in DOMAIN got' => \A m \in Modes : Held(start.ticks[m], spent(m), kernel.ticks[m])
               /\ g \in DOMAIN got' => f \in DOMAIN got' /\ spent("user") + spent("system") <= got'[g]
    <2>1. \A m : Spent(m)' = spent(m) BY DEF Spent, FromTuples
    <2>2. QED BY <1>1, <2>1 DEF TimesOK, Intact
  <1>3. /\ StateOK /\ CountsOK /\ "cpu" \notin upset BY <1>2 DEF CountsInv, StatsInv, Intact
  <1>4. \A m \in Modes : start.ticks[m] <= kernel.ticks[m] BY <1>2 DEF CountsInv, SinceOK, Intact
  <1>5. \A m \in Modes : start.ticks[m] \in Nat /\ kernel.ticks[m] \in Nat BY CountTypes
  <1>6. f \in DOMAIN got => \A m \in Modes : Held(start.ticks[m], Spent(m), kernel.ticks[m])
    BY <1>2 DEF CountsInv, TimesOK
  <1>7. g \in DOMAIN got => f \in DOMAIN got /\ Spent("user") + Spent("system") <= got[g]
    BY <1>2 DEF CountsInv, TimesOK
  <1>8. f \in DOMAIN got => \A m : spent(m) = Spent(m) BY <1>1 DEF Spent
  <1>9. ASSUME f \in DOMAIN got', NEW m \in Modes PROVE Held(start.ticks[m], spent(m), kernel.ticks[m])
    <2>1. CASE f \in DOMAIN got BY <1>6, <1>8, <2>1
    <2>2. CASE f \notin DOMAIN got
      <3>1. f = Reads[at].field /\ got'[f] = Reported(Reads[at]) BY <1>1, <1>9, <2>2
      <3>2. Reads[at] = TimesRead BY <1>1, <3>1 DEF Exact
      <3>3. spent("user") = kernel.ticks["user"] /\ spent("system") = kernel.ticks["system"]
        BY <1>2, <1>3, <3>1, <3>2, TimesReported
      <3>4. spent(m) = kernel.ticks[m] BY <3>3 DEF Modes
      <3>5. QED BY <1>4, <1>5, <3>4 DEF Held
    <2>3. QED BY <2>1, <2>2
  <1>10. ASSUME g \in DOMAIN got' PROVE f \in DOMAIN got' /\ spent("user") + spent("system") <= got'[g]
    <2>1. CASE g \in DOMAIN got /\ got'[g] = got[g] BY <1>1, <1>7, <1>8, <2>1
    <2>2. CASE g = Reads[at].field /\ got'[g] = Reported(Reads[at]) /\ g \notin DOMAIN got
      <3>1. Reads[at] = TotalRead BY <1>1, <2>2 DEF Exact
      <3>2. got'[g] = kernel.ticks["user"] + kernel.ticks["system"]
        BY <1>2, <1>3, <2>2, <3>1, TimesReported
      <3>3. f \in DOMAIN got
        <4>1. Reads[1] = TimesRead BY <1>2, <1>3, ReadsExact DEF StateOK
        <4>2. Reads[1].field = f BY <4>1, CountReads
        <4>3. DOMAIN Reads = 1 .. Len(Reads) /\ Len(Reads) \in Nat BY <1>3, ReadsList DEF StateOK
        <4>4. at \in Nat /\ at >= 1 /\ 1 \in DOMAIN Reads BY <1>1, <4>3
        <4>5. at # 1 BY <2>2, <4>2
        <4>6. 1 < at BY <4>4, <4>5
        <4>7. QED BY <1>1, <1>10, <2>2, <4>2, <4>4, <4>6
      <3>4. \A m \in Modes : Held(start.ticks[m], spent(m), kernel.ticks[m]) BY <1>1, <1>9, <3>3
      <3> DEFINE u == spent("user")
                 s == spent("system")
                 uu == kernel.ticks["user"]
                 ss == kernel.ticks["system"]
      <3>5. u \in Nat /\ s \in Nat /\ uu \in Nat /\ ss \in Nat /\ u <= uu /\ s <= ss
        <4>1. "user" \in Modes /\ "system" \in Modes BY DEF Modes
        <4>2. QED BY <1>5, <3>4, <4>1 DEF Held
      <3> HIDE DEF u, s, uu, ss
      <3>6. u + s <= uu + ss BY <3>5
      <3>7. QED BY <1>1, <3>2, <3>3, <3>6 DEF u, s, uu, ss
    <2>3. QED BY <1>1, <1>10, <2>1, <2>2
  <1>11. QED BY <1>9, <1>10

\* A move of the kernel keeps what is known of the beginning of the call.
LEMMA SinceWorld ==
  ASSUME CountsInv, World
  PROVE  SinceOK'
  <1>1. StateOK /\ KernelOK /\ CountsOK /\ CountsOK' /\ Climb
    BY CountsStep DEF CountsInv, StatsInv, StateOK
  <1>2. start' = start /\ StateOK' BY WorldFrame DEF CountsInv, StatsInv
  <1>3. \A R : Intact(R)' => Intact(R) BY <1>1, WorldIntact
  <1>4. /\ \A k \in Kinds : start.counter[k].fail \in Nat /\ kernel.counter[k].fail \in Nat
        /\ \A n \in Names : start.stat[n] \in Nat /\ kernel.stat[n] \in Nat
        /\ \A m \in Modes : start.ticks[m] \in Nat /\ kernel.ticks[m] \in Nat
    BY CountTypes
  <1>5. ASSUME Intact({})' PROVE \A m \in Modes : start.ticks[m] <= kernel'.ticks[m]
    <2>1. \A m \in Modes : start.ticks[m] <= kernel.ticks[m] BY <1>3, <1>5 DEF CountsInv, SinceOK
    <2>2. \A m \in Modes : kernel.ticks[m] <= kernel'.ticks[m] BY <1>1, <1>5 DEF Climb, Intact
    <2>3. \A m \in Modes : kernel'.ticks[m] \in Nat BY <1>1 DEF CountsOK
    <2>4. QED BY <1>4, <2>1, <2>2, <2>3
  <1>6. ASSUME Intact({})' PROVE \A n \in Names : start.stat[n] <= kernel'.stat[n]
    <2>1. \A n \in Names : start.stat[n] <= kernel.stat[n] BY <1>3, <1>6 DEF CountsInv, SinceOK
    <2>2. \A n \in Names : kernel.stat[n] <= kernel'.stat[n] BY <1>1, <1>6 DEF Climb, Intact
    <2>3. \A n \in Names : kernel'.stat[n] \in Nat BY <1>1 DEF CountsOK
    <2>4. QED BY <1>4, <2>1, <2>2, <2>3
  <1>7. ASSUME Intact({"fail"})', NEW k \in Kinds PROVE start.counter[k].fail <= kernel'.counter[k].fail
    <2>1. start.counter[k].fail <= kernel.counter[k].fail BY <1>3, <1>7 DEF CountsInv, SinceOK
    <2>2. kernel.counter[k].fail <= kernel'.counter[k].fail BY <1>1, <1>7 DEF Climb, Intact
    <2>3. kernel'.counter[k].fail \in Nat BY <1>2 DEF StateOK, KernelOK, Counters
    <2>4. QED BY <1>4, <2>1, <2>2, <2>3
  <1>8. ASSUME Intact({"io"})' PROVE Growing(start.io, kernel'.io)
    <2>1. Growing(start.io, kernel.io) BY <1>3, <1>8 DEF CountsInv, SinceOK
    <2>2. Growing(kernel.io, kernel'.io) BY <1>1, <1>8 DEF Climb, Intact
    <2>3. IoOK(start.io) /\ IoOK(kernel.io) /\ IoOK(kernel'.io)
      BY <1>1 DEF CountsInv, SinceOK, CountsOK, IoOK
    <2>4. QED BY <2>1, <2>2, <2>3, GrowingSteps
  <1>9. /\ start'.counter \in Counters /\ start'.ticks \in [Modes -> Nat]
        /\ start'.stat \in [Names -> Nat] /\ IoOK(start'.io)
    BY <1>2 DEF CountsInv, SinceOK
  <1>10. /\ Intact({})' => /\ \A m \in Modes : start'.ticks[m] <= kernel'.ticks[m]
                           /\ \A n \in Names : start'.stat[n] <= kernel'.stat[n]
         /\ Intact({"fail"})' => \A k \in Kinds : start'.counter[k].fail <= kernel'.counter[k].fail
         /\ Intact({"io"})' => Growing(start'.io, kernel'.io)
    BY <1>2, <1>5, <1>6, <1>7, <1>8
  <1>11. QED BY <1>9, <1>10 DEF SinceOK, IoOK, Growing

\* A move of the kernel keeps the invariant.
LEMMA CountsWorld ==
  ASSUME CountsInv, World
  PROVE  CountsInv'
  <1>1. StateOK /\ KernelOK /\ CountsOK /\ CountsOK' /\ Climb /\ SinceOK'
    BY CountsStep, SinceWorld DEF CountsInv, StatsInv, StateOK
  <1>2. UNCHANGED <<v2, cfq, got, start>> /\ StateOK' BY WorldFrame DEF CountsInv, StatsInv
  <1>3. \A R : Intact(R)' => Intact(R) BY <1>1, WorldIntact
  <1>4. /\ \A k \in Kinds : start.counter[k].fail \in Nat /\ kernel.counter[k].fail \in Nat
        /\ \A n \in Names : start.stat[n] \in Nat /\ kernel.stat[n] \in Nat
        /\ \A m \in Modes : start.ticks[m] \in Nat /\ kernel.ticks[m] \in Nat
    BY CountTypes
  <1>5. FailsOK'
    <2> SUFFICES ASSUME Intact({"fail"})'
        PROVE  /\ \A k \in Tags : Counted(k) /\ <<k, "fail_cnt">> \in DOMAIN got =>
                    Held(start.counter[k].fail, got[<<k, "fail_cnt">>], kernel'.counter[k].fail)
               /\ \A i \in DOMAIN Sizes : <<"hugetlb", "fail_cnt", Sizes[i]>> \in DOMAIN got =>
                    Held(start.counter["hugetlb"].fail, got[<<"hugetlb", "fail_cnt", Sizes[i]>>],
                         kernel'.counter["hugetlb"].fail)
      BY <1>2 DEF FailsOK, Counted
    <2>1. Intact({"fail"}) BY <1>3
    <2>2. ASSUME NEW k \in Kinds, NEW x, Held(start.counter[k].fail, x, kernel.counter[k].fail)
          PROVE  Held(start.counter[k].fail, x, kernel'.counter[k].fail)
      <3>1. kernel.counter[k].fail <= kernel'.counter[k].fail BY <1>1 DEF Climb, Intact
      <3>2. kernel'.counter[k].fail \in Nat BY <1>2 DEF StateOK, KernelOK, Counters
      <3>3. QED BY <1>4, <2>2, <3>1, <3>2, HeldLonger
    <2>3. "hugetlb" \in Kinds /\ Tags \subseteq Kinds BY DEF Kinds, Tags
    <2>4. QED BY <2>1, <2>2, <2>3 DEF CountsInv, FailsOK
  <1>6. FaultsOK'
    <2> DEFINE f == <<"again", "stat">>
    <2> SUFFICES ASSUME Intact({})', f \in DOMAIN got
                 PROVE  Held(start.stat["pgfault"], got[f]["pgfault"], kernel'.stat["pgfault"])
      BY <1>2 DEF FaultsOK
    <2>1. Held(start.stat["pgfault"], got[f]["pgfault"], kernel.stat["pgfault"])
      BY <1>3 DEF CountsInv, FaultsOK
    <2>2. "pgfault" \in Names BY DEF Names
    <2>3. kernel.stat["pgfault"] <= kernel'.stat["pgfault"] /\ kernel'.stat["pgfault"] \in Nat
      BY <1>1, <2>2 DEF Climb, Intact, CountsOK
    <2>4. QED BY <1>4, <2>1, <2>2, <2>3, HeldLonger
  <1>7. TimesOK'
    <2> DEFINE f == <<"cpuacct", "stat">>
               g == <<"cpuacct", "usage">>
    <2>1. \A m : Spent(m)' = Spent(m) BY <1>2 DEF Spent, FromTuples
    <2> SUFFICES ASSUME Intact({"cpu"})', ~v2
        PROVE  /\ f \in DOMAIN got => \A m \in Modes : Held(start.ticks[m], Spent(m), kernel'.ticks[m])
               /\ g \in DOMAIN got => f \in DOMAIN got /\ Spent("user") + Spent("system") <= got[g]
      BY <1>2, <2>1 DEF TimesOK
    <2>2. Intact({"cpu"}) BY <1>3
    <2>3. /\ f \in DOMAIN got => \A m \in Modes : Held(start.ticks[m], Spent(m), kernel.ticks[m])
          /\ g \in DOMAIN got => f \in DOMAIN got /\ Spent("user") + Spent("system") <= got[g]
      BY <2>2 DEF CountsInv, TimesOK
    <2>4. ASSUME NEW m \in Modes, Held(start.ticks[m], Spent(m), kernel.ticks[m])
          PROVE  Held(start.ticks[m], Spent(m), kernel'.ticks[m])
      <3>1. kernel.ticks[m] <= kernel'.ticks[m] BY <1>1 DEF Climb, Intact
      <3>2. kernel'.ticks[m] \in Nat BY <1>1 DEF CountsOK
      <3>3. QED BY <1>4, <2>4, <3>1, <3>2, HeldLonger
    <2>5. QED BY <2>3, <2>4
  <1>8. StatsInv' BY WorldStep DEF CountsInv
  <1>9. QED BY <1>1, <1>5, <1>6, <1>7, <1>8 DEF CountsInv

\* A new call begins with what the kernel has now.
LEMMA CountsBegin ==
  ASSUME CountsInv, Begin
  PROVE  CountsInv'
  <1>1. /\ UNCHANGED <<v2, cfq, kernel, present>> /\ got' = << >> /\ start' = kernel
        /\ upset' = upset \intersect {"cpu"}
    BY DEF Begin
  <1>2. DOMAIN got' = {} BY <1>1
  <1>3. CountsOK' BY <1>1 DEF CountsInv, CountsOK, IoOK
  <1>4. SinceOK'
    <2>1. /\ kernel.counter \in Counters /\ kernel.ticks \in [Modes -> Nat]
          /\ kernel.stat \in [Names -> Nat] /\ IoOK(kernel.io)
      BY DEF CountsInv, StatsInv, StateOK, KernelOK, CountsOK
    <2>2. /\ \A m \in Modes : kernel.ticks[m] <= kernel.ticks[m]
          /\ \A n \in Names : kernel.stat[n] <= kernel.stat[n]
          /\ \A k \in Kinds : kernel.counter[k].fail <= kernel.counter[k].fail
      BY CountTypes
    <2>3. Growing(kernel.io, kernel.io) BY <2>1, GrowingSelf
    <2>4. QED BY <1>1, <2>1, <2>2, <2>3 DEF SinceOK, IoOK, Growing
  <1>5. FailsOK' /\ FaultsOK' /\ TimesOK' BY <1>2 DEF FailsOK, FaultsOK, TimesOK
  <1>6. StatsInv' BY BeginStep DEF CountsInv
  <1>7. QED BY <1>3, <1>4, <1>5, <1>6 DEF CountsInv

\* The invariant holds at first.
LEMMA CountsInit == Init => CountsInv
  <1> SUFFICES ASSUME Init PROVE CountsInv OBVIOUS
  <1>1. kernel = Fresh /\ got = << >> /\ start = Fresh /\ present = TRUE BY DEF Init
  <1>2. DOMAIN got = {} BY <1>1
  <1>3. CountsOK BY <1>1, FreshCounts DEF CountsOK
  <1>4. SinceOK
    <2>1. Fresh.counter \in Counters BY FreshOK
    <2>2. \A k \in Kinds : Fresh.counter[k].fail = 0 BY DEF Fresh
    <2>3. \A m \in Modes : Fresh.ticks[m] = 0 BY DEF Fresh, Modes
    <2>4. \A n \in Names : Fresh.stat[n] = 0 BY DEF Fresh
    <2>5. Growing(Fresh.io, Fresh.io) BY FreshCounts, GrowingSelf
    <2>6. QED BY <1>1, <2>1, <2>2, <2>3, <2>4, <2>5, FreshCounts DEF SinceOK
  <1>5. FailsOK /\ FaultsOK /\ TimesOK BY <1>2 DEF FailsOK, FaultsOK, TimesOK
  <1>6. QED BY <1>3, <1>4, <1>5, InitOK DEF CountsInv

\* Every step keeps the invariant.
LEMMA CountsNext == CountsInv /\ [Next]_vars => CountsInv'
  <1> SUFFICES ASSUME CountsInv, [Next]_vars PROVE CountsInv' OBVIOUS
  <1>1. CASE Begin BY <1>1, CountsBegin
  <1>2. CASE ReadFile
    <2>1. UNCHANGED <<v2, kernel, present, start, upset>>
      BY <1>2, ReadExact DEF CountsInv, StatsInv
    <2>2. CountsOK' /\ SinceOK'
      BY <2>1 DEF CountsInv, CountsOK, SinceOK, Intact, IoOK, Growing
    <2>3. StatsInv' BY StepOK DEF CountsInv
    <2>4. QED BY <1>2, <2>2, <2>3, FailsRead, FaultsRead, TimesGot DEF CountsInv
  <1>3. CASE World BY <1>3, CountsWorld
  <1>4. CASE UNCHANGED vars
    <2>1. UNCHANGED <<v2, cfq, kernel, present, got, start, upset>> BY <1>4 DEF vars
    <2>2. CountsOK' /\ SinceOK'
      BY <2>1 DEF CountsInv, CountsOK, SinceOK, Intact, IoOK, Growing
    <2>3. StatsInv' BY StepOK DEF CountsInv
    <2>4. FailsOK' /\ FaultsOK' BY <2>1 DEF CountsInv, FailsOK, FaultsOK, Intact, Counted
    <2>5. TimesOK' BY <2>1 DEF CountsInv, TimesOK, Intact, Spent, FromTuples
    <2>6. QED BY <2>2, <2>3, <2>4, <2>5 DEF CountsInv
  <1>5. QED BY <1>1, <1>2, <1>3, <1>4 DEF Next, World

\* So it is one.
LEMMA CountsInvariant == Spec => []CountsInv
  <1>1. QED BY CountsInit, CountsNext, PTL DEF Spec

\* A call that is done has a value for each count.
LEMMA AllCounted ==
  ASSUME StatsInv, status = "done"
  PROVE  /\ \A f \in Needed : f \in DOMAIN got
         /\ \A i \in DOMAIN Sizes : <<"hugetlb", "fail_cnt", Sizes[i]>> \in DOMAIN got
  <1>1. /\ DOMAIN Reads = 1 .. Len(Reads) /\ Len(Reads) \in Nat
        /\ \A f \in Needed : Has(Reads, f)
        /\ \A i \in DOMAIN Sizes : Has(Reads, <<"hugetlb", "fail_cnt", Sizes[i]>>)
    BY ReadsList, ReadsExact DEF StatsInv, StateOK
  <1>2. \A f : Has(Reads, f) => f \in DOMAIN got
    <2>1. at = Len(Reads) + 1 /\ DOMAIN got = {Reads[i].field : i \in 1 .. at - 1}
      BY DEF StatsInv, CallOK
    <2>2. at - 1 = Len(Reads) BY <1>1, <2>1
    <2>3. QED BY <1>1, <2>1, <2>2 DEF Has
  <1>3. QED BY <1>1, <1>2

\* memory_swap_stats, memory_stats, the kernel memory, huge_tlb_cgroup_stats and
\* memory.stat: every count of failures and the page faults a call reports are
\* between those of the kernel when the call began and those it has when the
\* call is done, unless a counter was reset or the cgroup was removed meanwhile.
THEOREM FailuresCorrect == Spec => []FailuresBracketed
  <1>1. CountsInv => FailuresBracketed
    <2> DEFINE In(k, x) == Between(start.counter[k].fail, x, kernel.counter[k].fail)
    <2> SUFFICES ASSUME CountsInv, status = "done", Intact({"fail"})
                 PROVE  /\ In("memsw", CounterStats("memsw").fail_cnt)
                        /\ \A z \in DOMAIN huge_tlb_cgroup_stats :
                             In("hugetlb", huge_tlb_cgroup_stats[z].fail_cnt)
                        /\ ~v2 => /\ In("memory", memory_stats.fail_cnt)
                                  /\ In("kmem", CounterStats("kmem").fail_cnt)
                        /\ Between(start.stat["pgfault"], memory_cgroup_stats.stat["pgfault"],
                                   kernel.stat["pgfault"])
      BY DEF FailuresBracketed, Complete, Intact
    <2>1. \A a, x, b : Held(a, x, b) => Between(a, x, b) BY DEF Held, Between
    <2>2. /\ \A f \in Needed : f \in DOMAIN got
          /\ \A i \in DOMAIN Sizes : <<"hugetlb", "fail_cnt", Sizes[i]>> \in DOMAIN got
      BY AllCounted DEF CountsInv
    <2>3. ASSUME NEW k, Counted(k) PROVE In(k, got[<<k, "fail_cnt">>])
      <3>1. k \in Tags /\ <<k, "fail_cnt">> \in DOMAIN got BY <2>2, <2>3 DEF Counted, Needed, Tags
      <3>2. QED BY <2>1, <2>3, <3>1 DEF CountsInv, FailsOK
    <2>4. Counted("memsw") /\ (~v2 => Counted("memory") /\ Counted("kmem")) BY DEF Counted, Tags
    <2>5. /\ \A k : CounterStats(k).fail_cnt = got[<<k, "fail_cnt">>]
          /\ ~v2 => memory_stats.fail_cnt = got[<<"memory", "fail_cnt">>]
      BY DEF CounterStats, memory_stats
    <2>6. ASSUME NEW z \in DOMAIN huge_tlb_cgroup_stats
          PROVE  In("hugetlb", huge_tlb_cgroup_stats[z].fail_cnt)
      <3>1. PICK i \in DOMAIN Sizes : z = Sizes[i] BY DEF huge_tlb_cgroup_stats
      <3>2. huge_tlb_cgroup_stats[z].fail_cnt = got[<<"hugetlb", "fail_cnt", z>>]
        BY DEF huge_tlb_cgroup_stats
      <3>3. QED BY <2>1, <2>2, <3>1, <3>2 DEF CountsInv, FailsOK
    <2>7. Between(start.stat["pgfault"], memory_cgroup_stats.stat["pgfault"], kernel.stat["pgfault"])
      <3>1. <<"again", "stat">> \in DOMAIN got BY <2>2 DEF Needed
      <3>2. memory_cgroup_stats.stat = got[<<"again", "stat">>] BY DEF memory_cgroup_stats
      <3>3. Intact({}) BY DEF Intact
      <3>4. QED BY <2>1, <3>1, <3>2, <3>3 DEF CountsInv, FaultsOK
    <2>8. QED BY <2>3, <2>4, <2>5, <2>6, <2>7
  <1>2. QED BY <1>1, CountsInvariant, PTL

\* cpu_acct_stats: the user and the system time a call reports are together at
\* most the total it reports, and each lies between what the kernel had when
\* the call began and when it is done, because cpuacct.stat is read before
\* cpuacct.usage and neither falls, unless cpuacct.usage was ever reset. Ticks and
\* ns are one unit of time in Statistics: the theorem is about the order of the reads.
THEOREM CpuTimesCorrect == Spec => []CpuTimesWithinTotal
  <1>1. CountsInv => CpuTimesWithinTotal
    <2> SUFFICES ASSUME CountsInv, status = "done", Intact({"cpu"}), ~v2
                 PROVE  /\ cpu_acct_stats.user_usage + cpu_acct_stats.system_usage <= cpu_acct_stats.total_usage
                        /\ Between(start.ticks.user, cpu_acct_stats.user_usage, kernel.ticks.user)
                        /\ Between(start.ticks.system, cpu_acct_stats.system_usage, kernel.ticks.system)
      BY DEF CpuTimesWithinTotal, Complete, Intact
    <2>1. <<"cpuacct", "stat">> \in DOMAIN got /\ <<"cpuacct", "usage">> \in DOMAIN got
      BY AllCounted DEF CountsInv, Needed
    <2>2. /\ cpu_acct_stats.user_usage = Spent("user") /\ cpu_acct_stats.system_usage = Spent("system")
          /\ cpu_acct_stats.total_usage = got[<<"cpuacct", "usage">>]
      BY DEF cpu_acct_stats, Spent
    <2>3. /\ \A m \in Modes : Held(start.ticks[m], Spent(m), kernel.ticks[m])
          /\ Spent("user") + Spent("system") <= got[<<"cpuacct", "usage">>]
      BY <2>1 DEF CountsInv, TimesOK
    <2>4. \A a, x, b : Held(a, x, b) => Between(a, x, b) BY DEF Held, Between
    <2>5. "user" \in Modes /\ "system" \in Modes BY DEF Modes
    <2>6. QED BY <2>2, <2>3, <2>4, <2>5
  <1>2. QED BY <1>1, CountsInvariant, PTL

-----------------------------------------------------------------------------
(***************************************************************************)
(* The lists of blkio: parse_io_service returns the records the kernel     *)
(* wrote, six lines for each.                                              *)
(***************************************************************************)

\* A list of n parts of length k, flattened.
Flattened(f, ss, k, n, S) ==
  /\ f \in Seq(S) /\ Len(f) = k * n
  /\ \A i \in 1 .. n, j \in 1 .. k : k * (i - 1) + j \in 1 .. k * n /\ f[k * (i - 1) + j] = ss[i][j]

\* Line k * (i - 1) + j of texts of k lines each, joined, is line j of text i.
LEMMA Blocks ==
  ASSUME NEW k \in {2, 5, 6}, NEW n \in Nat, NEW S, NEW ss \in [1 .. n -> Seq(S)],
         \A i \in 1 .. n : Len(ss[i]) = k
  PROVE  Flattened(FlattenSeq(ss), ss, k, n, S)
  <1>1. ASSUME NEW i \in Nat \ {0}, NEW m \in Nat \ {0}, m <= i, NEW j \in 1 .. k
        PROVE  /\ k * (m - 1) + j \in 1 .. k * i /\ k * i = k * (i - 1) + k
               /\ m # i => k * (m - 1) + j \in 1 .. k * (i - 1)
    <2>1. CASE k = 5 BY <1>1, <2>1
    <2>2. CASE k = 6 BY <1>1, <2>2
    <2>3. CASE k = 2 BY <1>1, <2>3
    <2>4. QED BY <2>1, <2>2, <2>3
  <1>2. Len(ss) = n /\ ss \in Seq(Seq(S))
    <2> DEFINE T == Seq(S)
    <2>1. \A i \in 1 .. n : ss[i] \in T OBVIOUS
    <2> HIDE DEF T
    <2>2. ss \in Seq(T) /\ Len(ss) = n BY <2>1
    <2>3. QED BY <2>2 DEF T
  <1>3. CASE n = 0
    <2>1. FlattenSeq(ss) = ss BY <1>2, <1>3 DEF FlattenSeq
    <2>2. ss = << >> BY <1>2, <1>3
    <2>3. k * 0 = 0 /\ << >> \in Seq(S) /\ Len(<< >>) = 0
      <3>1. k * 0 = 0
        <4>1. CASE k = 5 BY <4>1
        <4>2. CASE k = 6 BY <4>2
        <4>3. CASE k = 2 BY <4>3
        <4>4. QED BY <4>1, <4>2, <4>3
      <3>2. QED BY <3>1
    <2>4. 1 .. n = {} /\ k * n = 0 BY <1>3, <2>3
    <2>5. FlattenSeq(ss) \in Seq(S) /\ Len(FlattenSeq(ss)) = 0 BY <2>1, <2>2, <2>3
    <2>6. QED BY <2>4, <2>5 DEF Flattened
  <1>4. CASE n # 0
    <2>1. PICK f : /\ FlattenSeq(ss) = f[n]
                   /\ \A i \in 1 .. n : f[i] = IF i = 1 THEN ss[i] ELSE f[i - 1] \o ss[i]
      <3>1. Len(ss) \in Nat /\ Len(ss) # 0 BY <1>2, <1>4
      <3>2. \E f : /\ FlattenSeq(ss) = f[Len(ss)]
                   /\ \A i \in 1 .. Len(ss) : f[i] = IF i = 1 THEN ss[i] ELSE f[i - 1] \o ss[i]
        BY <3>1, FlattenSteps, Zenon
      <3>3. Len(ss) = n BY <1>2
      <3>4. QED BY <3>2, <3>3, Zenon
    <2> DEFINE Good(i) == /\ f[i] \in Seq(S) /\ Len(f[i]) = k * i
                          /\ \A m \in 1 .. i, j \in 1 .. k : f[i][k * (m - 1) + j] = ss[m][j]
               G == {i \in 0 .. n : i = 0 \/ Good(i)}
    <2>2. 0 \in G OBVIOUS
    <2>3. ASSUME NEW i \in 1 .. n, i - 1 \in G PROVE i \in G
      <3> DEFINE a == f[i - 1]
                 b == ss[i]
                 c == f[i]
      <3>1. i \in Nat \ {0} /\ i \in 0 .. n /\ i \in 1 .. i OBVIOUS
      <3>2. b \in Seq(S) /\ Len(b) = k OBVIOUS
      <3>3. CASE i = 1
        <4>1. c = b BY <2>1, <3>3
        <4>2. k * i = k /\ \A j : k * (i - 1) + j = 0 + j
          <5>1. CASE k = 5 BY <3>3, <5>1
          <5>2. CASE k = 6 BY <3>3, <5>2
          <5>3. CASE k = 2 BY <3>3, <5>3
          <5>4. QED BY <5>1, <5>2, <5>3
        <4>3. ASSUME NEW j \in 1 .. k PROVE k * (i - 1) + j = j
          <5>1. CASE k = 5 BY <3>3, <5>1
          <5>2. CASE k = 6 BY <3>3, <5>2
          <5>3. CASE k = 2 BY <3>3, <5>3
          <5>4. QED BY <5>1, <5>2, <5>3
        <4>4. \A m \in 1 .. i : m = i BY <3>3
        <4>5. \A m \in 1 .. i, j \in 1 .. k : c[k * (m - 1) + j] = ss[m][j] BY <4>1, <4>3, <4>4
        <4>6. Good(i) BY <3>2, <4>1, <4>2, <4>5
        <4>7. QED BY <3>1, <4>6
      <3>4. CASE i # 1
        <4>1. i - 1 # 0 /\ i - 1 \in Nat \ {0} BY <3>1, <3>4
        <4>2. Good(i - 1) BY <2>3, <4>1
        <4>3. c = a \o b BY <2>1, <3>4
        <4>4. k * i = k * (i - 1) + k BY <1>1, <3>1
        <4>5. a \in Seq(S) /\ Len(a) = k * (i - 1) BY <4>2
        <4> DEFINE p == k * (i - 1)
        <4>6. p \in Nat BY <4>5
        <4>7. ASSUME NEW m \in 1 .. i, NEW j \in 1 .. k PROVE c[k * (m - 1) + j] = ss[m][j]
          <5> DEFINE q == k * (m - 1) + j
          <5>1. CASE m = i
            <6>1. q = p + j BY <5>1
            <6>2. (a \o b)[Len(a) + j] = b[j]
              <7> HIDE DEF a, b
              <7>1. a \in Seq(S) /\ b \in Seq(S) BY <3>2, <4>5
              <7>3. /\ a \o b \in Seq(S) /\ Len(a \o b) = Len(a) + Len(b)
                    /\ \A x \in 1 .. Len(a) : (a \o b)[x] = a[x]
                    /\ \A x \in 1 .. Len(b) : (a \o b)[Len(a) + x] = b[x]
                BY <7>1, JoinParts
              <7>2. QED BY <3>2, <7>3
            <6>4. c[p + j] = b[j] BY <4>3, <4>5, <6>2
            <6> HIDE DEF p, q, c, a, b
            <6>5. QED BY <5>1, <6>1, <6>4 DEF q, b
          <5>2. CASE m # i
            <6>1. m \in 1 .. i - 1 /\ m \in Nat \ {0} /\ m <= i BY <5>2
            <6>2. q \in 1 .. p BY <1>1, <3>1, <5>2, <6>1
            <6>3. a[q] = ss[m][j] BY <4>2, <6>1
            <6> HIDE DEF q, c, a, b, p
            <6>4. c[q] = a[q] BY <3>2, <4>3, <4>5, <4>6, <6>2 DEF p
            <6>5. QED BY <6>3, <6>4 DEF q
          <5>3. QED BY <5>1, <5>2
        <4>8. c \in Seq(S) /\ Len(c) = k * i
          <5> HIDE DEF c, a, b
          <5>1. a \o b \in Seq(S) /\ Len(a \o b) = Len(a) + Len(b) BY <3>2, <4>5, JoinParts
          <5>2. QED BY <3>2, <4>3, <4>4, <4>5, <5>1
        <4>9. QED BY <3>1, <4>7, <4>8
      <3>5. QED BY <3>3, <3>4
    <2> HIDE DEF G
    <2>4. \A i \in 0 .. n : i \in G BY <2>2, <2>3, UpTo
    <2>5. Good(n)
      <3>1. n \in G
        <4>1. n \in 0 .. n OBVIOUS
        <4>2. QED BY <2>4, <4>1
      <3> HIDE DEF Good
      <3>2. QED BY <1>4, <3>1 DEF G
    <2>6. FlattenSeq(ss) \in Seq(S) /\ Len(FlattenSeq(ss)) = k * n BY <2>1, <2>5
    <2>7. \A m \in 1 .. n, j \in 1 .. k : FlattenSeq(ss)[k * (m - 1) + j] = ss[m][j] BY <2>1, <2>5
    <2>8. ASSUME NEW m \in 1 .. n, NEW j \in 1 .. k PROVE k * (m - 1) + j \in 1 .. k * n
      <3>1. n \in Nat \ {0} /\ m \in Nat \ {0} /\ m <= n BY <1>4
      <3>2. QED BY <1>1, <3>1
    <2>9. QED BY <2>6, <2>7, <2>8 DEF Flattened
  <1>5. QED BY <1>3, <1>4

\* parse_io_service takes one line after the other.
Folded(base, s) == FoldLeft(ServiceLine, base, s)

\* The fold over the lines of a text takes one line after the other.
LEMMA LineSteps ==
  ASSUME NEW n \in Nat, NEW s, DOMAIN s = 1 .. n, NEW base
  PROVE  \E f : /\ Folded(base, s) = f[n] /\ f[0] = base
                /\ \A i \in 1 .. n : f[i] = ServiceLine(f[i - 1], s[i])
  <1> DEFINE Eq(g, k) == g = [t \in SUBSET (1 .. k) |->
                                IF t = {} THEN base ELSE ServiceLine(g[t \ {Max(t)}], s[Max(t)])]
             Bad == {k \in Nat : \A g : ~Eq(g, k)}
  <1>1. ASSUME NEW k \in Nat \ {0}, NEW t \in SUBSET (1 .. k), k \in t PROVE Max(t) = k
    <2>1. \A x \in t : x \in Nat /\ x <= k OBVIOUS
    <2>2. \A x \in t : (\A y \in t : x >= y) <=> x = k BY <1>1, <2>1
    <2>3. QED BY <1>1, <2>2 DEF Max
  <1>2. Bad = {}
    <2>1. SUFFICES ASSUME Bad # {} PROVE FALSE OBVIOUS
    <2>2. PICK k \in Bad : \A j \in Bad : k <= j
      <3>1. Bad \in SUBSET Nat OBVIOUS
      <3> HIDE DEF Bad
      <3>2. QED BY <2>1, <3>1, Least
    <2>3. CASE k = 0
      <3> DEFINE g == [t \in SUBSET (1 .. 0) |-> base]
      <3>1. \A t \in SUBSET (1 .. 0) : t = {} OBVIOUS
      <3>2. Eq(g, 0) BY <3>1
      <3>3. QED BY <2>2, <2>3, <3>2
    <2>4. CASE k # 0
      <3>1. k \in Nat \ {0} /\ k - 1 \in Nat /\ ~(k <= k - 1) BY <2>2, <2>4
      <3>2. PICK g : Eq(g, k - 1)
        <4> HIDE DEF Eq
        <4>1. k - 1 \notin Bad BY <2>2, <3>1
        <4>2. QED BY <3>1, <4>1
      <3> DEFINE h == [t \in SUBSET (1 .. k) |-> IF k \in t THEN ServiceLine(g[t \ {k}], s[k]) ELSE g[t]]
      <3>3. \A t \in SUBSET (1 .. k) : k \notin t => t \in SUBSET (1 .. k - 1) BY <3>1
      <3>4. ASSUME NEW t \in SUBSET (1 .. k)
            PROVE  h[t] = IF t = {} THEN base ELSE ServiceLine(h[t \ {Max(t)}], s[Max(t)])
        <4>1. CASE k \in t
          <5>1. Max(t) = k /\ t # {} BY <1>1, <3>1, <4>1
          <5>2. t \ {k} \in SUBSET (1 .. k) /\ k \notin t \ {k} OBVIOUS
          <5>3. h[t \ {k}] = g[t \ {k}] /\ h[t] = ServiceLine(g[t \ {k}], s[k]) BY <4>1, <5>2
          <5> HIDE DEF h
          <5>4. QED BY <5>1, <5>3
        <4>2. CASE k \notin t
          <5> DEFINE u == t \ {Max(t)}
          <5>1. u \in SUBSET (1 .. k) /\ k \notin u BY <4>2
          <5>2. h[t] = g[t] /\ h[u] = g[u] BY <4>2, <5>1
          <5>3. g[t] = IF t = {} THEN base ELSE ServiceLine(g[u], s[Max(t)])
            <6>1. t \in SUBSET (1 .. k - 1) BY <3>3, <4>2
            <6>2. QED BY <3>2, <6>1
          <5> HIDE DEF h
          <5>4. QED BY <5>2, <5>3
        <4>3. QED BY <4>1, <4>2
      <3>5. Eq(h, k)
        <4>1. h = [t \in SUBSET (1 .. k) |-> h[t]] OBVIOUS
        <4> HIDE DEF h
        <4>2. QED BY <3>4, <4>1
      <3>6. QED BY <2>2, <3>5
    <2>5. QED BY <2>3, <2>4
  <1> DEFINE g == CHOOSE h : Eq(h, n)
             f == [i \in 0 .. n |-> g[1 .. i]]
  <1>3. Eq(g, n)
    <2> HIDE DEF Eq
    <2>1. \E h : Eq(h, n) BY <1>2
    <2>2. QED BY <2>1
  <1>4. Folded(base, s) = g[1 .. n] BY DEF Folded, FoldLeft, MapThenFoldSet
  <1> HIDE DEF g
  <1>5. f[0] = base
    <2>1. 1 .. 0 = {} /\ 1 .. 0 \in SUBSET (1 .. n) OBVIOUS
    <2>2. g[1 .. 0] = base BY <1>3, <2>1
    <2>3. QED BY <2>2
  <1>6. ASSUME NEW i \in 1 .. n PROVE f[i] = ServiceLine(f[i - 1], s[i])
    <2>1. i \in Nat \ {0} /\ i \in 1 .. i /\ 1 .. i \in SUBSET (1 .. n) /\ i - 1 \in 0 .. n /\ i \in 0 .. n OBVIOUS
    <2>2. Max(1 .. i) = i BY <1>1, <2>1
    <2>3. (1 .. i) \ {i} = 1 .. i - 1 /\ 1 .. i # {} BY <2>1
    <2>4. g[1 .. i] = ServiceLine(g[1 .. i - 1], s[i]) BY <1>3, <2>1, <2>2, <2>3
    <2>5. QED BY <2>1, <2>4
  <1>7. f[n] = g[1 .. n] OBVIOUS
  <1> HIDE DEF f
  <1>8. QED BY <1>4, <1>5, <1>6, <1>7

\* The lines of one device, and the state of the parser.
Line(d, o, x) == <<Dev(d), Word(o), Num(x)>>
Taken(done, d, n) == [done |-> done, cur |-> [dev |-> d, n |-> n]]
Zeros == NoService.n

\* A line of the device at hand changes one number.
LEMMA LineMore ==
  ASSUME NEW D, NEW d, NEW n \in [IoOps -> Nat], NEW o, NEW x
  PROVE  ServiceLine(Taken(D, d, n), Line(d, o, x)) = Taken(D, d, [p \in IoOps |-> IF p = o THEN x ELSE n[p]])
  <1> DEFINE s == Taken(D, d, n)
             l == Line(d, o, x)
             m == [p \in IoOps |-> IF p = o THEN x ELSE n[p]]
  <1>1. l[1][2] = d /\ l[2] = Word(o) /\ l[3][2] = x BY DEF Line, Dev, Word, Num
  <1>2. \A p : Word(p) = Word(o) <=> p = o BY DEF Word
  <1>3. /\ DOMAIN s = {"done", "cur"} /\ s.done = D /\ s.cur = [dev |-> d, n |-> n]
        /\ s = [done |-> s.done, cur |-> s.cur]
    BY DEF Taken
  <1>4. s.cur.dev = d /\ s.cur.n = n BY <1>3
  <1> HIDE DEF s, l
  <1>5. ServiceLine(s, l)
          = [s EXCEPT !.cur = [dev |-> d, n |-> [p \in IoOps |-> IF Word(p) = Word(o) THEN x ELSE n[p]]]]
    BY <1>1, <1>4 DEF ServiceLine
  <1>6. [p \in IoOps |-> IF Word(p) = Word(o) THEN x ELSE n[p]] = m BY <1>2
  <1> HIDE DEF m
  <1>7. ServiceLine(s, l) = [s EXCEPT !.cur = [dev |-> d, n |-> m]] BY <1>5, <1>6
  <1>8. [s EXCEPT !.cur = [dev |-> d, n |-> m]] = [done |-> D, cur |-> [dev |-> d, n |-> m]] BY <1>3
  <1>9. QED BY <1>7, <1>8 DEF Taken, s, l, m

\* A line of another device closes the record of the one before, if there is one.
LEMMA LineNew ==
  ASSUME NEW D, NEW C, NEW d, d # C.dev, NEW o, NEW x
  PROVE  ServiceLine([done |-> D, cur |-> C], Line(d, o, x))
           = Taken(IF C.dev[1] # 0 THEN Append(D, C) ELSE D, d,
                   [p \in IoOps |-> IF p = o THEN x ELSE IF C.dev[1] # 0 THEN Zeros[p] ELSE C.n[p]])
  <1> DEFINE s == [done |-> D, cur |-> C]
             l == Line(d, o, x)
             t == IF C.dev[1] # 0 THEN [done |-> Append(D, C), cur |-> NoService] ELSE s
             m == [p \in IoOps |-> IF p = o THEN x ELSE IF C.dev[1] # 0 THEN Zeros[p] ELSE C.n[p]]
             E == IF C.dev[1] # 0 THEN Append(D, C) ELSE D
  <1>1. l[1][2] = d /\ l[2] = Word(o) /\ l[3][2] = x BY DEF Line, Dev, Word, Num
  <1>2. \A p : Word(p) = Word(o) <=> p = o BY DEF Word
  <1>3. s.done = D /\ s.cur = C OBVIOUS
  <1>4. t.cur.n = IF C.dev[1] # 0 THEN Zeros ELSE C.n BY DEF Zeros
  <1>5. \A c : [t EXCEPT !.cur = c] = [done |-> E, cur |-> c] OBVIOUS
  <1> DEFINE k == t.cur.n
  <1>6. ServiceLine(s, l)
          = [t EXCEPT !.cur = [dev |-> d, n |-> [p \in IoOps |-> IF Word(p) = Word(o) THEN x ELSE k[p]]]]
    <2>1. t = IF l[1][2] # s.cur.dev /\ s.cur.dev[1] # 0
              THEN [done |-> Append(s.done, s.cur), cur |-> NoService] ELSE s
      BY <1>1, <1>3
    <2> HIDE DEF t, l, s
    <2>2. QED BY <1>1, <2>1 DEF ServiceLine
  <1>7. [p \in IoOps |-> IF Word(p) = Word(o) THEN x ELSE k[p]] = m
    <2> HIDE DEF k
    <2>1. [p \in IoOps |-> IF Word(p) = Word(o) THEN x ELSE k[p]] = [p \in IoOps |-> IF p = o THEN x ELSE k[p]]
      BY <1>2
    <2>2. \A p \in IoOps : k[p] = IF C.dev[1] # 0 THEN Zeros[p] ELSE C.n[p] BY <1>4 DEF k
    <2>3. QED BY <2>1, <2>2
  <1> HIDE DEF m, t, s, l, k, E
  <1>8. ServiceLine(s, l) = [done |-> E, cur |-> [dev |-> d, n |-> m]] BY <1>5, <1>6, <1>7
  <1>9. QED BY <1>8 DEF Taken, s, l, m, E

\* The six lines of a device make its record.
Ops6 == <<"Read", "Write", "Sync", "Async", "Discard", "Total">>
\* The parser over the six lines of a record.
Six(s, r) ==
  LET Next1(t, o) == ServiceLine(t, Line(r.dev, o, r.n[o]))
  IN  Next1(Next1(Next1(Next1(Next1(Next1(s, "Read"), "Write"), "Sync"), "Async"), "Discard"), "Total")

\* The six lines the kernel writes for a device give its record.
LEMMA LinesOfOne ==
  ASSUME NEW r \in Records, NEW D, NEW C, C = NoService \/ (C.dev # r.dev /\ C.dev[1] # 0)
  PROVE  Six([done |-> D, cur |-> C], r) = [done |-> IF C = NoService THEN D ELSE Append(D, C), cur |-> r]
  <1> DEFINE f0 == [done |-> D, cur |-> C]
             f1 == ServiceLine(f0, Line(r.dev, "Read", r.n["Read"]))
             f2 == ServiceLine(f1, Line(r.dev, "Write", r.n["Write"]))
             f3 == ServiceLine(f2, Line(r.dev, "Sync", r.n["Sync"]))
             f4 == ServiceLine(f3, Line(r.dev, "Async", r.n["Async"]))
             f5 == ServiceLine(f4, Line(r.dev, "Discard", r.n["Discard"]))
             f6 == ServiceLine(f5, Line(r.dev, "Total", r.n["Total"]))
  <1>0. Six([done |-> D, cur |-> C], r) = f6 BY DEF Six
  <1>f. f1 = ServiceLine(f0, Line(r.dev, "Read", r.n["Read"])) /\ f0 = [done |-> D, cur |-> C]
        /\ f2 = ServiceLine(f1, Line(r.dev, "Write", r.n["Write"]))
        /\ f3 = ServiceLine(f2, Line(r.dev, "Sync", r.n["Sync"]))
        /\ f4 = ServiceLine(f3, Line(r.dev, "Async", r.n["Async"]))
        /\ f5 = ServiceLine(f4, Line(r.dev, "Discard", r.n["Discard"]))
        /\ f6 = ServiceLine(f5, Line(r.dev, "Total", r.n["Total"]))
    OBVIOUS
  <1> HIDE DEF f0, f1, f2, f3, f4, f5, f6
  <1> DEFINE d == r.dev
             n == r.n
             E == IF C = NoService THEN D ELSE Append(D, C)
             n1 == [p \in IoOps |-> IF p = "Read" THEN n["Read"] ELSE Zeros[p]]
             n2 == [p \in IoOps |-> IF p = "Write" THEN n["Write"] ELSE n1[p]]
             n3 == [p \in IoOps |-> IF p = "Sync" THEN n["Sync"] ELSE n2[p]]
             n4 == [p \in IoOps |-> IF p = "Async" THEN n["Async"] ELSE n3[p]]
             n5 == [p \in IoOps |-> IF p = "Discard" THEN n["Discard"] ELSE n4[p]]
             n6 == [p \in IoOps |-> IF p = "Total" THEN n["Total"] ELSE n5[p]]
  <1>1. /\ d \in (Nat \ {0}) \X Nat /\ n \in [IoOps -> Nat] /\ r = [dev |-> d, n |-> n]
        /\ Zeros \in [IoOps -> Nat] /\ NoService.dev = <<0, 0>>
    BY DEF Records, Zeros, NoService
  <1>2. IoOps = {"Read", "Write", "Sync", "Async", "Discard", "Total"} BY DEF IoOps
  <1> HIDE DEF d, n
  <1>3. n1 \in [IoOps -> Nat] BY <1>1, <1>2
  <1>4. n2 \in [IoOps -> Nat]
    <2> HIDE DEF n1
    <2>1. QED BY <1>1, <1>2, <1>3
  <1>5. n3 \in [IoOps -> Nat]
    <2> HIDE DEF n1, n2
    <2>1. QED BY <1>1, <1>2, <1>4
  <1>6. n4 \in [IoOps -> Nat]
    <2> HIDE DEF n1, n2, n3
    <2>1. QED BY <1>1, <1>2, <1>5
  <1>7. n5 \in [IoOps -> Nat]
    <2> HIDE DEF n1, n2, n3, n4
    <2>1. QED BY <1>1, <1>2, <1>6
  <1>8. n6 = n
    <2>1. \A p \in IoOps : n6[p] = n[p] BY <1>2
    <2>2. n6 = [p \in IoOps |-> n6[p]] OBVIOUS
    <2> HIDE DEF n6
    <2>3. QED BY <1>1, <2>1, <2>2
  <1>9. f1 = Taken(E, d, n1)
    <2>1. CASE C = NoService
      <3>1. C.dev = <<0, 0>> /\ C.n = Zeros BY <1>1, <2>1 DEF Zeros
      <3>2. d # C.dev /\ C.dev[1] = 0 BY <1>1, <3>1
      <3>3. f1 = Taken(D, d, [p \in IoOps |-> IF p = "Read" THEN n["Read"] ELSE C.n[p]])
        BY <1>f, <3>2, LineNew DEF d, n
      <3>4. QED BY <2>1, <3>1, <3>3
    <2>2. CASE C # NoService
      <3>1. d # C.dev /\ C.dev[1] # 0 BY <2>2 DEF d
      <3>2. f1 = Taken(Append(D, C), d, [p \in IoOps |-> IF p = "Read" THEN n["Read"] ELSE Zeros[p]])
        BY <1>f, <3>1, LineNew DEF d, n
      <3>3. QED BY <2>2, <3>2
    <2>3. QED BY <2>1, <2>2
  <1>10. /\ f2 = ServiceLine(f1, Line(d, "Write", n["Write"])) /\ f3 = ServiceLine(f2, Line(d, "Sync", n["Sync"]))
         /\ f4 = ServiceLine(f3, Line(d, "Async", n["Async"]))
         /\ f5 = ServiceLine(f4, Line(d, "Discard", n["Discard"]))
         /\ f6 = ServiceLine(f5, Line(d, "Total", n["Total"]))
    BY <1>f DEF d, n
  <1>11. f2 = Taken(E, d, n2)
    <2> HIDE DEF n1, E
    <2>1. QED BY <1>3, <1>9, <1>10, LineMore
  <1>12. f3 = Taken(E, d, n3)
    <2> HIDE DEF n1, n2, E
    <2>1. QED BY <1>4, <1>10, <1>11, LineMore
  <1>13. f4 = Taken(E, d, n4)
    <2> HIDE DEF n1, n2, n3, E
    <2>1. QED BY <1>5, <1>10, <1>12, LineMore
  <1>14. f5 = Taken(E, d, n5)
    <2> HIDE DEF n1, n2, n3, n4, E
    <2>1. QED BY <1>6, <1>10, <1>13, LineMore
  <1>15. f6 = Taken(E, d, n6)
    <2> HIDE DEF n1, n2, n3, n4, n5, E
    <2>1. QED BY <1>7, <1>10, <1>14, LineMore
  <1> HIDE DEF n1, n2, n3, n4, n5, n6
  <1>16. QED BY <1>0, <1>1, <1>8, <1>15 DEF Taken

\* One more of the first elements of a sequence.
LEMMA FirstOnes ==
  ASSUME NEW S, NEW s \in Seq(S), NEW k \in 1 .. Len(s)
  PROVE  Append([m \in 1 .. k - 1 |-> s[m]], s[k]) = [m \in 1 .. k |-> s[m]]
  <1> DEFINE E == [m \in 1 .. k - 1 |-> s[m]]
  <1>1. k \in Nat \ {0} /\ k - 1 \in Nat /\ \A m \in 1 .. k : s[m] \in S OBVIOUS
  <1>2. E \in Seq(S) /\ Len(E) = k - 1 /\ s[k] \in S /\ (k - 1) + 1 = k BY <1>1
  <1>3. \A m \in 1 .. k - 1 : E[m] = s[m] OBVIOUS
  <1> HIDE DEF E
  <1>4. /\ Append(E, s[k]) \in Seq(S) /\ Len(Append(E, s[k])) = k
        /\ \A m \in 1 .. k : Append(E, s[k])[m] = IF m = k THEN s[k] ELSE E[m]
    BY <1>1, <1>2
  <1>5. \A m \in 1 .. k : m # k => m \in 1 .. k - 1 BY <1>1
  <1>6. \A m \in 1 .. k : Append(E, s[k])[m] = s[m] BY <1>3, <1>4, <1>5
  <1> DEFINE A == Append(E, s[k])
  <1>7. A \in Seq(S) /\ Len(A) = k BY <1>4
  <1> HIDE DEF A
  <1>8. A = [m \in 1 .. k |-> A[m]] BY <1>7
  <1> USE DEF A
  <1>9. QED BY <1>6, <1>8 DEF E

\* What is read of the lists of the first devices.
LineState(io, i) ==
  IF i = 0 THEN [done |-> << >>, cur |-> NoService]
  ELSE [done |-> [m \in 1 .. i - 1 |-> io[m]], cur |-> io[i]]

\* The lines of one device after those of the devices before it.
LEMMA LinesOfNext ==
  ASSUME NEW io, IoOK(io), NEW i \in 1 .. Len(io)
  PROVE  LET s == LineState(io, i - 1)
             C == s.cur
         IN  /\ C = NoService \/ (C.dev # io[i].dev /\ C.dev[1] # 0)
             /\ s = [done |-> s.done, cur |-> C]
             /\ [done |-> IF C = NoService THEN s.done ELSE Append(s.done, C), cur |-> io[i]] = LineState(io, i)
  <1> DEFINE s == LineState(io, i - 1)
             C == s.cur
  <1>1. /\ Len(io) \in Nat /\ DOMAIN io = 1 .. Len(io) /\ i \in Nat \ {0} /\ \A j \in 1 .. Len(io) : io[j] \in Records
        /\ \A j \in 1 .. Len(io) : io[j].dev \in (Nat \ {0}) \X Nat
    <2>1. Len(io) \in Nat /\ DOMAIN io = 1 .. Len(io) /\ \A j \in 1 .. Len(io) : io[j] \in Records BY DEF IoOK
    <2>2. \A r \in Records : r.dev \in (Nat \ {0}) \X Nat BY DEF Records
    <2>3. QED BY <2>1, <2>2
  <1>2. CASE i = 1
    <2>1. s = [done |-> << >>, cur |-> NoService] /\ s.done = << >> /\ C = NoService BY <1>2 DEF LineState
    <2>2. LineState(io, i) = [done |-> [m \in 1 .. i - 1 |-> io[m]], cur |-> io[i]] BY <1>2 DEF LineState
    <2>3. [m \in 1 .. i - 1 |-> io[m]] = << >> BY <1>2
    <2> HIDE DEF s
    <2>4. QED BY <2>1, <2>2, <2>3 DEF s
  <1>3. CASE i # 1
    <2>1. i - 1 # 0 /\ i - 1 \in 1 .. Len(io) /\ i # 0 BY <1>1, <1>3
    <2> DEFINE D == [m \in 1 .. i - 1 - 1 |-> io[m]]
    <2>2. s = [done |-> D, cur |-> io[i - 1]] BY <2>1 DEF LineState
    <2>3. s.done = D /\ C = io[i - 1] BY <2>2
    <2>4. LineState(io, i) = [done |-> [m \in 1 .. i - 1 |-> io[m]], cur |-> io[i]] BY <2>1 DEF LineState
    <2>5. C.dev # io[i].dev
      <3>1. io[i - 1].dev = io[i].dev => i - 1 = i BY <1>1, <2>1 DEF IoOK
      <3>2. QED BY <1>1, <2>3, <3>1
    <2>6. C.dev[1] # 0 BY <1>1, <2>1, <2>3
    <2>7. C # NoService
      <3>1. NoService.dev[1] = 0 BY DEF NoService
      <3>2. QED BY <2>6, <3>1
    <2>8. Append(D, io[i - 1]) = [m \in 1 .. i - 1 |-> io[m]]
      <3>1. io \in Seq(Records) BY DEF IoOK
      <3>2. QED BY <2>1, <3>1, FirstOnes
    <2> HIDE DEF s, D
    <2>9. QED BY <2>2, <2>3, <2>4, <2>5, <2>6, <2>7, <2>8 DEF s
  <1>4. QED BY <1>2, <1>3

\* The lines of all devices.
LEMMA LinesOfAll ==
  ASSUME NEW io, IoOK(io), NEW lines, DOMAIN lines = 1 .. 6 * Len(io),
         \A i \in 1 .. Len(io), j \in 1 .. 6 :
           lines[6 * (i - 1) + j] = Line(io[i].dev, Ops6[j], io[i].n[Ops6[j]])
  PROVE  Folded([done |-> << >>, cur |-> NoService], lines) = LineState(io, Len(io))
  <1> DEFINE n == Len(io)
             base == [done |-> << >>, cur |-> NoService]
  <1>1. n \in Nat /\ 6 * n \in Nat /\ \A i \in 1 .. n : io[i] \in Records BY DEF IoOK
  <1>2. PICK f : /\ Folded(base, lines) = f[6 * n] /\ f[0] = base
                 /\ \A q \in 1 .. 6 * n : f[q] = ServiceLine(f[q - 1], lines[q])
    <2> DEFINE k == 6 * n
    <2>1. k \in Nat /\ DOMAIN lines = 1 .. k BY <1>1
    <2> HIDE DEF base, k
    <2>2. ASSUME NEW m \in Nat, NEW s, NEW b, DOMAIN s = 1 .. m
          PROVE  \E f : /\ Folded(b, s) = f[m] /\ f[0] = b
                        /\ \A q \in 1 .. m : f[q] = ServiceLine(f[q - 1], s[q])
      BY ONLY <2>2, LineSteps
    <2>3. \E f : /\ Folded(base, lines) = f[k] /\ f[0] = base
                 /\ \A q \in 1 .. k : f[q] = ServiceLine(f[q - 1], lines[q])
      BY ONLY <2>1, <2>2
    <2>4. QED BY <2>3, Zenon DEF k
  <1> DEFINE G == {i \in 0 .. n : f[6 * i] = LineState(io, i)}
  <1>3. 0 \in G
    <2>1. LineState(io, 0) = base BY DEF LineState
    <2>2. 6 * 0 = 0 /\ 0 \in 0 .. n BY <1>1
    <2>3. QED BY <1>2, <2>1, <2>2
  <1>4. ASSUME NEW i \in 1 .. n, i - 1 \in G PROVE i \in G
    <2> DEFINE q == 6 * (i - 1)
               r == io[i]
               s == LineState(io, i - 1)
               L(j) == Line(r.dev, Ops6[j], r.n[Ops6[j]])
    <2>1. f[q] = s BY <1>4
    <2>2. \A j \in 1 .. 6 : /\ lines[q + j] = L(j) /\ q + j \in 1 .. 6 * n
                            /\ (q + j) - 1 = q + (j - 1)
      <3>1. i \in Nat \ {0} /\ i <= n BY <1>1
      <3>2. \A j \in 1 .. 6 : q + j \in 1 .. 6 * n /\ (q + j) - 1 = q + (j - 1) BY <1>1, <3>1
      <3>3. QED BY <3>2
    <2>3. \A j \in 1 .. 6 : f[q + j] = ServiceLine(f[q + (j - 1)], L(j))
      <3> HIDE DEF q, L
      <3>1. QED BY <1>2, <2>2
    <2>4. q + 0 = q /\ q + 6 = 6 * i /\ i \in 0 .. n BY <1>1
    <2>5. /\ Ops6[1] = "Read" /\ Ops6[2] = "Write" /\ Ops6[3] = "Sync" /\ Ops6[4] = "Async"
          /\ Ops6[5] = "Discard" /\ Ops6[6] = "Total"
      BY DEF Ops6
    <2>6. /\ f[q + 1] = ServiceLine(f[q], Line(r.dev, "Read", r.n["Read"]))
          /\ f[q + 2] = ServiceLine(f[q + 1], Line(r.dev, "Write", r.n["Write"]))
          /\ f[q + 3] = ServiceLine(f[q + 2], Line(r.dev, "Sync", r.n["Sync"]))
          /\ f[q + 4] = ServiceLine(f[q + 3], Line(r.dev, "Async", r.n["Async"]))
          /\ f[q + 5] = ServiceLine(f[q + 4], Line(r.dev, "Discard", r.n["Discard"]))
          /\ f[q + 6] = ServiceLine(f[q + 5], Line(r.dev, "Total", r.n["Total"]))
      <3> HIDE DEF q, r
      <3>1. 1 - 1 = 0 /\ 2 - 1 = 1 /\ 3 - 1 = 2 /\ 4 - 1 = 3 /\ 5 - 1 = 4 /\ 6 - 1 = 5 OBVIOUS
      <3>2. f[q + 1] = ServiceLine(f[q + 0], L(1)) /\ f[q + 2] = ServiceLine(f[q + 1], L(2))
            /\ f[q + 3] = ServiceLine(f[q + 2], L(3)) /\ f[q + 4] = ServiceLine(f[q + 3], L(4))
            /\ f[q + 5] = ServiceLine(f[q + 4], L(5)) /\ f[q + 6] = ServiceLine(f[q + 5], L(6))
        <4> HIDE DEF L
        <4>1. QED BY <2>3, <3>1
      <3>3. QED BY <2>4, <2>5, <3>2
    <2>7. /\ s.cur = NoService \/ (s.cur.dev # r.dev /\ s.cur.dev[1] # 0)
          /\ s = [done |-> s.done, cur |-> s.cur]
          /\ [done |-> IF s.cur = NoService THEN s.done ELSE Append(s.done, s.cur), cur |-> r] = LineState(io, i)
      BY LinesOfNext
    <2>8. r \in Records BY <1>1
    <2> HIDE DEF q, r, s
    <2>9. f[q + 6] = [done |-> IF s.cur = NoService THEN s.done ELSE Append(s.done, s.cur), cur |-> r]
      <3>1. f[q + 6] = Six(f[q], r) BY <2>6, Zenon DEF Six
      <3> DEFINE D == s.done
                 C == s.cur
      <3>2. f[q] = [done |-> D, cur |-> C] BY <2>1, <2>7
      <3>3. C = NoService \/ (C.dev # r.dev /\ C.dev[1] # 0) BY <2>7
      <3> HIDE DEF D, C
      <3>4. Six([done |-> D, cur |-> C], r) = [done |-> IF C = NoService THEN D ELSE Append(D, C), cur |-> r]
        BY ONLY <2>8, <3>3, LinesOfOne
      <3>5. QED BY <3>1, <3>2, <3>4 DEF C, D
    <2>10. f[6 * i] = LineState(io, i) BY <2>4, <2>7, <2>9
    <2>11. QED BY <2>4, <2>10
  <1>5. n \in G
    <2> HIDE DEF G
    <2>1. \A i \in 0 .. n : i \in G BY <1>1, <1>3, <1>4, UpTo
    <2>2. n \in 0 .. n BY <1>1
    <2>3. QED BY <2>1, <2>2
  <1>6. QED BY <1>2, <1>5

\* After the last line the list of the kernel has been read.
LEMMA ListRead ==
  ASSUME NEW io, IoOK(io)
  PROVE  LET s == LineState(io, Len(io))
         IN  (IF s.cur.dev[1] # 0 THEN Append(s.done, s.cur) ELSE s.done) = io
  <1> DEFINE n == Len(io)
             s == LineState(io, n)
  <1>1. n \in Nat /\ io \in Seq(Records) BY DEF IoOK
  <1>2. CASE n = 0
    <2>1. s = [done |-> << >>, cur |-> NoService] BY <1>2 DEF LineState
    <2>2. s.done = << >> /\ s.cur.dev[1] = 0 BY <2>1 DEF NoService
    <2>3. io = << >> BY <1>1, <1>2
    <2>4. QED BY <2>2, <2>3
  <1>3. CASE n # 0
    <2>1. s = [done |-> [m \in 1 .. n - 1 |-> io[m]], cur |-> io[n]] BY <1>3 DEF LineState
    <2>2. s.done = [m \in 1 .. n - 1 |-> io[m]] /\ s.cur = io[n] BY <2>1
    <2>3. n \in 1 .. n /\ io[n] \in Records BY <1>1, <1>3
    <2>4. io[n].dev[1] # 0 BY <2>3 DEF Records
    <2>5. Append([m \in 1 .. n - 1 |-> io[m]], io[n]) = [m \in 1 .. n |-> io[m]] BY <1>1, <2>3, FirstOnes
    <2>6. [m \in 1 .. n |-> io[m]] = io BY <1>1
    <2> HIDE DEF s, n
    <2>7. QED BY <2>2, <2>4, <2>5, <2>6 DEF s, n
  <1>4. QED BY <1>2, <1>3

\* parse_io_service on the file of a list.
LEMMA ServiceTextRead ==
  ASSUME IoOK(kernel.io), AllFit
  PROVE  parse_io_service(ServiceText) = Ok(kernel.io)
  <1> DEFINE io == kernel.io
             n == Len(io)
             l(i, j) == Line(io[i].dev, Ops6[j], io[i].n[Ops6[j]])
             part(i) == [j \in 1 .. 6 |-> l(i, j)]
             L == {l(i, j) : i \in 1 .. n, j \in 1 .. 6}
             ss == [i \in 1 .. n |-> part(i)]
             a == FlattenSeq(ss)
             t == <<Word("Total"), Num(Sum([i \in DOMAIN io |-> io[i].n["Total"]]))>>
             c == a \o <<t>>
             lines == [q \in 1 .. 6 * n |-> c[q]]
  <1>1. n \in Nat /\ 6 * n \in Nat /\ DOMAIN io = 1 .. n /\ \A i \in 1 .. n : io[i] \in Records BY DEF IoOK
  <1>2. \A r \in Records, o \in IoOps : r.n[o] \in Nat BY DEF Records
  <1>3. \A j \in 1 .. 6 : Ops6[j] \in IoOps BY DEF Ops6, IoOps
  <1>4. ServiceText = c
    <2>1. \A i \in 1 .. n, j \in 1 .. 6 :
            <<Dev(io[i].dev), Word(Ops6[j]), Num(io[i].n[Ops6[j]])>> = l(i, j) BY DEF Line
    <2>2. QED BY <1>1, <2>1 DEF ServiceText, Ops6
  <1>5. ASSUME NEW x \in L
        PROVE  Len(x) = 3 /\ x[1][1] = "dev" /\ FitsI16(x[1][2]) /\ IsU64(x[3])
    <2>1. PICK i \in 1 .. n, j \in 1 .. 6 : x = l(i, j) OBVIOUS
    <2>2. x = <<Dev(io[i].dev), Word(Ops6[j]), Num(io[i].n[Ops6[j]])>> BY <2>1 DEF Line
    <2>3. io[i].n[Ops6[j]] \in Nat
      <3>1. io[i] \in Records /\ Ops6[j] \in IoOps BY <1>1, <1>3
      <3> HIDE DEF io
      <3>2. QED BY ONLY <1>2, <3>1
    <2>4. FitsI16(io[i].dev) BY <1>1 DEF AllFit
    <2> HIDE DEF L, io
    <2>5. QED BY <2>2, <2>3, <2>4 DEF Dev, Num, IsU64
  <1>6. /\ a \in Seq(L) /\ Len(a) = 6 * n
        /\ \A i \in 1 .. n, j \in 1 .. 6 : 6 * (i - 1) + j \in 1 .. 6 * n /\ a[6 * (i - 1) + j] = l(i, j)
    <2>1. \A i \in 1 .. n, j \in 1 .. 6 : l(i, j) \in L OBVIOUS
    <2> HIDE DEF l, L, n
    <2>2. \A i \in 1 .. n : part(i) \in Seq(L) /\ Len(part(i)) = 6 /\ \A j \in 1 .. 6 : part(i)[j] = l(i, j) BY <2>1
    <2> HIDE DEF part
    <2>3. DOMAIN ss = 1 .. n /\ ss = [i \in 1 .. n |-> ss[i]] /\ \A i \in 1 .. n : ss[i] = part(i) OBVIOUS
    <2> HIDE DEF ss
    <2>4. \A i \in 1 .. n : ss[i] \in Seq(L) /\ Len(ss[i]) = 6 BY <2>2, <2>3
    <2>5. /\ FlattenSeq(ss) \in Seq(L) /\ Len(FlattenSeq(ss)) = 6 * n
          /\ \A i \in 1 .. n, j \in 1 .. 6 : /\ 6 * (i - 1) + j \in 1 .. 6 * n
                                            /\ FlattenSeq(ss)[6 * (i - 1) + j] = ss[i][j]
      <3> DEFINE U == Seq(L)
      <3>1. \A i \in 1 .. n : ss[i] \in U BY <2>4
      <3> HIDE DEF U
      <3>2. ss \in [1 .. n -> U] BY <2>3, <3>1
      <3>3. 6 \in {2, 5, 6} /\ n \in Nat BY <1>1
      <3>4. Flattened(FlattenSeq(ss), ss, 6, n, L) BY <2>4, <3>2, <3>3, Blocks DEF U
      <3>5. QED BY <3>4 DEF Flattened
    <2>6. \A i \in 1 .. n, j \in 1 .. 6 : ss[i][j] = l(i, j) BY ONLY <2>2, <2>3
    <2>7. QED BY ONLY <2>5, <2>6
  <1>7. Len(t) = 2 OBVIOUS
  <1> DEFINE M == L \union {t}
             k == 6 * n
  <1>k. k \in Nat /\ Len(a) = k /\ a \in Seq(L) /\ \A q \in 1 .. k : a[q] \in L
    <2> HIDE DEF a, L
    <2>1. 6 * n \in Nat /\ Len(a) = 6 * n /\ a \in Seq(L) BY ONLY <1>1, <1>6
    <2>2. k \in Nat /\ Len(a) = k BY ONLY <2>1 DEF k
    <2> HIDE DEF k, l
    <2>3. QED BY ONLY <2>1, <2>2
  <1>8. c \in Seq(M) /\ Len(c) = k + 1 /\ (\A q \in 1 .. k : c[q] = a[q]) /\ c[k + 1] = t
    <2>1. a \in Seq(M) /\ <<t>> \in Seq(M) /\ Len(<<t>>) = 1 /\ <<t>>[1] = t
      <3> HIDE DEF a, L, t
      <3>1. L \subseteq M /\ t \in M OBVIOUS
      <3> HIDE DEF M
      <3>2. QED BY ONLY <1>k, <3>1
    <2>2. Len(a) = k BY <1>k
    <2> HIDE DEF a, M, t, k
    <2>3. /\ c \in Seq(M) /\ Len(c) = Len(a) + Len(<<t>>) /\ \A j \in 1 .. Len(a) : c[j] = a[j]
          /\ \A j \in 1 .. Len(<<t>>) : c[Len(a) + j] = <<t>>[j]
      BY <2>1, JoinParts
    <2>4. QED BY <2>1, <2>2, <2>3
  <1>9. {i \in DOMAIN c : Len(c[i]) = 3} = 1 .. k
    <2> HIDE DEF a, c, t, k, L, l
    <2>1. k \in Nat BY <1>k
    <2>3. \A q \in 1 .. k : Len(c[q]) = 3 BY <1>5, <1>8, <1>k
    <2>4. Len(c[k + 1]) # 3
      <3>1. c[k + 1] = t BY <1>8
      <3>2. QED BY ONLY <1>7, <3>1
    <2>5. DOMAIN c = 1 .. k + 1 BY <1>8
    <2>6. \A i \in 1 .. k + 1 : i \in 1 .. k \/ i = k + 1 BY <2>1
    <2>7. 1 .. k \subseteq 1 .. k + 1 BY <2>1
    <2>8. QED BY <2>3, <2>4, <2>5, <2>6, <2>7
  <1>10. Keep(c, 1 .. k) = lines
    <2> HIDE DEF c, M, k, L
    <2>1. k \in 0 .. Len(c)
      <3>1. \A x : x = k + 1 => k \in 0 .. x BY ONLY <1>k
      <3>2. QED BY ONLY <1>8, <3>1
    <2>2. Keep(c, 1 .. k) = [j \in 1 .. k |-> c[j]] BY <1>8, <2>1, KeepFirst
    <2>3. QED BY <2>2 DEF k
  <1>11. /\ DOMAIN lines = 1 .. 6 * n
         /\ \A q \in DOMAIN lines : lines[q] \in L
         /\ \A i \in 1 .. n, j \in 1 .. 6 : lines[6 * (i - 1) + j] = l(i, j)
    <2>1. DOMAIN lines = 1 .. k /\ \A q \in 1 .. k : lines[q] = c[q] OBVIOUS
    <2>2. k = 6 * n OBVIOUS
    <2> HIDE DEF lines, c, a, L, l, n, k
    <2>3. QED BY <1>6, <1>8, <1>k, <2>1, <2>2
  <1>12. Folded([done |-> << >>, cur |-> NoService], lines) = LineState(io, n)
    <2> HIDE DEF lines
    <2>1. DOMAIN lines = 1 .. 6 * Len(io) BY <1>11
    <2>3. IoOK(io) OBVIOUS
    <2> HIDE DEF L, io
    <2>2. \A i \in 1 .. Len(io), j \in 1 .. 6 :
            lines[6 * (i - 1) + j] = Line(io[i].dev, Ops6[j], io[i].n[Ops6[j]]) BY <1>11
    <2> HIDE DEF n, io
    <2>4. Folded([done |-> << >>, cur |-> NoService], lines) = LineState(io, Len(io)) BY <2>1, <2>2, <2>3, LinesOfAll
    <2>5. QED BY <2>4 DEF n
  <1>13. (IF LineState(io, n).cur.dev[1] # 0 THEN Append(LineState(io, n).done, LineState(io, n).cur)
          ELSE LineState(io, n).done) = io
    BY ListRead
  <1>14. ~\E i \in DOMAIN lines : lines[i][1][1] # "dev" \/ ~FitsI16(lines[i][1][2]) \/ ~IsU64(lines[i][3])
    <2> HIDE DEF lines, L
    <2>1. QED BY <1>5, <1>11
  <1> HIDE DEF c, lines, n, k
  <1>15. Keep(c, {i \in DOMAIN c : Len(c[i]) = 3}) = lines BY <1>9, <1>10
  <1>16. FoldLeft(ServiceLine, [done |-> << >>, cur |-> NoService], lines) = LineState(io, n)
    BY <1>12 DEF Folded
  <1>17. parse_io_service(c) = Ok(io)
    <2> DEFINE base == [done |-> << >>, cur |-> NoService]
               s == LineState(io, n)
               places == {i \in DOMAIN c : Len(c[i]) = 3}
    <2>1. Keep(c, places) = lines /\ FoldLeft(ServiceLine, base, lines) = s BY <1>15, <1>16
    <2>2. (IF s.cur.dev[1] # 0 THEN Append(s.done, s.cur) ELSE s.done) = io BY <1>13
    <2> HIDE DEF s, io
    <2>3. QED BY <1>14, <2>1, <2>2 DEF parse_io_service
  <1>18. QED BY <1>4, <1>17

\* The getter of a list of operations returns the kernel's list, or none where it has no file.
LEMMA ServiceReported ==
  ASSUME StateOK, CountsOK, ~v2, AllFit, NEW p \in Policies, NEW n, NEW c
  PROVE  Reported(ServiceRead(p, n, c)) = IF p = "cfq" /\ ~cfq THEN << >> ELSE kernel.io
  <1> DEFINE r == ServiceRead(p, n, c)
             io == kernel.io
             t == ServiceText
  <1>1. r.as = "io_service" /\ r.default = << >> /\ r.file = <<p, "service">> BY DEF ServiceRead, Rd
  <1>2. parse_io_service(t) = Ok(io) BY ServiceTextRead DEF CountsOK
  <1>3. ~present => io = << >> BY DEF CountsOK, Fresh
  <1>4. p \in {"cfq", "throttle"} /\ p \notin Kinds BY DEF Policies, Kinds
  <1>5. FilesOf(p) = [q \in IF p = "cfq" /\ ~cfq THEN {}
                           ELSE {"service", "data"} \union (IF p = "cfq" THEN {"weight"} ELSE {}) |->
                       CASE q = "service" -> ServiceText [] q = "data" -> DataText [] q = "weight" -> One(Num(1))]
    BY <1>4 DEF FilesOf, Kinds
  <1>6. Exists(r.file) <=> present /\ ~(p = "cfq" /\ ~cfq) BY <1>1, <1>4, <1>5 DEF Exists
  <1>7. ~(p = "cfq" /\ ~cfq) => Text(r.file) = t BY <1>1, <1>5 DEF Text
  <1> HIDE DEF r, io, t
  <1>8. Reported(r) = UnwrapOr(IF Exists(r.file) THEN Parse(r.as, Text(r.file)) ELSE Err, << >>)
    BY <1>1 DEF Reported
  <1>9. Parse("io_service", t) = Ok(io) BY <1>2 DEF Parse
  <1>10. UnwrapOr(Ok(io), << >>) = io /\ UnwrapOr(Err, << >>) = << >> BY DEF UnwrapOr, Ok, Err
  <1>11. CASE p = "cfq" /\ ~cfq BY <1>6, <1>8, <1>10, <1>11 DEF r
  <1>12. CASE ~(p = "cfq" /\ ~cfq)
    <2>1. present => Reported(r) = io BY <1>1, <1>6, <1>7, <1>8, <1>9, <1>10, <1>12
    <2>2. ~present => Reported(r) = io BY <1>3, <1>6, <1>8, <1>10
    <2>3. QED BY <1>12, <2>1, <2>2 DEF r, io
  <1>13. QED BY <1>11, <1>12

\* Reading a file keeps the lists between the kernel's then and now.
LEMMA ServicesRead ==
  ASSUME CountsInv, ServicesOK, ReadFile
  PROVE  ServicesOK'
  <1>1. /\ UNCHANGED <<v2, cfq, kernel, start, upset>>
        /\ \A f \in DOMAIN got' : \/ f \in DOMAIN got /\ got'[f] = got[f]
                                  \/ f = Reads[at].field /\ got'[f] = Reported(Reads[at])
        /\ Exact(Reads[at])
    BY ReadExact DEF CountsInv, StatsInv
  <1>2. SUFFICES ASSUME Intact({"io"}), ~v2, AllFit, NEW f \in ServiceFields, f \in DOMAIN got'
        PROVE  IF f[1] = "cfq" /\ ~cfq THEN got'[f] = << >>
               ELSE IoOK(got'[f]) /\ Growing(start.io, got'[f]) /\ Growing(got'[f], kernel.io)
    BY <1>1 DEF ServicesOK, Intact, AllFit, IoOK, Growing
  <1>3. CASE f \in DOMAIN got /\ got'[f] = got[f] BY <1>2, <1>3 DEF ServicesOK
  <1>4. CASE f = Reads[at].field /\ got'[f] = Reported(Reads[at])
    <2> DEFINE p == f[1]
               n == f[2]
               c == f[3]
    <2>1. f = <<p, n, c>> /\ p \in Policies /\ c \in Scopes BY DEF ServiceFields, Policies, Scopes
    <2> HIDE DEF p, n, c
    <2>2. Reads[at] = ServiceRead(p, n, c) BY <1>1, <1>4, <2>1 DEF Exact
    <2>3. got'[f] = IF p = "cfq" /\ ~cfq THEN << >> ELSE kernel.io
      <3>1. StateOK /\ CountsOK BY DEF CountsInv, StatsInv
      <3>2. Reported(ServiceRead(p, n, c)) = IF p = "cfq" /\ ~cfq THEN << >> ELSE kernel.io
        BY <1>2, <2>1, <3>1, ServiceReported
      <3>3. QED BY <1>4, <2>2, <3>2
    <2>4. f[1] = p BY DEF p
    <2>5. IoOK(kernel.io) /\ Growing(start.io, kernel.io) BY <1>2 DEF CountsInv, CountsOK, SinceOK
    <2>6. Growing(kernel.io, kernel.io) BY <2>5, GrowingSelf
    <2>7. QED BY <2>3, <2>4, <2>5, <2>6
  <1>5. QED BY <1>1, <1>2, <1>3, <1>4

\* A move of the kernel keeps them there.
LEMMA ServicesWorld ==
  ASSUME CountsInv, ServicesOK, World
  PROVE  ServicesOK'
  <1>1. StateOK /\ KernelOK /\ CountsOK /\ CountsOK' /\ Climb
    BY CountsStep DEF CountsInv, StatsInv, StateOK
  <1>2. UNCHANGED <<v2, cfq, got, start>> BY WorldFrame DEF CountsInv, StatsInv
  <1>3. SUFFICES ASSUME Intact({"io"})', ~v2, AllFit', NEW f \in ServiceFields, f \in DOMAIN got
        PROVE  IF f[1] = "cfq" /\ ~cfq THEN got[f] = << >>
               ELSE IoOK(got[f]) /\ Growing(start.io, got[f]) /\ Growing(got[f], kernel'.io)
    BY <1>2 DEF ServicesOK, IoOK, Growing
  <1>4. Intact({"io"}) BY <1>1, <1>3, WorldIntact
  <1>5. Growing(kernel.io, kernel'.io) BY <1>1, <1>3 DEF Climb, Intact
  <1>6. IoOK(kernel.io) /\ IoOK(kernel'.io) BY <1>1 DEF CountsOK, IoOK
  <1>7. AllFit
    <2> DEFINE a == kernel.io
               b == kernel'.io
    <2>1. Len(a) \in Nat /\ DOMAIN a = 1 .. Len(a) /\ Len(b) \in Nat /\ DOMAIN b = 1 .. Len(b) BY <1>6 DEF IoOK
    <2>2. Len(a) <= Len(b) /\ \A i \in DOMAIN a : a[i].dev = b[i].dev BY <1>5 DEF Growing
    <2>3. \A i \in DOMAIN b : FitsI16(b[i].dev) BY <1>3 DEF AllFit
    <2>4. \A i \in DOMAIN a : i \in DOMAIN b BY <2>1, <2>2
    <2>5. QED BY <2>2, <2>3, <2>4 DEF AllFit
  <1>8. IF f[1] = "cfq" /\ ~cfq THEN got[f] = << >>
        ELSE IoOK(got[f]) /\ Growing(start.io, got[f]) /\ Growing(got[f], kernel.io)
    BY <1>3, <1>4, <1>7 DEF ServicesOK
  <1>9. QED BY <1>5, <1>6, <1>8, GrowingSteps

\* The inductive invariant of the lists.
ServicesInv == CountsInv /\ ServicesOK

\* The invariant with the lists.
LEMMA ServicesInvariant == Spec => []ServicesInv
  <1>1. Init => ServicesInv
    <2> SUFFICES ASSUME Init PROVE ServicesInv OBVIOUS
    <2>1. DOMAIN got = {} BY DEF Init
    <2>2. QED BY <2>1, CountsInit DEF ServicesInv, ServicesOK
  <1>2. ServicesInv /\ [Next]_vars => ServicesInv'
    <2> SUFFICES ASSUME ServicesInv, [Next]_vars PROVE ServicesInv' OBVIOUS
    <2>1. CountsInv /\ CountsInv' /\ ServicesOK BY CountsNext DEF ServicesInv
    <2>2. CASE Begin
      <3>1. DOMAIN got' = {} BY <2>2 DEF Begin
      <3>2. QED BY <2>1, <3>1 DEF ServicesInv, ServicesOK
    <2>3. CASE ReadFile BY <2>1, <2>3, ServicesRead DEF ServicesInv
    <2>4. CASE World BY <2>1, <2>4, ServicesWorld DEF ServicesInv
    <2>5. CASE UNCHANGED vars
      <3>1. UNCHANGED <<v2, cfq, kernel, got, start, upset>> BY <2>5 DEF vars
      <3>2. QED BY <2>1, <3>1 DEF ServicesInv, ServicesOK, Intact, AllFit, IoOK, Growing
    <2>6. QED BY <2>2, <2>3, <2>4, <2>5 DEF Next, World
  <1>3. QED BY <1>1, <1>2, PTL DEF Spec

\* The operations that the lists report of a device.
Ops5 == <<"Read", "Write", "Sync", "Async", "Total">>
\* What of a sum belongs to one device, in a list of the kernel and in a list
\* of the result.
ValueOf(io, d, o) == Sum([i \in DOMAIN io |-> IF io[i].dev = d THEN io[i].n[o] ELSE 0])
\* What a list counts of one operation of a device.
ListedOf(l, d, o) == Sum([i \in DOMAIN l |-> IF l[i].dev = d /\ l[i].op = o THEN l[i].value ELSE 0])

\* The number of a device in a list of the result is that in the list it was made from.
LEMMA ListedValue ==
  ASSUME NEW io, IoOK(io), NEW d, NEW k \in {1, 2, 3, 5}
  PROVE  ListedOf(from_io_services(io), d, Ops5[k]) = ValueOf(io, d, Ops5[k])
  <1> DEFINE n == Len(io)
             o == Ops5[k]
             e(i, j) == Stat(io[i].dev, Ops5[j], io[i].n[Ops5[j]])
             part(i) == [j \in 1 .. 5 |-> e(i, j)]
             ss == [i \in 1 .. n |-> part(i)]
             l == from_io_services(io)
             E == [dev : (Nat \ {0}) \X Nat, op : IoOps, value : Nat]
             s == [i \in 1 .. n |-> IF io[i].dev = d THEN io[i].n[o] ELSE 0]
             t == [q \in 1 .. 5 * n |-> IF l[q].dev = d /\ l[q].op = o THEN l[q].value ELSE 0]
  <1>1. n \in Nat /\ 5 * n \in Nat /\ DOMAIN io = 1 .. n /\ \A i \in 1 .. n : io[i] \in Records BY DEF IoOK
  <1>2. \A j \in 1 .. 5 : Ops5[j] \in IoOps /\ (Ops5[j] = o <=> j = k) BY DEF Ops5, IoOps
  <1>3. ASSUME NEW i \in 1 .. n, NEW j \in 1 .. 5 PROVE e(i, j) \in E
    <2>1. \A r \in Records : r.dev \in (Nat \ {0}) \X Nat /\ \A p \in IoOps : r.n[p] \in Nat BY DEF Records
    <2>2. io[i].dev \in (Nat \ {0}) \X Nat /\ io[i].n[Ops5[j]] \in Nat BY <1>1, <1>2, <2>1
    <2>3. QED BY <1>2, <2>2 DEF Stat
  <1>4. l = FlattenSeq(ss)
    <2>1. l = FlattenSeq([i \in DOMAIN io |-> [j \in 1 .. 5 |-> Stat(io[i].dev, Ops5[j], io[i].n[Ops5[j]])]])
      BY DEF from_io_services, Ops5
    <2>2. QED BY <1>1, <2>1
  <1>5. /\ l \in Seq(E) /\ Len(l) = 5 * n
        /\ \A i \in 1 .. n, j \in 1 .. 5 : 5 * (i - 1) + j \in 1 .. 5 * n /\ l[5 * (i - 1) + j] = e(i, j)
    <2> HIDE DEF e, E, n, l
    <2> DEFINE U == Seq(E)
    <2>1. \A i \in 1 .. n : part(i) \in U /\ Len(part(i)) = 5 /\ \A j \in 1 .. 5 : part(i)[j] = e(i, j) BY <1>3
    <2> HIDE DEF part, U
    <2>2. ss \in [1 .. n -> U] /\ \A i \in 1 .. n : ss[i] = part(i) BY <2>1
    <2> HIDE DEF ss
    <2>3. \A i \in 1 .. n : Len(ss[i]) = 5 BY <2>1, <2>2
    <2>4. 5 \in {2, 5, 6} /\ n \in Nat BY <1>1
    <2>5. Flattened(FlattenSeq(ss), ss, 5, n, E) BY <2>2, <2>3, <2>4, Blocks DEF U
    <2>6. QED BY <1>4, <2>1, <2>2, <2>5 DEF Flattened
  <1>6. s \in [1 .. n -> Nat]
    <2>1. o \in IoOps BY <1>2 DEF Ops5, IoOps
    <2>2. \A r \in Records : r.n[o] \in Nat BY <2>1 DEF Records
    <2> HIDE DEF o
    <2>3. QED BY <1>1, <2>2
  <1>7. t \in [1 .. 5 * n -> Nat]
    <2>1. \A x \in E : x.value \in Nat OBVIOUS
    <2> HIDE DEF E, l
    <2>2. \A q \in 1 .. 5 * n : l[q] \in E BY <1>1, <1>5
    <2> HIDE DEF o, n
    <2>3. QED BY <2>1, <2>2
  <1>8. ValueOf(io, d, o) = Sum(s) BY <1>1 DEF ValueOf
  <1>9. ListedOf(l, d, o) = Sum(t)
    <2> HIDE DEF l, o, E
    <2>1. DOMAIN l = 1 .. 5 * n BY <1>1, <1>5
    <2>2. QED BY <2>1 DEF ListedOf
  <1>10. PICK f : Sum(s) = f[n] /\ f[0] = 0 /\ \A i \in 1 .. n : f[i] = f[i - 1] + s[i]
    <2> HIDE DEF s
    <2>1. QED BY <1>1, <1>6, SumSteps
  <1>11. \E g : Sum(t) = g[5 * n] /\ g[0] = 0 /\ \A q \in 1 .. 5 * n : g[q] = g[q - 1] + t[q]
    <2>1. ASSUME NEW m \in Nat, NEW u \in [1 .. m -> Nat]
          PROVE  \E g : Sum(u) = g[m] /\ g[0] = 0 /\ \A q \in 1 .. m : g[q] = g[q - 1] + u[q]
      BY SumSteps
    <2> HIDE DEF t
    <2>2. QED BY <1>1, <1>7, <2>1
  <1>12. PICK g : Sum(t) = g[5 * n] /\ g[0] = 0 /\ \A q \in 1 .. 5 * n : g[q] = g[q - 1] + t[q] BY <1>11
  <1> DEFINE G == {i \in 0 .. n : f[i] \in Nat /\ g[5 * i] = f[i]}
  <1>13. 0 \in G
    <2>1. 5 * 0 = 0 /\ 0 \in 0 .. n BY <1>1
    <2>2. QED BY <1>10, <1>12, <2>1
  <1>14. ASSUME NEW i \in 1 .. n, i - 1 \in G PROVE i \in G
    <2> DEFINE q == 5 * (i - 1)
               b == f[i - 1]
               x == s[i]
    <2>1. b \in Nat /\ g[q] = b /\ x \in Nat /\ f[i] = b + x BY <1>6, <1>10, <1>14
    <2>2. \A j \in 1 .. 5 : t[q + j] = IF j = k THEN x ELSE 0
      <3>1. ASSUME NEW j \in 1 .. 5 PROVE t[q + j] = IF j = k THEN x ELSE 0
        <4>1. q + j \in 1 .. 5 * n /\ l[q + j] = e(i, j) BY <1>5
        <4>2. e(i, j).dev = io[i].dev /\ e(i, j).op = Ops5[j] /\ e(i, j).value = io[i].n[Ops5[j]] BY DEF Stat
        <4> HIDE DEF q, l, e, o, n
        <4>3. t[q + j] = IF l[q + j].dev = d /\ l[q + j].op = o THEN l[q + j].value ELSE 0 BY <4>1
        <4>4. x = IF io[i].dev = d THEN io[i].n[o] ELSE 0 OBVIOUS
        <4>5. Ops5[j] = o <=> j = k BY <1>2
        <4> HIDE DEF t, x
        <4>6. QED BY <4>1, <4>2, <4>3, <4>4, <4>5
      <3>2. QED BY <3>1
    <2>3. \A j \in 1 .. 5 : q + j \in 1 .. 5 * n /\ (q + j) - 1 = q + (j - 1)
      <3>1. q \in Int BY <1>1
      <3>2. \A j \in 1 .. 5 : q + j \in 1 .. 5 * n BY <1>5
      <3> HIDE DEF q
      <3>3. QED BY <3>1, <3>2
    <2>4. q + 0 = q /\ q + 5 = 5 * i /\ i \in 0 .. n BY <1>1
    <2> HIDE DEF q, x, b, t, s
    <2>5. \A j \in 1 .. 5 : g[q + j] = g[q + (j - 1)] + IF j = k THEN x ELSE 0 BY <1>12, <2>2, <2>3
    <2>6. /\ g[q + 1] = b + (IF k = 1 THEN x ELSE 0)
          /\ g[q + 2] = g[q + 1] + (IF k = 2 THEN x ELSE 0)
          /\ g[q + 3] = g[q + 2] + (IF k = 3 THEN x ELSE 0)
          /\ g[q + 4] = g[q + 3]
          /\ g[q + 5] = g[q + 4] + (IF k = 5 THEN x ELSE 0)
      <3>1. 1 - 1 = 0 /\ 2 - 1 = 1 /\ 3 - 1 = 2 /\ 4 - 1 = 3 /\ 5 - 1 = 4 OBVIOUS
      <3>2. /\ g[q + 1] = g[q + 0] + (IF 1 = k THEN x ELSE 0)
            /\ g[q + 2] = g[q + 1] + (IF 2 = k THEN x ELSE 0)
            /\ g[q + 3] = g[q + 2] + (IF 3 = k THEN x ELSE 0)
            /\ g[q + 4] = g[q + 3] + (IF 4 = k THEN x ELSE 0)
            /\ g[q + 5] = g[q + 4] + (IF 5 = k THEN x ELSE 0)
        BY <2>5, <3>1
      <3> DEFINE g1 == g[q + 1]
                 g2 == g[q + 2]
                 g3 == g[q + 3]
                 g4 == g[q + 4]
                 g5 == g[q + 5]
      <3>3. /\ g1 = b + (IF 1 = k THEN x ELSE 0)
            /\ g2 = g1 + (IF 2 = k THEN x ELSE 0)
            /\ g3 = g2 + (IF 3 = k THEN x ELSE 0)
            /\ g4 = g3 + (IF 4 = k THEN x ELSE 0)
            /\ g5 = g4 + (IF 5 = k THEN x ELSE 0)
        BY <2>1, <2>4, <3>2
      <3> HIDE DEF g1, g2, g3, g4, g5
      <3>4. /\ g1 = b + (IF k = 1 THEN x ELSE 0)
            /\ g2 = g1 + (IF k = 2 THEN x ELSE 0)
            /\ g3 = g2 + (IF k = 3 THEN x ELSE 0)
            /\ g4 = g3
            /\ g5 = g4 + (IF k = 5 THEN x ELSE 0)
        BY <2>1, <3>3
      <3>5. QED BY <3>4 DEF g1, g2, g3, g4, g5
    <2>7. g[q + 5] = b + x BY <2>1, <2>6
    <2>8. QED BY <2>1, <2>4, <2>7
  <1>15. n \in G
    <2> HIDE DEF G
    <2>1. \A i \in 0 .. n : i \in G BY <1>1, <1>13, <1>14, UpTo
    <2>2. n \in 0 .. n BY <1>1
    <2>3. QED BY <2>1, <2>2
  <1>16. Sum(t) = Sum(s) BY <1>10, <1>12, <1>15
  <1>17. QED BY <1>8, <1>9, <1>16

\* As the list grows the number of a device does.
LEMMA ValueGrows ==
  ASSUME NEW a, NEW b, IoOK(a), IoOK(b), Growing(a, b), NEW d, NEW o \in IoOps
  PROVE  ValueOf(a, d, o) <= ValueOf(b, d, o)
  <1> DEFINE m == Len(a)
             n == Len(b)
             s == [i \in 1 .. m |-> IF a[i].dev = d THEN a[i].n[o] ELSE 0]
             t == [i \in 1 .. n |-> IF b[i].dev = d THEN b[i].n[o] ELSE 0]
  <1>1. /\ m \in Nat /\ n \in Nat /\ DOMAIN a = 1 .. m /\ DOMAIN b = 1 .. n
        /\ \A i \in 1 .. m : a[i] \in Records
        /\ \A i \in 1 .. n : b[i] \in Records
    BY DEF IoOK
  <1>2. \A r \in Records : r.n[o] \in Nat BY DEF Records
  <1>3. m <= n /\ \A i \in 1 .. m : a[i].dev = b[i].dev /\ a[i].n[o] <= b[i].n[o] BY <1>1 DEF Growing
  <1> HIDE DEF m, n
  <1>4. s \in [1 .. m -> Nat] /\ t \in [1 .. n -> Nat] BY <1>1, <1>2
  <1>5. \A i \in 1 .. m : s[i] <= t[i]
    <2>1. \A i \in 1 .. m : i \in 1 .. n BY <1>1, <1>3
    <2>2. QED BY <1>1, <1>2, <1>3, <2>1
  <1> HIDE DEF s, t
  <1>6. Sum(s) <= Sum(t) BY <1>1, <1>3, <1>4, <1>5, SumLe
  <1>7. ValueOf(a, d, o) = Sum(s) /\ ValueOf(b, d, o) = Sum(t) BY <1>1 DEF ValueOf, s, t
  <1>8. QED BY <1>6, <1>7

\* blkio_stats_v1: for each device and operation the numbers of both lists a
\* call reports lie between those the kernel had when the call began and those
\* it has when the call is done, whichever of the two policies they were taken
\* from, unless the statistics were reset or the cgroup was removed meanwhile.
THEOREM ServicesCorrect == Spec => []ServicesBracketed
  <1>1. ServicesInv => ServicesBracketed
    <2> DEFINE bytes == blkio_stats_v1.io_service_bytes
               serviced == blkio_stats_v1.io_serviced
    <2>1. SUFFICES ASSUME ServicesInv, status = "done", Intact({"io"}), ~v2, AllFit,
                          NEW d, NEW o \in {"Read", "Write", "Sync", "Total"}
          PROVE  /\ Between(ValueOf(start.io, d, o), ListedOf(bytes, d, o), ValueOf(kernel.io, d, o))
                 /\ Between(ValueOf(start.io, d, o), ListedOf(serviced, d, o), ValueOf(kernel.io, d, o))
      <3> HIDE DEF bytes, serviced
      <3>1. Complete({"io"}) <=> status = "done" /\ Intact({"io"}) BY DEF Complete, Intact
      <3>2. QED BY <3>1 DEF ServicesBracketed, ValueOf, ListedOf, bytes, serviced
    <2> HIDE DEF bytes, serviced
    <2> DEFINE first == got[<<"cfq", "io_serviced", "recursive">>]
               policy == IF first = << >> THEN "throttle" ELSE "cfq"
               scope == IF policy = "cfq" THEN "recursive" ELSE "own"
               a == got[<<policy, "io_service_bytes", scope>>]
               b == got[<<policy, "io_serviced", scope>>]
    <2>2. bytes = from_io_services(a) /\ serviced = from_io_services(b)
      BY DEF bytes, serviced, blkio_stats_v1
    <2>3. \A f \in ServiceFields : f \in DOMAIN got
      BY <2>1, AllCounted DEF ServicesInv, CountsInv, Needed
    <2>4. \A f \in ServiceFields :
            IF f[1] = "cfq" /\ ~cfq THEN got[f] = << >>
            ELSE IoOK(got[f]) /\ Growing(start.io, got[f]) /\ Growing(got[f], kernel.io)
      BY <2>1, <2>3 DEF ServicesInv, ServicesOK
    <2>5. ASSUME NEW x \in {a, b} PROVE IoOK(x) /\ Growing(start.io, x) /\ Growing(x, kernel.io)
      <3>1. CASE first = << >>
        <4>1. a = got[<<"throttle", "io_service_bytes", "own">>] /\ b = got[<<"throttle", "io_serviced", "own">>]
          BY <3>1
        <4>2. PICK f \in ServiceFields : f[1] = "throttle" /\ x = got[f] BY <4>1 DEF ServiceFields
        <4>3. QED BY <2>4, <4>2
      <3>2. CASE first # << >>
        <4>1. a = got[<<"cfq", "io_service_bytes", "recursive">>] /\ b = got[<<"cfq", "io_serviced", "recursive">>]
          BY <3>2
        <4>2. cfq
          <5> DEFINE f == <<"cfq", "io_serviced", "recursive">>
          <5>1. f \in ServiceFields /\ f[1] = "cfq" BY DEF ServiceFields
          <5>2. got[f] # << >> BY <3>2
          <5> HIDE DEF f
          <5>3. QED BY <2>4, <5>1, <5>2
        <4>3. PICK f \in ServiceFields : x = got[f] BY <4>1 DEF ServiceFields
        <4>4. QED BY <2>4, <4>2, <4>3
      <3>3. QED BY <3>1, <3>2
    <2>6. IoOK(start.io) /\ IoOK(kernel.io) BY <2>1 DEF ServicesInv, CountsInv, SinceOK, CountsOK
    <2> HIDE DEF a, b
    <2>7. PICK k \in {1, 2, 3, 5} : o = Ops5[k]
      <3>1. Ops5[1] = "Read" /\ Ops5[2] = "Write" /\ Ops5[3] = "Sync" /\ Ops5[5] = "Total" BY DEF Ops5
      <3>2. QED BY <3>1
    <2>8. ASSUME NEW x \in {a, b}
          PROVE  Between(ValueOf(start.io, d, o), ListedOf(from_io_services(x), d, o), ValueOf(kernel.io, d, o))
      <3>1. IoOK(x) /\ Growing(start.io, x) /\ Growing(x, kernel.io) BY <2>5
      <3>2. ListedOf(from_io_services(x), d, o) = ValueOf(x, d, o) BY <2>7, <3>1, ListedValue
      <3>3. o \in IoOps BY DEF IoOps
      <3>4. ValueOf(start.io, d, o) <= ValueOf(x, d, o) /\ ValueOf(x, d, o) <= ValueOf(kernel.io, d, o)
        BY <2>6, <3>1, <3>3, ValueGrows
      <3>5. QED BY <3>2, <3>4 DEF Between
    <2>9. QED BY <2>2, <2>8
  <1>2. QED BY <1>1, ServicesInvariant, PTL

-----------------------------------------------------------------------------
(***************************************************************************)
(* The call does not panic: only four parsers unwrap what they read, and   *)
(* each of them reads one kind of file, whose text it can take.            *)
(***************************************************************************)

\* The parsers that report an error instead.
LEMMA SafeParsers ==
  ASSUME NEW as \in Safe, NEW c
  PROVE  Parse(as, c) # Panic
  <1>1. Err # Panic /\ \A v : Ok(v) # Panic BY DEF Err, Ok, Panic
  <1>2. read_u64_from(c) # Panic /\ read_i64_from(c) # Panic BY <1>1 DEF read_u64_from, read_i64_from
  <1>3. parse_max_value(c) # Panic BY <1>1, <1>2 DEF parse_max_value
  <1>4. parse_memory_stat(c, Names) # Panic /\ flat_keyed_to_hashmap(c, "fail") # Panic
    BY <1>1 DEF parse_memory_stat, flat_keyed_to_hashmap
  <1>5. parse_io_service(c) # Panic BY <1>1 DEF parse_io_service
  <1>6. parse_io_service_total(c) # Panic BY <1>1 DEF parse_io_service_total
  <1>7. Parse("first", c) # Panic
    <2> DEFINE v == flat_keyed_to_vec(c)[2]
    <2>1. Parse("first", c) = IF v = << >> THEN Err ELSE Ok(v[1][2]) BY DEF Parse
    <2> HIDE DEF v
    <2>2. QED BY <1>1, <2>1
  <1>8. /\ Parse("u64", c) = read_u64_from(c) /\ Parse("i64", c) = read_i64_from(c)
        /\ Parse("max", c) = parse_max_value(c) /\ Parse("text", c) = Ok(c)
        /\ Parse("stat", c) = parse_memory_stat(c, Names)
        /\ Parse("fail", c) = flat_keyed_to_hashmap(c, "fail")
        /\ Parse("io_service", c) = parse_io_service(c)
        /\ Parse("io_service_total", c) = parse_io_service_total(c)
    BY DEF Parse
  <1>9. as \in {"u64", "i64", "max", "text", "stat", "fail", "first", "io_service", "io_service_total"} BY DEF Safe
  <1>10. QED BY <1>1, <1>2, <1>3, <1>4, <1>5, <1>6, <1>7, <1>8, <1>9

\* memory.numa_stat has eight lines, each with three tokens.
LEMMA NumaSafe == parse_numa_stat(NumaText) # Panic
  <1> DEFINE c == NumaText
             t == FlattenSeq(c)
             a == <<Pair("total", Sum(kernel.numa)), Pair("N0", kernel.numa[1]), Pair("N1", kernel.numa[2])>>
             T == {Pair("total", Sum(kernel.numa)), Pair("N0", kernel.numa[1]), Pair("N1", kernel.numa[2])}
  <1>1. Len(c) = 8 /\ \A i \in 1 .. 8 : c[i] = a BY DEF NumaText
  <1>2. a \in Seq(T) /\ Len(a) = 3 OBVIOUS
  <1>3. PICK f : t = f[Len(c)] /\ \A i \in 1 .. Len(c) : f[i] = IF i = 1 THEN c[i] ELSE f[i - 1] \o c[i]
    <2> HIDE DEF c
    <2>1. Len(c) \in Nat /\ Len(c) # 0 BY <1>1
    <2>2. QED BY <2>1, FlattenSteps, Zenon
  <1> HIDE DEF c, t, a, T
  <1>4. Len(t) = 24
    <2> DEFINE Long(i, n) == f[i] \in Seq(T) /\ Len(f[i]) = n
    <2>1. f[1] = a BY <1>1, <1>3
    <2>2. \A i \in 2 .. 8 : f[i] = f[i - 1] \o a
      <3>1. \A i \in 2 .. 8 : i \in 1 .. 8 /\ i # 1 OBVIOUS
      <3>2. QED BY <1>1, <1>3, <3>1
    <2>3. ASSUME NEW i \in 2 .. 8, NEW n \in Nat, Long(i - 1, n) PROVE Long(i, n + 3)
      <3> DEFINE g == f[i - 1]
      <3>1. g \in Seq(T) /\ Len(g) = n /\ f[i] = g \o a BY <2>2, <2>3
      <3> HIDE DEF g
      <3>2. g \o a \in Seq(T) /\ Len(g \o a) = Len(g) + Len(a)
        <4>1. g \in Seq(T) /\ a \in Seq(T) BY <1>2, <3>1
        <4>2. QED BY <4>1, JoinParts
      <3>3. Len(g \o a) = n + 3 BY <1>2, <3>1, <3>2
      <3>4. QED BY <3>1, <3>2, <3>3
    <2>4. Long(1, 3) BY <1>2, <2>1
    <2> HIDE DEF Long
    <2>5. Long(2, 6) BY <2>3, <2>4
    <2>6. Long(3, 9) BY <2>3, <2>5
    <2>7. Long(4, 12) BY <2>3, <2>6
    <2>8. Long(5, 15) BY <2>3, <2>7
    <2>9. Long(6, 18) BY <2>3, <2>8
    <2>10. Long(7, 21) BY <2>3, <2>9
    <2>11. Long(8, 24) BY <2>3, <2>10
    <2>12. QED BY <1>1, <1>3, <2>11 DEF Long
  <1>5. ~(Len(t) < 8) /\ ~(Len(c) < 4) BY <1>1, <1>4
  <1>6. QED BY <1>5 DEF parse_numa_stat, Ok, Panic, c, t

\* memory.oom_control has a number after each of its three words.
LEMMA OomSafe == parse_oom_control(OomText) # Panic
  <1> DEFINE c == OomText
             t == FlattenSeq(c)
             T == {Word("oom_kill_disable"), Word("under_oom"), Word("oom_kill"), Num(0)}
             a == <<Word("oom_kill_disable"), Num(0)>>
             b == <<Word("under_oom"), Num(0)>>
             d == <<Word("oom_kill"), Num(0)>>
  <1>1. c = <<a, b, d>> BY DEF OomText
  <1>2. Len(c) = 3 /\ c[1] = a /\ c[2] = b /\ c[3] = d BY <1>1
  <1>3. PICK f : t = f[Len(c)] /\ \A i \in 1 .. Len(c) : f[i] = IF i = 1 THEN c[i] ELSE f[i - 1] \o c[i]
    <2> HIDE DEF c
    <2>1. Len(c) \in Nat /\ Len(c) # 0 BY <1>2
    <2>2. QED BY <2>1, FlattenSteps, Zenon
  <1> HIDE DEF c
  <1>4. f[1] = a /\ f[2] = f[1] \o b /\ f[3] = f[2] \o d /\ t = f[3]
    <2>1. 2 - 1 = 1 /\ 3 - 1 = 2 /\ 1 \in 1 .. 3 /\ 2 \in 1 .. 3 /\ 3 \in 1 .. 3 OBVIOUS
    <2> HIDE DEF a, b, d, t
    <2>2. QED BY <1>2, <1>3, <2>1
  <1> HIDE DEF t
  <1>5. t[2] = Num(0) /\ t[4] = Num(0) /\ t[6] = Num(0)
    <2>1. \A x \in {a, b, d} : x \in Seq(T) /\ Len(x) = 2 /\ x[2] = Num(0)
      <3>1. ASSUME NEW w \in T PROVE <<w, Num(0)>> \in Seq(T) /\ Len(<<w, Num(0)>>) = 2 /\ <<w, Num(0)>>[2] = Num(0)
        <4>1. Num(0) \in T OBVIOUS
        <4> HIDE DEF T
        <4>2. QED BY <4>1
      <3>2. QED BY <3>1
    <2> DEFINE ab == a \o b
    <2>2. t = ab \o d BY <1>4
    <2> HIDE DEF a, b, d, T, t, ab
    <2>3. /\ ab \in Seq(T) /\ Len(ab) = Len(a) + Len(b) /\ (\A j \in 1 .. Len(a) : ab[j] = a[j])
          /\ \A j \in 1 .. Len(b) : ab[Len(a) + j] = b[j]
      BY <2>1, JoinParts DEF ab
    <2>4. Len(a) = 2 /\ Len(b) = 2 /\ 2 \in 1 .. 2 /\ 2 + 2 = 4 /\ 4 + 2 = 6 /\ 2 \in 1 .. 4 /\ 4 \in 1 .. 4 BY <2>1
    <2>5. Len(ab) = 4 /\ ab[2] = Num(0) /\ ab[4] = Num(0) BY <2>1, <2>3, <2>4
    <2>6. /\ \A j \in 1 .. Len(ab) : (ab \o d)[j] = ab[j]
          /\ \A j \in 1 .. Len(d) : (ab \o d)[Len(ab) + j] = d[j]
      <3>1. ab \in Seq(T) /\ d \in Seq(T) BY <2>1, <2>3
      <3>2. /\ ab \o d \in Seq(T) /\ Len(ab \o d) = Len(ab) + Len(d)
            /\ \A j \in 1 .. Len(ab) : (ab \o d)[j] = ab[j]
            /\ \A j \in 1 .. Len(d) : (ab \o d)[Len(ab) + j] = d[j]
        BY <3>1, JoinParts
      <3>3. QED BY <3>2
    <2>7. (ab \o d)[2] = ab[2] /\ (ab \o d)[4] = ab[4] /\ (ab \o d)[6] = d[2]
      <3> DEFINE x == ab \o d
      <3>1. (\A j \in 1 .. 4 : x[j] = ab[j]) /\ \A j \in 1 .. 2 : x[4 + j] = d[j] BY <2>1, <2>5, <2>6
      <3> HIDE DEF x
      <3>2. x[2] = ab[2] /\ x[4] = ab[4] BY ONLY <3>1
      <3>3. x[4 + 2] = d[2] BY ONLY <3>1
      <3>4. QED BY ONLY <2>4, <3>2, <3>3 DEF x
    <2>8. QED BY <2>1, <2>2, <2>5, <2>7
  <1>6. IsU64(Num(0)) BY DEF IsU64, Num
  <1>7. ~\E i \in {2, 4, 6} : i <= Len(t) /\ ~IsU64(t[i])
    <2>1. QED BY <1>5, <1>6
  <1>8. Ok([oom_kill_disable |-> (IF 2 > Len(t) THEN 0 ELSE t[2][2]) = 1,
            under_oom |-> (IF 4 > Len(t) THEN 0 ELSE t[4][2]) = 1,
            oom_kill |-> IF 6 > Len(t) THEN 0 ELSE t[6][2]]) # Panic
    BY DEF Ok, Panic
  <1>9. QED BY <1>7, <1>8 DEF parse_oom_control, t, c

\* io.stat has the device at the start of each line.
LEMMA IoStatSafe ==
  ASSUME IoOK(kernel.io), AllFit
  PROVE  parse_io_stat(IoStatText) # Panic
  <1> DEFINE c == IoStatText
             P == {i \in DOMAIN c : Len(c[i]) = 7}
             lines == Keep(c, P)
             io == kernel.io
             R == {c[j] : j \in DOMAIN c}
  <1>1. Len(io) \in Nat /\ DOMAIN io = 1 .. Len(io) BY DEF IoOK
  <1>2. DOMAIN c = DOMAIN io /\ c \in Seq(R)
    <2>1. DOMAIN c = DOMAIN io /\ c = [i \in DOMAIN io |-> c[i]] BY DEF IoStatText
    <2> HIDE DEF c, io
    <2>2. QED BY <1>1, <2>1
  <1>3. ASSUME NEW i \in DOMAIN c PROVE FitsI16(c[i][1][2])
    <2> DEFINE ops == <<"Read", "Write", "Read", "Write", "Discard", "Discard">>
               rest == [j \in 1 .. 6 |-> Pair(IoKeys[j], io[i].n[ops[j]])]
               S == {Dev(io[i].dev)} \union {rest[j] : j \in 1 .. 6}
               head == <<Dev(io[i].dev)>>
    <2>1. i \in DOMAIN io /\ c[i] = head \o rest BY <1>2 DEF IoStatText
    <2>2. head \in Seq(S) /\ rest \in Seq(S) /\ Len(head) = 1 /\ head[1] = Dev(io[i].dev)
      <3> HIDE DEF io, ops
      <3>1. QED OBVIOUS
    <2>3. (head \o rest)[1] = head[1]
      <3> HIDE DEF head, rest, S
      <3>1. \A j \in 1 .. Len(head) : (head \o rest)[j] = head[j] BY <2>2, JoinParts
      <3>2. QED BY <2>2, <3>1
    <2>4. c[i][1][2] = io[i].dev
      <3> DEFINE d == io[i].dev
      <3>1. head[1] = Dev(d) BY ONLY <2>2
      <3> HIDE DEF c, head, rest, d
      <3>2. c[i][1] = Dev(d) BY ONLY <2>1, <2>3, <3>1
      <3>3. Dev(d)[2] = d BY DEF Dev
      <3>4. c[i][1][2] = d BY ONLY <3>2, <3>3
      <3>5. QED BY ONLY <3>4 DEF d
    <2>5. QED BY <2>1, <2>4 DEF AllFit
  <1>4. \A i \in DOMAIN lines : lines[i] \in R
    <2> HIDE DEF c, P
    <2>1. QED BY <1>2, KeepLines
  <1>5. ~\E i \in DOMAIN lines : ~FitsI16(lines[i][1][2])
    <2> HIDE DEF lines, c
    <2>1. QED BY <1>3, <1>4
  <1>6. \A v : Ok(v) # Panic BY DEF Ok, Panic
  <1> HIDE DEF lines
  <1>7. Keep(c, {i \in DOMAIN c : Len(c[i]) = 7}) = lines BY DEF lines
  <1> HIDE DEF c, P
  <1>8. parse_io_stat(c) # Panic BY <1>5, <1>6, <1>7 DEF parse_io_stat
  <1>9. QED BY <1>8 DEF c

\* A part of two and a part of one after a sequence.
Longer(x, s, u, v, S) ==
  /\ x \in Seq(S) /\ Len(x) = Len(s) + 3
  /\ \A j \in 1 .. Len(s) : x[j] = s[j]
  /\ x[Len(s) + 1] = u[1] /\ x[Len(s) + 2] = u[2] /\ x[Len(s) + 3] = v[1]

\* Two lines and one appended to a text.
LEMMA TwoAndOne ==
  ASSUME NEW S, NEW s \in Seq(S), NEW u \in Seq(S), NEW v \in Seq(S), Len(u) = 2, Len(v) = 1
  PROVE  Longer((s \o u) \o v, s, u, v, S)
  <1> DEFINE n == Len(s)
             y == s \o u
             x == y \o v
  <1>1. /\ y \in Seq(S) /\ Len(y) = Len(s) + Len(u) /\ (\A j \in 1 .. Len(s) : y[j] = s[j])
        /\ \A j \in 1 .. Len(u) : y[Len(s) + j] = u[j]
    BY JoinParts
  <1> HIDE DEF y
  <1>2. /\ x \in Seq(S) /\ Len(x) = Len(y) + Len(v) /\ (\A j \in 1 .. Len(y) : x[j] = y[j])
        /\ \A j \in 1 .. Len(v) : x[Len(y) + j] = v[j]
    <2>1. y \in Seq(S) /\ v \in Seq(S) BY <1>1
    <2>2. /\ y \o v \in Seq(S) /\ Len(y \o v) = Len(y) + Len(v)
          /\ \A j \in 1 .. Len(y) : (y \o v)[j] = y[j]
          /\ \A j \in 1 .. Len(v) : (y \o v)[Len(y) + j] = v[j]
      BY <2>1, JoinParts
    <2>3. QED BY <2>2
  <1> HIDE DEF x
  <1>3. n \in Nat /\ Len(y) = n + 2 /\ Len(x) = n + 3 BY <1>1, <1>2
  <1>4. \A j \in 1 .. n : x[j] = s[j]
    <2>1. \A j \in 1 .. n : j \in 1 .. n + 2 BY <1>3
    <2>2. QED BY <1>1, <1>2, <1>3, <2>1
  <1>5. x[n + 1] = u[1] /\ x[n + 2] = u[2]
    <2>1. n + 1 \in 1 .. n + 2 /\ n + 2 \in 1 .. n + 2 /\ 1 \in 1 .. 2 /\ 2 \in 1 .. 2 BY <1>3
    <2>2. y[n + 1] = u[1] /\ y[n + 2] = u[2] BY <1>1, <2>1
    <2>3. QED BY <1>2, <1>3, <2>1, <2>2
  <1>6. x[n + 3] = v[1]
    <2>1. (n + 2) + 1 = n + 3 /\ 1 \in 1 .. 1 BY <1>3
    <2>2. x[(n + 2) + 1] = v[1] BY <1>2, <1>3, <2>1
    <2>3. QED BY <2>1, <2>2
  <1>7. QED BY <1>2, <1>3, <1>4, <1>5, <1>6 DEF x, y, Longer

\* Parts of two and of one in turn: what the numbers of one device are.
InThrees(t, ts, n, S) ==
  /\ t \in Seq(S) /\ Len(t) = 3 * n
  /\ \A i \in 1 .. n : /\ t[3 * (i - 1) + 1] = ts[2 * i - 1][1]
                       /\ t[3 * (i - 1) + 2] = ts[2 * i - 1][2]
                       /\ t[3 * (i - 1) + 3] = ts[2 * i][1]

\* A text made of two lines and one, again and again, by position.
LEMMA Triples ==
  ASSUME NEW n \in Nat, NEW S, NEW ts \in [1 .. 2 * n -> Seq(S)],
         \A i \in 1 .. n : Len(ts[2 * i - 1]) = 2 /\ Len(ts[2 * i]) = 1
  PROVE  InThrees(FlattenSeq(ts), ts, n, S)
  <1> DEFINE t == FlattenSeq(ts)
  <1>1. Len(ts) = 2 * n /\ 2 * n \in Nat
    <2> DEFINE U == Seq(S)
               k == 2 * n
    <2>1. k \in Nat OBVIOUS
    <2> HIDE DEF U, k
    <2>2. ts \in [1 .. k -> U] BY DEF U, k
    <2>3. Len(ts) = k BY <2>1, <2>2
    <2>4. QED BY <2>1, <2>3 DEF k
  <1>2. \A q \in 1 .. 2 * n : ts[q] \in Seq(S) OBVIOUS
  <1>3. CASE n = 0
    <2>1. Len(ts) = 0 BY <1>1, <1>3
    <2>2. t = ts BY <2>1 DEF FlattenSeq
    <2>3. DOMAIN ts = {} BY <1>3
    <2>4. t = << >> BY <2>2, <2>3
    <2>5. t \in Seq(S) /\ Len(t) = 3 * n /\ 1 .. n = {} BY <1>3, <2>4
    <2> HIDE DEF t
    <2>6. QED BY <2>5 DEF t, InThrees
  <1>4. CASE n # 0
    <2>1. PICK f : t = f[2 * n] /\ \A i \in 1 .. 2 * n : f[i] = IF i = 1 THEN ts[i] ELSE f[i - 1] \o ts[i]
      <3>1. Len(ts) \in Nat /\ Len(ts) # 0 BY <1>1, <1>4
      <3>2. \E f : /\ t = f[Len(ts)]
                   /\ \A i \in 1 .. Len(ts) : f[i] = IF i = 1 THEN ts[i] ELSE f[i - 1] \o ts[i]
        BY <3>1, FlattenSteps, Zenon
      <3>3. Len(ts) = 2 * n BY <1>1
      <3>4. QED BY <3>2, <3>3, Zenon
    <2> HIDE DEF t
    <2> DEFINE Good(i) ==
                 /\ f[2 * i] \in Seq(S) /\ Len(f[2 * i]) = 3 * i
                 /\ \A m \in 1 .. i : /\ f[2 * i][3 * (m - 1) + 1] = ts[2 * m - 1][1]
                                      /\ f[2 * i][3 * (m - 1) + 2] = ts[2 * m - 1][2]
                                      /\ f[2 * i][3 * (m - 1) + 3] = ts[2 * m][1]
               G == {i \in 0 .. n : i = 0 \/ Good(i)}
    <2>2. 0 \in G OBVIOUS
    <2>3. ASSUME NEW i \in 1 .. n, i - 1 \in G PROVE i \in G
      <3> DEFINE u == ts[2 * i - 1]
                 v == ts[2 * i]
                 a == IF i = 1 THEN << >> ELSE f[2 * (i - 1)]
                 x == (a \o u) \o v
      <3>1. /\ i \in Nat \ {0} /\ i \in 0 .. n /\ 2 * i - 1 \in 1 .. 2 * n /\ 2 * i \in 1 .. 2 * n
            /\ 2 * i - 1 = 2 * (i - 1) + 1 /\ 2 * i # 1
        OBVIOUS
      <3>2. u \in Seq(S) /\ v \in Seq(S) /\ Len(u) = 2 /\ Len(v) = 1 BY <1>2, <3>1
      <3>3. a \in Seq(S) /\ Len(a) = 3 * (i - 1)
        <4>1. CASE i = 1
          <5>1. a = << >> /\ 3 * (i - 1) = 0 BY <4>1
          <5>2. QED BY <5>1
        <4>2. CASE i # 1
          <5>1. i - 1 # 0 BY <4>2
          <5>2. Good(i - 1) BY <2>3, <5>1
          <5>3. QED BY <4>2, <5>2
        <4>3. QED BY <4>1, <4>2
      <3>4. f[2 * i] = x
        <4>1. f[2 * i] = f[2 * i - 1] \o v BY <2>1, <3>1
        <4>2. f[2 * i - 1] = a \o u
          <5>1. CASE i = 1
            <6>1. 2 * i - 1 = 1 BY <5>1
            <6>2. f[2 * i - 1] = u BY <2>1, <3>1, <6>1
            <6>3. a = << >> BY <5>1
            <6> HIDE DEF u, a
            <6>4. << >> \o u = u BY <3>2
            <6>5. QED BY <6>2, <6>3, <6>4
          <5>2. CASE i # 1
            <6>1. 2 * i - 1 # 1 /\ (2 * i - 1) - 1 = 2 * (i - 1) BY <3>1, <5>2
            <6>2. f[2 * i - 1] = f[(2 * i - 1) - 1] \o u BY <2>1, <3>1, <6>1
            <6>3. QED BY <5>2, <6>1, <6>2
          <5>3. QED BY <5>1, <5>2
        <4> HIDE DEF u, v, a
        <4>3. QED BY <4>1, <4>2
      <3>5. /\ x \in Seq(S) /\ Len(x) = Len(a) + 3 /\ (\A j \in 1 .. Len(a) : x[j] = a[j])
            /\ x[Len(a) + 1] = u[1] /\ x[Len(a) + 2] = u[2] /\ x[Len(a) + 3] = v[1]
        <4> HIDE DEF u, v, a
        <4>1. Longer((a \o u) \o v, a, u, v, S) BY <3>2, <3>3, TwoAndOne
        <4>2. QED BY <4>1 DEF Longer
      <3>6. Len(x) = 3 * i
        <4> HIDE DEF x, a
        <4>1. QED BY <3>1, <3>3, <3>5
      <3>7. ASSUME NEW m \in 1 .. i
            PROVE  /\ x[3 * (m - 1) + 1] = ts[2 * m - 1][1] /\ x[3 * (m - 1) + 2] = ts[2 * m - 1][2]
                   /\ x[3 * (m - 1) + 3] = ts[2 * m][1]
        <4>1. CASE m = i
          <5> HIDE DEF x, a
          <5>1. QED BY <3>3, <3>5, <4>1
        <4>2. CASE m # i
          <5>1. i # 1 /\ m \in 1 .. i - 1 /\ i - 1 # 0 BY <3>1, <4>2
          <5>2. a = f[2 * (i - 1)] /\ Good(i - 1) BY <2>3, <5>1
          <5>3. /\ a[3 * (m - 1) + 1] = ts[2 * m - 1][1] /\ a[3 * (m - 1) + 2] = ts[2 * m - 1][2]
                /\ a[3 * (m - 1) + 3] = ts[2 * m][1]
            BY <5>1, <5>2
          <5>4. \A j \in 1 .. 3 : 3 * (m - 1) + j \in 1 .. 3 * (i - 1) BY <3>1, <5>1
          <5> HIDE DEF x, a, Good
          <5>5. \A j \in 1 .. 3 : x[3 * (m - 1) + j] = a[3 * (m - 1) + j] BY <3>3, <3>5, <5>4
          <5>6. QED BY <5>3, <5>5
        <4>3. QED BY <4>1, <4>2
      <3> HIDE DEF x, a, u, v
      <3>8. Good(i) BY <3>4, <3>5, <3>6, <3>7
      <3>9. QED BY <3>1, <3>8
    <2>4. n \in G
      <3> HIDE DEF G
      <3>1. \A i \in 0 .. n : i \in G BY <2>2, <2>3, UpTo
      <3>2. n \in 0 .. n OBVIOUS
      <3>3. QED BY <3>1, <3>2
    <2>5. Good(n) BY <1>4, <2>4
    <2>6. QED BY <2>1, <2>5 DEF t, InThrees
  <1>5. QED BY <1>3, <1>4

\* The files of blkio that have three numbers for each device.
LEMMA DataSafe ==
  ASSUME IoOK(kernel.io), AllFit
  PROVE  parse_blkio_data(DataText) # Panic
  <1> DEFINE io == kernel.io
             n == Len(io)
             d(i) == io[i].dev
             x(i) == io[i].n["Total"]
             L == {Dev(d(i)) : i \in 1 .. n} \union {Num(x(i)) : i \in 1 .. n}
             c == DataText
             all == FlattenSeq(c)
             Numbers(y) == IF y[1] = "dev" THEN <<Num(y[2][1]), Num(y[2][2])>> ELSE <<y>>
             ts == [q \in DOMAIN all |-> Numbers(all[q])]
             t == FlattenSeq(ts)
             S == {Num(z) : z \in Nat}
  <1>1. n \in Nat /\ 2 * n \in Nat /\ DOMAIN io = 1 .. n BY DEF IoOK
  <1>2. \A i \in 1 .. n : d(i)[1] \in Nat /\ d(i)[2] \in Nat /\ x(i) \in Nat
    <2>1. \A r \in Records : r.dev[1] \in Nat /\ r.dev[2] \in Nat /\ r.n["Total"] \in Nat BY DEF Records, IoOps
    <2>2. \A i \in 1 .. n : io[i] \in Records BY DEF IoOK
    <2>3. QED BY <2>1, <2>2
  <1>3. \A i \in 1 .. n : FitsI16(d(i)) BY <1>1 DEF AllFit
  <1>4. c = [i \in 1 .. n |-> <<Dev(d(i)), Num(x(i))>>] BY <1>1 DEF DataText
  <1> HIDE DEF d, x, n, io
  <1>5. c \in [1 .. n -> Seq(L)] /\ \A i \in 1 .. n : Len(c[i]) = 2 /\ c[i][1] = Dev(d(i)) /\ c[i][2] = Num(x(i))
    <2> DEFINE U == Seq(L)
               p(i) == <<Dev(d(i)), Num(x(i))>>
    <2>1. \A i \in 1 .. n : p(i) \in U /\ Len(p(i)) = 2 /\ p(i)[1] = Dev(d(i)) /\ p(i)[2] = Num(x(i)) OBVIOUS
    <2>2. c = [i \in 1 .. n |-> p(i)] BY <1>4
    <2> HIDE DEF U, p, c
    <2>3. QED BY <2>1, <2>2 DEF U
  <1> HIDE DEF c, L
  <1>6. /\ Len(all) = 2 * n /\ all \in Seq(L)
        /\ \A i \in 1 .. n, j \in 1 .. 2 : 2 * (i - 1) + j \in 1 .. 2 * n /\ all[2 * (i - 1) + j] = c[i][j]
    <2>1. 2 \in {2, 5, 6} OBVIOUS
    <2>2. Flattened(FlattenSeq(c), c, 2, n, L) BY <1>1, <1>5, <2>1, Blocks
    <2>3. QED BY <2>2 DEF Flattened
  <1> HIDE DEF all
  <1>7. \A i \in 1 .. n : /\ all[2 * i - 1] = Dev(d(i)) /\ all[2 * i] = Num(x(i))
                          /\ 2 * i - 1 \in 1 .. 2 * n /\ 2 * i \in 1 .. 2 * n
    <2>1. ASSUME NEW i \in 1 .. n
          PROVE  /\ all[2 * i - 1] = Dev(d(i)) /\ all[2 * i] = Num(x(i))
                 /\ 2 * i - 1 \in 1 .. 2 * n /\ 2 * i \in 1 .. 2 * n
      <3>1. 2 * (i - 1) + 1 = 2 * i - 1 /\ 2 * (i - 1) + 2 = 2 * i BY <1>1
      <3>2. 1 \in 1 .. 2 /\ 2 \in 1 .. 2 OBVIOUS
      <3>3. all[2 * (i - 1) + 1] = c[i][1] /\ all[2 * (i - 1) + 2] = c[i][2]
            /\ 2 * (i - 1) + 1 \in 1 .. 2 * n /\ 2 * (i - 1) + 2 \in 1 .. 2 * n
        BY <1>6, <3>2
      <3>4. QED BY <1>5, <3>1, <3>3
    <2>2. QED BY <2>1
  <1>8. \A y \in L : Numbers(y) \in Seq(S)
    <2>1. ASSUME NEW i \in 1 .. n PROVE Numbers(Dev(d(i))) \in Seq(S) /\ Numbers(Num(x(i))) \in Seq(S)
      <3>1. Num(d(i)[1]) \in S /\ Num(d(i)[2]) \in S /\ Num(x(i)) \in S BY <1>2
      <3>2. Numbers(Dev(d(i))) = <<Num(d(i)[1]), Num(d(i)[2])>> BY DEF Dev
      <3>3. Numbers(Num(x(i))) = <<Num(x(i))>> BY DEF Num
      <3> HIDE DEF S, Numbers
      <3>4. QED BY <3>1, <3>2, <3>3
    <2> HIDE DEF Numbers, S
    <2>2. QED BY <2>1 DEF L
  <1>9. /\ ts \in [1 .. 2 * n -> Seq(S)]
        /\ \A i \in 1 .. n : ts[2 * i - 1] = Numbers(Dev(d(i))) /\ ts[2 * i] = Numbers(Num(x(i)))
    <2> DEFINE U == Seq(S)
               k == 2 * n
    <2>1. DOMAIN all = 1 .. k /\ \A q \in 1 .. k : all[q] \in L BY <1>1, <1>6
    <2>2. \A y \in L : Numbers(y) \in U BY <1>8
    <2> HIDE DEF U, Numbers
    <2>3. ts \in [1 .. k -> U] BY <2>1, <2>2
    <2>4. \A q \in 1 .. k : ts[q] = Numbers(all[q]) BY <2>1
    <2> HIDE DEF ts
    <2>5. QED BY <1>7, <2>3, <2>4 DEF U
  <1>10. \A i \in 1 .. n : /\ ts[2 * i - 1] = <<Num(d(i)[1]), Num(d(i)[2])>>
                           /\ ts[2 * i] = <<Num(x(i))>>
    <2>1. \A i : Numbers(Dev(d(i))) = <<Num(d(i)[1]), Num(d(i)[2])>> BY DEF Dev
    <2>2. \A i : Numbers(Num(x(i))) = <<Num(x(i))>> BY DEF Num
    <2> HIDE DEF ts, Numbers
    <2>3. QED BY <1>9, <2>1, <2>2
  <1> HIDE DEF ts, S, Numbers
  <1>11. \A i \in 1 .. n : /\ Len(ts[2 * i - 1]) = 2 /\ Len(ts[2 * i]) = 1
                           /\ ts[2 * i - 1][1] = Num(d(i)[1]) /\ ts[2 * i - 1][2] = Num(d(i)[2])
                           /\ ts[2 * i][1] = Num(x(i))
    <2>1. ASSUME NEW i \in 1 .. n
          PROVE  /\ Len(ts[2 * i - 1]) = 2 /\ Len(ts[2 * i]) = 1
                 /\ ts[2 * i - 1][1] = Num(d(i)[1]) /\ ts[2 * i - 1][2] = Num(d(i)[2])
                 /\ ts[2 * i][1] = Num(x(i))
      <3> DEFINE u == ts[2 * i - 1]
                 v == ts[2 * i]
      <3>1. u = <<Num(d(i)[1]), Num(d(i)[2])>> /\ v = <<Num(x(i))>> BY <1>10
      <3> HIDE DEF u, v
      <3>2. Len(u) = 2 /\ Len(v) = 1 /\ u[1] = Num(d(i)[1]) /\ u[2] = Num(d(i)[2]) /\ v[1] = Num(x(i)) BY <3>1
      <3>3. QED BY <3>2 DEF u, v
    <2>2. QED BY <2>1
  <1>12. /\ t \in Seq(S) /\ Len(t) = 3 * n
         /\ \A i \in 1 .. n : /\ t[3 * (i - 1) + 1] = ts[2 * i - 1][1]
                              /\ t[3 * (i - 1) + 2] = ts[2 * i - 1][2]
                              /\ t[3 * (i - 1) + 3] = ts[2 * i][1]
    <2>1. InThrees(FlattenSeq(ts), ts, n, S) BY <1>1, <1>9, <1>11, Triples
    <2>2. QED BY <2>1 DEF InThrees
  <1> HIDE DEF t
  <1>13. \A i \in 1 .. n : /\ t[3 * (i - 1) + 1] = Num(d(i)[1])
                           /\ t[3 * (i - 1) + 2] = Num(d(i)[2])
                           /\ t[3 * (i - 1) + 3] = Num(x(i))
    BY <1>11, <1>12
  <1>14. 1 .. (Len(t) \div 3) = 1 .. n /\ Len(t) % 3 = 0
    <2>1. (3 * n) \div 3 = n /\ (3 * n) % 3 = 0 BY <1>1
    <2>2. QED BY <1>12, <2>1
  <1>15. ASSUME NEW g \in 1 .. n
         PROVE  /\ ~\E i \in 1 .. 3 : ~IsU64(t[3 * (g - 1) + i])
                /\ FitsI16(<<t[3 * (g - 1) + 1][2], t[3 * (g - 1) + 2][2]>>)
    <2>1. \A z \in Nat : IsU64(Num(z)) /\ Num(z)[2] = z BY DEF IsU64, Num
    <2>2. \A i \in 1 .. 3 : IsU64(t[3 * (g - 1) + i])
      <3>1. IsU64(t[3 * (g - 1) + 1]) /\ IsU64(t[3 * (g - 1) + 2]) /\ IsU64(t[3 * (g - 1) + 3])
        BY <1>2, <1>13, <2>1
      <3>2. \A i \in 1 .. 3 : i = 1 \/ i = 2 \/ i = 3 OBVIOUS
      <3>3. QED BY <3>1, <3>2
    <2>3. t[3 * (g - 1) + 1][2] = d(g)[1] /\ t[3 * (g - 1) + 2][2] = d(g)[2] BY <1>2, <1>13, <2>1
    <2>4. FitsI16(<<d(g)[1], d(g)[2]>>) BY <1>3 DEF FitsI16
    <2>5. QED BY <2>2, <2>3, <2>4
  <1>16. Err # Panic /\ \A v : Ok(v) # Panic BY DEF Ok, Panic, Err
  <1>17. t = FlattenSeq([i \in DOMAIN all |-> IF all[i][1] = "dev" THEN <<Num(all[i][2][1]), Num(all[i][2][2])>>
                                             ELSE <<all[i]>>])
    BY DEF t, ts, Numbers
  <1>18. parse_blkio_data(c) # Panic
    <2> DEFINE groups == 1 .. (Len(t) \div 3)
               bad == \E g \in groups : (\E i \in 1 .. 3 : ~IsU64(t[3 * (g - 1) + i]))
                                          \/ ~FitsI16(<<t[3 * (g - 1) + 1][2], t[3 * (g - 1) + 2][2]>>)
               v == [g \in groups |-> [dev |-> <<t[3 * (g - 1) + 1][2], t[3 * (g - 1) + 2][2]>>,
                                       data |-> t[3 * (g - 1) + 3][2]]]
    <2>1. ~bad BY <1>14, <1>15
    <2>2. parse_blkio_data(c) = IF bad THEN Panic ELSE IF Len(t) % 3 # 0 THEN Err ELSE Ok(v)
      BY <1>17 DEF parse_blkio_data, all
    <2> HIDE DEF bad, v
    <2>3. QED BY <1>16, <2>1, <2>2
  <1>19. QED BY <1>18 DEF c

\* No read of the call panics while the numbers of the devices fit.
LEMMA ReadSafe ==
  ASSUME StateOK, CountsOK, AllFit, NEW r, Exact(r), Exists(r.file)
  PROVE  Parse(r.as, Text(r.file)) # Panic
  <1>1. r.as \in Safe \/ r.as \in Risky BY DEF Exact
  <1>2. IoOK(kernel.io) BY DEF CountsOK
  <1>3. CASE r.as \in Safe BY <1>3, SafeParsers
  <1>4. CASE r.as = "numa"
    <2>1. r.file = <<"memory", "numa_stat">> BY <1>4 DEF Exact
    <2>2. "numa_stat" \in DOMAIN MemoryFiles BY <2>1 DEF Exists, FilesOf
    <2>3. ~v2 BY <2>2 DEF MemoryFiles, CounterFiles
    <2>4. Text(r.file) = MemoryFiles["numa_stat"] BY <2>1 DEF Text, FilesOf
    <2>5. MemoryFiles["numa_stat"] = NumaText BY <2>2, <2>3 DEF MemoryFiles, CounterFiles
    <2>6. Parse("numa", NumaText) = parse_numa_stat(NumaText) BY DEF Parse
    <2>7. QED BY <1>4, <2>4, <2>5, <2>6, NumaSafe
  <1>5. CASE r.as = "oom"
    <2>1. r.file = <<"memory", "oom_control">> BY <1>5 DEF Exact
    <2>2. "oom_control" \in DOMAIN MemoryFiles BY <2>1 DEF Exists, FilesOf
    <2>3. ~v2 BY <2>2 DEF MemoryFiles, CounterFiles
    <2>4. Text(r.file) = MemoryFiles["oom_control"] BY <2>1 DEF Text, FilesOf
    <2>5. MemoryFiles["oom_control"] = OomText BY <2>2, <2>3 DEF MemoryFiles, CounterFiles
    <2>6. Parse("oom", OomText) = parse_oom_control(OomText) BY DEF Parse
    <2>7. QED BY <1>5, <2>4, <2>5, <2>6, OomSafe
  <1>6. CASE r.as = "io_stat"
    <2>1. r.file = <<"io", "stat">> BY <1>6 DEF Exact
    <2>2. FilesOf("io") = IF v2 THEN [m \in {"stat"} |-> IoStatText] ELSE << >> BY DEF FilesOf, Kinds
    <2>3. v2
      <3>1. "stat" \in DOMAIN FilesOf("io") BY <2>1 DEF Exists
      <3>2. DOMAIN << >> = {} OBVIOUS
      <3>3. QED BY <2>2, <3>1, <3>2
    <2>4. Text(r.file) = IoStatText BY <2>1, <2>2, <2>3 DEF Text
    <2>5. Parse("io_stat", IoStatText) = parse_io_stat(IoStatText) BY DEF Parse
    <2>6. QED BY <1>2, <1>6, <2>4, <2>5, IoStatSafe
  <1>7. CASE r.as = "blkio_data"
    <2>1. PICK p \in Policies : r.file = <<p, "data">> BY <1>7 DEF Exact
    <2>2. p \in {"cfq", "throttle"} /\ p \notin Kinds BY DEF Policies, Kinds
    <2>3. FilesOf(p) = [q \in IF v2 \/ (p = "cfq" /\ ~cfq) THEN {}
                             ELSE {"service", "data"} \union (IF p = "cfq" THEN {"weight"} ELSE {}) |->
                         CASE q = "service" -> ServiceText [] q = "data" -> DataText [] q = "weight" -> One(Num(1))]
      BY <2>2 DEF FilesOf, Kinds
    <2>4. "data" \in DOMAIN FilesOf(p) BY <2>1 DEF Exists
    <2>5. Text(r.file) = DataText BY <2>1, <2>3, <2>4 DEF Text
    <2>6. Parse("blkio_data", DataText) = parse_blkio_data(DataText) BY DEF Parse
    <2>7. QED BY <1>2, <1>7, <2>5, <2>6, DataSafe
  <1>8. QED BY <1>1, <1>3, <1>4, <1>5, <1>6, <1>7 DEF Risky

\* FsManager::stats: no parser panics on what the kernel writes, in any version
\* and at any moment of the call, as long as the numbers of the devices fit in
\* 16 bits.
THEOREM NoPanic == Spec => NeverPanics
  <1>1. CountsInv /\ [Next]_vars => (status = "running" /\ status' = "panic" => ~AllFit)
    <2> SUFFICES ASSUME CountsInv, [Next]_vars, status = "running", status' = "panic", AllFit PROVE FALSE
      OBVIOUS
    <2>1. ReadFile
      <3>1. ~Begin BY DEF Begin
      <3>2. World \/ UNCHANGED vars => status' = status BY WorldFrame DEF vars, CountsInv, StatsInv
      <3>3. QED BY <3>1, <3>2 DEF Next, World
    <2> DEFINE r == Reads[at]
               v == IF Exists(r.file) THEN Parse(r.as, Text(r.file)) ELSE Err
    <2>2. v = Panic BY <2>1 DEF ReadFile
    <2>3. Exact(r) BY <2>1, ReadExact DEF CountsInv, StatsInv
    <2>4. StateOK /\ CountsOK BY DEF CountsInv, StatsInv
    <2> HIDE DEF r
    <2>5. Exists(r.file) BY <2>2 DEF Err, Panic
    <2>6. QED BY <2>2, <2>3, <2>4, <2>5, ReadSafe
  <1>2. QED BY <1>1, CountsInvariant, PTL DEF Spec, NeverPanics

=============================================================================
