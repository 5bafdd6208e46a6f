------------------------------ MODULE FsSetProofs ------------------------------
(***************************************************************************)
(* What FsManager::set leaves in the files, and what it leaves alone.      *)
(***************************************************************************)
EXTENDS FsResourcesProofs

-----------------------------------------------------------------------------
(***************************************************************************)
(* Cells: a file, an entry of a file that is a table, or whether a device  *)
(* may be used.                                                            *)
(***************************************************************************)

Tables == Keyed \union {"devices"}
Keys(f) ==
  CASE f \in {"weight", "leaf"} -> Weighted
    [] f = "rate" -> Rates \X Disks
    [] f = "prio" -> Interfaces
    [] f = "devices" -> Devices
    [] OTHER -> {"all"}

Cell(g, f, k) ==
  CASE f \in Keyed -> g[f][k]
    [] f = "devices" -> IF k \in g.devices THEN "allow" ELSE "deny"
    [] OTHER -> g[f]

\* The step changes the cell, and what it leaves there (two: on v2).
Sets(x, f, k) ==
  \/ /\ x.do = "write"
     /\ \/ f \in Keyed /\ x.file = f /\ x.val.key = k
        \/ f = "devices" /\ x.file \in {"allow", "deny"} /\ k \in x.val
        \/ f \notin Tables /\ (x.file = f \/ (x.file = "cpu.max" /\ f \in {"quota", "period"}))
  \/ x.do = "cpu.max" /\ f \in {"quota", "period"} /\ x[f] # none

Clamped(n) == IF n < 2 THEN 2 ELSE IF n > 262144 THEN 262144 ELSE n

Leaves(two, x, f) ==
  CASE x.do = "cpu.max" -> IF f = "quota" /\ x[f] <= 0 THEN Unlimited ELSE x[f]
    [] x.do = "write" /\ f = "devices" -> x.file
    [] x.do = "write" /\ f \in Keyed ->
         IF f = "rate" /\ x.val.val = 0 THEN Unlimited ELSE x.val.val
    [] x.do = "write" /\ f \in {"quota", "period"} /\ x.file = "cpu.max" -> x.val[f]
    [] x.do = "write" /\ f \in {"mem", "swap", "soft", "kmem", "tcp", "high", "min"} -> Size(x.val)
    [] x.do = "write" /\ f = "shares" /\ ~two -> Clamped(x.val)
    [] x.do = "write" /\ f = "huge" -> x.val - (x.val % 2)
    [] x.do = "write" /\ f = "quota" /\ x.file = f /\ x.val <= 0 -> Unlimited
    [] x.do = "write" /\ f = "rt_runtime" /\ x.val < 0 -> Unlimited
    [] OTHER -> x.val

Unset(s, f, k) == \A i \in DOMAIN s : ~Sets(s[i], f, k)
Doomed(s) == \E i \in DOMAIN s : s[i].do = "fail"

\* The steps take the cell from u to v, if none of them fails.
Ends(two, s, f, k, u, v) ==
  \/ Doomed(s)
  \/ Unset(s, f, k) /\ u = v
  \/ \E i \in DOMAIN s : /\ Sets(s[i], f, k) /\ Leaves(two, s[i], f) = v
                         /\ \A j \in DOMAIN s : Sets(s[j], f, k) => j <= i

\* Whatever they leave there on the way is in V.
Mild(two, s, f, k, V) == \A i \in DOMAIN s : Sets(s[i], f, k) => Leaves(two, s[i], f) \in V

LEMMA Joined ==
  ASSUME NEW S, NEW s \in Seq(S), NEW t \in Seq(S)
  PROVE  /\ Len(s) \in Nat /\ DOMAIN s = 1 .. Len(s) /\ Len(t) \in Nat /\ DOMAIN t = 1 .. Len(t)
         /\ s \o t \in Seq(S) /\ DOMAIN (s \o t) = 1 .. Len(s) + Len(t)
         /\ \A i \in DOMAIN s : i \in DOMAIN (s \o t) /\ (s \o t)[i] = s[i]
         /\ \A i \in DOMAIN t : Len(s) + i \in DOMAIN (s \o t) /\ (s \o t)[Len(s) + i] = t[i]
         /\ \A i \in DOMAIN (s \o t) :
              \/ i \in DOMAIN s
              \/ i - Len(s) \in DOMAIN t /\ i > Len(s) /\ i = Len(s) + (i - Len(s))
  <1>1. /\ Len(s) \in Nat /\ DOMAIN s = 1 .. Len(s) /\ Len(t) \in Nat /\ DOMAIN t = 1 .. Len(t)
        /\ s \o t \in Seq(S) /\ Len(s \o t) = Len(s) + Len(t)
    OBVIOUS
  <1>2. DOMAIN (s \o t) = 1 .. Len(s) + Len(t) BY <1>1
  <1>3. \A i \in 1 .. Len(s) : i \in 1 .. Len(s) + Len(t) /\ (s \o t)[i] = s[i] BY <1>1
  <1>4. \A i \in 1 .. Len(t) : Len(s) + i \in 1 .. Len(s) + Len(t) /\ (s \o t)[Len(s) + i] = t[i]
    BY <1>1
  <1>5. \A i \in 1 .. Len(s) + Len(t) :
          \/ i \in 1 .. Len(s)
          \/ i - Len(s) \in 1 .. Len(t) /\ i > Len(s) /\ i = Len(s) + (i - Len(s))
    BY <1>1
  <1>6. QED BY <1>1, <1>2, <1>3, <1>4, <1>5

LEMMA UnsetConcat ==
  ASSUME NEW S, NEW s \in Seq(S), NEW t \in Seq(S), NEW f, NEW k
  PROVE  Unset(s \o t, f, k) <=> Unset(s, f, k) /\ Unset(t, f, k)
  <1>1. CASE Unset(s \o t, f, k)
    <2>1. \A i \in DOMAIN s : ~Sets(s[i], f, k) BY <1>1, Joined DEF Unset
    <2>2. ASSUME NEW i \in DOMAIN t PROVE ~Sets(t[i], f, k)
      <3>1. Len(s) + i \in DOMAIN (s \o t) /\ (s \o t)[Len(s) + i] = t[i] BY Joined
      <3>2. QED BY <1>1, <3>1 DEF Unset
    <2>3. QED BY <1>1, <2>1, <2>2 DEF Unset
  <1>2. ASSUME Unset(s, f, k), Unset(t, f, k) PROVE Unset(s \o t, f, k)
    <2>1. ASSUME NEW i \in DOMAIN (s \o t) PROVE ~Sets((s \o t)[i], f, k)
      <3>1. CASE i \in DOMAIN s BY <1>2, <3>1, Joined DEF Unset
      <3>2. CASE i - Len(s) \in DOMAIN t /\ i = Len(s) + (i - Len(s))
        <4>1. (s \o t)[i] = t[i - Len(s)] BY <3>2, Joined
        <4>2. QED BY <1>2, <3>2, <4>1 DEF Unset
      <3>3. QED BY <2>1, <3>1, <3>2, Joined
    <2>2. QED BY <2>1 DEF Unset
  <1>3. QED BY <1>1, <1>2

LEMMA MildConcat ==
  ASSUME NEW S, NEW s \in Seq(S), NEW t \in Seq(S), NEW f, NEW k, NEW two, NEW V,
         Mild(two, s, f, k, V), Mild(two, t, f, k, V)
  PROVE  Mild(two, s \o t, f, k, V)
  <1>1. ASSUME NEW i \in DOMAIN (s \o t), Sets((s \o t)[i], f, k)
        PROVE  Leaves(two, (s \o t)[i], f) \in V
    <2>1. CASE i \in DOMAIN s
      <3>1. (s \o t)[i] = s[i] BY <2>1, Joined
      <3>2. QED BY <1>1, <2>1, <3>1 DEF Mild
    <2>2. CASE i - Len(s) \in DOMAIN t /\ i = Len(s) + (i - Len(s))
      <3>1. (s \o t)[i] = t[i - Len(s)] BY <2>2, Joined
      <3>2. QED BY <1>1, <2>2, <3>1 DEF Mild
    <2>3. QED BY <1>1, <2>1, <2>2, Joined
  <1>2. QED BY <1>1 DEF Mild

LEMMA EndsConcat ==
  ASSUME NEW S, NEW s \in Seq(S), NEW t \in Seq(S), NEW f, NEW k, NEW two, NEW u, NEW v, NEW w,
         Ends(two, s, f, k, u, v), Ends(two, t, f, k, v, w)
  PROVE  Ends(two, s \o t, f, k, u, w)
  <1>1. CASE Doomed(s)
    <2>1. PICK i \in DOMAIN s : s[i].do = "fail" BY <1>1 DEF Doomed
    <2>2. i \in DOMAIN (s \o t) /\ (s \o t)[i] = s[i] BY Joined
    <2>3. QED BY <2>1, <2>2 DEF Ends, Doomed
  <1>2. CASE Doomed(t)
    <2>1. PICK i \in DOMAIN t : t[i].do = "fail" BY <1>2 DEF Doomed
    <2>2. Len(s) + i \in DOMAIN (s \o t) /\ (s \o t)[Len(s) + i] = t[i] BY Joined
    <2>3. QED BY <2>1, <2>2 DEF Ends, Doomed
  <1>3. ASSUME NEW i \in DOMAIN t, Sets(t[i], f, k), Leaves(two, t[i], f) = w,
               \A j \in DOMAIN t : Sets(t[j], f, k) => j <= i
        PROVE  Ends(two, s \o t, f, k, u, w)
    <2>1. Len(s) + i \in DOMAIN (s \o t) /\ (s \o t)[Len(s) + i] = t[i] BY Joined
    <2>2. ASSUME NEW j \in DOMAIN (s \o t), Sets((s \o t)[j], f, k) PROVE j <= Len(s) + i
      <3>1. CASE j \in DOMAIN s
        <4>1. j \in 1 .. Len(s) /\ Len(s) \in Nat /\ i \in 1 .. Len(t) /\ Len(t) \in Nat BY <3>1, Joined
        <4>2. QED BY <4>1
      <3>2. CASE j - Len(s) \in DOMAIN t /\ j = Len(s) + (j - Len(s))
        <4>1. (s \o t)[j] = t[j - Len(s)] BY <3>2, Joined
        <4>2. j - Len(s) <= i BY <1>3, <2>2, <3>2, <4>1
        <4>3. /\ j \in 1 .. Len(s) + Len(t) /\ Len(s) \in Nat /\ i \in 1 .. Len(t) /\ Len(t) \in Nat
          BY Joined
        <4>4. QED BY <4>2, <4>3
      <3>3. QED BY <2>2, <3>1, <3>2, Joined
    <2>3. QED BY <1>3, <2>1, <2>2 DEF Ends
  <1>4. CASE Unset(t, f, k) /\ v = w
    <2>1. CASE Unset(s, f, k) /\ u = v
      <3>1. Unset(s \o t, f, k) BY <1>4, <2>1, UnsetConcat
      <3>2. QED BY <1>4, <2>1, <3>1 DEF Ends
    <2>2. ASSUME NEW i \in DOMAIN s, Sets(s[i], f, k), Leaves(two, s[i], f) = v,
                 \A j \in DOMAIN s : Sets(s[j], f, k) => j <= i
          PROVE  Ends(two, s \o t, f, k, u, w)
      <3>1. i \in DOMAIN (s \o t) /\ (s \o t)[i] = s[i] BY Joined
      <3>2. ASSUME NEW j \in DOMAIN (s \o t), Sets((s \o t)[j], f, k) PROVE j <= i
        <4>1. CASE j \in DOMAIN s
          <5>1. (s \o t)[j] = s[j] BY <4>1, Joined
          <5>2. QED BY <2>2, <3>2, <4>1, <5>1
        <4>2. CASE j - Len(s) \in DOMAIN t /\ j = Len(s) + (j - Len(s))
          <5>1. (s \o t)[j] = t[j - Len(s)] BY <4>2, Joined
          <5>2. QED BY <1>4, <3>2, <4>2, <5>1 DEF Unset
        <4>3. QED BY <3>2, <4>1, <4>2, Joined
      <3>3. QED BY <1>4, <2>2, <3>1, <3>2 DEF Ends
    <2>3. QED BY <1>1, <2>1, <2>2 DEF Ends
  <1>5. QED BY <1>1, <1>2, <1>3, <1>4 DEF Ends

\* The first step and the others.
LEMMA FirstAndRest ==
  ASSUME NEW S, NEW s \in Seq(S), s # << >>
  PROVE  /\ Head(s) = s[1] /\ Head(s) \in S /\ Tail(s) \in Seq(S) /\ 1 \in DOMAIN s
         /\ \A i \in DOMAIN Tail(s) : i + 1 \in DOMAIN s /\ Tail(s)[i] = s[i + 1] /\ i \in Nat \ {0}
         /\ \A i \in DOMAIN s : i = 1 \/ (i - 1 \in DOMAIN Tail(s) /\ s[i] = Tail(s)[i - 1] /\ i \in Nat)
  <1>1. Len(s) \in Nat \ {0} /\ DOMAIN s = 1 .. Len(s) BY EmptySeq
  <1>2. Head(s) = s[1] /\ Head(s) \in S /\ Tail(s) \in Seq(S) /\ 1 \in DOMAIN s BY <1>1
  <1>3. Len(Tail(s)) = Len(s) - 1 /\ DOMAIN Tail(s) = 1 .. Len(s) - 1 BY <1>1
  <1>4. \A i \in 1 .. Len(s) - 1 : i + 1 \in 1 .. Len(s) /\ Tail(s)[i] = s[i + 1] /\ i \in Nat \ {0}
    BY <1>1, <1>3
  <1>5. ASSUME NEW i \in 1 .. Len(s), i # 1
        PROVE  i - 1 \in 1 .. Len(s) - 1 /\ s[i] = Tail(s)[i - 1] /\ i \in Nat
    <2>1. i - 1 \in 1 .. Len(s) - 1 /\ i = (i - 1) + 1 /\ i \in Nat BY <1>1, <1>5
    <2>2. QED BY <1>4, <2>1
  <1>6. QED BY <1>1, <1>2, <1>3, <1>4, <1>5

LEMMA UnsetTail ==
  ASSUME NEW S, NEW s \in Seq(S), s # << >>, NEW f, NEW k
  PROVE  Unset(s, f, k) <=> ~Sets(Head(s), f, k) /\ Unset(Tail(s), f, k)
  <1>1. ASSUME Unset(s, f, k) PROVE ~Sets(Head(s), f, k) /\ Unset(Tail(s), f, k)
    <2>1. \A i \in DOMAIN Tail(s) : ~Sets(Tail(s)[i], f, k) BY <1>1, FirstAndRest DEF Unset
    <2>2. QED BY <1>1, <2>1, FirstAndRest DEF Unset
  <1>2. ASSUME ~Sets(Head(s), f, k), Unset(Tail(s), f, k) PROVE Unset(s, f, k)
    <2>1. ASSUME NEW i \in DOMAIN s PROVE ~Sets(s[i], f, k)
      <3>1. CASE i = 1 BY <1>2, <3>1, FirstAndRest
      <3>2. CASE i # 1
        <4>1. i - 1 \in DOMAIN Tail(s) /\ s[i] = Tail(s)[i - 1] BY <3>2, FirstAndRest
        <4>2. QED BY <1>2, <4>1 DEF Unset
      <3>3. QED BY <3>1, <3>2
    <2>2. QED BY <2>1 DEF Unset
  <1>3. QED BY <1>1, <1>2

LEMMA MildTail ==
  ASSUME NEW S, NEW s \in Seq(S), s # << >>, NEW f, NEW k, NEW two, NEW V, Mild(two, s, f, k, V)
  PROVE  /\ Sets(Head(s), f, k) => Leaves(two, Head(s), f) \in V
         /\ Mild(two, Tail(s), f, k, V)
  <1>1. Sets(Head(s), f, k) => Leaves(two, Head(s), f) \in V BY FirstAndRest DEF Mild
  <1>2. ASSUME NEW i \in DOMAIN Tail(s), Sets(Tail(s)[i], f, k) PROVE Leaves(two, Tail(s)[i], f) \in V
    <2>1. i + 1 \in DOMAIN s /\ Tail(s)[i] = s[i + 1] BY FirstAndRest
    <2>2. QED BY <1>2, <2>1 DEF Mild
  <1>3. QED BY <1>1, <1>2 DEF Mild

\* The first step takes the cell half of the way.
LEMMA EndsTail ==
  ASSUME NEW S, NEW s \in Seq(S), s # << >>, NEW f, NEW k, NEW two, NEW u, NEW v,
         Ends(two, s, f, k, u, v), Head(s).do # "fail"
  PROVE  Ends(two, Tail(s), f, k, IF Sets(Head(s), f, k) THEN Leaves(two, Head(s), f) ELSE u, v)
  <1> DEFINE w == IF Sets(Head(s), f, k) THEN Leaves(two, Head(s), f) ELSE u
  <1>1. CASE Doomed(s)
    <2>1. PICK i \in DOMAIN s : s[i].do = "fail" BY <1>1 DEF Doomed
    <2>2. i # 1 BY <2>1, FirstAndRest
    <2>3. i - 1 \in DOMAIN Tail(s) /\ s[i] = Tail(s)[i - 1] BY <2>2, FirstAndRest
    <2>4. Doomed(Tail(s)) BY <2>1, <2>3 DEF Doomed
    <2>5. QED BY <2>4 DEF Ends
  <1>2. CASE Unset(s, f, k) /\ u = v
    <2>1. ~Sets(Head(s), f, k) /\ Unset(Tail(s), f, k) BY <1>2, UnsetTail
    <2>2. QED BY <1>2, <2>1 DEF Ends
  <1>3. ASSUME NEW i \in DOMAIN s, Sets(s[i], f, k), Leaves(two, s[i], f) = v,
               \A j \in DOMAIN s : Sets(s[j], f, k) => j <= i
        PROVE  Ends(two, Tail(s), f, k, w, v)
    <2>1. CASE i = 1
      <3>1. Sets(Head(s), f, k) /\ w = v BY <1>3, <2>1, FirstAndRest
      <3>2. ASSUME NEW j \in DOMAIN Tail(s) PROVE ~Sets(Tail(s)[j], f, k)
        <4>1. j + 1 \in DOMAIN s /\ Tail(s)[j] = s[j + 1] /\ j \in Nat \ {0} BY FirstAndRest
        <4>2. ~(j + 1 <= 1) BY <4>1
        <4>3. QED BY <1>3, <2>1, <4>1, <4>2
      <3>3. QED BY <3>1, <3>2 DEF Ends, Unset
    <2>2. CASE i # 1
      <3>1. i - 1 \in DOMAIN Tail(s) /\ s[i] = Tail(s)[i - 1] /\ i \in Nat BY <2>2, FirstAndRest
      <3>2. ASSUME NEW j \in DOMAIN Tail(s), Sets(Tail(s)[j], f, k) PROVE j <= i - 1
        <4>1. j + 1 \in DOMAIN s /\ Tail(s)[j] = s[j + 1] /\ j \in Nat \ {0} BY FirstAndRest
        <4>2. j + 1 <= i BY <1>3, <3>2, <4>1
        <4>3. QED BY <3>1, <4>1, <4>2
      <3>3. QED BY <1>3, <3>1, <3>2 DEF Ends
    <2>3. QED BY <2>1, <2>2
  <1>4. QED BY <1>1, <1>2, <1>3 DEF Ends

LEMMA EndsSame ==
  ASSUME NEW s, NEW f, NEW k, NEW two, NEW u, Unset(s, f, k)
  PROVE  Ends(two, s, f, k, u, u) /\ \A V : Mild(two, s, f, k, V)
  BY DEF Ends, Mild, Unset

\* One step.
LEMMA EndsOne ==
  ASSUME NEW x, NEW f, NEW k, NEW two, NEW u
  PROVE  /\ Ends(two, <<x>>, f, k, u, IF Sets(x, f, k) THEN Leaves(two, x, f) ELSE u)
         /\ Unset(<<x>>, f, k) <=> ~Sets(x, f, k)
         /\ \A V : Mild(two, <<x>>, f, k, V) <=> (Sets(x, f, k) => Leaves(two, x, f) \in V)
  <1>1. DOMAIN <<x>> = {1} /\ <<x>>[1] = x OBVIOUS
  <1>2. Unset(<<x>>, f, k) <=> ~Sets(x, f, k) BY <1>1 DEF Unset
  <1>3. \A V : Mild(two, <<x>>, f, k, V) <=> (Sets(x, f, k) => Leaves(two, x, f) \in V)
    BY <1>1 DEF Mild
  <1>4. CASE Sets(x, f, k)
    <2>1. \A j \in DOMAIN <<x>> : j <= 1 BY <1>1
    <2>2. QED BY <1>1, <1>2, <1>3, <1>4, <2>1 DEF Ends
  <1>5. CASE ~Sets(x, f, k) BY <1>2, <1>3, <1>5 DEF Ends
  <1>6. QED BY <1>4, <1>5

-----------------------------------------------------------------------------
(***************************************************************************)
(* The kernel.                                                             *)
(***************************************************************************)

Singles == Requested \ Tables

LEMMA SinglesDef ==
  /\ Singles = {"mem", "swap", "soft", "oom", "swappiness", "shares", "quota", "period", "pids", "huge",
                "cpus", "mems", "rt_runtime", "rt_period", "kmem", "tcp", "attr", "class", "high", "min"}
  /\ Requested = Singles \union {"weight", "leaf", "rate", "prio", "devices"}
  /\ Keyed = {"weight", "leaf", "rate", "prio"} /\ Requested \subseteq Files
  /\ \A f \in Singles : f \notin Keyed /\ f # "devices" /\ f \notin Tables /\ f # "cpu.max" /\ Keys(f) = {"all"}
  BY DEF Singles, Requested, Files, Tables, Keyed, Keys

\* An entry of a table.
LEMMA Entries ==
  ASSUME FilesOK(file), NEW f \in Keyed
  PROVE  DOMAIN file[f] = Keys(f)
  <1>1. f \in {"weight", "leaf", "rate", "prio"} /\ f \in Files BY DEF Keyed, Files
  <1>2. file[f] \in Held(f) BY <1>1 DEF FilesOK
  <1>4. CASE f = "weight" BY <1>2, <1>4, HeldTables DEF Keys
  <1>5. CASE f = "leaf" BY <1>2, <1>5, HeldTables DEF Keys
  <1>6. CASE f = "rate" BY <1>2, <1>6, HeldTables DEF Keys
  <1>7. CASE f = "prio" BY <1>2, <1>7, HeldTables DEF Keys
  <1>8. QED BY <1>1, <1>4, <1>5, <1>6, <1>7

LEMMA WrittenHuge == ASSUME NEW v PROVE Written("huge", v) = [file EXCEPT !["huge"] = v - (v % 2)]
  BY DEF Written, Keyed

LEMMA WrittenShares ==
  ASSUME ~v2, NEW v
  PROVE  Written("shares", v) = [file EXCEPT !["shares"] = Clamped(v)]
  <1>1. Written("shares", v) = [file EXCEPT !["shares"] = IF v < 2 THEN 2 ELSE IF v > 262144 THEN 262144 ELSE v]
    BY DEF Written, Keyed
  <1>2. QED BY <1>1 DEF Clamped

\* What a file that is not a table holds once it is written.
LEMMA WrittenSingle ==
  ASSUME v2 \in BOOLEAN, DOMAIN file = Files, NEW f \in Singles, NEW x, NEW v,
         x.do = "write", x.file = f, x.val = v, f = "quota" => v \in Int \ {0}
  PROVE  Written(f, v)[f] = Leaves(v2, x, f)
  <1>1. f \in Files /\ f \notin Keyed /\ f # "devices" /\ f # "cpu.max" BY SinglesDef
  <1>2. CASE f \in {"mem", "swap", "soft", "kmem", "tcp", "high", "min"}
    <2>1. Written(f, v) = [file EXCEPT ![f] = Size(v)] BY <1>2 DEF Written, Keyed
    <2>2. Leaves(v2, x, f) = Size(v) BY <1>1, <1>2 DEF Leaves
    <2> HIDE DEF Size
    <2>3. QED BY <1>1, <2>1, <2>2
  <1>3. CASE f = "shares"
    <2>1. CASE v2
      <3>1. Written(f, v) = [file EXCEPT ![f] = v] BY <1>3, <2>1 DEF Written, Keyed
      <3>2. Leaves(v2, x, f) = v BY <1>1, <1>3, <2>1 DEF Leaves
      <3>3. QED BY <1>1, <3>1, <3>2
    <2>2. CASE ~v2
      <3>1. Written("shares", v) = [file EXCEPT !["shares"] = Clamped(v)] BY <2>2, WrittenShares
      <3>2. Leaves(v2, x, f) = Clamped(v) BY <1>1, <1>3, <2>2 DEF Leaves
      <3>3. QED BY <1>1, <1>3, <3>1, <3>2
    <2>3. QED BY <2>1, <2>2
  <1>4. CASE f = "huge"
    <2> DEFINE c == v - (v % 2)
    <2>1. Written("huge", v) = [file EXCEPT !["huge"] = c] BY WrittenHuge
    <2>2. Leaves(v2, x, f) = c BY <1>1, <1>4 DEF Leaves
    <2> HIDE DEF c
    <2>3. QED BY <1>1, <1>4, <2>1, <2>2
  <1>5. CASE (f = "quota" /\ v <= 0) \/ (f = "rt_runtime" /\ v < 0)
    <2>0. f \in {"quota", "rt_runtime"} /\ v < 0 BY <1>5
    <2>1. Written(f, v) = [file EXCEPT ![f] = Unlimited] BY <2>0 DEF Written, Keyed
    <2>2. Leaves(v2, x, f) = Unlimited BY <1>1, <1>5 DEF Leaves
    <2>3. QED BY <1>1, <2>1, <2>2
  <1>6. CASE /\ f \notin {"mem", "swap", "soft", "kmem", "tcp", "high", "min", "shares", "huge"}
             /\ ~(f = "quota" /\ v <= 0) /\ ~(f = "rt_runtime" /\ v < 0)
    <2>0. ~(f \in {"quota", "rt_runtime"} /\ v < 0) BY <1>6
    <2>1. f \notin {"cpu.max", "allow", "deny", "freezer", "rate", "weight", "leaf", "prio"}
      BY <1>6, SinglesDef
    <2>2. Written(f, v) = [file EXCEPT ![f] = v] BY <1>6, <2>0, <2>1 DEF Written, Keyed
    <2>3. Leaves(v2, x, f) = v BY <1>1, <1>6 DEF Leaves
    <2>4. QED BY <1>1, <2>2, <2>3
  <1>7. QED BY <1>2, <1>3, <1>4, <1>5, <1>6

LEMMA WrittenCpuMax ==
  ASSUME DOMAIN file = Files, NEW f \in Files, NEW v
  PROVE  /\ f \in {"quota", "period"} => Written("cpu.max", v)[f] = v[f]
         /\ f \notin {"quota", "period"} => Written("cpu.max", v)[f] = file[f]
  <1>1. Written("cpu.max", v) = [file EXCEPT !.quota = v.quota, !.period = v.period] BY DEF Written, Keyed
  <1>2. QED BY <1>1 DEF Files

LEMMA WrittenDevices ==
  ASSUME DOMAIN file = Files, NEW g \in Names, NEW v
  PROVE  Written(g, v).devices = CASE g = "allow" -> file.devices \union v
                                   [] g = "deny" -> file.devices \ v
                                   [] OTHER -> file.devices
  <1>1. "devices" \in DOMAIN file BY DEF Files
  <1>2. CASE g \in {"allow", "deny"} BY <1>1, <1>2 DEF Written, Keyed
  <1>3. CASE g \in Keyed BY <1>1, <1>3 DEF Written, Keyed
  <1>4. CASE g \in {"mem", "swap", "soft", "kmem", "tcp", "high", "min"} BY <1>1, <1>4 DEF Written, Keyed
  <1>5. CASE g \in {"shares", "huge", "freezer"} BY <1>1, <1>5 DEF Written, Keyed
  <1>6. CASE g \in Numbers \ {"shares"} BY <1>1, <1>6 DEF Written, Keyed, Numbers
  <1>7. CASE g \in {"cpus", "mems"} BY <1>1, <1>7 DEF Written, Keyed
  <1>8. CASE g = "cpu.max"
    <2>1. "devices" \in Files BY DEF Files
    <2>2. Written("cpu.max", v)["devices"] = file["devices"] BY <2>1, WrittenCpuMax
    <2>3. QED BY <1>8, <2>2
  <1>9. QED BY <1>2, <1>3, <1>4, <1>5, <1>6, <1>7, <1>8 DEF Names, Keyed, Numbers

\* A write changes the cells that the step sets, and no other.
LEMMA WriteCell ==
  ASSUME v2 \in BOOLEAN, FilesOK(file), NEW x \in Puts(Names), x.do = "write",
         ~Refused(x.file, x.val),
         NEW f \in Requested, NEW k \in Keys(f)
  PROVE  Cell(Written(x.file, x.val), f, k) = IF Sets(x, f, k) THEN Leaves(v2, x, f) ELSE Cell(file, f, k)
  <1>1. DOMAIN file = Files /\ x.file \in Names BY PutsType DEF FilesOK
  <1>2. f \in Files /\ (f \in Keyed => f # "devices") BY SinglesDef
  <1>3. CASE f \in Keyed
    <2>1. f \notin {"devices", "quota", "period", "cpu.max"} /\ f \in Tables
      BY <1>3 DEF Keyed, Tables
    <2>2. Sets(x, f, k) <=> x.file = f /\ x.val.key = k BY <1>3, <2>1 DEF Sets
    <2>3. \A g : Cell(g, f, k) = g[f][k] BY <1>3, <2>1 DEF Cell
    <2>4. CASE x.file = f
      <3> DEFINE w == IF f = "rate" /\ x.val.val = 0 THEN Unlimited ELSE x.val.val
      <3>1. Leaves(v2, x, f) = w
        <4>1. f \in {"weight", "leaf", "rate", "prio"} BY <1>3 DEF Keyed
        <4>2. QED BY <4>1 DEF Leaves, Keyed
      <3>2. Written(f, x.val) = [file EXCEPT ![f] = [file[f] EXCEPT ![x.val.key] = w]]
        <4>1. CASE f = "rate"
          <5>1. Written("rate", x.val) =
                  [file EXCEPT !.rate[x.val.key] = IF x.val.val = 0 THEN Unlimited ELSE x.val.val]
            BY SMT DEF Written, Keyed
          <5>2. QED BY <4>1, <5>1
        <4>2. CASE f # "rate" BY <1>1, <1>2, <1>3, <4>2 DEF Written, Keyed
        <4>3. QED BY <4>1, <4>2
      <3>3. k \in DOMAIN file[f] BY <1>3, Entries
      <3> HIDE DEF w
      <3>4. Written(f, x.val)[f] = [file[f] EXCEPT ![x.val.key] = w] BY <1>1, <1>2, <3>2
      <3>5. Written(f, x.val)[f][k] = IF x.val.key = k THEN w ELSE file[f][k] BY <3>3, <3>4
      <3>6. QED BY <2>2, <2>3, <2>4, <3>1, <3>5
    <2>5. CASE x.file # f
      <3>1. Written(x.file, x.val)[f] = file[f]
        <4>1. CASE x.file = "cpu.max" BY <1>1, <1>2, <2>1, <4>1, WrittenCpuMax
        <4>2. CASE x.file # "cpu.max" BY <1>1, <1>2, <2>1, <2>5, <4>2, WrittenElsewhere
        <4>3. QED BY <4>1, <4>2
      <3>2. QED BY <2>2, <2>3, <2>5, <3>1
    <2>6. QED BY <2>4, <2>5
  <1>4. CASE f = "devices"
    <2>1. f \notin Keyed /\ f \in Tables BY <1>4 DEF Keyed, Tables
    <2>2. Sets(x, f, k) <=> x.file \in {"allow", "deny"} /\ k \in x.val BY <1>4, <2>1 DEF Sets
    <2>3. \A g : Cell(g, f, k) = IF k \in g.devices THEN "allow" ELSE "deny" BY <1>4, <2>1 DEF Cell
    <2>4. Leaves(v2, x, f) = x.file BY <1>4, <2>1 DEF Leaves
    <2>5. Written(x.file, x.val).devices = CASE x.file = "allow" -> file.devices \union x.val
                                             [] x.file = "deny" -> file.devices \ x.val
                                             [] OTHER -> file.devices
      BY <1>1, WrittenDevices
    <2>6. CASE x.file = "allow" BY <2>2, <2>3, <2>4, <2>5, <2>6
    <2>7. CASE x.file = "deny" BY <2>2, <2>3, <2>4, <2>5, <2>7
    <2>8. CASE x.file \notin {"allow", "deny"} BY <2>2, <2>3, <2>5, <2>8
    <2>9. QED BY <2>6, <2>7, <2>8
  <1>5. CASE f \in Singles
    <2>1. f \notin Keyed /\ f # "devices" /\ f \notin Tables /\ f # "cpu.max" BY <1>5, SinglesDef
    <2>2. Sets(x, f, k) <=> x.file = f \/ (x.file = "cpu.max" /\ f \in {"quota", "period"})
      BY <2>1 DEF Sets
    <2>3. \A g : Cell(g, f, k) = g[f] BY <2>1 DEF Cell
    <2>4. CASE x.file = f
      <3>0. f = "quota" => x.val \in Int \ {0}
        <4>1. CASE f = "quota"
          <5>1. x.val \in Values("quota") BY <2>4, <4>1, PutsType
          <5>2. x.val # 0 BY <2>4, <4>1 DEF Refused
          <5>3. QED BY <5>1, <5>2, ValuesDef DEF Numbers
        <4>2. QED BY <4>1
      <3>1. Written(f, x.val)[f] = Leaves(v2, x, f) BY <1>1, <1>5, <2>4, <3>0, WrittenSingle
      <3>2. QED BY <2>2, <2>3, <2>4, <3>1
    <2>5. CASE x.file = "cpu.max"
      <3>1. f \in {"quota", "period"} => Leaves(v2, x, f) = x.val[f] BY <2>1, <2>5 DEF Leaves
      <3>2. QED BY <1>1, <1>2, <2>1, <2>2, <2>3, <2>5, <3>1, WrittenCpuMax
    <2>6. CASE x.file # f /\ x.file # "cpu.max"
      <3>1. Written(x.file, x.val)[f] = file[f] BY <1>1, <1>2, <2>1, <2>6, WrittenElsewhere
      <3>2. QED BY <2>2, <2>3, <2>6, <3>1
    <2>7. QED BY <2>4, <2>5, <2>6
  <1>6. QED BY <1>3, <1>4, <1>5, SinglesDef

-----------------------------------------------------------------------------
(***************************************************************************)
(* The parts of set: each takes the files of F to what is asked for and    *)
(* leaves the others alone.                                                *)
(***************************************************************************)

Want(r, f, k) == Cell(Wanted(r, file), f, k)

\* Requests whose limits of memory set does not drop (FsResources).
Suits(r) == Handled(r) \/ {r.limit, r.swap, r.reservation} = {none}
Tame(r, f) == Distinct(r) /\ f # "devices" /\ (f = "swap" => Handled(r))

\* Steps of set; memory is read once.
SetSteps(s, F) ==
  /\ s \in Seq(Steps)
  /\ \A i \in DOMAIN s : s[i].do \in {"write", "cpu.max", "fail", "memory"}
  /\ \A i \in DOMAIN s : s[i].do = "memory" => "memory" \in F
  /\ \A i, j \in DOMAIN s : s[i].do = "memory" /\ s[j].do = "memory" => i = j

Reaches(s, r, f, k) ==
  /\ Suits(r) => Ends(v2, s, f, k, Cell(file, f, k), Want(r, f, k))
  /\ Tame(r, f) => Mild(v2, s, f, k, {Cell(file, f, k), Want(r, f, k)})

Piece(s, F, r) ==
  /\ SetSteps(s, F)
  /\ \A f \in Requested : \A k \in Keys(f) : IF f \in F THEN Reaches(s, r, f, k) ELSE Unset(s, f, k)

LEMMA SetStepsJoin ==
  ASSUME NEW s, NEW F, NEW t, NEW G, SetSteps(s, F), SetSteps(t, G), F \intersect G = {}
  PROVE  SetSteps(s \o t, F \union G)
  <1>1. s \in Seq(Steps) /\ t \in Seq(Steps) /\ s \o t \in Seq(Steps) BY Concat DEF SetSteps
  <1> DEFINE st == s \o t
  <1>2. /\ \A i \in DOMAIN s : i \in DOMAIN st /\ st[i] = s[i]
        /\ \A i \in DOMAIN st : \/ i \in DOMAIN s
                                \/ i - Len(s) \in DOMAIN t /\ i = Len(s) + (i - Len(s))
        /\ \A i \in DOMAIN t : Len(s) + i \in DOMAIN st /\ st[Len(s) + i] = t[i]
        /\ DOMAIN st = 1 .. Len(s) + Len(t) /\ Len(s) \in Nat /\ Len(t) \in Nat
    BY <1>1, Joined
  <1>3. ASSUME NEW i \in DOMAIN st
        PROVE  /\ st[i].do \in {"write", "cpu.max", "fail", "memory"}
               /\ st[i].do = "memory" =>
                    \/ "memory" \in F /\ i \in DOMAIN s /\ s[i].do = "memory"
                    \/ /\ "memory" \in G /\ i - Len(s) \in DOMAIN t /\ i = Len(s) + (i - Len(s))
                       /\ t[i - Len(s)].do = "memory"
    <2> HIDE DEF st
    <2>1. CASE i \in DOMAIN s
      <3>1. st[i] = s[i] BY <1>2, <2>1
      <3>2. QED BY <2>1, <3>1 DEF SetSteps
    <2>2. CASE i - Len(s) \in DOMAIN t /\ i = Len(s) + (i - Len(s))
      <3>1. st[i] = t[i - Len(s)] BY <1>2, <2>2
      <3>2. QED BY <2>2, <3>1 DEF SetSteps
    <2>3. QED BY <1>2, <1>3, <2>1, <2>2
  <1>4. ASSUME NEW i \in DOMAIN st, NEW j \in DOMAIN st, st[i].do = "memory", st[j].do = "memory"
        PROVE  i = j
    <2> HIDE DEF st
    <2>1. CASE "memory" \in F
      <3>1. "memory" \notin G BY <2>1
      <3>2. i \in DOMAIN s /\ s[i].do = "memory" /\ j \in DOMAIN s /\ s[j].do = "memory"
        BY <1>3, <1>4, <3>1
      <3>3. QED BY <3>2 DEF SetSteps
    <2>2. CASE "memory" \notin F
      <3> DEFINE a == i - Len(s)
                 b == j - Len(s)
      <3>1. /\ a \in DOMAIN t /\ i = Len(s) + a /\ t[a].do = "memory"
            /\ b \in DOMAIN t /\ j = Len(s) + b /\ t[b].do = "memory"
        BY <1>3, <1>4, <2>2
      <3> HIDE DEF a, b
      <3>2. a = b BY <3>1 DEF SetSteps
      <3>3. QED BY <3>1, <3>2
    <2>3. QED BY <2>1, <2>2
  <1> HIDE DEF st
  <1>5. QED BY <1>1, <1>3, <1>4 DEF SetSteps, st

LEMMA PieceJoin ==
  ASSUME NEW s, NEW F, NEW t, NEW G, NEW r, Piece(s, F, r), Piece(t, G, r), F \intersect G = {}
  PROVE  Piece(s \o t, F \union G, r)
  <1>1. s \in Seq(Steps) /\ t \in Seq(Steps) BY DEF Piece, SetSteps
  <1>2. SetSteps(s \o t, F \union G) BY SetStepsJoin DEF Piece
  <1>3. ASSUME NEW f \in Requested, NEW k \in Keys(f)
        PROVE  IF f \in F \union G THEN Reaches(s \o t, r, f, k) ELSE Unset(s \o t, f, k)
    <2> DEFINE u == Cell(file, f, k)
               v == Want(r, f, k)
    <2>1. CASE f \in F
      <3>1. Reaches(s, r, f, k) /\ Unset(t, f, k) BY <2>1 DEF Piece
      <3>2. Ends(v2, t, f, k, v, v) /\ Mild(v2, t, f, k, {u, v}) BY <3>1, EndsSame
      <3>3. Suits(r) => Ends(v2, s \o t, f, k, u, v) BY <1>1, <3>1, <3>2, EndsConcat DEF Reaches
      <3>4. Tame(r, f) => Mild(v2, s \o t, f, k, {u, v}) BY <1>1, <3>1, <3>2, MildConcat DEF Reaches
      <3>5. QED BY <2>1, <3>3, <3>4 DEF Reaches
    <2>2. CASE f \in G
      <3>1. Reaches(t, r, f, k) /\ Unset(s, f, k) BY <2>2 DEF Piece
      <3>2. Ends(v2, s, f, k, u, u) /\ Mild(v2, s, f, k, {u, v}) BY <3>1, EndsSame
      <3>3. Suits(r) => Ends(v2, s \o t, f, k, u, v) BY <1>1, <3>1, <3>2, EndsConcat DEF Reaches
      <3>4. Tame(r, f) => Mild(v2, s \o t, f, k, {u, v}) BY <1>1, <3>1, <3>2, MildConcat DEF Reaches
      <3>5. QED BY <2>2, <3>3, <3>4 DEF Reaches
    <2>3. CASE f \notin F \union G
      <3>1. Unset(s, f, k) /\ Unset(t, f, k) BY <2>3 DEF Piece
      <3>2. QED BY <1>1, <2>3, <3>1, UnsetConcat
    <2>4. QED BY <2>1, <2>2, <2>3
  <1>4. QED BY <1>2, <1>3 DEF Piece

\* Nothing to do.
LEMMA PieceEmpty ==
  ASSUME NEW F, NEW r, \A f \in Requested \intersect F : \A k \in Keys(f) : Want(r, f, k) = Cell(file, f, k)
  PROVE  Piece(<< >>, F, r)
  <1>1. << >> \in Seq(Steps) /\ DOMAIN << >> = {} OBVIOUS
  <1>2. SetSteps(<< >>, F) BY <1>1 DEF SetSteps
  <1>3. \A f, k : Unset(<< >>, f, k) BY <1>1 DEF Unset
  <1>4. \A f \in Requested \intersect F : \A k \in Keys(f) : Reaches(<< >>, r, f, k)
    BY <1>3, EndsSame DEF Reaches
  <1>5. QED BY <1>2, <1>3, <1>4 DEF Piece

\* An error: what set would have left does not matter.
LEMMA PieceFail ==
  ASSUME NEW F, NEW r, NEW e \in Errors
  PROVE  Piece(Fail(e), F, r)
  <1> DEFINE x == [do |-> "fail", err |-> e]
  <1>1. x \in Steps /\ x.do = "fail" BY DEF Steps, Failures
  <1>2. Fail(e) = <<x>> BY DEF Fail
  <1> HIDE DEF x
  <1>3. DOMAIN <<x>> = {1} /\ <<x>>[1] = x /\ <<x>> \in Seq(Steps) BY <1>1
  <1>4. SetSteps(<<x>>, F) BY <1>1, <1>3 DEF SetSteps
  <1>5. Doomed(<<x>>) BY <1>1, <1>3 DEF Doomed
  <1>6. \A f, k : Unset(<<x>>, f, k) BY <1>1, <1>3 DEF Unset, Sets
  <1>7. \A f, k : Reaches(<<x>>, r, f, k) BY <1>5, <1>6, EndsSame DEF Reaches, Ends
  <1>8. QED BY <1>2, <1>4, <1>6, <1>7 DEF Piece

\* One step that changes one file, and leaves there what is asked for.
LEMMA PieceStep ==
  ASSUME NEW r, NEW g \in Singles, NEW x \in Steps, x.do \in {"write", "cpu.max"},
         \A f \in Requested : \A k \in Keys(f) : Sets(x, f, k) <=> f = g,
         Leaves(v2, x, g) = Want(r, g, "all")
  PROVE  Piece(<<x>>, {g}, r)
  <1>1. DOMAIN <<x>> = {1} /\ <<x>>[1] = x /\ <<x>> \in Seq(Steps) OBVIOUS
  <1>2. SetSteps(<<x>>, {g}) BY <1>1 DEF SetSteps
  <1>3. g \in Requested /\ Keys(g) = {"all"} BY SinglesDef
  <1>4. Sets(x, g, "all") BY <1>3
  <1>5. Reaches(<<x>>, r, g, "all")
    <2> DEFINE u == Cell(file, g, "all")
    <2> HIDE DEF u
    <2>1. Ends(v2, <<x>>, g, "all", u, Want(r, g, "all"))
      <3>1. Ends(v2, <<x>>, g, "all", u, IF Sets(x, g, "all") THEN Leaves(v2, x, g) ELSE u) BY EndsOne
      <3>2. QED BY <1>4, <3>1
    <2>2. Mild(v2, <<x>>, g, "all", {u, Want(r, g, "all")}) BY <1>4, EndsOne
    <2>3. QED BY <2>1, <2>2 DEF Reaches, u
  <1>6. \A f \in Requested : \A k \in Keys(f) : f # g => Unset(<<x>>, f, k) BY EndsOne
  <1>7. QED BY <1>2, <1>3, <1>5, <1>6 DEF Piece

LEMMA PieceWrite ==
  ASSUME NEW r, NEW g \in Singles, NEW v \in Values(g),
         \A x : x.do = "write" /\ x.file = g /\ x.val = v => Leaves(v2, x, g) = Want(r, g, "all")
  PROVE  Piece(Write(g, v), {g}, r)
  <1> DEFINE x == [do |-> "write", file |-> g, val |-> v]
  <1>1. g \in Names /\ g \notin Tables /\ g \notin {"allow", "deny", "cpu.max"} BY SinglesDef DEF Names
  <1>2. x \in Steps
    <2>1. x \in Puts(Names) BY <1>1 DEF Puts
    <2>2. QED BY <2>1 DEF Steps
  <1>3. x.do = "write" /\ x.file = g /\ x.val = v OBVIOUS
  <1>4. Write(g, v) = <<x>> BY DEF Write
  <1> HIDE DEF x
  <1>5. ASSUME NEW f \in Requested, NEW k \in Keys(f) PROVE Sets(x, f, k) <=> f = g
    <2>1. f \in Keyed \/ f = "devices" => f \in Tables BY DEF Tables
    <2>2. QED BY <1>1, <1>3, <2>1 DEF Sets
  <1>6. QED BY <1>2, <1>3, <1>4, <1>5, PieceStep

LEMMA Larger == ASSUME NEW a \in Int, NEW b \in Int
                PROVE  /\ Max({a, b}) = (IF a < b THEN b ELSE a)
                       /\ Min({a, b}) = (IF a < b THEN a ELSE b)
  <1>1. \A m \in {a, b} : (\A y \in {a, b} : m >= y) => m = IF a < b THEN b ELSE a OBVIOUS
  <1>2. \E m \in {a, b} : \A y \in {a, b} : m >= y
    <2>1. CASE a < b BY <2>1
    <2>2. CASE ~(a < b) BY <2>2
    <2>3. QED BY <2>1, <2>2
  <1>3. Max({a, b}) \in {a, b} /\ \A y \in {a, b} : Max({a, b}) >= y BY <1>2 DEF Max
  <1>4. Max({a, b}) = IF a < b THEN b ELSE a BY <1>1, <1>3
  <1>5. \A m \in {a, b} : (\A y \in {a, b} : m <= y) => m = IF a < b THEN a ELSE b OBVIOUS
  <1>6. \E m \in {a, b} : \A y \in {a, b} : m <= y
    <2>1. CASE a < b BY <2>1
    <2>2. CASE ~(a < b) BY <2>2
    <2>3. QED BY <2>1, <2>2
  <1>7. Min({a, b}) \in {a, b} /\ \A y \in {a, b} : Min({a, b}) <= y BY <1>6 DEF Min
  <1>8. QED BY <1>4, <1>5, <1>7

LEMMA WantSingle ==
  ASSUME NEW r, NEW g \in Singles
  PROVE  Want(r, g, "all") = Wanted(r, file)[g] /\ Cell(file, g, "all") = file[g]
  BY SinglesDef DEF Want, Cell

\* The fields of Wanted that depend on one field of the request.
LEMMA WantedDef ==
  ASSUME NEW r, NEW b
  PROVE  /\ Wanted(r, b).quota = IF r.quota # none /\ r.quota <= 0 THEN Unlimited
                                 ELSE IF r.quota = none THEN b.quota ELSE r.quota
         /\ Wanted(r, b).period = IF r.period = none THEN b.period ELSE r.period
         /\ Wanted(r, b).pids = IF r.pids # none /\ r.pids <= 0 THEN Unlimited
                                ELSE IF r.pids = none THEN b.pids ELSE r.pids
         /\ Wanted(r, b).huge = IF r.huge = none THEN b.huge ELSE r.huge - (r.huge % 2)
         /\ Wanted(r, b).cpus = IF r.cpus = none THEN b.cpus ELSE r.cpus
         /\ Wanted(r, b).mems = IF r.mems = none THEN b.mems ELSE r.mems
         /\ Wanted(r, b).rt_runtime = IF r.rt_runtime # none /\ r.rt_runtime < 0 THEN Unlimited
                                      ELSE IF r.rt_runtime = none THEN b.rt_runtime ELSE r.rt_runtime
         /\ Wanted(r, b).rt_period = IF r.rt_period = none THEN b.rt_period ELSE r.rt_period
         /\ Wanted(r, b).class = IF r.class = none THEN b.class ELSE r.class
         /\ \A g \in {"kmem", "tcp", "attr", "high", "min"} : Wanted(r, b)[g] = b[g]
  BY DEF Wanted

LEMMA PieceGiven ==
  ASSUME NEW r, NEW g \in Singles, NEW v, NEW steps,
         v = none => Want(r, g, "all") = Cell(file, g, "all"),
         v # none => Piece(steps, {g}, r)
  PROVE  Piece(Given(v, steps), {g}, r)
  <1>1. CASE v = none
    <2>1. Requested \intersect {g} = {g} /\ Keys(g) = {"all"} BY SinglesDef
    <2>2. Piece(<< >>, {g}, r) BY <1>1, <2>1, PieceEmpty
    <2>3. QED BY <1>1, <2>2 DEF Given
  <1>2. QED BY <1>1 DEF Given

-----------------------------------------------------------------------------
(***************************************************************************)
(* CPU sets, CPU bandwidth, processes, huge pages.                         *)
(***************************************************************************)

\* A file that takes the value of a field as it is.
LEMMA PlainField ==
  ASSUME NEW r \in Request, NEW g \in {"cpus", "mems", "rt_period", "class"}
  PROVE  Piece(Given(r[g], Write(g, r[g])), {g}, r)
  <1>1. g \in Singles /\ (r[g] # none => r[g] \in Values(g))
    <2>1. (r.cpus # none => r.cpus \in Nat \ {0}) /\ (r.mems # none => r.mems \in Nat \ {0})
          /\ (r.rt_period # none => r.rt_period \in Int) /\ (r.class # none => r.class \in Int)
      BY DEF Request, Opt
    <2>2. QED BY <2>1, SinglesDef, ValuesDef DEF Numbers
  <1>2. Want(r, g, "all") = IF r[g] = none THEN Cell(file, g, "all") ELSE r[g]
    <2>1. Wanted(r, file)[g] = IF r[g] = none THEN file[g] ELSE r[g] BY WantedDef
    <2>2. QED BY <1>1, <2>1, WantSingle
  <1>3. ASSUME r[g] # none PROVE Piece(Write(g, r[g]), {g}, r)
    <2>1. ASSUME NEW x, x.do = "write", x.file = g, x.val = r[g] PROVE Leaves(v2, x, g) = r[g]
      <3>1. g \notin Keyed /\ g # "devices" BY <1>1, SinglesDef
      <3>2. QED BY <2>1, <3>1 DEF Leaves
    <2>2. QED BY <1>1, <1>2, <1>3, <2>1, PieceWrite
  <1>4. QED BY <1>1, <1>2, <1>3, PieceGiven

LEMMA CpusetPiece ==
  ASSUME NEW r \in Request
  PROVE  Piece(SetCpuset(r), {"cpus", "mems"}, r)
  <1>1. Piece(Given(r["cpus"], Write("cpus", r["cpus"])), {"cpus"}, r) BY PlainField
  <1>2. Piece(Given(r["mems"], Write("mems", r["mems"])), {"mems"}, r) BY PlainField
  <1>3. {"cpus"} \union {"mems"} = {"cpus", "mems"} OBVIOUS
  <1>4. {"cpus"} \intersect {"mems"} = {} OBVIOUS
  <1>5. Piece(SetCpuset(r), {"cpus"} \union {"mems"}, r) BY <1>1, <1>2, <1>4, PieceJoin DEF SetCpuset
  <1>6. QED BY <1>3, <1>5

LEMMA RealtimePiece ==
  ASSUME NEW r \in Request
  PROVE  Piece(SetRealtime(r), {"rt_runtime", "rt_period"}, r)
  <1> DEFINE g == "rt_runtime"
  <1>1. g \in Singles BY SinglesDef
  <1>2. r.rt_runtime # none => r.rt_runtime \in Int BY DEF Request, Opt
  <1>3. Want(r, g, "all") = IF r.rt_runtime # none /\ r.rt_runtime < 0 THEN Unlimited
                            ELSE IF r.rt_runtime = none THEN Cell(file, g, "all") ELSE r.rt_runtime
    BY <1>1, WantedDef, WantSingle
  <1>4. ASSUME r.rt_runtime # none PROVE Piece(Write(g, r.rt_runtime), {g}, r)
    <2>1. r.rt_runtime \in Values(g) BY <1>2, <1>4, ValuesDef DEF Numbers
    <2>2. ASSUME NEW x, x.do = "write", x.file = g, x.val = r.rt_runtime
          PROVE  Leaves(v2, x, g) = IF r.rt_runtime < 0 THEN Unlimited ELSE r.rt_runtime
      BY <2>2 DEF Leaves, Keyed
    <2>3. QED BY <1>1, <1>3, <1>4, <2>1, <2>2, PieceWrite
  <1>5. Piece(Given(r.rt_runtime, Write(g, r.rt_runtime)), {g}, r) BY <1>1, <1>3, <1>4, PieceGiven
  <1>6. Piece(Given(r["rt_period"], Write("rt_period", r["rt_period"])), {"rt_period"}, r) BY PlainField
  <1>7. {"rt_runtime"} \union {"rt_period"} = {"rt_runtime", "rt_period"} OBVIOUS
  <1>8. {"rt_runtime"} \intersect {"rt_period"} = {} OBVIOUS
  <1>9. Piece(SetRealtime(r), {"rt_runtime"} \union {"rt_period"}, r)
    BY <1>5, <1>6, <1>8, PieceJoin DEF SetRealtime
  <1>10. QED BY <1>7, <1>9

\* The read of cpu.max that goes before the write of one half.
LEMMA PieceCpuMax ==
  ASSUME NEW r, NEW n \in Int
  PROVE  /\ Want(r, "quota", "all") = (IF n <= 0 THEN Unlimited ELSE n) =>
              Piece(ReadCpuMax(n, none), {"quota"}, r)
         /\ Want(r, "period", "all") = n => Piece(ReadCpuMax(none, n), {"period"}, r)
  <1> DEFINE q == [do |-> "cpu.max", quota |-> n, period |-> none]
             p == [do |-> "cpu.max", quota |-> none, period |-> n]
  <1>1. q \in Steps /\ p \in Steps BY DEF Steps, CpuReads, Opt
  <1>2. q.do = "cpu.max" /\ p.do = "cpu.max" OBVIOUS
  <1>3. n # none BY NoneAssumption
  <1>4. /\ Leaves(v2, q, "quota") = IF n <= 0 THEN Unlimited ELSE n
        /\ Leaves(v2, p, "period") = n
    BY DEF Leaves
  <1>5. /\ \A f \in Requested : \A k \in Keys(f) : Sets(q, f, k) <=> f = "quota"
        /\ \A f \in Requested : \A k \in Keys(f) : Sets(p, f, k) <=> f = "period"
    BY <1>3 DEF Sets
  <1>6. ReadCpuMax(n, none) = <<q>> /\ ReadCpuMax(none, n) = <<p>> BY DEF ReadCpuMax
  <1>7. "quota" \in Singles /\ "period" \in Singles BY SinglesDef
  <1> HIDE DEF q, p
  <1>8. Want(r, "quota", "all") = (IF n <= 0 THEN Unlimited ELSE n) => Piece(<<q>>, {"quota"}, r)
    BY <1>1, <1>2, <1>4, <1>5, <1>7, PieceStep
  <1>9. Want(r, "period", "all") = n => Piece(<<p>>, {"period"}, r)
    BY <1>1, <1>2, <1>4, <1>5, <1>7, PieceStep
  <1>10. QED BY <1>6, <1>8, <1>9

LEMMA QuotaPiece ==
  ASSUME NEW r \in Request, v2 \in BOOLEAN
  PROVE  /\ Piece(Given(r.quota, SetQuota(r.quota)), {"quota"}, r)
         /\ Piece(Given(r.period, SetPeriod(r.period)), {"period"}, r)
  <1>1. (r.quota # none => r.quota \in Int) /\ (r.period # none => r.period \in Int)
    BY DEF Request, Opt
  <1>2. "quota" \in Singles /\ "period" \in Singles BY SinglesDef
  <1>3. Want(r, "quota", "all") = IF r.quota # none /\ r.quota <= 0 THEN Unlimited
                                  ELSE IF r.quota = none THEN Cell(file, "quota", "all") ELSE r.quota
    BY <1>2, WantedDef, WantSingle
  <1>4. Want(r, "period", "all") = IF r.period = none THEN Cell(file, "period", "all") ELSE r.period
    BY <1>2, WantedDef, WantSingle
  <1>5. ASSUME r.quota # none PROVE Piece(SetQuota(r.quota), {"quota"}, r)
    <2>1. Want(r, "quota", "all") = IF r.quota <= 0 THEN Unlimited ELSE r.quota BY <1>3, <1>5
    <2>2. CASE v2 BY <1>1, <1>5, <2>1, <2>2, PieceCpuMax DEF SetQuota
    <2>3. CASE ~v2
      <3>1. r.quota \in Values("quota") BY <1>1, <1>5, ValuesDef DEF Numbers
      <3>2. ASSUME NEW x, x.do = "write", x.file = "quota", x.val = r.quota
            PROVE  Leaves(v2, x, "quota") = IF r.quota <= 0 THEN Unlimited ELSE r.quota
        BY <3>2 DEF Leaves, Keyed
      <3>3. Piece(Write("quota", r.quota), {"quota"}, r) BY <1>2, <2>1, <3>1, <3>2, PieceWrite
      <3>4. QED BY <2>3, <3>3 DEF SetQuota
    <2>4. QED BY <2>2, <2>3
  <1>6. ASSUME r.period # none PROVE Piece(SetPeriod(r.period), {"period"}, r)
    <2>1. Want(r, "period", "all") = r.period BY <1>4, <1>6
    <2>2. CASE v2 BY <1>1, <1>6, <2>1, <2>2, PieceCpuMax DEF SetPeriod
    <2>3. CASE ~v2
      <3>1. r.period \in Values("period") BY <1>1, <1>6, ValuesDef DEF Numbers
      <3>2. ASSUME NEW x, x.do = "write", x.file = "period", x.val = r.period
            PROVE  Leaves(v2, x, "period") = r.period
        BY <3>2 DEF Leaves, Keyed
      <3>3. Piece(Write("period", r.period), {"period"}, r) BY <1>2, <2>1, <3>1, <3>2, PieceWrite
      <3>4. QED BY <2>3, <3>3 DEF SetPeriod
    <2>4. QED BY <2>2, <2>3
  <1>7. Piece(Given(r.quota, SetQuota(r.quota)), {"quota"}, r) BY <1>2, <1>3, <1>5, PieceGiven
  <1>8. Piece(Given(r.period, SetPeriod(r.period)), {"period"}, r) BY <1>2, <1>4, <1>6, PieceGiven
  <1>9. QED BY <1>7, <1>8

LEMMA SharesPiece ==
  ASSUME NEW r \in Request, v2 \in BOOLEAN,
         NEW s, s = IF v2 THEN CpuShares(OrZero(r.shares)) ELSE OrZero(r.shares)
  PROVE  Piece(IF s # 0 THEN Write("shares", s) ELSE << >>, {"shares"}, r)
  <1> DEFINE n == OrZero(r.shares)
  <1>1. n \in Nat /\ (n # 0 => r.shares = n) BY DEF Request, Opt, OrZero
  <1>2. CpuShares(n) \in Int /\ (CpuShares(n) = 0 <=> n = 0)
    <2> HIDE DEF n
    <2>1. CASE n = 0 BY <2>1 DEF CpuShares
    <2>2. CASE n \in 1 .. 2 BY <2>2 DEF CpuShares
    <2>3. CASE n >= 262144 BY <1>1, <2>3 DEF CpuShares
    <2>4. CASE n > 2 /\ n < 262144
      <3>1. CpuShares(n) = ((n - 2) * 9999) \div 262142 + 1 BY <1>1, <2>4 DEF CpuShares
      <3>2. ((n - 2) * 9999) \in Nat BY <1>1, <2>4
      <3>3. ((n - 2) * 9999) \div 262142 \in Nat BY <3>2
      <3>4. QED BY <2>4, <3>1, <3>3
    <2>5. QED BY <1>1, <2>1, <2>2, <2>3, <2>4
  <1>3. "shares" \in Singles BY SinglesDef
  <1>4. /\ n = 0 => Want(r, "shares", "all") = Cell(file, "shares", "all")
        /\ n # 0 /\ v2 => Want(r, "shares", "all") = CpuShares(r.shares)
        /\ n # 0 /\ ~v2 => Want(r, "shares", "all") = Min({262144, Max({2, r.shares})})
    <2>1. /\ Want(r, "shares", "all") = Wanted(r, file).shares
          /\ Cell(file, "shares", "all") = file.shares
      BY <1>3, WantSingle
    <2>2. CASE n = 0
      <3>1. Wanted(r, file).shares = file.shares BY <2>2 DEF Wanted
      <3>2. QED BY <2>1, <2>2, <3>1
    <2>3. CASE n # 0 /\ v2
      <3>1. Wanted(r, file).shares = CpuShares(r.shares) BY <2>3 DEF Wanted
      <3>2. QED BY <2>1, <2>3, <3>1
    <2>4. CASE n # 0 /\ ~v2
      <3>1. Wanted(r, file).shares = Min({262144, Max({2, r.shares})}) BY <2>4 DEF Wanted
      <3>2. QED BY <2>1, <2>4, <3>1
    <2>5. QED BY <2>2, <2>3, <2>4
  <1>5. s \in Int /\ (s = 0 <=> n = 0) BY <1>1, <1>2
  <1>6. CASE n = 0
    <2>1. Requested \intersect {"shares"} = {"shares"} /\ Keys("shares") = {"all"} BY <1>3, SinglesDef
    <2>2. Want(r, "shares", "all") = Cell(file, "shares", "all") BY <1>4, <1>6
    <2>3. Piece(<< >>, {"shares"}, r) BY <2>1, <2>2, PieceEmpty
    <2>4. QED BY <1>5, <1>6, <2>3
  <1>7. CASE n # 0
    <2>1. s \in Values("shares") BY <1>5, ValuesDef DEF Numbers
    <2>2. ASSUME NEW x, x.do = "write", x.file = "shares", x.val = s
          PROVE  Leaves(v2, x, "shares") = Want(r, "shares", "all")
      <3>1. CASE v2
        <4>1. Leaves(v2, x, "shares") = s BY <2>2, <3>1 DEF Leaves, Keyed
        <4>2. s = CpuShares(n) BY <3>1
        <4>3. r.shares = n BY <1>1, <1>7
        <4>4. CpuShares(r.shares) = CpuShares(n) BY <4>3
        <4>5. Want(r, "shares", "all") = CpuShares(r.shares) BY <1>4, <1>7, <3>1
        <4>6. QED BY <4>1, <4>2, <4>4, <4>5
      <3>2. CASE ~v2
        <4>1. Leaves(v2, x, "shares") = Clamped(s) BY <2>2, <3>2 DEF Leaves, Keyed
        <4>2. s = n /\ r.shares = n BY <1>1, <1>7, <3>2
        <4>3. Min({262144, Max({2, n})}) = Clamped(n)
          <5> DEFINE m == Max({2, n})
          <5>1. n \in Int BY <1>1
          <5> HIDE DEF n
          <5>2. m = IF 2 < n THEN n ELSE 2 BY <5>1, Larger
          <5> HIDE DEF m
          <5>3. m \in Int BY <5>1, <5>2
          <5>4. Min({262144, m}) = IF 262144 < m THEN 262144 ELSE m
            <6> DEFINE c == 262144
            <6>1. c \in Int OBVIOUS
            <6> HIDE DEF c
            <6>2. Min({c, m}) = IF c < m THEN c ELSE m BY <5>3, <6>1, Larger
            <6>3. QED BY <6>2 DEF c
          <5>5. Min({262144, m}) = Clamped(n) BY <5>1, <5>2, <5>4 DEF Clamped
          <5>6. QED BY <5>5 DEF m
        <4>4. QED BY <1>4, <1>7, <3>2, <4>1, <4>2, <4>3
      <3>3. QED BY <3>1, <3>2
    <2>3. Piece(Write("shares", s), {"shares"}, r) BY <1>3, <2>1, <2>2, PieceWrite
    <2>4. QED BY <1>5, <1>7, <2>3
  <1>8. QED BY <1>6, <1>7
LEMMA CpuPiece ==
  ASSUME NEW r \in Request, v2 \in BOOLEAN
  PROVE  Piece(SetCpu(r), {"shares", "quota", "period", "rt_runtime", "rt_period"}, r)
  <1> DEFINE s == IF v2 THEN CpuShares(OrZero(r.shares)) ELSE OrZero(r.shares)
             A == IF s # 0 THEN Write("shares", s) ELSE << >>
             B == Given(r.quota, SetQuota(r.quota))
             C == Given(r.period, SetPeriod(r.period))
             D == SetRealtime(r)
  <1>1. Piece(A, {"shares"}, r)
    <2>1. s = IF v2 THEN CpuShares(OrZero(r.shares)) ELSE OrZero(r.shares) OBVIOUS
    <2> HIDE DEF s
    <2>2. QED BY <2>1, SharesPiece
  <1>2. Piece(B, {"quota"}, r) /\ Piece(C, {"period"}, r) BY QuotaPiece
  <1>3. Piece(D, {"rt_runtime", "rt_period"}, r) BY RealtimePiece
  <1>4. SetCpu(r) = A \o B \o C \o D BY DEF SetCpu
  <1> HIDE DEF s, A, B, C, D
  <1>5. {"shares"} \intersect {"quota"} = {} /\ {"shares"} \union {"quota"} = {"shares", "quota"} OBVIOUS
  <1>6. Piece(A \o B, {"shares", "quota"}, r) BY <1>1, <1>2, <1>5, PieceJoin
  <1>7. /\ {"shares", "quota"} \intersect {"period"} = {}
        /\ {"shares", "quota"} \union {"period"} = {"shares", "quota", "period"}
    OBVIOUS
  <1>8. Piece(A \o B \o C, {"shares", "quota", "period"}, r) BY <1>2, <1>6, <1>7, PieceJoin
  <1>9. /\ {"shares", "quota", "period"} \intersect {"rt_runtime", "rt_period"} = {}
        /\ {"shares", "quota", "period"} \union {"rt_runtime", "rt_period"}
             = {"shares", "quota", "period", "rt_runtime", "rt_period"}
    OBVIOUS
  <1>10. Piece(A \o B \o C \o D, {"shares", "quota", "period", "rt_runtime", "rt_period"}, r)
    BY <1>3, <1>8, <1>9, PieceJoin
  <1>11. QED BY <1>4, <1>10

LEMMA PidsPiece ==
  ASSUME NEW r \in Request
  PROVE  Piece(SetPids(r), {"pids"}, r)
  <1> DEFINE n == IF OrZero(r.pids) > 0 THEN r.pids ELSE Unlimited
  <1>1. "pids" \in Singles BY SinglesDef
  <1>2. r.pids # none => r.pids \in Int /\ OrZero(r.pids) = r.pids BY DEF Request, Opt, OrZero
  <1>3. Want(r, "pids", "all") = IF r.pids # none /\ r.pids <= 0 THEN Unlimited
                                 ELSE IF r.pids = none THEN Cell(file, "pids", "all") ELSE r.pids
    BY <1>1, WantedDef, WantSingle
  <1>4. ASSUME r.pids # none PROVE Piece(Write("pids", n), {"pids"}, r)
    <2>1. n \in Values("pids")
      <3>1. n \in Int BY <1>2, <1>4 DEF Unlimited
      <3>2. QED BY <3>1, ValuesDef DEF Numbers
    <2>2. n = Want(r, "pids", "all") BY <1>2, <1>3, <1>4
    <2> HIDE DEF n
    <2>3. ASSUME NEW x, x.do = "write", x.file = "pids", x.val = n
          PROVE  Leaves(v2, x, "pids") = n
      BY <2>3 DEF Leaves, Keyed
    <2>4. QED BY <1>1, <2>1, <2>2, <2>3, PieceWrite
  <1>5. QED BY <1>1, <1>3, <1>4, PieceGiven DEF SetPids

LEMMA HugePiece ==
  ASSUME NEW r \in Request
  PROVE  Piece(SetHuge(r), {"huge"}, r)
  <1>1. "huge" \in Singles BY SinglesDef
  <1>2. r.huge # none => r.huge \in Values("huge") BY ValuesDef DEF Request, Opt
  <1>3. Want(r, "huge", "all") = IF r.huge = none THEN Cell(file, "huge", "all") ELSE r.huge - (r.huge % 2)
    BY <1>1, WantedDef, WantSingle
  <1>4. ASSUME r.huge # none PROVE Piece(Write("huge", r.huge), {"huge"}, r)
    <2>1. ASSUME NEW x, x.do = "write", x.file = "huge", x.val = r.huge
          PROVE  Leaves(v2, x, "huge") = r.huge - (r.huge % 2)
      BY <2>1 DEF Leaves, Keyed
    <2>2. QED BY <1>1, <1>2, <1>3, <1>4, <2>1, PieceWrite
  <1>5. QED BY <1>1, <1>3, <1>4, PieceGiven DEF SetHuge

LEMMA ClassPiece ==
  ASSUME NEW r \in Request
  PROVE  Piece(Given(r.class, IF v2 THEN Fail("missing") ELSE Write("class", r.class)), {"class"}, r)
  <1>1. CASE v2
    <2>1. "class" \in Singles BY SinglesDef
    <2>2. Piece(Fail("missing"), {"class"}, r) BY PieceFail DEF Errors, Gone
    <2>3. r.class = none => Want(r, "class", "all") = Cell(file, "class", "all")
      BY <2>1, WantedDef, WantSingle
    <2>4. QED BY <1>1, <2>1, <2>2, <2>3, PieceGiven
  <1>2. CASE ~v2
    <2>1. Piece(Given(r["class"], Write("class", r["class"])), {"class"}, r) BY PlainField
    <2>2. QED BY <1>2, <2>1
  <1>3. QED BY <1>1, <1>2
-----------------------------------------------------------------------------
(***************************************************************************)
(* Lists: what the last element that names a key leaves there.             *)
(***************************************************************************)

LEMMA MaxDef ==
  ASSUME NEW n \in Nat, NEW T \in SUBSET (1 .. n), T # {}
  PROVE  Max(T) \in T /\ \A y \in T : y <= Max(T)
  <1> DEFINE Above == {x \in Nat : \A y \in T : y <= x}
  <1>1. n \in Above OBVIOUS
  <1>2. PICK m \in Above : \A x \in Above : m <= x BY <1>1, Least
  <1>3. m \in T
    <2>1. SUFFICES ASSUME m \notin T PROVE FALSE OBVIOUS
    <2>2. \A y \in T : y \in Nat /\ y >= 1 /\ y <= m /\ y # m BY <1>2, <2>1
    <2>3. m \in Nat /\ m >= 1
      <3>1. PICK y \in T : TRUE OBVIOUS
      <3>2. m \in Nat BY <1>2
      <3>3. QED BY <2>2, <3>1, <3>2
    <2>4. m - 1 \in Above BY <2>2, <2>3
    <2>5. QED BY <1>2, <2>3, <2>4
  <1>4. \A y \in T : m >= y BY <1>2
  <1>5. Max(T) \in T /\ \A y \in T : Max(T) >= y BY <1>3, <1>4 DEF Max
  <1>6. QED BY <1>5

\* The elements that give key k a value.
Naming(list, n, k) == {i \in 1 .. n : list[i].key = k /\ list[i].val # none}

LEMMA LastOfDef ==
  ASSUME NEW n \in Nat, NEW list, DOMAIN list = 1 .. n, NEW k, NEW u
  PROVE  /\ Naming(list, n, k) = {} => LastOf(list, k, u) = u
         /\ Naming(list, n, k) # {} =>
              /\ Max(Naming(list, n, k)) \in Naming(list, n, k)
              /\ \A y \in Naming(list, n, k) : y <= Max(Naming(list, n, k))
              /\ LastOf(list, k, u) = list[Max(Naming(list, n, k))].val
  <1> DEFINE at == Naming(list, n, k)
  <1>1. LastOf(list, k, u) = IF at = {} THEN u ELSE list[Max(at)].val BY DEF LastOf, Naming
  <1>2. at # {} => Max(at) \in at /\ \A y \in at : y <= Max(at)
    <2>1. at \in SUBSET (1 .. n) BY DEF Naming
    <2> HIDE DEF at
    <2>2. QED BY <2>1, MaxDef
  <1>3. QED BY <1>1, <1>2

\* The last step that sets the cell.
LEMMA ListEnds ==
  ASSUME NEW n \in Nat, NEW s, DOMAIN s = 1 .. n, NEW f, NEW k, NEW two, NEW u,
         NEW at, at = {i \in 1 .. n : Sets(s[i], f, k)}
  PROVE  Ends(two, s, f, k, u, IF at = {} THEN u ELSE Leaves(two, s[Max(at)], f))
  <1>1. CASE at = {}
    <2>1. Unset(s, f, k) BY <1>1 DEF Unset
    <2>2. QED BY <1>1, <2>1 DEF Ends
  <1>2. CASE at # {}
    <2>1. Max(at) \in at /\ \A y \in at : y <= Max(at) BY <1>2, MaxDef
    <2>2. QED BY <1>2, <2>1 DEF Ends
  <1>3. QED BY <1>1, <1>2

\* The cell is set, and left at v.
Fixes(two, s, f, k, v) ==
  \E i \in DOMAIN s : /\ Sets(s[i], f, k) /\ Leaves(two, s[i], f) = v
                      /\ \A j \in DOMAIN s : Sets(s[j], f, k) => j <= i

LEMMA FixesEnds ==
  ASSUME NEW s, NEW f, NEW k, NEW two, NEW v, Fixes(two, s, f, k, v)
  PROVE  \A u : Ends(two, s, f, k, u, v)
  BY DEF Fixes, Ends

LEMMA FixesRight ==
  ASSUME NEW S, NEW s \in Seq(S), NEW t \in Seq(S), NEW f, NEW k, NEW two, NEW v,
         Fixes(two, t, f, k, v)
  PROVE  Fixes(two, s \o t, f, k, v)
  <1>1. PICK i \in DOMAIN t : /\ Sets(t[i], f, k) /\ Leaves(two, t[i], f) = v
                              /\ \A j \in DOMAIN t : Sets(t[j], f, k) => j <= i
    BY DEF Fixes
  <1>2. Len(s) + i \in DOMAIN (s \o t) /\ (s \o t)[Len(s) + i] = t[i] BY Joined
  <1>3. ASSUME NEW j \in DOMAIN (s \o t), Sets((s \o t)[j], f, k) PROVE j <= Len(s) + i
    <2>1. CASE j \in DOMAIN s
      <3>1. j \in 1 .. Len(s) /\ Len(s) \in Nat /\ i \in 1 .. Len(t) /\ Len(t) \in Nat BY <2>1, Joined
      <3>2. QED BY <3>1
    <2>2. CASE j - Len(s) \in DOMAIN t /\ j = Len(s) + (j - Len(s))
      <3>1. (s \o t)[j] = t[j - Len(s)] BY <2>2, Joined
      <3>2. j - Len(s) <= i BY <1>1, <1>3, <2>2, <3>1
      <3>3. j \in 1 .. Len(s) + Len(t) /\ Len(s) \in Nat /\ i \in 1 .. Len(t) /\ Len(t) \in Nat BY Joined
      <3>4. QED BY <3>2, <3>3
    <2>3. QED BY <1>3, <2>1, <2>2, Joined
  <1>4. QED BY <1>1, <1>2, <1>3 DEF Fixes

LEMMA FixesLeft ==
  ASSUME NEW S, NEW s \in Seq(S), NEW t \in Seq(S), NEW f, NEW k, NEW two, NEW v,
         Fixes(two, s, f, k, v), Unset(t, f, k)
  PROVE  Fixes(two, s \o t, f, k, v)
  <1>1. PICK i \in DOMAIN s : /\ Sets(s[i], f, k) /\ Leaves(two, s[i], f) = v
                              /\ \A j \in DOMAIN s : Sets(s[j], f, k) => j <= i
    BY DEF Fixes
  <1>2. i \in DOMAIN (s \o t) /\ (s \o t)[i] = s[i] BY Joined
  <1>3. ASSUME NEW j \in DOMAIN (s \o t), Sets((s \o t)[j], f, k) PROVE j <= i
    <2>1. CASE j \in DOMAIN s
      <3>1. (s \o t)[j] = s[j] BY <2>1, Joined
      <3>2. QED BY <1>1, <1>3, <2>1, <3>1
    <2>2. CASE j - Len(s) \in DOMAIN t /\ j = Len(s) + (j - Len(s))
      <3>1. (s \o t)[j] = t[j - Len(s)] BY <2>2, Joined
      <3>2. QED BY <1>3, <2>2, <3>1 DEF Unset
    <2>3. QED BY <1>3, <2>1, <2>2, Joined
  <1>4. QED BY <1>1, <1>2, <1>3 DEF Fixes

\* Of the parts of a flattened list, number m is the last that sets the cell.
LEMMA FlatFixes ==
  ASSUME NEW S, NEW ss \in Seq(Seq(S)), NEW f, NEW k, NEW two, NEW v, NEW m \in 1 .. Len(ss),
         Fixes(two, ss[m], f, k, v), \A j \in 1 .. Len(ss) : j > m => Unset(ss[j], f, k)
  PROVE  Fixes(two, FlattenSeq(ss), f, k, v)
  <1> DEFINE n == Len(ss)
  <1>1. n \in Nat /\ n # 0 /\ \A i \in 1 .. n : ss[i] \in Seq(S) OBVIOUS
  <1>2. PICK g : /\ \A i \in 1 .. n : g[i] = IF i = 1 THEN ss[i] ELSE g[i - 1] \o ss[i]
                 /\ FlattenSeq(ss) = IF n = 0 THEN << >> ELSE g[n]
    BY FlattenDef
  <1> DEFINE Out == {i \in 1 .. n : ~(g[i] \in Seq(S) /\ (i >= m => Fixes(two, g[i], f, k, v)))}
  <1>3. Out = {}
    <2>1. SUFFICES ASSUME Out # {} PROVE FALSE OBVIOUS
    <2>2. Out \in SUBSET Nat BY <1>1
    <2>3. PICK i \in Out : \A j \in Out : i <= j BY <2>1, <2>2, Least
    <2>4. g[i] = IF i = 1 THEN ss[i] ELSE g[i - 1] \o ss[i] BY <1>2, <2>3
    <2>5. i # 1 => i - 1 \in 1 .. n /\ ~(i <= i - 1) BY <1>1, <2>3
    <2>6. i # 1 => g[i - 1] \in Seq(S) /\ (i - 1 >= m => Fixes(two, g[i - 1], f, k, v))
      BY <2>3, <2>5
    <2>7. ss[i] \in Seq(S) BY <1>1, <2>3
    <2>8. g[i] \in Seq(S) BY <2>4, <2>6, <2>7
    <2>9. ASSUME i >= m PROVE Fixes(two, g[i], f, k, v)
      <3>1. CASE i = m
        <4>1. CASE i = 1 BY <2>4, <3>1, <4>1
        <4>2. CASE i # 1 BY <2>4, <2>6, <2>7, <3>1, <4>2, FixesRight
        <4>3. QED BY <4>1, <4>2
      <3>2. CASE i # m
        <4>1. i > m /\ i # 1 /\ i - 1 >= m BY <1>1, <2>3, <2>9, <3>2
        <4>2. Unset(ss[i], f, k) BY <2>3, <4>1
        <4>3. QED BY <2>4, <2>6, <2>7, <4>1, <4>2, FixesLeft
      <3>3. QED BY <3>1, <3>2
    <2>10. QED BY <2>3, <2>8, <2>9
  <1>4. n \in 1 .. n /\ n >= m BY <1>1
  <1>5. Fixes(two, g[n], f, k, v) BY <1>3, <1>4
  <1>6. QED BY <1>1, <1>2, <1>5

LEMMA FlatAll ==
  ASSUME NEW S, NEW ss \in Seq(Seq(S)), NEW T,
         \A i \in 1 .. Len(ss) : \A j \in DOMAIN ss[i] : ss[i][j] \in T
  PROVE  \A i \in DOMAIN FlattenSeq(ss) : FlattenSeq(ss)[i] \in T
  <1>1. ASSUME NEW i \in 1 .. Len(ss) PROVE ss[i] \in Seq(T)
    <2>1. ss[i] \in Seq(S) BY <1>1
    <2>2. ss[i] \in [DOMAIN ss[i] -> T] BY <1>1, <2>1
    <2>3. QED BY <2>1, <2>2, Mapped
  <1>2. ss \in Seq(Seq(T))
    <2>1. ss \in [DOMAIN ss -> Seq(T)] BY <1>1
    <2>2. QED BY <2>1, Mapped
  <1>3. FlattenSeq(ss) \in Seq(T) BY <1>2, FlattenType
  <1>4. QED BY <1>3, Elements
\* One step for each element of a list, or some.
LEMMA ListReaches ==
  ASSUME NEW n \in Nat, NEW s, DOMAIN s = 1 .. n, NEW list, DOMAIN list = 1 .. n,
         NEW f, NEW k, NEW two, NEW u,
         \A i \in 1 .. n : Sets(s[i], f, k) <=> list[i].key = k /\ list[i].val # none,
         \A i \in 1 .. n : Sets(s[i], f, k) => Leaves(two, s[i], f) = list[i].val
  PROVE  /\ Ends(two, s, f, k, u, LastOf(list, k, u))
         /\ (\A i, j \in 1 .. n : list[i].key = list[j].key => i = j)
              => Mild(two, s, f, k, {u, LastOf(list, k, u)})
  <1> DEFINE at == Naming(list, n, k)
             v == LastOf(list, k, u)
  <1>1. /\ at = {} => v = u
        /\ at # {} => Max(at) \in at /\ v = list[Max(at)].val
    BY LastOfDef
  <1>2. at = {i \in 1 .. n : Sets(s[i], f, k)} BY DEF Naming
  <1>3. \A i \in at : i \in 1 .. n /\ list[i].key = k /\ Leaves(two, s[i], f) = list[i].val
    BY DEF Naming
  <1>4. \A i \in DOMAIN s : Sets(s[i], f, k) => i \in at BY <1>2
  <1> HIDE DEF at, v
  <1>5. Ends(two, s, f, k, u, IF at = {} THEN u ELSE Leaves(two, s[Max(at)], f)) BY <1>2, ListEnds
  <1>6. v = IF at = {} THEN u ELSE Leaves(two, s[Max(at)], f) BY <1>1, <1>3
  <1>7. ASSUME \A i, j \in 1 .. n : list[i].key = list[j].key => i = j PROVE Mild(two, s, f, k, {u, v})
    <2>1. ASSUME NEW i \in DOMAIN s, Sets(s[i], f, k) PROVE Leaves(two, s[i], f) = v
      <3>1. i \in at /\ Max(at) \in at BY <1>1, <1>4, <2>1
      <3>2. i = Max(at) BY <1>3, <1>7, <3>1
      <3>3. QED BY <1>6, <3>1, <3>2
    <2>2. QED BY <2>1 DEF Mild
  <1>8. QED BY <1>5, <1>6, <1>7 DEF v

\* Several steps for each element.
LEMMA FlatReaches ==
  ASSUME NEW S, NEW ss \in Seq(Seq(S)), NEW list, DOMAIN list = 1 .. Len(ss),
         NEW f, NEW k, NEW two, NEW u,
         \A i \in 1 .. Len(ss) : IF list[i].key = k /\ list[i].val # none
                                 THEN /\ Fixes(two, ss[i], f, k, list[i].val)
                                      /\ Mild(two, ss[i], f, k, {list[i].val})
                                 ELSE Unset(ss[i], f, k)
  PROVE  /\ Ends(two, FlattenSeq(ss), f, k, u, LastOf(list, k, u))
         /\ (\A i, j \in 1 .. Len(ss) : list[i].key = list[j].key => i = j)
              => Mild(two, FlattenSeq(ss), f, k, {u, LastOf(list, k, u)})
  <1> DEFINE n == Len(ss)
             at == Naming(list, n, k)
             v == LastOf(list, k, u)
  <1>1. n \in Nat /\ \A i \in 1 .. n : ss[i] \in Seq(S) OBVIOUS
  <1>2. /\ at = {} => v = u
        /\ at # {} => Max(at) \in at /\ (\A y \in at : y <= Max(at)) /\ v = list[Max(at)].val
    BY <1>1, LastOfDef
  <1>3. /\ \A i \in at : i \in 1 .. n /\ list[i].key = k /\ Fixes(two, ss[i], f, k, list[i].val)
                         /\ Mild(two, ss[i], f, k, {list[i].val})
        /\ \A i \in 1 .. n : i \notin at => Unset(ss[i], f, k)
    BY DEF Naming
  <1> HIDE DEF at, v
  <1>4. Ends(two, FlattenSeq(ss), f, k, u, v)
    <2>1. CASE at = {}
      <3> DEFINE T == {y \in S : ~Sets(y, f, k)}
      <3>1. \A i \in 1 .. n : \A j \in DOMAIN ss[i] : ss[i][j] \in T BY <1>1, <1>3, <2>1, Elements DEF Unset
      <3>2. \A x \in T : ~Sets(x, f, k) OBVIOUS
      <3> HIDE DEF T
      <3>3. \A i \in DOMAIN FlattenSeq(ss) : FlattenSeq(ss)[i] \in T BY <3>1, FlatAll
      <3>4. Unset(FlattenSeq(ss), f, k) BY <3>2, <3>3 DEF Unset
      <3>5. QED BY <1>2, <2>1, <3>4, EndsSame
    <2>2. CASE at # {}
      <3> DEFINE m == Max(at)
      <3>1. m \in 1 .. n /\ Fixes(two, ss[m], f, k, v) BY <1>2, <1>3, <2>2
      <3>2. \A j \in 1 .. n : j > m => Unset(ss[j], f, k)
        <4>1. m \in Int /\ \A y \in at : y <= m BY <1>1, <1>2, <2>2, <3>1
        <4> HIDE DEF m
        <4>2. ASSUME NEW j \in 1 .. n, j > m PROVE j \notin at BY <4>1, <4>2
        <4>3. QED BY <1>3, <4>2
      <3> HIDE DEF m
      <3>3. Fixes(two, FlattenSeq(ss), f, k, v) BY <3>1, <3>2, FlatFixes
      <3>4. QED BY <3>3, FixesEnds
    <2>3. QED BY <2>1, <2>2
  <1>5. ASSUME \A i, j \in 1 .. n : list[i].key = list[j].key => i = j
        PROVE  Mild(two, FlattenSeq(ss), f, k, {u, v})
    <2> DEFINE T == {y \in S : Sets(y, f, k) => Leaves(two, y, f) \in {u, v}}
    <2>1. ASSUME NEW i \in 1 .. n, NEW j \in DOMAIN ss[i], Sets(ss[i][j], f, k)
          PROVE  Leaves(two, ss[i][j], f) \in {u, v}
      <3>1. i \in at BY <1>3, <2>1 DEF Unset
      <3>2. Max(at) \in at /\ v = list[Max(at)].val BY <1>2, <3>1
      <3>3. i = Max(at) BY <1>3, <1>5, <3>1, <3>2
      <3>4. Leaves(two, ss[i][j], f) \in {list[i].val} BY <1>3, <2>1, <3>1 DEF Mild
      <3>5. QED BY <3>2, <3>3, <3>4
    <2>2. \A i \in 1 .. n : \A j \in DOMAIN ss[i] : ss[i][j] \in T BY <1>1, <2>1, Elements
    <2>3. \A x \in T : Sets(x, f, k) => Leaves(two, x, f) \in {u, v} OBVIOUS
    <2> HIDE DEF T
    <2>4. \A i \in DOMAIN FlattenSeq(ss) : FlattenSeq(ss)[i] \in T BY <2>2, FlatAll
    <2>5. QED BY <2>3, <2>4 DEF Mild
  <1>6. QED BY <1>4, <1>5 DEF v
-----------------------------------------------------------------------------
(***************************************************************************)
(* Priorities of interfaces, devices.                                      *)
(***************************************************************************)

\* A part that writes no file but those of F.
LEMMA PieceOf ==
  ASSUME NEW F, NEW r, NEW s \in Seq(Steps),
         \A i \in DOMAIN s : s[i].do \in {"write", "fail"},
         \A f \in Requested \ F : \A k \in Keys(f) : \A i \in DOMAIN s : ~Sets(s[i], f, k),
         \A f \in Requested \intersect F : \A k \in Keys(f) : Reaches(s, r, f, k)
  PROVE  Piece(s, F, r)
  <1>1. SetSteps(s, F) BY DEF SetSteps
  <1>2. \A f \in Requested \ F : \A k \in Keys(f) : Unset(s, f, k) BY DEF Unset
  <1>3. QED BY <1>1, <1>2 DEF Piece

LEMMA PrioPiece ==
  ASSUME NEW r \in Request
  PROVE  Piece(Given(r.prios, IF v2 THEN Fail("missing") ELSE Priorities(r, "write")), {"prio"}, r)
  <1>0. "prio" \in Keyed /\ "prio" \in Requested /\ Keys("prio") = Interfaces /\ "prio" \in Names
    BY DEF Keyed, Requested, Files, Keys, Names
  <1>1. \A g : \A k : Cell(g, "prio", k) = g.prio[k] BY <1>0 DEF Cell
  <1>2. CASE r.prios = none
    <2>1. Wanted(r, file).prio = file.prio BY <1>2 DEF Wanted
    <2>2. \A f \in Requested \intersect {"prio"} : \A k \in Keys(f) : Want(r, f, k) = Cell(file, f, k)
      BY <1>1, <2>1 DEF Want
    <2>3. Piece(<< >>, {"prio"}, r) BY <2>2, PieceEmpty
    <2>4. QED BY <1>2, <2>3 DEF Given
  <1>3. CASE r.prios # none /\ v2
    <2>1. Piece(Fail("missing"), {"prio"}, r) BY PieceFail DEF Errors, Gone
    <2>2. QED BY <1>3, <2>1 DEF Given
  <1>4. CASE r.prios # none /\ ~v2
    <2> DEFINE ps == r.prios
               s == [i \in DOMAIN ps |-> [do |-> "write", file |-> "prio",
                                          val |-> [key |-> ps[i].name, val |-> ps[i].prio]]]
               list == [j \in DOMAIN ps |-> [key |-> ps[j].name, val |-> ps[j].prio]]
               n == Len(ps)
    <2>1. ps \in Seq([name : STRING, prio : Nat]) BY <1>4 DEF Request, Opt
    <2>2. Given(r.prios, IF v2 THEN Fail("missing") ELSE Priorities(r, "write")) = s
      BY <1>4 DEF Given, Priorities
    <2>3. Wanted(r, file).prio = [i \in Interfaces |-> LastOf(list, i, file.prio[i])]
      <3>1. Wanted(r, file).prio = WantedPriorities(r.prios, file.prio) BY <1>4 DEF Wanted
      <3>2. QED BY <3>1 DEF WantedPriorities
    <2>4. Distinct(r) => \A i, j \in DOMAIN ps : ps[i].name = ps[j].name => i = j
      BY <1>4 DEF Distinct
    <2> HIDE DEF ps
    <2>5. n \in Nat /\ DOMAIN ps = 1 .. n /\ \A i \in 1 .. n : ps[i] \in [name : STRING, prio : Nat]
      BY <2>1, Elements
    <2> HIDE DEF n
    <2>6. ASSUME NEW i \in 1 .. n PROVE s[i] \in Puts(Names)
      <3>1. [key |-> ps[i].name, val |-> ps[i].prio] \in Values("prio") BY <2>5, ValuesDef
      <3>2. QED BY <1>0, <2>5, <3>1 DEF Puts
    <2>7. s \in Seq(Steps)
      <3>1. \A i \in 1 .. n : s[i] \in Steps BY <2>6 DEF Steps
      <3>2. s \in [DOMAIN ps -> Steps] BY <2>5, <3>1
      <3> HIDE DEF s
      <3>3. QED BY <2>1, <3>2, Mapped
    <2>8. /\ DOMAIN s = 1 .. n /\ DOMAIN list = 1 .. n
          /\ \A i \in 1 .. n : /\ s[i].do = "write" /\ s[i].file = "prio" /\ s[i].val = list[i]
                               /\ list[i].key = ps[i].name /\ list[i].val # none
      BY <2>5, NoneAssumption
    <2> HIDE DEF s, list
    <2>9. ASSUME NEW i \in 1 .. n, NEW f, NEW k
          PROVE  /\ f # "prio" => ~Sets(s[i], f, k)
                 /\ f = "prio" => /\ Sets(s[i], f, k) <=> list[i].key = k /\ list[i].val # none
                                  /\ Leaves(v2, s[i], f) = list[i].val
      <3>1. f = "prio" => f \in Keyed /\ f \in Tables BY DEF Keyed, Tables
      <3>2. f = "prio" => (Sets(s[i], f, k) <=> list[i].key = k) BY <2>8, <3>1 DEF Sets
      <3>3. f # "prio" => ~Sets(s[i], f, k) BY <2>8 DEF Sets
      <3>4. Leaves(v2, s[i], "prio") = list[i].val BY <2>8 DEF Leaves, Keyed
      <3>5. QED BY <2>8, <3>2, <3>3, <3>4
    <2>10. ASSUME NEW k \in Interfaces PROVE Reaches(s, r, "prio", k)
      <3>1. Want(r, "prio", k) = LastOf(list, k, file.prio[k]) BY <1>1, <2>3 DEF Want
      <3>2. Cell(file, "prio", k) = file.prio[k] BY <1>1
      <3>3. /\ \A i \in 1 .. n : Sets(s[i], "prio", k) <=> list[i].key = k /\ list[i].val # none
            /\ \A i \in 1 .. n : Sets(s[i], "prio", k) => Leaves(v2, s[i], "prio") = list[i].val
        BY <2>9
      <3>4. /\ Ends(v2, s, "prio", k, file.prio[k], LastOf(list, k, file.prio[k]))
            /\ (\A i, j \in 1 .. n : list[i].key = list[j].key => i = j)
                 => Mild(v2, s, "prio", k, {file.prio[k], LastOf(list, k, file.prio[k])})
        BY <2>5, <2>8, <3>3, ListReaches
      <3>5. Tame(r, "prio") => \A i, j \in 1 .. n : list[i].key = list[j].key => i = j
        BY <2>4, <2>5, <2>8 DEF Tame
      <3>6. QED BY <3>1, <3>2, <3>4, <3>5 DEF Reaches
    <2>11. \A i \in DOMAIN s : s[i].do = "write" BY <2>8
    <2>12. \A f \in Requested \ {"prio"} : \A k \in Keys(f) : \A i \in DOMAIN s : ~Sets(s[i], f, k)
      BY <2>8, <2>9
    <2>13. \A f \in Requested \intersect {"prio"} : \A k \in Keys(f) : Reaches(s, r, f, k)
      BY <1>0, <2>10
    <2>14. Piece(s, {"prio"}, r) BY <2>7, <2>11, <2>12, <2>13, PieceOf
    <2>15. QED BY <2>2, <2>14
  <1>5. QED BY <1>2, <1>3, <1>4

LEMMA NetworkPiece ==
  ASSUME NEW r \in Request
  PROVE  Piece(SetNetwork(r), {"class", "prio"}, r)
  <1> DEFINE A == Given(r.class, IF v2 THEN Fail("missing") ELSE Write("class", r.class))
             B == Given(r.prios, IF v2 THEN Fail("missing") ELSE Priorities(r, "write"))
  <1>1. Piece(A, {"class"}, r) /\ Piece(B, {"prio"}, r) BY ClassPiece, PrioPiece
  <1>2. SetNetwork(r) = A \o B BY DEF SetNetwork
  <1> HIDE DEF A, B
  <1>3. {"class"} \intersect {"prio"} = {} /\ {"class"} \union {"prio"} = {"class", "prio"} OBVIOUS
  <1>4. QED BY <1>1, <1>2, <1>3, PieceJoin
LEMMA DevicesPiece ==
  ASSUME NEW r \in Request
  PROVE  Piece(SetDevices(r), {"devices"}, r)
  <1>0. /\ "devices" \notin Keyed /\ "devices" \in Tables /\ "devices" \in Requested
        /\ Keys("devices") = Devices
    BY DEF Keyed, Tables, Requested, Files, Keys
  <1>1. \A g : \A k : Cell(g, "devices", k) = IF k \in g.devices THEN "allow" ELSE "deny"
    BY <1>0 DEF Cell
  <1> DEFINE ds == r.devices
             at(k) == {i \in DOMAIN ds : k \in ds[i].devs}
  <1>2. Wanted(r, file).devices = IF ds = none THEN file.devices ELSE WantedDevices(ds, file.devices)
    BY DEF Wanted
  <1>3. ASSUME ds # none, NEW k \in Devices
        PROVE  k \in Wanted(r, file).devices
                 <=> IF at(k) = {} THEN k \in file.devices ELSE ds[Max(at(k))].rule = "allow"
    BY <1>2, <1>3 DEF WantedDevices
  <1>4. CASE ds = none
    <2>1. \A k \in Devices : k \in Wanted(r, file).devices <=> k \in file.devices BY <1>2, <1>4
    <2>2. \A f \in Requested \intersect {"devices"} : \A k \in Keys(f) : Want(r, f, k) = Cell(file, f, k)
      BY <1>0, <1>1, <2>1 DEF Want
    <2>3. Piece(<< >>, {"devices"}, r) BY <2>2, PieceEmpty
    <2>4. QED BY <1>4, <2>3 DEF SetDevices, Given
  <1>5. CASE ds # none /\ v2
    <2>1. Piece(Fail("missing"), {"devices"}, r) BY PieceFail DEF Errors, Gone
    <2>2. QED BY <1>5, <2>1 DEF SetDevices, Given
  <1>6. CASE ds # none /\ ~v2
    <2> DEFINE s == [i \in DOMAIN ds |-> Rule(ds[i])]
               n == Len(ds)
    <2>1. ds \in Seq(Rules) BY <1>6 DEF Request, Opt, Rules
    <2>2. SetDevices(r) = s BY <1>6 DEF SetDevices, Given
    <2> HIDE DEF ds
    <2>3. /\ n \in Nat /\ DOMAIN ds = 1 .. n
          /\ \A i \in 1 .. n : ds[i] \in Rules
      <3>1. n \in Nat /\ DOMAIN ds = 1 .. n /\ \A i \in DOMAIN ds : ds[i] \in Rules BY <2>1, Elements
      <3>2. QED BY <3>1
    <2> HIDE DEF n
    <2> DEFINE typeless(i) == ds[i].rule = "typeless"
    <2>4. ASSUME NEW i \in 1 .. n
          PROVE  /\ s[i] \in Steps
                 /\ typeless(i) => s[i].do = "fail"
                 /\ ~typeless(i) => /\ s[i].do = "write" /\ s[i].file = ds[i].rule /\ s[i].val = ds[i].devs
                                    /\ s[i].file \in {"allow", "deny"}
      <3>1. CASE typeless(i)
        <4>1. s[i] = [do |-> "fail", err |-> "type"] BY <2>3, <3>1 DEF Rule
        <4>2. s[i] \in Failures(Errors) BY <4>1 DEF Failures, Errors, Gone
        <4>3. QED BY <3>1, <4>1, <4>2 DEF Steps
      <3>2. CASE ~typeless(i)
        <4>1. s[i] = [do |-> "write", file |-> ds[i].rule, val |-> ds[i].devs] BY <2>3, <3>2 DEF Rule
        <4>2. ds[i].rule \in {"allow", "deny"} /\ ds[i].devs \in SUBSET Devices BY <2>3, <3>2 DEF Rules
        <4>3. ds[i].devs \in Values(ds[i].rule) /\ ds[i].rule \in Names BY <4>2, ValuesDef DEF Names
        <4>4. s[i] \in Puts(Names) BY <4>1, <4>3, PutsType
        <4>5. QED BY <3>2, <4>1, <4>2, <4>4 DEF Steps
      <3>3. QED BY <3>1, <3>2
    <2>5. s \in Seq(Steps)
      <3>1. s \in [DOMAIN ds -> Steps] BY <2>3, <2>4
      <3> HIDE DEF s
      <3>2. QED BY <2>1, <3>1, Mapped
    <2>6. DOMAIN s = 1 .. n BY <2>3
    <2> HIDE DEF s
    <2>7. ASSUME NEW i \in 1 .. n, NEW k
          PROVE  /\ \A f \in Requested \ {"devices"} : ~Sets(s[i], f, k)
                 /\ ~typeless(i) => /\ Sets(s[i], "devices", k) <=> k \in ds[i].devs
                                    /\ Leaves(v2, s[i], "devices") = ds[i].rule
      <3>1. \A f \in Requested \ {"devices"} : f \notin {"allow", "deny"} /\ ~(f = "devices")
        BY DEF Requested, Files, Keyed
      <3>2. CASE typeless(i) BY <2>4, <3>2 DEF Sets
      <3>3. CASE ~typeless(i)
        <4>1. \A f \in Requested \ {"devices"} : ~Sets(s[i], f, k) BY <2>4, <3>1, <3>3 DEF Sets
        <4>2. Sets(s[i], "devices", k) <=> k \in ds[i].devs BY <1>0, <2>4, <3>3 DEF Sets
        <4>3. Leaves(v2, s[i], "devices") = ds[i].rule BY <2>4, <3>3 DEF Leaves, Keyed
        <4>4. QED BY <4>1, <4>2, <4>3
      <3>4. QED BY <3>2, <3>3
    <2>8. ASSUME \E i \in 1 .. n : typeless(i), NEW k \in Devices PROVE Reaches(s, r, "devices", k)
      <3>1. Doomed(s) BY <2>4, <2>6, <2>8 DEF Doomed
      <3>2. QED BY <3>1 DEF Reaches, Tame, Ends
    <2>9. ASSUME \A i \in 1 .. n : ~typeless(i), NEW k \in Devices PROVE Reaches(s, r, "devices", k)
      <3> DEFINE u == Cell(file, "devices", k)
                 m == at(k)
      <3>1. m = {i \in 1 .. n : Sets(s[i], "devices", k)} BY <2>3, <2>7, <2>9
      <3>2. Want(r, "devices", k) = IF m = {} THEN u ELSE ds[Max(m)].rule
        <4>1. m # {} => Max(m) \in 1 .. n
          <5>1. m \in SUBSET (1 .. n) BY <2>3
          <5> HIDE DEF m
          <5>2. QED BY <2>3, <5>1, MaxDef
        <4>2. m # {} => ds[Max(m)].rule \in {"allow", "deny"} BY <2>3, <2>9, <4>1 DEF Rules
        <4>3. k \in Wanted(r, file).devices
                <=> IF m = {} THEN k \in file.devices ELSE ds[Max(m)].rule = "allow"
          BY <1>3, <1>6
        <4> HIDE DEF m
        <4>4. QED BY <1>1, <4>2, <4>3 DEF Want
      <3>3. m # {} => Leaves(v2, s[Max(m)], "devices") = ds[Max(m)].rule
        <4>1. m \in SUBSET (1 .. n) BY <2>3
        <4> HIDE DEF m
        <4>2. QED BY <2>3, <2>7, <2>9, <4>1, MaxDef
      <3> HIDE DEF m, u
      <3>4. Ends(v2, s, "devices", k, u, IF m = {} THEN u ELSE Leaves(v2, s[Max(m)], "devices"))
        BY <2>3, <2>5, <2>6, <3>1, ListEnds
      <3>5. Ends(v2, s, "devices", k, u, Want(r, "devices", k)) BY <3>2, <3>3, <3>4
      <3>6. QED BY <3>5 DEF Reaches, Tame, u
    <2>10. \A i \in DOMAIN s : s[i].do \in {"write", "fail"} BY <2>4, <2>6
    <2>11. \A f \in Requested \ {"devices"} : \A k \in Keys(f) : \A i \in DOMAIN s : ~Sets(s[i], f, k)
      BY <2>6, <2>7
    <2>12. \A f \in Requested \intersect {"devices"} : \A k \in Keys(f) : Reaches(s, r, f, k)
      BY <1>0, <2>8, <2>9
    <2>13. Piece(s, {"devices"}, r) BY <2>5, <2>10, <2>11, <2>12, PieceOf
    <2>14. QED BY <2>2, <2>13
  <1>7. QED BY <1>4, <1>5, <1>6
-----------------------------------------------------------------------------
(***************************************************************************)
(* Block devices: weights and rates.                                       *)
(***************************************************************************)

\* A step that the others leave alone.
LEMMA ReachesBeside ==
  ASSUME NEW S, NEW s \in Seq(S), NEW t \in Seq(S), NEW r, NEW f, NEW k
  PROVE  /\ Reaches(s, r, f, k) /\ Unset(t, f, k) => Reaches(s \o t, r, f, k)
         /\ Unset(s, f, k) /\ Reaches(t, r, f, k) => Reaches(s \o t, r, f, k)
  <1> DEFINE u == Cell(file, f, k)
             v == Want(r, f, k)
  <1>1. ASSUME Reaches(s, r, f, k), Unset(t, f, k) PROVE Reaches(s \o t, r, f, k)
    <2>1. Ends(v2, t, f, k, v, v) /\ Mild(v2, t, f, k, {u, v}) BY <1>1, EndsSame
    <2>2. Suits(r) => Ends(v2, s \o t, f, k, u, v) BY <1>1, <2>1, EndsConcat DEF Reaches
    <2>3. Tame(r, f) => Mild(v2, s \o t, f, k, {u, v}) BY <1>1, <2>1, MildConcat DEF Reaches
    <2>4. QED BY <2>2, <2>3 DEF Reaches
  <1>2. ASSUME Unset(s, f, k), Reaches(t, r, f, k) PROVE Reaches(s \o t, r, f, k)
    <2>1. Ends(v2, s, f, k, u, u) /\ Mild(v2, s, f, k, {u, v}) BY <1>2, EndsSame
    <2>2. Suits(r) => Ends(v2, s \o t, f, k, u, v) BY <1>2, <2>1, EndsConcat DEF Reaches
    <2>3. Tame(r, f) => Mild(v2, s \o t, f, k, {u, v}) BY <1>2, <2>1, MildConcat DEF Reaches
    <2>4. QED BY <2>2, <2>3 DEF Reaches
  <1>3. QED BY <1>1, <1>2

Writings == {x \in Puts(BlkioFiles) : x.do = "write"}

Weighing(d, w) == Given(w.weight, Write("weight", [key |-> d, val |-> w.weight]))
                    \o Given(w.leaf, Write("leaf", [key |-> d, val |-> w.leaf]))
DeviceWeights(io) == FlattenSeq([i \in DOMAIN io.devices |-> Weighing(io.devices[i].dev, io.devices[i])])
Throttles(io, n) == FlattenSeq([i \in DOMAIN io.rates[n] |->
                      Write("rate", [key |-> <<n, io.rates[n][i].dev>>, val |-> io.rates[n][i].rate])])

BlkioAsked == [weight : Opt(Nat), leaf : Opt(Nat),
               devices : Seq([dev : Nat \ {0}, weight : Opt(Nat), leaf : Opt(Nat)]),
               rates : [Rates -> Seq([dev : Nat, rate : Nat])]]

LEMMA BlkioDef ==
  ASSUME NEW io
  PROVE  Blkio(io, "write") = Weighing(0, io) \o DeviceWeights(io)
           \o Throttles(io, "rbps") \o Throttles(io, "wbps") \o Throttles(io, "riops") \o Throttles(io, "wiops")
  BY DEF Blkio, Weighing, DeviceWeights, Throttles, Write

\* One write.
LEMMA OneWriting ==
  ASSUME NEW f \in BlkioFiles, NEW v \in Values(f)
  PROVE  /\ Write(f, v) \in Seq(Writings)
         /\ \A g, k : g # f \/ k # v.key => Unset(Write(f, v), g, k)
         /\ \A w : w = (IF f = "rate" /\ v.val = 0 THEN Unlimited ELSE v.val) =>
              Fixes(v2, Write(f, v), f, v.key, w) /\ Mild(v2, Write(f, v), f, v.key, {w})
  <1> DEFINE x == [do |-> "write", file |-> f, val |-> v]
  <1>1. x \in Writings /\ x.do = "write" /\ x.file = f /\ x.val = v BY DEF Puts, Writings
  <1>2. Write(f, v) = <<x>> BY DEF Write
  <1>3. f \in Keyed /\ f \in Tables /\ f \in {"weight", "leaf", "rate"} BY DEF BlkioFiles, Keyed, Tables
  <1> HIDE DEF x
  <1>4. <<x>> \in Seq(Writings) /\ DOMAIN <<x>> = {1} /\ <<x>>[1] = x BY <1>1
  <1>5. \A g, k : g # f \/ k # v.key => ~Sets(x, g, k) BY <1>1, <1>3 DEF Sets
  <1>6. Sets(x, f, v.key) BY <1>1, <1>3 DEF Sets
  <1>7. Leaves(v2, x, f) = IF f = "rate" /\ v.val = 0 THEN Unlimited ELSE v.val
    BY <1>1, <1>3 DEF Leaves
  <1>8. \A w : w = Leaves(v2, x, f) => Fixes(v2, <<x>>, f, v.key, w) /\ Mild(v2, <<x>>, f, v.key, {w})
    BY <1>4, <1>6 DEF Fixes, Mild
  <1>9. \A g, k : g # f \/ k # v.key => Unset(<<x>>, g, k) BY <1>4, <1>5 DEF Unset
  <1>10. QED BY <1>2, <1>4, <1>7, <1>8, <1>9

\* The two weights of one device, or of the cgroup.
LEMMA WeighingReaches ==
  ASSUME NEW d \in Nat, NEW w, w.weight \in Opt(Nat), w.leaf \in Opt(Nat)
  PROVE  /\ Weighing(d, w) \in Seq(Writings)
         /\ \A f, k : f \notin {"weight", "leaf"} => Unset(Weighing(d, w), f, k)
         /\ \A f \in {"weight", "leaf"} : \A k :
              IF d = k /\ w[f] # none
              THEN Fixes(v2, Weighing(d, w), f, k, w[f]) /\ Mild(v2, Weighing(d, w), f, k, {w[f]})
              ELSE Unset(Weighing(d, w), f, k)
  <1> DEFINE P(f) == Given(w[f], Write(f, [key |-> d, val |-> w[f]]))
  <1>1. ASSUME NEW f \in {"weight", "leaf"}
        PROVE  /\ P(f) \in Seq(Writings)
               /\ \A g, k : g # f \/ k # d \/ w[f] = none => Unset(P(f), g, k)
               /\ w[f] # none => Fixes(v2, P(f), f, d, w[f]) /\ Mild(v2, P(f), f, d, {w[f]})
    <2>1. CASE w[f] = none
      <3>1. P(f) = << >> BY <2>1 DEF Given
      <3> HIDE DEF P
      <3>2. QED BY <2>1, <3>1 DEF Unset
    <2>2. CASE w[f] # none
      <3> DEFINE v == [key |-> d, val |-> w[f]]
      <3>1. w[f] \in Nat BY <2>2 DEF Opt
      <3>2. v \in Values(f) /\ f \in BlkioFiles /\ f # "rate" BY <3>1, ValuesDef DEF BlkioFiles
      <3>3. P(f) = Write(f, v) BY <2>2 DEF Given
      <3>4. v.key = d /\ v.val = w[f] OBVIOUS
      <3> HIDE DEF v, P
      <3>5. /\ Write(f, v) \in Seq(Writings)
            /\ \A g, k : g # f \/ k # v.key => Unset(Write(f, v), g, k)
            /\ Fixes(v2, Write(f, v), f, v.key, w[f]) /\ Mild(v2, Write(f, v), f, v.key, {w[f]})
        BY <3>2, <3>4, OneWriting
      <3>6. QED BY <2>2, <3>3, <3>4, <3>5
    <2>3. QED BY <2>1, <2>2
  <1>2. Weighing(d, w) = P("weight") \o P("leaf") BY DEF Weighing
  <1> HIDE DEF P
  <1> DEFINE A == P("weight")
             B == P("leaf")
  <1>3. A \in Seq(Writings) /\ B \in Seq(Writings) BY <1>1
  <1>4. \A g, k : g # "weight" \/ k # d \/ w.weight = none => Unset(A, g, k) BY <1>1
  <1>5. \A g, k : g # "leaf" \/ k # d \/ w.leaf = none => Unset(B, g, k) BY <1>1
  <1>6. w.weight # none => Fixes(v2, A, "weight", d, w.weight) /\ Mild(v2, A, "weight", d, {w.weight}) BY <1>1
  <1>7. w.leaf # none => Fixes(v2, B, "leaf", d, w.leaf) /\ Mild(v2, B, "leaf", d, {w.leaf}) BY <1>1
  <1> HIDE DEF A, B
  <1>8. A \o B \in Seq(Writings) BY <1>3, Concat
  <1>9. ASSUME NEW f, NEW k, Unset(A, f, k), Unset(B, f, k) PROVE Unset(A \o B, f, k)
    BY <1>3, <1>9, UnsetConcat
  <1>10. ASSUME w.weight # none
         PROVE  Fixes(v2, A \o B, "weight", d, w.weight) /\ Mild(v2, A \o B, "weight", d, {w.weight})
    <2>1. Unset(B, "weight", d) BY <1>5
    <2>2. Mild(v2, B, "weight", d, {w.weight}) BY <2>1, EndsSame
    <2>3. QED BY <1>3, <1>6, <1>10, <2>1, <2>2, FixesLeft, MildConcat
  <1>11. ASSUME w.leaf # none
         PROVE  Fixes(v2, A \o B, "leaf", d, w.leaf) /\ Mild(v2, A \o B, "leaf", d, {w.leaf})
    <2>1. Unset(A, "leaf", d) BY <1>4
    <2>2. Mild(v2, A, "leaf", d, {w.leaf}) BY <2>1, EndsSame
    <2>3. QED BY <1>3, <1>7, <1>11, <2>1, <2>2, FixesRight, MildConcat
  <1>12. \A f, k : f \notin {"weight", "leaf"} => Unset(A \o B, f, k) BY <1>4, <1>5, <1>9
  <1>13. \A f \in {"weight", "leaf"} : \A k : d # k \/ w[f] = none => Unset(A \o B, f, k)
    BY <1>4, <1>5, <1>9
  <1>14. Weighing(d, w) = A \o B BY <1>2 DEF A, B
  <1>15. QED BY <1>8, <1>10, <1>11, <1>12, <1>13, <1>14
LEMMA FlatWritings ==
  ASSUME NEW ss \in Seq(Seq(Writings)), NEW f, NEW k, \A i \in 1 .. Len(ss) : Unset(ss[i], f, k)
  PROVE  Unset(FlattenSeq(ss), f, k)
  <1> DEFINE T == {x \in Writings : ~Sets(x, f, k)}
  <1>1. \A i \in 1 .. Len(ss) : ss[i] \in Seq(Writings) OBVIOUS
  <1>2. \A i \in 1 .. Len(ss) : \A j \in DOMAIN ss[i] : ss[i][j] \in T BY <1>1, Elements DEF Unset
  <1>3. \A x \in T : ~Sets(x, f, k) OBVIOUS
  <1> HIDE DEF T
  <1>4. \A i \in DOMAIN FlattenSeq(ss) : FlattenSeq(ss)[i] \in T BY <1>2, FlatAll
  <1>5. QED BY <1>3, <1>4 DEF Unset

\* The weights of the devices: the last one that is given counts.
LEMMA DeviceWeightsReach ==
  ASSUME NEW io \in BlkioAsked
  PROVE  /\ DeviceWeights(io) \in Seq(Writings)
         /\ \A f, k : f \notin {"weight", "leaf"} \/ k = 0 => Unset(DeviceWeights(io), f, k)
         /\ \A f \in {"weight", "leaf"} : \A k, u :
              LET list == [i \in DOMAIN io.devices |-> [key |-> io.devices[i].dev, val |-> io.devices[i][f]]]
              IN  /\ Ends(v2, DeviceWeights(io), f, k, u, LastOf(list, k, u))
                  /\ (\A i, j \in DOMAIN io.devices : io.devices[i].dev = io.devices[j].dev => i = j)
                       => Mild(v2, DeviceWeights(io), f, k, {u, LastOf(list, k, u)})
  <1> DEFINE ds == io.devices
             D == [dev : Nat \ {0}, weight : Opt(Nat), leaf : Opt(Nat)]
             ss == [i \in DOMAIN ds |-> Weighing(ds[i].dev, ds[i])]
  <1>1. ds \in Seq(D) BY DEF BlkioAsked
  <1>2. DeviceWeights(io) = FlattenSeq(ss) BY DEF DeviceWeights
  <1> HIDE DEF ds
  <1>3. Len(ds) \in Nat /\ DOMAIN ds = 1 .. Len(ds) /\ \A i \in 1 .. Len(ds) : ds[i] \in D
    <2> HIDE DEF D
    <2>1. QED BY <1>1, Elements
  <1>4. ASSUME NEW i \in 1 .. Len(ds)
        PROVE  /\ ss[i] \in Seq(Writings)
               /\ \A f, k : f \notin {"weight", "leaf"} => Unset(ss[i], f, k)
               /\ \A f \in {"weight", "leaf"} : \A k :
                    IF ds[i].dev = k /\ ds[i][f] # none
                    THEN Fixes(v2, ss[i], f, k, ds[i][f]) /\ Mild(v2, ss[i], f, k, {ds[i][f]})
                    ELSE Unset(ss[i], f, k)
    <2>1. ds[i].dev \in Nat /\ ds[i].weight \in Opt(Nat) /\ ds[i].leaf \in Opt(Nat) BY <1>3
    <2>2. ss[i] = Weighing(ds[i].dev, ds[i]) BY <1>3
    <2> DEFINE d == ds[i].dev
               w == ds[i]
    <2>3. d \in Nat /\ w.weight \in Opt(Nat) /\ w.leaf \in Opt(Nat) BY <2>1
    <2> HIDE DEF ss, d, w
    <2>4. /\ Weighing(d, w) \in Seq(Writings)
          /\ \A f, k : f \notin {"weight", "leaf"} => Unset(Weighing(d, w), f, k)
          /\ \A f \in {"weight", "leaf"} : \A k :
               IF d = k /\ w[f] # none
               THEN Fixes(v2, Weighing(d, w), f, k, w[f]) /\ Mild(v2, Weighing(d, w), f, k, {w[f]})
               ELSE Unset(Weighing(d, w), f, k)
      BY ONLY <2>3, WeighingReaches
    <2>5. ss[i] = Weighing(d, w) BY <2>2 DEF d, w
    <2>6. QED BY ONLY <2>4, <2>5 DEF d, w
  <1>5. ss \in Seq(Seq(Writings)) /\ Len(ss) = Len(ds)
    <2>1. DOMAIN ss = DOMAIN ds /\ ss \in [DOMAIN ds -> Seq(Writings)] BY <1>3, <1>4
    <2> HIDE DEF ss, D
    <2>2. ss \in Seq(Seq(Writings)) BY <1>1, <2>1, Mapped
    <2>3. DOMAIN ss = 1 .. Len(ss) /\ Len(ss) \in Nat BY <2>2, Elements
    <2>4. QED BY <1>3, <2>1, <2>2, <2>3
  <1> HIDE DEF ss
  <1>6. FlattenSeq(ss) \in Seq(Writings) BY <1>5, FlattenType
  <1>7. ASSUME NEW f, NEW k, f \notin {"weight", "leaf"} \/ k = 0 PROVE Unset(FlattenSeq(ss), f, k)
    <2>1. \A i \in 1 .. Len(ds) : ds[i].dev # 0 BY <1>3
    <2>2. \A i \in 1 .. Len(ss) : Unset(ss[i], f, k) BY <1>4, <1>5, <1>7, <2>1
    <2>3. QED BY <1>5, <2>2, FlatWritings
  <1>8. ASSUME NEW f \in {"weight", "leaf"}, NEW k, NEW u, NEW list,
               list = [i \in DOMAIN ds |-> [key |-> ds[i].dev, val |-> ds[i][f]]]
        PROVE  /\ Ends(v2, FlattenSeq(ss), f, k, u, LastOf(list, k, u))
               /\ (\A i, j \in DOMAIN ds : ds[i].dev = ds[j].dev => i = j)
                    => Mild(v2, FlattenSeq(ss), f, k, {u, LastOf(list, k, u)})
    <2>1. /\ DOMAIN list = 1 .. Len(ss)
          /\ \A i \in 1 .. Len(ss) : list[i].key = ds[i].dev /\ list[i].val = ds[i][f]
      BY <1>3, <1>5, <1>8
    <2>2. \A i \in 1 .. Len(ss) : IF list[i].key = k /\ list[i].val # none
                                  THEN /\ Fixes(v2, ss[i], f, k, list[i].val)
                                       /\ Mild(v2, ss[i], f, k, {list[i].val})
                                  ELSE Unset(ss[i], f, k)
      BY <1>4, <1>5, <2>1
    <2>3. /\ Ends(v2, FlattenSeq(ss), f, k, u, LastOf(list, k, u))
          /\ (\A i, j \in 1 .. Len(ss) : list[i].key = list[j].key => i = j)
               => Mild(v2, FlattenSeq(ss), f, k, {u, LastOf(list, k, u)})
      BY <1>5, <2>1, <2>2, FlatReaches
    <2>4. (\A i, j \in DOMAIN ds : ds[i].dev = ds[j].dev => i = j)
            => \A i, j \in 1 .. Len(ss) : list[i].key = list[j].key => i = j
      <3>1. DOMAIN ds = 1 .. Len(ss) BY <1>3, <1>5
      <3>2. QED BY ONLY <2>1, <3>1
    <2>5. QED BY ONLY <2>3, <2>4
  <1>9. ASSUME NEW f \in {"weight", "leaf"}, NEW k, NEW u
        PROVE  LET list == [i \in DOMAIN ds |-> [key |-> ds[i].dev, val |-> ds[i][f]]]
               IN  /\ Ends(v2, FlattenSeq(ss), f, k, u, LastOf(list, k, u))
                   /\ (\A i, j \in DOMAIN ds : ds[i].dev = ds[j].dev => i = j)
                        => Mild(v2, FlattenSeq(ss), f, k, {u, LastOf(list, k, u)})
    <2> DEFINE list == [i \in DOMAIN ds |-> [key |-> ds[i].dev, val |-> ds[i][f]]]
    <2>1. list = [i \in DOMAIN ds |-> [key |-> ds[i].dev, val |-> ds[i][f]]] OBVIOUS
    <2> HIDE DEF list
    <2>2. /\ Ends(v2, FlattenSeq(ss), f, k, u, LastOf(list, k, u))
          /\ (\A i, j \in DOMAIN ds : ds[i].dev = ds[j].dev => i = j)
               => Mild(v2, FlattenSeq(ss), f, k, {u, LastOf(list, k, u)})
      BY <1>8, <2>1
    <2>3. QED BY <2>2 DEF list
  <1>10. QED BY <1>2, <1>6, <1>7, <1>9, Zenon DEF ds

\* The rates of one kind.
LEMMA ThrottlesReach ==
  ASSUME NEW io \in BlkioAsked, NEW n \in Rates
  PROVE  /\ Throttles(io, n) \in Seq(Writings)
         /\ \A f, k : f # "rate" => Unset(Throttles(io, n), f, k)
         /\ \A m, d : m # n => Unset(Throttles(io, n), "rate", <<m, d>>)
         /\ \A d, u :
              LET list == [i \in DOMAIN io.rates[n] |->
                             [key |-> io.rates[n][i].dev,
                              val |-> IF io.rates[n][i].rate = 0 THEN Unlimited ELSE io.rates[n][i].rate]]
              IN  /\ Ends(v2, Throttles(io, n), "rate", <<n, d>>, u, LastOf(list, d, u))
                  /\ (\A i, j \in DOMAIN io.rates[n] : io.rates[n][i].dev = io.rates[n][j].dev => i = j)
                       => Mild(v2, Throttles(io, n), "rate", <<n, d>>, {u, LastOf(list, d, u)})
  <1> DEFINE ds == io.rates[n]
             D == [dev : Nat, rate : Nat]
             Or(m) == IF m = 0 THEN Unlimited ELSE m
             ss == [i \in DOMAIN ds |-> Write("rate", [key |-> <<n, ds[i].dev>>, val |-> ds[i].rate])]
  <1>1. ds \in Seq(D) BY DEF BlkioAsked
  <1>2. Throttles(io, n) = FlattenSeq(ss) BY DEF Throttles
  <1> HIDE DEF ds
  <1>3. Len(ds) \in Nat /\ DOMAIN ds = 1 .. Len(ds) /\ \A i \in 1 .. Len(ds) : ds[i] \in D
    <2> HIDE DEF D
    <2>1. QED BY <1>1, Elements
  <1>4. ASSUME NEW i \in 1 .. Len(ds)
        PROVE  /\ ss[i] \in Seq(Writings)
               /\ \A f, k : f # "rate" \/ k # <<n, ds[i].dev>> => Unset(ss[i], f, k)
               /\ Fixes(v2, ss[i], "rate", <<n, ds[i].dev>>, Or(ds[i].rate))
               /\ Mild(v2, ss[i], "rate", <<n, ds[i].dev>>, {Or(ds[i].rate)})
               /\ Or(ds[i].rate) # none
    <2> DEFINE v == [key |-> <<n, ds[i].dev>>, val |-> ds[i].rate]
    <2>1. v \in Values("rate") /\ "rate" \in BlkioFiles BY <1>3, ValuesDef DEF BlkioFiles
    <2>2. ss[i] = Write("rate", v) BY <1>3
    <2>3. v.key = <<n, ds[i].dev>> /\ v.val = ds[i].rate OBVIOUS
    <2>4. Or(ds[i].rate) # none
      <3>1. Or(ds[i].rate) \in Int BY <1>3 DEF Unlimited
      <3>2. QED BY <3>1, NoneAssumption
    <2> HIDE DEF v, ss
    <2>5. /\ Write("rate", v) \in Seq(Writings)
          /\ \A f, k : f # "rate" \/ k # v.key => Unset(Write("rate", v), f, k)
          /\ \A w : w = (IF "rate" = "rate" /\ v.val = 0 THEN Unlimited ELSE v.val) =>
               Fixes(v2, Write("rate", v), "rate", v.key, w) /\ Mild(v2, Write("rate", v), "rate", v.key, {w})
      BY <2>1, OneWriting
    <2>6. QED BY <2>2, <2>3, <2>4, <2>5
  <1>5. ss \in Seq(Seq(Writings)) /\ Len(ss) = Len(ds)
    <2>1. DOMAIN ss = DOMAIN ds /\ ss \in [DOMAIN ds -> Seq(Writings)] BY <1>3, <1>4
    <2> HIDE DEF ss, D
    <2>2. ss \in Seq(Seq(Writings)) BY <1>1, <2>1, Mapped
    <2>3. DOMAIN ss = 1 .. Len(ss) /\ Len(ss) \in Nat BY <2>2, Elements
    <2>4. QED BY <1>3, <2>1, <2>2, <2>3
  <1> HIDE DEF ss
  <1>6. FlattenSeq(ss) \in Seq(Writings) BY <1>5, FlattenType
  <1>7. ASSUME NEW f, NEW k, f # "rate" \/ \A d : k # <<n, d>> PROVE Unset(FlattenSeq(ss), f, k)
    <2>1. \A i \in 1 .. Len(ss) : Unset(ss[i], f, k) BY <1>4, <1>5, <1>7
    <2>2. QED BY <1>5, <2>1, FlatWritings
  <1>8. ASSUME NEW d, NEW u, NEW list, list = [i \in DOMAIN ds |-> [key |-> ds[i].dev, val |-> Or(ds[i].rate)]]
        PROVE  /\ Ends(v2, FlattenSeq(ss), "rate", <<n, d>>, u, LastOf(list, d, u))
               /\ (\A i, j \in DOMAIN ds : ds[i].dev = ds[j].dev => i = j)
                    => Mild(v2, FlattenSeq(ss), "rate", <<n, d>>, {u, LastOf(list, d, u)})
    <2> DEFINE pairs == [i \in DOMAIN ds |-> [key |-> <<n, ds[i].dev>>, val |-> Or(ds[i].rate)]]
    <2>1. /\ DOMAIN pairs = 1 .. Len(ss)
          /\ \A i \in 1 .. Len(ss) : pairs[i].key = <<n, ds[i].dev>> /\ pairs[i].val = Or(ds[i].rate)
      BY <1>3, <1>5
    <2>2. /\ DOMAIN list = 1 .. Len(ss)
          /\ \A i \in 1 .. Len(ss) : list[i].key = ds[i].dev /\ list[i].val = Or(ds[i].rate)
      BY <1>3, <1>5, <1>8
    <2> HIDE DEF pairs, Or
    <2>3. \A i \in 1 .. Len(ss) : IF pairs[i].key = <<n, d>> /\ pairs[i].val # none
                                  THEN /\ Fixes(v2, ss[i], "rate", <<n, d>>, pairs[i].val)
                                       /\ Mild(v2, ss[i], "rate", <<n, d>>, {pairs[i].val})
                                  ELSE Unset(ss[i], "rate", <<n, d>>)
      BY <1>4, <1>5, <2>1
    <2>4. LastOf(pairs, <<n, d>>, u) = LastOf(list, d, u)
      <3>1. /\ DOMAIN pairs = DOMAIN list
            /\ \A i \in DOMAIN pairs : /\ pairs[i].key = <<n, d>> <=> list[i].key = d
                                       /\ pairs[i].val = list[i].val
        BY <2>1, <2>2
      <3>2. {i \in DOMAIN pairs : pairs[i].key = <<n, d>> /\ pairs[i].val # none}
              = {i \in DOMAIN list : list[i].key = d /\ list[i].val # none}
        BY <3>1
      <3> DEFINE at == {i \in DOMAIN list : list[i].key = d /\ list[i].val # none}
      <3>3. LastOf(pairs, <<n, d>>, u) = IF at = {} THEN u ELSE pairs[Max(at)].val BY <3>2 DEF LastOf
      <3>4. LastOf(list, d, u) = IF at = {} THEN u ELSE list[Max(at)].val BY DEF LastOf
      <3>5. at # {} => Max(at) \in at
        <4>1. at \in SUBSET (1 .. Len(ss)) /\ Len(ss) \in Nat BY <1>3, <1>5, <2>2
        <4> HIDE DEF at
        <4>2. QED BY <4>1, MaxDef
      <3>6. \A i \in at : i \in DOMAIN pairs BY <3>1
      <3> HIDE DEF at
      <3>7. QED BY <3>1, <3>3, <3>4, <3>5, <3>6
    <2>5. /\ Ends(v2, FlattenSeq(ss), "rate", <<n, d>>, u, LastOf(pairs, <<n, d>>, u))
          /\ (\A i, j \in 1 .. Len(ss) : pairs[i].key = pairs[j].key => i = j)
               => Mild(v2, FlattenSeq(ss), "rate", <<n, d>>, {u, LastOf(pairs, <<n, d>>, u)})
      BY <1>5, <2>1, <2>3, FlatReaches
    <2>6. (\A i, j \in DOMAIN ds : ds[i].dev = ds[j].dev => i = j)
            => \A i, j \in 1 .. Len(ss) : pairs[i].key = pairs[j].key => i = j
      BY <1>3, <1>5, <2>1
    <2>7. QED BY <2>4, <2>5, <2>6
  <1>9. \A m, d : m # n => Unset(FlattenSeq(ss), "rate", <<m, d>>) BY <1>7
  <1>10. ASSUME NEW d, NEW u
         PROVE  LET list == [i \in DOMAIN ds |-> [key |-> ds[i].dev, val |-> Or(ds[i].rate)]]
                IN  /\ Ends(v2, FlattenSeq(ss), "rate", <<n, d>>, u, LastOf(list, d, u))
                    /\ (\A i, j \in DOMAIN ds : ds[i].dev = ds[j].dev => i = j)
                         => Mild(v2, FlattenSeq(ss), "rate", <<n, d>>, {u, LastOf(list, d, u)})
    <2> DEFINE list == [i \in DOMAIN ds |-> [key |-> ds[i].dev, val |-> Or(ds[i].rate)]]
    <2>1. list = [i \in DOMAIN ds |-> [key |-> ds[i].dev, val |-> Or(ds[i].rate)]] OBVIOUS
    <2> HIDE DEF list
    <2>2. /\ Ends(v2, FlattenSeq(ss), "rate", <<n, d>>, u, LastOf(list, d, u))
          /\ (\A i, j \in DOMAIN ds : ds[i].dev = ds[j].dev => i = j)
               => Mild(v2, FlattenSeq(ss), "rate", <<n, d>>, {u, LastOf(list, d, u)})
      BY <1>8, <2>1
    <2>3. QED BY <2>2 DEF list
  <1>11. QED BY <1>2, <1>6, <1>7, <1>9, <1>10, Zenon DEF ds
LEMMA WantedBlkio ==
  ASSUME NEW r, r.io # none
  PROVE  /\ \A f \in {"weight", "leaf"} : \A k \in Weighted :
              LET list == [i \in DOMAIN r.io.devices |->
                             [key |-> r.io.devices[i].dev, val |-> r.io.devices[i][f]]]
              IN  /\ k # 0 => Want(r, f, k) = LastOf(list, k, file[f][k])
                  /\ k = 0 /\ r.io[f] = none => Want(r, f, k) = file[f][k]
                  /\ k = 0 /\ r.io[f] # none => Want(r, f, k) = r.io[f]
         /\ \A n \in Rates, d \in Disks :
              LET list == [i \in DOMAIN r.io.rates[n] |->
                             [key |-> r.io.rates[n][i].dev,
                              val |-> IF r.io.rates[n][i].rate = 0 THEN Unlimited ELSE r.io.rates[n][i].rate]]
              IN  Want(r, "rate", <<n, d>>) = LastOf(list, d, file.rate[<<n, d>>])
         /\ \A f \in BlkioFiles : \A k : Cell(file, f, k) = file[f][k]
  <1>1. \A f \in BlkioFiles : \A g, k : Cell(g, f, k) = g[f][k] BY DEF Cell, BlkioFiles, Keyed
  <1>2. ASSUME NEW f \in {"weight", "leaf"}, NEW k \in Weighted
        PROVE  LET list == [i \in DOMAIN r.io.devices |->
                              [key |-> r.io.devices[i].dev, val |-> r.io.devices[i][f]]]
               IN  /\ k # 0 => Want(r, f, k) = LastOf(list, k, file[f][k])
                   /\ k = 0 /\ r.io[f] = none => Want(r, f, k) = file[f][k]
                   /\ k = 0 /\ r.io[f] # none => Want(r, f, k) = r.io[f]
    <2>1. Wanted(r, file)[f] = WantedWeights(r.io, f, file[f])
      <3>1. Wanted(r, file).weight = WantedWeights(r.io, "weight", file.weight) BY DEF Wanted
      <3>2. Wanted(r, file).leaf = WantedWeights(r.io, "leaf", file.leaf) BY DEF Wanted
      <3>3. QED BY <3>1, <3>2
    <2>2. Want(r, f, k) = WantedWeights(r.io, f, file[f])[k] BY <1>1, <2>1 DEF Want, BlkioFiles
    <2> DEFINE list == [i \in DOMAIN r.io.devices |->
                          [key |-> r.io.devices[i].dev, val |-> r.io.devices[i][f]]]
    <2>3. WantedWeights(r.io, f, file[f])[k] = CASE k # 0 -> LastOf(list, k, file[f][k])
                                                 [] k = 0 /\ r.io[f] = none -> file[f][k]
                                                 [] OTHER -> r.io[f]
      BY DEF WantedWeights
    <2> HIDE DEF list
    <2>4. /\ k # 0 => Want(r, f, k) = LastOf(list, k, file[f][k])
          /\ k = 0 /\ r.io[f] = none => Want(r, f, k) = file[f][k]
          /\ k = 0 /\ r.io[f] # none => Want(r, f, k) = r.io[f]
      BY <2>2, <2>3
    <2>5. QED BY <2>4, Zenon DEF list
  <1>3. ASSUME NEW n \in Rates, NEW d \in Disks
        PROVE  LET list == [i \in DOMAIN r.io.rates[n] |->
                              [key |-> r.io.rates[n][i].dev,
                               val |-> IF r.io.rates[n][i].rate = 0 THEN Unlimited ELSE r.io.rates[n][i].rate]]
               IN  Want(r, "rate", <<n, d>>) = LastOf(list, d, file.rate[<<n, d>>])
    <2>1. Wanted(r, file).rate = WantedRates(r.io, file.rate) BY DEF Wanted
    <2>2. Want(r, "rate", <<n, d>>) = WantedRates(r.io, file.rate)[<<n, d>>]
      BY <1>1, <2>1 DEF Want, BlkioFiles
    <2>3. <<n, d>>[1] = n /\ <<n, d>>[2] = d /\ <<n, d>> \in Rates \X Disks OBVIOUS
    <2>4. QED BY <2>2, <2>3 DEF WantedRates
  <1>4. QED BY <1>1, <1>2, <1>3, SMT

LEMMA WeightsPiece ==
  ASSUME NEW r \in Request, r.io # none, NEW f \in {"weight", "leaf"}, NEW k \in Weighted
  PROVE  Reaches(Weighing(0, r.io) \o DeviceWeights(r.io), r, f, k)
  <1> DEFINE io == r.io
             A == Weighing(0, io)
             B == DeviceWeights(io)
             u == Cell(file, f, k)
             list == [i \in DOMAIN io.devices |-> [key |-> io.devices[i].dev, val |-> io.devices[i][f]]]
  <1>1. io \in BlkioAsked /\ io.weight \in Opt(Nat) /\ io.leaf \in Opt(Nat)
    BY DEF Request, Opt, BlkioAsked
  <1>2. Distinct(r) => \A i, j \in DOMAIN io.devices : io.devices[i].dev = io.devices[j].dev => i = j
    BY DEF Distinct
  <1>3. /\ k # 0 => Want(r, f, k) = LastOf(list, k, u)
        /\ k = 0 /\ io[f] = none => Want(r, f, k) = u
        /\ k = 0 /\ io[f] # none => Want(r, f, k) = io[f]
    BY WantedBlkio DEF BlkioFiles
  <1> HIDE DEF io
  <1>4. /\ A \in Seq(Writings)
        /\ IF 0 = k /\ io[f] # none THEN Fixes(v2, A, f, k, io[f]) /\ Mild(v2, A, f, k, {io[f]})
                                    ELSE Unset(A, f, k)
    BY <1>1, WeighingReaches
  <1>5. /\ B \in Seq(Writings) /\ (k = 0 => Unset(B, f, k))
        /\ Ends(v2, B, f, k, u, LastOf(list, k, u))
        /\ (\A i, j \in DOMAIN io.devices : io.devices[i].dev = io.devices[j].dev => i = j)
             => Mild(v2, B, f, k, {u, LastOf(list, k, u)})
    BY <1>1, DeviceWeightsReach
  <1>6. CASE k # 0
    <2>1. Reaches(B, r, f, k) BY <1>2, <1>3, <1>5, <1>6 DEF Reaches, Tame
    <2>2. Unset(A, f, k) BY <1>4, <1>6
    <2> HIDE DEF A, B
    <2>3. Reaches(A \o B, r, f, k) BY <1>4, <1>5, <2>1, <2>2, ReachesBeside
    <2>4. QED BY <2>3 DEF A, B, io
  <1>7. CASE k = 0
    <2>1. Unset(B, f, k) BY <1>5, <1>7
    <2>2. Reaches(A, r, f, k)
      <3>1. CASE io[f] = none
        <4>1. Unset(A, f, k) BY <1>4, <3>1
        <4>2. QED BY <1>3, <1>7, <3>1, <4>1, EndsSame DEF Reaches
      <3>2. CASE io[f] # none
        <4>1. Ends(v2, A, f, k, u, io[f]) BY <1>4, <1>7, <3>2, FixesEnds
        <4>2. Mild(v2, A, f, k, {u, io[f]}) BY <1>4, <1>7, <3>2 DEF Mild
        <4>3. QED BY <1>3, <1>7, <3>2, <4>1, <4>2 DEF Reaches
      <3>3. QED BY <3>1, <3>2
    <2> HIDE DEF A, B
    <2>3. Reaches(A \o B, r, f, k) BY <1>4, <1>5, <2>1, <2>2, ReachesBeside
    <2>4. QED BY <2>3 DEF A, B, io
  <1>8. QED BY <1>6, <1>7
\* What follows leaves the cell to one of the parts.
LEMMA Beside ==
  ASSUME NEW S, NEW s \in Seq(S), NEW t \in Seq(S), NEW r, NEW f, NEW k
  PROVE  /\ s \o t \in Seq(S)
         /\ Reaches(s, r, f, k) /\ Unset(t, f, k) => Reaches(s \o t, r, f, k)
         /\ Unset(s, f, k) /\ Reaches(t, r, f, k) => Reaches(s \o t, r, f, k)
         /\ Unset(s, f, k) /\ Unset(t, f, k) => Unset(s \o t, f, k)
  BY Concat, ReachesBeside, UnsetConcat

LEMMA ThrottlePiece ==
  ASSUME NEW r \in Request, r.io # none, NEW n \in Rates, NEW d \in Disks
  PROVE  Reaches(Throttles(r.io, n), r, "rate", <<n, d>>)
  <1> DEFINE io == r.io
             u == Cell(file, "rate", <<n, d>>)
             list == [i \in DOMAIN io.rates[n] |->
                        [key |-> io.rates[n][i].dev,
                         val |-> IF io.rates[n][i].rate = 0 THEN Unlimited ELSE io.rates[n][i].rate]]
  <1>1. io \in BlkioAsked BY DEF Request, Opt, BlkioAsked
  <1>2. Distinct(r) => \A i, j \in DOMAIN io.rates[n] : io.rates[n][i].dev = io.rates[n][j].dev => i = j
    BY DEF Distinct
  <1>3. Want(r, "rate", <<n, d>>) = LastOf(list, d, u) BY WantedBlkio DEF BlkioFiles
  <1> HIDE DEF io
  <1>4. /\ Ends(v2, Throttles(io, n), "rate", <<n, d>>, u, LastOf(list, d, u))
        /\ (\A i, j \in DOMAIN io.rates[n] : io.rates[n][i].dev = io.rates[n][j].dev => i = j)
             => Mild(v2, Throttles(io, n), "rate", <<n, d>>, {u, LastOf(list, d, u)})
    BY <1>1, ThrottlesReach
  <1> HIDE DEF list, u
  <1>5. /\ Ends(v2, Throttles(io, n), "rate", <<n, d>>, u, Want(r, "rate", <<n, d>>))
        /\ Tame(r, "rate") => Mild(v2, Throttles(io, n), "rate", <<n, d>>, {u, Want(r, "rate", <<n, d>>)})
    BY <1>2, <1>3, <1>4 DEF Tame
  <1>6. QED BY <1>5 DEF Reaches, io, u

LEMMA BlkioPiece ==
  ASSUME NEW r \in Request
  PROVE  Piece(SetBlkio(r), BlkioFiles, r)
  <1>0. /\ BlkioFiles = {"weight", "leaf", "rate"} /\ Requested \intersect BlkioFiles = BlkioFiles
        /\ Keys("weight") = Weighted /\ Keys("leaf") = Weighted /\ Keys("rate") = Rates \X Disks
    BY DEF BlkioFiles, Requested, Files, Keyed, Keys
  <1>1. CASE r.io = none
    <2>1. /\ Wanted(r, file).weight = file.weight /\ Wanted(r, file).leaf = file.leaf
          /\ Wanted(r, file).rate = file.rate
      BY <1>1 DEF Wanted
    <2>2. \A f \in BlkioFiles : \A g, k : Cell(g, f, k) = g[f][k] BY DEF Cell, BlkioFiles, Keyed
    <2>3. \A f \in Requested \intersect BlkioFiles : \A k \in Keys(f) : Want(r, f, k) = Cell(file, f, k)
      BY <1>0, <2>1, <2>2 DEF Want
    <2>4. Piece(<< >>, BlkioFiles, r) BY <2>3, PieceEmpty
    <2>5. QED BY <1>1, <2>4 DEF SetBlkio, Given
  <1>2. CASE r.io # none
    <2> DEFINE io == r.io
               A == Weighing(0, io)
               B == DeviceWeights(io)
               AB == A \o B
               T1 == Throttles(io, "rbps")
               T2 == Throttles(io, "wbps")
               T3 == Throttles(io, "riops")
               T4 == Throttles(io, "wiops")
    <2>1. SetBlkio(r) = AB \o T1 \o T2 \o T3 \o T4 BY <1>2, BlkioDef DEF SetBlkio, Given
    <2>2. io \in BlkioAsked /\ io.weight \in Opt(Nat) /\ io.leaf \in Opt(Nat)
      BY <1>2 DEF Request, Opt, BlkioAsked
    <2>3. \A f \in {"weight", "leaf"} : \A k \in Weighted : Reaches(AB, r, f, k) BY <1>2, WeightsPiece
    <2>4. \A n \in Rates, d \in Disks : Reaches(Throttles(io, n), r, "rate", <<n, d>>)
      BY <1>2, ThrottlePiece
    <2> HIDE DEF io
    <2>5. A \in Seq(Writings) /\ \A f, k : f \notin {"weight", "leaf"} => Unset(A, f, k)
      BY <2>2, WeighingReaches
    <2>6. B \in Seq(Writings) /\ \A f, k : f \notin {"weight", "leaf"} => Unset(B, f, k)
      BY <2>2, DeviceWeightsReach
    <2>7. AB \in Seq(Writings) /\ \A f, k : f \notin {"weight", "leaf"} => Unset(AB, f, k)
      <3> HIDE DEF A, B
      <3>1. QED BY <2>5, <2>6, Beside
    <2>8. ASSUME NEW n \in Rates
          PROVE  /\ Throttles(io, n) \in Seq(Writings)
                 /\ \A f, k : f # "rate" => Unset(Throttles(io, n), f, k)
                 /\ \A m, d : m # n => Unset(Throttles(io, n), "rate", <<m, d>>)
      BY <2>2, ThrottlesReach
    <2>9. "rbps" \in Rates /\ "wbps" \in Rates /\ "riops" \in Rates /\ "wiops" \in Rates BY DEF Rates
    <2>10. T1 \in Seq(Writings) /\ T2 \in Seq(Writings) /\ T3 \in Seq(Writings) /\ T4 \in Seq(Writings)
      BY <2>8, <2>9
    <2>11. \A f, k : f # "rate" => Unset(T1, f, k) /\ Unset(T2, f, k) /\ Unset(T3, f, k) /\ Unset(T4, f, k)
      BY <2>8, <2>9
    <2>12. \A n \in Rates, d \in Disks :
             /\ IF n = "rbps" THEN Reaches(T1, r, "rate", <<n, d>>) ELSE Unset(T1, "rate", <<n, d>>)
             /\ IF n = "wbps" THEN Reaches(T2, r, "rate", <<n, d>>) ELSE Unset(T2, "rate", <<n, d>>)
             /\ IF n = "riops" THEN Reaches(T3, r, "rate", <<n, d>>) ELSE Unset(T3, "rate", <<n, d>>)
             /\ IF n = "wiops" THEN Reaches(T4, r, "rate", <<n, d>>) ELSE Unset(T4, "rate", <<n, d>>)
      BY <2>4, <2>8, <2>9
    <2> HIDE DEF AB, T1, T2, T3, T4
    <2> DEFINE S1 == AB \o T1
               S2 == S1 \o T2
               S3 == S2 \o T3
               S4 == S3 \o T4
    <2>13. S1 \in Seq(Writings) BY <2>7, <2>10, Concat
    <2>14. S2 \in Seq(Writings) BY <2>10, <2>13, Concat
    <2>15. S3 \in Seq(Writings) BY <2>10, <2>14, Concat
    <2>16. S4 \in Seq(Writings) BY <2>10, <2>15, Concat
    <2>17. ASSUME NEW f, NEW k
           PROVE  /\ Reaches(AB, r, f, k) /\ Unset(T1, f, k) => Reaches(S1, r, f, k)
                  /\ Unset(AB, f, k) /\ Reaches(T1, r, f, k) => Reaches(S1, r, f, k)
                  /\ Unset(AB, f, k) /\ Unset(T1, f, k) => Unset(S1, f, k)
                  /\ Reaches(S1, r, f, k) /\ Unset(T2, f, k) => Reaches(S2, r, f, k)
                  /\ Unset(S1, f, k) /\ Reaches(T2, r, f, k) => Reaches(S2, r, f, k)
                  /\ Unset(S1, f, k) /\ Unset(T2, f, k) => Unset(S2, f, k)
                  /\ Reaches(S2, r, f, k) /\ Unset(T3, f, k) => Reaches(S3, r, f, k)
                  /\ Unset(S2, f, k) /\ Reaches(T3, r, f, k) => Reaches(S3, r, f, k)
                  /\ Unset(S2, f, k) /\ Unset(T3, f, k) => Unset(S3, f, k)
                  /\ Reaches(S3, r, f, k) /\ Unset(T4, f, k) => Reaches(S4, r, f, k)
                  /\ Unset(S3, f, k) /\ Reaches(T4, r, f, k) => Reaches(S4, r, f, k)
                  /\ Unset(S3, f, k) /\ Unset(T4, f, k) => Unset(S4, f, k)
      <3>1. /\ Reaches(AB, r, f, k) /\ Unset(T1, f, k) => Reaches(S1, r, f, k)
            /\ Unset(AB, f, k) /\ Reaches(T1, r, f, k) => Reaches(S1, r, f, k)
            /\ Unset(AB, f, k) /\ Unset(T1, f, k) => Unset(S1, f, k)
        BY <2>7, <2>10, Beside
      <3>2. /\ Reaches(S1, r, f, k) /\ Unset(T2, f, k) => Reaches(S2, r, f, k)
            /\ Unset(S1, f, k) /\ Reaches(T2, r, f, k) => Reaches(S2, r, f, k)
            /\ Unset(S1, f, k) /\ Unset(T2, f, k) => Unset(S2, f, k)
        <4> HIDE DEF S1
        <4>1. QED BY <2>10, <2>13, Beside
      <3>3. /\ Reaches(S2, r, f, k) /\ Unset(T3, f, k) => Reaches(S3, r, f, k)
            /\ Unset(S2, f, k) /\ Reaches(T3, r, f, k) => Reaches(S3, r, f, k)
            /\ Unset(S2, f, k) /\ Unset(T3, f, k) => Unset(S3, f, k)
        <4> HIDE DEF S2
        <4>1. QED BY <2>10, <2>14, Beside
      <3>4. /\ Reaches(S3, r, f, k) /\ Unset(T4, f, k) => Reaches(S4, r, f, k)
            /\ Unset(S3, f, k) /\ Reaches(T4, r, f, k) => Reaches(S4, r, f, k)
            /\ Unset(S3, f, k) /\ Unset(T4, f, k) => Unset(S4, f, k)
        <4> HIDE DEF S3
        <4>1. QED BY <2>10, <2>15, Beside
      <3> HIDE DEF S1, S2, S3, S4
      <3>5. QED BY <3>1, <3>2, <3>3, <3>4
    <2>18. SetBlkio(r) = S4 BY <2>1
    <2> HIDE DEF S1, S2, S3, S4
    <2>19. \A f \in {"weight", "leaf"} : \A k \in Weighted : Reaches(S4, r, f, k)
      BY <2>3, <2>11, <2>17
    <2>20. ASSUME NEW n \in Rates, NEW d \in Disks PROVE Reaches(S4, r, "rate", <<n, d>>)
      <3> DEFINE k == <<n, d>>
      <3>1. Unset(AB, "rate", k) BY <2>7
      <3>2. /\ IF n = "rbps" THEN Reaches(T1, r, "rate", k) ELSE Unset(T1, "rate", k)
            /\ IF n = "wbps" THEN Reaches(T2, r, "rate", k) ELSE Unset(T2, "rate", k)
            /\ IF n = "riops" THEN Reaches(T3, r, "rate", k) ELSE Unset(T3, "rate", k)
            /\ IF n = "wiops" THEN Reaches(T4, r, "rate", k) ELSE Unset(T4, "rate", k)
        BY <2>12
      <3>3. n \in {"rbps", "wbps", "riops", "wiops"} BY DEF Rates
      <3> HIDE DEF k
      <3>4. CASE n = "rbps" BY <2>17, <3>1, <3>2, <3>4 DEF k
      <3>5. CASE n = "wbps" BY <2>17, <3>1, <3>2, <3>5 DEF k
      <3>6. CASE n = "riops" BY <2>17, <3>1, <3>2, <3>6 DEF k
      <3>7. CASE n = "wiops" BY <2>17, <3>1, <3>2, <3>7 DEF k
      <3>8. QED BY <3>3, <3>4, <3>5, <3>6, <3>7
    <2>21. \A f, k : f \notin BlkioFiles => Unset(S4, f, k) BY <1>0, <2>7, <2>11, <2>17
    <2>22. S4 \in Seq(Steps) /\ \A i \in DOMAIN S4 : S4[i].do = "write"
      <3>1. Writings \subseteq Steps /\ \A x \in Writings : x.do = "write"
        <4>1. BlkioFiles \subseteq Names BY DEF BlkioFiles, Names
        <4>2. Puts(BlkioFiles) \subseteq Puts(Names) BY <4>1, PutsMonotonic
        <4>3. QED BY <4>2 DEF Writings, Steps
      <3>2. S4 \in Seq(Writings) BY <2>16
      <3>3. S4 \in Seq(Steps) BY <3>1, <3>2, Wider
      <3>4. QED BY <3>1, <3>2, <3>3, Elements
    <2>23. \A f \in Requested \ BlkioFiles : \A k \in Keys(f) : \A i \in DOMAIN S4 : ~Sets(S4[i], f, k)
      BY <2>21 DEF Unset
    <2>24. \A f \in Requested \intersect BlkioFiles : \A k \in Keys(f) : Reaches(S4, r, f, k)
      <3>1. ASSUME NEW k \in Rates \X Disks PROVE Reaches(S4, r, "rate", k)
        <4>1. PICK n \in Rates, d \in Disks : k = <<n, d>> OBVIOUS
        <4>2. QED BY <2>20, <4>1
      <3>2. QED BY <1>0, <2>19, <3>1
    <2>25. QED BY <2>18, <2>22, <2>23, <2>24, PieceOf
  <1>3. QED BY <1>1, <1>2
-----------------------------------------------------------------------------
(***************************************************************************)
(* Memory, and the whole of set.                                           *)
(***************************************************************************)

MemoryCells == {"mem", "swap", "soft", "oom", "swappiness"}

LEMMA WantedMemory ==
  ASSUME NEW r, NEW b
  PROVE  /\ Wanted(r, b).mem = IF OrZero(r.limit) = 0 THEN b.mem ELSE Size(OrZero(r.limit))
         /\ OrZero(r.swap) = 0 =>
              Wanted(r, b).swap = IF OrZero(r.limit) = Unlimited THEN NoLimit ELSE b.swap
         /\ OrZero(r.swap) # 0 /\ v2 /\ OrZero(r.swap) > 0 /\ OrZero(r.limit) > 0 =>
              Wanted(r, b).swap = OrZero(r.swap) - OrZero(r.limit)
         /\ OrZero(r.swap) # 0 /\ ~(v2 /\ OrZero(r.swap) > 0 /\ OrZero(r.limit) > 0) =>
              Wanted(r, b).swap = Size(OrZero(r.swap))
         /\ Wanted(r, b).soft = IF r.reservation = none THEN b.soft ELSE Size(r.reservation)
         /\ Wanted(r, b).oom = IF r.oom /\ ~v2 THEN 1 ELSE b.oom
         /\ Wanted(r, b).swappiness = IF v2 \/ r.swappiness = none THEN b.swappiness ELSE r.swappiness
  <1> DEFINE limit == OrZero(r.limit)
             swap == OrZero(r.swap)
  <1>1. Wanted(r, b).swap = CASE swap = 0 /\ limit = Unlimited -> NoLimit
                              [] swap = 0 /\ limit # Unlimited -> b.swap
                              [] swap # 0 /\ v2 /\ swap > 0 /\ limit > 0 -> swap - limit
                              [] OTHER -> Size(swap)
    BY DEF Wanted
  <1>2. /\ Wanted(r, b).mem = IF OrZero(r.limit) = 0 THEN b.mem ELSE Size(OrZero(r.limit))
        /\ Wanted(r, b).soft = IF r.reservation = none THEN b.soft ELSE Size(r.reservation)
        /\ Wanted(r, b).oom = IF r.oom /\ ~v2 THEN 1 ELSE b.oom
        /\ Wanted(r, b).swappiness = IF v2 \/ r.swappiness = none THEN b.swappiness ELSE r.swappiness
    BY DEF Wanted
  <1> HIDE DEF limit, swap
  <1>3. swap = 0 => Wanted(r, b).swap = IF limit = Unlimited THEN NoLimit ELSE b.swap BY <1>1
  <1>4. swap # 0 /\ v2 /\ swap > 0 /\ limit > 0 => Wanted(r, b).swap = swap - limit BY <1>1
  <1>5. swap # 0 /\ ~(v2 /\ swap > 0 /\ limit > 0) => Wanted(r, b).swap = Size(swap) BY <1>1
  <1>6. QED BY <1>2, <1>3, <1>4, <1>5 DEF limit, swap

\* A size that is written if it is given, or not zero.
LEMMA SizePiece ==
  ASSUME NEW r, NEW g \in {"mem", "swap", "soft"}, NEW n \in Values(g), Want(r, g, "all") = Size(n)
  PROVE  Piece(Write(g, n), {g}, r)
  <1>1. g \in Singles BY SinglesDef
  <1>2. ASSUME NEW x, x.do = "write", x.file = g, x.val = n PROVE Leaves(v2, x, g) = Size(n)
    BY <1>2 DEF Leaves, Keyed
  <1>3. QED BY <1>1, <1>2, PieceWrite

LEMMA NothingPiece ==
  ASSUME NEW r, NEW g \in Singles, Want(r, g, "all") = Cell(file, g, "all")
  PROVE  Piece(<< >>, {g}, r)
  <1>1. Requested \intersect {g} = {g} /\ Keys(g) = {"all"} BY SinglesDef
  <1>2. QED BY <1>1, PieceEmpty

LEMMA LimitPieces ==
  ASSUME NEW r \in Request
  PROVE  /\ Piece(IF OrZero(r.limit) # 0 THEN Write("mem", OrZero(r.limit)) ELSE << >>, {"mem"}, r)
         /\ Piece(Given(r.reservation, Write("soft", r.reservation)), {"soft"}, r)
  <1>0. "mem" \in Singles /\ "soft" \in Singles BY SinglesDef
  <1>1. OrZero(r.limit) \in Values("mem") /\ (r.reservation # none => r.reservation \in Values("soft"))
    <2>1. OrZero(r.limit) \in Values("mem") BY SizeTypes, ValuesDef DEF Sized
    <2>2. r.reservation # none => r.reservation \in Values("soft") BY SizeTypes, ValuesDef
    <2>3. QED BY <2>1, <2>2
  <1>2. Want(r, "mem", "all") =
          IF OrZero(r.limit) = 0 THEN Cell(file, "mem", "all") ELSE Size(OrZero(r.limit))
    BY <1>0, WantedMemory, WantSingle
  <1>3. Want(r, "soft", "all") =
          IF r.reservation = none THEN Cell(file, "soft", "all") ELSE Size(r.reservation)
    BY <1>0, WantedMemory, WantSingle
  <1>4. Piece(IF OrZero(r.limit) # 0 THEN Write("mem", OrZero(r.limit)) ELSE << >>, {"mem"}, r)
    <2>1. CASE OrZero(r.limit) = 0 BY <1>0, <1>2, <2>1, NothingPiece
    <2>2. CASE OrZero(r.limit) # 0 BY <1>1, <1>2, <2>2, SizePiece
    <2>3. QED BY <2>1, <2>2
  <1>5. r.reservation # none => Piece(Write("soft", r.reservation), {"soft"}, r) BY <1>1, <1>3, SizePiece
  <1>6. Piece(Given(r.reservation, Write("soft", r.reservation)), {"soft"}, r)
    BY <1>0, <1>3, <1>5, PieceGiven
  <1>7. QED BY <1>4, <1>6

\* The two limits of v1, in either order.
LEMMA LimitsV1Piece ==
  ASSUME NEW r \in Request, ~v2
  PROVE  Piece(LimitsV1(OrZero(r.limit), OrZero(r.swap), file.mem), {"mem", "swap"}, r)
  <1> DEFINE limit == OrZero(r.limit)
             swap == IF limit = Unlimited /\ OrZero(r.swap) = 0 THEN Unlimited ELSE OrZero(r.swap)
             SetLimit == IF limit # 0 THEN Write("mem", limit) ELSE << >>
             SetSwap == IF swap # 0 THEN Write("swap", swap) ELSE << >>
  <1>0. "swap" \in Singles BY SinglesDef
  <1>1. Piece(SetLimit, {"mem"}, r) BY LimitPieces
  <1>2. Piece(SetSwap, {"swap"}, r)
    <2>1. swap \in Values("swap")
      <3>1. Unlimited \in Int /\ Unlimited <= NoLimit BY TopAssumption DEF Unlimited, NoLimit
      <3>2. QED BY <3>1, SizeTypes, ValuesDef DEF Sized
    <2>2. Want(r, "swap", "all") = IF swap = 0 THEN Cell(file, "swap", "all") ELSE Size(swap)
      <3>1. /\ Want(r, "swap", "all") = Wanted(r, file).swap
            /\ Cell(file, "swap", "all") = file.swap
        BY <1>0, WantSingle
      <3>2. CASE OrZero(r.swap) = 0
        <4>1. Wanted(r, file).swap = IF limit = Unlimited THEN NoLimit ELSE file.swap BY <3>2, WantedMemory
        <4>2. Size(Unlimited) = NoLimit /\ Unlimited # 0 BY DEF Size, Unlimited
        <4>3. QED BY <3>1, <3>2, <4>1, <4>2
      <3>3. CASE OrZero(r.swap) # 0
        <4>1. Wanted(r, file).swap = Size(OrZero(r.swap)) BY <3>3, WantedMemory
        <4>2. QED BY <3>1, <3>3, <4>1
      <3>4. QED BY <3>2, <3>3
    <2> HIDE DEF swap
    <2>3. CASE swap = 0 BY <1>0, <2>2, <2>3, NothingPiece
    <2>4. CASE swap # 0 BY <2>1, <2>2, <2>4, SizePiece
    <2>5. QED BY <2>3, <2>4
  <1>3. LimitsV1(OrZero(r.limit), OrZero(r.swap), file.mem) \in {SetSwap \o SetLimit, SetLimit \o SetSwap}
    BY DEF LimitsV1
  <1> HIDE DEF SetLimit, SetSwap
  <1>4. /\ {"mem"} \intersect {"swap"} = {} /\ {"swap"} \intersect {"mem"} = {}
        /\ {"mem"} \union {"swap"} = {"mem", "swap"} /\ {"swap"} \union {"mem"} = {"mem", "swap"}
    OBVIOUS
  <1>5. Piece(SetLimit \o SetSwap, {"mem", "swap"}, r) BY <1>1, <1>2, <1>4, PieceJoin
  <1>6. Piece(SetSwap \o SetLimit, {"mem", "swap"}, r) BY <1>1, <1>2, <1>4, PieceJoin
  <1>7. QED BY <1>3, <1>5, <1>6

LEMMA MemoryV1Piece ==
  ASSUME NEW r \in Request, ~v2
  PROVE  Piece(MemoryV1(r), MemoryCells, r)
  <1> DEFINE A == LimitsV1(OrZero(r.limit), OrZero(r.swap), file.mem)
             B == Given(r.reservation, Write("soft", r.reservation))
             C == IF r.oom THEN Write("oom", 1) ELSE << >>
             D == Given(r.swappiness, IF r.swappiness <= 100
                                        THEN Write("swappiness", r.swappiness) ELSE Fail("invalid"))
  <1>0. "oom" \in Singles /\ "swappiness" \in Singles BY SinglesDef
  <1>1. Piece(A, {"mem", "swap"}, r) BY LimitsV1Piece
  <1>2. Piece(B, {"soft"}, r) BY LimitPieces
  <1>3. Piece(C, {"oom"}, r)
    <2>1. Want(r, "oom", "all") = IF r.oom THEN 1 ELSE Cell(file, "oom", "all")
      BY <1>0, WantedMemory, WantSingle
    <2>2. CASE r.oom
      <3>1. ASSUME NEW x, x.do = "write", x.file = "oom", x.val = 1 PROVE Leaves(v2, x, "oom") = 1
        BY <3>1 DEF Leaves, Keyed
      <3>2. 1 \in Values("oom") BY ValuesDef DEF Numbers
      <3>3. Piece(Write("oom", 1), {"oom"}, r) BY <1>0, <2>1, <2>2, <3>1, <3>2, PieceWrite
      <3>4. QED BY <2>2, <3>3
    <2>3. CASE ~r.oom BY <1>0, <2>1, <2>3, NothingPiece
    <2>4. QED BY <2>2, <2>3
  <1>4. Piece(D, {"swappiness"}, r)
    <2>1. Want(r, "swappiness", "all") =
            IF r.swappiness = none THEN Cell(file, "swappiness", "all") ELSE r.swappiness
      BY <1>0, WantedMemory, WantSingle
    <2>2. r.swappiness # none => r.swappiness \in Values("swappiness")
      <3>1. r.swappiness # none => r.swappiness \in Int BY DEF Request, Opt
      <3>2. QED BY <3>1, ValuesDef DEF Numbers
    <2>3. ASSUME NEW x, x.do = "write", x.file = "swappiness", x.val = r.swappiness
          PROVE  Leaves(v2, x, "swappiness") = r.swappiness
      BY <2>3 DEF Leaves, Keyed
    <2>4. r.swappiness # none => Piece(Write("swappiness", r.swappiness), {"swappiness"}, r)
      BY <1>0, <2>1, <2>2, <2>3, PieceWrite
    <2>5. Piece(Fail("invalid"), {"swappiness"}, r) BY PieceFail DEF Errors
    <2>6. r.swappiness # none =>
            Piece(IF r.swappiness <= 100 THEN Write("swappiness", r.swappiness) ELSE Fail("invalid"),
                  {"swappiness"}, r)
      BY <2>4, <2>5
    <2>7. QED BY <1>0, <2>1, <2>6, PieceGiven
  <1>5. MemoryV1(r) = A \o B \o C \o D BY DEF MemoryV1
  <1> HIDE DEF A, B, C, D
  <1>6. /\ {"mem", "swap"} \intersect {"soft"} = {} /\ {"mem", "swap", "soft"} \intersect {"oom"} = {}
        /\ {"mem", "swap", "soft", "oom"} \intersect {"swappiness"} = {}
    OBVIOUS
  <1>7. /\ {"mem", "swap"} \union {"soft"} = {"mem", "swap", "soft"}
        /\ {"mem", "swap", "soft"} \union {"oom"} = {"mem", "swap", "soft", "oom"}
        /\ {"mem", "swap", "soft", "oom"} \union {"swappiness"} = MemoryCells
    BY DEF MemoryCells
  <1>8. Piece(A \o B, {"mem", "swap", "soft"}, r) BY <1>1, <1>2, <1>6, <1>7, PieceJoin
  <1>9. Piece(A \o B \o C, {"mem", "swap", "soft", "oom"}, r) BY <1>3, <1>6, <1>7, <1>8, PieceJoin
  <1>10. Piece(A \o B \o C \o D, MemoryCells, r) BY <1>4, <1>6, <1>7, <1>9, PieceJoin
  <1>11. QED BY <1>5, <1>10
\* The swap limit of v2 is what is asked for when both are given, or swap alone.
LEMMA ConvertedSwap ==
  ASSUME NEW limit \in Int, NEW swap \in Int, limit <= NoLimit, swap <= NoLimit,
         MemorySwap(swap, limit) # none
  PROVE  /\ MemorySwap(swap, limit) \in Values("swap")
         /\ swap # 0 /\ (limit > 0 \/ swap > 0) =>
              Size(MemorySwap(swap, limit)) = IF swap > 0 /\ limit > 0 THEN swap - limit ELSE Size(swap)
  <1>1. Values("swap") = {n \in Int : n <= NoLimit} BY ValuesDef DEF Sized
  <1>2. NoLimit \in Int /\ NoLimit > 0 /\ Unlimited = -1 BY TopAssumption DEF NoLimit, Unlimited
  <1>3. MemorySwap(swap, limit) \in Int /\ MemorySwap(swap, limit) <= NoLimit
    BY <1>2 DEF MemorySwap
  <1>4. ASSUME swap # 0, limit > 0 \/ swap > 0
        PROVE  Size(MemorySwap(swap, limit)) = IF swap > 0 /\ limit > 0 THEN swap - limit ELSE Size(swap)
    <2>1. CASE swap = -1 BY <1>2, <1>4, <2>1 DEF MemorySwap
    <2>2. CASE swap # -1 /\ limit = -1 BY <1>2, <1>4, <2>2 DEF MemorySwap
    <2>3. CASE swap # -1 /\ limit # -1
      <3>1. MemorySwap(swap, limit) = swap - limit /\ limit > 0 /\ swap >= limit
        <4>1. MemorySwap(swap, limit) = IF limit <= 0 \/ swap < limit THEN none ELSE swap - limit
          BY <1>2, <1>4, <2>3 DEF MemorySwap
        <4>2. ~(limit <= 0 \/ swap < limit) BY <4>1
        <4>3. QED BY <4>1, <4>2
      <3>2. swap - limit # Unlimited /\ swap > 0 BY <1>2, <3>1
      <3>3. QED BY <3>1, <3>2 DEF Size
    <2>4. QED BY <2>1, <2>2, <2>3
  <1>5. QED BY <1>1, <1>3, <1>4

LEMMA SwapV2Piece ==
  ASSUME NEW r \in Request, v2, MemorySwap(OrZero(r.swap), OrZero(r.limit)) # none,
         OrZero(r.limit) > 0 \/ OrZero(r.swap) > 0
  PROVE  Piece(Write("swap", MemorySwap(OrZero(r.swap), OrZero(r.limit))), {"swap"}, r)
  <1> DEFINE limit == OrZero(r.limit)
             swap == OrZero(r.swap)
             c == MemorySwap(swap, limit)
             x == [do |-> "write", file |-> "swap", val |-> c]
  <1>0. "swap" \in Singles /\ "swap" \in Names /\ "swap" \notin Tables /\ "swap" \notin {"allow", "deny", "cpu.max"}
    BY SinglesDef DEF Names
  <1>1. limit \in Int /\ swap \in Int /\ limit <= NoLimit /\ swap <= NoLimit BY SizeTypes
  <1>2. swap = 0 => ~Handled(r) BY DEF Handled
  <1>3. Suits(r) => Handled(r)
    <2>1. {r.limit, r.swap, r.reservation} = {none} => limit = 0 /\ swap = 0 BY DEF OrZero
    <2>2. limit > 0 \/ swap > 0 OBVIOUS
    <2>3. QED BY <1>1, <2>1, <2>2 DEF Suits
  <1>4. swap # 0 => Want(r, "swap", "all") = IF swap > 0 /\ limit > 0 THEN swap - limit ELSE Size(swap)
    <2>1. Want(r, "swap", "all") = Wanted(r, file).swap BY <1>0, WantSingle
    <2>2. /\ swap # 0 /\ swap > 0 /\ limit > 0 => Wanted(r, file).swap = swap - limit
          /\ swap # 0 /\ ~(swap > 0 /\ limit > 0) => Wanted(r, file).swap = Size(swap)
      BY WantedMemory
    <2> HIDE DEF limit, swap
    <2>3. QED BY <2>1, <2>2
  <1>5. limit > 0 \/ swap > 0 OBVIOUS
  <1>6. c # none OBVIOUS
  <1> HIDE DEF limit, swap
  <1>7. /\ c \in Values("swap")
        /\ swap # 0 /\ (limit > 0 \/ swap > 0) =>
             Size(c) = IF swap > 0 /\ limit > 0 THEN swap - limit ELSE Size(swap)
    BY <1>1, <1>6, ConvertedSwap
  <1>8. swap # 0 => Size(c) = Want(r, "swap", "all") BY <1>4, <1>5, <1>7
  <1> HIDE DEF c
  <1>9. x \in Steps /\ x.do = "write" /\ x.file = "swap" /\ x.val = c
    <2>1. x \in Puts(Names) BY <1>0, <1>7 DEF Puts
    <2>2. QED BY <2>1 DEF Steps
  <1>10. Write("swap", c) = <<x>> BY DEF Write
  <1> HIDE DEF x
  <1>11. /\ \A f \in Requested \ {"swap"} : \A k : ~Sets(x, f, k)
         /\ \A k : Sets(x, "swap", k)
    <2>1. \A f \in Requested \ {"swap"} : \A k : ~Sets(x, f, k)
      BY <1>9 DEF Sets, Tables
    <2>2. QED BY <1>0, <1>9, <2>1 DEF Sets, Tables
  <1>12. Leaves(v2, x, "swap") = Size(c) BY <1>9 DEF Leaves, Keyed
  <1>13. /\ \A u : Ends(v2, <<x>>, "swap", "all", u, Size(c))
         /\ \A V : Size(c) \in V => Mild(v2, <<x>>, "swap", "all", V)
    <2>1. \A u : Ends(v2, <<x>>, "swap", "all", u,
                      IF Sets(x, "swap", "all") THEN Leaves(v2, x, "swap") ELSE u)
      BY EndsOne
    <2>2. \A V : Mild(v2, <<x>>, "swap", "all", V)
                   <=> (Sets(x, "swap", "all") => Leaves(v2, x, "swap") \in V)
      BY EndsOne
    <2>3. QED BY <1>11, <1>12, <2>1, <2>2
  <1>14. Reaches(<<x>>, r, "swap", "all") BY <1>2, <1>3, <1>8, <1>13 DEF Reaches, Tame
  <1>15. <<x>> \in Seq(Steps) /\ DOMAIN <<x>> = {1} /\ <<x>>[1] = x BY <1>9
  <1>16. \A f \in Requested \intersect {"swap"} : \A k \in Keys(f) : Reaches(<<x>>, r, f, k)
    <2>1. Keys("swap") = {"all"} BY <1>0, SinglesDef
    <2>2. QED BY <1>14, <2>1
  <1>17. Piece(<<x>>, {"swap"}, r) BY <1>9, <1>11, <1>15, <1>16, PieceOf
  <1>18. QED BY <1>10, <1>17 DEF c, swap, limit

LEMMA MemoryV2Piece ==
  ASSUME NEW r \in Request, v2
  PROVE  Piece(MemoryV2(r), MemoryCells, r)
  <1> DEFINE limit == OrZero(r.limit)
             swap == OrZero(r.swap)
             converted == MemorySwap(swap, limit)
             A == Write("swap", converted)
             B == IF limit # 0 THEN Write("mem", limit) ELSE << >>
             C == Given(r.reservation, Write("soft", r.reservation))
  <1>0. /\ {"mem", "swap", "soft", "oom", "swappiness"} \subseteq Singles
        /\ \A g \in MemoryCells : g \in Requested /\ Keys(g) = {"all"}
    BY SinglesDef DEF MemoryCells
  <1>1. limit \in Int /\ swap \in Int BY SizeTypes
  <1>2. /\ Want(r, "oom", "all") = Cell(file, "oom", "all")
        /\ Want(r, "swappiness", "all") = Cell(file, "swappiness", "all")
    BY <1>0, WantedMemory, WantSingle
  <1>3. CASE limit <= 0 /\ swap <= 0
    <2>1. MemoryV2(r) = << >> BY <1>3 DEF MemoryV2
    <2>2. ~Handled(r) BY <1>1, <1>3 DEF Handled
    <2>3. ASSUME Suits(r), NEW g \in MemoryCells PROVE Want(r, g, "all") = Cell(file, g, "all")
      <3>1. r.limit = none /\ r.swap = none /\ r.reservation = none BY <2>2, <2>3 DEF Suits
      <3>2. limit = 0 /\ swap = 0 /\ 0 # Unlimited BY <3>1 DEF OrZero, Unlimited
      <3>3. /\ Wanted(r, file).mem = file.mem /\ Wanted(r, file).swap = file.swap
            /\ Wanted(r, file).soft = file.soft
        BY <3>1, <3>2, WantedMemory
      <3>4. /\ Want(r, "mem", "all") = Cell(file, "mem", "all")
            /\ Want(r, "swap", "all") = Cell(file, "swap", "all")
            /\ Want(r, "soft", "all") = Cell(file, "soft", "all")
        BY <1>0, <3>3, WantSingle
      <3>5. QED BY <1>2, <3>4 DEF MemoryCells
    <2>4. << >> \in Seq(Steps) /\ DOMAIN << >> = {} OBVIOUS
    <2>5. \A f, k : Unset(<< >>, f, k) BY <2>4 DEF Unset
    <2>6. ASSUME NEW f \in MemoryCells PROVE Reaches(<< >>, r, f, "all")
      <3>1. Suits(r) => Ends(v2, << >>, f, "all", Cell(file, f, "all"), Want(r, f, "all"))
        BY <2>3, <2>5 DEF Ends
      <3>2. \A V : Mild(v2, << >>, f, "all", V) BY <2>5, EndsSame
      <3>3. QED BY <3>1, <3>2 DEF Reaches
    <2>7. \A f \in Requested \intersect MemoryCells : \A k \in Keys(f) : Reaches(<< >>, r, f, k)
      BY <1>0, <2>6
    <2>8. QED BY <2>1, <2>4, <2>7, PieceOf
  <1>4. CASE ~(limit <= 0 /\ swap <= 0) /\ \/ swap > 0 /\ swap <= usage
                                           \/ limit > 0 /\ limit <= usage
                                           \/ converted = none
    <2>1. MemoryV2(r) = Fail("invalid") BY <1>4 DEF MemoryV2
    <2>2. QED BY <2>1, PieceFail DEF Errors
  <1>5. CASE ~(limit <= 0 /\ swap <= 0) /\ ~(\/ swap > 0 /\ swap <= usage
                                             \/ limit > 0 /\ limit <= usage
                                             \/ converted = none)
    <2>1. MemoryV2(r) = A \o B \o C BY <1>5 DEF MemoryV2
    <2>2. Piece(A, {"swap"}, r) BY <1>1, <1>5, SwapV2Piece
    <2>3. Piece(B, {"mem"}, r) /\ Piece(C, {"soft"}, r) BY LimitPieces
    <2> HIDE DEF A, B, C
    <2>4. /\ {"swap"} \intersect {"mem"} = {} /\ {"swap", "mem"} \intersect {"soft"} = {}
          /\ {"swap"} \union {"mem"} = {"swap", "mem"}
          /\ {"swap", "mem"} \union {"soft"} = {"swap", "mem", "soft"}
      OBVIOUS
    <2>5. Piece(A \o B, {"swap", "mem"}, r) BY <2>2, <2>3, <2>4, PieceJoin
    <2>6. Piece(A \o B \o C, {"swap", "mem", "soft"}, r) BY <2>3, <2>4, <2>5, PieceJoin
    <2>7. ASSUME NEW f \in MemoryCells PROVE Reaches(A \o B \o C, r, f, "all")
      <3>1. CASE f \in {"swap", "mem", "soft"} BY <1>0, <2>6, <3>1 DEF Piece
      <3>2. CASE f \in {"oom", "swappiness"}
        <4>1. Unset(A \o B \o C, f, "all") BY <1>0, <2>6, <2>7, <3>2 DEF Piece
        <4>2. Want(r, f, "all") = Cell(file, f, "all") BY <1>2, <3>2
        <4>3. QED BY <4>1, <4>2, EndsSame DEF Reaches
      <3>3. QED BY <2>7, <3>1, <3>2 DEF MemoryCells
    <2>8. SetSteps(A \o B \o C, MemoryCells) BY <2>6 DEF Piece, SetSteps
    <2>9. \A f \in Requested : \A k \in Keys(f) : f \notin MemoryCells => Unset(A \o B \o C, f, k)
      BY <2>6 DEF Piece, MemoryCells
    <2>10. Piece(A \o B \o C, MemoryCells, r) BY <1>0, <2>7, <2>8, <2>9 DEF Piece
    <2>11. QED BY <2>1, <2>10
  <1>6. QED BY <1>3, <1>4, <1>5
LEMMA ReadMemoryPiece ==
  ASSUME NEW r
  PROVE  Piece(ReadMemory, {"memory"}, r)
  <1> DEFINE x == [do |-> "memory"]
  <1>1. x \in Steps /\ x.do = "memory" BY DEF Steps, MemoryReads
  <1>2. ReadMemory = <<x>> BY DEF ReadMemory
  <1> HIDE DEF x
  <1>3. <<x>> \in Seq(Steps) /\ DOMAIN <<x>> = {1} /\ <<x>>[1] = x BY <1>1
  <1>4. SetSteps(<<x>>, {"memory"}) BY <1>1, <1>3 DEF SetSteps
  <1>5. \A f, k : Unset(<<x>>, f, k) BY <1>1, <1>3 DEF Unset, Sets
  <1>6. "memory" \notin Requested BY DEF Requested, Files, Keyed
  <1>7. QED BY <1>2, <1>4, <1>5, <1>6 DEF Piece

\* What set does not touch.
LEMMA UntouchedPiece ==
  ASSUME NEW r
  PROVE  Piece(<< >>, {"kmem", "tcp", "attr", "high", "min"}, r)
  <1> DEFINE G == {"kmem", "tcp", "attr", "high", "min"}
  <1>1. \A g \in G : g \in Singles /\ Keys(g) = {"all"} BY SinglesDef
  <1>2. \A g \in G : Wanted(r, file)[g] = file[g] BY WantedDef
  <1>3. \A g \in G : Want(r, g, "all") = Cell(file, g, "all") BY <1>1, <1>2, WantSingle
  <1>4. \A f \in Requested \intersect G : \A k \in Keys(f) : Want(r, f, k) = Cell(file, f, k)
    BY <1>1, <1>3
  <1> HIDE DEF G
  <1>5. QED BY <1>4, PieceEmpty DEF G

\* The steps of set but for what follows from the reading of memory.
LEMMA SetPiece ==
  ASSUME NEW r \in Request, v2 \in BOOLEAN
  PROVE  Piece(Set(r), (Requested \ MemoryCells) \union {"memory"}, r)
  <1> DEFINE A == SetCpuset(r)
             B == SetCpu(r)
             C == ReadMemory
             D == SetPids(r)
             E == SetBlkio(r)
             G == SetHuge(r)
             H == SetNetwork(r)
             I == SetDevices(r)
             FA == {"cpus", "mems"}
             FB == FA \union {"shares", "quota", "period", "rt_runtime", "rt_period"}
             FC == FB \union {"memory"}
             FD == FC \union {"pids"}
             FE == FD \union BlkioFiles
             FG == FE \union {"huge"}
             FH == FG \union {"class", "prio"}
             FI == FH \union {"devices"}
             FJ == FI \union {"kmem", "tcp", "attr", "high", "min"}
  <1>1. /\ Piece(A, FA, r)
        /\ Piece(B, {"shares", "quota", "period", "rt_runtime", "rt_period"}, r)
        /\ Piece(C, {"memory"}, r) /\ Piece(D, {"pids"}, r) /\ Piece(E, BlkioFiles, r)
        /\ Piece(G, {"huge"}, r) /\ Piece(H, {"class", "prio"}, r) /\ Piece(I, {"devices"}, r)
    BY CpusetPiece, CpuPiece, ReadMemoryPiece, PidsPiece, BlkioPiece, HugePiece, NetworkPiece, DevicesPiece
  <1>2. Set(r) = A \o B \o C \o D \o E \o G \o H \o I BY DEF Set
  <1>3. BlkioFiles = {"weight", "leaf", "rate"} BY DEF BlkioFiles
  <1>4. /\ FA \intersect {"shares", "quota", "period", "rt_runtime", "rt_period"} = {}
        /\ FB \intersect {"memory"} = {} /\ FC \intersect {"pids"} = {}
    OBVIOUS
  <1>5. FD \intersect BlkioFiles = {} BY <1>3
  <1>6. FE \intersect {"huge"} = {} /\ FG \intersect {"class", "prio"} = {} BY <1>3
  <1>7. FH \intersect {"devices"} = {} BY <1>3
  <1>8. FI \intersect {"kmem", "tcp", "attr", "high", "min"} = {} BY <1>3
  <1>9. FJ = (Requested \ MemoryCells) \union {"memory"}
    <2>1. Requested = MemoryCells \union (FJ \ {"memory"}) BY <1>3, SinglesDef DEF MemoryCells
    <2>2. MemoryCells \intersect FJ = {} BY <1>3 DEF MemoryCells
    <2>3. "memory" \in FJ OBVIOUS
    <2> HIDE DEF FJ
    <2>4. QED BY <2>1, <2>2, <2>3
  <1> HIDE DEF A, B, C, D, E, G, H, I
  <1>10. Piece(A \o B, FB, r)
    <2>1. QED BY <1>1, <1>4, PieceJoin
  <1> HIDE DEF FA
  <1>11. Piece(A \o B \o C, FC, r)
    <2> HIDE DEF FB
    <2>1. QED BY <1>1, <1>4, <1>10, PieceJoin
  <1>12. Piece(A \o B \o C \o D, FD, r)
    <2> HIDE DEF FC
    <2>1. QED BY <1>1, <1>4, <1>11, PieceJoin
  <1>13. Piece(A \o B \o C \o D \o E, FE, r)
    <2> HIDE DEF FD
    <2>1. QED BY <1>1, <1>5, <1>12, PieceJoin
  <1>14. Piece(A \o B \o C \o D \o E \o G, FG, r)
    <2> HIDE DEF FE
    <2>1. QED BY <1>1, <1>6, <1>13, PieceJoin
  <1>15. Piece(A \o B \o C \o D \o E \o G \o H, FH, r)
    <2> HIDE DEF FG
    <2>1. QED BY <1>1, <1>6, <1>14, PieceJoin
  <1>16. Piece(A \o B \o C \o D \o E \o G \o H \o I, FI, r)
    <2> HIDE DEF FH
    <2>1. QED BY <1>1, <1>7, <1>15, PieceJoin
  <1> DEFINE S == A \o B \o C \o D \o E \o G \o H \o I
  <1>17. Piece(S \o << >>, FJ, r)
    <2> HIDE DEF FI, S
    <2>1. Piece(S, FI, r) BY <1>16 DEF S
    <2>2. QED BY <1>8, <2>1, UntouchedPiece, PieceJoin
  <1>18. S \in Seq(Steps) BY <1>16 DEF Piece, SetSteps
  <1> HIDE DEF S, FI, FJ
  <1>19. S \o << >> = S BY <1>18
  <1>20. QED BY <1>2, <1>9, <1>17, <1>19 DEF S

-----------------------------------------------------------------------------
(***************************************************************************)
(* The invariant of set: from every state the steps that are left take the *)
(* files to what is asked for, and none of them goes elsewhere on the way. *)
(***************************************************************************)

\* The controller of memory has still to be read.
Left(s) == \E i \in DOMAIN s : s[i].do = "memory"

\* s: the steps that are left; e: the result so far; g: what the files hold; b: what
\* they held before.
Heading(s, e, g, r, b, f, k) ==
  e = "ok" /\ Suits(r) => Ends(v2, s, f, k, Cell(g, f, k), Cell(Wanted(r, b), f, k))
Keeping(s, g, r, b, f, k) ==
  Tame(r, f) => /\ Cell(g, f, k) \in {Cell(b, f, k), Cell(Wanted(r, b), f, k)}
                /\ Mild(v2, s, f, k, {Cell(b, f, k), Cell(Wanted(r, b), f, k)})
Resting(s, g, b, f, k) == Unset(s, f, k) /\ Cell(g, f, k) = Cell(b, f, k)

Progress(s, e, g, r, b) ==
  /\ SetSteps(s, {"memory"})
  /\ \A f \in Requested : \A k \in Keys(f) :
       IF f \in MemoryCells /\ Left(s) THEN Resting(s, g, b, f, k)
       ELSE Heading(s, e, g, r, b, f, k) /\ Keeping(s, g, r, b, f, k)

SetInv ==
  call.op = "set" =>
    \E r, b : /\ r \in Request /\ FilesOK(b) /\ call.r = r /\ call.before = b
              /\ Progress(call.todo, call.res, file, r, b)

\* The steps that are left after the first one, and those that come in its place.
LEMMA SetStepsRest ==
  ASSUME NEW s, SetSteps(s, {"memory"}), s # << >>
  PROVE  /\ SetSteps(Tail(s), {"memory"})
         /\ Head(s).do # "memory" => (Left(Tail(s)) <=> Left(s))
         /\ Head(s).do = "memory" => Left(s) /\ ~Left(Tail(s)) /\ SetSteps(Tail(s), {})
  <1>1. s \in Seq(Steps) BY DEF SetSteps
  <1>2. /\ Head(s) = s[1] /\ Tail(s) \in Seq(Steps) /\ 1 \in DOMAIN s
        /\ \A i \in DOMAIN Tail(s) : i + 1 \in DOMAIN s /\ Tail(s)[i] = s[i + 1] /\ i \in Nat \ {0}
        /\ \A i \in DOMAIN s : i = 1 \/ (i - 1 \in DOMAIN Tail(s) /\ s[i] = Tail(s)[i - 1] /\ i \in Nat)
    BY <1>1, FirstAndRest
  <1> DEFINE t == Tail(s)
  <1> HIDE DEF t
  <1>3. \A i \in DOMAIN t : t[i].do \in {"write", "cpu.max", "fail", "memory"}
    BY <1>2 DEF SetSteps, t
  <1>4. ASSUME NEW i \in DOMAIN t, NEW j \in DOMAIN t, t[i].do = "memory", t[j].do = "memory"
        PROVE  i = j
    <2>1. i + 1 \in DOMAIN s /\ s[i + 1].do = "memory" /\ j + 1 \in DOMAIN s /\ s[j + 1].do = "memory"
      BY <1>2, <1>4 DEF t
    <2>2. i + 1 = j + 1 BY <2>1 DEF SetSteps
    <2>3. i \in Nat /\ j \in Nat BY <1>2 DEF t
    <2>4. QED BY <2>2, <2>3
  <1>5. SetSteps(t, {"memory"}) BY <1>2, <1>3, <1>4 DEF SetSteps, t
  <1>6. Left(t) => Left(s) BY <1>2 DEF Left, t
  <1>7. ASSUME Head(s).do # "memory", Left(s) PROVE Left(t)
    <2>1. PICK i \in DOMAIN s : s[i].do = "memory" BY <1>7 DEF Left
    <2>2. i # 1 BY <1>2, <1>7, <2>1
    <2>3. i - 1 \in DOMAIN t /\ s[i] = t[i - 1] BY <1>2, <2>2 DEF t
    <2>4. QED BY <2>1, <2>3 DEF Left
  <1>8. ASSUME Head(s).do = "memory" PROVE Left(s) /\ ~Left(t) /\ SetSteps(t, {})
    <2>1. s[1].do = "memory" BY <1>2, <1>8
    <2>2. ASSUME NEW i \in DOMAIN t, t[i].do = "memory" PROVE FALSE
      <3>1. i + 1 \in DOMAIN s /\ s[i + 1].do = "memory" /\ i \in Nat \ {0} BY <1>2, <2>2 DEF t
      <3>2. i + 1 = 1 BY <1>2, <2>1, <3>1 DEF SetSteps
      <3>3. QED BY <3>1, <3>2
    <2>3. ~Left(t) BY <2>2 DEF Left
    <2>4. SetSteps(t, {}) BY <1>2, <1>3, <1>4, <2>2 DEF SetSteps, t
    <2>5. QED BY <1>2, <2>1, <2>3, <2>4 DEF Left
  <1>9. QED BY <1>5, <1>6, <1>7, <1>8 DEF t

\* What the files hold matters cell by cell.
LEMMA ProgressSame ==
  ASSUME NEW s, NEW e, NEW g, NEW h, NEW r, NEW b, Progress(s, e, g, r, b),
         \A f \in Requested : \A k \in Keys(f) : Cell(h, f, k) = Cell(g, f, k)
  PROVE  Progress(s, e, h, r, b)
  <1>1. ASSUME NEW f \in Requested, NEW k \in Keys(f)
        PROVE  IF f \in MemoryCells /\ Left(s) THEN Resting(s, h, b, f, k)
               ELSE Heading(s, e, h, r, b, f, k) /\ Keeping(s, h, r, b, f, k)
    <2>1. Cell(h, f, k) = Cell(g, f, k) OBVIOUS
    <2>2. CASE f \in MemoryCells /\ Left(s)
      <3>1. Resting(s, g, b, f, k) BY <2>2 DEF Progress
      <3>2. QED BY <2>1, <2>2, <3>1 DEF Resting
    <2>3. CASE ~(f \in MemoryCells /\ Left(s))
      <3>1. Heading(s, e, g, r, b, f, k) /\ Keeping(s, g, r, b, f, k) BY <2>3 DEF Progress
      <3>2. QED BY <2>1, <2>3, <3>1 DEF Heading, Keeping
    <2>4. QED BY <2>2, <2>3
  <1>2. QED BY <1>1 DEF Progress

\* The call returns an error.
LEMMA ProgressStops ==
  ASSUME NEW s, NEW e, NEW g, NEW r, NEW b, Progress(s, e, g, r, b), NEW d, d # "ok"
  PROVE  Progress(<< >>, d, g, r, b)
  <1>1. << >> \in Seq(Steps) /\ DOMAIN << >> = {} OBVIOUS
  <1>2. SetSteps(<< >>, {"memory"}) /\ ~Left(<< >>) BY <1>1 DEF SetSteps, Left
  <1>3. ASSUME NEW f \in Requested, NEW k \in Keys(f)
        PROVE  Heading(<< >>, d, g, r, b, f, k) /\ Keeping(<< >>, g, r, b, f, k)
    <2>1. \A V : Mild(v2, << >>, f, k, V) BY <1>1 DEF Mild
    <2>2. Tame(r, f) => Cell(g, f, k) \in {Cell(b, f, k), Cell(Wanted(r, b), f, k)}
      BY DEF Progress, Resting, Keeping
    <2>3. QED BY <2>1, <2>2 DEF Heading, Keeping
  <1>4. QED BY <1>2, <1>3 DEF Progress

\* A write that succeeds.
LEMMA ProgressTail ==
  ASSUME NEW s, NEW e, NEW g, NEW h, NEW r, NEW b, Progress(s, e, g, r, b), s # << >>,
         Head(s).do = "write",
         \A f \in Requested : \A k \in Keys(f) :
           Cell(h, f, k) = IF Sets(Head(s), f, k) THEN Leaves(v2, Head(s), f) ELSE Cell(g, f, k)
  PROVE  Progress(Tail(s), e, h, r, b)
  <1>1. s \in Seq(Steps) /\ SetSteps(s, {"memory"}) BY DEF Progress, SetSteps
  <1>2. SetSteps(Tail(s), {"memory"}) /\ (Left(Tail(s)) <=> Left(s)) BY <1>1, SetStepsRest
  <1>3. ASSUME NEW f \in Requested, NEW k \in Keys(f)
        PROVE  IF f \in MemoryCells /\ Left(s) THEN Resting(Tail(s), h, b, f, k)
               ELSE Heading(Tail(s), e, h, r, b, f, k) /\ Keeping(Tail(s), h, r, b, f, k)
    <2> DEFINE v == Cell(Wanted(r, b), f, k)
               V == {Cell(b, f, k), v}
    <2>1. Cell(h, f, k) = IF Sets(Head(s), f, k) THEN Leaves(v2, Head(s), f) ELSE Cell(g, f, k)
      OBVIOUS
    <2>2. CASE f \in MemoryCells /\ Left(s)
      <3>1. Resting(s, g, b, f, k) BY <2>2 DEF Progress
      <3>2. ~Sets(Head(s), f, k) /\ Unset(Tail(s), f, k) BY <1>1, <3>1, UnsetTail DEF Resting
      <3>3. QED BY <2>1, <2>2, <3>1, <3>2 DEF Resting
    <2>3. CASE ~(f \in MemoryCells /\ Left(s))
      <3>1. Heading(s, e, g, r, b, f, k) /\ Keeping(s, g, r, b, f, k) BY <2>3 DEF Progress
      <3>2. ASSUME e = "ok", Suits(r) PROVE Ends(v2, Tail(s), f, k, Cell(h, f, k), v)
        <4>1. Ends(v2, s, f, k, Cell(g, f, k), v) BY <3>1, <3>2 DEF Heading
        <4>2. QED BY <1>1, <2>1, <4>1, EndsTail
      <3>3. ASSUME Tame(r, f) PROVE Cell(h, f, k) \in V /\ Mild(v2, Tail(s), f, k, V)
        <4>1. Cell(g, f, k) \in V /\ Mild(v2, s, f, k, V) BY <3>1, <3>3 DEF Keeping
        <4>2. /\ Sets(Head(s), f, k) => Leaves(v2, Head(s), f) \in V
              /\ Mild(v2, Tail(s), f, k, V)
          BY <1>1, <4>1, MildTail
        <4> HIDE DEF V
        <4>3. QED BY <2>1, <4>1, <4>2
      <3>4. QED BY <2>3, <3>2, <3>3 DEF Heading, Keeping
    <2>4. QED BY <2>2, <2>3
  <1>4. QED BY <1>2, <1>3 DEF Progress

\* cpu.max is read: a write of what it leaves there takes the place of the read.
LEMMA ProgressReads ==
  ASSUME NEW s, NEW e, NEW g, NEW r, NEW b, Progress(s, e, g, r, b), s # << >>,
         Head(s).do = "cpu.max", NEW x \in Steps, x.do = "write", x.file = "cpu.max",
         \A f \in {"quota", "period"} :
           x.val[f] = IF Head(s)[f] # none THEN Leaves(v2, Head(s), f) ELSE g[f]
  PROVE  Progress(<<x>> \o Tail(s), e, g, r, b)
  <1>1. s \in Seq(Steps) /\ SetSteps(s, {"memory"}) BY DEF Progress, SetSteps
  <1>2. SetSteps(Tail(s), {"memory"}) /\ (Left(Tail(s)) <=> Left(s)) BY <1>1, SetStepsRest
  <1>3. <<x>> \in Seq(Steps) /\ DOMAIN <<x>> = {1} /\ <<x>>[1] = x /\ Tail(s) \in Seq(Steps)
    BY <1>1
  <1>4. SetSteps(<<x>>, {}) BY <1>3 DEF SetSteps
  <1>5. SetSteps(<<x>> \o Tail(s), {"memory"})
    <2>1. {} \intersect {"memory"} = {} /\ {} \union {"memory"} = {"memory"} OBVIOUS
    <2>2. QED BY <1>2, <1>4, <2>1, SetStepsJoin
  <1> DEFINE t == <<x>> \o Tail(s)
  <1>6. Left(t) => Left(s)
    <2> DEFINE y == <<x>>
               z == Tail(s)
    <2>1. y \in Seq(Steps) /\ z \in Seq(Steps) /\ ~Left(y) BY <1>3 DEF Left
    <2>2. Left(z) => Left(s) BY <1>2
    <2> HIDE DEF y, z
    <2>3. Left(y \o z) => Left(z)
      <3>1. SUFFICES ASSUME NEW i \in DOMAIN (y \o z), (y \o z)[i].do = "memory" PROVE Left(z)
        BY DEF Left
      <3>2. CASE i \in DOMAIN y
        <4>1. (y \o z)[i] = y[i] BY <2>1, <3>2, Joined
        <4>2. QED BY <2>1, <3>1, <3>2, <4>1 DEF Left
      <3>3. CASE i - Len(y) \in DOMAIN z /\ i = Len(y) + (i - Len(y))
        <4>1. (y \o z)[i] = z[i - Len(y)] BY <2>1, <3>3, Joined
        <4>2. QED BY <3>1, <3>3, <4>1 DEF Left
      <3>4. QED BY <2>1, <3>1, <3>2, <3>3, Joined
    <2>4. QED BY <2>2, <2>3 DEF y, z
  <1> HIDE DEF t
  <1>7. ASSUME NEW f \in Requested, NEW k \in Keys(f)
        PROVE  IF Sets(x, f, k)
                 THEN /\ f \in {"quota", "period"}
                      /\ Leaves(v2, x, f) = IF Sets(Head(s), f, k) THEN Leaves(v2, Head(s), f)
                                            ELSE Cell(g, f, k)
                 ELSE ~Sets(Head(s), f, k)
    <2>1. CASE f \in {"quota", "period"}
      <3>1. f \notin Tables /\ f \notin Keyed /\ f # "devices" BY <2>1 DEF Tables, Keyed
      <3>2. Sets(x, f, k) /\ (Sets(Head(s), f, k) <=> Head(s)[f] # none) BY <2>1, <3>1 DEF Sets
      <3>3. Leaves(v2, x, f) = x.val[f] BY <2>1, <3>1 DEF Leaves
      <3>4. Cell(g, f, k) = g[f] BY <3>1 DEF Cell
      <3>5. QED BY <2>1, <3>2, <3>3, <3>4
    <2>2. CASE f \notin {"quota", "period"}
      <3>1. "cpu.max" \notin Keyed /\ f # "cpu.max" BY DEF Keyed, Requested, Files
      <3>2. ~Sets(x, f, k) /\ ~Sets(Head(s), f, k) BY <2>2, <3>1 DEF Sets
      <3>3. QED BY <3>2
    <2>3. QED BY <2>1, <2>2
  <1>8. ASSUME NEW f \in Requested, NEW k \in Keys(f)
        PROVE  IF f \in MemoryCells /\ Left(t) THEN Resting(t, g, b, f, k)
               ELSE Heading(t, e, g, r, b, f, k) /\ Keeping(t, g, r, b, f, k)
    <2> DEFINE v == Cell(Wanted(r, b), f, k)
               V == {Cell(b, f, k), v}
               w == IF Sets(Head(s), f, k) THEN Leaves(v2, Head(s), f) ELSE Cell(g, f, k)
    <2>1. CASE f \in MemoryCells /\ Left(s)
      <3>1. Resting(s, g, b, f, k) BY <2>1 DEF Progress
      <3>2. Unset(Tail(s), f, k) BY <1>1, <3>1, UnsetTail DEF Resting
      <3>3. f \notin {"quota", "period"} BY <2>1 DEF MemoryCells
      <3>4. Unset(<<x>>, f, k) BY <1>7, <3>3, EndsOne
      <3>5. Unset(t, f, k) BY <1>3, <3>2, <3>4, UnsetConcat DEF t
      <3>6. Resting(t, g, b, f, k) BY <3>1, <3>5 DEF Resting
      <3>7. Left(t)
        <4>1. Left(Tail(s)) BY <1>2, <2>1
        <4>2. PICK i \in DOMAIN Tail(s) : Tail(s)[i].do = "memory" BY <4>1 DEF Left
        <4>3. Len(<<x>>) + i \in DOMAIN (<<x>> \o Tail(s)) /\ (<<x>> \o Tail(s))[Len(<<x>>) + i] = Tail(s)[i]
          BY <1>3, Joined
        <4>4. QED BY <4>2, <4>3 DEF Left, t
      <3>8. QED BY <2>1, <3>6, <3>7
    <2>2. CASE ~(f \in MemoryCells /\ Left(s))
      <3>1. Heading(s, e, g, r, b, f, k) /\ Keeping(s, g, r, b, f, k) BY <2>2 DEF Progress
      <3>2. ASSUME e = "ok", Suits(r) PROVE Ends(v2, t, f, k, Cell(g, f, k), v)
        <4>1. Ends(v2, s, f, k, Cell(g, f, k), v) BY <3>1, <3>2 DEF Heading
        <4>2. Ends(v2, Tail(s), f, k, w, v) BY <1>1, <4>1, EndsTail
        <4>3. w = IF Sets(x, f, k) THEN Leaves(v2, x, f) ELSE Cell(g, f, k) BY <1>7
        <4> HIDE DEF w
        <4>4. Ends(v2, <<x>>, f, k, Cell(g, f, k), w) BY <4>3, EndsOne
        <4>5. QED BY <1>3, <4>2, <4>4, EndsConcat DEF t
      <3>3. ASSUME Tame(r, f) PROVE Cell(g, f, k) \in V /\ Mild(v2, t, f, k, V)
        <4>1. Cell(g, f, k) \in V /\ Mild(v2, s, f, k, V) BY <3>1, <3>3 DEF Keeping
        <4>2. /\ Sets(Head(s), f, k) => Leaves(v2, Head(s), f) \in V
              /\ Mild(v2, Tail(s), f, k, V)
          BY <1>1, <4>1, MildTail
        <4> HIDE DEF V
        <4>3. Sets(x, f, k) => Leaves(v2, x, f) \in V BY <1>7, <4>1, <4>2
        <4>4. Mild(v2, <<x>>, f, k, V) BY <4>3, EndsOne
        <4>5. QED BY <1>3, <4>1, <4>2, <4>4, MildConcat DEF t
      <3>4. Heading(t, e, g, r, b, f, k) /\ Keeping(t, g, r, b, f, k) BY <3>2, <3>3 DEF Heading, Keeping
      <3>5. QED BY <1>6, <2>2, <3>4
    <2>3. QED BY <2>1, <2>2
  <1>9. QED BY <1>5, <1>8 DEF Progress, t

\* The controller of memory is read: the steps for its files follow.
LEMMA ProgressMemory ==
  ASSUME NEW s, NEW e, NEW r, NEW b, Progress(s, e, file, r, b), s # << >>,
         Head(s).do = "memory", NEW p, Piece(p, MemoryCells, r)
  PROVE  Progress(p \o Tail(s), e, file, r, b)
  <1>1. s \in Seq(Steps) /\ SetSteps(s, {"memory"}) BY DEF Progress, SetSteps
  <1>2. Left(s) /\ ~Left(Tail(s)) /\ SetSteps(Tail(s), {}) BY <1>1, SetStepsRest
  <1>3. SetSteps(p, MemoryCells) /\ p \in Seq(Steps) /\ Tail(s) \in Seq(Steps) BY <1>2 DEF Piece, SetSteps
  <1>4. "memory" \notin MemoryCells /\ MemoryCells \subseteq Singles BY SinglesDef DEF MemoryCells
  <1>5. SetSteps(p \o Tail(s), MemoryCells)
    <2>1. MemoryCells \intersect {} = {} /\ MemoryCells \union {} = MemoryCells OBVIOUS
    <2>2. QED BY <1>2, <1>3, <2>1, SetStepsJoin
  <1> DEFINE t == p \o Tail(s)
  <1> HIDE DEF t
  <1>6. ~Left(t) /\ SetSteps(t, {"memory"}) BY <1>4, <1>5 DEF SetSteps, Left, t
  <1>7. ASSUME NEW f \in Requested, NEW k \in Keys(f)
        PROVE  Heading(t, e, file, r, b, f, k) /\ Keeping(t, file, r, b, f, k)
    <2> DEFINE u == Cell(file, f, k)
               v == Cell(Wanted(r, b), f, k)
               V == {Cell(b, f, k), v}
    <2>1. CASE f \in MemoryCells
      <3>1. Unset(s, f, k) /\ u = Cell(b, f, k) BY <1>2, <2>1 DEF Progress, Resting
      <3>2. Unset(Tail(s), f, k) BY <1>1, <3>1, UnsetTail
      <3>3. Want(r, f, k) = v
        <4>1. \A m \in MemoryCells : file[m] = b[m] =>  Wanted(r, file)[m] = Wanted(r, b)[m]
          <5>1. file.mem = b.mem => Wanted(r, file).mem = Wanted(r, b).mem BY WantedMemory
          <5>2. file.swap = b.swap => Wanted(r, file).swap = Wanted(r, b).swap BY WantedMemory
          <5>3. file.soft = b.soft => Wanted(r, file).soft = Wanted(r, b).soft BY WantedMemory
          <5>4. file.oom = b.oom => Wanted(r, file).oom = Wanted(r, b).oom BY WantedMemory
          <5>5. file.swappiness = b.swappiness => Wanted(r, file).swappiness = Wanted(r, b).swappiness
            BY WantedMemory
          <5>6. QED BY <5>1, <5>2, <5>3, <5>4, <5>5 DEF MemoryCells
        <4>2. \A q : Cell(q, f, k) = q[f] BY <1>4, <2>1, SinglesDef DEF Cell
        <4>3. QED BY <2>1, <3>1, <4>1, <4>2 DEF Want
      <3>4. Reaches(p, r, f, k) BY <2>1 DEF Piece
      <3> HIDE DEF u, v
      <3>5. /\ Suits(r) => Ends(v2, p, f, k, u, v)
            /\ Tame(r, f) => Mild(v2, p, f, k, {u, v})
        BY <3>3, <3>4 DEF Reaches, u
      <3>6. Ends(v2, Tail(s), f, k, v, v) /\ Mild(v2, Tail(s), f, k, {u, v}) BY <3>2, EndsSame
      <3>7. Suits(r) => Ends(v2, t, f, k, u, v) BY <1>3, <3>5, <3>6, EndsConcat DEF t
      <3>8. Tame(r, f) => Mild(v2, t, f, k, {u, v}) BY <1>3, <3>5, <3>6, MildConcat DEF t
      <3>9. QED BY <3>1, <3>7, <3>8 DEF Heading, Keeping, u, v
    <2>2. CASE f \notin MemoryCells
      <3>1. Heading(s, e, file, r, b, f, k) /\ Keeping(s, file, r, b, f, k) BY <2>2 DEF Progress
      <3>2. Unset(p, f, k) BY <2>2 DEF Piece
      <3>3. ~Sets(Head(s), f, k) BY DEF Sets
      <3>4. ASSUME e = "ok", Suits(r) PROVE Ends(v2, t, f, k, u, v)
        <4>1. Ends(v2, s, f, k, u, v) BY <3>1, <3>4 DEF Heading
        <4> HIDE DEF u, v
        <4>2. Ends(v2, Tail(s), f, k, IF Sets(Head(s), f, k) THEN Leaves(v2, Head(s), f) ELSE u, v)
          BY <1>1, <4>1, EndsTail
        <4>3. Ends(v2, Tail(s), f, k, u, v) BY <3>3, <4>2
        <4>4. Ends(v2, p, f, k, u, u) BY <3>2, EndsSame
        <4>5. QED BY <1>3, <4>3, <4>4, EndsConcat DEF t
      <3>5. ASSUME Tame(r, f) PROVE u \in V /\ Mild(v2, t, f, k, V)
        <4>1. u \in V /\ Mild(v2, s, f, k, V) BY <3>1, <3>5 DEF Keeping
        <4>2. Mild(v2, Tail(s), f, k, V) BY <1>1, <4>1, MildTail
        <4>3. Mild(v2, p, f, k, V) BY <3>2, EndsSame
        <4>4. QED BY <1>3, <4>1, <4>2, <4>3, MildConcat DEF t
      <3>6. QED BY <3>4, <3>5 DEF Heading, Keeping
    <2>3. QED BY <2>1, <2>2
  <1>8. QED BY <1>6, <1>7 DEF Progress, t

\* A set starts.
LEMMA ProgressStarts ==
  ASSUME NEW r \in Request, v2 \in BOOLEAN
  PROVE  Progress(Set(r), "ok", file, r, file)
  <1> DEFINE s == Set(r)
             F == (Requested \ MemoryCells) \union {"memory"}
  <1>1. Left(s)
    <2>1. PICK a \in Seq(Unrelated), b \in Seq(Unrelated) : s = a \o ReadMemory \o b
      BY SetShape DEF Unrelated
    <2> DEFINE x == [do |-> "memory"]
    <2>2. ReadMemory = <<x>> /\ x.do = "memory" BY DEF ReadMemory
    <2> DEFINE S == Unrelated \union {x}
    <2>3. x \in S OBVIOUS
    <2> HIDE DEF s, x
    <2>4. a \in Seq(S) /\ b \in Seq(S) /\ <<x>> \in Seq(S) BY <2>3, Wider
    <2> HIDE DEF S
    <2>5. s = a \o (<<x>> \o b) BY <2>1, <2>2, <2>4, Shift
    <2> DEFINE c == <<x>> \o b
    <2>6. c \in Seq(S) /\ 1 \in DOMAIN c /\ c[1] = x BY <2>4
    <2> HIDE DEF c
    <2>7. Len(a) + 1 \in DOMAIN (a \o c) /\ (a \o c)[Len(a) + 1] = c[1] BY <2>4, <2>6, Joined
    <2>8. QED BY <2>2, <2>5, <2>6, <2>7 DEF Left, c
  <1>2. Piece(s, F, r) BY SetPiece
  <1> HIDE DEF s
  <1>3. SetSteps(s, {"memory"})
    <2>1. SetSteps(s, F) BY <1>2 DEF Piece
    <2>2. QED BY <2>1 DEF SetSteps
  <1>4. ASSUME NEW f \in Requested, NEW k \in Keys(f)
        PROVE  IF f \in MemoryCells /\ Left(s) THEN Resting(s, file, file, f, k)
               ELSE Heading(s, "ok", file, r, file, f, k) /\ Keeping(s, file, r, file, f, k)
    <2>1. CASE f \in MemoryCells
      <3>1. f \notin F BY <2>1 DEF MemoryCells
      <3>2. Unset(s, f, k) BY <1>2, <3>1 DEF Piece
      <3>3. QED BY <1>1, <2>1, <3>2 DEF Resting
    <2>2. CASE f \notin MemoryCells
      <3>1. Reaches(s, r, f, k) BY <1>2, <2>2 DEF Piece
      <3>2. QED BY <2>2, <3>1 DEF Reaches, Want, Heading, Keeping
    <2>3. QED BY <2>1, <2>2
  <1>5. QED BY <1>3, <1>4 DEF Progress, s

\* None of this depends on more of the state than the version of the cgroup.
LEMMA RequestPrime ==
  ASSUME v2' = v2, NEW r, NEW b, NEW f
  PROVE  /\ Wanted(r, b)' = Wanted(r, b) /\ (Suits(r)' <=> Suits(r)) /\ (Tame(r, f)' <=> Tame(r, f))
         /\ FilesOK(b) => FilesOK(b)'
  <1>1. Wanted(r, b)' = Wanted(r, b) BY DEF Wanted
  <1>2. (Suits(r)' <=> Suits(r)) /\ (Tame(r, f)' <=> Tame(r, f)) BY DEF Suits, Tame, Handled
  <1>3. \A g : Held(g)' = Held(g) BY HeldPrime
  <1>4. FilesOK(b) => FilesOK(b)' BY <1>3 DEF FilesOK
  <1>5. QED BY <1>1, <1>2, <1>4

LEMMA ProgressPrime ==
  ASSUME v2' = v2, NEW r \in Request, NEW b, FilesOK(b), call'.r = r, call'.before = b,
         Progress(call'.todo, call'.res, file', r, b)
  PROVE  SetInv'
  <1>1. Progress(call.todo, call.res, file, r, b)'
    <2>1. SetSteps(call.todo, {"memory"})' BY DEF Progress
    <2>2. ASSUME NEW f \in Requested, NEW k \in Keys(f)
          PROVE  (IF f \in MemoryCells /\ Left(call.todo) THEN Resting(call.todo, file, b, f, k)
                  ELSE /\ Heading(call.todo, call.res, file, r, b, f, k)
                       /\ Keeping(call.todo, file, r, b, f, k))'
      <3>1. /\ Wanted(r, b)' = Wanted(r, b) /\ (Suits(r)' <=> Suits(r)) /\ (Tame(r, f)' <=> Tame(r, f))
        BY RequestPrime
      <3>2. Heading(call'.todo, call'.res, file', r, b, f, k) => Heading(call.todo, call.res, file, r, b, f, k)'
        BY <3>1 DEF Heading
      <3>3. Keeping(call'.todo, file', r, b, f, k) => Keeping(call.todo, file, r, b, f, k)'
        BY <3>1 DEF Keeping
      <3>4. QED BY <3>2, <3>3 DEF Progress
    <2>3. QED BY <2>1, <2>2 DEF Progress
  <1>2. FilesOK(b)' BY RequestPrime
  <1>3. QED BY <1>1, <1>2 DEF SetInv

LEMMA SetStep == TypeInv /\ SetInv /\ [Next]_vars => SetInv'
  <1>1. SUFFICES ASSUME TypeInv, SetInv, [Next]_vars PROVE SetInv' OBVIOUS
  <1>2. v2 \in BOOLEAN /\ asks \subseteq Request /\ FilesOK(file) /\ CallOK BY <1>1 DEF TypeInv
  <1>3. ASSUME NEW op \in Ops, NEW r \in asks, Start(op, r) PROVE SetInv'
    <2>1. /\ call'.op = op /\ call'.r = r /\ call'.before = file /\ call'.res = "ok"
          /\ op = "set" => call'.todo = Set(r)
      BY <1>2, <1>3, StartType
    <2>2. CASE op = "set"
      <3>1. Progress(Set(r), "ok", file, r, file) BY <1>2, ProgressStarts
      <3>2. v2' = v2 /\ file' = file BY <1>3 DEF Start
      <3>3. PICK b : b = file OBVIOUS
      <3>4. Progress(call'.todo, call'.res, file', r, b) BY <2>1, <2>2, <3>1, <3>2, <3>3
      <3>5. r \in Request /\ FilesOK(b) /\ call'.before = b BY <1>2, <2>1, <3>3
      <3>6. QED BY <2>1, <3>2, <3>4, <3>5, ProgressPrime
    <2>3. CASE op # "set" BY <2>1, <2>3 DEF SetInv
    <2>4. QED BY <2>2, <2>3
  <1>4. ASSUME call.op # "set", call'.op = call.op PROVE SetInv' BY <1>4 DEF SetInv
  <1>5. ASSUME call.op = "set", v2' = v2, call'.r = call.r, call'.before = call.before,
               NEW r \in Request, NEW b, FilesOK(b), call.r = r, call.before = b,
               Progress(call'.todo, call'.res, file', r, b)
        PROVE  SetInv'
    BY <1>5, ProgressPrime
  <1>6. ASSUME NEW r \in Request, NEW b, FilesOK(b), call.r = r, call.before = b, call.op = "set",
               Progress(call.todo, call.res, file, r, b)
        PROVE  SetInv' \/ \E op \in Ops, q \in asks : Start(op, q)
    <2> DEFINE s == call.todo
               e == call.res
               h == Head(call.todo)
    <2>1. SetSteps(s, {"memory"}) /\ s \in Seq(Steps) BY <1>6 DEF Progress, SetSteps
    <2>2. s # << >> => h.do \in {"write", "cpu.max", "fail", "memory"}
      <3>1. s # << >> => h = s[1] /\ 1 \in DOMAIN s BY <2>1, FirstAndRest
      <3>2. QED BY <2>1, <3>1 DEF SetSteps
    <2>3. CASE Writes
      <3>1. /\ v2' = v2 /\ call'.todo = Tail(s) /\ call'.r = call.r /\ call'.before = call.before
            /\ call'.res = e /\ h \in Puts(Names) /\ s # << >> /\ ~Refused(h.file, h.val)
            /\ file' = Written(h.file, h.val)
        BY <1>1, <2>3, WritesType
      <3>2. h.do = "write"
        <4>1. h.do \in {"write", "update"} BY <3>1, PutsType
        <4>2. QED BY <2>2, <3>1, <4>1
      <3>3. ASSUME NEW f \in Requested, NEW k \in Keys(f)
            PROVE  Cell(file', f, k) = IF Sets(h, f, k) THEN Leaves(v2, h, f) ELSE Cell(file, f, k)
        <4>1. Cell(Written(h.file, h.val), f, k) =
                IF Sets(h, f, k) THEN Leaves(v2, h, f) ELSE Cell(file, f, k)
          <5> HIDE DEF h
          <5>1. QED BY <1>2, <3>1, <3>2, WriteCell
        <4>2. QED BY <3>1, <4>1
      <3>4. Progress(Tail(s), e, file', r, b) BY <1>6, <3>1, <3>2, <3>3, ProgressTail
      <3>5. QED BY <1>5, <1>6, <3>1, <3>4
    <2>4. CASE WriteFails
      <3>1. /\ v2' = v2 /\ file' = file /\ call'.r = call.r /\ call'.before = call.before
            /\ h \in Puts(Names) /\ s # << >>
            /\ \/ h.do = "update"
               \/ call'.todo = << >> /\ call'.res \in {"refused", "busy", "missing", "order"}
        BY <1>2, <2>4, WriteFailsType
      <3>2. call'.todo = << >> /\ call'.res # "ok" BY <2>2, <3>1
      <3>3. Progress(<< >>, call'.res, file, r, b) BY <1>6, <3>2, ProgressStops
      <3>4. QED BY <1>5, <1>6, <3>1, <3>2, <3>3
    <2>5. CASE ReadsMemory
      <3>1. /\ call'.r = call.r /\ call'.before = call.before /\ call'.res = e
            /\ call'.todo = (IF v2 THEN MemoryV2(call.r) ELSE MemoryV1(call.r)) \o Tail(s)
        BY <1>2, <2>5, MemoryType
      <3>2. v2' = v2 /\ file' = file /\ s # << >> /\ h.do = "memory" BY <2>5 DEF ReadsMemory, At
      <3> DEFINE p == IF v2 THEN MemoryV2(r) ELSE MemoryV1(r)
      <3>3. Piece(p, MemoryCells, r) BY <1>2, <1>6, MemoryV1Piece, MemoryV2Piece
      <3>4. call'.todo = p \o Tail(s) BY <1>6, <3>1
      <3> HIDE DEF p
      <3>5. Progress(p \o Tail(s), e, file, r, b) BY <1>6, <3>2, <3>3, ProgressMemory
      <3>6. QED BY <1>5, <1>6, <3>1, <3>2, <3>4, <3>5
    <2>6. CASE ReadsCpuMax
      <3> DEFINE v == CpuMax(h, file)
                 x == [do |-> "write", file |-> "cpu.max", val |-> v]
      <3>1. /\ call'.r = call.r /\ call'.before = call.before /\ call'.res = e
            /\ Write("cpu.max", v) \in Seq(Puts({"cpu.max"}))
            /\ call'.todo = Write("cpu.max", v) \o Tail(s)
        BY <1>2, <2>6, CpuMaxType
      <3>2. v2' = v2 /\ file' = file /\ s # << >> /\ At("cpu.max") /\ h.do = "cpu.max"
        BY <2>6 DEF ReadsCpuMax, At
      <3>3. Write("cpu.max", v) = <<x>> BY DEF Write
      <3>4. x \in Steps
        <4>1. <<x>> \in Seq(Puts({"cpu.max"})) BY <3>1, <3>3
        <4> HIDE DEF x
        <4>2. x \in Puts({"cpu.max"})
          <5>1. <<x>>[1] = x /\ 1 \in DOMAIN <<x>> OBVIOUS
          <5>2. QED BY <4>1, <5>1, Elements
        <4>3. Puts({"cpu.max"}) \subseteq Puts(Names) BY PutsMonotonic DEF Names
        <4>4. QED BY <4>2, <4>3 DEF Steps
      <3>5. x.do = "write" /\ x.file = "cpu.max" /\ x.val = v OBVIOUS
      <3>6. h \in CpuReads BY <1>2, <3>2, NextStep
      <3>7. \A f \in {"quota", "period"} : v[f] = IF h[f] # none THEN Leaves(v2, h, f) ELSE file[f]
        <4>1. h.quota \in Opt(Int) BY <3>6 DEF CpuReads
        <4> HIDE DEF h
        <4>2. v.quota = IF h.quota # none THEN IF h.quota <= 0 THEN Unlimited ELSE h.quota ELSE file.quota
          BY <4>1 DEF CpuMax, Opt
        <4>3. v.period = IF h.period # none THEN h.period ELSE file.period BY DEF CpuMax
        <4>4. Leaves(v2, h, "quota") = IF h.quota <= 0 THEN Unlimited ELSE h.quota BY <3>2 DEF Leaves
        <4>5. Leaves(v2, h, "period") = h.period BY <3>2 DEF Leaves
        <4> HIDE DEF v
        <4>6. QED BY <4>2, <4>3, <4>4, <4>5
      <3> HIDE DEF x, v
      <3>8. Progress(<<x>> \o Tail(s), e, file, r, b)
        BY <1>6, <3>2, <3>4, <3>5, <3>7, ProgressReads
      <3>9. QED BY <1>5, <1>6, <3>1, <3>2, <3>3, <3>8
    <2>7. CASE Tests
      <3>1. h.do = "test" /\ s # << >> BY <2>7 DEF Tests, At
      <3>2. QED BY <2>2, <3>1
    <2>8. CASE Fails
      <3>1. /\ v2' = v2 /\ file' = file /\ call'.r = call.r /\ call'.before = call.before
            /\ call'.todo = << >> /\ call'.res \in Errors
        BY <1>2, <2>8, FailsType
      <3>2. Progress(<< >>, call'.res, file, r, b) BY <1>6, <3>1, ProgressStops DEF Errors, Gone
      <3>3. QED BY <1>5, <1>6, <3>1, <3>2
    <2>9. CASE Freezes
      <3>1. file' = [file EXCEPT !["freezer"] = "frozen"] /\ v2' = v2 /\ call' = call
        BY <2>9 DEF Freezes
      <3>2. \A f \in Requested : file'[f] = file[f]
        <4>1. \A f \in Requested : f # "freezer" /\ f \in Files BY DEF Requested
        <4>2. QED BY <1>2, <3>1, <4>1 DEF FilesOK
      <3>3. ASSUME NEW f \in Requested, NEW k \in Keys(f) PROVE Cell(file', f, k) = Cell(file, f, k)
        <4>1. "devices" \in Requested BY SinglesDef
        <4>2. QED BY <3>2, <4>1 DEF Cell
      <3>4. Progress(s, e, file', r, b) BY <1>6, <3>3, ProgressSame
      <3>5. QED BY <1>5, <1>6, <3>1, <3>4
    <2>10. CASE UNCHANGED <<v2, file, call>> BY <1>5, <1>6, <2>10
    <2>11. QED BY <1>1, <2>3, <2>4, <2>5, <2>6, <2>7, <2>8, <2>9, <2>10 DEF Next, Charge, vars
  <1>7. CASE call.op = "set"
    <2>1. PICK r, b : /\ r \in Request /\ FilesOK(b) /\ call.r = r /\ call.before = b
                      /\ Progress(call.todo, call.res, file, r, b)
      BY <1>1, <1>7 DEF SetInv
    <2>2. QED BY <1>3, <1>6, <1>7, <2>1
  <1>8. CASE call.op # "set"
    <2>1. call'.op = call.op \/ \E op \in Ops, q \in asks : Start(op, q)
      BY <1>1, <1>2, WritesType, WriteFailsType, MemoryType, CpuMaxType, TestsType, FailsType
         DEF Next, Charge, Freezes, vars
    <2>2. QED BY <1>3, <1>4, <1>8, <2>1
  <1>9. QED BY <1>7, <1>8

-----------------------------------------------------------------------------
(***************************************************************************)
(* What a call leaves.                                                     *)
(***************************************************************************)

\* A table is a function of its keys.
LEMMA TableOf ==
  ASSUME NEW g, FilesOK(g), NEW f \in Keyed
  PROVE  DOMAIN g[f] = Keys(f) /\ g[f] = [k \in Keys(f) |-> g[f][k]]
  <1>1. f \in {"weight", "leaf", "rate", "prio"} /\ f \in Files BY DEF Keyed, Files
  <1>2. g[f] \in Held(f) BY <1>1 DEF FilesOK
  <1>3. CASE f = "weight"
    <2>1. Keys(f) = Weighted BY <1>3 DEF Keys
    <2>2. DOMAIN g[f] = Weighted /\ g[f] = [k \in Weighted |-> g[f][k]] BY <1>2, <1>3, HeldTables
    <2>3. QED BY <2>1, <2>2
  <1>4. CASE f = "leaf"
    <2>1. Keys(f) = Weighted BY <1>4 DEF Keys
    <2>2. DOMAIN g[f] = Weighted /\ g[f] = [k \in Weighted |-> g[f][k]] BY <1>2, <1>4, HeldTables
    <2>3. QED BY <2>1, <2>2
  <1>5. CASE f = "rate"
    <2>1. Keys(f) = Rates \X Disks BY <1>5 DEF Keys
    <2>2. DOMAIN g[f] = Rates \X Disks /\ g[f] = [k \in Rates \X Disks |-> g[f][k]] BY <1>2, <1>5, HeldTables
    <2>3. QED BY <2>1, <2>2
  <1>6. CASE f = "prio"
    <2>1. Keys(f) = Interfaces BY <1>6 DEF Keys
    <2>2. DOMAIN g[f] = Interfaces /\ g[f] = [k \in Interfaces |-> g[f][k]] BY <1>2, <1>6, HeldTables
    <2>3. QED BY <2>1, <2>2
  <1>7. QED BY <1>1, <1>3, <1>4, <1>5, <1>6

\* A file holds what is wanted if its cells do.
LEMMA FromCells ==
  ASSUME NEW r \in Request, FilesOK(file), NEW b, FilesOK(b), NEW f \in Requested,
         \A k \in Keys(f) : Cell(file, f, k) = Cell(Wanted(r, b), f, k)
  PROVE  file[f] = Wanted(r, b)[f]
  <1> DEFINE w == Wanted(r, b)
  <1>1. CASE f \in Singles
    <2>1. Keys(f) = {"all"} /\ \A g : Cell(g, f, "all") = g[f] BY <1>1, SinglesDef DEF Cell
    <2>2. QED BY <2>1
  <1>2. CASE f \in Keyed
    <2>0. f # "devices" BY <1>2 DEF Keyed
    <2>1. \A g, k : Cell(g, f, k) = g[f][k] BY <1>2, <2>0 DEF Cell
    <2>2. DOMAIN file[f] = Keys(f) /\ file[f] = [k \in Keys(f) |-> file[f][k]] BY <1>2, TableOf
    <2>3. DOMAIN w[f] = Keys(f) /\ w[f] = [k \in Keys(f) |-> w[f][k]]
      <3>0. DOMAIN b[f] = Keys(f) /\ b[f] = [k \in Keys(f) |-> b[f][k]] BY <1>2, TableOf
      <3> DEFINE weight == WantedWeights(r.io, "weight", b.weight)
                 leaf == WantedWeights(r.io, "leaf", b.leaf)
                 rate == WantedRates(r.io, b.rate)
                 prio == WantedPriorities(r.prios, b.prio)
      <3>1. /\ DOMAIN weight = Weighted /\ weight = [k \in Weighted |-> weight[k]]
            /\ DOMAIN leaf = Weighted /\ leaf = [k \in Weighted |-> leaf[k]]
        BY Zenon DEF WantedWeights
      <3>2. DOMAIN rate = Rates \X Disks /\ rate = [k \in Rates \X Disks |-> rate[k]]
        BY Zenon DEF WantedRates
      <3>3. DOMAIN prio = Interfaces /\ prio = [k \in Interfaces |-> prio[k]]
        BY Zenon DEF WantedPriorities
      <3> HIDE DEF weight, leaf, rate, prio
      <3>4. /\ w.weight = b.weight \/ w.weight = weight
            /\ w.leaf = b.leaf \/ w.leaf = leaf
            /\ w.rate = b.rate \/ w.rate = rate
            /\ w.prio = b.prio \/ w.prio = prio
        BY DEF Wanted, weight, leaf, rate, prio
      <3> HIDE DEF w
      <3>5. CASE f = "weight" BY <3>0, <3>1, <3>4, <3>5 DEF Keys
      <3>6. CASE f = "leaf" BY <3>0, <3>1, <3>4, <3>6 DEF Keys
      <3>7. CASE f = "rate" BY <3>0, <3>2, <3>4, <3>7 DEF Keys
      <3>8. CASE f = "prio" BY <3>0, <3>3, <3>4, <3>8 DEF Keys
      <3>9. QED BY <1>2, <3>5, <3>6, <3>7, <3>8 DEF Keyed
    <2> HIDE DEF w
    <2>4. \A k \in Keys(f) : file[f][k] = w[f][k] BY <2>1 DEF w
    <2>5. QED BY <2>2, <2>3, <2>4 DEF w
  <1>3. CASE f = "devices"
    <2>1. Keys(f) = Devices /\ \A g, k : Cell(g, f, k) = IF k \in g.devices THEN "allow" ELSE "deny"
      BY <1>3 DEF Keys, Cell, Keyed
    <2>2. file.devices \subseteq Devices
      <3>1. "devices" \in Files BY DEF Files
      <3>2. file.devices \in Held("devices") BY <3>1 DEF FilesOK
      <3>3. QED BY <3>2, HeldDef, DevicesAssumption
    <2>3. w.devices \subseteq Devices
      <3>1. w.devices = IF r.devices = none THEN b.devices ELSE WantedDevices(r.devices, b.devices)
        BY DEF Wanted
      <3>2. WantedDevices(r.devices, b.devices) \subseteq Devices BY DEF WantedDevices
      <3>3. b.devices \subseteq Devices
        <4>1. "devices" \in Files BY DEF Files
        <4>2. b.devices \in Held("devices") BY <4>1 DEF FilesOK
        <4>3. QED BY <4>2, HeldDef, DevicesAssumption
      <3> HIDE DEF w
      <3>4. QED BY <3>1, <3>2, <3>3
    <2> HIDE DEF w
    <2>4. \A k \in Devices : k \in file.devices <=> k \in w.devices BY <2>1 DEF w
    <2>5. file.devices = w.devices BY <2>2, <2>3, <2>4
    <2>6. QED BY <1>3, <2>5 DEF w
  <1>4. QED BY <1>1, <1>2, <1>3, SinglesDef

LEMMA InForce == TypeInv /\ SetInv => OkMeansInForce
  <1>1. SUFFICES ASSUME TypeInv, SetInv, Finished("set", "ok"),
                        \/ Handled(call.r)
                        \/ {call.r.limit, call.r.swap, call.r.reservation} = {none}
                 PROVE  \A f \in Requested : file[f] = Wanted(call.r, call.before)[f]
    BY DEF OkMeansInForce
  <1>2. call.todo = << >> /\ call.op = "set" /\ call.res = "ok" BY <1>1 DEF Finished
  <1>3. PICK r, b : /\ r \in Request /\ FilesOK(b) /\ call.r = r /\ call.before = b
                    /\ Progress(call.todo, call.res, file, r, b)
    BY <1>1, <1>2 DEF SetInv
  <1>4. Suits(r) BY <1>1, <1>3 DEF Suits
  <1>5. DOMAIN << >> = {} OBVIOUS
  <1>6. ASSUME NEW f \in Requested, NEW k \in Keys(f)
        PROVE  Cell(file, f, k) = Cell(Wanted(r, b), f, k)
    <2>1. ~Left(<< >>) BY <1>5 DEF Left
    <2>2. Heading(<< >>, "ok", file, r, b, f, k) BY <1>2, <1>3, <2>1 DEF Progress
    <2>3. Ends(v2, << >>, f, k, Cell(file, f, k), Cell(Wanted(r, b), f, k)) BY <1>4, <2>2 DEF Heading
    <2>4. QED BY <1>5, <2>3 DEF Ends, Doomed
  <1>7. QED
    <2>1. ASSUME NEW f \in Requested PROVE file[f] = Wanted(r, b)[f]
      <3>1. FilesOK(file) BY <1>1 DEF TypeInv
      <3>2. QED BY <1>3, <1>6, <2>1, <3>1, FromCells
    <2>2. QED BY <1>3, <2>1

LEMMA Untouched == TypeInv /\ SetInv => OnlyRequested
  <1>1. SUFFICES ASSUME TypeInv, SetInv, call.op = "set", Distinct(call.r)
                 PROVE  /\ \A f \in Requested \ ({"devices"} \union Keyed) :
                             \/ file[f] \in {call.before[f], Wanted(call.r, call.before)[f]}
                             \/ f = "swap" /\ ~Handled(call.r)
                        /\ \A f \in Keyed : \A k \in DOMAIN file[f] :
                             file[f][k] \in {call.before[f][k], Wanted(call.r, call.before)[f][k]}
    BY DEF OnlyRequested
  <1>2. PICK r, b : /\ r \in Request /\ FilesOK(b) /\ call.r = r /\ call.before = b
                    /\ Progress(call.todo, call.res, file, r, b)
    BY <1>1 DEF SetInv
  <1>3. ASSUME NEW f \in Requested, NEW k \in Keys(f), Tame(r, f)
        PROVE  Cell(file, f, k) \in {Cell(b, f, k), Cell(Wanted(r, b), f, k)}
    <2>1. \/ Resting(call.todo, file, b, f, k)
          \/ Keeping(call.todo, file, r, b, f, k)
      BY <1>2 DEF Progress
    <2>2. QED BY <1>3, <2>1 DEF Resting, Keeping
  <1>4. ASSUME NEW f \in Requested \ ({"devices"} \union Keyed), f = "swap" => Handled(r)
        PROVE  file[f] \in {b[f], Wanted(r, b)[f]}
    <2>1. f \in Singles /\ f \in Requested BY DEF Singles, Tables
    <2>2. "all" \in Keys(f) /\ f # "devices" /\ f \notin Keyed BY <2>1, SinglesDef
    <2>3. \A g : Cell(g, f, "all") = g[f] BY <2>2 DEF Cell
    <2>4. Tame(r, f) BY <1>1, <1>2, <1>4, <2>2 DEF Tame
    <2>5. Cell(file, f, "all") \in {Cell(b, f, "all"), Cell(Wanted(r, b), f, "all")}
      BY <1>3, <2>1, <2>2, <2>4
    <2>6. QED BY <2>3, <2>5
  <1>5. ASSUME NEW f \in Keyed, NEW k \in DOMAIN file[f]
        PROVE  file[f][k] \in {b[f][k], Wanted(r, b)[f][k]}
    <2>1. f \in Requested /\ f # "devices" /\ f # "swap" BY SinglesDef
    <2>2. FilesOK(file) BY <1>1 DEF TypeInv
    <2>3. k \in Keys(f) BY <2>2, Entries
    <2>4. \A g : Cell(g, f, k) = g[f][k] BY <2>1 DEF Cell
    <2>5. Tame(r, f) BY <1>1, <1>2, <2>1 DEF Tame
    <2>6. Cell(file, f, k) \in {Cell(b, f, k), Cell(Wanted(r, b), f, k)} BY <1>3, <2>1, <2>3, <2>5
    <2>7. QED BY <2>4, <2>6
  <1>6. QED BY <1>2, <1>4, <1>5

LEMMA SetInit == Init => SetInv
  BY DEF Init, Idle, SetInv

\* When FsManager::set returns Ok, every file holds what the request asks for, or
\* what it held before if the request does not name it, whatever the kernel refuses
\* or rounds, the workload uses and the tasks do in between.  This holds for every
\* request, also one that names a disk, an interface or a device twice (the last value
\* counts), but for those whose limits of memory set_memory_v2 drops (Handled).
THEOREM RequestInForce == Spec => []OkMeansInForce
  <1>1. QED BY InForce, SetInit, SetStep, TypeInit, TypeStep, PTL DEF Spec

\* At every moment of a set, and when it stops half-way with an error, each file and
\* each entry of a table holds what it held before or what is asked for; the two
\* halves of cpu.max, written one after the other, do not undo each other.  No disk and
\* no interface is named twice.
THEOREM NothingElse == Spec => []OnlyRequested
  <1>1. QED BY Untouched, SetInit, SetStep, TypeInit, TypeStep, PTL DEF Spec

================================================================================
