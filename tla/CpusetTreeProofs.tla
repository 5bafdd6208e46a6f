------------------------- MODULE CpusetTreeProofs -------------------------
(***************************************************************************)
(* Cpusets are filled, kept and widened as the code means them to be: for  *)
(* any tree, CPUs, memory nodes, and any number of handles that create,    *)
(* set, widen, flag and remove at the same time.                           *)
(***************************************************************************)
EXTENDS CpusetTree, WellFoundedInduction, TLAPS

-----------------------------------------------------------------------------
(***************************************************************************)
(* The tree.                                                               *)
(***************************************************************************)

\* Induction on natural numbers, as the least counterexample.
LEMMA Least ==
  ASSUME NEW T \in SUBSET Nat, T # {}
  PROVE  \E x \in T : \A y \in T : x <= y
  <1>1. PICK x \in T : \A y \in T : <<y, x>> \notin OpToRel(<, Nat)
    BY WFMin, NatLessThanWellFounded, Zenon
  <1>2. \A y \in T : ~(y < x) BY <1>1, Zenon DEF OpToRel
  <1>3. QED BY <1>2

\* The path to a directory is the one to the directory above it, and itself.
LEMMA PathType ==
  ASSUME NEW n \in Nodes
  PROVE  /\ Path[n] \in Seq(Nodes \ {Root})
         /\ n = Root => Path[n] = << >>
         /\ n # Root => /\ Parent[n] \in Nodes
                        /\ Len(Path[n]) = Len(Path[Parent[n]]) + 1
                        /\ Path[n][Len(Path[n])] = n
                        /\ \A i \in 1 .. Len(Path[Parent[n]]) : Path[n][i] = Path[Parent[n]][i]
  <1>1. Path[n] \in Seq(Nodes \ {Root}) BY TreeAssumption
  <1>2. CASE n = Root BY <1>1, <1>2, TreeAssumption
  <1>3. CASE n # Root
    <2>1. Parent[n] \in Nodes BY <1>3, TreeAssumption
    <2>2. Path[Parent[n]] \in Seq(Nodes \ {Root}) BY <2>1, TreeAssumption
    <2>3. Path[n] = Append(Path[Parent[n]], n) BY <1>3, TreeAssumption
    <2>4. n \in Nodes \ {Root} BY <1>3
    <2>5. /\ Len(Path[n]) = Len(Path[Parent[n]]) + 1
          /\ Path[n][Len(Path[n])] = n
          /\ \A i \in 1 .. Len(Path[Parent[n]]) : Path[n][i] = Path[Parent[n]][i]
      BY <2>2, <2>3, <2>4
    <2>6. QED BY <1>1, <1>3, <2>1, <2>5
  <1>4. QED BY <1>2, <1>3

LEMMA Acyclic == ASSUME NEW n \in Nodes \ {Root} PROVE Parent[n] # n
  <1>1. Len(Path[n]) = Len(Path[Parent[n]]) + 1 /\ Len(Path[n]) \in Nat BY PathType
  <1>2. QED BY <1>1

\* A directory on a path is at the end of its own path.
LEMMA PathPrefix ==
  ASSUME NEW n \in Nodes, NEW i \in 1 .. Len(Path[n])
  PROVE  /\ Len(Path[Path[n][i]]) = i
         /\ \A j \in 1 .. i : Path[Path[n][i]][j] = Path[n][j]
  <1> DEFINE Good(k, h) == /\ Len(Path[Path[k][h]]) = h
                           /\ \A j \in 1 .. h : Path[Path[k][h]][j] = Path[k][j]
             Bad == {d \in Nat : \E k \in Nodes : Len(Path[k]) = d /\ \E h \in 1 .. d : ~Good(k, h)}
  <1>1. ASSUME Bad # {} PROVE FALSE
    <2>1. PICK d \in Bad : \A e \in Bad : d <= e BY <1>1, Least
    <2>2. PICK k \in Nodes, h \in 1 .. d : Len(Path[k]) = d /\ ~Good(k, h) BY <2>1
    <2>3. k # Root BY <2>2, PathType
    <2> DEFINE p == Parent[k]
    <2>4. /\ p \in Nodes /\ d = Len(Path[p]) + 1 /\ Len(Path[p]) \in Nat /\ Path[k][d] = k
          /\ \A j \in 1 .. Len(Path[p]) : Path[k][j] = Path[p][j]
      BY <2>2, <2>3, PathType
    <2>5. Len(Path[p]) \notin Bad
      <3> HIDE DEF Bad
      <3>1. QED BY <2>1, <2>4
    <2>6. \A g \in 1 .. Len(Path[p]) : Good(p, g) BY <2>4, <2>5
    <2>7. CASE h = d BY <2>2, <2>4, <2>7
    <2>8. CASE h # d
      <3>1. h \in 1 .. Len(Path[p]) BY <2>2, <2>4, <2>8
      <3>2. Good(p, h) /\ Path[k][h] = Path[p][h] BY <2>4, <2>6, <3>1
      <3>3. Good(k, h) BY <2>4, <3>1, <3>2
      <3>4. QED BY <2>2, <3>3
    <2>9. QED BY <2>7, <2>8
  <1>2. Len(Path[n]) \in Nat BY PathType
  <1>3. Good(n, i) BY <1>1, <1>2
  <1>4. QED BY <1>3

LEMMA OnDef ==
  ASSUME NEW n \in Nodes
  PROVE  /\ On(n) \subseteq Nodes \ {Root}
         /\ n = Root => On(n) = {}
         /\ n # Root => n \in On(n) /\ On(n) = On(Parent[n]) \union {n}
  <1>1. Path[n] \in Seq(Nodes \ {Root}) BY PathType
  <1>2. On(n) \subseteq Nodes \ {Root} BY <1>1 DEF On
  <1>3. CASE n = Root BY <1>2, <1>3, PathType DEF On
  <1>4. CASE n # Root
    <2> DEFINE k == Len(Path[Parent[n]])
    <2>1. k \in Nat /\ Parent[n] \in Nodes BY <1>4, PathType
    <2>2. DOMAIN Path[n] = 1 .. k + 1 /\ DOMAIN Path[Parent[n]] = 1 .. k
      BY <1>4, <2>1, PathType
    <2>3. Path[n][k + 1] = n /\ \A i \in 1 .. k : Path[n][i] = Path[Parent[n]][i] BY <1>4, PathType
    <2>4. On(n) = {Path[n][i] : i \in 1 .. k + 1} /\ On(Parent[n]) = {Path[Parent[n]][i] : i \in 1 .. k}
      BY <2>2 DEF On
    <2>5. {Path[n][i] : i \in 1 .. k + 1} = {Path[n][i] : i \in 1 .. k} \union {Path[n][k + 1]}
      <3>1. 1 .. k + 1 = (1 .. k) \union {k + 1} BY <2>1
      <3>2. QED BY <3>1
    <2>6. {Path[n][i] : i \in 1 .. k} = {Path[Parent[n]][i] : i \in 1 .. k} BY <2>3
    <2>7. On(n) = On(Parent[n]) \union {n} BY <2>3, <2>4, <2>5, <2>6
    <2>8. QED BY <1>2, <1>4, <2>7
  <1>5. QED BY <1>3, <1>4

\* What is on a path is in an order, which the paths below share.
LEMMA OnPath ==
  ASSUME NEW n \in Nodes, NEW k \in On(n)
  PROVE  \E i \in 1 .. Len(Path[n]) : /\ k = Path[n][i] /\ Len(Path[k]) = i
                                      /\ \A j \in 1 .. i : Path[k][j] = Path[n][j]
  <1>1. Path[n] \in Seq(Nodes \ {Root}) BY PathType
  <1>2. PICK i \in DOMAIN Path[n] : k = Path[n][i] BY DEF On
  <1>3. i \in 1 .. Len(Path[n]) BY <1>1, <1>2
  <1>4. QED BY <1>2, <1>3, PathPrefix

LEMMA OnTrans == ASSUME NEW n \in Nodes, NEW k \in On(n) PROVE On(k) \subseteq On(n)
  <1>1. PICK i \in 1 .. Len(Path[n]) : /\ k = Path[n][i] /\ Len(Path[k]) = i
                                       /\ \A j \in 1 .. i : Path[k][j] = Path[n][j]
    BY OnPath
  <1>2. k \in Nodes /\ Path[n] \in Seq(Nodes \ {Root}) BY OnDef, PathType
  <1>3. DOMAIN Path[k] = 1 .. i /\ 1 .. i \subseteq DOMAIN Path[n] BY <1>1, <1>2, PathType
  <1>4. QED BY <1>1, <1>3 DEF On

\* Above a directory on a path is the next one on it, or the root.
LEMMA OnParent ==
  ASSUME NEW n \in Nodes, NEW k \in On(n), Parent[k] # Root
  PROVE  Parent[k] \in On(n)
  <1>1. k \in Nodes \ {Root} BY OnDef
  <1>2. Parent[k] \in Nodes /\ On(k) = On(Parent[k]) \union {k} BY <1>1, OnDef, TreeAssumption
  <1>3. Parent[k] \in On(Parent[k]) BY <1>2, OnDef
  <1>4. QED BY <1>2, <1>3, OnTrans

\* The levels of a path are different directories, one above the other.
LEMMA PathStep ==
  ASSUME NEW n \in Nodes, NEW i \in 1 .. Len(Path[n])
  PROVE  /\ Path[n][i] \in On(n)
         /\ i = 1 => Parent[Path[n][i]] = Root
         /\ i # 1 => Parent[Path[n][i]] = Path[n][i - 1]
         /\ \A j \in 1 .. Len(Path[n]) : Path[n][j] = Path[n][i] => i = j
  <1> DEFINE k == Path[n][i]
  <1>1. Path[n] \in Seq(Nodes \ {Root}) BY PathType
  <1>2. k \in On(n) BY <1>1 DEF On
  <1>3. k \in Nodes \ {Root} BY <1>1
  <1>4. Len(Path[k]) = i /\ \A j \in 1 .. i : Path[k][j] = Path[n][j] BY PathPrefix
  <1>5. /\ Parent[k] \in Nodes /\ i = Len(Path[Parent[k]]) + 1
        /\ \A j \in 1 .. Len(Path[Parent[k]]) : Path[k][j] = Path[Parent[k]][j]
    BY <1>3, <1>4, PathType
  <1>6. ASSUME i = 1 PROVE Parent[k] = Root
    <2>1. Len(Path[Parent[k]]) = 0 BY <1>5, <1>6, PathType
    <2>2. QED BY <1>5, <2>1, PathType
  <1>7. ASSUME i # 1 PROVE Parent[k] = Path[n][i - 1]
    <2>1. Len(Path[Parent[k]]) = i - 1 /\ i - 1 \in 1 .. i BY <1>5, <1>7, PathType
    <2>2. Parent[k] # Root BY <1>7, <2>1, PathType
    <2>3. Path[Parent[k]][i - 1] = Parent[k] BY <1>5, <2>1, <2>2, PathType
    <2>4. QED BY <1>4, <1>5, <2>1, <2>3
  <1>8. \A j \in 1 .. Len(Path[n]) : Path[n][j] = k => i = j BY <1>4, PathPrefix
  <1>9. QED BY <1>2, <1>6, <1>7, <1>8

\* The next directory on the way to t.
LEMMA TowardDef ==
  ASSUME NEW t \in Nodes, NEW n \in On(t), n # t
  PROVE  Toward(n, t) \in On(t) /\ Parent[Toward(n, t)] = n
  <1>1. PICK i \in 1 .. Len(Path[t]) : n = Path[t][i] BY OnPath
  <1>2. Len(Path[t]) \in Nat BY PathType
  <1>3. t # Root BY <1>1, PathType
  <1>4. i # Len(Path[t]) BY <1>1, <1>3, PathType
  <1>5. i + 1 \in 1 .. Len(Path[t]) /\ i + 1 # 1 /\ (i + 1) - 1 = i BY <1>1, <1>2, <1>4
  <1>6. Path[t][i + 1] \in On(t) /\ Parent[Path[t][i + 1]] = Path[t][(i + 1) - 1] BY <1>5, PathStep
  <1>7. \E k \in On(t) : Parent[k] = n BY <1>1, <1>5, <1>6
  <1>8. QED BY <1>7 DEF Toward

-----------------------------------------------------------------------------
(***************************************************************************)
(* Types.                                                                  *)
(***************************************************************************)

AllIds == UNION {Ids[f] : f \in Files}

\* The tree: the kernel's rules, and the root has all there is.
TreeOK ==
  /\ Root \in dirs /\ dirs \subseteq Nodes /\ \A n \in dirs \ {Root} : Parent[n] \in dirs
  /\ allowed \in [Nodes -> [Files -> SUBSET AllIds]] /\ allowed[Root] = Ids
  /\ \A n \in Nodes, f \in Files : allowed[n][f] \subseteq IF n \in dirs THEN Ids[f] ELSE {}
  /\ \A n \in Nodes \ {Root}, f \in Files : ~v2 => allowed[n][f] \subseteq allowed[Parent[n]][f]
  /\ \A n \in tasks : Usable(n)

\* The target of a call r of c, and the level above.
Goal(c, r) == Path[leaf[c]][r.level]
Last(s) == s[Len(s)]
Copying(r) == r.pc \in {"find", "fill"}

\* What a call does follows from its operation, and it makes directories on the
\* way to its target.
CallIs(c, r) ==
  /\ r.level <= Len(Levels(c))
  /\ r.pc = "mkdir" => r.dir \in On(r.goal) /\ r.goal \in On(Goal(c, r))
  /\ r.pc \in {"mkdir", "find", "fill"} => r.op \in {"new", "topdown"}
  /\ r.pc = "write" => r.op \in {"set", "apply"}
  /\ r.pc = "rmdir" => r.op = "delete"
  /\ r.pc = "level" => r.op = "topdown"
  /\ r.pc # "idle" /\ r.op \in {"set", "apply", "topdown"} => r.want \in Wants
  /\ r.pc # "idle" /\ r.op = "new" => r.level = Len(Levels(c))

\* A copy goes up from the target: the empty directories lie one above the other.
ClimbIs(c, r) ==
  Copying(r) =>
    /\ ~v2
    /\ r.empties \in Seq(On(Goal(c, r)))
    /\ r.empties # << >> => r.empties[1] = Goal(c, r)
    /\ \A i \in 1 .. Len(r.empties) - 1 : Parent[r.empties[i]] = r.empties[i + 1]
    /\ r.pc = "find" => r.dir = IF r.empties = << >> THEN Goal(c, r) ELSE Parent[Last(r.empties)]
    /\ r.pc = "fill" => r.empties # << >> /\ r.value # {} /\ r.value \subseteq Ids[r.file]

Good(c, r) == r \in Call /\ CallIs(c, r) /\ ClimbIs(c, r)
CallsOK == m \in [Clients -> Call] /\ \A c \in Clients : Good(c, m[c])

TypeInv == /\ v2 \in BOOLEAN /\ mix \in Mixes /\ leaf \in [Clients -> Nodes \ {Root}]
           /\ leaf \in Leaves /\ TreeOK /\ CallsOK

LEMMA TypeInvImplies == TypeInv => TypeOK
  BY DEF TypeInv, TreeOK, CallsOK, TypeOK

\* The levels of a handle.
LEMMA LevelType ==
  ASSUME TypeInv, NEW c \in Clients
  PROVE  /\ leaf[c] \in Nodes \ {Root} /\ Len(Levels(c)) \in Nat \ {0}
         /\ Levels(c)[Len(Levels(c))] = leaf[c]
         /\ \A i \in 1 .. Len(Levels(c)) : Levels(c)[i] \in Nodes \ {Root} /\ Levels(c)[i] \in On(leaf[c])
  <1>1. leaf[c] \in Nodes \ {Root} BY DEF TypeInv
  <1>2. Path[leaf[c]] \in Seq(Nodes \ {Root}) /\ Path[leaf[c]] # << >> BY <1>1, PathType
  <1>3. Len(Path[leaf[c]]) \in Nat \ {0} BY <1>2
  <1>4. Path[leaf[c]][Len(Path[leaf[c]])] = leaf[c] BY <1>1, PathType
  <1>5. \A i \in 1 .. Len(Path[leaf[c]]) : Path[leaf[c]][i] \in Nodes \ {Root} BY <1>2
  <1>6. QED BY <1>1, <1>3, <1>4, <1>5, PathStep DEF Levels

LEMMA GoalType ==
  ASSUME TypeInv, NEW c \in Clients, NEW r, r.level \in Nat \ {0}, r.level <= Len(Levels(c))
  PROVE  /\ Goal(c, r) \in Nodes \ {Root} /\ Goal(c, r) \in On(leaf[c])
         /\ On(Goal(c, r)) \subseteq On(leaf[c]) /\ On(Goal(c, r)) \subseteq Nodes \ {Root}
         /\ Goal(c, r) \in On(Goal(c, r))
  <1>1. r.level \in 1 .. Len(Levels(c)) BY LevelType
  <1>2. Goal(c, r) \in Nodes \ {Root} /\ Goal(c, r) \in On(leaf[c])
    BY <1>1, LevelType DEF Levels, Goal
  <1>3. On(Goal(c, r)) \subseteq Nodes \ {Root} /\ Goal(c, r) \in On(Goal(c, r)) BY <1>2, OnDef
  <1>4. On(Goal(c, r)) \subseteq On(leaf[c]) BY <1>2, LevelType, OnTrans
  <1>5. QED BY <1>2, <1>3, <1>4

\* What the step of a handle makes of the others.
LEMMA Goes ==
  ASSUME CallsOK, NEW c \in Clients, NEW r, Good(c, r), UNCHANGED <<v2, leaf>>,
         Becomes(c, r) \/ \E U : BecomesSeen(c, r, U)
  PROVE  /\ CallsOK' /\ m'[c] = r
         /\ \A k \in Clients \ {c} :
              \E s \in {"still", "grown", "upset"} : m'[k] = [m[k] EXCEPT !.seen = s]
  <1> DEFINE Other(k) == \E s \in {"still", "grown", "upset"} : m'[k] = [m[k] EXCEPT !.seen = s]
  <1>1. \A k \in Clients : m[k] \in Call /\ Good(k, m[k]) BY DEF CallsOK
  <1>2. \A k \in Clients : m[k].seen \in {"still", "grown", "upset"} /\ [m[k] EXCEPT !.seen = m[k].seen] = m[k]
    BY <1>1 DEF Call
  <1>3. DOMAIN m' = Clients /\ m' = [k \in Clients |-> m'[k]] /\ m'[c] = r
        /\ \A k \in Clients \ {c} : Other(k)
    <2>1. CASE Becomes(c, r) BY <1>2, <2>1 DEF Becomes, CallsOK
    <2>2. CASE \E U : BecomesSeen(c, r, U)
      <3>1. PICK U : m' = [Notice(c, U) EXCEPT ![c] = r] BY <2>2 DEF BecomesSeen
      <3>2. DOMAIN m' = Clients /\ m' = [k \in Clients |-> m'[k]] /\ m'[c] = r BY <3>1 DEF Notice
      <3>3. \A k \in Clients \ {c} : m'[k] = m[k] \/ m'[k] = [m[k] EXCEPT !.seen = "upset"]
                                       \/ m'[k] = [m[k] EXCEPT !.seen = "grown"]
        BY <3>1 DEF Notice
      <3>4. QED BY <1>2, <3>2, <3>3
    <2>3. QED BY <2>1, <2>2
  <1>4. ASSUME NEW k \in Clients \ {c}, NEW s \in {"still", "grown", "upset"}
        PROVE  Good(k, [m[k] EXCEPT !.seen = s])
    <2> DEFINE q == m[k]
               p == [q EXCEPT !.seen = s]
    <2>1. q \in Call /\ Good(k, q) BY <1>1
    <2>2. p \in Call BY <2>1 DEF Call
    <2>3. /\ p.pc = q.pc /\ p.op = q.op /\ p.want = q.want /\ p.level = q.level /\ p.dir = q.dir
          /\ p.goal = q.goal /\ p.file = q.file /\ p.value = q.value /\ p.empties = q.empties
      BY <2>1 DEF Call
    <2> HIDE DEF p, q
    <2>4. Goal(k, p) = Goal(k, q) /\ Copying(p) = Copying(q) BY <2>3 DEF Goal, Copying
    <2>5. CallIs(k, q) => CallIs(k, p) BY <2>3, <2>4 DEF CallIs
    <2>6. ClimbIs(k, q) => ClimbIs(k, p) BY <2>3, <2>4 DEF ClimbIs
    <2>7. Good(k, p) BY <2>1, <2>2, <2>5, <2>6 DEF Good
    <2>8. QED BY <2>7 DEF p, q
  <1>5. ASSUME NEW k \in Clients PROVE Good(k, m'[k])
    <2>1. CASE k = c BY <1>3, <2>1
    <2>2. CASE k # c
      <3>1. PICK s \in {"still", "grown", "upset"} : m'[k] = [m[k] EXCEPT !.seen = s] BY <1>3, <2>2
      <3>2. QED BY <1>4, <2>2, <3>1, ZenonT(40)
    <2>3. QED BY <2>1, <2>2
  <1>6. ASSUME NEW k \in Clients PROVE Good(k, m[k])'
    <2> DEFINE p == m'[k]
    <2>1. Good(k, p) BY <1>5
    <2> HIDE DEF p
    <2>2. p \in Call /\ CallIs(k, p) /\ ClimbIs(k, p) BY <2>1 DEF Good
    <2>3. Goal(k, m[k])' = Goal(k, p) /\ Levels(k)' = Levels(k) BY DEF Goal, Levels, p
    <2>4. Copying(m[k])' = Copying(p) BY DEF Copying, p
    <2>5. m'[k] = p BY DEF p
    <2>6. CallIs(k, m[k])' BY <2>2, <2>3, <2>5 DEF CallIs
    <2>7. ClimbIs(k, m[k])' BY <2>2, <2>3, <2>4, <2>5 DEF ClimbIs
    <2>8. QED BY <2>2, <2>5, <2>6, <2>7 DEF Good
  <1>7. m' \in [Clients -> Call] BY <1>3, <1>5 DEF Good
  <1>8. QED BY <1>3, <1>6, <1>7 DEF CallsOK

\* The ends of calls, and calls of one write.
LEMMA IdleGood ==
  ASSUME TypeInv, NEW c \in Clients, NEW op \in Ops, NEW res \in {"none", "ok", "err"}
  PROVE  Good(c, [Idle EXCEPT !.op = op, !.res = res])
  <1> DEFINE r == [Idle EXCEPT !.op = op, !.res = res]
  <1>1. Root \in Nodes /\ << >> \in Seq(Nodes) BY TreeAssumption
  <1>2. "cpus" \in Files /\ {} \in SUBSET UNION {Ids[f] : f \in Files} /\ {} \in Wants \union {{}}
    BY DEF Files
  <1>3. op \in Ops /\ 1 \in Nat \ {0} OBVIOUS
  <1>4. r \in Call BY <1>1, <1>2, <1>3 DEF Idle, Call
  <1>5. r.pc = "idle" /\ r.level = 1 BY DEF Idle
  <1> HIDE DEF r
  <1>6. Len(Levels(c)) \in Nat \ {0} BY LevelType
  <1>7. CallIs(c, r) /\ ClimbIs(c, r) BY <1>5, <1>6 DEF CallIs, ClimbIs, Copying
  <1>8. Good(c, r) BY <1>4, <1>7 DEF Good
  <1>9. QED BY <1>8 DEF r

LEMMA DoneGood ==
  ASSUME TypeInv, NEW c \in Clients, NEW res \in {"none", "ok", "err"}
  PROVE  /\ Good(c, Done(c, res)) /\ Done(c, res).pc = "idle"
         /\ Done(c, res).op = m[c].op /\ Done(c, res).res = res
  <1>1. m[c].op \in Ops BY DEF TypeInv, CallsOK, Call
  <1>2. Good(c, Done(c, res)) BY <1>1, IdleGood DEF Done
  <1>3. QED BY <1>2 DEF Done, Idle

\* Making directories begins at the target on v1, at the top of the path on v2.
LEMMA CreatingGood ==
  ASSUME TypeInv, NEW c \in Clients, NEW r \in Call, NEW level \in 1 .. Len(Levels(c)),
         r.op \in {"new", "topdown"}, r.op = "topdown" => r.want \in Wants,
         r.op = "new" => level = Len(Levels(c))
  PROVE  LET q == Creating(c, r, level)
         IN  /\ Good(c, q) /\ q.pc = "mkdir" /\ q.level = level /\ ~q.down
             /\ q.op = r.op /\ q.want = r.want /\ q.seen = r.seen /\ q.widens = r.widens
  <1> DEFINE to == IF v2 THEN Path[leaf[c]][1] ELSE Path[leaf[c]][level]
             q == Creating(c, r, level)
             target == Path[leaf[c]][level]
  <1>1. q = [r EXCEPT !.pc = "mkdir", !.level = level, !.down = FALSE, !.goal = to, !.dir = to]
    BY DEF Creating
  <1>2. /\ leaf[c] \in Nodes \ {Root} /\ Len(Path[leaf[c]]) \in Nat \ {0}
        /\ level \in Nat \ {0} /\ 1 \in 1 .. Len(Path[leaf[c]]) /\ level \in 1 .. Len(Path[leaf[c]])
    BY LevelType DEF Levels
  <1>3. to \in Nodes \ {Root} /\ target \in Nodes \ {Root} BY <1>2, LevelType DEF Levels
  <1>4. to \in On(to) BY <1>3, OnDef
  <1>5. to \in On(target)
    <2>1. CASE v2
      <3>1. 1 \in 1 .. level /\ Len(Path[target]) = level /\ Path[target][1] = to BY <1>2, <2>1, PathPrefix
      <3>2. 1 \in 1 .. Len(Path[target]) BY <3>1
      <3>3. Path[target][1] \in On(target) BY <1>3, <3>2, PathStep
      <3>4. QED BY <3>1, <3>3
    <2>2. CASE ~v2 BY <1>4, <2>2
    <2>3. QED BY <2>1, <2>2
  <1> HIDE DEF to, target
  <1>6. q \in Call BY <1>1, <1>2, <1>3 DEF Call
  <1>7. /\ q.pc = "mkdir" /\ q.level = level /\ ~q.down /\ q.goal = to /\ q.dir = to
        /\ q.op = r.op /\ q.want = r.want /\ q.seen = r.seen /\ q.widens = r.widens
    BY <1>1 DEF Call
  <1> HIDE DEF q
  <1>8. Goal(c, q) = target BY <1>7 DEF Goal, target
  <1>9. CallIs(c, q) BY <1>2, <1>4, <1>5, <1>7, <1>8 DEF CallIs, Levels
  <1>10. ClimbIs(c, q) BY <1>7 DEF ClimbIs, Copying
  <1>11. QED BY <1>6, <1>7, <1>9, <1>10 DEF Good, q

\* After the directory, and after the copy.
LEMMA CreatedGood ==
  ASSUME TypeInv, NEW c \in Clients, m[c].pc \in {"mkdir", "find", "fill"}
  PROVE  LET q == [Created(c) EXCEPT !.value = {}, !.empties = << >>]
         IN  /\ Good(c, Created(c)) /\ Good(c, q)
             /\ m[c].op = "topdown" =>
                  /\ Created(c) = [m[c] EXCEPT !.pc = "level"]
                  /\ q.pc = "level" /\ q.op = "topdown" /\ q.level = m[c].level
                  /\ q.want = m[c].want /\ q.seen = m[c].seen /\ q.widens = m[c].widens
             /\ m[c].op # "topdown" => Created(c) = Done(c, "ok") /\ q.pc = "idle"
  <1>1. m[c] \in Call /\ CallIs(c, m[c]) BY DEF TypeInv, CallsOK, Good
  <1>2. << >> \in Seq(Nodes) /\ {} \in SUBSET UNION {Ids[f] : f \in Files} OBVIOUS
  <1>3. CASE m[c].op = "topdown"
    <2> DEFINE p == [m[c] EXCEPT !.pc = "level"]
               q == [p EXCEPT !.value = {}, !.empties = << >>]
    <2>1. Created(c) = p BY <1>3 DEF Created
    <2>2. p \in Call /\ q \in Call BY <1>1, <1>2 DEF Call
    <2>3. /\ p.pc = "level" /\ p.op = "topdown" /\ p.level = m[c].level /\ p.want = m[c].want
          /\ q.pc = "level" /\ q.op = "topdown" /\ q.level = m[c].level /\ q.want = m[c].want
          /\ q.seen = m[c].seen /\ q.widens = m[c].widens
      BY <1>1, <1>3 DEF Call
    <2> HIDE DEF p, q
    <2>4. m[c].level <= Len(Levels(c)) /\ m[c].want \in Wants BY <1>1, <1>3 DEF CallIs
    <2>5. CallIs(c, p) /\ CallIs(c, q) BY <2>3, <2>4 DEF CallIs
    <2>6. ClimbIs(c, p) /\ ClimbIs(c, q) BY <2>3 DEF ClimbIs, Copying
    <2>7. Good(c, p) /\ Good(c, q) BY <2>2, <2>5, <2>6 DEF Good
    <2>8. QED BY <1>3, <2>1, <2>3, <2>7 DEF p, q
  <1>4. CASE m[c].op # "topdown"
    <2> DEFINE p == Done(c, "ok")
               q == [p EXCEPT !.value = {}, !.empties = << >>]
    <2>1. Created(c) = p BY <1>4 DEF Created
    <2>2. Good(c, p) /\ p.pc = "idle" BY DoneGood
    <2>3. p.value = {} /\ p.empties = << >> BY DEF Done, Idle
    <2>4. p \in Call BY <2>2 DEF Good
    <2> HIDE DEF p
    <2>5. q = p BY <2>3, <2>4 DEF Call
    <2>6. QED BY <1>4, <2>1, <2>2, <2>5 DEF p
  <1>5. QED BY <1>3, <1>4

\* The copy of the memory nodes comes after that of the CPUs, on v1.
LEMMA CopiedGood ==
  ASSUME TypeInv, NEW c \in Clients, Copying(m[c])
  PROVE  /\ Good(c, Copied(c))
         /\ m[c].file = "cpus" =>
              Copied(c) = [m[c] EXCEPT !.pc = "find", !.file = "mems", !.dir = Target(c),
                                       !.value = {}, !.empties = << >>]
         /\ m[c].file = "mems" => Copied(c) = [Created(c) EXCEPT !.value = {}, !.empties = << >>]
  <1>1. /\ m[c] \in Call /\ CallIs(c, m[c]) /\ ClimbIs(c, m[c]) /\ ~v2
        /\ m[c].pc \in {"mkdir", "find", "fill"}
    BY DEF TypeInv, CallsOK, Good, ClimbIs, Copying
  <1>2. m[c].file \in {"cpus", "mems"} BY <1>1 DEF Call, Files
  <1>3. CASE m[c].file = "cpus"
    <2> DEFINE q == [m[c] EXCEPT !.pc = "find", !.file = "mems", !.dir = Target(c),
                                 !.value = {}, !.empties = << >>]
    <2>1. Copied(c) = q BY <1>3 DEF Copied
    <2>2. Target(c) \in Nodes
      <3>1. m[c].level \in Nat \ {0} /\ m[c].level <= Len(Levels(c)) BY <1>1 DEF Call, CallIs
      <3>2. QED BY <3>1, GoalType DEF Target, Goal
    <2>3. << >> \in Seq(Nodes) /\ << >> \in Seq(On(Target(c))) OBVIOUS
    <2>4. q \in Call BY <1>1, <2>2, <2>3 DEF Call, Files
    <2>5. /\ q.pc = "find" /\ q.op = m[c].op /\ q.level = m[c].level /\ q.want = m[c].want
          /\ q.dir = Target(c) /\ q.empties = << >>
      BY <1>1 DEF Call
    <2> HIDE DEF q
    <2>6. Goal(c, q) = Target(c) BY <2>5 DEF Goal, Target
    <2>7. CallIs(c, q) BY <1>1, <2>5 DEF CallIs, Copying
    <2>8. Len(q.empties) = 0 BY <2>5
    <2>9. ClimbIs(c, q) BY <1>1, <2>3, <2>5, <2>6, <2>8 DEF ClimbIs
    <2>10. Good(c, q) BY <2>4, <2>7, <2>9 DEF Good
    <2>11. QED BY <1>3, <2>1, <2>10 DEF q
  <1>4. CASE m[c].file = "mems" BY <1>1, <1>4, CreatedGood DEF Copied
  <1>5. QED BY <1>2, <1>3, <1>4

\* The kernel's rules.
LEMMA SameTree == TreeOK /\ UNCHANGED <<v2, dirs, allowed, tasks>> => TreeOK'
  BY DEF TreeOK, Usable

\* A write that the kernel takes.
LEMMA PutTree ==
  ASSUME TreeOK, NEW n \in Nodes \ {Root}, NEW f \in Files, NEW ids \in SUBSET Ids[f],
         Accepts(n, f, ids), UNCHANGED <<v2, dirs, tasks>>,
         allowed' = [allowed EXCEPT ![n][f] = ids]
  PROVE  /\ TreeOK'
         /\ allowed'[n][f] = ids
         /\ \A k \in Nodes, g \in Files : k # n \/ g # f => allowed'[k][g] = allowed[k][g]
  <1>1. /\ allowed \in [Nodes -> [Files -> SUBSET AllIds]] /\ allowed[Root] = Ids
        /\ dirs \subseteq Nodes /\ \A k \in tasks : Usable(k)
        /\ \A k \in Nodes, g \in Files : allowed[k][g] \subseteq IF k \in dirs THEN Ids[g] ELSE {}
        /\ \A k \in Nodes \ {Root}, g \in Files : ~v2 => allowed[k][g] \subseteq allowed[Parent[k]][g]
    BY DEF TreeOK
  <1>2. ids \in SUBSET AllIds BY DEF AllIds
  <1>3. allowed' \in [Nodes -> [Files -> SUBSET AllIds]] /\ allowed'[n][f] = ids
    BY <1>1, <1>2
  <1>4. \A k \in Nodes, g \in Files : k # n \/ g # f => allowed'[k][g] = allowed[k][g] BY <1>1
  <1>5. allowed'[Root] = Ids BY <1>1
  <1>6. n \in dirs BY DEF Accepts
  <1>7. \A k \in Nodes, g \in Files : allowed'[k][g] \subseteq IF k \in dirs THEN Ids[g] ELSE {}
    BY <1>1, <1>3, <1>4, <1>6
  <1>8. ASSUME NEW k \in Nodes \ {Root}, NEW g \in Files, ~v2
        PROVE  allowed'[k][g] \subseteq allowed'[Parent[k]][g]
    <2>1. Parent[k] \in Nodes /\ Parent[k] # k BY Acyclic, TreeAssumption
    <2>2. allowed[k][g] \subseteq allowed[Parent[k]][g] BY <1>1, <1>8
    <2>3. CASE g # f BY <1>4, <2>1, <2>2, <2>3
    <2>4. CASE g = f /\ k = n
      <3>1. ids \subseteq allowed[Parent[n]][f] BY <1>8 DEF Accepts
      <3>2. QED BY <1>3, <1>4, <2>1, <2>4, <3>1
    <2>5. CASE g = f /\ Parent[k] = n
      <3>1. allowed[k][f] \subseteq ids BY <1>8, <2>5 DEF Accepts, Children
      <3>2. QED BY <1>3, <1>4, <2>1, <2>5, <3>1
    <2>6. CASE k # n /\ Parent[k] # n BY <1>4, <2>1, <2>2, <2>6
    <2>7. QED BY <2>3, <2>4, <2>5, <2>6
  <1>9. ASSUME NEW k \in tasks PROVE Usable(k)'
    <2>1. k \in dirs /\ (v2 \/ \A g \in Files : allowed[k][g] # {}) BY <1>1 DEF Usable
    <2>2. ASSUME ~v2, NEW g \in Files PROVE allowed'[k][g] # {}
      <3>1. CASE k = n /\ g = f BY <1>3, <2>2, <3>1 DEF Accepts
      <3>2. CASE k # n \/ g # f BY <1>1, <1>4, <2>1, <2>2, <3>2
      <3>3. QED BY <3>1, <3>2
    <2>3. QED BY <2>1, <2>2 DEF Usable
  <1>10. TreeOK' BY <1>3, <1>5, <1>7, <1>8, <1>9 DEF TreeOK
  <1>11. QED BY <1>3, <1>4, <1>10

LEMMA MkdirTree ==
  ASSUME TreeOK, NEW n \in Nodes \ {Root}, Parent[n] \in dirs, dirs' = dirs \union {n},
         UNCHANGED <<v2, allowed, tasks>>
  PROVE  TreeOK'
  <1>1. \A k \in tasks : Usable(k) /\ Usable(k)' BY DEF TreeOK, Usable
  <1>2. QED BY <1>1 DEF TreeOK

LEMMA RemovedTree ==
  ASSUME TreeOK, NEW n \in Nodes \ {Root}, Removable(n), Removed(n)
  PROVE  TreeOK'
  <1>1. /\ n \in dirs \ tasks /\ \A k \in Nodes \ {Root} : Parent[k] = n => k \notin dirs
        /\ dirs' = dirs \ {n} /\ allowed' = [allowed EXCEPT ![n] = Empty]
        /\ UNCHANGED <<v2, leaf, tasks>>
    BY DEF Removable, Removed, Children
  <1>2. allowed \in [Nodes -> [Files -> SUBSET AllIds]] /\ allowed[Root] = Ids BY DEF TreeOK
  <1>3. Empty \in [Files -> SUBSET AllIds] BY DEF Empty
  <1>4. /\ allowed' \in [Nodes -> [Files -> SUBSET AllIds]] /\ allowed'[Root] = Ids
        /\ \A k \in Nodes \ {n}, f \in Files : allowed'[k][f] = allowed[k][f]
        /\ \A f \in Files : allowed'[n][f] = {}
    BY <1>1, <1>2, <1>3 DEF Empty
  <1>5. \A k \in Nodes, f \in Files : allowed'[k][f] \subseteq IF k \in dirs' THEN Ids[f] ELSE {}
    BY <1>1, <1>4 DEF TreeOK
  <1>6. ASSUME NEW k \in Nodes \ {Root}, NEW f \in Files, ~v2
        PROVE  allowed'[k][f] \subseteq allowed'[Parent[k]][f]
    <2>1. Parent[k] \in Nodes BY TreeAssumption
    <2>2. CASE k = n BY <1>4, <2>2
    <2>3. CASE Parent[k] = n
      <3>1. allowed[k][f] = {} BY <1>1, <2>3 DEF TreeOK
      <3>2. k # n BY <2>3, Acyclic
      <3>3. QED BY <1>4, <3>1, <3>2
    <2>4. CASE k # n /\ Parent[k] # n BY <1>4, <1>6, <2>1, <2>4 DEF TreeOK
    <2>5. QED BY <2>2, <2>3, <2>4
  <1>7. ASSUME NEW k \in tasks' PROVE Usable(k)'
    <2>1. k \in Nodes \ {n} /\ Usable(k) BY <1>1, <1>7 DEF TreeOK, Usable
    <2>2. QED BY <1>1, <1>4, <2>1 DEF Usable
  <1>8. Root \in dirs' /\ dirs' \subseteq Nodes /\ \A k \in dirs' \ {Root} : Parent[k] \in dirs'
    BY <1>1 DEF TreeOK
  <1>9. QED BY <1>1, <1>4, <1>5, <1>6, <1>7, <1>8 DEF TreeOK

\* A step of a handle that leaves the tree alone.
LEMMA LocalType ==
  ASSUME TypeInv, NEW c \in Clients, NEW r, Good(c, r), Local(c, r)
  PROVE  /\ TypeInv' /\ m'[c] = r /\ UNCHANGED <<v2, mix, leaf, dirs, allowed, flags, tasks>>
         /\ \A k \in Clients \ {c} : m'[k] = m[k]
  <1>1. Becomes(c, r) /\ UNCHANGED <<v2, mix, leaf, dirs, allowed, flags, tasks>> BY DEF Local, tree
  <1>2. CallsOK' /\ m'[c] = r BY <1>1, Goes DEF TypeInv
  <1>3. TreeOK' BY <1>1, SameTree DEF TypeInv
  <1>4. \A k \in Clients \ {c} : m'[k] = m[k] BY <1>1 DEF Becomes, TypeInv, CallsOK
  <1>5. QED BY <1>1, <1>2, <1>3, <1>4 DEF TypeInv

\* A copy that is not upset fills a directory.
Fills ==
  \E d \in Clients :
    /\ m[d].pc = "fill" /\ m[d].seen # "upset"
    /\ allowed' = [allowed EXCEPT ![Last(m[d].empties)][m[d].file] = m[d].value]

\* What the step of another handle is to k: nothing on its way changes but by a
\* copy, or it is upset; and nothing at all changes, or it has seen it.
Watches(k) ==
  /\ \E s \in {"still", "grown", "upset"} : m'[k] = [m[k] EXCEPT !.seen = s]
  /\ m'[k].pc # "idle" /\ m'[k].seen # "upset" =>
       /\ m[k].seen # "upset"
       /\ dirs \subseteq dirs' /\ flags' = flags
       /\ Fills \/ \A n \in On(leaf[k]) : allowed'[n] = allowed[n]
  /\ m'[k].pc # "idle" /\ m'[k].seen = "still" => m'[k] = m[k] /\ UNCHANGED <<dirs, allowed, flags>>

LEMMA SameWatches ==
  ASSUME TypeInv, NEW k \in Clients, m'[k] = m[k], UNCHANGED <<dirs, allowed, flags>>
  PROVE  Watches(k)
  <1>1. m[k] \in Call BY DEF TypeInv, CallsOK
  <1>2. m[k].seen \in {"still", "grown", "upset"} /\ [m[k] EXCEPT !.seen = m[k].seen] = m[k]
    BY <1>1 DEF Call
  <1>3. QED BY <1>2 DEF Watches

LEMMA Noticed ==
  ASSUME TypeInv, NEW c \in Clients, NEW r, NEW U, Good(c, r), BecomesSeen(c, r, U),
         UNCHANGED <<v2, leaf>>, NEW k \in Clients \ {c}
  PROVE  /\ \E s \in {"still", "grown", "upset"} : m'[k] = [m[k] EXCEPT !.seen = s]
         /\ m'[k].pc # "idle" => m'[k].seen # "still"
         /\ m'[k].pc # "idle" /\ m'[k].seen # "upset" => m[k].seen # "upset" /\ leaf[k] \notin U
  <1>1. \E s \in {"still", "grown", "upset"} : m'[k] = [m[k] EXCEPT !.seen = s] BY Goes DEF TypeInv
  <1>2. m[k] \in Call /\ m \in [Clients -> Call] BY DEF TypeInv, CallsOK
  <1>3. m' = [Notice(c, U) EXCEPT ![c] = r] BY DEF BecomesSeen
  <1>4. m'[k] = IF m[k].pc = "idle" \/ m[k].seen = "upset" THEN m[k]
                ELSE [m[k] EXCEPT !.seen = IF leaf[k] \in U THEN "upset" ELSE "grown"]
    BY <1>3 DEF Notice
  <1>5. CASE m[k].pc = "idle" \/ m[k].seen = "upset"
    <2>1. m'[k] = m[k] BY <1>4, <1>5
    <2>2. QED BY <1>1, <1>5, <2>1
  <1>6. CASE ~(m[k].pc = "idle" \/ m[k].seen = "upset")
    <2> DEFINE s == IF leaf[k] \in U THEN "upset" ELSE "grown"
    <2>1. m'[k] = [m[k] EXCEPT !.seen = s] BY <1>4, <1>6
    <2>2. m'[k].seen = s BY <1>2, <2>1 DEF Call
    <2>3. QED BY <1>1, <1>6, <2>2
  <1>7. QED BY <1>5, <1>6

\* A write of c that the kernel takes.
LEMMA PutType ==
  ASSUME TypeInv, NEW c \in Clients, NEW n \in Nodes \ {Root}, NEW f \in Files,
         NEW ids \in SUBSET Ids[f], NEW r, Good(c, r), Accepts(n, f, ids), Put(c, n, f, ids, r),
         m[c].pc = "fill" /\ m[c].seen # "upset" =>
           n = Last(m[c].empties) /\ f = m[c].file /\ ids = m[c].value
  PROVE  /\ TypeInv' /\ m'[c] = r /\ UNCHANGED <<v2, mix, leaf, dirs, flags, tasks>>
         /\ allowed' = [allowed EXCEPT ![n][f] = ids]
         /\ allowed'[n][f] = ids
         /\ \A k \in Nodes, g \in Files : k # n \/ g # f => allowed'[k][g] = allowed[k][g]
         /\ \A k \in Clients \ {c} : Watches(k)
  <1> DEFINE U == IF m[c].pc = "fill" /\ m[c].seen # "upset" THEN {} ELSE Under(n)
  <1>1. /\ allowed' = [allowed EXCEPT ![n][f] = ids] /\ BecomesSeen(c, r, U)
        /\ UNCHANGED <<v2, mix, leaf, dirs, flags, tasks>>
    BY DEF Put, At
  <1>2. CallsOK' /\ m'[c] = r BY <1>1, Goes DEF TypeInv
  <1>3. /\ TreeOK' /\ allowed'[n][f] = ids
        /\ \A k \in Nodes, g \in Files : k # n \/ g # f => allowed'[k][g] = allowed[k][g]
    BY <1>1, PutTree, ZenonT(40) DEF TypeInv
  <1>4. ASSUME NEW k \in Clients \ {c} PROVE Watches(k)
    <2>1. /\ \E s \in {"still", "grown", "upset"} : m'[k] = [m[k] EXCEPT !.seen = s]
          /\ m'[k].pc # "idle" => m'[k].seen # "still"
          /\ m'[k].pc # "idle" /\ m'[k].seen # "upset" => m[k].seen # "upset" /\ leaf[k] \notin U
      BY <1>1, Noticed
    <2>2. ASSUME leaf[k] \notin U PROVE Fills \/ \A j \in On(leaf[k]) : allowed'[j] = allowed[j]
      <3>1. CASE m[c].pc = "fill" /\ m[c].seen # "upset" BY <1>1, <3>1 DEF Fills
      <3>2. CASE ~(m[c].pc = "fill" /\ m[c].seen # "upset")
        <4>1. leaf[k] \notin Under(n) BY <2>2, <3>2
        <4>2. n \notin On(leaf[k]) BY <4>1 DEF Under, TypeInv
        <4>3. \A j \in Nodes : j # n => allowed'[j] = allowed[j]
          BY <1>1 DEF TypeInv, TreeOK
        <4>4. QED BY <4>2, <4>3, OnDef DEF TypeInv
      <3>3. QED BY <3>1, <3>2
    <2>3. dirs \subseteq dirs' /\ flags' = flags BY <1>1
    <2> HIDE DEF U
    <2>4. QED BY <2>1, <2>2, <2>3 DEF Watches
  <1>5. TypeInv' BY <1>1, <1>2, <1>3 DEF TypeInv
  <1>6. QED BY <1>1, <1>2, <1>3, <1>4, <1>5

\* A step of c that leaves the tree and the others alone.
Quiet(c) == /\ UNCHANGED <<v2, mix, leaf, dirs, allowed, flags>>
            /\ \A k \in Clients \ {c} : m'[k] = m[k]

\* A call that begins.
Begins(c) ==
  /\ m[c].pc = "idle" /\ Quiet(c)
  /\ m'[c].pc \in {"idle", "mkdir", "write", "rmdir"}
  /\ m'[c].pc = "mkdir" => ~m'[c].down
  /\ m'[c].pc = "mkdir" /\ m'[c].op = "topdown" =>
       /\ m'[c].level = 1
       /\ m'[c].widens => \A n \in Under(Levels(c)[1]) : allowed[n]["cpus"] \subseteq m'[c].want

LEMMA IdleType == /\ Idle \in Call /\ Idle.pc = "idle" /\ Idle.level = 1
                  /\ Idle.seen = "still" /\ ~Idle.down
  <1>1. /\ Root \in Nodes /\ << >> \in Seq(Nodes) /\ "cpus" \in Files /\ "new" \in Ops /\ 1 \in Nat \ {0}
        /\ {} \in SUBSET UNION {Ids[f] : f \in Files} /\ {} \in Wants \union {{}}
    BY TreeAssumption DEF Files, Ops
  <1>2. QED BY <1>1 DEF Idle, Call

LEMMA NewType == ASSUME TypeInv, NEW c \in Clients, New(c) PROVE TypeInv' /\ Begins(c)
  <1> DEFINE r == [Idle EXCEPT !.op = "new"]
             q == Creating(c, r, Len(Levels(c)))
  <1>1. m[c].pc = "idle" /\ Local(c, q) BY DEF New, Start, At, Levels
  <1>2. r \in Call /\ r.op = "new"
    <2>1. "new" \in Ops BY DEF Ops
    <2>2. QED BY <2>1, IdleType DEF Call
  <1>3. Len(Levels(c)) \in 1 .. Len(Levels(c)) BY LevelType
  <1> HIDE DEF r
  <1>4. Good(c, q) /\ q.pc = "mkdir" /\ ~q.down /\ q.op = "new" BY <1>2, <1>3, CreatingGood
  <1> HIDE DEF q
  <1>5. QED BY <1>1, <1>4, LocalType DEF Begins, Quiet

LEMMA WritesType ==
  ASSUME TypeInv, NEW c \in Clients, NEW op \in {"set", "apply"}, NEW want \in Wants, Writes(c, op, want)
  PROVE  TypeInv' /\ Begins(c)
  <1> DEFINE q == [Idle EXCEPT !.op = op, !.pc = "write", !.want = want]
  <1>2. m[c].pc = "idle" /\ Local(c, q) BY DEF Writes, Start, At
  <1>3. op \in Ops BY DEF Ops
  <1>4. /\ q \in Call /\ q.pc = "write" /\ q.op = op /\ q.want = want /\ q.level = 1
    BY <1>3, IdleType DEF Call
  <1> HIDE DEF q
  <1>5. CallIs(c, q) BY <1>4, LevelType DEF CallIs
  <1>6. Good(c, q) BY <1>4, <1>5 DEF Good, ClimbIs, Copying
  <1>7. QED BY <1>2, <1>4, <1>6, LocalType DEF Begins, Quiet

LEMMA TopdownType ==
  ASSUME TypeInv, NEW c \in Clients, NEW want \in Wants, enable_cpus_topdown(c, want)
  PROVE  TypeInv' /\ Begins(c)
  <1> DEFINE wide == \A n \in Under(Path[leaf[c]][1]) : allowed[n]["cpus"] \subseteq want
             p == [Idle EXCEPT !.op = "topdown", !.want = want, !.widens = wide]
             q == Creating(c, p, 1)
  <1>2. PathStack(c).first = 1 BY DEF PathStack
  <1>3. m[c].pc = "idle" /\ Local(c, q) BY <1>2 DEF enable_cpus_topdown, Start, At
  <1>4. "topdown" \in Ops BY DEF Ops
  <1>5. wide \in BOOLEAN OBVIOUS
  <1> HIDE DEF wide
  <1>6. p \in Call /\ p.op = "topdown" /\ p.want = want /\ p.widens = wide BY <1>4, <1>5, IdleType DEF Call
  <1> HIDE DEF p
  <1>7. 1 \in 1 .. Len(Levels(c)) BY LevelType
  <1>8. /\ Good(c, q) /\ q.pc = "mkdir" /\ q.level = 1 /\ ~q.down
        /\ q.op = "topdown" /\ q.want = want /\ q.widens = wide
    BY <1>6, <1>7, CreatingGood
  <1> HIDE DEF q
  <1>9. m'[c] = q /\ TypeInv' /\ Quiet(c) BY <1>3, <1>8, LocalType DEF Quiet
  <1>10. wide => \A n \in Under(Levels(c)[1]) : allowed[n]["cpus"] \subseteq want BY DEF wide, Levels
  <1>11. QED BY <1>3, <1>8, <1>9, <1>10 DEF Begins

LEMMA DeleteType == ASSUME TypeInv, NEW c \in Clients, Delete(c) PROVE TypeInv' /\ Begins(c)
  <1> DEFINE q == [Idle EXCEPT !.op = "delete", !.pc = "rmdir"]
  <1>2. m[c].pc = "idle" /\ Local(c, q) BY DEF Delete, Start, At
  <1>3. "delete" \in Ops BY DEF Ops
  <1>4. /\ q \in Call /\ q.pc = "rmdir" /\ q.op = "delete" /\ q.level = 1
    BY <1>3, IdleType DEF Call
  <1> HIDE DEF q
  <1>5. CallIs(c, q) BY <1>4, LevelType DEF CallIs
  <1>6. Good(c, q) BY <1>4, <1>5 DEF Good, ClimbIs, Copying
  <1>7. QED BY <1>2, <1>4, <1>6, LocalType DEF Begins, Quiet

LEMMA AttachType == ASSUME TypeInv, NEW c \in Clients, Attach(c) PROVE TypeInv' /\ Begins(c)
  <1> DEFINE x == IF Usable(leaf[c]) THEN "ok" ELSE "err"
             q == [Idle EXCEPT !.op = "attach", !.res = x]
  <1>1. /\ m[c].pc = "idle" /\ Becomes(c, q)
        /\ UNCHANGED <<v2, mix, leaf, dirs, allowed, flags>>
        /\ tasks' = IF Usable(leaf[c]) THEN tasks \union {leaf[c]} ELSE tasks
    BY DEF Attach, Start, At
  <1>2. x \in {"none", "ok", "err"} /\ "attach" \in Ops BY DEF Ops
  <1> HIDE DEF x
  <1>3. Good(c, q) /\ q.pc = "idle" BY <1>2, IdleGood DEF Idle
  <1> HIDE DEF q
  <1>4. CallsOK' /\ m'[c] = q BY <1>1, <1>3, Goes DEF TypeInv
  <1>5. \A k \in tasks' : Usable(k)' BY <1>1 DEF TypeInv, TreeOK, Usable
  <1>6. TreeOK' BY <1>1, <1>5 DEF TypeInv, TreeOK
  <1>7. \A k \in Clients \ {c} : m'[k] = m[k] BY <1>1 DEF Becomes, TypeInv, CallsOK
  <1>8. QED BY <1>1, <1>3, <1>4, <1>6, <1>7 DEF TypeInv, Begins, Quiet

\* The flags are nothing that the copies and the setters of the sets read.
LEMMA FlagType ==
  ASSUME TypeInv, NEW c \in Clients, SetFlag(c)
  PROVE  /\ TypeInv' /\ m'[c].pc = "idle" /\ UNCHANGED <<v2, mix, leaf, dirs, allowed>>
         /\ m[c].pc = "idle" /\ \A k \in Clients \ {c} : Watches(k)
  <1>1. "flag" \in Ops BY DEF Ops
  <1>2. \A x \in {"ok", "err"} : /\ Good(c, [Idle EXCEPT !.op = "flag", !.res = x])
                                 /\ [Idle EXCEPT !.op = "flag", !.res = x].pc = "idle"
    BY <1>1, IdleGood DEF Idle
  <1>3. /\ m[c].pc = "idle"
        /\ \/ Local(c, [Idle EXCEPT !.op = "flag", !.res = "err"])
           \/ /\ BecomesSeen(c, [Idle EXCEPT !.op = "flag", !.res = "ok"], Nodes)
              /\ UNCHANGED <<v2, mix, leaf, dirs, allowed, tasks>>
    BY DEF SetFlag, set_cpu_exclusive, set_mem_exclusive, set_hardwall, set_load_balancing,
           set_memory_migration, set_memory_spread_page, set_memory_spread_slab,
           set_rebalance_relax_domain_level, set_enable_memory_pressure, WriteFlag, Start, At
  <1> DEFINE q(x) == [Idle EXCEPT !.op = "flag", !.res = x]
  <1> HIDE DEF q
  <1>4. CASE Local(c, q("err"))
    <2>1. Good(c, q("err")) /\ q("err").pc = "idle" BY <1>2 DEF q
    <2>2. /\ TypeInv' /\ m'[c] = q("err") /\ UNCHANGED <<v2, mix, leaf, dirs, allowed, flags>>
          /\ \A k \in Clients \ {c} : m'[k] = m[k]
      BY <1>4, <2>1, LocalType
    <2>3. QED BY <1>3, <2>1, <2>2, SameWatches
  <1>5. CASE BecomesSeen(c, q("ok"), Nodes) /\ UNCHANGED <<v2, mix, leaf, dirs, allowed, tasks>>
    <2>1. Good(c, q("ok")) /\ q("ok").pc = "idle" BY <1>2 DEF q
    <2>2. CallsOK' /\ m'[c] = q("ok") BY <1>5, <2>1, Goes DEF TypeInv
    <2>3. TreeOK' BY <1>5, SameTree DEF TypeInv
    <2>4. ASSUME NEW k \in Clients \ {c} PROVE Watches(k)
      <3>1. leaf[k] \in Nodes BY DEF TypeInv
      <3>2. QED BY <1>5, <2>1, <3>1, Noticed DEF Watches
    <2>5. QED BY <1>3, <1>5, <2>1, <2>2, <2>3, <2>4 DEF TypeInv
  <1>6. QED BY <1>3, <1>4, <1>5 DEF q

\* A call that goes on keeps what it is for.
Carries(q, r) == /\ q.op = r.op /\ q.level = r.level /\ q.want = r.want
                 /\ q.seen = r.seen /\ q.widens = r.widens

\* A call in progress.
LEMMA CallFacts ==
  ASSUME TypeInv, NEW c \in Clients
  PROVE  /\ m[c] \in Call /\ CallIs(c, m[c]) /\ ClimbIs(c, m[c]) /\ Target(c) = Goal(c, m[c])
         /\ Target(c) \in Nodes \ {Root} /\ Target(c) \in On(leaf[c])
         /\ On(Target(c)) \subseteq On(leaf[c]) /\ On(Target(c)) \subseteq Nodes \ {Root}
         /\ m[c].level \in 1 .. Len(Levels(c))
         /\ On(leaf[c]) \subseteq Nodes \ {Root}
  <1>1. /\ m[c] \in Call /\ CallIs(c, m[c]) /\ ClimbIs(c, m[c]) BY DEF TypeInv, CallsOK, Good
  <1>2. m[c].level \in Nat \ {0} /\ m[c].level <= Len(Levels(c)) BY <1>1 DEF Call, CallIs
  <1>3. Target(c) = Goal(c, m[c]) BY DEF Target, Goal
  <1>4. leaf[c] \in Nodes \ {Root} /\ Len(Levels(c)) \in Nat BY LevelType
  <1>5. QED BY <1>1, <1>2, <1>3, <1>4, GoalType, OnDef

\* What is made of a call when a directory is there.
LEMMA MadeGood ==
  ASSUME TypeInv, NEW c \in Clients, m[c].pc = "mkdir"
  PROVE  LET n == m[c].dir
             q == IF n # m[c].goal THEN [m[c] EXCEPT !.dir = Toward(n, m[c].goal), !.down = TRUE]
                  ELSE IF n # Target(c)
                  THEN [m[c] EXCEPT !.dir = Toward(n, Target(c)), !.goal = Toward(n, Target(c)),
                                    !.down = FALSE]
                  ELSE IF v2 THEN Created(c)
                  ELSE [m[c] EXCEPT !.pc = "find", !.file = "cpus", !.empties = << >>]
         IN  /\ Good(c, q)
             /\ \/ Carries(q, m[c]) /\ q.pc = "mkdir" /\ (q.down => Parent[q.dir] = n)
                \/ /\ Carries(q, m[c]) /\ n = Target(c) /\ q.pc = "find" /\ q.dir = n
                   /\ q.empties = << >> /\ q.file = "cpus"
                \/ Carries(q, m[c]) /\ n = Target(c) /\ q.pc = "level"
                \/ /\ m[c].op = "new" /\ n = Target(c) /\ v2
                   /\ q = Done(c, "ok")
  <1> DEFINE n == m[c].dir
  <1>1. m[c].goal \in On(Target(c)) /\ n \in On(m[c].goal) /\ m[c].op \in {"new", "topdown"}
    BY CallFacts DEF CallIs
  <1>2. m[c].goal \in Nodes \ {Root} /\ n \in Nodes \ {Root} /\ n \in On(Target(c))
    BY <1>1, CallFacts, OnDef, OnTrans
  <1>3. m[c] \in Call /\ CallIs(c, m[c]) BY CallFacts
  <1>4. CASE n # m[c].goal
    <2> DEFINE t == Toward(n, m[c].goal)
               q == [m[c] EXCEPT !.dir = t, !.down = TRUE]
    <2>1. t \in On(m[c].goal) /\ Parent[t] = n /\ t \in Nodes BY <1>1, <1>2, <1>4, TowardDef, OnDef
    <2> HIDE DEF t
    <2>2. q \in Call BY <1>3, <2>1 DEF Call
    <2>3. Carries(q, m[c]) /\ q.pc = "mkdir" /\ q.dir = t /\ q.goal = m[c].goal
      BY <1>3 DEF Call, Carries
    <2> HIDE DEF q
    <2>4. Goal(c, q) = Goal(c, m[c]) BY <2>3 DEF Goal, Carries
    <2>5. CallIs(c, q) BY <1>3, <2>1, <2>3, <2>4 DEF CallIs, Carries
    <2>6. Good(c, q) BY <2>2, <2>3, <2>5 DEF Good, ClimbIs, Copying
    <2>7. QED BY <1>4, <2>1, <2>3, <2>6 DEF q, t
  <1>5. CASE n = m[c].goal /\ n # Target(c)
    <2> DEFINE t == Toward(n, Target(c))
               q == [m[c] EXCEPT !.dir = t, !.goal = t, !.down = FALSE]
    <2>1. t \in On(Target(c)) /\ t \in Nodes \ {Root} BY <1>2, <1>5, TowardDef, CallFacts
    <2>2. t \in On(t) BY <2>1, OnDef
    <2> HIDE DEF t
    <2>3. q \in Call BY <1>3, <2>1 DEF Call
    <2>4. Carries(q, m[c]) /\ q.pc = "mkdir" /\ q.dir = t /\ q.goal = t /\ ~q.down
      BY <1>3 DEF Call, Carries
    <2> HIDE DEF q
    <2>5. Goal(c, q) = Target(c) BY <2>4 DEF Goal, Target, Carries
    <2>6. CallIs(c, q) BY <1>3, <2>1, <2>2, <2>4, <2>5 DEF CallIs, Carries
    <2>7. Good(c, q) BY <2>3, <2>4, <2>6 DEF Good, ClimbIs, Copying
    <2>8. QED BY <1>5, <2>4, <2>7 DEF q, t
  <1>6. CASE n = m[c].goal /\ n = Target(c) /\ v2
    <2>1. CASE m[c].op = "topdown"
      <3>1. /\ Good(c, Created(c)) /\ Created(c) = [m[c] EXCEPT !.pc = "level"] BY <2>1, CreatedGood
      <3>2. Created(c).pc = "level" /\ Carries(Created(c), m[c]) BY <1>3, <3>1 DEF Call, Carries
      <3>3. QED BY <1>6, <3>1, <3>2
    <2>2. CASE m[c].op = "new"
      <3>1. Good(c, Created(c)) /\ Created(c) = Done(c, "ok") BY <2>2, CreatedGood
      <3>2. QED BY <1>6, <2>2, <3>1
    <2>3. QED BY <1>1, <2>1, <2>2
  <1>7. CASE n = m[c].goal /\ n = Target(c) /\ ~v2
    <2> DEFINE q == [m[c] EXCEPT !.pc = "find", !.file = "cpus", !.empties = << >>]
    <2>1. << >> \in Seq(Nodes) /\ << >> \in Seq(On(Target(c))) /\ "cpus" \in Files BY DEF Files
    <2>2. q \in Call BY <1>3, <2>1 DEF Call
    <2>3. Carries(q, m[c]) /\ q.pc = "find" /\ q.dir = n /\ q.empties = << >> /\ q.file = "cpus"
      BY <1>3 DEF Call, Carries
    <2> HIDE DEF q
    <2>4. Goal(c, q) = Target(c) /\ Len(q.empties) = 0 BY <2>3 DEF Goal, Target, Carries
    <2>5. CallIs(c, q) BY <1>1, <1>3, <2>3 DEF CallIs, Carries
    <2>6. ClimbIs(c, q) BY <1>7, <2>1, <2>3, <2>4 DEF ClimbIs
    <2>7. Good(c, q) BY <2>2, <2>5, <2>6 DEF Good
    <2>8. QED BY <1>7, <2>3, <2>7 DEF q
  <1>8. QED BY <1>4, <1>5, <1>6, <1>7

LEMMA MkdirType ==
  ASSUME TypeInv, NEW c \in Clients, Mkdir(c)
  PROVE  /\ TypeInv' /\ UNCHANGED <<v2, mix, leaf, allowed, flags>> /\ dirs \subseteq dirs'
         /\ \A k \in Clients \ {c} : Watches(k)
         /\ m[c].pc = "mkdir"
         /\ \/ m[c].down /\ Parent[m[c].dir] \notin dirs /\ m'[c] = Done(c, "err")
            \/ m[c].op = "new" /\ Target(c) \in dirs' /\ v2 /\ m'[c] = Done(c, "ok")
            \/ /\ Carries(m'[c], m[c])
               /\ \/ m'[c].pc = "mkdir" /\ (m'[c].down => Parent[m'[c].dir] \in dirs')
                  \/ /\ Target(c) \in dirs' /\ m'[c].pc = "find" /\ m'[c].dir = Target(c)
                     /\ m'[c].empties = << >> /\ m'[c].file = "cpus"
                  \/ Target(c) \in dirs' /\ m'[c].pc = "level"
  <1> DEFINE n == m[c].dir
             q == IF n # m[c].goal THEN [m[c] EXCEPT !.dir = Toward(n, m[c].goal), !.down = TRUE]
                  ELSE IF n # Target(c)
                  THEN [m[c] EXCEPT !.dir = Toward(n, Target(c)), !.goal = Toward(n, Target(c)),
                                    !.down = FALSE]
                  ELSE IF v2 THEN Created(c)
                  ELSE [m[c] EXCEPT !.pc = "find", !.file = "cpus", !.empties = << >>]
             p == IF m[c].down THEN Done(c, "err") ELSE [m[c] EXCEPT !.dir = Parent[n]]
             Made == \/ Carries(q, m[c]) /\ q.pc = "mkdir" /\ (q.down => Parent[q.dir] = n)
                     \/ /\ Carries(q, m[c]) /\ n = Target(c) /\ q.pc = "find" /\ q.dir = n
                        /\ q.empties = << >> /\ q.file = "cpus"
                     \/ Carries(q, m[c]) /\ n = Target(c) /\ q.pc = "level"
                     \/ /\ m[c].op = "new" /\ n = Target(c) /\ v2
                        /\ q = Done(c, "ok")
  <1>1. m[c].pc = "mkdir" BY DEF Mkdir, At
  <1>2. Good(c, q) /\ Made BY <1>1, MadeGood
  <1>3. \/ n \in dirs /\ Local(c, q)
        \/ /\ n \notin dirs /\ Parent[n] \in dirs /\ dirs' = dirs \union {n}
           /\ BecomesSeen(c, q, {}) /\ UNCHANGED <<v2, mix, leaf, allowed, flags, tasks>>
        \/ n \notin dirs /\ Parent[n] \notin dirs /\ Local(c, p)
    BY DEF Mkdir
  <1>4. m[c].goal \in On(Target(c)) /\ n \in On(m[c].goal) BY <1>1, CallFacts DEF CallIs
  <1>5. m[c].goal \in Nodes \ {Root} /\ n \in Nodes \ {Root} BY <1>4, CallFacts, OnDef
  <1> HIDE DEF q
  <1>6. CASE n \in dirs /\ Local(c, q)
    <2>1. /\ TypeInv' /\ m'[c] = q /\ UNCHANGED <<v2, mix, leaf, dirs, allowed, flags, tasks>>
          /\ \A k \in Clients \ {c} : Watches(k)
      BY <1>2, <1>6, LocalType, SameWatches
    <2>2. QED BY <1>1, <1>2, <1>6, <2>1
  <1>7. CASE /\ n \notin dirs /\ Parent[n] \in dirs /\ dirs' = dirs \union {n}
             /\ BecomesSeen(c, q, {}) /\ UNCHANGED <<v2, mix, leaf, allowed, flags, tasks>>
    <2>1. CallsOK' /\ m'[c] = q BY <1>2, <1>7, Goes DEF TypeInv
    <2>2. TreeOK' BY <1>5, <1>7, MkdirTree DEF TypeInv
    <2>3. TypeInv' BY <1>7, <2>1, <2>2 DEF TypeInv
    <2>4. \A k \in Clients \ {c} : Watches(k) BY <1>2, <1>7, Noticed DEF Watches
    <2>5. QED BY <1>1, <1>2, <1>7, <2>1, <2>3, <2>4
  <1>8. CASE n \notin dirs /\ Parent[n] \notin dirs /\ Local(c, p)
    <2>1. Good(c, p) /\ (~m[c].down => Carries(p, m[c]) /\ p.pc = "mkdir" /\ ~p.down)
      <3>1. CASE m[c].down BY <3>1, DoneGood
      <3>2. CASE ~m[c].down
        <4>1. p = [m[c] EXCEPT !.dir = Parent[n]] BY <3>2
        <4>2. Parent[n] # Root BY <1>8 DEF TypeInv, TreeOK
        <4>3. Parent[n] \in On(m[c].goal) /\ Parent[n] \in Nodes BY <1>4, <1>5, <4>2, OnParent, OnDef
        <4>4. m[c] \in Call /\ CallIs(c, m[c]) BY CallFacts
        <4> HIDE DEF p
        <4>5. p \in Call BY <4>1, <4>3, <4>4 DEF Call
        <4>6. /\ Carries(p, m[c]) /\ p.pc = "mkdir" /\ ~p.down /\ p.dir = Parent[n] /\ p.goal = m[c].goal
          BY <1>1, <3>2, <4>1, <4>4 DEF Call, Carries
        <4>7. Goal(c, p) = Goal(c, m[c]) BY <4>6 DEF Goal, Carries
        <4>8. CallIs(c, p) BY <1>1, <4>3, <4>4, <4>6, <4>7 DEF CallIs, Carries
        <4>9. QED BY <4>5, <4>6, <4>8 DEF Good, ClimbIs, Copying
      <3>3. QED BY <3>1, <3>2
    <2> HIDE DEF p
    <2>2. /\ TypeInv' /\ m'[c] = p /\ UNCHANGED <<v2, mix, leaf, dirs, allowed, flags, tasks>>
          /\ \A k \in Clients \ {c} : Watches(k)
      BY <1>8, <2>1, LocalType, SameWatches
    <2>3. m[c].down => p = Done(c, "err") BY DEF p
    <2>4. QED BY <1>1, <1>8, <2>1, <2>2, <2>3
  <1>9. QED BY <1>3, <1>6, <1>7, <1>8

\* The search goes up to the first directory that is not empty, at the latest to
\* the root.
LEMMA FindType ==
  ASSUME TypeInv, NEW c \in Clients, find_no_empty_parent(c)
  PROVE  LET n == m[c].dir
             ids == allowed[n][m[c].file]
         IN  /\ TypeInv' /\ Quiet(c) /\ m[c].pc = "find" /\ ~v2
             /\ \/ (n \notin dirs \/ (ids # {} /\ m[c].empties = << >>)) /\ m'[c] = Copied(c)
                \/ /\ Carries(m'[c], m[c]) /\ n \in dirs /\ ids = {} /\ n \in On(Target(c))
                   /\ m'[c].pc = "find" /\ m'[c].dir = Parent[n] /\ m'[c].file = m[c].file
                   /\ m'[c].empties = Append(m[c].empties, n)
                \/ /\ Carries(m'[c], m[c]) /\ n \in dirs /\ ids # {} /\ m[c].empties # << >>
                   /\ m'[c].pc = "fill" /\ m'[c].value = ids /\ m'[c].file = m[c].file
                   /\ m'[c].empties = m[c].empties
  <1> DEFINE n == m[c].dir
             ids == allowed[n][m[c].file]
             p == [m[c] EXCEPT !.dir = Parent[n], !.empties = Append(m[c].empties, n)]
             q == [m[c] EXCEPT !.pc = "fill", !.value = ids]
  <1>1. m[c].pc = "find" /\ Local(c, IF n \notin dirs THEN Copied(c)
                                     ELSE IF ids = {} THEN p
                                     ELSE IF m[c].empties = << >> THEN Copied(c) ELSE q)
    BY DEF find_no_empty_parent, At
  <1>2. m[c] \in Call /\ CallIs(c, m[c]) /\ Copying(m[c]) BY <1>1, CallFacts DEF Copying
  <1> DEFINE es == m[c].empties
  <1>3. /\ ~v2 /\ es \in Seq(On(Target(c))) /\ (es # << >> => es[1] = Target(c))
        /\ \A i \in 1 .. Len(es) - 1 : Parent[es[i]] = es[i + 1]
        /\ n = IF es = << >> THEN Target(c) ELSE Parent[Last(es)]
    BY <1>1, <1>2, CallFacts DEF ClimbIs
  <1>4. /\ Target(c) \in On(Target(c)) /\ Target(c) \in Nodes /\ On(Target(c)) \subseteq Nodes \ {Root}
    BY CallFacts, OnDef
  <1>5. n \in Nodes /\ m[c].file \in Files BY <1>2 DEF Call
  <1>6. n # Root => n \in On(Target(c))
    <2>1. CASE es = << >> BY <1>3, <1>4, <2>1
    <2>2. CASE es # << >>
      <3>1. Last(es) \in On(Target(c)) BY <1>3, <2>2 DEF Last
      <3>2. QED BY <1>3, <1>4, <2>2, <3>1, OnParent
    <2>3. QED BY <2>1, <2>2
  <1>7. ids \subseteq Ids[m[c].file] /\ (n = Root => ids # {})
    BY <1>5, IdsAssumption DEF TypeInv, TreeOK
  <1>8. CASE n \notin dirs \/ (ids # {} /\ es = << >>)
    <2>1. Local(c, Copied(c)) BY <1>1, <1>8
    <2>2. Good(c, Copied(c)) BY <1>2, CopiedGood
    <2>3. QED BY <1>1, <1>3, <1>8, <2>1, <2>2, LocalType DEF Quiet
  <1>9. CASE n \in dirs /\ ids = {}
    <2>1. n \in On(Target(c)) /\ n \in Nodes \ {Root} BY <1>4, <1>6, <1>7, <1>9
    <2>2. Parent[n] \in Nodes BY <2>1, TreeAssumption
    <2> DEFINE new == Append(es, n)
    <2>3. /\ new \in Seq(On(Target(c))) /\ new # << >> /\ Len(new) = Len(es) + 1
          /\ new[Len(new)] = n /\ \A i \in 1 .. Len(es) : new[i] = es[i]
      BY <1>3, <2>1
    <2>4. new \in Seq(Nodes)
      <3>1. es \in Seq(Nodes) BY <1>2 DEF Call
      <3>2. QED BY <2>1, <3>1
    <2>5. Len(es) \in Nat BY <1>3
    <2>6. new[1] = Target(c)
      <3>1. CASE es = << >> BY <1>3, <2>3, <3>1
      <3>2. CASE es # << >> BY <1>3, <2>3, <3>2
      <3>3. QED BY <3>1, <3>2
    <2>7. ASSUME NEW i \in 1 .. Len(new) - 1 PROVE Parent[new[i]] = new[i + 1]
      <3>1. i \in 1 .. Len(es) BY <2>3, <2>5
      <3>2. CASE i = Len(es)
        <4>1. es # << >> BY <3>1, <3>2
        <4>2. QED BY <1>3, <2>3, <3>1, <3>2, <4>1 DEF Last
      <3>3. CASE i # Len(es)
        <4>1. i \in 1 .. Len(es) - 1 /\ i + 1 \in 1 .. Len(es) BY <2>5, <3>1, <3>3
        <4>2. QED BY <1>3, <2>3, <3>1, <4>1
      <3>4. QED BY <3>2, <3>3
    <2> HIDE DEF new
    <2>8. p = [m[c] EXCEPT !.dir = Parent[n], !.empties = new] BY DEF new
    <2>9. p \in Call BY <1>2, <2>2, <2>4, <2>8 DEF Call
    <2>10. /\ Carries(p, m[c]) /\ p.pc = "find" /\ p.dir = Parent[n] /\ p.file = m[c].file
           /\ p.empties = new
      BY <1>1, <1>2, <2>8 DEF Call, Carries
    <2>11. Local(c, p) BY <1>1, <1>9
    <2> HIDE DEF p
    <2>12. Goal(c, p) = Target(c) BY <2>10 DEF Goal, Target, Carries
    <2>13. CallIs(c, p) BY <1>1, <1>2, <2>10 DEF CallIs, Carries
    <2>14. Last(new) = n BY <2>3 DEF Last
    <2>15. ClimbIs(c, p) BY <1>3, <2>3, <2>6, <2>7, <2>10, <2>12, <2>14 DEF ClimbIs
    <2>16. Good(c, p) BY <2>9, <2>13, <2>15 DEF Good
    <2>17. TypeInv' /\ m'[c] = p /\ Quiet(c) BY <2>11, <2>16, LocalType DEF Quiet
    <2>18. p.empties = Append(m[c].empties, n) BY <2>10 DEF new
    <2>19. QED BY <1>1, <1>3, <1>9, <2>1, <2>10, <2>17, <2>18
  <1>10. CASE n \in dirs /\ ids # {} /\ es # << >>
    <2>1. Local(c, q) BY <1>1, <1>10
    <2>2. ids \in SUBSET UNION {Ids[f] : f \in Files} BY <1>5, <1>7
    <2> HIDE DEF ids
    <2>3. q \in Call BY <1>2, <2>2 DEF Call
    <2>4. /\ Carries(q, m[c]) /\ q.pc = "fill" /\ q.value = ids /\ q.file = m[c].file
          /\ q.empties = m[c].empties
      BY <1>2 DEF Call, Carries
    <2> HIDE DEF q
    <2>5. Goal(c, q) = Target(c) BY <2>4 DEF Goal, Target, Carries
    <2>6. CallIs(c, q) BY <1>1, <1>2, <2>4 DEF CallIs, Carries
    <2>7. ClimbIs(c, q) BY <1>3, <1>7, <1>10, <2>4, <2>5 DEF ClimbIs
    <2>8. Good(c, q) BY <2>3, <2>6, <2>7 DEF Good
    <2>9. TypeInv' /\ m'[c] = q /\ Quiet(c) BY <2>1, <2>8, LocalType DEF Quiet
    <2>10. QED BY <1>1, <1>3, <1>10, <2>4, <2>9 DEF ids
  <1>11. \/ n \notin dirs \/ (ids # {} /\ es = << >>)
         \/ n \in dirs /\ ids = {}
         \/ n \in dirs /\ ids # {} /\ es # << >>
    <2> HIDE DEF n, ids, es
    <2>1. QED OBVIOUS
  <1> HIDE DEF n, ids, es
  <1>12. QED BY <1>8, <1>9, <1>10, <1>11 DEF n, ids, es

\* A copy fills the highest of the empty directories and goes down.
LEMMA FillType ==
  ASSUME TypeInv, NEW c \in Clients, copy_from_parent(c)
  PROVE  LET n == Last(m[c].empties)
             f == m[c].file
         IN  /\ TypeInv' /\ m[c].pc = "fill" /\ UNCHANGED <<v2, mix, leaf, dirs, flags, tasks>>
             /\ \A k \in Clients \ {c} : Watches(k)
             /\ \/ ~Accepts(n, f, m[c].value) /\ m'[c] = Copied(c) /\ Quiet(c)
                \/ /\ Accepts(n, f, m[c].value)
                   /\ allowed' = [allowed EXCEPT ![n][f] = m[c].value]
                   /\ allowed'[n][f] = m[c].value
                   /\ \A k \in Nodes, g \in Files : k # n \/ g # f => allowed'[k][g] = allowed[k][g]
                   /\ \/ Len(m[c].empties) = 1 /\ m'[c] = Copied(c)
                      \/ /\ Len(m[c].empties) > 1 /\ Carries(m'[c], m[c]) /\ m'[c].pc = "fill"
                         /\ m'[c].value = m[c].value /\ m'[c].file = m[c].file
                         /\ m'[c].empties \in Seq(On(Target(c)))
                         /\ Len(m'[c].empties) = Len(m[c].empties) - 1
                         /\ \A i \in 1 .. Len(m[c].empties) - 1 : m'[c].empties[i] = m[c].empties[i]
  <1> DEFINE es == m[c].empties
             n == Last(es)
             f == m[c].file
             rest == SubSeq(es, 1, Len(es) - 1)
             q == [m[c] EXCEPT !.empties = rest]
             r == IF rest = << >> THEN Copied(c) ELSE q
  <1>1. /\ m[c].pc = "fill"
        /\ IF Accepts(n, f, m[c].value) THEN Put(c, n, f, m[c].value, r) ELSE Local(c, Copied(c))
    BY DEF copy_from_parent, At, FirstEmpty, Last
  <1>2. m[c] \in Call /\ CallIs(c, m[c]) /\ Copying(m[c]) BY <1>1, CallFacts DEF Copying
  <1>3. /\ ~v2 /\ es \in Seq(On(Target(c))) /\ es # << >> /\ es[1] = Target(c)
        /\ \A i \in 1 .. Len(es) - 1 : Parent[es[i]] = es[i + 1]
        /\ m[c].value # {} /\ m[c].value \subseteq Ids[f]
    BY <1>1, <1>2, CallFacts DEF ClimbIs
  <1>4. Len(es) \in Nat \ {0} /\ n \in On(Target(c)) BY <1>3 DEF Last
  <1>5. n \in Nodes \ {Root} /\ f \in Files BY <1>2, <1>4, CallFacts DEF Call
  <1>6. Good(c, Copied(c)) BY <1>2, CopiedGood
  <1>7. /\ rest \in Seq(On(Target(c))) /\ Len(rest) = Len(es) - 1
        /\ \A i \in 1 .. Len(es) - 1 : rest[i] = es[i]
    BY <1>3, <1>4
  <1>8. Len(es) \in Nat \ {0} /\ (rest = << >> <=> Len(es) = 1) /\ (rest # << >> => Len(es) > 1)
    <2> HIDE DEF rest, es
    <2>1. Len(es) \in Nat \ {0} BY <1>4
    <2>2. rest = << >> <=> Len(rest) = 0 BY <1>7
    <2>3. Len(rest) = Len(es) - 1 BY <1>7
    <2>4. QED BY <2>1, <2>2, <2>3
  <1>9. rest \in Seq(Nodes)
    <2>1. es \in Seq(Nodes) BY <1>2 DEF Call
    <2>2. QED BY <1>4, <2>1
  <1> HIDE DEF rest
  <1>10. ASSUME rest # << >>
         PROVE  /\ Good(c, q) /\ Carries(q, m[c]) /\ q.pc = "fill" /\ q.value = m[c].value
                /\ q.file = m[c].file /\ q.empties = rest
    <2>1. q \in Call BY <1>2, <1>9 DEF Call
    <2>2. /\ Carries(q, m[c]) /\ q.pc = "fill" /\ q.value = m[c].value
          /\ q.file = m[c].file /\ q.empties = rest
      BY <1>1, <1>2 DEF Call, Carries
    <2> HIDE DEF q
    <2>3. Goal(c, q) = Target(c) BY <2>2 DEF Goal, Target, Carries
    <2>4. CallIs(c, q) BY <1>1, <1>2, <2>2 DEF CallIs, Carries
    <2>5. rest[1] = Target(c)
      <3>1. Len(es) \in Nat /\ Len(es) > 1 BY <1>8, <1>10
      <3>2. 1 \in 1 .. Len(es) - 1 BY <3>1
      <3>3. QED BY <1>3, <1>7, <3>2
    <2>6. ASSUME NEW i \in 1 .. Len(rest) - 1 PROVE Parent[rest[i]] = rest[i + 1]
      <3>1. i \in 1 .. Len(es) - 1 /\ i + 1 \in 1 .. Len(es) - 1 BY <1>4, <1>7
      <3>2. QED BY <1>3, <1>7, <3>1
    <2>7. ClimbIs(c, q) BY <1>3, <1>7, <1>10, <2>2, <2>3, <2>5, <2>6 DEF ClimbIs
    <2>8. QED BY <2>1, <2>2, <2>4, <2>7 DEF Good
  <1>11. CASE ~Accepts(n, f, m[c].value)
    <2>1. Local(c, Copied(c)) BY <1>1, <1>11
    <2>2. /\ TypeInv' /\ m'[c] = Copied(c) /\ UNCHANGED <<v2, mix, leaf, dirs, allowed, flags, tasks>>
          /\ \A k \in Clients \ {c} : m'[k] = m[k]
      BY <1>6, <2>1, LocalType
    <2>3. QED BY <1>1, <1>11, <2>2, SameWatches DEF Quiet
  <1>12. CASE Accepts(n, f, m[c].value)
    <2>1. Good(c, r) BY <1>6, <1>10
    <2>2. Put(c, n, f, m[c].value, r) BY <1>1, <1>12
    <2> HIDE DEF r
    <2>3. /\ TypeInv' /\ m'[c] = r /\ UNCHANGED <<v2, mix, leaf, dirs, flags, tasks>>
          /\ allowed' = [allowed EXCEPT ![n][f] = m[c].value]
          /\ allowed'[n][f] = m[c].value
          /\ \A k \in Nodes, g \in Files : k # n \/ g # f => allowed'[k][g] = allowed[k][g]
          /\ \A k \in Clients \ {c} : Watches(k)
      BY <1>3, <1>5, <1>12, <2>1, <2>2, PutType
    <2>4. CASE rest = << >>
      <3>1. m'[c] = Copied(c) BY <2>3, <2>4 DEF r
      <3>2. QED BY <1>1, <1>8, <1>12, <2>3, <2>4, <3>1
    <2>5. CASE rest # << >>
      <3>1. m'[c] = q BY <2>3, <2>5 DEF r
      <3>2. Len(es) > 1 BY <1>8, <2>5
      <3> HIDE DEF q
      <3>3. QED BY <1>1, <1>7, <1>10, <1>12, <2>3, <2>5, <3>1, <3>2
    <2>6. QED BY <2>4, <2>5
  <1>13. QED BY <1>11, <1>12

\* set_cpuset and apply, one file.
LEMMA WriteType ==
  ASSUME TypeInv, NEW c \in Clients, Write(c)
  PROVE  /\ TypeInv' /\ UNCHANGED <<v2, mix, leaf, dirs, flags>>
         /\ m[c].pc = "write" /\ m'[c].pc \in {"write", "idle"}
         /\ m[c].op \in {"set", "apply"} /\ m'[c].op = m[c].op
         /\ \A k \in Clients \ {c} : Watches(k)
  <1> DEFINE f == m[c].file
             ids == IF f = "cpus" THEN m[c].want ELSE Ids["mems"]
             p == [m[c] EXCEPT !.file = "mems"]
             q == IF f = "cpus" THEN p ELSE Done(c, "ok")
             r == IF m[c].op = "set" THEN Done(c, "err") ELSE q
  <1>1. /\ m[c].pc = "write"
        /\ IF Accepts(leaf[c], f, ids) THEN Put(c, leaf[c], f, ids, q) ELSE Local(c, r)
    BY DEF Write, At
  <1>2. m[c] \in Call /\ CallIs(c, m[c]) /\ m[c].op \in {"set", "apply"} BY <1>1, CallFacts DEF CallIs
  <1>3. m[c].want \in Wants /\ f \in {"cpus", "mems"} BY <1>1, <1>2 DEF CallIs, Call, Files
  <1>4. leaf[c] \in Nodes \ {Root} BY DEF TypeInv
  <1>5. f \in Files /\ ids \in SUBSET Ids[f] BY <1>3, WantsAssumption DEF Files
  <1>6. Good(c, p) /\ p.pc = "write" /\ p.op = m[c].op
    <2>1. "mems" \in Files BY DEF Files
    <2>2. p \in Call BY <1>2, <2>1 DEF Call
    <2>3. p.pc = "write" /\ p.op = m[c].op /\ p.level = m[c].level /\ p.want = m[c].want
      BY <1>1, <1>2 DEF Call
    <2> HIDE DEF p
    <2>4. CallIs(c, p) BY <1>2, <1>3, <2>3 DEF CallIs
    <2>5. QED BY <2>2, <2>3, <2>4 DEF Good, ClimbIs, Copying
  <1>7. \A x \in {"ok", "err"} : /\ Good(c, Done(c, x)) /\ Done(c, x).pc = "idle" /\ Done(c, x).op = m[c].op
    BY DoneGood
  <1> HIDE DEF p
  <1>8. Good(c, q) /\ q.pc \in {"write", "idle"} /\ q.op = m[c].op BY <1>6, <1>7
  <1>9. Good(c, r) /\ r.pc \in {"write", "idle"} /\ r.op = m[c].op BY <1>7, <1>8
  <1> HIDE DEF q, r, ids, f
  <1>10. CASE Accepts(leaf[c], f, ids)
    <2>1. Put(c, leaf[c], f, ids, q) BY <1>1, <1>10
    <2>2. /\ TypeInv' /\ m'[c] = q /\ UNCHANGED <<v2, mix, leaf, dirs, flags, tasks>>
          /\ \A k \in Clients \ {c} : Watches(k)
      BY <1>1, <1>4, <1>5, <1>8, <1>10, <2>1, PutType
    <2>3. QED BY <1>1, <1>2, <1>8, <2>2
  <1>11. CASE ~Accepts(leaf[c], f, ids)
    <2>1. Local(c, r) BY <1>1, <1>11
    <2>2. /\ TypeInv' /\ m'[c] = r /\ UNCHANGED <<v2, mix, leaf, dirs, allowed, flags, tasks>>
          /\ \A k \in Clients \ {c} : m'[k] = m[k]
      BY <1>9, <2>1, LocalType
    <2>3. QED BY <1>1, <1>2, <1>9, <2>2, SameWatches
  <1>12. QED BY <1>10, <1>11

\* enable_cpus_topdown, one level.
LEMMA SetLevelType ==
  ASSUME TypeInv, NEW c \in Clients, SetLevel(c)
  PROVE  LET n == Target(c)
             q == m'[c]
         IN  /\ TypeInv' /\ m[c].pc = "level" /\ m[c].op = "topdown" /\ m[c].want \in Wants
             /\ UNCHANGED <<v2, mix, leaf, dirs, flags, tasks>>
             /\ \A k \in Clients \ {c} : Watches(k)
             /\ \/ ~Accepts(n, "cpus", m[c].want) /\ q = Done(c, "err") /\ Quiet(c)
                \/ /\ allowed'[n]["cpus"] = m[c].want
                   /\ \A k \in Nodes, g \in Files : k # n \/ g # "cpus" => allowed'[k][g] = allowed[k][g]
                   /\ \/ m[c].level = Len(Levels(c)) /\ q = Done(c, "ok")
                      \/ /\ q.pc = "mkdir" /\ ~q.down /\ q.level = m[c].level + 1 /\ q.op = "topdown"
                         /\ q.want = m[c].want /\ q.seen = m[c].seen /\ q.widens = m[c].widens
  <1> DEFINE n == Target(c)
             p == Creating(c, m[c], m[c].level + 1)
             q == IF m[c].level = Len(Levels(c)) THEN Done(c, "ok") ELSE p
  <1>1. m[c] \in Call /\ CallIs(c, m[c]) /\ n \in Nodes \ {Root} /\ m[c].level \in 1 .. Len(Levels(c))
    BY CallFacts
  <1>2. /\ PathStack(c).last = Len(Levels(c))
        /\ PathStack(c).after[m[c].level] = m[c].level + 1
    BY <1>1 DEF PathStack
  <1>3. /\ m[c].pc = "level"
        /\ IF Accepts(n, "cpus", m[c].want) THEN Put(c, n, "cpus", m[c].want, q)
           ELSE Local(c, Done(c, "err"))
    BY <1>2 DEF SetLevel, At
  <1>4. m[c].op = "topdown" /\ m[c].want \in Wants BY <1>1, <1>3 DEF CallIs
  <1>5. "cpus" \in Files /\ m[c].want \in SUBSET Ids["cpus"] BY <1>4, WantsAssumption DEF Files
  <1>6. ASSUME m[c].level # Len(Levels(c))
        PROVE  /\ Good(c, p) /\ p.pc = "mkdir" /\ p.level = m[c].level + 1 /\ ~p.down
               /\ p.op = "topdown" /\ p.want = m[c].want /\ p.seen = m[c].seen /\ p.widens = m[c].widens
    <2>1. Len(Levels(c)) \in Nat BY LevelType
    <2>2. m[c].level + 1 \in 1 .. Len(Levels(c)) BY <1>1, <1>6, <2>1
    <2>3. QED BY <1>1, <1>4, <2>2, CreatingGood
  <1>7. \A x \in {"ok", "err"} : Good(c, Done(c, x)) BY DoneGood
  <1> HIDE DEF p
  <1>8. Good(c, q) BY <1>6, <1>7
  <1>9. CASE Accepts(n, "cpus", m[c].want)
    <2> HIDE DEF q
    <2>1. Put(c, n, "cpus", m[c].want, q) BY <1>3, <1>9
    <2>2. /\ TypeInv' /\ m'[c] = q /\ UNCHANGED <<v2, mix, leaf, dirs, flags, tasks>>
          /\ allowed'[n]["cpus"] = m[c].want
          /\ \A k \in Nodes, g \in Files : k # n \/ g # "cpus" => allowed'[k][g] = allowed[k][g]
          /\ \A k \in Clients \ {c} : Watches(k)
      BY <1>1, <1>3, <1>5, <1>8, <1>9, <2>1, PutType
    <2>3. CASE m[c].level = Len(Levels(c))
      <3>1. q = Done(c, "ok") BY <2>3 DEF q
      <3>2. QED BY <1>3, <1>4, <2>2, <2>3, <3>1
    <2>4. CASE m[c].level # Len(Levels(c))
      <3>1. q = p BY <2>4 DEF q
      <3>2. QED BY <1>3, <1>4, <1>6, <2>2, <2>4, <3>1
    <2>5. QED BY <2>3, <2>4
  <1>10. CASE ~Accepts(n, "cpus", m[c].want)
    <2>1. Local(c, Done(c, "err")) BY <1>3, <1>10
    <2>2. /\ TypeInv' /\ m'[c] = Done(c, "err") /\ UNCHANGED <<v2, mix, leaf, dirs, allowed, flags, tasks>>
          /\ \A k \in Clients \ {c} : m'[k] = m[k]
      BY <1>7, <2>1, LocalType
    <2>3. QED BY <1>3, <1>4, <1>10, <2>2, SameWatches DEF Quiet
  <1>11. QED BY <1>9, <1>10

\* A directory that is removed upsets everybody.
LEMMA RmdirType ==
  ASSUME TypeInv, NEW c \in Clients, Rmdir(c)
  PROVE  /\ TypeInv' /\ m[c].pc = "rmdir" /\ m[c].op = "delete"
         /\ UNCHANGED <<v2, mix, leaf>>
         /\ m'[c].pc \in {"rmdir", "idle"}
         /\ \A k \in Clients \ {c} : Watches(k)
  <1>1. m[c].pc = "rmdir" /\ leaf[c] \in Nodes \ {Root} /\ m[c].op = "delete"
    BY CallFacts DEF Rmdir, At, CallIs, TypeInv
  <1>2. \A x \in {"ok", "err"} : Good(c, Done(c, x)) /\ Done(c, x).pc = "idle" BY DoneGood
  <1>3. Good(c, m[c]) BY DEF TypeInv, CallsOK
  <1>4. ASSUME NEW n \in Under(leaf[c]) PROVE n \in Nodes \ {Root}
    BY <1>1, OnDef DEF Under
  <1>5. leaf[c] \in Under(leaf[c]) BY <1>1, OnDef DEF Under
  <1>6. \/ \E x \in {"ok", "err"} : Local(c, Done(c, x))
        \/ \E n \in Under(leaf[c]), r \in {Done(c, "ok"), m[c]} :
             Removable(n) /\ Removed(n) /\ BecomesSeen(c, r, Nodes)
    BY <1>5 DEF Rmdir
  <1>7. CASE \E x \in {"ok", "err"} : Local(c, Done(c, x))
    <2>1. PICK x \in {"ok", "err"} : Local(c, Done(c, x)) BY <1>7
    <2>2. /\ TypeInv' /\ m'[c] = Done(c, x) /\ UNCHANGED <<v2, mix, leaf, dirs, allowed, flags, tasks>>
          /\ \A k \in Clients \ {c} : m'[k] = m[k]
      BY <1>2, <2>1, LocalType
    <2>3. QED BY <1>1, <1>2, <2>2, SameWatches
  <1>8. CASE \E n \in Under(leaf[c]), r \in {Done(c, "ok"), m[c]} :
               Removable(n) /\ Removed(n) /\ BecomesSeen(c, r, Nodes)
    <2>1. PICK n \in Under(leaf[c]), r \in {Done(c, "ok"), m[c]} :
            Removable(n) /\ Removed(n) /\ BecomesSeen(c, r, Nodes)
      BY <1>8
    <2>2. Good(c, r) /\ r.pc \in {"rmdir", "idle"} BY <1>1, <1>2, <1>3
    <2>3. UNCHANGED <<v2, mix, leaf, tasks>> BY <2>1 DEF Removed
    <2>4. CallsOK' /\ m'[c] = r BY <2>1, <2>2, <2>3, Goes DEF TypeInv
    <2>5. TreeOK' BY <1>4, <2>1, RemovedTree DEF TypeInv
    <2>6. ASSUME NEW k \in Clients \ {c} PROVE Watches(k)
      <3>1. leaf[k] \in Nodes BY DEF TypeInv
      <3>2. QED BY <2>1, <2>2, <2>3, <3>1, Noticed DEF Watches
    <2>7. TypeInv' BY <2>3, <2>4, <2>5 DEF TypeInv
    <2>8. QED BY <1>1, <2>2, <2>3, <2>4, <2>6, <2>7
  <1>9. QED BY <1>6, <1>7, <1>8

\* The steps that change no call.
LEMMA IdleStepType ==
  ASSUME TypeInv, (\E n \in Nodes : Exit(n)) \/ UNCHANGED vars
  PROVE  TypeInv' /\ UNCHANGED <<v2, mix, leaf, dirs, allowed, flags, m>>
  <1>1. UNCHANGED <<v2, mix, leaf, dirs, allowed, flags, m>> /\ tasks' \subseteq tasks
    BY DEF Exit, vars, tree
  <1>2. TreeOK' BY <1>1 DEF TypeInv, TreeOK, Usable
  <1>3. CallsOK' BY <1>1 DEF TypeInv, CallsOK, Good, CallIs, ClimbIs, Goal, Copying, Levels
  <1>4. QED BY <1>1, <1>2, <1>3 DEF TypeInv

\* The steps, by their kinds.
Starts(c) == /\ TypeInv' /\ Begins(c)
Flags(c)  == /\ TypeInv' /\ m[c].pc = "idle" /\ m'[c].pc = "idle" /\ UNCHANGED <<v2, mix, leaf, dirs, allowed>>
             /\ \A k \in Clients \ {c} : Watches(k)

LEMMA StepCases ==
  ASSUME TypeInv, [Next]_vars
  PROVE  \/ TypeInv' /\ UNCHANGED <<v2, mix, leaf, dirs, allowed, flags, m>>
         \/ \E c \in Clients : \/ Starts(c) \/ Flags(c) \/ Mkdir(c) \/ find_no_empty_parent(c)
                               \/ copy_from_parent(c) \/ Write(c) \/ SetLevel(c) \/ Rmdir(c)
  <1>1. CASE (\E n \in Nodes : Exit(n)) \/ UNCHANGED vars BY <1>1, IdleStepType
  <1>2. ASSUME NEW c \in Clients,
               \/ New(c) \/ Attach(c) \/ Delete(c)
               \/ \E want \in Wants : set_cpuset(c, want) \/ apply(c, want) \/ enable_cpus_topdown(c, want)
        PROVE  Starts(c)
    BY <1>2, NewType, AttachType, DeleteType, WritesType, TopdownType
       DEF set_cpuset, apply, Starts
  <1>3. ASSUME NEW c \in Clients, SetFlag(c) PROVE Flags(c) BY <1>3, FlagType DEF Flags
  <1>4. QED BY <1>1, <1>2, <1>3 DEF Next

LEMMA TypeStep == TypeInv /\ [Next]_vars => TypeInv'
  <1> SUFFICES ASSUME TypeInv, [Next]_vars PROVE TypeInv' OBVIOUS
  <1>1. ASSUME NEW c \in Clients,
               \/ Starts(c) \/ Flags(c) \/ Mkdir(c) \/ find_no_empty_parent(c)
               \/ copy_from_parent(c) \/ Write(c) \/ SetLevel(c) \/ Rmdir(c)
        PROVE  TypeInv'
    BY <1>1, MkdirType, FindType, FillType, WriteType, SetLevelType, RmdirType DEF Starts, Flags
  <1>2. QED BY <1>1, StepCases

LEMMA TypeInit == Init => TypeInv
  <1> SUFFICES ASSUME Init PROVE TypeInv OBVIOUS
  <1>1. /\ v2 \in BOOLEAN /\ mix \in Mixes /\ leaf \in Leaves /\ leaf \in [Clients -> Nodes \ {Root}]
    BY V2sAssumption, LeavesAssumption DEF Init
  <1>2. Root \in Nodes /\ Parent \in [Nodes \ {Root} -> Nodes] BY TreeAssumption
  <1>3. Ids \in [Files -> SUBSET AllIds] /\ Empty \in [Files -> SUBSET AllIds]
    BY IdsAssumption DEF AllIds, Empty
  <1>4. /\ dirs = {Root} /\ tasks = {}
        /\ allowed = [n \in Nodes |-> IF n = Root THEN Ids ELSE Empty]
    BY DEF Init
  <1>5. TreeOK
    <2>1. allowed \in [Nodes -> [Files -> SUBSET AllIds]] /\ allowed[Root] = Ids BY <1>2, <1>3, <1>4
    <2>2. \A n \in Nodes, f \in Files : allowed[n][f] \subseteq IF n \in dirs THEN Ids[f] ELSE {}
      BY <1>4 DEF Empty
    <2>3. \A n \in Nodes \ {Root}, f \in Files : allowed[n][f] = {} BY <1>4 DEF Empty
    <2>4. QED BY <1>2, <1>4, <2>1, <2>2, <2>3 DEF TreeOK
  <1>6. ASSUME NEW c \in Clients PROVE Good(c, Idle)
    <2>1. leaf[c] \in Nodes \ {Root} /\ Path[leaf[c]] # << >> /\ Path[leaf[c]] \in Seq(Nodes \ {Root})
      BY <1>1, PathType
    <2>2. Len(Levels(c)) \in Nat /\ Len(Levels(c)) >= 1 BY <2>1 DEF Levels
    <2>3. CallIs(c, Idle) /\ ClimbIs(c, Idle) BY <2>2, IdleType DEF CallIs, ClimbIs, Copying
    <2>4. QED BY <2>3, IdleType DEF Good
  <1>7. CallsOK BY <1>6, IdleType DEF Init, CallsOK
  <1>8. QED BY <1>1, <1>5, <1>7 DEF TypeInv

LEMMA TypeInvariant == Spec => []TypeInv
  <1>1. QED BY TypeInit, TypeStep, PTL DEF Spec

\* Every variable keeps its type, and the cpusets obey the kernel's rules: no
\* directory without the one above it and, on v1, no set outside the parent's and
\* no task in an empty cpuset.
THEOREM TypeCorrect == Spec => []TypeOK
  <1>1. QED BY TypeInvariant, TypeInvImplies, PTL

-----------------------------------------------------------------------------
(***************************************************************************)
(* Copies, levels and directories.                                         *)
(***************************************************************************)

\* What a copy has found empty is so, or is filled by now with what is above it;
\* and what it copies is what is above the highest of these directories.
FillIs(r) ==
  Copying(r) /\ r.seen # "upset" =>
    /\ \A i \in 1 .. Len(r.empties) :
         allowed[r.empties[i]][r.file] \in {{}, allowed[Parent[r.empties[i]]][r.file]}
    /\ r.pc = "fill" => allowed[Parent[Last(r.empties)]][r.file] = r.value

\* The levels that enable_cpus_topdown has gone through have the CPUs.
Widening(r) == r.pc # "idle" /\ r.op = "topdown"
LevelIs(c, r) ==
  Widening(r) /\ r.seen # "upset" =>
    \A j \in 1 .. r.level - 1 : allowed[Levels(c)[j]]["cpus"] = r.want

\* What a call has made or read is still there; its target has CPUs when the memory
\* nodes are copied, unless another cpuset is exclusive.
ThereIs(c, r) ==
  r.seen # "upset" =>
    /\ r.pc \in {"find", "fill", "level"} => Goal(c, r) \in dirs
    /\ r.pc = "find" => r.dir \in dirs
    /\ Copying(r) => \A i \in 1 .. Len(r.empties) : r.empties[i] \in dirs
    /\ Copying(r) /\ r.file = "mems" /\ Shared(leaf[c]) => allowed[Goal(c, r)]["cpus"] # {}

\* Left alone, enable_cpus_topdown goes down where it has made the directory above,
\* and the cgroups below the top have no other CPUs.
WideIs(c, r) ==
  Widening(r) /\ r.seen = "still" =>
    /\ r.pc = "mkdir" /\ r.down => Parent[r.dir] \in dirs
    /\ r.widens => \A n \in Under(Levels(c)[1]) \ {Levels(c)[1]} : allowed[n]["cpus"] \subseteq r.want

Kept(c) == FillIs(m[c]) /\ LevelIs(c, m[c]) /\ ThereIs(c, m[c]) /\ WideIs(c, m[c])
KeptInv == \A c \in Clients : Kept(c)

\* A step keeps the set of n if it is not empty; if n is empty or filled with what
\* is above it, it remains so.
Keeps(n) ==
  \A g \in Files :
    /\ allowed[n][g] # {} => allowed'[n][g] = allowed[n][g]
    /\ allowed[n][g] \in {{}, allowed[Parent[n]][g]} => allowed'[n][g] \in {{}, allowed'[Parent[n]][g]}

\* A directory is filled with what is above it, and was empty or had it already.
Grows(n, f) ==
  /\ allowed[n][f] \in {{}, allowed[Parent[n]][f]} /\ allowed[Parent[n]][f] # {}
  /\ allowed'[n][f] = allowed[Parent[n]][f]
  /\ \A k \in Nodes, g \in Files : k # n \/ g # f => allowed'[k][g] = allowed[k][g]

LEMMA GrowsKeeps ==
  ASSUME TypeInv, NEW n \in Nodes \ {Root}, NEW f \in Files, Grows(n, f), NEW k \in Nodes \ {Root}
  PROVE  Keeps(k)
  <1>1. Parent[k] \in Nodes /\ Parent[k] # k /\ Parent[n] \in Nodes /\ Parent[n] # n
    BY Acyclic, TreeAssumption
  <1>2. ASSUME NEW g \in Files, allowed[k][g] # {} PROVE allowed'[k][g] = allowed[k][g]
    BY <1>2 DEF Grows
  <1>3. ASSUME NEW g \in Files, allowed[k][g] \in {{}, allowed[Parent[k]][g]}
        PROVE  allowed'[k][g] \in {{}, allowed'[Parent[k]][g]}
    <2>1. CASE k = n /\ g = f BY <1>1, <2>1 DEF Grows
    <2>2. CASE (k # n \/ g # f) /\ (Parent[k] # n \/ g # f)
      <3>1. allowed'[k][g] = allowed[k][g] /\ allowed'[Parent[k]][g] = allowed[Parent[k]][g]
        BY <1>1, <2>2 DEF Grows
      <3>2. QED BY <1>3, <3>1
    <2>3. CASE k # n /\ Parent[k] = n /\ g = f
      <3>1. allowed'[k][g] = allowed[k][g] BY <2>3 DEF Grows
      <3>2. CASE allowed[n][f] = {} BY <1>3, <2>3, <3>1, <3>2
      <3>3. CASE allowed[n][f] = allowed[Parent[n]][f]
        <4>1. allowed'[n][f] = allowed[n][f] BY <3>3 DEF Grows
        <4>2. QED BY <1>3, <2>3, <3>1, <4>1
      <3>4. QED BY <3>2, <3>3 DEF Grows
    <2>4. QED BY <1>1, <2>1, <2>2, <2>3
  <1>4. QED BY <1>2, <1>3 DEF Keeps

\* What a copy in progress has found.
LEMMA FillFacts ==
  ASSUME TypeInv, NEW c \in Clients, m[c].pc = "fill"
  PROVE  /\ m[c].empties \in Seq(On(Target(c))) /\ Len(m[c].empties) \in Nat \ {0}
         /\ Last(m[c].empties) \in On(Target(c)) /\ Last(m[c].empties) \in Nodes \ {Root}
         /\ Last(m[c].empties) = m[c].empties[Len(m[c].empties)]
         /\ m[c].file \in Files /\ m[c].value # {} /\ m[c].value \subseteq Ids[m[c].file]
         /\ m[c].empties[1] = Target(c) /\ ~v2
         /\ \A i \in 1 .. Len(m[c].empties) : m[c].empties[i] \in On(Target(c))
         /\ \A i \in 1 .. Len(m[c].empties) - 1 : Parent[m[c].empties[i]] = m[c].empties[i + 1]
  <1> DEFINE es == m[c].empties
  <1>1. /\ es \in Seq(On(Target(c))) /\ es # << >> /\ m[c].value # {} /\ ~v2
        /\ m[c].value \subseteq Ids[m[c].file] /\ m[c] \in Call /\ es[1] = Target(c)
        /\ \A i \in 1 .. Len(es) - 1 : Parent[es[i]] = es[i + 1]
    BY CallFacts DEF ClimbIs, Copying
  <1>2. m[c].file \in Files BY <1>1 DEF Call
  <1> HIDE DEF es
  <1>3. Len(es) \in Nat \ {0} BY <1>1
  <1>4. \A i \in 1 .. Len(es) : es[i] \in On(Target(c)) BY <1>1
  <1>5. Last(es) \in On(Target(c)) /\ Last(es) = es[Len(es)] BY <1>3, <1>4 DEF Last
  <1>6. Last(es) \in Nodes \ {Root} BY <1>5, CallFacts
  <1>7. QED BY <1>1, <1>2, <1>3, <1>4, <1>5, <1>6 DEF es

\* The step of a copy that is not upset is of this kind.
LEMMA FillsGrows ==
  ASSUME TypeInv, NEW d \in Clients, FillIs(m[d]), m[d].pc = "fill", m[d].seen # "upset",
         allowed' = [allowed EXCEPT ![Last(m[d].empties)][m[d].file] = m[d].value]
  PROVE  Grows(Last(m[d].empties), m[d].file)
  <1> DEFINE n == Last(m[d].empties)
             f == m[d].file
             v == m[d].value
  <1>1. /\ n \in Nodes \ {Root} /\ f \in Files /\ v # {} BY FillFacts
  <1>2. n = m[d].empties[Len(m[d].empties)] /\ Len(m[d].empties) \in 1 .. Len(m[d].empties)
    BY FillFacts
  <1>3. allowed[n][f] \in {{}, allowed[Parent[n]][f]} /\ allowed[Parent[n]][f] = v
    BY <1>2 DEF FillIs, Copying
  <1>4. allowed \in [Nodes -> [Files -> SUBSET AllIds]] BY DEF TypeInv, TreeOK
  <1> HIDE DEF n, f, v
  <1>5. allowed' = [allowed EXCEPT ![n][f] = v] BY DEF n, f, v
  <1>6. allowed'[n][f] = v /\ \A k \in Nodes, g \in Files : k # n \/ g # f => allowed'[k][g] = allowed[k][g]
    BY <1>1, <1>4, <1>5
  <1>7. Grows(n, f) BY <1>1, <1>3, <1>6 DEF Grows
  <1>8. QED BY <1>7 DEF n, f

\* What the steps of others do to the way of a call that is not upset.
LEMMA WatchKeeps ==
  ASSUME TypeInv, TypeInv', KeptInv, NEW k \in Clients, Watches(k),
         m'[k].pc # "idle", m'[k].seen # "upset"
  PROVE  /\ \A n \in On(leaf[k]) : Keeps(n)
         /\ allowed'[Root] = allowed[Root]
         /\ m[k].seen # "upset" /\ dirs \subseteq dirs' /\ flags' = flags
  <1>1. allowed'[Root] = allowed[Root] BY DEF TypeInv, TreeOK
  <1>2. /\ Fills \/ \A n \in On(leaf[k]) : allowed'[n] = allowed[n]
        /\ m[k].seen # "upset" /\ dirs \subseteq dirs' /\ flags' = flags
    BY DEF Watches
  <1>3. On(leaf[k]) \subseteq Nodes \ {Root} BY CallFacts
  <1>4. CASE Fills
    <2>1. PICK d \in Clients :
            /\ m[d].pc = "fill" /\ m[d].seen # "upset"
            /\ allowed' = [allowed EXCEPT ![Last(m[d].empties)][m[d].file] = m[d].value]
      BY <1>4 DEF Fills
    <2>2. FillIs(m[d]) BY DEF KeptInv, Kept
    <2>3. Grows(Last(m[d].empties), m[d].file) BY <2>1, <2>2, FillsGrows
    <2>4. Last(m[d].empties) \in Nodes \ {Root} /\ m[d].file \in Files BY <2>1, FillFacts
    <2>5. QED BY <1>1, <1>2, <1>3, <2>3, <2>4, GrowsKeeps
  <1>5. CASE \A n \in On(leaf[k]) : allowed'[n] = allowed[n]
    <2>1. ASSUME NEW n \in On(leaf[k]) PROVE Keeps(n)
      <3>1. allowed'[n] = allowed[n] BY <1>5
      <3>2. allowed'[Parent[n]] = allowed[Parent[n]]
        <4>1. CASE Parent[n] = Root BY <1>1, <4>1
        <4>2. CASE Parent[n] # Root
          <5>1. leaf[k] \in Nodes BY DEF TypeInv
          <5>2. QED BY <1>5, <4>2, <5>1, OnParent
        <4>3. QED BY <4>1, <4>2
      <3>3. QED BY <3>1, <3>2 DEF Keeps
    <2>2. QED BY <1>1, <1>2, <2>1
  <1>6. QED BY <1>2, <1>4, <1>5

LEMMA CopyFacts ==
  ASSUME TypeInv, NEW c \in Clients, Copying(m[c])
  PROVE  /\ m[c].empties \in Seq(On(Target(c))) /\ Len(m[c].empties) \in Nat
         /\ \A i \in 1 .. Len(m[c].empties) : m[c].empties[i] \in On(Target(c))
         /\ m[c].file \in Files /\ ~v2 /\ m[c].op \in {"new", "topdown"}
  <1>1. m[c].empties \in Seq(On(Target(c))) /\ m[c] \in Call /\ ~v2 /\ CallIs(c, m[c])
    BY CallFacts DEF ClimbIs
  <1>2. m[c].op \in {"new", "topdown"} BY <1>1 DEF CallIs, Copying
  <1>3. QED BY <1>1, <1>2 DEF Call

\* Nothing that a call relies on is lost by the steps of others.
LEMMA OthersKept ==
  ASSUME TypeInv, TypeInv', KeptInv, UNCHANGED <<v2, leaf>>, NEW k \in Clients, Watches(k)
  PROVE  Kept(k)'
  <1> DEFINE p == m[k]
             q == m'[k]
  <1>1. PICK s \in {"still", "grown", "upset"} : q = [p EXCEPT !.seen = s] BY DEF Watches
  <1>2. p \in Call /\ Kept(k) BY CallFacts DEF KeptInv
  <1>3. /\ q.pc = p.pc /\ q.op = p.op /\ q.want = p.want /\ q.level = p.level /\ q.dir = p.dir
        /\ q.down = p.down /\ q.widens = p.widens
        /\ q.file = p.file /\ q.value = p.value /\ q.empties = p.empties
    BY <1>1, <1>2 DEF Call
  <1>4. Goal(k, m[k])' = Goal(k, p) /\ Levels(k)' = Levels(k) BY <1>3 DEF Goal, Levels
  <1>5. Goal(k, p) = Target(k) /\ On(Target(k)) \subseteq On(leaf[k]) /\ Target(k) \in On(leaf[k])
        /\ On(leaf[k]) \subseteq Nodes \ {Root}
    BY CallFacts
  <1>6. CASE q.pc = "idle" \/ q.seen = "upset"
    BY <1>6 DEF Kept, FillIs, LevelIs, ThereIs, WideIs, Copying, Widening
  <1>7. CASE q.pc # "idle" /\ q.seen # "upset"
    <2>1. /\ \A n \in On(leaf[k]) : Keeps(n)
          /\ allowed'[Root] = allowed[Root]
          /\ p.seen # "upset" /\ dirs \subseteq dirs' /\ flags' = flags
      BY <1>7, WatchKeeps
    <2>2. FillIs(m[k])'
      <3> SUFFICES ASSUME Copying(q)
                   PROVE  /\ \A i \in 1 .. Len(q.empties) :
                               allowed'[q.empties[i]][q.file] \in {{}, allowed'[Parent[q.empties[i]]][q.file]}
                          /\ q.pc = "fill" => allowed'[Parent[Last(q.empties)]][q.file] = q.value
        BY DEF FillIs, Copying, Last
      <3>1. Copying(p) /\ FillIs(p) BY <1>2, <1>3 DEF Copying, Kept
      <3>2. /\ p.file \in Files /\ \A i \in 1 .. Len(p.empties) : p.empties[i] \in On(leaf[k])
        BY <1>5, <3>1, CopyFacts
      <3>3. ASSUME NEW i \in 1 .. Len(p.empties)
            PROVE  allowed'[p.empties[i]][p.file] \in {{}, allowed'[Parent[p.empties[i]]][p.file]}
        <4>1. allowed[p.empties[i]][p.file] \in {{}, allowed[Parent[p.empties[i]]][p.file]}
          BY <2>1, <3>1 DEF FillIs
        <4>2. Keeps(p.empties[i]) BY <2>1, <3>2
        <4>3. QED BY <3>2, <4>1, <4>2 DEF Keeps
      <3>4. ASSUME p.pc = "fill" PROVE allowed'[Parent[Last(p.empties)]][p.file] = p.value
        <4>1. allowed[Parent[Last(p.empties)]][p.file] = p.value BY <2>1, <3>1, <3>4 DEF FillIs
        <4>2. p.value # {} /\ Last(p.empties) \in On(Target(k)) BY <3>4, FillFacts
        <4>3. Last(p.empties) \in On(leaf[k]) /\ leaf[k] \in Nodes BY <1>5, <4>2 DEF TypeInv
        <4>4. CASE Parent[Last(p.empties)] = Root BY <2>1, <4>1, <4>4
        <4>5. CASE Parent[Last(p.empties)] # Root
          <5>1. Parent[Last(p.empties)] \in On(leaf[k]) BY <4>3, <4>5, OnParent
          <5>2. Keeps(Parent[Last(p.empties)]) BY <2>1, <5>1
          <5>3. QED BY <3>2, <4>1, <4>2, <5>2 DEF Keeps
        <4>6. QED BY <4>4, <4>5
      <3> HIDE DEF p, q
      <3>5. QED BY <1>3, <3>3, <3>4
    <2>3. LevelIs(k, m[k])'
      <3> SUFFICES ASSUME Widening(q), NEW j \in 1 .. q.level - 1
                   PROVE  allowed'[Levels(k)[j]]["cpus"] = q.want
        BY <1>4 DEF LevelIs, Widening
      <3>1. Widening(p) BY <1>3 DEF Widening
      <3>2. allowed[Levels(k)[j]]["cpus"] = p.want BY <1>2, <1>3, <2>1, <3>1 DEF LevelIs, Kept
      <3>3. p.want # {} /\ p.level \in 1 .. Len(Levels(k))
        BY <3>1, CallFacts, WantsAssumption DEF CallIs, Widening
      <3>4. j \in 1 .. Len(Levels(k)) BY <1>3, <3>3, LevelType
      <3>5. Levels(k)[j] \in On(leaf[k]) /\ "cpus" \in Files BY <3>4, LevelType DEF Files
      <3>6. Keeps(Levels(k)[j]) BY <2>1, <3>5
      <3>7. QED BY <1>3, <3>2, <3>3, <3>5, <3>6 DEF Keeps
    <2>4. ThereIs(k, m[k])'
      <3>1. ThereIs(k, p) /\ p.seen # "upset" BY <1>2, <2>1 DEF Kept
      <3>2. Shared(leaf[k])' = Shared(leaf[k]) BY <2>1 DEF Shared
      <3>3. Copying(m[k])' = Copying(p) BY <1>3 DEF Copying
      <3>4. ASSUME allowed[Target(k)]["cpus"] # {} PROVE allowed'[Target(k)]["cpus"] # {}
        <4>1. Keeps(Target(k)) /\ "cpus" \in Files BY <1>5, <2>1 DEF Files
        <4>2. QED BY <3>4, <4>1 DEF Keeps
      <3> HIDE DEF p, q
      <3>5. QED BY <1>3, <1>4, <1>5, <2>1, <3>1, <3>2, <3>3, <3>4 DEF ThereIs, q
    <2>5. WideIs(k, m[k])'
      <3> SUFFICES ASSUME q.seen = "still" PROVE WideIs(k, m[k])' BY DEF WideIs
      <3>1. m'[k] = m[k] /\ UNCHANGED <<dirs, allowed, flags>> BY <1>7 DEF Watches
      <3>2. WideIs(k, p) BY <1>2 DEF Kept
      <3>3. QED BY <3>1, <3>2, <1>4 DEF WideIs, Widening
    <2>6. QED BY <2>2, <2>3, <2>4, <2>5 DEF Kept
  <1>8. QED BY <1>6, <1>7

\* A call that neither copies nor widens relies on nothing.
LEMMA RestKept ==
  ASSUME TypeInv', NEW c \in Clients, m'[c].pc \in {"idle", "write", "rmdir"}
  PROVE  Kept(c)'
  <1>1. ~Copying(m'[c]) /\ m'[c].pc \notin {"find", "fill", "level", "mkdir"} BY DEF Copying
  <1>2. ~Widening(m'[c])
    <2>1. CallIs(c, m[c])' BY DEF TypeInv, CallsOK, Good
    <2>2. m'[c].pc = "write" => m'[c].op \in {"set", "apply"} BY <2>1 DEF CallIs
    <2>3. m'[c].pc = "rmdir" => m'[c].op = "delete" BY <2>1 DEF CallIs
    <2>4. QED BY <2>2, <2>3 DEF Widening
  <1>3. FillIs(m[c])' /\ LevelIs(c, m[c])' /\ WideIs(c, m[c])'
    BY <1>1, <1>2 DEF FillIs, LevelIs, WideIs, Copying, Widening
  <1>4. ThereIs(c, m[c])' BY <1>1 DEF ThereIs, Copying
  <1>5. QED BY <1>3, <1>4 DEF Kept

LEMMA StartsKept == ASSUME TypeInv, NEW c \in Clients, Starts(c) PROVE Kept(c)'
  <1>1. TypeInv' /\ Begins(c) BY DEF Starts
  <1>2. CASE m'[c].pc \in {"idle", "write", "rmdir"} BY <1>1, <1>2, RestKept
  <1>3. CASE m'[c].pc = "mkdir"
    <2>1. /\ ~m'[c].down /\ UNCHANGED <<leaf, allowed>>
          /\ m'[c].op = "topdown" =>
               /\ m'[c].level = 1
               /\ m'[c].widens => \A n \in Under(Levels(c)[1]) : allowed[n]["cpus"] \subseteq m'[c].want
      BY <1>1, <1>3 DEF Begins, Quiet
    <2>2. FillIs(m[c])' /\ ThereIs(c, m[c])' BY <1>3 DEF FillIs, ThereIs, Copying
    <2>3. LevelIs(c, m[c])' BY <2>1 DEF LevelIs, Widening
    <2>4. Levels(c)' = Levels(c) BY <2>1 DEF Levels
    <2>5. WideIs(c, m[c])' BY <2>1, <2>4 DEF WideIs, Widening, Under
    <2>6. QED BY <2>2, <2>3, <2>5 DEF Kept
  <1>4. QED BY <1>1, <1>2, <1>3 DEF Begins

LEMMA SameKeeps == UNCHANGED allowed => \A n \in Nodes : Keeps(n)
  BY DEF Keeps

\* The levels that c has gone through keep their CPUs as long as no step on its
\* way changes a set that is there.
LEMMA LevelsKept ==
  ASSUME TypeInv, NEW c \in Clients, Kept(c), leaf' = leaf, Carries(m'[c], m[c]), m[c].pc # "idle",
         \A n \in On(leaf[c]) : Keeps(n)
  PROVE  LevelIs(c, m[c])'
  <1> DEFINE p == m[c]
             q == m'[c]
  <1>1. q.op = p.op /\ q.level = p.level /\ q.want = p.want /\ q.seen = p.seen BY DEF Carries
  <1>2. Levels(c)' = Levels(c) BY DEF Levels
  <1> SUFFICES ASSUME Widening(q), q.seen # "upset", NEW j \in 1 .. q.level - 1
               PROVE  allowed'[Levels(c)[j]]["cpus"] = q.want
    BY <1>2 DEF LevelIs, Widening
  <1>3. Widening(p) BY <1>1 DEF Widening
  <1>4. allowed[Levels(c)[j]]["cpus"] = p.want BY <1>1, <1>3 DEF LevelIs, Kept
  <1>5. p.want # {} /\ p.level \in 1 .. Len(Levels(c))
    BY <1>3, CallFacts, WantsAssumption DEF CallIs, Widening
  <1>6. j \in 1 .. Len(Levels(c)) BY <1>1, <1>5, LevelType
  <1>7. Levels(c)[j] \in On(leaf[c]) /\ "cpus" \in Files BY <1>6, LevelType DEF Files
  <1>8. Keeps(Levels(c)[j]) BY <1>7
  <1>9. QED BY <1>1, <1>4, <1>5, <1>7, <1>8 DEF Keeps

\* The cgroups below the top have no CPUs but those asked for.
Narrow(c) == m[c].op = "topdown" /\ m[c].seen = "still" /\ m[c].widens =>
  \A n \in Under(Levels(c)[1]) \ {Levels(c)[1]} : allowed'[n]["cpus"] \subseteq m[c].want

LEMMA WideKept ==
  ASSUME TypeInv, NEW c \in Clients, leaf' = leaf, Carries(m'[c], m[c]), Narrow(c),
         m'[c].pc = "mkdir" /\ m'[c].down => Parent[m'[c].dir] \in dirs'
  PROVE  WideIs(c, m[c])'
  <1>1. Levels(c)' = Levels(c) BY DEF Levels
  <1>2. QED BY <1>1 DEF WideIs, Widening, Narrow, Carries, Under

LEMMA SameNarrow ==
  ASSUME NEW c \in Clients, Kept(c), m[c].pc # "idle", UNCHANGED allowed
  PROVE  Narrow(c)
  BY DEF Kept, WideIs, Widening, Narrow

LEMMA MkdirKept ==
  ASSUME TypeInv, NEW c \in Clients, Kept(c), Mkdir(c)
  PROVE  Kept(c)'
  <1>1. /\ TypeInv' /\ UNCHANGED <<v2, mix, leaf, allowed, flags>> /\ dirs \subseteq dirs'
        /\ m[c].pc = "mkdir"
        /\ \/ m'[c] = Done(c, "err") \/ m'[c] = Done(c, "ok")
           \/ /\ Carries(m'[c], m[c])
              /\ \/ m'[c].pc = "mkdir" /\ (m'[c].down => Parent[m'[c].dir] \in dirs')
                 \/ /\ Target(c) \in dirs' /\ m'[c].pc = "find" /\ m'[c].dir = Target(c)
                    /\ m'[c].empties = << >> /\ m'[c].file = "cpus"
                 \/ Target(c) \in dirs' /\ m'[c].pc = "level"
    BY MkdirType
  <1>2. CASE m'[c] = Done(c, "err") \/ m'[c] = Done(c, "ok")
    <2>1. m'[c].pc = "idle" BY <1>2, DoneGood
    <2>2. QED BY <1>1, <2>1, RestKept
  <1>3. CASE /\ Carries(m'[c], m[c])
             /\ \/ m'[c].pc = "mkdir" /\ (m'[c].down => Parent[m'[c].dir] \in dirs')
                \/ /\ Target(c) \in dirs' /\ m'[c].pc = "find" /\ m'[c].dir = Target(c)
                   /\ m'[c].empties = << >> /\ m'[c].file = "cpus"
                \/ Target(c) \in dirs' /\ m'[c].pc = "level"
    <2>1. On(leaf[c]) \subseteq Nodes BY CallFacts
    <2>2. LevelIs(c, m[c])' BY <1>1, <1>3, <2>1, LevelsKept, SameKeeps
    <2>3. WideIs(c, m[c])' BY <1>1, <1>3, WideKept, SameNarrow
    <2>4. Goal(c, m[c])' = Target(c) BY <1>1, <1>3 DEF Goal, Target, Carries
    <2>5. m'[c].pc = "find" => Len(m'[c].empties) = 0 BY <1>3
    <2>6. FillIs(m[c])'
      <3>1. m'[c].pc \in {"mkdir", "find", "level"} BY ONLY <1>3
      <3>2. 1 .. 0 = {} OBVIOUS
      <3>3. QED BY ONLY <2>5, <3>1, <3>2 DEF FillIs, Copying
    <2>7. ThereIs(c, m[c])' BY <1>3, <2>4, <2>5 DEF ThereIs, Copying
    <2>8. QED BY <2>2, <2>3, <2>6, <2>7 DEF Kept
  <1>4. QED BY <1>1, <1>2, <1>3

\* What follows a copy.
LEMMA CopiedFacts ==
  ASSUME TypeInv, NEW c \in Clients, Copying(m[c])
  PROVE  LET q == Copied(c)
         IN  \/ /\ m[c].file = "cpus" /\ Carries(q, m[c]) /\ q.pc = "find" /\ q.file = "mems"
                /\ q.dir = Target(c) /\ q.empties = << >>
             \/ m[c].file = "mems" /\ m[c].op = "topdown" /\ Carries(q, m[c]) /\ q.pc = "level"
             \/ m[c].file = "mems" /\ m[c].op = "new" /\ q.pc = "idle"
  <1>1. m[c] \in Call /\ m[c].pc \in {"find", "fill"} /\ m[c].op \in {"new", "topdown"}
    BY CallFacts, CopyFacts DEF Copying
  <1>2. m[c].file \in {"cpus", "mems"} BY <1>1 DEF Call, Files
  <1>3. CASE m[c].file = "cpus"
    <2>1. Copied(c) = [m[c] EXCEPT !.pc = "find", !.file = "mems", !.dir = Target(c),
                                   !.value = {}, !.empties = << >>]
      BY <1>3, CopiedGood
    <2>2. QED BY <1>1, <1>3, <2>1 DEF Call, Carries
  <1>4. CASE m[c].file = "mems"
    <2> DEFINE q == [Created(c) EXCEPT !.value = {}, !.empties = << >>]
    <2>1. Copied(c) = q BY <1>4, CopiedGood
    <2>2. /\ m[c].op = "topdown" =>
                  /\ q.pc = "level" /\ q.op = "topdown" /\ q.level = m[c].level
                  /\ q.want = m[c].want /\ q.seen = m[c].seen /\ q.widens = m[c].widens
          /\ m[c].op # "topdown" => q.pc = "idle"
      BY <1>1, CreatedGood
    <2> HIDE DEF q
    <2>3. QED BY <1>1, <1>4, <2>1, <2>2 DEF Carries
  <1>5. QED BY <1>2, <1>3, <1>4

LEMMA CopiedKept ==
  ASSUME TypeInv, TypeInv', NEW c \in Clients, Kept(c), Copying(m[c]), m'[c] = Copied(c),
         UNCHANGED <<leaf, dirs, flags>>, \A n \in On(leaf[c]) : Keeps(n), Narrow(c),
         m[c].seen # "upset" /\ m[c].file = "cpus" /\ Shared(leaf[c]) => allowed'[Target(c)]["cpus"] # {}
  PROVE  Kept(c)'
  <1> DEFINE q == m'[c]
  <1>1. \/ /\ m[c].file = "cpus" /\ Carries(q, m[c]) /\ q.pc = "find" /\ q.file = "mems"
           /\ q.dir = Target(c) /\ q.empties = << >>
        \/ m[c].file = "mems" /\ m[c].op = "topdown" /\ Carries(q, m[c]) /\ q.pc = "level"
        \/ m[c].file = "mems" /\ m[c].op = "new" /\ q.pc = "idle"
    BY CopiedFacts
  <1>2. CASE q.pc = "idle" BY <1>2, RestKept
  <1>3. CASE q.pc # "idle"
    <2>1. Carries(q, m[c]) /\ m[c].pc # "idle" /\ m[c].pc \in {"find", "fill"} BY <1>1, <1>3 DEF Copying
    <2>2. LevelIs(c, m[c])' BY <2>1, LevelsKept
    <2>3. WideIs(c, m[c])' BY <1>1, <2>1, WideKept
    <2>4. Goal(c, m[c])' = Target(c) /\ Goal(c, m[c]) = Target(c) BY <2>1 DEF Goal, Target, Carries
    <2>5. q.pc = "find" => Len(q.empties) = 0 BY <1>1
    <2>6. FillIs(m[c])' BY <1>1, <2>5 DEF FillIs, Copying
    <2>7. m[c].seen # "upset" => Target(c) \in dirs BY <2>1, <2>4 DEF Kept, ThereIs
    <2>8. Shared(leaf[c])' = Shared(leaf[c]) BY DEF Shared
    <2>9. ThereIs(c, m[c])' BY <1>1, <1>3, <2>1, <2>4, <2>5, <2>7, <2>8 DEF ThereIs, Copying, Carries
    <2>10. QED BY <2>2, <2>3, <2>6, <2>9 DEF Kept
  <1>4. QED BY <1>2, <1>3

LEMMA FindKept ==
  ASSUME TypeInv, NEW c \in Clients, Kept(c), find_no_empty_parent(c)
  PROVE  Kept(c)'
  <1> DEFINE n == m[c].dir
             es == m[c].empties
             f == m[c].file
             ids == allowed[n][f]
             q == m'[c]
  <1>1. /\ TypeInv' /\ Quiet(c) /\ m[c].pc = "find" /\ ~v2
        /\ \/ (n \notin dirs \/ (ids # {} /\ es = << >>)) /\ q = Copied(c)
           \/ /\ Carries(q, m[c]) /\ n \in dirs /\ ids = {} /\ n \in On(Target(c))
              /\ q.pc = "find" /\ q.dir = Parent[n] /\ q.file = f /\ q.empties = Append(es, n)
           \/ /\ Carries(q, m[c]) /\ n \in dirs /\ ids # {} /\ es # << >>
              /\ q.pc = "fill" /\ q.value = ids /\ q.file = f /\ q.empties = es
    BY FindType
  <1>2. UNCHANGED <<v2, mix, leaf, dirs, allowed, flags>> BY <1>1 DEF Quiet
  <1>3. Copying(m[c]) /\ On(leaf[c]) \subseteq Nodes /\ On(Target(c)) \subseteq Nodes \ {Root}
    BY <1>1, CallFacts DEF Copying
  <1>4. (\A k \in On(leaf[c]) : Keeps(k)) /\ Narrow(c) BY <1>1, <1>2, <1>3, SameKeeps, SameNarrow
  <1>5. FillIs(m[c]) /\ ThereIs(c, m[c]) BY DEF Kept
  <1>6. es \in Seq(On(Target(c))) /\ Len(es) \in Nat BY <1>3, CopyFacts
  <1>7. n = IF es = << >> THEN Target(c) ELSE Parent[Last(es)] BY <1>1, <1>3, CallFacts DEF ClimbIs
  <1>8. Shared(leaf[c])' = Shared(leaf[c]) /\ Levels(c)' = Levels(c) BY <1>2 DEF Shared, Levels
  <1> HIDE DEF q, es, n, f, ids
  <1>9. CASE (n \notin dirs \/ (ids # {} /\ es = << >>)) /\ q = Copied(c)
    <2>1. ASSUME m[c].seen # "upset", m[c].file = "cpus" PROVE allowed'[Target(c)]["cpus"] # {}
      <3>1. n \in dirs BY <1>1, <1>5, <2>1 DEF ThereIs, n
      <3>2. ids # {} /\ n = Target(c) BY <1>7, <1>9, <3>1
      <3>3. QED BY <1>2, <2>1, <3>2 DEF ids, f
    <2>2. m'[c] = Copied(c) BY <1>9 DEF q
    <2>3. QED BY <1>1, <1>2, <1>3, <1>4, <2>1, <2>2, CopiedKept
  <1>10. CASE Carries(q, m[c]) /\ n \in dirs /\ q.pc \in {"find", "fill"} /\ q.file = f
    <2>1. LevelIs(c, m[c])' BY <1>1, <1>2, <1>4, <1>10, LevelsKept DEF q
    <2>2. WideIs(c, m[c])' BY <1>2, <1>4, <1>10, WideKept DEF q
    <2>3. Goal(c, m[c])' = Target(c) /\ Goal(c, m[c]) = Target(c)
      BY <1>2, <1>10 DEF Goal, Target, Carries, q
    <2>4. q.seen = m[c].seen BY <1>10 DEF Carries
    <2>5. ASSUME m[c].seen # "upset"
          PROVE  /\ Target(c) \in dirs
                 /\ \A i \in 1 .. Len(es) : es[i] \in dirs
                 /\ \A i \in 1 .. Len(es) : allowed[es[i]][f] \in {{}, allowed[Parent[es[i]]][f]}
                 /\ f = "mems" /\ Shared(leaf[c]) => allowed[Target(c)]["cpus"] # {}
      BY <1>1, <1>3, <1>5, <2>3, <2>5 DEF ThereIs, FillIs, es, f
    <2>6. CASE ids = {} /\ n \in On(Target(c)) /\ q.pc = "find" /\ q.dir = Parent[n] /\ q.empties = Append(es, n)
      <3>1. Parent[n] \in dirs BY <1>3, <1>10, <2>6 DEF TypeInv, TreeOK
      <3>2. /\ Len(q.empties) = Len(es) + 1
            /\ \A i \in 1 .. Len(es) + 1 : i # Len(es) + 1 => i \in 1 .. Len(es) /\ q.empties[i] = es[i]
            /\ q.empties[Len(es) + 1] = n
        BY <1>6, <2>6
      <3>3. ASSUME m[c].seen # "upset", NEW i \in 1 .. Len(q.empties)
            PROVE  q.empties[i] \in dirs /\ allowed[q.empties[i]][f] \in {{}, allowed[Parent[q.empties[i]]][f]}
        <4>1. CASE i = Len(es) + 1 BY <1>10, <2>6, <3>2, <4>1 DEF ids
        <4>2. CASE i # Len(es) + 1
          <5>1. i \in 1 .. Len(es) /\ q.empties[i] = es[i] BY <3>2, <3>3, <4>2
          <5>2. QED BY <2>5, <3>3, <5>1
        <4>3. QED BY <4>1, <4>2
      <3>4. FillIs(m[c])' BY <1>2, <1>10, <2>4, <2>6, <3>3 DEF FillIs, q
      <3>5. ThereIs(c, m[c])' BY <1>2, <1>8, <1>10, <2>3, <2>4, <2>5, <2>6, <3>1, <3>3 DEF ThereIs, q
      <3>6. QED BY <2>1, <2>2, <3>4, <3>5 DEF Kept
    <2>7. CASE ids # {} /\ es # << >> /\ q.pc = "fill" /\ q.value = ids /\ q.empties = es
      <3>1. n = Parent[Last(es)] BY <1>7, <2>7
      <3>2. allowed[Parent[Last(es)]][f] = q.value BY <2>7, <3>1 DEF ids
      <3>3. FillIs(m[c])' BY <1>2, <1>10, <2>4, <2>5, <2>7, <3>2 DEF FillIs, q, Last
      <3>4. ThereIs(c, m[c])' BY <1>2, <1>8, <1>10, <2>3, <2>4, <2>5, <2>7 DEF ThereIs, q
      <3>5. QED BY <2>1, <2>2, <3>3, <3>4 DEF Kept
    <2>8. QED BY <1>1, <1>9, <1>10, <2>6, <2>7
  <1>11. QED BY <1>1, <1>9, <1>10

\* A copy that is left alone, among cpusets that share, is not refused.
LEMMA FillAccepted ==
  ASSUME TypeInv, NEW c \in Clients, Kept(c), m[c].pc = "fill", m[c].seen # "upset", Shared(leaf[c])
  PROVE  Accepts(Last(m[c].empties), m[c].file, m[c].value)
  <1> DEFINE n == Last(m[c].empties)
             f == m[c].file
             v == m[c].value
  <1>1. /\ n \in On(Target(c)) /\ n \in Nodes \ {Root} /\ f \in Files /\ v # {} /\ ~v2
        /\ n = m[c].empties[Len(m[c].empties)] /\ Len(m[c].empties) \in 1 .. Len(m[c].empties)
    BY FillFacts
  <1>2. n \in dirs BY <1>1 DEF Kept, ThereIs, Copying
  <1>3. allowed[n][f] \in {{}, allowed[Parent[n]][f]} /\ allowed[Parent[n]][f] = v
    BY <1>1 DEF Kept, FillIs, Copying
  <1>4. n \in On(leaf[c]) BY <1>1, CallFacts
  <1>5. \A s \in Siblings(n) \union {n} : Exclusive[f] \notin flags[s] BY <1>1, <1>4 DEF Shared
  <1>6. ASSUME NEW k \in Children(n) PROVE allowed[k][f] \subseteq v
    <2>1. k \in Nodes \ {Root} /\ Parent[k] = n BY DEF Children
    <2>2. allowed[k][f] \subseteq allowed[n][f] BY <1>1, <2>1 DEF TypeInv, TreeOK
    <2>3. QED BY <1>3, <2>2
  <1> HIDE DEF n, f, v
  <1>7. Accepts(n, f, v) BY <1>1, <1>2, <1>3, <1>5, <1>6 DEF Accepts
  <1>8. QED BY <1>7 DEF n, f, v

\* A copy below the top, for enable_cpus_topdown, copies CPUs that are asked for.
LEMMA FillNarrow ==
  ASSUME TypeInv, NEW c \in Clients, Kept(c), m[c].pc = "fill", m[c].seen # "upset",
         Grows(Last(m[c].empties), m[c].file)
  PROVE  Narrow(c)
  <1> DEFINE n == Last(m[c].empties)
             top == Levels(c)[1]
  <1> SUFFICES ASSUME m[c].op = "topdown", m[c].seen = "still", m[c].widens,
                      NEW k \in Under(top) \ {top}
               PROVE  allowed'[k]["cpus"] \subseteq m[c].want
    BY DEF Narrow
  <1>1. Widening(m[c]) BY DEF Widening
  <1>2. \A j \in Under(top) \ {top} : allowed[j]["cpus"] \subseteq m[c].want BY <1>1 DEF Kept, WideIs
  <1>3. k \in Nodes /\ top \in On(k) /\ "cpus" \in Files BY DEF Under, Files
  <1>4. n \in On(Target(c)) /\ n \in Nodes \ {Root} BY FillFacts
  <1>5. CASE k # n \/ m[c].file # "cpus"
    <2>1. allowed'[k]["cpus"] = allowed[k]["cpus"] BY <1>3, <1>5 DEF Grows
    <2>2. QED BY <1>2, <2>1
  <1>6. CASE k = n /\ m[c].file = "cpus"
    <2>1. allowed'[n]["cpus"] = allowed[Parent[n]]["cpus"] BY <1>6 DEF Grows
    <2>2. top \in On(Parent[n]) /\ Parent[n] \in Nodes BY <1>3, <1>4, <1>6, OnDef, TreeAssumption
    <2>3. Parent[n] \in Under(top) BY <2>2 DEF Under
    <2>4. CASE Parent[n] # top BY <1>2, <1>6, <2>1, <2>3, <2>4
    <2>5. CASE Parent[n] = top
      <3>1. m[c].level \in 1 .. Len(Levels(c)) /\ Target(c) = Levels(c)[m[c].level] BY CallFacts DEF Target, Levels
      <3>2. leaf[c] \in Nodes /\ Target(c) \in Nodes BY CallFacts DEF TypeInv
      <3>3. m[c].level # 1
        <4>1. SUFFICES ASSUME m[c].level = 1 PROVE FALSE OBVIOUS
        <4>2. Target(c) = top BY <3>1, <4>1
        <4>3. Len(Path[top]) = 1 /\ Path[top][1] = top
          <5>1. 1 \in 1 .. Len(Path[leaf[c]]) /\ top = Path[leaf[c]][1] BY <3>1, <4>1 DEF Levels
          <5> DEFINE one == 1
          <5>2. one \in 1 .. Len(Path[leaf[c]]) BY <5>1
          <5> HIDE DEF one
          <5>3. Len(Path[Path[leaf[c]][one]]) = one BY <3>2, <5>2, PathPrefix
          <5>4. \A j \in 1 .. one : Path[Path[leaf[c]][one]][j] = Path[leaf[c]][j] BY <3>2, <5>2, PathPrefix
          <5>5. one \in 1 .. one BY DEF one
          <5>6. Path[Path[leaf[c]][one]][one] = Path[leaf[c]][one] BY <5>4, <5>5
          <5>7. QED BY <5>1, <5>3, <5>6 DEF one
        <4>4. PICK i \in 1 .. Len(Path[Target(c)]) : n = Path[Target(c)][i] BY <1>4, <3>2, OnPath
        <4>5. i = 1 BY <4>2, <4>3, <4>4
        <4>6. n = top BY <4>2, <4>3, <4>4, <4>5
        <4>7. QED BY <1>6, <4>6
      <3>4. LevelIs(c, m[c]) /\ 1 \in 1 .. m[c].level - 1 BY <3>1, <3>3, LevelType DEF Kept
      <3>5. allowed[top]["cpus"] = m[c].want BY <1>1, <3>4 DEF LevelIs
      <3>6. QED BY <1>6, <2>1, <2>5, <3>5
    <2>6. QED BY <2>4, <2>5
  <1>7. QED BY <1>5, <1>6

\* A call that is upset relies on nothing.
LEMMA UpsetKept ==
  ASSUME NEW c \in Clients, m'[c].seen = "upset"
  PROVE  Kept(c)'
  BY DEF Kept, FillIs, LevelIs, ThereIs, WideIs

LEMMA FillKept ==
  ASSUME TypeInv, NEW c \in Clients, Kept(c), copy_from_parent(c)
  PROVE  Kept(c)'
  <1> DEFINE es == m[c].empties
             n == Last(es)
             f == m[c].file
             v == m[c].value
             q == m'[c]
  <1>1. /\ TypeInv' /\ m[c].pc = "fill" /\ UNCHANGED <<v2, mix, leaf, dirs, flags, tasks>>
        /\ \/ ~Accepts(n, f, v) /\ q = Copied(c) /\ Quiet(c)
           \/ /\ Accepts(n, f, v)
              /\ allowed' = [allowed EXCEPT ![n][f] = v]
              /\ allowed'[n][f] = v
              /\ \/ Len(es) = 1 /\ q = Copied(c)
                 \/ /\ Len(es) > 1 /\ Carries(q, m[c]) /\ q.pc = "fill"
                    /\ q.value = v /\ q.file = f
                    /\ Len(q.empties) = Len(es) - 1
                    /\ \A i \in 1 .. Len(es) - 1 : q.empties[i] = es[i]
    BY FillType
  <1>2. Copying(m[c]) /\ On(leaf[c]) \subseteq Nodes \ {Root} BY <1>1, CallFacts DEF Copying
  <1>3. CASE m[c].seen = "upset"
    <2>1. Copied(c).pc = "idle" \/ Copied(c).seen = "upset" BY <1>2, <1>3, CopiedFacts DEF Carries
    <2>2. q.pc = "idle" \/ q.seen = "upset" BY <1>1, <1>3, <2>1 DEF Carries
    <2>3. QED BY <1>1, <2>2, RestKept, UpsetKept
  <1>4. CASE m[c].seen # "upset" /\ ~Accepts(n, f, v)
    <2>1. q = Copied(c) /\ UNCHANGED <<leaf, dirs, allowed, flags>> BY <1>1, <1>4 DEF Quiet
    <2>2. (\A k \in On(leaf[c]) : Keeps(k)) /\ Narrow(c) BY <1>1, <1>2, <2>1, SameKeeps, SameNarrow
    <2>3. ~Shared(leaf[c]) BY <1>1, <1>4, FillAccepted
    <2>4. QED BY <1>1, <1>2, <2>1, <2>2, <2>3, CopiedKept
  <1>5. CASE m[c].seen # "upset" /\ Accepts(n, f, v)
    <2>1. FillIs(m[c]) /\ ThereIs(c, m[c]) BY DEF Kept
    <2>2. Grows(n, f) BY <1>1, <1>5, <2>1, FillsGrows
    <2>3. n \in Nodes \ {Root} /\ f \in Files /\ v # {} /\ Len(es) \in Nat \ {0} /\ es[1] = Target(c)
          /\ n = es[Len(es)] /\ \A i \in 1 .. Len(es) - 1 : Parent[es[i]] = es[i + 1]
      BY <1>1, FillFacts
    <2>4. \A k \in On(leaf[c]) : Keeps(k) BY <1>2, <2>2, <2>3, GrowsKeeps
    <2>5. Narrow(c) BY <1>1, <1>5, <2>2, FillNarrow
    <2>6. CASE Len(es) = 1 /\ q = Copied(c)
      <3>1. f = "cpus" => allowed'[Target(c)]["cpus"] # {} BY <1>1, <1>5, <2>3, <2>6
      <3>2. QED BY <1>1, <1>2, <2>4, <2>5, <2>6, <3>1, CopiedKept
    <2>7. CASE /\ Len(es) > 1 /\ Carries(q, m[c]) /\ q.pc = "fill" /\ q.value = v /\ q.file = f
               /\ Len(q.empties) = Len(es) - 1
               /\ \A i \in 1 .. Len(es) - 1 : q.empties[i] = es[i]
      <3>1. LevelIs(c, m[c])' BY <1>1, <2>4, <2>7, LevelsKept
      <3>2. WideIs(c, m[c])' BY <1>1, <2>5, <2>7, WideKept
      <3>3. Goal(c, m[c])' = Target(c) /\ Goal(c, m[c]) = Target(c) BY <1>1, <2>7 DEF Goal, Target, Carries
      <3>4. \A i \in 1 .. Len(es) : es[i] \in On(leaf[c]) BY <1>2, CopyFacts, CallFacts
      <3>5. ASSUME NEW i \in 1 .. Len(es) - 1
            PROVE  q.empties[i] \in dirs /\ allowed'[q.empties[i]][f] \in {{}, allowed'[Parent[q.empties[i]]][f]}
        <4>1. i \in 1 .. Len(es) /\ q.empties[i] = es[i] BY <2>3, <2>7
        <4>2. Keeps(es[i]) BY <2>4, <3>4, <4>1
        <4>3. es[i] \in dirs /\ allowed[es[i]][f] \in {{}, allowed[Parent[es[i]]][f]}
          BY <1>2, <1>5, <2>1, <4>1 DEF FillIs, ThereIs
        <4>4. QED BY <2>3, <4>1, <4>2, <4>3 DEF Keeps
      <3>6. allowed'[Parent[Last(q.empties)]][f] = v
        <4>1. Len(es) - 1 \in 1 .. Len(es) - 1 /\ (Len(es) - 1) + 1 = Len(es) BY <2>3, <2>7
        <4>2. Last(q.empties) = es[Len(es) - 1] BY <2>7, <4>1 DEF Last
        <4>3. Parent[Last(q.empties)] = n BY <2>3, <4>1, <4>2
        <4>4. QED BY <1>1, <1>5, <4>3
      <3>7. Keeps(Target(c)) BY <2>4, CallFacts
      <3>8. Target(c) \in dirs /\ (f = "mems" /\ Shared(leaf[c]) => allowed'[Target(c)]["cpus"] # {})
        <4>1. "cpus" \in Files BY DEF Files
        <4>2. QED BY <1>1, <1>2, <1>5, <2>1, <3>3, <3>7, <4>1 DEF ThereIs, Keeps
      <3>9. Shared(leaf[c])' = Shared(leaf[c]) BY <1>1 DEF Shared
      <3> HIDE DEF es, n, f, v, q
      <3>10. FillIs(m[c])' BY <2>7, <3>5, <3>6 DEF FillIs, Last, q
      <3>11. ThereIs(c, m[c])' BY <1>1, <2>7, <3>3, <3>5, <3>8, <3>9 DEF ThereIs, q
      <3>12. QED BY <3>1, <3>2, <3>10, <3>11 DEF Kept
    <2>8. QED BY <1>1, <1>5, <2>6, <2>7
  <1>6. QED BY <1>3, <1>4, <1>5

LEMMA SetLevelKept ==
  ASSUME TypeInv, NEW c \in Clients, Kept(c), SetLevel(c)
  PROVE  Kept(c)'
  <1> DEFINE n == Target(c)
             q == m'[c]
             l == m[c].level
  <1>1. /\ TypeInv' /\ m[c].pc = "level" /\ m[c].op = "topdown" /\ leaf' = leaf
        /\ \/ q = Done(c, "err") \/ q = Done(c, "ok")
           \/ /\ allowed'[n]["cpus"] = m[c].want
              /\ \A k \in Nodes, g \in Files : k # n \/ g # "cpus" => allowed'[k][g] = allowed[k][g]
              /\ q.pc = "mkdir" /\ ~q.down /\ q.level = l + 1
              /\ q.want = m[c].want /\ q.seen = m[c].seen /\ q.widens = m[c].widens
    BY SetLevelType
  <1>2. CASE q = Done(c, "err") \/ q = Done(c, "ok")
    <2>1. q.pc = "idle" BY <1>2, DoneGood
    <2>2. QED BY <1>1, <2>1, RestKept
  <1>3. CASE /\ allowed'[n]["cpus"] = m[c].want
             /\ \A k \in Nodes, g \in Files : k # n \/ g # "cpus" => allowed'[k][g] = allowed[k][g]
             /\ q.pc = "mkdir" /\ ~q.down /\ q.level = l + 1
             /\ q.want = m[c].want /\ q.seen = m[c].seen /\ q.widens = m[c].widens
    <2>1. Levels(c)' = Levels(c) /\ Widening(m[c]) /\ "cpus" \in Files BY <1>1 DEF Levels, Widening, Files
    <2>2. l \in 1 .. Len(Levels(c)) /\ n = Levels(c)[l] BY CallFacts DEF Target, Levels
    <2>3. leaf[c] \in Nodes BY DEF TypeInv
    <2>4. ASSUME m[c].seen # "upset", NEW j \in 1 .. l PROVE allowed'[Levels(c)[j]]["cpus"] = m[c].want
      <3>1. CASE j = l BY <1>3, <2>2, <3>1
      <3>2. CASE j # l
        <4>1. j \in 1 .. Len(Levels(c)) /\ j \in 1 .. l - 1 BY <2>2, <3>2, LevelType
        <4>2. Levels(c)[j] # n BY <2>2, <2>3, <3>2, <4>1, PathStep DEF Levels
        <4>3. Levels(c)[j] \in Nodes BY <4>1, LevelType
        <4>4. allowed[Levels(c)[j]]["cpus"] = m[c].want BY <2>1, <2>4, <4>1 DEF Kept, LevelIs
        <4>5. QED BY <1>3, <2>1, <4>2, <4>3, <4>4
      <3>3. QED BY <3>1, <3>2
    <2>5. ASSUME m[c].seen = "still", m[c].widens, NEW k \in Under(Levels(c)[1]) \ {Levels(c)[1]}
          PROVE  allowed'[k]["cpus"] \subseteq m[c].want
      <3>1. allowed[k]["cpus"] \subseteq m[c].want /\ k \in Nodes BY <2>1, <2>5 DEF Kept, WideIs, Under
      <3>2. QED BY <1>3, <2>1, <3>1
    <2> HIDE DEF n
    <2>6. l \in Nat /\ (l + 1) - 1 = l BY <2>2
    <2> HIDE DEF q, l
    <2>7. FillIs(m[c])' /\ ThereIs(c, m[c])' BY <1>3 DEF FillIs, ThereIs, Copying, q
    <2>8. LevelIs(c, m[c])'
      <3> SUFFICES ASSUME q.seen # "upset", NEW j \in 1 .. q.level - 1
                   PROVE  allowed'[Levels(c)[j]]["cpus"] = q.want
        BY <2>1 DEF LevelIs, q
      <3>1. j \in 1 .. l BY <1>3, <2>6
      <3>2. QED BY <1>3, <2>4, <3>1
    <2>9. WideIs(c, m[c])' BY <1>3, <2>1, <2>5 DEF WideIs, Under, q
    <2>10. QED BY <2>7, <2>8, <2>9 DEF Kept
  <1>4. QED BY <1>1, <1>2, <1>3

\* What a step of c is to the others.
LEMMA OthersWatch ==
  ASSUME TypeInv, NEW c \in Clients,
         \/ Starts(c) \/ Flags(c) \/ Mkdir(c) \/ find_no_empty_parent(c)
         \/ copy_from_parent(c) \/ Write(c) \/ SetLevel(c) \/ Rmdir(c),
         NEW k \in Clients \ {c}
  PROVE  UNCHANGED <<v2, leaf>> /\ Watches(k)
  <1>1. CASE Starts(c)
    <2>1. UNCHANGED <<v2, leaf, dirs, allowed, flags>> /\ m'[k] = m[k]
      BY <1>1 DEF Starts, Begins, Quiet
    <2>2. QED BY <2>1, SameWatches
  <1>2. CASE Flags(c) BY <1>2 DEF Flags
  <1>3. CASE Mkdir(c) BY <1>3, MkdirType
  <1>4. CASE find_no_empty_parent(c)
    <2>1. Quiet(c) BY <1>4, FindType
    <2>2. UNCHANGED <<v2, leaf, dirs, allowed, flags>> /\ m'[k] = m[k] BY <2>1 DEF Quiet
    <2>3. QED BY <2>2, SameWatches
  <1>5. CASE copy_from_parent(c) BY <1>5, FillType
  <1>6. CASE Write(c) BY <1>6, WriteType
  <1>7. CASE SetLevel(c) BY <1>7, SetLevelType
  <1>8. CASE Rmdir(c) BY <1>8, RmdirType
  <1>9. QED BY <1>1, <1>2, <1>3, <1>4, <1>5, <1>6, <1>7, <1>8

LEMMA KeptStep == TypeInv /\ KeptInv /\ [Next]_vars => KeptInv'
  <1> SUFFICES ASSUME TypeInv, KeptInv, [Next]_vars PROVE KeptInv' OBVIOUS
  <1>1. TypeInv' BY TypeStep
  <1>2. ASSUME UNCHANGED <<v2, mix, leaf, dirs, allowed, flags, m>> PROVE KeptInv'
    <2>1. ASSUME NEW k \in Clients PROVE Kept(k)'
      <3>1. Watches(k) BY <1>2, SameWatches
      <3>2. QED BY <1>1, <1>2, <3>1, OthersKept
    <2>2. QED BY <2>1 DEF KeptInv
  <1>3. ASSUME NEW c \in Clients,
               \/ Starts(c) \/ Flags(c) \/ Mkdir(c) \/ find_no_empty_parent(c)
               \/ copy_from_parent(c) \/ Write(c) \/ SetLevel(c) \/ Rmdir(c)
        PROVE  KeptInv'
    <2>1. Kept(c) BY DEF KeptInv
    <2>2. Kept(c)'
      <3>1. CASE Starts(c) BY <3>1, StartsKept
      <3>2. CASE Flags(c) BY <1>1, <3>2, RestKept DEF Flags
      <3>3. CASE Mkdir(c) BY <2>1, <3>3, MkdirKept
      <3>4. CASE find_no_empty_parent(c) BY <2>1, <3>4, FindKept
      <3>5. CASE copy_from_parent(c) BY <2>1, <3>5, FillKept
      <3>6. CASE Write(c)
        <4>1. m'[c].pc \in {"write", "idle"} BY <3>6, WriteType
        <4>2. QED BY <1>1, <4>1, RestKept
      <3>7. CASE SetLevel(c) BY <2>1, <3>7, SetLevelKept
      <3>8. CASE Rmdir(c)
        <4>1. m'[c].pc \in {"rmdir", "idle"} BY <3>8, RmdirType
        <4>2. QED BY <1>1, <4>1, RestKept
      <3>9. QED BY <1>3, <3>1, <3>2, <3>3, <3>4, <3>5, <3>6, <3>7, <3>8
    <2>3. ASSUME NEW k \in Clients \ {c} PROVE Kept(k)'
      <3>1. UNCHANGED <<v2, leaf>> /\ Watches(k) BY <1>3, OthersWatch
      <3>2. QED BY <1>1, <3>1, OthersKept
    <2>4. QED BY <2>2, <2>3 DEF KeptInv
  <1>4. QED BY <1>2, <1>3, StepCases

LEMMA KeptInit == Init => KeptInv
  <1> SUFFICES ASSUME Init, NEW c \in Clients PROVE Kept(c) BY DEF KeptInv
  <1>1. m[c] = Idle BY DEF Init
  <1>2. m[c].pc = "idle" BY <1>1, IdleType
  <1>3. QED BY <1>2 DEF Kept, FillIs, LevelIs, ThereIs, WideIs, Copying, Widening

LEMMA KeptInvariant == Spec => [](TypeInv /\ KeptInv)
  <1>1. QED BY TypeInit, TypeStep, KeptInit, KeptStep, PTL DEF Spec

-----------------------------------------------------------------------------
(***************************************************************************)
(* The action properties.                                                  *)
(***************************************************************************)

\* A call goes on by a step of its own handle.
LEMMA OwnStep ==
  ASSUME TypeInv, [Next]_vars, NEW c \in Clients, m[c].pc # "idle",
         m'[c].pc = "idle" \/ m'[c].empties # m[c].empties
  PROVE  /\ UNCHANGED <<v2, leaf>>
         /\ \/ Mkdir(c) \/ find_no_empty_parent(c) \/ copy_from_parent(c)
            \/ Write(c) \/ SetLevel(c) \/ Rmdir(c)
  <1>1. CASE UNCHANGED m BY <1>1
  <1>2. ASSUME NEW d \in Clients,
               \/ Starts(d) \/ Flags(d) \/ Mkdir(d) \/ find_no_empty_parent(d)
               \/ copy_from_parent(d) \/ Write(d) \/ SetLevel(d) \/ Rmdir(d)
        PROVE  /\ UNCHANGED <<v2, leaf>>
               /\ \/ Mkdir(c) \/ find_no_empty_parent(c) \/ copy_from_parent(c)
                  \/ Write(c) \/ SetLevel(c) \/ Rmdir(c)
    <2>1. CASE d # c
      <3>1. Watches(c) BY <1>2, <2>1, OthersWatch
      <3>2. PICK s \in {"still", "grown", "upset"} : m'[c] = [m[c] EXCEPT !.seen = s] BY <3>1 DEF Watches
      <3>3. m[c] \in Call BY CallFacts
      <3>4. m'[c].pc = m[c].pc /\ m'[c].empties = m[c].empties BY <3>2, <3>3 DEF Call
      <3>5. QED BY <3>4
    <2>2. CASE d = c
      <3>1. ~Starts(c) /\ ~Flags(c) BY DEF Starts, Begins, Flags
      <3>2. UNCHANGED <<v2, leaf>>
        BY <1>2, <2>2, <3>1, MkdirType, FindType, FillType, WriteType, SetLevelType, RmdirType DEF Quiet
      <3>3. QED BY <1>2, <2>2, <3>1, <3>2
    <2>3. QED BY <2>1, <2>2
  <1>3. QED BY <1>1, <1>2, StepCases

\* The copy fills only empty files ("if the file's contents are 0", cpuset.rs:170)
\* as long as nobody else sets one meanwhile, whoever else copies into the same
\* directories.
THEOREM CopiesKeepSets == Spec => CopyKeepsSets
  <1> DEFINE A == \A c \in Clients :
               At(c, "fill") /\ m[c].seen # "upset" /\ m'[c].empties # m[c].empties
                 => \A n \in Nodes, f \in Files : allowed[n][f] \in {{}, allowed'[n][f]}
  <1>1. TypeInv /\ KeptInv /\ [Next]_vars => [A]_vars
    <2> SUFFICES ASSUME TypeInv, KeptInv, [Next]_vars, NEW c \in Clients,
                        At(c, "fill"), m[c].seen # "upset", m'[c].empties # m[c].empties,
                        NEW n \in Nodes, NEW f \in Files
                 PROVE  allowed[n][f] \in {{}, allowed'[n][f]}
      OBVIOUS
    <2>1. m[c].pc = "fill" /\ FillIs(m[c]) BY DEF At, KeptInv, Kept
    <2>2. copy_from_parent(c)
      <3>1. \/ Mkdir(c) \/ find_no_empty_parent(c) \/ copy_from_parent(c)
            \/ Write(c) \/ SetLevel(c) \/ Rmdir(c)
        BY <2>1, OwnStep
      <3>2. QED BY <2>1, <3>1, MkdirType, FindType, WriteType, SetLevelType, RmdirType
    <2> DEFINE k == Last(m[c].empties)
               g == m[c].file
    <2>3. \/ UNCHANGED allowed
          \/ allowed' = [allowed EXCEPT ![k][g] = m[c].value]
      BY <2>2, FillType DEF Quiet
    <2>4. CASE UNCHANGED allowed BY <2>4
    <2>5. CASE allowed' = [allowed EXCEPT ![k][g] = m[c].value]
      <3>1. Grows(k, g) BY <2>1, <2>5, FillsGrows
      <3>2. CASE n = k /\ f = g BY <3>1, <3>2 DEF Grows
      <3>3. CASE n # k \/ f # g BY <3>1, <3>3 DEF Grows
      <3>4. QED BY <3>2, <3>3
    <2>6. QED BY <2>3, <2>4, <2>5
  <1>2. QED BY <1>1, KeptInvariant, PTL DEF Spec, CopyKeepsSets

\* What a return is: a step of its own.
LEMMA ReturnStep ==
  ASSUME TypeInv, KeptInv, [Next]_vars, NEW c \in Clients, NEW op, NEW r, Returns(c, op, r)
  PROVE  /\ m[c].pc # "idle" /\ m[c].op = op /\ m'[c].pc = "idle" /\ m'[c].res = r
         /\ Kept(c) /\ UNCHANGED <<v2, leaf>>
         /\ \/ Mkdir(c) \/ find_no_empty_parent(c) \/ copy_from_parent(c)
            \/ Write(c) \/ SetLevel(c) \/ Rmdir(c)
  <1>1. m[c].pc # "idle" /\ m[c].op = op /\ m'[c].pc = "idle" /\ m'[c].res = r BY DEF Returns, At
  <1>2. /\ UNCHANGED <<v2, leaf>>
        /\ \/ Mkdir(c) \/ find_no_empty_parent(c) \/ copy_from_parent(c)
           \/ Write(c) \/ SetLevel(c) \/ Rmdir(c)
    BY <1>1, OwnStep
  <1>3. QED BY <1>1, <1>2 DEF KeptInv

\* A copy ends the call only for new, and after the memory nodes.
LEMMA CopyReturns ==
  ASSUME TypeInv, NEW c \in Clients, m'[c].pc = "idle", find_no_empty_parent(c) \/ copy_from_parent(c)
  PROVE  Copying(m[c]) /\ m[c].op = "new" /\ m[c].file = "mems" /\ m'[c] = Copied(c)
  <1>1. m'[c] = Copied(c) /\ Copying(m[c]) BY FindType, FillType DEF Copying
  <1>2. QED BY <1>1, CopiedFacts

\* enable_cpus_topdown that returns Ok has given the CPUs to every level above the
\* cgroup, from the directory below the root to its parent (manager/fs.rs:442),
\* whatever the others create, copy and set elsewhere.
THEOREM LevelsCovered == Spec => TopdownCovers
  <1> DEFINE A == \A c \in Clients : Returns(c, "topdown", "ok") /\ m[c].seen # "upset" =>
                    \A n \in On(leaf[c]) \ {leaf[c]} : allowed'[n]["cpus"] = m[c].want
  <1>1. TypeInv /\ KeptInv /\ [Next]_vars => [A]_vars
    <2> SUFFICES ASSUME TypeInv, KeptInv, [Next]_vars, NEW c \in Clients,
                        Returns(c, "topdown", "ok"), m[c].seen # "upset", NEW n \in On(leaf[c]) \ {leaf[c]}
                 PROVE  allowed'[n]["cpus"] = m[c].want
      OBVIOUS
    <2>1. /\ m[c].op = "topdown" /\ m'[c].pc = "idle" /\ m'[c].res = "ok" /\ Kept(c)
          /\ m[c].pc # "idle"
          /\ \/ Mkdir(c) \/ find_no_empty_parent(c) \/ copy_from_parent(c)
             \/ Write(c) \/ SetLevel(c) \/ Rmdir(c)
      BY ReturnStep
    <2>2. ~Mkdir(c) BY <2>1, MkdirType, DoneGood
    <2>3. SetLevel(c) BY <2>1, <2>2, CopyReturns, WriteType, RmdirType
    <2>4. /\ allowed'[Target(c)]["cpus"] = m[c].want
          /\ \A k \in Nodes, g \in Files : k # Target(c) \/ g # "cpus" => allowed'[k][g] = allowed[k][g]
          /\ m[c].level = Len(Levels(c))
      BY <2>1, <2>3, SetLevelType, DoneGood
    <2>5. leaf[c] \in Nodes BY DEF TypeInv
    <2>6. PICK i \in 1 .. Len(Levels(c)) : n = Levels(c)[i] BY <2>5, OnPath DEF Levels
    <2>7. Target(c) = Levels(c)[Len(Levels(c))] BY <2>4 DEF Target, Levels
    <2>8. CASE n = Target(c) BY <2>4, <2>8
    <2>9. CASE n # Target(c)
      <3>1. i \in 1 .. m[c].level - 1 BY <2>4, <2>6, <2>7, <2>9, LevelType
      <3>2. allowed[n]["cpus"] = m[c].want BY <2>1, <2>6, <3>1 DEF Kept, LevelIs, Widening
      <3>3. n \in Nodes /\ "cpus" \in Files BY CallFacts DEF Files
      <3>4. QED BY <2>4, <2>9, <3>2, <3>3
    <2>10. QED BY <2>8, <2>9
  <1>2. QED BY <1>1, KeptInvariant, PTL DEF Spec, TopdownCovers

\* A new cgroup takes tasks: post_create has filled it, and every empty ancestor
\* that was made on the way, though any number of other handles create cgroups in
\* the same directories at the same time (cpuset.rs:120).
THEOREM NewUsable == Spec => CreatedUsable
  <1> DEFINE A == \A c \in Clients : Returns(c, "new", "ok") /\ m[c].seen # "upset" /\ Shared(leaf[c])
                    => Usable(leaf[c])'
  <1>1. TypeInv /\ KeptInv /\ [Next]_vars => [A]_vars
    <2> SUFFICES ASSUME TypeInv, KeptInv, [Next]_vars, NEW c \in Clients,
                        Returns(c, "new", "ok"), m[c].seen # "upset", Shared(leaf[c])
                 PROVE  Usable(leaf[c])'
      OBVIOUS
    <2>1. /\ m[c].op = "new" /\ m'[c].pc = "idle" /\ m'[c].res = "ok" /\ Kept(c)
          /\ m[c].pc # "idle" /\ UNCHANGED <<v2, leaf>>
          /\ \/ Mkdir(c) \/ find_no_empty_parent(c) \/ copy_from_parent(c)
             \/ Write(c) \/ SetLevel(c) \/ Rmdir(c)
      BY ReturnStep
    <2>2. ~Write(c) /\ ~SetLevel(c) /\ ~Rmdir(c) BY <2>1, WriteType, SetLevelType, RmdirType
    <2>3. m[c].level = Len(Levels(c)) BY <2>1, CallFacts DEF CallIs
    <2>4. Target(c) = leaf[c] BY <2>3, LevelType DEF Target, Levels
    <2>5. CASE Mkdir(c)
      <3>1. Target(c) \in dirs' /\ v2 BY <2>1, <2>5, MkdirType, DoneGood
      <3>2. QED BY <2>1, <2>4, <3>1 DEF Usable
    <2>6. CASE find_no_empty_parent(c) \/ copy_from_parent(c)
      <3>1. Copying(m[c]) /\ m[c].file = "mems" /\ m'[c] = Copied(c) BY <2>1, <2>6, CopyReturns
      <3>2. Goal(c, m[c]) = leaf[c] BY <2>4 DEF Goal, Target
      <3>3. leaf[c] \in dirs /\ allowed[leaf[c]]["cpus"] # {}
        BY <2>1, <3>1, <3>2 DEF Kept, ThereIs, Copying
      <3>4. leaf[c] \in Nodes \ {Root} /\ "cpus" \in Files /\ "mems" \in Files BY DEF TypeInv, Files
      <3>5. dirs' = dirs /\ allowed'[leaf[c]]["cpus"] # {} /\ allowed'[leaf[c]]["mems"] # {}
        <4>1. CASE find_no_empty_parent(c)
          <5>1. Quiet(c) /\ m[c].pc = "find" BY <4>1, FindType
          <5>2. m[c].dir \in dirs BY <2>1, <5>1 DEF Kept, ThereIs
          <5>3. allowed[m[c].dir]["mems"] # {} /\ m[c].empties = << >>
            <6>1. \/ m[c].dir \notin dirs
                  \/ allowed[m[c].dir][m[c].file] # {} /\ m[c].empties = << >>
                  \/ m'[c].pc \in {"find", "fill"}
              BY <4>1, FindType
            <6>2. QED BY <2>1, <3>1, <5>2, <6>1
          <5>4. m[c].dir = leaf[c] BY <3>1, <3>2, <5>1, <5>3, CallFacts DEF ClimbIs
          <5>5. QED BY <3>3, <5>1, <5>3, <5>4 DEF Quiet
        <4>2. CASE copy_from_parent(c)
          <5>1. m[c].pc = "fill" /\ dirs' = dirs BY <4>2, FillType
          <5>2. Accepts(Last(m[c].empties), m[c].file, m[c].value) BY <2>1, <5>1, FillAccepted
          <5>3. /\ allowed'[Last(m[c].empties)]["mems"] = m[c].value
                /\ \A k \in Nodes, g \in Files :
                     k # Last(m[c].empties) \/ g # "mems" => allowed'[k][g] = allowed[k][g]
                /\ Len(m[c].empties) = 1
            BY <2>1, <3>1, <4>2, <5>2, FillType
          <5>4. Last(m[c].empties) = leaf[c] /\ m[c].value # {} BY <2>4, <5>1, <5>3, FillFacts
          <5>5. QED BY <3>3, <3>4, <5>1, <5>3, <5>4
        <4>3. QED BY <2>6, <4>1, <4>2
      <3>6. QED BY <2>1, <3>3, <3>5 DEF Usable, Files
    <2>7. QED BY <2>1, <2>2, <2>5, <2>6
  <1>2. QED BY <1>1, KeptInvariant, PTL DEF Spec, CreatedUsable

\* Left alone, enable_cpus_topdown succeeds whenever no cgroup below has more CPUs
\* than it asks for: each level is widened before the one below needs it.
THEOREM WideningWorks == Spec => WideningSucceeds
  <1> DEFINE A == \A c \in Clients : Returns(c, "topdown", "err") /\ m[c].seen = "still" /\ Shared(leaf[c])
                    => ~ m[c].widens
  <1>1. TypeInv /\ KeptInv /\ [Next]_vars => [A]_vars
    <2> SUFFICES ASSUME TypeInv, KeptInv, [Next]_vars, NEW c \in Clients,
                        Returns(c, "topdown", "err"), m[c].seen = "still", Shared(leaf[c]), m[c].widens
                 PROVE  FALSE
      OBVIOUS
    <2>1. /\ m[c].op = "topdown" /\ m'[c].pc = "idle" /\ m'[c].res = "err" /\ Kept(c)
          /\ m[c].pc # "idle"
          /\ \/ Mkdir(c) \/ find_no_empty_parent(c) \/ copy_from_parent(c)
             \/ Write(c) \/ SetLevel(c) \/ Rmdir(c)
      BY ReturnStep
    <2> DEFINE n == Target(c)
               top == Levels(c)[1]
               want == m[c].want
    <2>2. ~Mkdir(c)
      <3>1. SUFFICES ASSUME Mkdir(c) PROVE FALSE OBVIOUS
      <3>2. m[c].pc = "mkdir" /\ m[c].down /\ Parent[m[c].dir] \notin dirs
        BY <2>1, <3>1, MkdirType, DoneGood
      <3>3. QED BY <2>1, <3>2 DEF Kept, WideIs, Widening
    <2>3. SetLevel(c) BY <2>1, <2>2, CopyReturns, WriteType, RmdirType
    <2>4. /\ m[c].pc = "level" /\ want \in Wants
          /\ ~Accepts(n, "cpus", want)
      BY <2>1, <2>3, SetLevelType, DoneGood
    <2>5. LevelIs(c, m[c]) /\ ThereIs(c, m[c]) /\ WideIs(c, m[c]) /\ Widening(m[c])
      BY <2>1 DEF Kept, Widening
    <2>6. n \in dirs /\ want # {} /\ want \subseteq Ids["cpus"] /\ "cpus" \in Files
      BY <2>4, <2>5, CallFacts, WantsAssumption DEF ThereIs, Files
    <2>7. leaf[c] \in Nodes /\ n \in Nodes \ {Root} /\ n \in On(leaf[c])
          /\ m[c].level \in 1 .. Len(Levels(c)) /\ n = Levels(c)[m[c].level]
      BY CallFacts DEF TypeInv, Target, Levels
    <2>8. want \subseteq allowed[Parent[n]]["cpus"]
      <3>1. CASE m[c].level = 1
        <4>1. Parent[n] = Root BY <2>7, <3>1, PathStep DEF Levels
        <4>2. QED BY <2>6, <4>1 DEF TypeInv, TreeOK
      <3>2. CASE m[c].level # 1
        <4>1. Parent[n] = Levels(c)[m[c].level - 1] BY <2>7, <3>2, PathStep DEF Levels
        <4>2. m[c].level - 1 \in 1 .. m[c].level - 1 BY <2>7, <3>2, LevelType
        <4>3. allowed[Parent[n]]["cpus"] = want BY <2>5, <4>1, <4>2 DEF LevelIs
        <4>4. QED BY <4>3
      <3>3. QED BY <3>1, <3>2
    <2>9. ASSUME NEW k \in Children(n) PROVE allowed[k]["cpus"] \subseteq want
      <3>1. k \in Nodes \ {Root} /\ Parent[k] = n BY DEF Children
      <3>2. 1 \in 1 .. Len(Path[leaf[c]]) /\ top = Path[leaf[c]][1] BY LevelType DEF Levels
      <3>3. Parent[top] = Root BY <2>7, <3>2, PathStep
      <3>4. top \in On(n)
        <4>1. /\ Len(Path[n]) = m[c].level
              /\ \A j \in 1 .. m[c].level : Path[n][j] = Path[leaf[c]][j]
          BY <2>7, PathPrefix DEF Levels
        <4>2. 1 \in 1 .. m[c].level /\ 1 \in 1 .. Len(Path[n]) BY <2>7, <4>1, LevelType
        <4>3. Path[n][1] \in On(n) BY <2>7, <4>2, PathStep
        <4>4. QED BY <3>2, <4>1, <4>2, <4>3
      <3>5. top \in On(k) BY <3>1, <3>4, OnDef
      <3>6. k # top BY <2>7, <3>1, <3>3
      <3>7. QED BY <2>5, <3>1, <3>5, <3>6 DEF WideIs, Under
    <2>10. \A s \in Siblings(n) \union {n} : Exclusive["cpus"] \notin flags[s] BY <2>6, <2>7 DEF Shared
    <2>11. Accepts(n, "cpus", want) BY <2>6, <2>8, <2>9, <2>10 DEF Accepts
    <2>12. QED BY <2>4, <2>11
  <1>2. QED BY <1>1, KeptInvariant, PTL DEF Spec, WideningSucceeds

=============================================================================
